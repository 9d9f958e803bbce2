-------------------------------- MODULE Rewards --------------------------------
(* What fills earn: the volume contest and the referrals (store.py, monetization/,   *)
(* contest_publish.py).  A fill is recorded by the signing server, on a connection   *)
(* of its own, or by a thread of the bot, on one it keeps; the bot's loop announces   *)
(* the winners of the round that ended and stores them.  One token; a buy and a sale have *)
(* the same quantity.                                                               *)
EXTENDS Integers, FiniteSets, FiniteSetsExt

CONSTANTS
    Users, Sizes,                 \* Sizes: USDC of a fill
    MinNotional, RoundTrip,       \* the contest's filters
    RoundLength, PublishDelay,
    LastTrade, LastTime, MaxFills, MaxRewardFaults

VARIABLES
    time, fills, qty_held, referrer, credits, rounds, winner_rows,   \* the database
    writing, publishing,                                             \* the threads
    rfaults, announced, hung, uncredited, rebound, cut                        \* history

rewardVars == <<time, fills, qty_held, referrer, credits, rounds, winner_rows, writing, publishing,
                rfaults, announced, hung, uncredited, rebound, cut>>

Writers == {"server", "bot"}
Nobody  == 0
NoFill  == [id |-> 0, user |-> Nobody, side |-> "none", usdc |-> 0, ts |-> 0, paper |-> FALSE]
Idle    == [step |-> "rest", fill |-> NoFill]
Quiet   == [step |-> "rest", round |-> -1, result |-> [total |-> 0, trader |-> Nobody, affiliate |-> Nobody]]
Rounds  == {r \in 0..LastTime : r % RoundLength = 0}
RoundOf(ts) == (ts \div RoundLength) * RoundLength

RewardsTypeOK ==
    /\ time \in 0..LastTime
    /\ \A f \in fills : f.user \in Users /\ f.ts <= time
    /\ Cardinality({f.id : f \in fills}) = Cardinality(fills)
    /\ qty_held \in [Users -> Nat] /\ referrer \in [Users -> Users \cup {Nobody}]
    /\ credits \subseteq (1..MaxFills) \X Users
    /\ rounds \subseteq Rounds /\ \A w \in winner_rows : w.round \in Rounds /\ w.user \in Users
    /\ \A w \in Writers : writing[w].step \in {"rest", "sent", "accrue", "hanging"}
    /\ publishing.step \in {"rest", "send", "mark", "trader", "affiliate"}
    /\ rfaults \in 0..MaxRewardFaults

Init ==
    /\ time = 0 /\ fills = {} /\ qty_held = [u \in Users |-> 0]
    /\ referrer = [u \in Users |-> Nobody] /\ credits = {} /\ rounds = {} /\ winner_rows = {}
    /\ writing = [w \in Writers |-> Idle] /\ publishing = Quiet
    /\ rfaults = 0 /\ announced = {} /\ hung = {} /\ uncredited = {} /\ rebound = {} /\ cut = {}

(* A recording waits at most for the lock, seconds against the hour of PublishDelay. *)
Tick ==
    /\ time < LastTime
    /\ \A w \in Writers : (writing[w].step \in {"sent", "hanging"} /\ ~writing[w].fill.paper)
                            => time < writing[w].fill.ts + PublishDelay - 1
    /\ time' = time + 1
    /\ UNCHANGED <<fills, qty_held, referrer, credits, rounds, winner_rows, writing, publishing, rfaults,
                   announced, hung, uncredited, rebound, cut>>

----------------------------------------------------------------------------
(* Fills.  The transaction is out and its time taken; a paper trade is recorded the   *)
(* same way by the command thread, marked by its id and without a time.              *)
Used == {f.id : f \in fills} \cup {writing[w].fill.id : w \in Writers} \cup hung
Trade(w, user, side, usdc, paper) ==
    /\ writing[w].step = "rest" /\ time <= LastTrade
    /\ paper => w = "bot" /\ (side = "sell" => qty_held[user] > 0)
    /\ \E id \in 1..MaxFills :
          /\ id \notin Used /\ \A lower \in 1..(id - 1) : lower \in Used
          /\ writing' = [writing EXCEPT ![w] =
                [step |-> "sent",
                 fill |-> [id |-> id, user |-> user, side |-> side, usdc |-> usdc,
                          ts |-> IF paper THEN 0 ELSE time, paper |-> paper]]]
    /\ UNCHANGED <<time, fills, qty_held, referrer, credits, rounds, winner_rows, publishing, rfaults,
                   announced, hung, uncredited, rebound, cut>>

(* record_fill: the row and the position in one commit; a sale without a position     *)
(* raises in between, which undoes the row only if the connection is closed then.    *)
Sellable(f) == f.side = "buy" \/ qty_held[f.user] > 0
record_fill(w) ==
    LET f == writing[w].fill IN
    /\ writing[w].step = "sent" /\ Sellable(f)
    /\ fills' = fills \cup {f}
    /\ qty_held' = [qty_held EXCEPT ![f.user] = IF f.side = "buy" THEN @ + 1 ELSE @ - 1]
    /\ writing' = [writing EXCEPT ![w].step = "accrue"]
    /\ UNCHANGED <<time, referrer, credits, rounds, winner_rows, publishing, rfaults, announced, hung,
                   uncredited, rebound, cut>>
sell_raises(w) ==
    LET f == writing[w].fill IN
    /\ writing[w].step = "sent" /\ ~Sellable(f)
    /\ writing' = [writing EXCEPT ![w] = IF w = "server" THEN Idle ELSE [@ EXCEPT !.step = "hanging"]]
    /\ hung' = hung \cup {f.id}
    /\ UNCHANGED <<time, fills, qty_held, referrer, credits, rounds, winner_rows, publishing, rfaults,
                   announced, uncredited, rebound, cut>>
(* The connection's next commit stores the row that was left in its transaction.    *)
next_commit ==
    /\ writing["bot"].step = "hanging"
    /\ fills' = fills \cup {writing["bot"].fill} /\ writing' = [writing EXCEPT !["bot"] = Idle]
    /\ UNCHANGED <<time, qty_held, referrer, credits, rounds, winner_rows, publishing, rfaults, announced,
                   hung, uncredited, rebound, cut>>

(* accrue_referral: once per fill, never for a paper one, to whoever referred the buyer. *)
accrue_referral(w) ==
    LET f == writing[w].fill IN
    /\ writing[w].step = "accrue"
    /\ credits' = IF f.paper \/ referrer[f.user] = Nobody THEN credits
                  ELSE credits \cup {<<f.id, referrer[f.user]>>}
    /\ uncredited' = IF referrer[f.user] = Nobody THEN uncredited \cup {f.id} ELSE uncredited
    /\ writing' = [writing EXCEPT ![w] = Idle]
    /\ UNCHANGED <<time, fills, qty_held, referrer, rounds, winner_rows, publishing, rfaults, announced, hung, rebound, cut>>

(* capture_referral: the first binding wins, and none to oneself.                    *)
bind_referral(user, owner) ==
    /\ owner # user
    /\ referrer' = IF referrer[user] = Nobody THEN [referrer EXCEPT ![user] = owner] ELSE referrer
    /\ referrer' # referrer
    /\ rebound' = rebound \cup {r \in Rounds : r + RoundLength <= time}
    /\ UNCHANGED <<time, fills, qty_held, credits, rounds, winner_rows, writing, publishing, rfaults,
                   announced, hung, uncredited, cut>>

----------------------------------------------------------------------------
(* The contest: of the fills of a round those that count, whoever has most of them,   *)
(* and the whole they are a tenth of the fee of.                                    *)
contest_fills_between(r) == {f \in fills : f.ts >= r /\ f.ts < r + RoundLength /\ ~f.paper}
Opposite(f, g) ==
    /\ f.user = g.user /\ f.side # g.side
    /\ f.ts - g.ts <= RoundTrip /\ g.ts - f.ts <= RoundTrip
filter_fills(all) == {f \in all : f.usdc >= MinNotional /\ \A g \in all : ~Opposite(f, g)}
Volume(kept) == MapThenSumSet(LAMBDA f : f.usdc, kept)
Leading(volume) ==                                           \* ties go to the smaller name
    LET best == Max({volume[u] : u \in Users})
    IN IF best = 0 THEN Nobody ELSE Min({u \in Users : volume[u] = best})
settle(r) ==
    LET kept == filter_fills(contest_fills_between(r)) IN
    [total     |-> Volume(kept),
     trader    |-> Leading([u \in Users |-> Volume({f \in kept : f.user = u})]),
     affiliate |-> Leading([u \in Users |-> Volume({f \in kept : referrer[f.user] = u})])]

(* publish_round, once a cycle: the round before the present one, an hour after its   *)
(* end, unless it is marked.                                                        *)
DueAtOnce(r) == time >= r + RoundLength
Due(r) == time >= r + RoundLength + PublishDelay
publish_round ==
    /\ publishing.step = "rest"
    /\ \E r \in Rounds \ rounds :
          /\ r = RoundOf(time) - RoundLength /\ Due(r)
          /\ publishing' = [step |-> "send", round |-> r, result |-> settle(r)]
    /\ UNCHANGED <<time, fills, qty_held, referrer, credits, rounds, winner_rows, writing, rfaults, announced,
                   hung, uncredited, rebound, cut>>
send ==
    /\ publishing.step = "send"
    /\ announced' = announced \cup {[round |-> publishing.round, result |-> publishing.result]}
    /\ publishing' = [publishing EXCEPT !.step = "mark"]
    /\ UNCHANGED <<time, fills, qty_held, referrer, credits, rounds, winner_rows, writing, rfaults, hung,
                   uncredited, rebound, cut>>
(* Not one message went out: the next cycle tries again.                            *)
sends_fail ==
    /\ publishing.step = "send" /\ rfaults < MaxRewardFaults /\ rfaults' = rfaults + 1
    /\ publishing' = Quiet
    /\ UNCHANGED <<time, fills, qty_held, referrer, credits, rounds, winner_rows, writing, announced, hung,
                   uncredited, rebound, cut>>
mark_contest_round ==
    /\ publishing.step = "mark"
    /\ rounds' = rounds \cup {publishing.round} /\ publishing' = [publishing EXCEPT !.step = "trader"]
    /\ UNCHANGED <<time, fills, qty_held, referrer, credits, winner_rows, writing, rfaults, announced, hung,
                   uncredited, rebound, cut>>
record_contest_winner(category, then) ==
    /\ publishing.step = category
    /\ LET user == publishing.result[category] IN
       winner_rows' = IF user = Nobody THEN winner_rows
                      ELSE winner_rows \cup {[round |-> publishing.round, category |-> category, user |-> user]}
    /\ publishing' = IF then = "rest" THEN Quiet ELSE [publishing EXCEPT !.step = then]
    /\ UNCHANGED <<time, fills, qty_held, referrer, credits, rounds, writing, rfaults, announced, hung,
                   uncredited, rebound, cut>>

(* A process stops: the bot with its loop, or the server.                            *)
crash(w) ==
    /\ rfaults < MaxRewardFaults /\ rfaults' = rfaults + 1
    /\ writing' = [writing EXCEPT ![w] = Idle]
    /\ uncredited' = uncredited \cup {writing[w].fill.id}
    /\ hung' = IF writing[w].step = "sent" THEN hung \cup {writing[w].fill.id} ELSE hung
    /\ publishing' = IF w = "bot" THEN Quiet ELSE publishing
    /\ cut' = IF w = "bot" /\ publishing.step # "rest" THEN cut \cup {publishing.round} ELSE cut
    /\ UNCHANGED <<time, fills, qty_held, referrer, credits, rounds, winner_rows, announced, rebound>>

Next ==
    \/ Tick \/ publish_round \/ send \/ sends_fail \/ mark_contest_round \/ next_commit
    \/ record_contest_winner("trader", "affiliate") \/ record_contest_winner("affiliate", "rest")
    \/ \E u \in Users, o \in Users : bind_referral(u, o)
    \/ \E w \in Writers : \/ record_fill(w) \/ sell_raises(w) \/ accrue_referral(w) \/ crash(w)
                          \/ \E u \in Users, s \in {"buy", "sell"}, n \in Sizes, p \in BOOLEAN : Trade(w, u, s, n, p)

Spec == Init /\ [][Next]_rewardVars

----------------------------------------------------------------------------
(* What chats were told of a round is what its fills say at any later time: none is   *)
(* added to a round that was announced.  The affiliate may change with a user who was  *)
(* referred after the round's end.                                                  *)
AnnouncedIsFinal ==
    \A x \in announced :
        LET now == settle(x.round) IN
        /\ x.result.total = now.total /\ x.result.trader = now.trader
        /\ x.result.affiliate = now.affiliate \/ x.round \in rebound

(* The winners in the database are the ones announced, and a marked round has them     *)
(* and was announced, unless a stop cut the publication; without one it is announced   *)
(* once.                                                                            *)
RecordedIsAnnounced ==
    /\ \A row \in winner_rows :
          \E x \in announced : x.round = row.round /\ x.result[row.category] = row.user
    /\ \A r \in rounds \ ({publishing.round} \cup cut) :
          \E x \in announced :
             /\ x.round = r
             /\ {row \in winner_rows : row.round = r} =
                   {[round |-> r, category |-> c, user |-> x.result[c]] :
                       c \in {k \in {"trader", "affiliate"} : x.result[k] # Nobody}}
    /\ \A x \in announced : x.round \in rounds \cup cut \cup {publishing.round}
    /\ \A x, y \in announced : x.round = y.round => x = y \/ x.round \in cut

(* A referrer is credited for the recorded fills of those he referred, paper trades     *)
(* apart, and for each of them unless the process stopped in between or the sale had    *)
(* no position.                                                                     *)
CreditsFollowFills ==
    /\ \A c \in credits : \E f \in fills : f.id = c[1] /\ ~f.paper /\ referrer[f.user] = c[2]
    /\ \A f \in fills : \/ f.paper \/ f.id \in hung \cup uncredited
                        \/ \E c \in credits : c[1] = f.id
                        \/ \E w \in Writers : writing[w].step = "accrue" /\ writing[w].fill = f

RewardsFaithful == AnnouncedIsFinal /\ RecordedIsAnnounced /\ CreditsFollowFills
=============================================================================
