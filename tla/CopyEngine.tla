----------------------------- MODULE CopyEngine -----------------------------
(* The copy engine of one follower: the /copy routes edit the followed wallets and  *)
(* the filters while the engine's own thread runs a pass over a snapshot of them,   *)
(* mirroring the indexed trades newer than each leader's cursor.  The cursor is a   *)
(* block number, saved once per leader and pass.                                    *)
EXTENDS Integers, FiniteSets

CONSTANTS
    Leaders, Tokens, Values,
    Limits,                                         \* trades read per leader and pass
    Settings,                                       \* filters the user may choose
    MaxBlock, MaxLegs, MaxEdits, MaxCopyFaults      \* bounds

Sides == {"buy", "sell"}

VARIABLES
    followed,     \* copy_wallets: per leader, followed, enabled, last_block, flat_usdc
    filters,      \* copy_settings
    held,         \* positions: tracked quantity per token
    trades,         \* the indexed trades
    clock,        \* the alert loop's cursor
    stopped,      \* the account is paused or frozen
    pass,         \* the engine's pass
    edits, cfaults,
    copied,       \* copies sent per trade
    decided,      \* trades skipped by a filter or a refusal, or copied
    joined,       \* per leader: the block from which its trades are to be copied
    again         \* a leader was followed anew, from a block already passed
copyVars == <<followed, filters, held, trades, clock, stopped, pass, edits, cfaults, copied, decided,
              joined, again>>

NotFollowed == [on |-> FALSE, enabled |-> FALSE, last |-> 0, flat |-> 0]
NoPass == [step |-> "rest", rows |-> [l \in Leaders |-> NotFollowed], todo |-> {}, filters |-> 0, limit |-> 0,
           open |-> 0, leader |-> 0, last |-> 0, left |-> {}, advanced |-> 0, manual |-> FALSE]
TradeIds == 1..MaxLegs
Trades == [n : TradeIds, leader : Leaders, block : 1..MaxBlock, side : Sides, token : Tokens, value : Values,
           late : BOOLEAN]

CopyTypeOK ==
    /\ followed \in [Leaders -> [on : BOOLEAN, enabled : BOOLEAN, last : 0..MaxBlock, flat : 0..2]]
    /\ filters \in Settings
    /\ held \in [Tokens -> Nat] /\ clock \in 0..MaxBlock /\ stopped \in BOOLEAN
    /\ trades \subseteq Trades
    /\ pass.step \in {"rest", "next", "trading", "saving"} /\ pass.left \subseteq trades
    /\ pass.advanced \in 0..MaxBlock /\ pass.todo \subseteq Leaders
    /\ edits \in 0..MaxEdits /\ cfaults \in 0..MaxCopyFaults
    /\ copied \in [TradeIds -> Nat] /\ decided \subseteq TradeIds
    /\ joined \in [Leaders -> 0..MaxBlock] /\ again \in BOOLEAN

(* No trade is indexed yet, the loop's cursor is at its start, and the user may       *)
(* follow a leader already.                                                         *)
Init ==
    /\ followed \in [Leaders -> {NotFollowed, [NotFollowed EXCEPT !.on = TRUE, !.enabled = TRUE]}]
    /\ filters \in Settings
    /\ held = [t \in Tokens |-> 0]
    /\ trades = {} /\ clock = 0 /\ stopped = FALSE
    /\ pass = NoPass
    /\ edits = 0 /\ cfaults = 0
    /\ copied = [n \in TradeIds |-> 0] /\ decided = {}
    /\ joined = [l \in Leaders |-> 0] /\ again = FALSE

----------------------------------------------------------------------------
(* The indexer adds trades; a wallet resolved late adds one below later blocks.     *)
IndexTrade(l, b, side, tok, v) ==
    LET n == Cardinality(trades) + 1 IN
    /\ n \in TradeIds
    /\ trades' = trades \cup {[n |-> n, leader |-> l, block |-> b, side |-> side, token |-> tok, value |-> v,
                           late |-> \E t \in trades : t.leader = l /\ t.block > b]}
    /\ UNCHANGED <<followed, filters, held, clock, stopped, pass, edits, cfaults, copied, decided,
                   joined, again>>

AdvanceClock ==
    /\ \E t \in trades : t.block > clock
    /\ clock' \in {t.block : t \in {u \in trades : u.block > clock}}
    /\ UNCHANGED <<followed, filters, held, trades, stopped, pass, edits, cfaults, copied, decided,
                   joined, again>>

(* POST /copy/wallet: a leader already followed keeps its cursor.                   *)
add_copy_wallet(l, flat) ==
    LET row == followed[l] IN
    /\ edits < MaxEdits /\ edits' = edits + 1
    /\ followed' = [followed EXCEPT ![l] = [on |-> TRUE, enabled |-> TRUE, flat |-> flat,
                                            last |-> IF row.on THEN row.last ELSE clock]]
    /\ joined' = IF row.on THEN joined ELSE [joined EXCEPT ![l] = clock]
    /\ again' = (again \/ (~row.on /\ (pass.rows[l].on \/ \E t \in trades : t.leader = l /\ t.n \in decided)))
    /\ UNCHANGED <<filters, held, trades, clock, stopped, pass, cfaults, copied, decided>>

remove_copy_wallet(l) ==
    /\ followed[l].on /\ edits < MaxEdits /\ edits' = edits + 1
    /\ followed' = [followed EXCEPT ![l] = NotFollowed]
    /\ UNCHANGED <<filters, held, trades, clock, stopped, pass, cfaults, copied, decided, joined, again>>

set_copy_wallet_enabled(l) ==
    /\ followed[l].on /\ edits < MaxEdits /\ edits' = edits + 1
    /\ followed' = [followed EXCEPT ![l].enabled = ~@]
    /\ UNCHANGED <<filters, held, trades, clock, stopped, pass, cfaults, copied, decided, joined, again>>

set_copy_settings(s) ==
    /\ s # filters /\ edits < MaxEdits /\ edits' = edits + 1
    /\ filters' = s
    /\ UNCHANGED <<followed, held, trades, clock, stopped, pass, cfaults, copied, decided, joined, again>>

StopOrResume ==
    /\ edits < MaxEdits /\ edits' = edits + 1
    /\ stopped' = ~stopped
    /\ UNCHANGED <<followed, filters, held, trades, clock, pass, cfaults, copied, decided, joined, again>>

(* The user trades from the same wallet.                                            *)
ManualTrade(tok, q) ==
    /\ q # held[tok] /\ edits < MaxEdits /\ edits' = edits + 1
    /\ held' = [held EXCEPT ![tok] = q]
    /\ pass' = [pass EXCEPT !.manual = pass.step # "rest"]
    /\ UNCHANGED <<followed, filters, trades, clock, stopped, cfaults, copied, decided, joined, again>>

----------------------------------------------------------------------------
(* copy.py: what to do with one trade of a leader.                                  *)
plan_size(t, s, row) == IF s.proportional THEN t.value ELSE IF row.flat > 0 THEN row.flat ELSE s.flat

decide(t, s, row, quantity, open) ==
    IF t.side = "buy"
    THEN IF \/ t.value < s.min_buy
            \/ s.max_open > 0 /\ open >= s.max_open /\ quantity = 0
            \/ plan_size(t, s, row) = 0
         THEN "skip" ELSE "buy"
    ELSE IF ~s.mirror_sells \/ quantity = 0 THEN "skip" ELSE "sell"

list_positions == Cardinality({tok \in Tokens : held[tok] > 0})

----------------------------------------------------------------------------
StartPass(limit) ==
    /\ pass.step = "rest"
    /\ \E l \in Leaders : followed[l].on /\ followed[l].enabled
    /\ pass' = [NoPass EXCEPT !.step = "next", !.rows = followed, !.filters = filters, !.limit = limit,
                              !.todo = {l \in Leaders : followed[l].on /\ followed[l].enabled},
                              !.open = list_positions]
    /\ UNCHANGED <<followed, filters, held, trades, clock, stopped, edits, cfaults, copied, decided,
                   joined, again>>

Before(t, u) == t.block < u.block \/ (t.block = u.block /\ t.n < u.n)
Newer(l, last) == {t \in trades : t.leader = l /\ t.block > last}
recent_wallet_legs(l, last) ==
    {t \in Newer(l, last) : Cardinality({u \in Newer(l, last) : Before(u, t)}) < pass.limit}

(* The first pass over a leader starts at the head and copies nothing older.        *)
FirstBlock(last) == IF last > 0 THEN last ELSE clock

Fetch(l) ==
    LET last == FirstBlock(pass.rows[l].last) IN
    /\ pass.step = "next" /\ l \in pass.todo
    /\ followed' = IF pass.rows[l].last = 0 /\ followed[l].on
                   THEN [followed EXCEPT ![l].last = last] ELSE followed
    /\ joined' = IF pass.rows[l].last = 0 THEN [joined EXCEPT ![l] = clock] ELSE joined
    /\ pass' = IF last = 0 THEN [pass EXCEPT !.todo = @ \ {l}]
               ELSE [pass EXCEPT !.step = "trading", !.todo = @ \ {l}, !.leader = l, !.last = last,
                                 !.advanced = last, !.left = recent_wallet_legs(l, last)]
    /\ UNCHANGED <<filters, held, trades, clock, stopped, edits, cfaults, copied, decided, again>>

FetchFails(l) ==
    /\ pass.step = "next" /\ l \in pass.todo /\ cfaults < MaxCopyFaults
    /\ cfaults' = cfaults + 1
    /\ pass' = [pass EXCEPT !.todo = @ \ {l}]
    /\ UNCHANGED <<followed, filters, held, trades, clock, stopped, edits, copied, decided, joined, again>>

Oldest(S) == CHOOSE t \in S : \A u \in S \ {t} : Before(t, u)
Row == pass.rows[pass.leader]
Decision(t) == decide(t, pass.filters, Row, held[t.token], pass.open)
Ready(t) == pass.step = "trading" /\ pass.left # {} /\ t = Oldest(pass.left)
Reach(t) == [pass EXCEPT !.left = @ \ {t}, !.advanced = IF @ < t.block THEN t.block ELSE @]

(* A filter, or an executor that declines (stopped account, no pool, no price).     *)
Skip(t) ==
    /\ Ready(t)
    /\ pass' = Reach(t) /\ decided' = decided \cup {t.n}
    /\ UNCHANGED <<followed, filters, held, trades, clock, stopped, edits, cfaults, copied, joined, again>>

Bought(t) == [held EXCEPT ![t.token] = @ + plan_size(t, pass.filters, Row)]
Sold(t) == [held EXCEPT ![t.token] = 0]
After(t) == IF Decision(t) = "buy" THEN Bought(t) ELSE Sold(t)

Recount(t) == IF Decision(t) = "buy" THEN Cardinality({tok \in Tokens : After(t)[tok] > 0}) ELSE pass.open
Copy(t) ==
    /\ Ready(t) /\ Decision(t) # "skip" /\ ~stopped
    /\ held' = After(t)
    /\ copied' = [copied EXCEPT ![t.n] = @ + 1] /\ decided' = decided \cup {t.n}
    /\ pass' = [Reach(t) EXCEPT !.open = Recount(t)]
    /\ UNCHANGED <<followed, filters, trades, clock, stopped, edits, cfaults, joined, again>>

(* The executor fails, before or after the swap was broadcast: the leader's other   *)
(* trades wait for the next pass.                                                   *)
StopHere(t) == [pass EXCEPT !.left = {}]
CopyFails(t, sent) ==
    /\ Ready(t) /\ Decision(t) # "skip" /\ ~stopped /\ cfaults < MaxCopyFaults
    /\ cfaults' = cfaults + 1
    /\ copied' = IF sent THEN [copied EXCEPT ![t.n] = @ + 1] ELSE copied
    /\ pass' = StopHere(t)
    /\ UNCHANGED <<followed, filters, held, trades, clock, stopped, edits, decided, joined, again>>

KeepCursor(row) == row
SaveCursor(row) == IF row.on THEN [row EXCEPT !.last = pass.advanced] ELSE row
set_copy_wallet_last_block ==
    /\ pass.step = "trading" /\ pass.left = {}
    /\ followed' = IF pass.advanced # pass.last THEN [followed EXCEPT ![pass.leader] = SaveCursor(@)]
                   ELSE followed
    /\ pass' = [pass EXCEPT !.step = "next", !.leader = 0, !.last = 0, !.advanced = 0]
    /\ UNCHANGED <<filters, held, trades, clock, stopped, edits, cfaults, copied, decided, joined, again>>

EndPass ==
    /\ pass.step = "next" /\ pass.todo = {}
    /\ pass' = NoPass
    /\ UNCHANGED <<followed, filters, held, trades, clock, stopped, edits, cfaults, copied, decided,
                   joined, again>>

CopyCrash ==
    /\ pass.step # "rest" /\ cfaults < MaxCopyFaults
    /\ cfaults' = cfaults + 1 /\ pass' = NoPass
    /\ UNCHANGED <<followed, filters, held, trades, clock, stopped, edits, copied, decided, joined, again>>

User ==
    \/ \E l \in Leaders : \/ \E f \in 0..1 : add_copy_wallet(l, f)
                          \/ remove_copy_wallet(l) \/ set_copy_wallet_enabled(l)
    \/ \E s \in Settings : set_copy_settings(s)
    \/ StopOrResume
    \/ \E tok \in Tokens, q \in 0..1 : ManualTrade(tok, q)
Pass ==
    \/ \E limit \in Limits : StartPass(limit)
    \/ set_copy_wallet_last_block \/ EndPass
    \/ \E l \in Leaders : Fetch(l) \/ FetchFails(l)
    \/ \E t \in pass.left : \/ (stopped \/ Decision(t) = "skip") /\ Skip(t)
                            \/ Copy(t)
                            \/ \E sent \in BOOLEAN : CopyFails(t, sent)
Next ==
    \/ \E l \in Leaders, b \in 1..MaxBlock, side \in Sides, tok \in Tokens, v \in Values :
          IndexTrade(l, b, side, tok, v)
    \/ AdvanceClock \/ User \/ Pass \/ CopyCrash

Spec == Init /\ [][Next]_copyVars

----------------------------------------------------------------------------
(* A cursor that is a block number and a read of at most 20 trades (copy_keeper     *)
(* 103-165): a trade the cursor has passed without a decision was in a block of     *)
(* which another trade was decided, or was indexed after a later one.               *)
LostOnlyWithinABlock ==
    \A t \in trades :
        LET row == followed[t.leader] IN
        (row.on /\ t.block <= row.last /\ t.block > joined[t.leader] /\ t.n \notin decided)
            => t.late \/ \E u \in trades : /\ u.leader = t.leader /\ u.block = t.block
                                         /\ u.n \in decided

(* A trade is copied a second time only when a failure came between the swap and    *)
(* the saved cursor, or its leader was removed and followed again.                  *)
CopiedTwiceOnlyByFault == cfaults = 0 /\ ~again => \A n \in TradeIds : copied[n] <= 1

(* The engine opens a token only below the limit of open positions, as the pass     *)
(* found it and counting what the pass itself opened; only a trade by hand during   *)
(* the pass makes that count old.                                                   *)
OpensBelowLimit ==
    [][\A tok \in Tokens :
         (pass.step = "trading" /\ held[tok] = 0 /\ held'[tok] > 0 /\ copied' # copied)
            => pass.manual \/ pass.filters.max_open = 0 \/ list_positions < pass.filters.max_open]_copyVars

(* No trade made before the leader was followed is copied.                          *)
NoHistoryCopied ==
    [][\A t \in trades : copied'[t.n] > copied[t.n] => again \/ t.block > joined[t.leader]]_copyVars
=============================================================================
