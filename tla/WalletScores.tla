------------------------------ MODULE WalletScores ------------------------------
(* The scores of wallets (indexer/scoring.py, mode composite): whoever created a token,  *)
(* trades like a machine, or first bought together with others is left out, the rest     *)
(* is ranked against each other, and the ranking is written over the stored scores.    *)
(* A run reads the database three times while the indexer goes on; runs may overlap.    *)
EXTENDS Integers, Sequences, FiniteSets, SequencesExt, FiniteSetsExt

CONSTANTS
    Traders,
    Profiles,                  \* what the database says of a wallet: its closed trades, wins, exit
                               \* multiple, variance, entry percentile, the blocks of its swaps, its
                               \* first purchases (token and block) and who funded it, when
    MIN_CLOSED_TRADES, MinWallets, MinOccurrences, MinHolding, WindowSeconds,
    Weights, Unit,             \* Unit: a percentile of 1
    Runs, MaxNews

VARIABLES
    profile, creators,         \* the database
    table,                     \* wallet_scores
    scorer,                    \* the runs, numbered as they start
    news, dropped_saves,
    stored                     \* runs that were saved, in that order

scoreVars == <<profile, creators, table, scorer, news, dropped_saves, stored>>

NoRow == [score |-> 0, run |-> 0]
Waiting == [step |-> "rest", stats |-> [w \in {} |-> 0], insiders |-> {}, scores |-> [w \in {} |-> 0], seen |-> 0]

ScoresTypeOK ==
    /\ profile \in [Traders -> Profiles] /\ creators \subseteq Traders
    /\ \A w \in Traders : table[w].run \in 0..Runs
    /\ \A r \in 1..Runs : /\ scorer[r].step \in {"rest", "stats", "insiders", "events", "saved"}
                          /\ \A w \in DOMAIN scorer[r].scores : scorer[r].scores[w] \in 0..Unit * Unit
    /\ news \in 0..MaxNews

Init ==
    /\ profile \in [Traders -> Profiles] /\ creators = {}
    /\ table = [w \in Traders |-> NoRow] /\ scorer = [r \in 1..Runs |-> Waiting]
    /\ news = 0 /\ dropped_saves = {} /\ stored = <<>>

----------------------------------------------------------------------------
(* A wallet with swaps enough is a machine when half the blocks it trades in have two of  *)
(* them, or the middle one of the pauses between its swaps is short.                  *)
Times(e) == [b \in {e[i] : i \in 1..Len(e)} |-> Cardinality({i \in 1..Len(e) : e[i] = b})]
MedianPause(e) ==
    LET gaps == SortSeq([i \in 1..(Len(e) - 1) |-> e[i + 1] - e[i]], <)
    IN gaps[1 + Len(gaps) \div 2]
LikelyMev(e) ==
    LET blocks == Times(e) IN
    /\ Len(e) >= MinOccurrences
    /\ \/ 2 * Cardinality({b \in DOMAIN blocks : blocks[b] >= 2}) >= Cardinality(DOMAIN blocks)
       \/ Len(e) > 1 /\ MedianPause(e) < MinHolding
detect_likely_mev(facts) == {w \in Traders : LikelyMev(facts[w].swaps)}

(* union: whoever had b's root has a's.                                             *)
Union(root, pair) ==
    LET a == root[pair[1]]
        b == root[pair[2]]
    IN [w \in DOMAIN root |-> IF root[w] = b THEN a ELSE root[w]]
Clusters(pairs, W) == FoldLeft(Union, [w \in W |-> w], pairs)
Chain(list) == [i \in 1..(Len(list) - 1) |-> <<list[i], list[i + 1]>>]
Star(list) == [i \in 1..(Len(list) - 1) |-> <<list[1], list[i + 1]>>]
Joined(lists(_), keys) == FoldSet(LAMBDA k, out : out \o lists(k), <<>>, keys)

(* Whoever the same wallet funded, in the order of time, the next one soon after.       *)
sybil_clusters(facts) ==
    LET Entries(f) == SetToSortSeq({w \in Traders : facts[w].fund.by = f},
                                   LAMBDA v, w : \/ facts[v].fund.at < facts[w].fund.at
                                                 \/ facts[v].fund.at = facts[w].fund.at /\ v < w)
        Close(f) == SelectSeq(Chain(Entries(f)),
                              LAMBDA p : facts[p[2]].fund.at - facts[p[1]].fund.at <= WindowSeconds)
    IN Clusters(Joined(Close, {facts[w].fund.by : w \in Traders}), Traders)

(* Groups of wallets that bought a token first in the same block.                     *)
Groups(facts) ==
    LET Buyers(buy) == {w \in Traders : buy \in facts[w].buys}
    IN {g \in {Buyers(buy) : buy \in UNION {facts[w].buys : w \in Traders}} : Cardinality(g) >= MinWallets}
coordinated_clusters(facts) ==
    LET groups == Groups(facts)
    IN Clusters(Joined(LAMBDA g : Star(SetToSortSeq(g, <)), groups), UNION groups)

(* The place of a value among all, equal values in the middle of theirs.               *)
Rank(n, i, j) == IF n > 1 THEN (Unit * (i + j - 2)) \div (2 * (n - 1)) ELSE Unit
Order(values) == SetToSortSeq(DOMAIN values, LAMBDA v, w : \/ values[v] < values[w]
                                                           \/ values[v] = values[w] /\ v < w)
Places(values, w) == {k \in 1..Cardinality(DOMAIN values) : values[Order(values)[k]] = values[w]}
percentilesByPlace(values) ==
    [w \in DOMAIN values |-> LET k == CHOOSE k \in 1..Cardinality(DOMAIN values) : Order(values)[k] = w
                             IN Rank(Cardinality(DOMAIN values), k, k)]
percentiles(values) ==
    [w \in DOMAIN values |-> Rank(Cardinality(DOMAIN values), Min(Places(values, w)), Max(Places(values, w)))]

Components(s) == [win_rate |-> s.win_rate, exit_multiple |-> s.exit_multiple,
                  entry_timing |-> s.entry, consistency |-> -s.variance]
combine_scores(facts, excluded) ==
    LET eligible == {w \in Traders \ excluded : facts[w].trades >= MIN_CLOSED_TRADES}
        pct == [c \in DOMAIN Weights |-> percentiles([w \in eligible |-> Components(facts[w])[c]])]
    IN [w \in eligible |-> MapThenSumSet(LAMBDA c : Weights[c] * pct[c][w], DOMAIN Weights)]

----------------------------------------------------------------------------
(* The indexer and the launchpads go on.                                           *)
NewTrades(w, p) ==
    /\ news < MaxNews /\ news' = news + 1
    /\ profile' = [profile EXCEPT ![w] = p]
    /\ UNCHANGED <<creators, table, scorer, dropped_saves, stored>>
NewToken(w) ==
    /\ news < MaxNews /\ news' = news + 1
    /\ creators' = creators \cup {w}
    /\ UNCHANGED <<profile, table, scorer, dropped_saves, stored>>

(* stream_pnl_pg.                                                                   *)
read_stats(r) ==
    /\ scorer[r].step = "rest" /\ \A q \in 1..(r - 1) : scorer[q].step # "rest"
    /\ scorer' = [scorer EXCEPT ![r] = [Waiting EXCEPT !.step = "stats", !.stats = profile, !.seen = news]]
    /\ UNCHANGED <<profile, creators, table, news, dropped_saves, stored>>
load_insider_data(r) ==
    /\ scorer[r].step = "stats"
    /\ scorer' = [scorer EXCEPT ![r].step = "insiders", ![r].insiders = creators]
    /\ UNCHANGED <<profile, creators, table, news, dropped_saves, stored>>
load_events(r) ==
    LET run == scorer[r]
        excluded == run.insiders \cup detect_likely_mev(profile) \cup DOMAIN coordinated_clusters(run.stats)
    IN /\ run.step = "insiders"
       /\ scorer' = [scorer EXCEPT ![r].step = "events", ![r].seen = news - @,
                                   ![r].scores = combine_scores(run.stats, excluded)]
       /\ UNCHANGED <<profile, creators, table, news, dropped_saves, stored>>
(* The rows are written over the old ones of the same wallets; a failure is ignored.     *)
save_wallet_scores(r) ==
    LET scores == scorer[r].scores IN
    /\ scorer[r].step = "events"
    /\ table' = [w \in Traders |-> IF w \in DOMAIN scores THEN [score |-> scores[w], run |-> r] ELSE table[w]]
    /\ scorer' = [scorer EXCEPT ![r].step = "saved"] /\ stored' = Append(stored, r)
    /\ UNCHANGED <<profile, creators, news, dropped_saves>>
save_fails(r) ==
    /\ scorer[r].step = "events"
    /\ scorer' = [scorer EXCEPT ![r].step = "saved"] /\ dropped_saves' = dropped_saves \cup {r}
    /\ UNCHANGED <<profile, creators, table, news, stored>>

Next ==
    \/ \E w \in Traders : NewToken(w) \/ \E p \in Profiles : NewTrades(w, p)
    \/ \E r \in 1..Runs : \/ read_stats(r) \/ load_insider_data(r) \/ load_events(r)
                          \/ save_wallet_scores(r) \/ save_fails(r)

Spec == Init /\ [][Next]_scoreVars

----------------------------------------------------------------------------
(* Both clusterings put two wallets together exactly when a chain of wallets, each       *)
(* funded by the same one within the window of the next, or each in a group with the      *)
(* next, leads from one to the other.                                               *)
Linked(v, w, Near(_, _)) ==
    \A S \in SUBSET Traders : (v \in S /\ \A a \in S, b \in Traders : Near(a, b) => b \in S) => w \in S
ClustersAreChains ==
    LET funded == sybil_clusters(profile)
        together == coordinated_clusters(profile)
        Funded(a, b) == /\ profile[a].fund.by = profile[b].fund.by
                        /\ profile[a].fund.at - profile[b].fund.at \in -WindowSeconds..WindowSeconds
        Together(a, b) == \E g \in Groups(profile) : a \in g /\ b \in g
    IN Len(stored) = 0 /\ scorer[1].step = "rest" =>          \* the runs do not matter here
       \A v, w \in Traders :
          /\ funded[v] = funded[w] <=> Linked(v, w, Funded)
          /\ v \in DOMAIN together /\ w \in DOMAIN together =>
                (together[v] = together[w] <=> Linked(v, w, Together))

(* Of two wallets scored by the same run, the one that is nowhere worse has no smaller   *)
(* score: equals are equal, whatever their place in the list.                         *)
NoWorseNoLess ==
    \A v, w \in Traders :
        LET r == table[v].run IN
        (r # 0 /\ table[w].run = r
         /\ LET a == Components(scorer[r].stats[v])
                b == Components(scorer[r].stats[w])
            IN \A c \in DOMAIN Weights : a[c] >= b[c])
            => table[v].score >= table[w].score

(* A stored score is of a wallet its run had no reason to leave out: enough trades, not    *)
(* bought in a group, no creator; and no machine either if nothing was indexed while   *)
(* the run read.                                                                    *)
ScoredWereClean ==
    \A w \in Traders :
        LET run == scorer[table[w].run] IN
        table[w].run # 0 =>
            /\ run.stats[w].trades >= MIN_CLOSED_TRADES
            /\ \A g \in Groups(run.stats) : w \notin g
            /\ w \notin run.insiders
            /\ run.seen = 0 => ~LikelyMev(run.stats[w].swaps)

(* A stored score is the one of the last run that was saved, or that run left the wallet  *)
(* out and an older score stayed; and of the run that read last, unless it was not saved, *)
(* or left the wallet out, or an older run was saved after it.                       *)
StoredIsLast ==
    stored # <<>> =>
        LET last == stored[Len(stored)] IN
        \A w \in Traders :
            /\ table[w].run = last \/ w \notin DOMAIN scorer[last].scores
            /\ \A r \in {q \in 1..Runs : scorer[q].step = "saved"} \ dropped_saves :
                  w \in DOMAIN scorer[r].scores =>
                     table[w].run >= r \/ \E i, j \in 1..Len(stored) : i < j /\ stored[i] = r /\ stored[j] < r

ScoresFaithful == ClustersAreChains /\ NoWorseNoLess /\ ScoredWereClean /\ StoredIsLast
=============================================================================
