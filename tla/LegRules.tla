------------------------------ MODULE LegRules ------------------------------
(* The rules that turn trades ("legs") into alerts, leg by leg, with the state   *)
(* they keep (indexer/stream_alerts.py): volume, price and flow per bucket of    *)
(* blocks, the creator's position, and the last bucket or block of each kind of  *)
(* alert.  One token.  Two engines read the same legs: one that never stopped,   *)
(* and one that starts without state.pkl at some leg, rebuilds its state from    *)
(* the history in silence (build_initial_state) and goes on from there.          *)
(* Amounts are small integers; a z-score is compared by its square.              *)
EXTENDS Integers, FiniteSets, FiniteSetsExt

CONSTANTS
    Legs,            \* [creator, side, qty, sv]: by the creator or not, side, tokens, dollars
    BucketBlocks, Lookback, Keep,
    ZDownSq, ZUpSq,  \* the squares of the z-scores of a collapse and a spike
    WindowBlocks, RecentBuckets,
    MinUsdc, MinSpike, LargeSell, WhaleBuy, SurgePct,
    LastBlock, MaxReads

VARIABLES
    block,           \* of the newest leg
    read,            \* legs so far
    live, rebuilt,   \* the states of the two engines
    running,         \* the second engine has finished its rebuild
    differ           \* kinds of which the two engines' alerts differed since

ruleVars == <<block, read, live, rebuilt, running, differ>>

Kinds   == {"graduation", "dev_sell", "large_sell", "whale_buy", "price_surge",
            "volume_collapse", "compound", "volume_spike"}
Buckets == 0..(LastBlock \div BucketBlocks)
Never   == -1
NoPrice == [sv |-> 0, qty |-> 0]

Fresh == [seen |-> FALSE, volume |-> [b \in Buckets |-> Never], buys |-> [b \in Buckets |-> Never],
          sells |-> [b \in Buckets |-> Never], price |-> [b \in Buckets |-> NoPrice],
          qty |-> 0, cost |-> 0, sellBlock |-> Never,
          collapse |-> Never, spike |-> Never, surge |-> Never]

RulesTypeOK ==
    /\ block \in 0..LastBlock /\ read \in 0..MaxReads /\ running \in BOOLEAN /\ differ \subseteq Kinds
    /\ \A st \in {live, rebuilt} :
          /\ st.qty \in Nat /\ st.cost \in Nat /\ (st.qty = 0 => st.cost = 0)
          /\ \A b \in Buckets : st.volume[b] >= Never
          /\ \A k \in {st.collapse, st.spike, st.surge} : k \in Buckets \cup {Never}
          /\ Cardinality({b \in Buckets : st.volume[b] # Never}) <= Keep

----------------------------------------------------------------------------
bucket_of(n) == n \div BucketBlocks

(* A bucket's sum grows; only the newest Keep buckets stay.                      *)
Known(f, none) == {b \in Buckets : f[b] # none}
Trim(f, none) ==
    [b \in Buckets |-> IF Cardinality({a \in Known(f, none) : a > b}) < Keep THEN f[b] ELSE none]
Grown(f, b, sv) == Trim([f EXCEPT ![b] = IF @ = Never THEN sv ELSE @ + sv], Never)
Recent(f, b) == MapThenSumSet(LAMBDA a : f[a], {a \in Known(f, Never) : a >= b - RecentBuckets})

(* rolling_zscore of the newest bucket b against up to Lookback earlier ones.     *)
Window(f, b) == {a \in Known(f, Never) : a < b /\ Cardinality({c \in Known(f, Never) : a < c /\ c < b}) < Lookback}
SumOf(f, W)  == MapThenSumSet(LAMBDA a : f[a], W)
SquareOf(f, W) == MapThenSumSet(LAMBDA a : f[a] * f[a], W)
Spread(f, W) == Cardinality(W) * SquareOf(f, W) - SumOf(f, W) * SumOf(f, W)
Gap(f, b, W) == Cardinality(W) * f[b] - SumOf(f, W)
Newest(f, b) == \A a \in Known(f, Never) : a <= b
Collapsed(f, b) ==
    LET W == Window(f, b) IN
    /\ Newest(f, b) /\ Cardinality(W) >= 3 /\ Spread(f, W) > 0
    /\ Gap(f, b, W) < 0 /\ Gap(f, b, W) * Gap(f, b, W) >= ZDownSq * Spread(f, W)
Spiked(f, b) ==
    LET W == Window(f, b) IN
    /\ Newest(f, b) /\ Cardinality(W) >= 3 /\ Spread(f, W) > 0
    /\ Gap(f, b, W) > 0 /\ Gap(f, b, W) * Gap(f, b, W) >= ZUpSq * Spread(f, W)

(* The price (sv / qty) of bucket b is at least pct percent above the newest one    *)
(* of at least Lookback buckets ago.                                              *)
Past(p, b) == {a \in Known(p, NoPrice) : a <= b - Lookback}
RisenBy(p, b, pct) ==
    /\ Past(p, b) # {} /\ p[b] # NoPrice
    /\ LET old == p[Max(Past(p, b))] IN
       100 * (p[b].sv * old.qty - old.sv * p[b].qty) >= pct * old.sv * p[b].qty

----------------------------------------------------------------------------
(* The creator's position: a buy adds, a sell takes its share of the cost.        *)
SellQty(st, leg) == Min({leg.qty, st.qty})
Proceeds(st, leg) == (leg.sv * SellQty(st, leg)) \div leg.qty
is_significant_sell(st, leg) ==
    2 * SellQty(st, leg) >= st.qty \/ Proceeds(st, leg) >= MinUsdc
CreatorSells(st, leg) == leg.creator /\ leg.side = "sell" /\ st.qty > 0
Position(st, leg) ==
    IF leg.creator /\ leg.side = "buy" THEN [qty |-> st.qty + leg.qty, cost |-> st.cost + leg.sv]
    ELSE IF CreatorSells(st, leg)
    THEN [qty |-> st.qty - SellQty(st, leg),
          cost |-> st.cost - (st.cost * SellQty(st, leg)) \div st.qty]
    ELSE [qty |-> st.qty, cost |-> st.cost]

(* Volume, price and flow after the leg.                                         *)
Counted(st, leg, b) ==
    [st EXCEPT
        !.seen = TRUE,
        !.volume = Grown(@, b, leg.sv),
        !.price = Trim([@ EXCEPT ![b] = [sv |-> leg.sv, qty |-> leg.qty]], NoPrice),
        !.buys = IF leg.side = "buy" THEN Grown(@, b, leg.sv) ELSE @,
        !.sells = IF leg.side = "sell" THEN Grown(@, b, leg.sv) ELSE @,
        !.qty = Position(st, leg).qty, !.cost = Position(st, leg).cost]

(* What each kind of alert asks for; c is the state after Counted.                *)
DevSell(st, leg)     == CreatorSells(st, leg) /\ is_significant_sell(st, leg)
LargeSale(leg, c, b) == /\ leg.side = "sell" /\ ~leg.creator /\ leg.sv >= LargeSell
                        /\ 2 * leg.sv >= Recent(c.volume, b)
Whale(leg, c, b)     == /\ leg.side = "buy" /\ leg.sv >= WhaleBuy /\ RisenBy(c.price, b, 0)
                        /\ 2 * leg.sv >= Recent(c.volume, b)
Surge(st, c, b)      == st.surge # b /\ RisenBy(c.price, b, SurgePct)
Collapse(st, c, b)   == st.collapse # b /\ Collapsed(c.volume, b)
NetBuyers(c, b)      == Recent(c.buys, b) > 0 /\ 5 * Recent(c.buys, b) >= 6 * Recent(c.sells, b)
Spike(st, c, b)      == /\ st.spike # b /\ Spiked(c.volume, b) /\ c.volume[b] >= MinSpike
                        /\ RisenBy(c.price, b, 0) /\ NetBuyers(c, b)

(* Without emitting, a dev sell and a surge leave no mark; a collapse and a spike   *)
(* do.                                                                           *)
MarksNothing == {"volume_spike"}
MarksQuietly == {"volume_collapse", "volume_spike"}
Marks(fired, emit) == IF emit THEN fired ELSE fired \cap MarksQuietly

Fired(st, leg, c, b) ==
    {k \in Kinds :
        \/ k = "graduation" /\ ~st.seen
        \/ k = "dev_sell" /\ DevSell(st, leg)
        \/ k = "large_sell" /\ LargeSale(leg, c, b)
        \/ k = "whale_buy" /\ Whale(leg, c, b)
        \/ k = "price_surge" /\ Surge(st, c, b)
        \/ k = "volume_collapse" /\ Collapse(st, c, b)
        \/ k = "volume_spike" /\ Spike(st, c, b)}

apply_leg(st, leg, n, emit) ==
    LET b == bucket_of(n)
        c == Counted(st, leg, b)
        fired == Fired(st, leg, c, b)
        marks == Marks(fired, emit)
        sold  == IF "dev_sell" \in marks THEN n ELSE st.sellBlock
        compound == "volume_collapse" \in fired /\ sold # Never /\ n - sold <= WindowBlocks
    IN [state |-> [c EXCEPT
            !.sellBlock = sold,
            !.surge = IF "price_surge" \in marks THEN b ELSE @,
            !.collapse = IF "volume_collapse" \in marks THEN b ELSE @,
            !.spike = IF "volume_spike" \in marks THEN b ELSE @],
        alerts |-> IF emit THEN fired \cup (IF compound THEN {"compound"} ELSE {}) ELSE {}]

----------------------------------------------------------------------------
Init ==
    /\ block = 0 /\ read = 0 /\ running = FALSE /\ differ = {}
    /\ live = Fresh /\ rebuilt = Fresh

(* The next leg, read by the first engine live and by the second in its rebuild or  *)
(* live.                                                                          *)
Read(leg, n) ==
    /\ read < MaxReads /\ n >= block /\ read' = read + 1 /\ block' = n
    /\ LET one == apply_leg(live, leg, n, TRUE)
           two == apply_leg(rebuilt, leg, n, running)
       IN /\ live' = one.state /\ rebuilt' = two.state
          /\ differ' = IF running THEN differ \cup SymDiff(one.alerts, two.alerts) ELSE differ
    /\ UNCHANGED running

(* The rebuild reaches the alert cursor.                                           *)
build_initial_state ==
    /\ ~running /\ running' = TRUE
    /\ UNCHANGED <<block, read, live, rebuilt, differ>>

Next ==
    \/ build_initial_state
    \/ \E leg \in Legs, n \in 0..LastBlock : Read(leg, n)

Spec == Init /\ [][Next]_ruleVars

----------------------------------------------------------------------------
(* An engine that lost its state file and rebuilt it from the history goes on as if  *)
(* it had not stopped: it knows the same volumes, prices, flows and position, and    *)
(* its alerts differ only in what the rebuild leaves no mark of: a surge of its      *)
(* first bucket again, and a compound alert whose dev sell came before               *)
(* (stream_alerts.py:68-262, 288-306).                                              *)
RebuildAgrees ==
    /\ \A f \in {"seen", "volume", "buys", "sells", "price", "qty", "cost", "collapse", "spike"} :
          rebuilt[f] = live[f]
    /\ differ \subseteq {"price_surge", "compound"}
=============================================================================
