----------------------------- MODULE RiskReport -----------------------------
(* The risk report of one token (indexer/alerts.py): from all stored trades it     *)
(* derives at any time the creator's sales, the collapse of the volume, a collapse *)
(* that follows a sale, and whether anybody trades the token at all.  Beside it     *)
(* runs the live engine of LegRules, which decides of each trade once, when it      *)
(* comes.  The card of a token (bot/telegram.py check_token) asks about the thin    *)
(* market again, with another idea of the newest block.                          *)
EXTENDS Integers, Sequences, FiniteSets, FiniteSetsExt

CONSTANTS
    Legs,            \* [wallet, side, qty, sv]
    Creator,         \* the wallet that created the token
    ReportBlocks,    \* blocks a trade may come in
    Created,         \* blocks of the TokenCreated event, Unknown when it was not indexed
    NoTradeBlocks,   \* the age at which a market can be called thin
    BucketBlocks, Lookback, Keep, ZDownSq, ZUpSq, WindowBlocks, RecentBuckets, MinUsdc, MinSpike,
    LargeSell, WhaleBuy, SurgePct, LastBlock,
    MaxReads

VARIABLES
    trades_read,     \* the trades so far, each with what the live engine told of it
    engine           \* the live engine's state

reportVars == <<trades_read, engine>>

Rules == INSTANCE LegRules WITH block <- 0, read <- 0, live <- engine, rebuilt <- engine,
                                running <- FALSE, differ <- {}

Unknown == 0
ReportTypeOK ==
    /\ Len(trades_read) <= MaxReads
    /\ \A i \in DOMAIN trades_read :
          trades_read[i].n \in ReportBlocks /\ trades_read[i].told \subseteq Rules!Kinds

----------------------------------------------------------------------------
(* load_creator_sells: whoever bought first is taken for the creator's own hand;    *)
(* the position before a sale is what both bought less what both sold.             *)
Buys(L)  == {i \in DOMAIN L : L[i].side = "buy"}
dev_wallet(L) == {L[i].wallet : i \in {j \in Buys(L) : \A k \in Buys(L) : j <= k}}
Acts(L)  == IF Buys(L) = {} THEN {} ELSE {i \in DOMAIN L : L[i].wallet \in dev_wallet(L) \cup {Creator}}
pos_before(L, i) ==
    MapThenSumSet(LAMBDA j : IF L[j].side = "buy" THEN L[j].qty ELSE -L[j].qty,
                  {j \in Acts(L) : j < i})
load_creator_sells(L) == {i \in Acts(L) : L[i].side = "sell" /\ pos_before(L, i) > 0}
dev_sell_alerts(L) ==
    {i \in load_creator_sells(L) : 2 * L[i].qty >= pos_before(L, i) \/ L[i].sv >= MinUsdc}

(* load_volume_buckets: a bucket without a trade is not in the series.              *)
load_volume_buckets(L) ==
    [b \in Rules!Buckets |->
        LET in == {i \in DOMAIN L : Rules!bucket_of(L[i].n) = b} IN
        IF in = {} THEN Rules!Never ELSE MapThenSumSet(LAMBDA i : L[i].sv, in)]
LastBucket(L) == Rules!bucket_of(L[Len(L)].n)
volume_collapse_alerts(L) ==
    IF L # <<>> /\ Rules!Collapsed(load_volume_buckets(L), LastBucket(L)) THEN {LastBucket(L)} ELSE {}

(* compound_alerts: the latest reported sale against the first block of the bucket   *)
(* that collapsed.                                                               *)
detect_compound(sold, start) == sold <= start /\ start - sold <= WindowBlocks
SoldAt(L) == L[Max(dev_sell_alerts(L))].n
AnyCompound(L) ==
    {b \in volume_collapse_alerts(L) : dev_sell_alerts(L) # {} /\ SoldAt(L) <= b * BucketBlocks}
compound_alerts(L) ==
    {b \in volume_collapse_alerts(L) :
        dev_sell_alerts(L) # {} /\ detect_compound(SoldAt(L), b * BucketBlocks)}

(* is_thin_market, in the report (age up to the newest swap, only of tokens whose    *)
(* creation is known) and on the token's card (age up to the newest leg).           *)
is_thin_market(L, age) ==
    IF age < NoTradeBlocks THEN "none"
    ELSE IF L = <<>> THEN "no_trades"
    ELSE IF Cardinality({L[i].wallet : i \in DOMAIN L}) <= 1 THEN "single_wallet" ELSE "none"
thin_market_alerts(L, created, head) == IF created = Unknown THEN "none" ELSE is_thin_market(L, head - created)
Since(L, created) == IF created # Unknown THEN created ELSE IF L = <<>> THEN Unknown ELSE L[1].n
check_token(L, created, head) ==
    IF Since(L, created) = Unknown THEN "none" ELSE is_thin_market(L, head - Since(L, created))

----------------------------------------------------------------------------
Init == trades_read = <<>> /\ engine = Rules!Fresh

Seen(leg) == [creator |-> leg.wallet = Creator, side |-> leg.side, qty |-> leg.qty, sv |-> leg.sv]
Newest == IF trades_read = <<>> THEN 0 ELSE trades_read[Len(trades_read)].n

(* The next trade is stored and read by the live engine.                           *)
Trade(leg, n) ==
    /\ Len(trades_read) < MaxReads /\ n >= Newest
    /\ LET one == Rules!apply_leg(engine, Seen(leg), n, TRUE) IN
       /\ engine' = one.state
       /\ trades_read' = Append(trades_read, [wallet |-> leg.wallet, side |-> leg.side, qty |-> leg.qty,
                                              sv |-> leg.sv, n |-> n, told |-> one.alerts])

Next == \E leg \in Legs, n \in ReportBlocks : Trade(leg, n)

Spec == Init /\ [][Next]_reportVars

----------------------------------------------------------------------------
Told(kind) == {i \in DOMAIN trades_read : kind \in trades_read[i].told}
InLast     == {i \in DOMAIN trades_read : Rules!bucket_of(trades_read[i].n) = LastBucket(trades_read)}

(* The creator sold more than it is known to have bought, before trade i.           *)
OversoldBefore(i) ==
    \E j \in 1..(i - 1) :
        LET t == trades_read[j] IN
        /\ t.wallet = Creator /\ t.side = "sell"
        /\ pos_before(trades_read, j) < t.qty

(* The creator bought first, and sold only what it had bought.                      *)
Plain == dev_wallet(trades_read) \subseteq {Creator}
SameSales == Plain /\ ~OversoldBefore(Len(trades_read) + 1)

(* Of a creator who was the first to buy and never sold more than it bought, the      *)
(* report lists exactly the sales the live engine told (alerts.py:316-344,           *)
(* stream_alerts.py:103-138).                                                      *)
SalesAgree ==
    \A i \in DOMAIN trades_read :
        Plain /\ ~OversoldBefore(i) => (i \in dev_sell_alerts(trades_read) <=> i \in Told("dev_sell"))

(* A collapse in the report was told live, at the first trade of its bucket; one told *)
(* live is missing from the report only when the bucket had more trades since.        *)
CollapseAgrees ==
    LET first == Min(InLast) IN
    trades_read # <<>> =>
        /\ volume_collapse_alerts(trades_read) # {} => first \in Told("volume_collapse")
        /\ Told("volume_collapse") \cap InLast # {} =>
              volume_collapse_alerts(trades_read) # {} \/ Cardinality(InLast) > 1

(* Where both see the same sales, a reported compound was told live, but for one whose *)
(* window ends inside the bucket; and one told live is in the report as long as the    *)
(* collapse is, unless the latest sale came after the bucket's first block.            *)
CompoundAgrees ==
    LET L == trades_read
        start == LastBucket(L) * BucketBlocks
        first == Min(InLast)
        told  == Told("compound") \cap InLast # {} IN
    (L # <<>> /\ SameSales) =>
        /\ compound_alerts(L) # {} =>
              told \/ L[first].n - SoldAt(L) \in (WindowBlocks + 1)..(WindowBlocks + BucketBlocks - 1)
        /\ told /\ volume_collapse_alerts(L) # {} => compound_alerts(L) # {} \/ SoldAt(L) > start

(* A token the card calls thin the report lists with the same reason, if its creation  *)
(* is known; the report is ahead of the card only by the swaps that are no legs yet.    *)
ThinAgrees ==
    \A created \in Created, head \in Newest..LastBlock, behind \in Newest..LastBlock :
        LET reported == thin_market_alerts(trades_read, created, head)
            checked  == check_token(trades_read, created, behind) IN
        created # Unknown /\ behind <= head =>
            /\ checked # "none" => reported = checked
            /\ reported # "none" /\ behind = head => checked = reported

(* The report and the live engine tell the same of the same trades, but for what the    *)
(* parts name (indexer/alerts.py:110-214, 273-359; stream_alerts.py:63-219).            *)
ReportFaithful == SalesAgree /\ CollapseAgrees /\ CompoundAgrees /\ ThinAgrees
=============================================================================
