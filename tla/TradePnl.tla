-------------------------------- MODULE TradePnl --------------------------------
(* What wallets earned (indexer/pnl.py), accounted three times at average cost: the   *)
(* report that reads the rows pool by pool and keeps only the current pool's         *)
(* positions (stream_pnl_pg), the one over a list of legs (closed_trades), and the    *)
(* bot's own ledger of fills (execution/positions.py: apply_fill).  SwapAmounts are in    *)
(* units that make every division exact, where the code has floats.                  *)
EXTENDS Integers, Sequences, FiniteSets, SequencesExt, FiniteSetsExt

CONSTANTS
    Holders,
    Markets,                 \* what each pool trades, in the order they are read
    SwapAmounts,               \* a swap's two amounts, the stable's first
    MaxSwaps,
    StableUnit                   \* of an amount of the stable

VARIABLES
    rows,                                              \* the rows read so far
    cur_pool, positions, first_entry, last_price,       \* of the pool being read
    agg, pct, first_buy                                 \* of all pools

pnlVars == <<rows, cur_pool, positions, first_entry, last_price, agg, pct, first_buy>>

Ended  == Len(Markets) + 1
None   == [qty |-> 0, cost |-> 0, entry |-> 0]
Least(a, b) == IF a <= b THEN a ELSE b
Total(f(_), seq) == FoldLeft(LAMBDA sum, x : sum + f(x), 0, seq)

(* A swap as a trade against dollars; without a pool of a stable and a token, or with   *)
(* amounts that are not one in and one out, it is none.                              *)
IsLeg(s) == Markets[s.pool].usd /\ s.stable * s.amount < 0
leg_from_swap(s) ==
    [wallet |-> s.wallet, token |-> Markets[s.pool].token, pool |-> s.pool, block |-> s.block,
     side |-> IF s.stable > 0 THEN "buy" ELSE "sell",
     qty |-> IF s.amount > 0 THEN s.amount ELSE -s.amount,
     value |-> IF s.stable > 0 THEN s.stable ELSE -s.stable]
reconstruct_legs(all) ==
    LET kept == SelectSeq(all, IsLeg) IN [i \in 1..Len(kept) |-> leg_from_swap(kept[i])]

----------------------------------------------------------------------------
(* The report over a list of legs: for a wallet and a token, a closed trade per sale.   *)
OneSale(acc, l) ==
    LET sold == Least(l.qty, acc.qty)
        cogs == (acc.cost * sold) \div acc.qty
        proceeds == (l.value * sold) \div l.qty
        left == acc.qty - sold
    IN [qty |-> left, cost |-> IF left = 0 THEN 0 ELSE acc.cost - cogs,
        entry |-> IF left = 0 THEN 0 ELSE acc.entry,
        out |-> Append(acc.out, [wallet |-> l.wallet, token |-> l.token, cost |-> cogs,
                                 realized |-> proceeds - cogs, entry |-> acc.entry, exit |-> l.block])]
OneLeg(acc, l) ==
    IF l.side = "buy"
    THEN [acc EXCEPT !.qty = @ + l.qty, !.cost = @ + l.value,
                     !.entry = IF @ = 0 THEN l.block ELSE @]
    ELSE IF acc.qty = 0 THEN acc ELSE OneSale(acc, l)
Of(legs, w, t) ==                                    \* in the order of blocks
    FoldLeft(LAMBDA out, b : out \o SelectSeq(legs, LAMBDA l : l.wallet = w /\ l.token = t /\ l.block = b),
             <<>>, [b \in 1..MaxSwaps |-> b])
closed_trades(legs, w, t) ==
    FoldLeft(OneLeg, [qty |-> 0, cost |-> 0, entry |-> 0, out |-> <<>>], Of(legs, w, t)).out

(* entry_timing_percentiles: how early a wallet came into a token, among those that     *)
(* closed a trade of it.                                                            *)
entry_rank(trades, w) ==
    LET First(v) == Min({trades[v][i].entry : i \in 1..Len(trades[v])})
        came == {v \in Holders : trades[v] # <<>>}
        ahead == {v \in came : First(v) < First(w)}
    IN (StableUnit * (Cardinality(came) - Cardinality(ahead))) \div Cardinality(came)

(* The bot's ledger of one position.                                                *)
apply_fill(pos, l) ==
    IF l.side = "buy" THEN [pos EXCEPT !.qty = @ + l.qty, !.cost = @ + l.value]
    ELSE IF pos.qty = 0 THEN pos                        \* refused
    ELSE LET sold == Least(l.qty, pos.qty)
             cogs == (pos.cost \div pos.qty) * sold + ((pos.cost % pos.qty) * sold) \div pos.qty
             left == pos.qty - sold
         IN [qty |-> left, cost |-> IF left = 0 THEN 0 ELSE pos.cost - cogs,
             realized |-> pos.realized + (l.value * sold) \div l.qty - cogs]
Ledger(legs, w, t) == FoldLeft(apply_fill, [qty |-> 0, cost |-> 0, realized |-> 0], Of(legs, w, t))

----------------------------------------------------------------------------
Init ==
    /\ rows = <<>> /\ cur_pool = 1
    /\ positions = [w \in Holders |-> None] /\ first_entry = <<>> /\ last_price = [value |-> 0, qty |-> 1]
    /\ agg = [w \in Holders |-> [closed |-> 0, wins |-> 0, realized |-> 0, hold |-> 0, tokens |-> {},
                                 unrealized |-> 0, open |-> 0]]
    /\ pct = [w \in Holders |-> [sum |-> 0, cnt |-> 0]]
    /\ first_buy = [w \in Holders |-> [t \in {} |-> 0]]

PnlTypeOK ==
    /\ cur_pool \in 1..Ended /\ Len(rows) <= MaxSwaps
    /\ \A w \in Holders :
          /\ positions[w].qty \in Nat /\ positions[w].cost \in Nat
          /\ positions[w].qty > 0 /\ Len(rows) < MaxSwaps =>
                positions[w].cost % positions[w].qty = 0      \* exact
          /\ agg[w].wins <= agg[w].closed /\ DOMAIN first_buy[w] = agg[w].tokens
          /\ pct[w].cnt <= Len(Markets)

(* One more swap of the pool, in the order of blocks.                                *)
Bought(l) ==
    /\ positions' = [positions EXCEPT ![l.wallet] =
          [qty |-> @.qty + l.qty, cost |-> @.cost + l.value,
           entry |-> IF @.qty = 0 THEN l.block ELSE @.entry]]
    /\ first_entry' = IF Contains(first_entry, l.wallet) THEN first_entry ELSE Append(first_entry, l.wallet)
    /\ UNCHANGED <<agg, first_buy>>
CostLeft(pos, cogs) == IF pos.cost >= cogs THEN pos.cost - cogs ELSE 0
Sold(l) ==
    LET pos == positions[l.wallet]
        sold == Least(l.qty, pos.qty)
        cogs == (pos.cost * sold) \div pos.qty
        realized == (l.value * sold) \div l.qty - cogs
    IN /\ positions' = [positions EXCEPT ![l.wallet] =
             IF sold = pos.qty THEN None ELSE [pos EXCEPT !.qty = @ - sold, !.cost = CostLeft(pos, cogs)]]
       /\ agg' = [agg EXCEPT ![l.wallet].closed = @ + 1, ![l.wallet].realized = @ + realized,
                             ![l.wallet].wins = IF realized > 0 THEN @ + 1 ELSE @,
                             ![l.wallet].hold = @ + l.block - pos.entry,
                             ![l.wallet].tokens = @ \cup {l.token}]
       /\ first_buy' = [first_buy EXCEPT ![l.wallet] =
             [t \in DOMAIN @ \cup {l.token} |->
                IF t = l.token /\ (t \notin DOMAIN @ \/ pos.entry < @[t]) THEN pos.entry ELSE @[t]]]
       /\ UNCHANGED first_entry
Read(w, amounts) ==
    LET s == [wallet |-> w, pool |-> cur_pool, stable |-> amounts[1], amount |-> amounts[2],
              block |-> 1 + Len(SelectSeq(rows, LAMBDA x : x.pool = cur_pool))] IN
    /\ cur_pool # Ended /\ Len(rows) < MaxSwaps
    /\ rows' = Append(rows, s)
    /\ IF ~IsLeg(s) THEN UNCHANGED <<positions, first_entry, last_price, agg, first_buy>>
       ELSE LET l == leg_from_swap(s) IN
            /\ last_price' = [value |-> l.value, qty |-> l.qty]
            /\ \/ l.side = "buy" /\ Bought(l)
               \/ l.side = "sell" /\ positions[l.wallet].qty > 0 /\ Sold(l)
               \/ /\ l.side = "sell" /\ positions[l.wallet].qty = 0       \* bought before the first row
                  /\ UNCHANGED <<positions, first_entry, agg, first_buy>>
    /\ UNCHANGED <<cur_pool, pct>>

(* At another pool's first row, and after the last: the wallets of the pool are ranked   *)
(* by when they came, what they still hold is valued at the last price.               *)
Marked(w) ==
    IF last_price.value = 0 \/ positions[w].qty = 0 THEN agg[w]
    ELSE [agg[w] EXCEPT !.open = @ + 1,
            !.unrealized = @ + (positions[w].qty * last_price.value) \div last_price.qty - positions[w].cost]
Ranked(w) ==
    LET m == Len(first_entry) IN
    IF ~Contains(first_entry, w) THEN pct[w]
    ELSE LET rank == (CHOOSE i \in 1..m : first_entry[i] = w) - 1
         IN [sum |-> pct[w].sum + (StableUnit * (m - rank)) \div m, cnt |-> pct[w].cnt + 1]
ResetRanks ==
    /\ UNCHANGED positions /\ first_entry' = <<>> /\ last_price' = [value |-> 0, qty |-> 1]
Reset ==
    /\ positions' = [w \in Holders |-> None] /\ first_entry' = <<>>
    /\ last_price' = [value |-> 0, qty |-> 1]
NextPool ==
    /\ cur_pool # Ended /\ cur_pool' = cur_pool + 1
    /\ agg' = [w \in Holders |-> Marked(w)] /\ pct' = [w \in Holders |-> Ranked(w)]
    /\ Reset
    /\ UNCHANGED <<rows, first_buy>>

Next ==
    \/ NextPool
    \/ \E w \in Holders, a \in SwapAmounts : Read(w, a)

Spec == Init /\ [][Next]_pnlVars

----------------------------------------------------------------------------
TokensOf == {Markets[p].token : p \in 1..Len(Markets)}
Apart(legs) ==                             \* nobody trades one token in two pools
    \A i, j \in 1..Len(legs) :
       legs[i].wallet = legs[j].wallet /\ legs[i].token = legs[j].token => legs[i].pool = legs[j].pool

(* Where nobody trades one token in two pools, the stream's numbers of a wallet are, at  *)
(* every row, those of the report over all legs: closed trades, wins, profit, holding   *)
(* time, first entries; and after the last pool the entry percentiles too, if everyone   *)
(* who bought also sold.                                                            *)
StreamIsReport ==
    LET legs == reconstruct_legs(rows)
        trades == [w \in Holders |-> [t \in TokensOf |-> closed_trades(legs, w, t)]]
        All(w) == FoldSet(LAMBDA t, out : out \o trades[w][t], <<>>, TokensOf)
        AllSold == \A i \in 1..Len(legs) : trades[legs[i].wallet][legs[i].token] # <<>>
    IN Apart(legs) =>
       \A w \in Holders :
          LET mine == All(w) IN
          /\ agg[w].closed = Len(mine)
          /\ agg[w].wins = Len(SelectSeq(mine, LAMBDA x : x.realized > 0))
          /\ agg[w].realized = Total(LAMBDA x : x.realized, mine)
          /\ agg[w].hold = Total(LAMBDA x : x.exit - x.entry, mine)
          /\ \A t \in TokensOf :
                /\ t \in agg[w].tokens <=> trades[w][t] # <<>>
                /\ t \in agg[w].tokens =>
                      first_buy[w][t] = Min({trades[w][t][i].entry : i \in 1..Len(trades[w][t])})
          /\ cur_pool = Ended /\ AllSold =>
                /\ pct[w].cnt = Cardinality({t \in TokensOf : trades[w][t] # <<>>})
                /\ pct[w].sum = MapThenSumSet(
                     LAMBDA t : IF trades[w][t] = <<>> THEN 0
                                ELSE entry_rank([v \in Holders |-> trades[v][t]], w), TokensOf)

(* The ledger mirrors the report (positions.py:41): same profit, and nothing is lost or   *)
(* counted twice: what was paid is the cost of what was sold and of what is left.  What   *)
(* the stream marks as unrealized is the ledger's remainder at the last price.        *)
LedgerMirrorsReport ==
    LET legs == reconstruct_legs(rows) IN
    \A w \in Holders :
       /\ \A t \in TokensOf :
             LET pos == Ledger(legs, w, t)
                 trades == closed_trades(legs, w, t)
                 bought == SelectSeq(legs, LAMBDA l : l.wallet = w /\ l.token = t /\ l.side = "buy")
             IN /\ pos.realized = Total(LAMBDA x : x.realized, trades)
                /\ pos.cost + Total(LAMBDA x : x.cost, trades) = Total(LAMBDA l : l.value, bought)
       /\ cur_pool = Ended =>
             LET Open(p) ==
                   LET pos == Ledger(SelectSeq(legs, LAMBDA l : l.pool = p), w, Markets[p].token)
                       last == SelectSeq(legs, LAMBDA l : l.pool = p)
                   IN IF pos.qty = 0 THEN 0
                      ELSE (pos.qty * last[Len(last)].value) \div last[Len(last)].qty - pos.cost
             IN agg[w].unrealized = MapThenSumSet(Open, 1..Len(Markets))

AccountsAgree == StreamIsReport /\ LedgerMirrorsReport
=============================================================================
