------------------------------ MODULE MevBots ------------------------------
(* The four monitors of src/bots, processes that send from one account: two          *)
(* liquidators, the arbitrage and the liquidity bot.  Each looks at the market,      *)
(* simulates its contract, sends and waits; all read the account's next nonce and    *)
(* append to one history file without a lock, and PM2 starts them again.  Market,    *)
(* chain and contracts are external; gas and the texts of messages are left out.     *)
EXTENDS Integers, Sequences, FiniteSets

CONSTANTS
    Crews,          \* the sets of bots that are started together
    Borrowers,
    Shares, Pledge, \* what a borrower may owe Morpho at first, and the collateral
    BorrowAssets, BorrowShares, VirtualShares,  \* the market's totals, and Morpho's virtual shares
    MaxDebt,        \* the most a Morpho liquidation repays (MAX_DEBT_USDC)
    Oracle,         \* the oracle's price
    Gain,           \* [price -> [size -> the arbitrage's profit]]
    MinProfit, SearchRounds, Grain,
    TickSpacing, Whales,    \* the large swaps: [n, block, usd]
    MinSwap, Cool,  \* the least swap of note, [bot -> how long a key rests after an attempt]
    HistoryMax,     \* entries a history file keeps
    MaxMoves, MaxHitches, MaxMevTime

VARIABLES
    mtime, price, debt, shares, coll, mhead,    \* the market: loans of both protocols, swaps
    acct, txs,                                  \* the chain: the account's nonce, what was sent
    crew, live, mev, last, seen, base, file,    \* the bots, their memories, the history file
    moves, hitches,
    tried, rushed, recorded, overlapped, torn, met, broken_off, steady, blinded

worldVars  == <<price, debt, shares, coll, mhead, moves>>
chainVars  == <<acct, txs>>
memoryVars == <<last, seen, base>>
fileVars   == <<file, recorded, overlapped, torn>>
jitVars    == <<met, broken_off>>
searchVars == <<steady, blinded>>
tryVars    == <<tried, rushed>>
mevVars    == <<mtime, worldVars, chainVars, crew, live, mev, memoryVars, fileVars, hitches, tryVars,
                jitVars, searchVars>>

AllBots == {"liq", "morpho", "arb", "jit"}
Idle    == [step |-> "sleep", todo |-> {}, key |-> 0, amount |-> 0, lo |-> 0, hi |-> 0, round |-> 0,
            nonce |-> 0, buf |-> <<>>]
Keys    == Borrowers \cup DOMAIN Gain \cup {w.usd : w \in Whales}
Rested  == [b \in AllBots |-> [k \in Keys |-> -Cool[b]]]
InputSizes   == 1..Len(Gain[Oracle])
Settled == {"ok", "reverted"}
Pending == {t \in txs : t.state = "pending"}
Cut     == <<0>>        \* a history file that was emptied and not written again

MevTypeOK ==
    /\ mtime \in 0..MaxMevTime /\ price \in DOMAIN Gain /\ debt \in [Borrowers -> {0, 1}]
    /\ \A u \in Borrowers : shares[u] \in Nat /\ coll[u] \in 0..Pledge
    /\ mhead \in 1..3 /\ acct \in Nat /\ crew \subseteq AllBots /\ live \in BOOLEAN
    /\ \A t \in txs : t.bot \in crew /\ t.state \in Settled \cup {"pending"}
    /\ \A b \in AllBots :
         mev[b].step \in {"sleep", "check", "price", "sim", "search", "probe", "sign", "send", "wait", "append",
                          "cut", "dump"}
    /\ Len(file) <= HistoryMax /\ Cardinality(met) <= Cardinality(Whales)

----------------------------------------------------------------------------
(* The market and the chain                                                     *)
MarketMoves ==
    /\ moves < MaxMoves /\ moves' = moves + 1
    /\ \/ /\ price' \in {p \in DOMAIN Gain : p # price} /\ steady' = FALSE
          /\ UNCHANGED <<debt, shares, mhead>>
       \/ \E u \in Borrowers : debt[u] > 0 /\ debt' = [debt EXCEPT ![u] = 0]
          /\ UNCHANGED <<price, shares, mhead, steady>>
       \/ mhead < 3 /\ mhead' = mhead + 1 /\ UNCHANGED <<price, debt, shares, steady>>
    /\ UNCHANGED <<mtime, coll, chainVars, crew, live, mev, memoryVars, fileVars, hitches, tryVars,
                   jitVars, blinded>>
TimePasses ==
    /\ mtime < MaxMevTime /\ mtime' = mtime + 1
    /\ UNCHANGED <<worldVars, chainVars, crew, live, mev, memoryVars, fileVars, hitches, tryVars,
                   jitVars, searchVars>>

(* Morpho's rounding, which the bot repeats.                                      *)
CeilDiv(a, b) == (a + b - 1) \div b
to_assets_up(n) == CeilDiv(n * (BorrowAssets + 1), BorrowShares + VirtualShares)
to_shares_up(a) == CeilDiv(a * (BorrowShares + VirtualShares), BorrowAssets + 1)

Tick == price
align_tick(t) == (t \div TickSpacing) * TickSpacing
(* Whether a contract carries the call out: the liquidated position is under water,  *)
(* repaid shares are the borrower's and cost no more than was borrowed for them; the  *)
(* arbitrage leaves its least profit; the range holds the current tick.               *)
LiquidationPays(u, amount) == price < Oracle /\ debt[u] >= amount
MorphoPays(u, amount) ==
    LET repaid == to_shares_up(amount)
    IN  /\ coll[u] * price < to_assets_up(shares[u])
        /\ repaid <= shares[u] /\ to_assets_up(repaid) <= amount
ArbitragePays(amount) == Gain[price][amount] >= MinProfit
JitPays(lower) == lower <= Tick /\ Tick < lower + TickSpacing
Pays(b, key, amount) ==
    CASE b = "liq" -> LiquidationPays(key, amount) [] b = "morpho" -> MorphoPays(key, amount)
      [] b = "arb" -> ArbitragePays(amount) [] b = "jit" -> JitPays(amount)

(* A mined transaction nobody waits for is not kept.                              *)
Waiting(t) == {b \in crew : mev[b].step = "wait" /\ mev[b].nonce = t.nonce}
Mined ==
    \E t \in Pending :
        /\ acct' = acct + 1
        /\ \E state \in IF Pays(t.bot, t.key, t.amount) THEN Settled ELSE {"reverted"} :
             /\ txs' = (txs \ {t}) \cup {[t EXCEPT !.state = state] : w \in Waiting(t)}
             /\ debt' = IF state = "ok" /\ t.bot = "liq" THEN [debt EXCEPT ![t.key] = @ - t.amount]
                        ELSE debt
             /\ shares' = IF state = "ok" /\ t.bot = "morpho"
                          THEN [shares EXCEPT ![t.key] = @ - to_shares_up(t.amount)] ELSE shares
             /\ coll' = IF state = "ok" /\ t.bot = "morpho" THEN [coll EXCEPT ![t.key] = @ - 1] ELSE coll
        /\ t.nonce = acct
        /\ UNCHANGED <<mtime, price, mhead, moves, crew, live, mev, memoryVars, fileVars, hitches,
                       tryVars, jitVars, searchVars>>

----------------------------------------------------------------------------
(* What the bots do alike: cool a key down, send, wait for the receipt, note it     *)
Cooling(b, key) == mtime - last[b][key] < Cool[b]
AttemptNoted(b, key) ==
    /\ tried' = [tried EXCEPT ![b][key] = mtime]
    /\ rushed' = (rushed \/ mtime - tried[b][key] < Cool[b]) /\ UNCHANGED last
Attempt(b, key) ==
    /\ last' = [last EXCEPT ![b][key] = mtime]
    /\ tried' = [tried EXCEPT ![b][key] = mtime]
    /\ rushed' = (rushed \/ mtime - tried[b][key] < Cool[b])
(* The rest of the accounts, or of the swaps, of this pass.                         *)
Rest(b) == IF mev[b].todo = {} THEN Idle ELSE [Idle EXCEPT !.step = "check", !.todo = mev[b].todo]
Goes(b, r) == mev' = [mev EXCEPT ![b] = r]
Quiet == UNCHANGED <<mtime, worldVars, crew, live>>

(* The simulation passes only if the contract would; it may fail for other reasons.  *)
Simulate(b) ==
    /\ mev[b].step = "sim"
    /\ \/ /\ Pays(b, mev[b].key, mev[b].amount) /\ live /\ Goes(b, [mev[b] EXCEPT !.step = "sign"])
       \/ Goes(b, Rest(b))
    /\ Quiet /\ UNCHANGED <<chainVars, memoryVars, fileVars, hitches, tryVars, jitVars, searchVars>>
(* get_transaction_count(address): transactions that are waiting do not count.        *)
NextNonceWaiting == acct + Cardinality(Pending)
NextNonce == acct
ReadNonce(b) ==
    /\ mev[b].step = "sign" /\ Goes(b, [mev[b] EXCEPT !.step = "send", !.nonce = NextNonce])
    /\ Quiet /\ UNCHANGED <<chainVars, memoryVars, fileVars, hitches, tryVars, jitVars, searchVars>>
(* estimate_gas fails where the contract would; the node refuses a nonce that was       *)
(* used or is waiting, the tip being the same for all.                             *)
Broadcast(b) ==
    /\ mev[b].step = "send"
    /\ LET r == mev[b]
           taken == r.nonce < acct \/ \E t \in Pending : t.nonce = r.nonce
       IN  IF Pays(b, r.key, r.amount) /\ ~taken
           THEN /\ txs' = txs \cup {[bot |-> b, key |-> r.key, amount |-> r.amount,
                                     nonce |-> r.nonce, state |-> "pending"]}
                /\ Goes(b, [r EXCEPT !.step = "wait"])
           ELSE Goes(b, Rest(b)) /\ UNCHANGED txs
    /\ Quiet
    /\ UNCHANGED <<acct, memoryVars, fileVars, hitches, tryVars, jitVars, searchVars>>
(* The receipt, or sixty seconds without one: the transaction may still be mined.       *)
Receipt(b) ==
    /\ mev[b].step = "wait"
    /\ \/ /\ \E t \in txs : t.nonce = mev[b].nonce /\ t.state \in Settled
          /\ Goes(b, IF b = "liq" THEN Rest(b) ELSE [mev[b] EXCEPT !.step = "append"])
          /\ UNCHANGED hitches
          /\ txs' = {t \in txs : t.nonce # mev[b].nonce}
       \/ /\ \E t \in Pending : t.nonce = mev[b].nonce
          /\ UNCHANGED txs
          /\ hitches < MaxHitches /\ hitches' = hitches + 1 /\ Goes(b, Rest(b))
    /\ Quiet /\ UNCHANGED <<acct, memoryVars, fileVars, tryVars, jitVars, searchVars>>

(* The history: read the file, open it for writing, which empties it, and write.     *)
AppendRead(b) ==
    /\ mev[b].step = "append"
    /\ overlapped' = (overlapped \/ \E c \in AllBots : mev[c].step \in {"cut", "dump"})
    /\ IF file = Cut THEN Goes(b, Rest(b))
       ELSE Goes(b, [mev[b] EXCEPT !.step = "cut", !.buf = file])
    /\ Quiet
    /\ UNCHANGED <<chainVars, memoryVars, file, recorded, torn, hitches, tryVars, jitVars, searchVars>>
AppendOpen(b) ==
    /\ mev[b].step = "cut" /\ file' = Cut /\ Goes(b, [mev[b] EXCEPT !.step = "dump"])
    /\ Quiet
    /\ UNCHANGED <<chainVars, memoryVars, recorded, overlapped, torn, hitches, tryVars, jitVars, searchVars>>
Newest(s) == SubSeq(s, IF Len(s) > HistoryMax THEN Len(s) - HistoryMax + 1 ELSE 1, Len(s))
AppendWrite(b) ==
    /\ mev[b].step = "dump"
    /\ file' = Newest(Append(mev[b].buf, mev[b].nonce)) /\ recorded' = Append(recorded, mev[b].nonce)
    /\ Goes(b, Rest(b)) /\ Quiet
    /\ UNCHANGED <<chainVars, memoryVars, overlapped, torn, hitches, tryVars, jitVars, searchVars>>

(* PM2 starts a process that stopped: its memory is gone, the file stays as it was.  *)
Restart(b) ==
    /\ hitches < MaxHitches /\ hitches' = hitches + 1 /\ mev[b] # Idle
    /\ Goes(b, Idle) /\ last' = [last EXCEPT ![b] = Rested[b]]
    /\ tried' = [tried EXCEPT ![b] = Rested[b]]
    /\ seen' = IF b = "jit" THEN 0 ELSE seen
    /\ base' = IF b = "jit" THEN 0 ELSE base
    /\ torn' = (torn \/ mev[b].step = "dump")
    /\ UNCHANGED <<mtime, worldVars, chainVars, crew, live, file, recorded, overlapped, rushed, jitVars, searchVars>>

----------------------------------------------------------------------------
(* The liquidators: who is at risk is tried, one account after the other             *)
(* The given accounts and those found in the newest logs, which may be nobody.      *)
LiqUsers == SUBSET Borrowers \ {{}}
LiqScan ==
    /\ "liq" \in crew /\ mev["liq"].step = "sleep"
    /\ \E users \in LiqUsers : Goes("liq", [Idle EXCEPT !.step = "check", !.todo = users])
    /\ Quiet /\ UNCHANGED <<chainVars, memoryVars, fileVars, hitches, tryVars, jitVars, searchVars>>
AtRisk(u) == price < Oracle /\ debt[u] > 0
LiqCheck ==
    /\ mev["liq"].step = "check"
    /\ \E u \in mev["liq"].todo :
         LET r == [mev["liq"] EXCEPT !.todo = @ \ {u}]
         IN  IF AtRisk(u) /\ ~Cooling("liq", u)
             THEN /\ Attempt("liq", u)
                  /\ Goes("liq", [r EXCEPT !.step = "sim", !.key = u, !.amount = debt[u]])
             ELSE /\ Goes("liq", IF r.todo = {} THEN Idle ELSE r) /\ UNCHANGED <<last, tryVars>>
    /\ Quiet /\ UNCHANGED <<chainVars, seen, base, fileVars, hitches, jitVars, searchVars>>
LiqSimulates == Simulate("liq")
LiqSends     == ReadNonce("liq") \/ Broadcast("liq") \/ Receipt("liq")

MorphoUsers == SUBSET Borrowers \ {{}}
MorphoScan ==
    /\ "morpho" \in crew /\ mev["morpho"].step = "sleep"
    /\ \E users \in MorphoUsers : Goes("morpho", [Idle EXCEPT !.step = "check", !.todo = users])
    /\ Quiet /\ UNCHANGED <<chainVars, memoryVars, fileVars, hitches, tryVars, jitVars, searchVars>>
(* The position is read first, the oracle's price after it.                           *)
ReadPosition ==
    /\ mev["morpho"].step = "check"
    /\ \E u \in mev["morpho"].todo :
         Goes("morpho", [mev["morpho"] EXCEPT !.step = "price", !.todo = @ \ {u}, !.key = u,
                                              !.amount = shares[u], !.lo = coll[u]])
    /\ Quiet /\ UNCHANGED <<chainVars, memoryVars, fileVars, hitches, tryVars, jitVars, searchVars>>
Repay(owed) == IF owed < MaxDebt THEN owed ELSE MaxDebt
MorphoCheck ==
    /\ mev["morpho"].step = "price"
    /\ LET r == mev["morpho"]
           owed == to_assets_up(r.amount)
       IN  IF r.amount > 0 /\ r.lo > 0 /\ r.lo * price < owed /\ ~Cooling("morpho", r.key)
           THEN /\ Attempt("morpho", r.key)
                /\ Goes("morpho", [r EXCEPT !.step = "sim", !.amount = Repay(owed), !.lo = 0])
           ELSE Goes("morpho", Rest("morpho")) /\ UNCHANGED <<last, tryVars>>
    /\ Quiet /\ UNCHANGED <<chainVars, seen, base, fileVars, hitches, jitVars, searchVars>>
MorphoSends == Simulate("morpho") \/ ReadNonce("morpho") \/ Broadcast("morpho") \/ Receipt("morpho")
MorphoNotes == AppendRead("morpho") \/ AppendOpen("morpho") \/ AppendWrite("morpho")

----------------------------------------------------------------------------
(* The arbitrage: a size is searched by thirds while the market may move             *)
Gap == price - Oracle
Evaluate ==
    /\ "arb" \in crew /\ mev["arb"].step = "sleep" /\ Gap # 0 /\ ~Cooling("arb", price)
    /\ Attempt("arb", price)
    /\ Goes("arb", [Idle EXCEPT !.step = "search", !.key = price, !.lo = 1, !.hi = Len(Gain[price])])
    /\ steady' = TRUE /\ blinded' = FALSE
    /\ Quiet /\ UNCHANGED <<chainVars, seen, base, fileVars, hitches, jitVars>>
sim_profit(amount) == IF ArbitragePays(amount) THEN Gain[price][amount] ELSE -1
Third(r) == (r.hi - r.lo) \div 3
Found(r) == r.round = SearchRounds \/ r.hi - r.lo < r.lo \div Grain
NarrowedWrongSide(r, f2) ==
    IF r.amount < f2 THEN [r EXCEPT !.hi = @ - Third(r)] ELSE [r EXCEPT !.lo = @ + Third(r)]
Narrowed(r, f2) ==
    IF r.amount < f2 THEN [r EXCEPT !.lo = @ + Third(r)] ELSE [r EXCEPT !.hi = @ - Third(r)]
(* The first third is simulated, then the second, with what the market is by then.     *)
FirstThird ==
    /\ mev["arb"].step = "search" /\ ~Found(mev["arb"])
    /\ LET r == mev["arb"]
       IN  Goes("arb", [r EXCEPT !.step = "probe", !.amount = sim_profit(r.lo + Third(r))])
    /\ Quiet /\ UNCHANGED <<chainVars, memoryVars, fileVars, hitches, tryVars, jitVars, searchVars>>
SecondThird ==
    /\ mev["arb"].step = "probe"
    /\ LET r == mev["arb"]
           f2 == sim_profit(r.hi - Third(r))
       IN  /\ Goes("arb", [Narrowed(r, f2) EXCEPT !.step = "search", !.amount = 0, !.round = @ + 1])
           /\ blinded' = (blinded \/ (r.amount = -1 /\ f2 = -1))
    /\ Quiet /\ UNCHANGED <<chainVars, memoryVars, fileVars, hitches, tryVars, jitVars, steady>>
SizeFound ==
    /\ mev["arb"].step = "search" /\ Found(mev["arb"])
    /\ LET r == mev["arb"]
       IN  Goes("arb", IF sim_profit(r.lo) > MinProfit /\ live
                       THEN [Idle EXCEPT !.step = "sign", !.key = r.key, !.amount = r.lo] ELSE Idle)
    /\ Quiet /\ UNCHANGED <<chainVars, memoryVars, fileVars, hitches, tryVars, jitVars, searchVars>>
ArbSends == ReadNonce("arb") \/ Broadcast("arb") \/ Receipt("arb")
ArbNotes == AppendRead("arb") \/ AppendOpen("arb") \/ AppendWrite("arb")

----------------------------------------------------------------------------
(* The liquidity bot: the large swaps of new blocks, in their order                  *)
Nth(n) == CHOOSE w \in Whales : w.n = n
JitScan ==
    /\ "jit" \in crew /\ mev["jit"].step = "sleep" /\ mhead > seen /\ seen' = mhead
    /\ IF seen = 0 THEN base' = mhead /\ UNCHANGED mev
       ELSE LET new == {w.n : w \in {x \in Whales : seen < x.block /\ x.block <= mhead /\ x.usd >= MinSwap}}
            IN  /\ Goes("jit", IF new = {} THEN Idle ELSE [Idle EXCEPT !.step = "check", !.todo = new])
                /\ UNCHANGED base
    /\ Quiet /\ UNCHANGED <<chainVars, last, fileVars, hitches, tryVars, jitVars, searchVars>>
JitCheck ==
    /\ mev["jit"].step = "check"
    /\ LET n == CHOOSE k \in mev["jit"].todo : \A j \in mev["jit"].todo : k <= j
           usd == Nth(n).usd
           r == [mev["jit"] EXCEPT !.todo = @ \ {n}]
       IN  IF Cooling("jit", usd)
           THEN Goes("jit", IF r.todo = {} THEN Idle ELSE r) /\ UNCHANGED <<last, tryVars, met>>
           ELSE /\ Attempt("jit", usd) /\ met' = met \cup {n}
                /\ Goes("jit", [r EXCEPT !.step = "price", !.key = usd])
    /\ Quiet /\ UNCHANGED <<chainVars, seen, base, fileVars, hitches, broken_off, searchVars>>
optimal_range == align_tick(Tick)
(* The pool is read for the range; when that fails the rest of the batch is left out.   *)
PoolState ==
    /\ mev["jit"].step = "price"
    /\ \/ /\ Goes("jit", [mev["jit"] EXCEPT !.step = "sim", !.amount = optimal_range])
          /\ UNCHANGED <<broken_off, hitches>>
       \/ /\ hitches < MaxHitches /\ hitches' = hitches + 1
          /\ broken_off' = broken_off \cup mev["jit"].todo /\ Goes("jit", Idle)
    /\ Quiet /\ UNCHANGED <<chainVars, memoryVars, fileVars, tryVars, met, searchVars>>
JitSimulates == Simulate("jit")
JitSends == ReadNonce("jit") \/ Broadcast("jit") \/ Receipt("jit")
JitNotes == AppendRead("jit") \/ AppendOpen("jit") \/ AppendWrite("jit")

----------------------------------------------------------------------------
Init ==
    /\ crew \in Crews /\ live \in BOOLEAN
    /\ mtime = 0 /\ price = Oracle /\ mhead = 1
    /\ debt = [u \in Borrowers |-> IF "liq" \in crew THEN 1 ELSE 0]
    /\ shares \in [Borrowers -> IF "morpho" \in crew THEN Shares ELSE {0}]
    /\ coll = [u \in Borrowers |-> Pledge]
    /\ acct = 1 /\ txs = {} /\ mev = [b \in AllBots |-> Idle] /\ last = Rested
    /\ seen = 0 /\ base = 0 /\ file = <<>> /\ moves = 0 /\ hitches = 0
    /\ tried = Rested /\ rushed = FALSE /\ recorded = <<>> /\ overlapped = FALSE /\ torn = FALSE
    /\ met = {} /\ broken_off = {} /\ steady = FALSE /\ blinded = FALSE
Next ==
    \/ MarketMoves \/ TimePasses \/ Mined
    \/ LiqScan \/ LiqCheck \/ LiqSimulates \/ LiqSends
    \/ MorphoScan \/ ReadPosition \/ MorphoCheck \/ MorphoSends \/ MorphoNotes
    \/ Evaluate \/ FirstThird \/ SecondThird \/ SizeFound \/ ArbSends \/ ArbNotes
    \/ JitScan \/ JitCheck \/ PoolState \/ JitSimulates \/ JitSends \/ JitNotes
    \/ \E b \in crew : Restart(b)

----------------------------------------------------------------------------
(* Two attempts of a bot at one key are a rest apart, but for a restart between     *)
(* them, whatever became of the first.                                           *)
AttemptsSpaced ==
    ~rushed

(* Four processes send from one account and never have two transactions waiting.     *)
OneInFlight == Cardinality(Pending) <= 1

(* What Morpho carried out was within the cap, and the shares for that sum had been   *)
(* a whole number: any other sum costs one unit more than was borrowed for it.       *)
LiquidatesOnlyExact ==
    \A t \in txs : t.bot = "morpho" /\ t.state = "ok" =>
        /\ t.amount <= MaxDebt
        /\ (t.amount * (BorrowShares + VirtualShares)) % (BorrowAssets + 1) = 0

(* The history has the newest entries, unless two bots wrote it at one time or one    *)
(* was stopped while the file was empty.                                           *)
HistoryKept ==
    overlapped \/ torn \/ file = Newest(recorded) \/ \E b \in crew : mev[b].step = "dump"

(* While the market stands still the best size is between the search's bounds,      *)
(* unless both thirds were refused.                                               *)
SearchKeepsPeak ==
    mev["arb"].step = "search" /\ steady /\ ~blinded =>
        \E best \in mev["arb"].lo..mev["arb"].hi : \A a \in InputSizes : Gain[price][a] <= Gain[price][best]

(* A large swap in a block that was passed was met, or one of the same sum was, or its *)
(* batch was broken off, or the bot was down.                                      *)
SwapsMet ==
    \A w \in Whales :
        base < w.block /\ w.block <= seen /\ w.usd >= MinSwap =>
            \/ w.n \in met \cup broken_off \cup mev["jit"].todo
            \/ \E v \in Whales : v.n \in met /\ v.usd = w.usd /\ v.n < w.n

MevFaithful ==
    /\ AttemptsSpaced /\ OneInFlight /\ LiquidatesOnlyExact /\ HistoryKept /\ SearchKeepsPeak /\ SwapsMet
=============================================================================
