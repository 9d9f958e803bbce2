--------------------------- MODULE AgentCreditPool ---------------------------
(* contracts/src/credit/AgentCreditPool.sol: liquidity providers' shares,     *)
(* agents' bonds, micro-loans with a first-loss reserve, loans against        *)
(* cirBTC; and RevenueRouter.sol, which repays an agent's loans out of its    *)
(* revenue before the rest is split.  A transaction is atomic; the loop of    *)
(* repayOnBehalf runs loan by loan while it holds the contract's lock, and    *)
(* nothing else happens meanwhile.                                            *)
EXTENDS Integers, FiniteSets, Totals

CONSTANTS
    LPs, Agents, NoAgent,
    Deposits, ShareAmounts, BondAmounts, LoanAmounts, Terms, Revenues,
    CollateralAmounts, Borrowings,     \* the amounts callers choose from
    Policies, FeeSchedules, RiskParams, BondMins, Prices,   \* what may be set
    InitPolicy, InitFees, InitRisk, InitBondMin, InitPrice,
    BPS,                               \* 10_000
    MaxPerformanceFeeBps, MaxInterestBps, MaxReserveBps,
    PriceScale,                        \* 1e20: 8-decimal cirBTC at a 1e18 price
    MaxHeld, MaxShortfall, MaxCollateral, MaxLoans, MaxTime, MaxGov      \* bounds

LoanIds == 1..MaxLoans

Policy == [minLoan : Nat \ {0}, maxLoan : Nat, maxTerm : Nat, maxPerAgent : Nat,
           epochCap : Nat, epochDuration : Nat, maxUtilizationBps : Nat]
ValidFees(f) == f.perf <= MaxPerformanceFeeBps /\ f.interest <= MaxInterestBps
                /\ f.reserve <= MaxReserveBps
ValidRisk(r) == 0 < r.maxLtv /\ r.maxLtv < r.threshold /\ r.threshold <= BPS
ValidPolicy(p) == p.minLoan <= p.maxLoan /\ p.maxTerm # 0 /\ p.maxLoan <= p.maxPerAgent
                  /\ p.maxUtilizationBps <= BPS /\ p.epochDuration # 0

ASSUME Parties == IsFiniteSet(LPs) /\ IsFiniteSet(Agents) /\ NoAgent \notin Agents

ASSUME Numbers ==
    /\ BPS \in Nat \ {0} /\ PriceScale \in Nat \ {0}
    /\ MaxPerformanceFeeBps \in Nat /\ MaxReserveBps \in Nat /\ MaxInterestBps \in Nat
    /\ MaxPerformanceFeeBps + MaxReserveBps <= BPS
    /\ {MaxHeld, MaxShortfall, MaxCollateral, MaxLoans, MaxTime, MaxGov} \subseteq Nat
    /\ Deposits \cup ShareAmounts \cup BondAmounts \cup LoanAmounts \cup Terms \cup Revenues
       \cup CollateralAmounts \cup Borrowings \cup BondMins \cup Prices \subseteq Nat \ {0}

ASSUME Settings ==
    /\ Policies \cup {InitPolicy} \subseteq Policy
    /\ FeeSchedules \cup {InitFees} \subseteq [perf : Nat, interest : Nat, reserve : Nat]
    /\ RiskParams \cup {InitRisk} \subseteq [maxLtv : Nat, threshold : Nat, penalty : Nat]
    /\ ValidFees(InitFees) /\ ValidRisk(InitRisk)
    /\ InitBondMin \in Nat /\ InitPrice \in Nat

VARIABLES
    now, gov,
    paused, approved, policy, fees, risk, minBond,
    price,               \* what the oracle answers; 0 while none is configured
    held,                \* the pool's own USDC balance
    idle, outstanding, reserve, totalShares, shares, bond,
    loans, loanCount, agentOutstanding, epoch,
    collateral, collateralDebt,
    route,               \* the repayOnBehalf loop that runs, if any
    shortfall            \* history: USDC credited by liquidations and not received
config  == <<paused, approved, policy, fees, risk, minBond, gov>>
lpSide  == <<totalShares, shares>>
lending == <<outstanding, loans, loanCount, agentOutstanding, epoch>>
secured == <<collateral, collateralDebt>>
vars == <<now, config, price, held, idle, reserve, lpSide, bond, lending, secured, route, shortfall>>

Loan == [borrower : Agents \cup {NoAgent}, principal : Nat, dueAt : Nat,
         status : {"none", "active", "repaid", "defaulted"}]
Route == [agent : Agents \cup {NoAgent}, next : Nat \ {0}, used : Nat, max : Nat, revenue : Nat]
NoRoute == [agent |-> NoAgent, next |-> 1, used |-> 0, max |-> 0, revenue |-> 0]
Unlocked == route = NoRoute

TypeOK ==
    /\ now \in Nat /\ gov \in Nat /\ paused \in BOOLEAN /\ approved \subseteq LPs \cup Agents
    /\ policy \in Policy /\ minBond \in Nat /\ price \in Nat
    /\ fees \in [perf : Nat, interest : Nat, reserve : Nat] /\ ValidFees(fees)
    /\ risk \in [maxLtv : Nat, threshold : Nat, penalty : Nat] /\ ValidRisk(risk)
    /\ held \in Nat /\ idle \in Nat /\ outstanding \in Nat /\ reserve \in Nat
    /\ totalShares \in Nat /\ shares \in [LPs -> Nat] /\ bond \in [Agents -> Nat]
    /\ loans \in [LoanIds -> Loan] /\ loanCount \in 0..MaxLoans
    /\ agentOutstanding \in [Agents -> Nat] /\ epoch \in [start : Nat, lent : Nat]
    /\ collateral \in [Agents -> Nat] /\ collateralDebt \in [Agents -> Nat]
    /\ route \in Route /\ shortfall \in Nat

Init ==
    /\ now = 0 /\ gov = 0 /\ paused = FALSE /\ approved = LPs \cup Agents
    /\ policy = InitPolicy /\ fees = InitFees /\ risk = InitRisk /\ minBond = InitBondMin
    /\ price = InitPrice
    /\ held = 0 /\ idle = 0 /\ outstanding = 0 /\ reserve = 0
    /\ totalShares = 0 /\ shares = [l \in LPs |-> 0] /\ bond = [a \in Agents |-> 0]
    /\ loans = [i \in LoanIds |-> [borrower |-> NoAgent, principal |-> 0, dueAt |-> 0, status |-> "none"]]
    /\ loanCount = 0 /\ agentOutstanding = [a \in Agents |-> 0] /\ epoch = [start |-> 0, lent |-> 0]
    /\ collateral = [a \in Agents |-> 0] /\ collateralDebt = [a \in Agents |-> 0]
    /\ route = NoRoute /\ shortfall = 0

-----------------------------------------------------------------------------
(* Amounts *)

Bps(x, rate) == (x * rate) \div BPS
Interest(p)  == Bps(p, fees.interest)
Owed(p)      == p + Interest(p)
PerfFee(p)   == Bps(Interest(p), fees.perf)
ToReserve(p) == Bps(Interest(p), fees.reserve)
ToLPsAll(p)  == p + Interest(p) - PerfFee(p)
ToLPs(p)     == p + Interest(p) - PerfFee(p) - ToReserve(p)

poolAssets == idle + outstanding
MintedSharesUp(amount) == IF totalShares = 0 THEN amount ELSE (amount * totalShares) \div poolAssets + 1
MintedShares(amount) == IF totalShares = 0 THEN amount ELSE (amount * totalShares) \div poolAssets
ShareValue(s) == (s * poolAssets) \div totalShares

Active(i) == loans[i].status = "active"
Lent      == [i \in LoanIds |-> IF Active(i) THEN loans[i].principal ELSE 0]
LentTo(a) == [i \in LoanIds |-> IF Active(i) /\ loans[i].borrower = a THEN loans[i].principal ELSE 0]
debtOf(a) == Total([i \in LoanIds |-> Owed(LentTo(a)[i])])

Lesser(x, y) == IF x <= y THEN x ELSE y
CollateralValue(c) == (c * price) \div PriceScale
WithinLtv(d, c, ltv) == Owed(d) * BPS <= CollateralValue(c) * ltv
Underwater(a) == ~WithinLtv(collateralDebt[a], collateral[a], risk.threshold)
(* worthless collateral cannot be liquidated *)
Liquidatable(a) ==
    collateralDebt[a] # 0 /\ CollateralValue(collateral[a]) # 0 /\ Underwater(a)

-----------------------------------------------------------------------------
(* Liquidity providers *)

deposit(l, amount) ==
    /\ Unlocked /\ ~paused /\ l \in approved
    /\ held + amount <= MaxHeld /\ poolAssets + amount <= MaxHeld
    /\ totalShares # 0 => poolAssets # 0          \* or the division reverts
    /\ MintedShares(amount) # 0
    /\ totalShares' = totalShares + MintedShares(amount)
    /\ shares' = [shares EXCEPT ![l] = @ + MintedShares(amount)]
    /\ idle' = idle + amount /\ held' = held + amount
    /\ UNCHANGED <<now, config, price, reserve, bond, lending, secured, route, shortfall>>

withdraw(l, s) ==
    /\ Unlocked /\ s > 0 /\ s <= shares[l]
    /\ ShareValue(s) <= idle /\ ShareValue(s) <= held
    /\ shares' = [shares EXCEPT ![l] = @ - s]
    /\ totalShares' = totalShares - s
    /\ idle' = idle - ShareValue(s) /\ held' = held - ShareValue(s)
    /\ UNCHANGED <<now, config, price, reserve, bond, lending, secured, route, shortfall>>

-----------------------------------------------------------------------------
(* Bonds *)

depositBond(a, amount) ==
    /\ Unlocked /\ held + amount <= MaxHeld
    /\ bond' = [bond EXCEPT ![a] = @ + amount] /\ held' = held + amount
    /\ UNCHANGED <<now, config, price, idle, reserve, lpSide, lending, secured, route, shortfall>>

BondFreeAlways(a) == TRUE
BondFree(a) == agentOutstanding[a] = 0
withdrawBond(a, amount) ==
    /\ Unlocked /\ BondFree(a) /\ amount <= bond[a] /\ amount <= held
    /\ bond' = [bond EXCEPT ![a] = @ - amount] /\ held' = held - amount
    /\ UNCHANGED <<now, config, price, idle, reserve, lpSide, lending, secured, route, shortfall>>

-----------------------------------------------------------------------------
(* Micro-loans *)

_touchEpoch == IF now >= epoch.start + policy.epochDuration THEN [start |-> now, lent |-> 0] ELSE epoch

requestLoan(a, amount, term) ==
    LET i == loanCount + 1 IN
    /\ Unlocked /\ ~paused /\ a \in approved /\ loanCount < MaxLoans
    /\ bond[a] >= minBond
    /\ policy.minLoan <= amount /\ amount <= policy.maxLoan /\ term <= policy.maxTerm
    /\ amount <= idle /\ amount <= held
    /\ _touchEpoch.lent + amount <= policy.epochCap
    /\ agentOutstanding[a] + amount <= policy.maxPerAgent
    /\ outstanding + amount <= Bps(poolAssets, policy.maxUtilizationBps)
    /\ loans' = [loans EXCEPT ![i] = [borrower |-> a, principal |-> amount,
                                      dueAt |-> now + term, status |-> "active"]]
    /\ loanCount' = i
    /\ outstanding' = outstanding + amount /\ idle' = idle - amount /\ held' = held - amount
    /\ agentOutstanding' = [agentOutstanding EXCEPT ![a] = @ + amount]
    /\ epoch' = [_touchEpoch EXCEPT !.lent = @ + amount]
    /\ UNCHANGED <<now, config, price, reserve, lpSide, bond, secured, route, shortfall>>

CloseLoanOnly(i, status) ==
    /\ loans' = [loans EXCEPT ![i].status = status]
    /\ outstanding' = outstanding - loans[i].principal
    /\ UNCHANGED agentOutstanding
CloseLoan(i, status) ==
    /\ loans' = [loans EXCEPT ![i].status = status]
    /\ outstanding' = outstanding - loans[i].principal
    /\ agentOutstanding' = [agentOutstanding EXCEPT ![loans[i].borrower] = @ - loans[i].principal]

_settle(i) ==
    LET p == loans[i].principal IN
    /\ Active(i) /\ CloseLoan(i, "repaid")
    /\ idle' = idle + ToLPs(p) /\ reserve' = reserve + ToReserve(p)
    /\ held' = held + Owed(p) - PerfFee(p)
    /\ UNCHANGED <<now, config, price, lpSide, bond, loanCount, epoch, secured, shortfall>>

(* repay and repayFrom: whoever pays *)
repay(i) == Unlocked /\ _settle(i) /\ UNCHANGED route

(* repayOnBehalf called by the keeper, and RevenueRouter.route, which passes   *)
(* it the lesser of the revenue and the debt                                   *)
Begin(a, max, revenue) ==
    /\ Unlocked
    /\ route' = [agent |-> a, next |-> 1, used |-> 0, max |-> max, revenue |-> revenue]
    /\ UNCHANGED <<now, config, price, held, idle, reserve, lpSide, bond, lending, secured, shortfall>>

repayOnBehalf(a, max) == Begin(a, max, 0)
RouteRevenue(a, revenue) == Begin(a, Lesser(debtOf(a), revenue), revenue)

LoopEnds == route.next > loanCount \/ route.used >= route.max
AffordableStrictly(i) == route.used + Owed(loans[i].principal) < route.max
Affordable(i) == route.used + Owed(loans[i].principal) <= route.max
RouteNext ==
    LET i == route.next IN
    /\ ~Unlocked /\ ~LoopEnds
    /\ IF Active(i) /\ loans[i].borrower = route.agent /\ Affordable(i)
       THEN /\ _settle(i)
            /\ route' = [route EXCEPT !.next = @ + 1, !.used = @ + Owed(loans[i].principal)]
       ELSE /\ route' = [route EXCEPT !.next = @ + 1]
            /\ UNCHANGED <<now, config, price, held, idle, reserve, lpSide, bond, lending, secured, shortfall>>

(* What is left of the revenue goes to the splitter. *)
RouteEnd ==
    /\ ~Unlocked /\ LoopEnds
    /\ route' = NoRoute
    /\ UNCHANGED <<now, config, price, held, idle, reserve, lpSide, bond, lending, secured, shortfall>>

SlashedFully(i) == loans[i].principal
Slashed(i) == Lesser(bond[loans[i].borrower], loans[i].principal)
ReserveUsedNot(i) == 0
ReserveUsed(i) == Lesser(reserve, loans[i].principal - Slashed(i))
markDefault(i) ==
    /\ Unlocked /\ Active(i) /\ now >= loans[i].dueAt
    /\ bond' = [bond EXCEPT ![loans[i].borrower] = @ - Slashed(i)]
    /\ reserve' = reserve - ReserveUsed(i)
    /\ idle' = idle + Slashed(i) + ReserveUsed(i)
    /\ CloseLoan(i, "defaulted")
    /\ UNCHANGED <<now, config, price, held, lpSide, loanCount, epoch, secured, route, shortfall>>

-----------------------------------------------------------------------------
(* cirBTC collateral *)

depositCollateral(a, c) ==
    /\ Unlocked /\ collateral[a] + c <= MaxCollateral
    /\ collateral' = [collateral EXCEPT ![a] = @ + c]
    /\ UNCHANGED <<now, config, price, held, idle, reserve, lpSide, bond, lending, collateralDebt, route, shortfall>>

CollateralBefore(a, c) == collateral[a]
CollateralLeft(a, c) == collateral[a] - c
withdrawCollateral(a, c) ==
    /\ Unlocked /\ c <= collateral[a]
    /\ WithinLtv(collateralDebt[a], CollateralLeft(a, c), risk.maxLtv)
    /\ collateral' = [collateral EXCEPT ![a] = @ - c]
    /\ UNCHANGED <<now, config, price, held, idle, reserve, lpSide, bond, lending, collateralDebt, route, shortfall>>

borrowAgainstCollateral(a, amount) ==
    /\ Unlocked /\ ~paused /\ amount <= idle /\ amount <= held
    /\ CollateralValue(collateral[a]) # 0
    /\ WithinLtv(collateralDebt[a] + amount, collateral[a], risk.maxLtv)
    /\ collateralDebt' = [collateralDebt EXCEPT ![a] = @ + amount]
    /\ idle' = idle - amount /\ held' = held - amount
    /\ UNCHANGED <<now, config, price, reserve, lpSide, bond, lending, collateral, route, shortfall>>

repayCollateral(a) ==
    LET d == collateralDebt[a] IN
    /\ Unlocked /\ d # 0 /\ held + Owed(d) <= MaxHeld
    /\ collateralDebt' = [collateralDebt EXCEPT ![a] = 0]
    /\ idle' = idle + ToLPs(d) /\ reserve' = reserve + ToReserve(d)
    /\ held' = held + Owed(d) - PerfFee(d)
    /\ UNCHANGED <<now, config, price, lpSide, bond, lending, collateral, route, shortfall>>

(* The collateral seized goes to the treasury; idle is credited although no    *)
(* USDC comes in.                                                              *)
Seized(a) ==
    LET owed == Owed(collateralDebt[a])
    IN  Lesser(collateral[a], ((owed + Bps(owed, risk.penalty)) * PriceScale) \div price)
liquidate(a) ==
    /\ Unlocked /\ Liquidatable(a)
    /\ shortfall + Owed(collateralDebt[a]) <= MaxShortfall
    /\ collateral' = [collateral EXCEPT ![a] = @ - Seized(a)]
    /\ collateralDebt' = [collateralDebt EXCEPT ![a] = 0]
    /\ idle' = idle + Owed(collateralDebt[a])
    /\ shortfall' = shortfall + Owed(collateralDebt[a])
    /\ UNCHANGED <<now, config, price, held, reserve, lpSide, bond, lending, route>>

-----------------------------------------------------------------------------
(* Governance, the oracle and time *)

Govern ==
    /\ Unlocked /\ gov < MaxGov /\ gov' = gov + 1
    /\ \/ paused' = ~paused /\ UNCHANGED <<approved, policy, fees, risk, minBond>>
       \/ /\ \E w \in LPs \cup Agents :
                approved' = IF w \in approved THEN approved \ {w} ELSE approved \cup {w}
          /\ UNCHANGED <<paused, policy, fees, risk, minBond>>
       \/ /\ policy' \in Policies /\ ValidPolicy(policy')
          /\ UNCHANGED <<paused, approved, fees, risk, minBond>>
       \/ /\ fees' \in FeeSchedules /\ ValidFees(fees')
          /\ UNCHANGED <<paused, approved, policy, risk, minBond>>
       \/ /\ risk' \in RiskParams /\ ValidRisk(risk')
          /\ UNCHANGED <<paused, approved, policy, fees, minBond>>
       \/ minBond' \in BondMins /\ UNCHANGED <<paused, approved, policy, fees, risk>>
    /\ UNCHANGED <<now, price, held, idle, reserve, lpSide, bond, lending, secured, route, shortfall>>

OracleMove ==
    /\ Unlocked /\ price' \in Prices
    /\ UNCHANGED <<now, config, held, idle, reserve, lpSide, bond, lending, secured, route, shortfall>>

Tick ==
    /\ Unlocked /\ now < MaxTime /\ now' = now + 1
    /\ UNCHANGED <<config, price, held, idle, reserve, lpSide, bond, lending, secured, route, shortfall>>

LoanSteps ==
    \/ \E i \in LoanIds : repay(i) \/ markDefault(i)
    \/ \E a \in Agents :
        \/ \E x \in LoanAmounts, t \in Terms : requestLoan(a, x, t)
        \/ \E x \in Revenues : repayOnBehalf(a, x) \/ RouteRevenue(a, x)
    \/ RouteNext \/ RouteEnd

CollateralSteps ==
    \E a \in Agents :
        \/ \E c \in CollateralAmounts : depositCollateral(a, c) \/ withdrawCollateral(a, c)
        \/ \E x \in Borrowings : borrowAgainstCollateral(a, x)
        \/ repayCollateral(a) \/ liquidate(a)

Next ==
    \/ \E l \in LPs : (\E x \in Deposits : deposit(l, x))
                      \/ (\E s \in ShareAmounts \cup {shares[l]} : withdraw(l, s))
    \/ \E a \in Agents, x \in BondAmounts : depositBond(a, x) \/ withdrawBond(a, x)
    \/ LoanSteps \/ CollateralSteps \/ Govern \/ OracleMove \/ Tick

Spec == Init /\ [][Next]_vars

-----------------------------------------------------------------------------
(* Properties *)

(* The pool's USDC is exactly the idle funds, the reserve and the bonds, less  *)
(* what liquidations credited without receiving it.                            *)
Solvent == held + shortfall = idle + reserve + Total(bond)

(* The totals the caps and the share price are computed from are the sums of   *)
(* the loans and shares they stand for.                                        *)
BooksAddUp ==
    /\ totalShares = Total(shares)
    /\ outstanding = Total(Lent)
    /\ \A a \in Agents : agentOutstanding[a] = Total(LentTo(a))

(* The value of a share falls only when a loan defaults or USDC is lent        *)
(* against collateral (which leaves the assets the price counts): no deposit,  *)
(* withdrawal or repayment dilutes the others.                                 *)
ShareValueStep ==
    totalShares > 0
    /\ (\A i \in LoanIds : loans'[i].status = "defaulted" => loans[i].status = "defaulted")
    /\ (\A a \in Agents : collateralDebt'[a] <= collateralDebt[a])
    => poolAssets' * totalShares >= poolAssets * totalShares'
ShareValueKept == [][ShareValueStep]_vars

(* A default costs the LPs nothing before the borrower's bond and the reserve  *)
(* are used up, and the reserve nothing before the bond is.                    *)
WaterfallStep ==
    \A i \in LoanIds : loans'[i].status = "defaulted" /\ loans[i].status = "active" =>
        /\ poolAssets' < poolAssets => reserve' = 0
        /\ reserve' < reserve => bond'[loans[i].borrower] = 0
LossWaterfall == [][WaterfallStep]_vars

(* The bond of an agent with an open loan only ever pays for a default of its  *)
(* own.                                                                        *)
BondStepBacked ==
    \A a \in Agents : bond'[a] < bond[a] =>
        \/ \A i \in LoanIds : ~(Active(i) /\ loans[i].borrower = a)
        \/ \E i \in LoanIds : /\ loans[i].borrower = a /\ Active(i)
                              /\ loans'[i].status = "defaulted"
BondBacksLoans == [][BondStepBacked]_vars

(* What a borrower or anyone else does never takes a position past the          *)
(* liquidation threshold: only the oracle, a new interest rate or new risk      *)
(* parameters do.                                                               *)
UnderwaterStep ==
    \A a \in Agents : ~Underwater(a) /\ Underwater(a)' =>
        price' # price \/ fees' # fees \/ risk' # risk
OnlyMarketSinks == [][UnderwaterStep]_vars

(* When the router splits what is left of the revenue, every loan still open   *)
(* owes more than that.                                                        *)
SplitStep ==
    route.agent # NoAgent /\ route'.agent = NoAgent /\ route.revenue > route.used =>
        \A i \in LoanIds : Active(i) /\ loans[i].borrower = route.agent =>
            Owed(loans[i].principal) > route.revenue - route.used
RepayBeforeSplit == [][SplitStep]_vars

(* Who pays and who is paid first: a default takes the bond before the reserve *)
(* and the reserve before the LPs, and the router's revenue is split only when *)
(* it covers no open loan of the agent any more (AgentCreditPool.sol:296-345). *)
WhoPaysFirst == LossWaterfall /\ RepayBeforeSplit

(* LPs made whole: what the pool owes is backed by USDC it has.                *)
LPsMadeWhole == held >= idle + reserve + Total(bond)
=============================================================================
