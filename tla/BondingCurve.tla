---------------------------- MODULE BondingCurve ----------------------------
(* An agent's token on its bonding curve, as AgentFactory launches it: AgentBondingCurve,   *)
(* the limits of AgentToken, and the graduation through GraduationModule into a pair of      *)
(* the exchange and a lock of LiquidityLocker.  Tokens or USDC that someone gives to the    *)
(* curve or the module are left out: they go where the rest goes.                          *)
EXTENDS Integers, FiniteSets, Totals

CONSTANTS
    Buyers,
    X0, Y0,                 \* virtual reserves: y0 is the token's supply
    Spends, TokenAmounts,   \* what is paid for tokens, and tokens sold or sent
    BPS, FeeChoices,        \* 10000, and [fee, sniper] in parts of it
    Thresholds,             \* graduationUsdc
    SniperWindow, MaxWallet, MaxTx,
    LockChoices,            \* lockSeconds of the module
    MaxRaised, MaxCurveTime, MaxChanges     \* bounds of the model

VARIABLES
    x, y, fees, graduationUsdc, graduated,
    reserve,            \* the curve's own USDC
    tokens,             \* token balances, of the curve and the exchange too
    limitsActive, moduleSet,
    lockSeconds, done,  \* of the module: graduated[curve]
    lock,               \* [amount, unlockTime, withdrawn]: the liquidity in the locker
    time, changes,
    lowered             \* history: the threshold was lowered since the last purchase
vars == <<x, y, fees, graduationUsdc, graduated, reserve, tokens, limitsActive, moduleSet,
          lockSeconds, done, lock, time, changes, lowered>>

k == X0 * Y0
Holders == Buyers \cup {"curve", "exchange"}
exempt == {"curve"}
raisedUsdc == x - X0
_effFeeBps == IF time < SniperWindow THEN fees.sniper ELSE fees.fee
FeeOf(amount) == (amount * _effFeeBps) \div BPS
NoLock == [amount |-> 0, unlockTime |-> 0, withdrawn |-> FALSE]
settings == <<fees, graduationUsdc, limitsActive, moduleSet, lockSeconds>>

Init ==
    /\ x = X0 /\ y = Y0 /\ fees \in FeeChoices /\ graduationUsdc \in Thresholds \ {0} /\ graduated = FALSE
    /\ reserve = 0 /\ tokens = [h \in Holders |-> IF h = "curve" THEN Y0 ELSE 0]
    /\ limitsActive = TRUE /\ moduleSet \in BOOLEAN
    /\ lockSeconds \in LockChoices /\ done = FALSE /\ lock = NoLock
    /\ time = 0 /\ changes = 0 /\ lowered = FALSE

(* _transfer of the token.                                                          *)
WithinLimits(from, to, amount) ==
    limitsActive /\ ~graduated =>
        /\ to \in exempt \/ tokens[to] + amount <= MaxWallet
        /\ from \in exempt \/ amount <= MaxTx
Transfer(from, to, amount) ==
    /\ amount <= tokens[from] /\ WithinLimits(from, to, amount)
    /\ tokens' = [tokens EXCEPT ![from] = @ - amount, ![to] = @ + amount]

TokensOut(usdcIn) == y - k \div (x + usdcIn - FeeOf(usdcIn))
buy(u, usdcIn) ==
    LET net == usdcIn - FeeOf(usdcIn)
    IN  /\ ~graduated /\ TokensOut(usdcIn) > 0 /\ TokensOut(usdcIn) < y
        /\ Transfer("curve", u, TokensOut(usdcIn))
        /\ x' = x + net /\ y' = y - TokensOut(usdcIn) /\ reserve' = reserve + net
        /\ graduated' = (x' - X0 >= graduationUsdc)
        /\ lowered' = FALSE
        /\ UNCHANGED <<settings, done, lock, time, changes>>

(* Mutant: the usual quotient of a constant product, by the reserves and not by k.          *)
GrossOfReserves(tokensIn) == (x * tokensIn) \div (y + tokensIn)
Gross(tokensIn) == x - k \div (y + tokensIn)
SaleGoesThrough(tokensIn) ==
    LET usdcOut == Gross(tokensIn) - FeeOf(Gross(tokensIn))
    IN  Gross(tokensIn) >= 0 /\ usdcOut < x /\ Gross(tokensIn) <= reserve
sell(u, tokensIn) ==
    /\ ~graduated /\ SaleGoesThrough(tokensIn)
    /\ Transfer(u, "curve", tokensIn)
    /\ x' = x - Gross(tokensIn) /\ y' = y + tokensIn /\ reserve' = reserve - Gross(tokensIn)
    /\ UNCHANGED <<settings, graduated, done, lock, time, changes, lowered>>

Send(from, to, amount) ==
    /\ from # to /\ Transfer(from, to, amount)
    /\ UNCHANGED <<x, y, settings, graduated, reserve, done, lock, time, changes, lowered>>

(* graduate: everything the curve holds becomes liquidity of the exchange, and the          *)
(* liquidity is locked.                                                             *)
graduate ==
    /\ ~done /\ moduleSet /\ graduated
    /\ reserve > 0 /\ tokens["curve"] > 0 /\ lockSeconds > 0
    /\ done' = TRUE
    /\ Transfer("curve", "exchange", tokens["curve"])
    /\ reserve' = 0
    /\ lock' = [NoLock EXCEPT !.amount = reserve, !.unlockTime = time + lockSeconds]
    /\ UNCHANGED <<x, y, settings, graduated, time, changes, lowered>>
Unlock ==
    /\ lock.amount > 0 /\ ~lock.withdrawn /\ time >= lock.unlockTime
    /\ lock' = [lock EXCEPT !.withdrawn = TRUE]
    /\ UNCHANGED <<x, y, settings, graduated, reserve, tokens, done, time, changes, lowered>>

Owner ==
    /\ changes < MaxChanges /\ changes' = changes + 1
    /\ \/ \E f \in FeeChoices :
              /\ fees' = f /\ f # fees
              /\ UNCHANGED <<graduationUsdc, limitsActive, moduleSet, lockSeconds, lowered>>
       \/ \E n \in Thresholds :
              /\ graduationUsdc' = n /\ n # graduationUsdc
              /\ lowered' = (lowered \/ n < graduationUsdc)
              /\ UNCHANGED <<fees, limitsActive, moduleSet, lockSeconds>>
       \/ /\ moduleSet' = ~moduleSet
          /\ UNCHANGED <<fees, graduationUsdc, limitsActive, lockSeconds, lowered>>
       \/ /\ limitsActive' = ~limitsActive
          /\ UNCHANGED <<fees, graduationUsdc, moduleSet, lockSeconds, lowered>>
       \/ \E n \in LockChoices :
              /\ lockSeconds' = n /\ n # lockSeconds
              /\ UNCHANGED <<fees, graduationUsdc, limitsActive, moduleSet, lowered>>
    /\ UNCHANGED <<x, y, graduated, reserve, tokens, done, lock, time>>
Wait ==
    /\ time < MaxCurveTime /\ time' = time + 1
    /\ UNCHANGED <<x, y, settings, graduated, reserve, tokens, done, lock, changes, lowered>>

Next ==
    \/ \E u \in Buyers : \E n \in Spends : raisedUsdc + n <= MaxRaised /\ buy(u, n)
    \/ \E u \in Buyers : \E n \in TokenAmounts : sell(u, n) \/ \E to \in Buyers : Send(u, to, n)
    \/ graduate \/ Unlock \/ Owner \/ Wait
Spec == Init /\ [][Next]_vars

----------------------------------------------------------------------------
(* Reserves and balances are natural numbers, and no token appears or is lost.           *)
CurveTypeOK ==
    /\ x \in Nat /\ y \in Nat \ {0} /\ reserve \in Nat /\ tokens \in [Holders -> Nat]
    /\ Total(tokens) = Y0
    /\ fees \in FeeChoices /\ graduated \in BOOLEAN /\ lock.amount \in Nat

(* Until it graduates the curve holds what its virtual reserves say, and afterwards      *)
(* the exchange has all of it and the locker the liquidity until the time is over.       *)
CurveBacked ==
    /\ ~done => reserve = raisedUsdc /\ tokens["curve"] = y
    /\ done => reserve = 0 /\ tokens["exchange"] = y /\ lock.amount = raisedUsdc
(* The product of the reserves is k up to the rounding of one trade, whatever trades there *)
(* were: what the floors give a trader never adds up.                                    *)
ProductKept == x * y <= k /\ (x + 1) * (y + 1) > k
(* While the curve trades, whoever holds tokens can sell all of them, and all holders      *)
(* together can: no arithmetic and no empty reserve refuses the sale.                    *)
HoldersCanSell ==
    ~graduated => \A group \in SUBSET Buyers :
                      LET n == Total([h \in group |-> tokens[h]]) IN n > 0 => SaleGoesThrough(n)
(* The curve stops at the purchase that reaches the threshold, and goes on above it only   *)
(* after the owner lowered it: then the next purchase decides (AgentBondingCurve.sol:144). *)
StopsAtThreshold == ~graduated /\ raisedUsdc >= graduationUsdc => lowered

(* All of it.                                                                     *)
CurveFaithful == CurveBacked /\ ProductKept /\ HoldersCanSell /\ StopsAtThreshold
=============================================================================
