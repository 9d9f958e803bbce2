--------------------------- MODULE OrderExecutor ---------------------------
(* contracts/src/OrderExecutor.sol: the on-chain executor of signed limit   *)
(* orders (Permit2 SignatureTransfer with a witness) and of DCA parts       *)
(* (Permit2 AllowanceTransfer plus a signed DcaIntent).  A transaction is    *)
(* atomic, so every external function is one action; a revert is no step.   *)
(* The signatures users hand out are constants: a signature that exists at  *)
(* all may be presented at any time and any number of times.                *)
EXTENDS Totals

CONSTANTS
    Users, Tokens, Targets, Keepers,
    Executor, Treasury, NoRecipient,
    Orders,      \* signed [owner, tokenIn, tokenOut, amount, minOut, nonce, deadline]
    Permits,     \* signed PermitSingle [owner, token, amount, expiration, nonce]
    Intents,     \* signed DcaIntent [owner, tokenIn, tokenOut, maxAmountIn, minRate, deadline]
    InitBal,     \* [Tokens -> [Accounts -> Nat]]
    BPS,         \* 10_000
    MaxFeeBps,   \* 1000, the cap setFee enforces
    FeeChoices,  \* the rates the owner may try to set
    RateScale,   \* 1e18
    U160,        \* 2^160, the width partAmount is cast to
    MaxAmount,   \* bound on the amounts a keeper passes or a router moves
    MaxTime,     \* bound on the clock
    MaxParts     \* bound on the parts filled of one intent

Accounts == Users \cup Targets \cup Keepers \cup {Executor, Treasury}
Amounts  == 0..MaxAmount

ASSUME DistinctAccounts ==
    /\ Executor \notin Users \cup Targets \cup Keepers \cup {Treasury}
    /\ Users \cap (Targets \cup Keepers \cup {Treasury}) = {}
    /\ NoRecipient \notin Accounts

ASSUME NumericConstants ==
    /\ BPS \in Nat \ {0} /\ MaxFeeBps \in Nat /\ MaxFeeBps <= BPS
    /\ RateScale \in Nat \ {0} /\ U160 \in Nat \ {0}
    /\ MaxAmount \in Nat /\ MaxTime \in Nat /\ MaxParts \in Nat
    /\ FeeChoices \subseteq Nat

ASSUME SignedData ==
    /\ Orders \subseteq [owner : Users, tokenIn : Tokens, tokenOut : Tokens,
                         amount : Nat, minOut : Nat, nonce : Nat, deadline : Nat]
    /\ Permits \subseteq [owner : Users, token : Tokens, amount : Nat,
                          expiration : Nat, nonce : Nat]
    /\ Intents \subseteq [owner : Users, tokenIn : Tokens, tokenOut : Tokens,
                          maxAmountIn : Nat, minRate : Nat, deadline : Nat]
    /\ InitBal \in [Tokens -> [Accounts -> Nat]]
    /\ \A t \in Tokens : InitBal[t][Executor] = 0

ASSUME FinitelySigned == IsFiniteSet(Orders) /\ IsFiniteSet(Permits)

VARIABLES
    now,             \* block.timestamp
    keeper, allowedTargets, feeBps, feeRecipient,
    bal,             \* ERC-20 balances, token by account
    nonceUsed,       \* Permit2 unordered nonces spent, by owner
    allowance,       \* Permit2 AllowanceTransfer entry, by owner and token
    ledger           \* history: what each signature was used for
config == <<keeper, allowedTargets, feeBps, feeRecipient>>
vars   == <<now, config, bal, nonceUsed, allowance, ledger>>

Allowance == [amount : Nat, expiration : Nat, nonce : Nat]
Ledger == [fills   : [Orders -> Nat],       \* times executeOrder succeeded with the order
           got     : [Orders -> Nat],       \* tokenOut its owner received for it
           dcaIn   : [Intents -> Nat],      \* tokenIn pulled under the intent
           dcaOut  : [Intents -> Nat],      \* tokenOut received under the intent
           parts   : [Intents -> Nat],
           granted : [Users -> [Tokens -> Nat]],   \* total of the registered permits
           pulled  : [Users -> [Tokens -> Nat]]]   \* total pulled through the allowance

TypeOK ==
    /\ now \in 0..MaxTime
    /\ keeper \in Keepers
    /\ allowedTargets \subseteq Targets
    /\ feeBps \in 0..MaxFeeBps
    /\ feeRecipient \in (Accounts \ {Executor}) \cup {NoRecipient}
    /\ bal \in [Tokens -> [Accounts -> Nat]]
    /\ nonceUsed \in [Users -> SUBSET Nat]
    /\ allowance \in [Users -> [Tokens -> Allowance]]
    /\ ledger \in Ledger

Init ==
    /\ now = 0
    /\ keeper \in Keepers
    /\ allowedTargets \in {{}} \cup {{t} : t \in Targets}
    /\ feeBps \in FeeChoices /\ feeBps <= MaxFeeBps
    /\ feeRecipient = Treasury
    /\ bal = InitBal
    /\ nonceUsed = [u \in Users |-> {}]
    /\ allowance = [u \in Users |-> [t \in Tokens |->
                        [amount |-> 0, expiration |-> 0, nonce |-> 0]]]
    /\ ledger = [fills   |-> [o \in Orders |-> 0], got    |-> [o \in Orders |-> 0],
                 dcaIn   |-> [i \in Intents |-> 0], dcaOut |-> [i \in Intents |-> 0],
                 parts   |-> [i \in Intents |-> 0],
                 granted |-> [u \in Users |-> [t \in Tokens |-> 0]],
                 pulled  |-> [u \in Users |-> [t \in Tokens |-> 0]]]

----------------------------------------------------------------------------
(* Token movements inside one transaction *)

Transfer(b, t, from, to, n) ==
    [b EXCEPT ![t] = [a \in Accounts |->
        b[t][a] - (IF a = from THEN n ELSE 0) + (IF a = to THEN n ELSE 0)]]

Fee(amount) == IF feeRecipient = NoRecipient THEN 0 ELSE (amount * feeBps) \div BPS

TakeFee(b, t, amount) ==
    IF Fee(amount) > 0 THEN Transfer(b, t, Executor, feeRecipient, Fee(amount)) ELSE b

RefundNothing(b, t, user) == b
Refund(b, t, user) == Transfer(b, t, Executor, user, b[t][Executor])

(* The keeper builds the calldata of the router: the router takes r.used of  *)
(* what it was approved for and pays r.out of r.token to r.to.               *)
RouterCall == [used : Amounts, token : Tokens, out : Amounts, to : Users \cup Keepers]

RouterSwap(b, t, target, r) ==
    Transfer(Transfer(b, t, Executor, target, r.used), r.token, target, r.to, r.out)

Swap(b, user, t, amount, target, r) ==
    Refund(RouterSwap(TakeFee(b, t, amount), t, target, r), t, user)

(* The fee and the swap must be covered by what the executor holds, the swap *)
(* by the exact approval, and the output by the router's reserves.           *)
SwapPossible(b, t, amount, target, r) ==
    /\ Fee(amount) <= b[t][Executor]
    /\ r.used <= amount - Fee(amount)
    /\ r.used <= TakeFee(b, t, amount)[t][Executor]
    /\ r.out <= Transfer(TakeFee(b, t, amount), t, Executor, target, r.used)[r.token][target]

Received(before, after, t, user) ==
    IF after[t][user] > before[t][user] THEN after[t][user] - before[t][user] ELSE 0

----------------------------------------------------------------------------
(* Permit2, as the executor uses it *)

WitnessTokenOnly(o, tokenOut, minOut) == tokenOut = o.tokenOut

(* The witness is recomputed from the tokenOut and minOut the caller passes,  *)
(* so with other values than the signed ones the signature does not validate. *)
WitnessMatches(o, tokenOut, minOut) == tokenOut = o.tokenOut /\ minOut = o.minOut

(* permitWitnessTransferFrom *)
PermitWitness(o, tokenOut, minOut) ==
    /\ WitnessMatches(o, tokenOut, minOut)
    /\ now <= o.deadline
    /\ o.nonce \notin nonceUsed[o.owner]
    /\ o.amount <= bal[o.tokenIn][o.owner]

NonceKept(o) == nonceUsed
NonceAfterFill(o) == [nonceUsed EXCEPT ![o.owner] = @ \cup {o.nonce}]

PermitNonceKept(p) ==
    [allowance EXCEPT ![p.owner][p.token] =
        [amount |-> p.amount, expiration |-> p.expiration, nonce |-> @.nonce]]

(* permit: overwrites the allowance and moves its nonce on *)
Permit(p) ==
    [allowance EXCEPT ![p.owner][p.token] =
        [amount |-> p.amount, expiration |-> p.expiration, nonce |-> @.nonce + 1]]
PermitValid(p) == p.nonce = allowance[p.owner][p.token].nonce

AllowanceKept(al, u, t, n) == al
AllowanceSpent(al, u, t, n) == [al EXCEPT ![u][t].amount = @ - n]

----------------------------------------------------------------------------
(* The external functions *)

setKeeper(k) ==
    /\ keeper' = k
    /\ UNCHANGED <<now, allowedTargets, feeBps, feeRecipient, bal, nonceUsed, allowance, ledger>>

setAllowedTarget(t, allowed) ==
    /\ allowedTargets' = IF allowed THEN allowedTargets \cup {t} ELSE allowedTargets \ {t}
    /\ UNCHANGED <<now, keeper, feeBps, feeRecipient, bal, nonceUsed, allowance, ledger>>

setFeeUncapped(bps, recipient) ==
    /\ feeBps' = bps /\ feeRecipient' = recipient
    /\ UNCHANGED <<now, keeper, allowedTargets, bal, nonceUsed, allowance, ledger>>

setFee(bps, recipient) ==
    /\ bps <= MaxFeeBps
    /\ feeBps' = bps /\ feeRecipient' = recipient
    /\ UNCHANGED <<now, keeper, allowedTargets, bal, nonceUsed, allowance, ledger>>

executeOrder(k, o, target, tokenOut, minOut) ==
    LET pulled == Transfer(bal, o.tokenIn, o.owner, Executor, o.amount)
    IN  /\ k = keeper
        /\ target \in allowedTargets
        /\ PermitWitness(o, tokenOut, minOut)
        /\ \E r \in RouterCall :
            LET after == Swap(pulled, o.owner, o.tokenIn, o.amount, target, r)
            IN  /\ SwapPossible(pulled, o.tokenIn, o.amount, target, r)
                /\ Received(bal, after, tokenOut, o.owner) >= minOut
                /\ bal' = after
                /\ ledger' = [ledger EXCEPT
                        !.fills[o] = @ + 1,
                        !.got[o] = @ + Received(bal, after, o.tokenOut, o.owner)]
        /\ nonceUsed' = NonceAfterFill(o)
        /\ UNCHANGED <<now, config, allowance>>

VerifyIgnoresTokenOut(i, owner, tokenIn, tokenOut, part, minOut) ==
    /\ i.owner = owner /\ i.tokenIn = tokenIn
    /\ now <= i.deadline
    /\ part <= i.maxAmountIn
    /\ minOut >= (part * i.minRate) \div RateScale

VerifyDcaIntent(i, owner, tokenIn, tokenOut, part, minOut) ==
    /\ i.owner = owner /\ i.tokenIn = tokenIn /\ i.tokenOut = tokenOut
    /\ now <= i.deadline
    /\ part <= i.maxAmountIn
    /\ minOut >= (part * i.minRate) \div RateScale

(* One DCA part.  "register" is the first part, which carries the permit's    *)
(* signature; the token is named by the permit either way.                    *)
executeDca(k, i, p, register, part, target, tokenOut, minOut) ==
    LET amount == part % U160
        al     == IF register THEN Permit(p) ELSE allowance
        pulled == Transfer(bal, p.token, i.owner, Executor, amount)
    IN  /\ k = keeper
        /\ target \in allowedTargets
        /\ VerifyDcaIntent(i, i.owner, p.token, tokenOut, part, minOut)
        /\ register => p.owner = i.owner /\ PermitValid(p)
        /\ now <= al[i.owner][p.token].expiration
        /\ amount <= al[i.owner][p.token].amount
        /\ amount <= bal[p.token][i.owner]
        /\ ledger.parts[i] < MaxParts
        /\ \E r \in RouterCall :
            LET after == Swap(pulled, i.owner, p.token, part, target, r)
            IN  /\ SwapPossible(pulled, p.token, part, target, r)
                /\ Received(bal, after, tokenOut, i.owner) >= minOut
                /\ bal' = after
                /\ ledger' = [ledger EXCEPT
                        !.dcaIn[i] = @ + amount,
                        !.dcaOut[i] = @ + Received(bal, after, i.tokenOut, i.owner),
                        !.parts[i] = @ + 1,
                        !.granted[i.owner][p.token] = @ + (IF register THEN p.amount ELSE 0),
                        !.pulled[i.owner][p.token] = @ + amount]
        /\ allowance' = AllowanceSpent(al, i.owner, p.token, amount)
        /\ UNCHANGED <<now, config, nonceUsed>>

Tick == now < MaxTime /\ now' = now + 1 /\ UNCHANGED <<config, bal, nonceUsed, allowance, ledger>>

Admin ==
    \/ \E k \in Keepers : setKeeper(k)
    \/ \E t \in Targets, allowed \in BOOLEAN : setAllowedTarget(t, allowed)
    \/ \E bps \in FeeChoices, a \in {Treasury, NoRecipient} : setFee(bps, a)

Fill ==
    \/ \E k \in Keepers, o \in Orders, target \in Targets, tokenOut \in Tokens,
          minOut \in Amounts : executeOrder(k, o, target, tokenOut, minOut)
    \/ \E k \in Keepers, i \in Intents, p \in Permits, register \in BOOLEAN,
          part \in Amounts, target \in Targets, tokenOut \in Tokens,
          minOut \in Amounts :
            executeDca(k, i, p, register, part, target, tokenOut, minOut)

Next == Tick \/ Admin \/ Fill
Spec == Init /\ [][Next]_vars

----------------------------------------------------------------------------
(* Properties *)

(* The contract keeps no funds at rest (its header comment): whatever a      *)
(* router leaves unused of the tokenIn goes back to the user in the same      *)
(* transaction, for orders and for DCA parts alike.                           *)
NoResidue == \A t \in Tokens : bal[t][Executor] = 0

(* A signed order, and more generally a Permit2 nonce, pays for one fill:     *)
(* neither a repeated call of a keeper nor a second order signed with the     *)
(* same nonce can take the user's tokens again.                               *)
NonceFillsOnce ==
    /\ \A o \in Orders : ledger.fills[o] <= 1
    /\ \A o1, o2 \in Orders :
        o1 # o2 /\ o1.owner = o2.owner /\ o1.nonce = o2.nonce
            => ledger.fills[o1] = 0 \/ ledger.fills[o2] = 0

(* Whatever calldata the keeper builds (another output token, another         *)
(* recipient, a partial swap), an order that was filled brought its owner at   *)
(* least the signed minOut of the signed tokenOut.                            *)
FillsHonourMinOut == \A o \in Orders : ledger.got[o] >= ledger.fills[o] * o.minOut

(* DCA parts draw on signed permits only: over any sequence of parts and of   *)
(* permit registrations, what was pulled plus what can still be pulled never  *)
(* exceeds the sum of the amounts of the permits registered.                  *)
PulledWithinGrants ==
    \A u \in Users, t \in Tokens :
        ledger.pulled[u][t] + allowance[u][t].amount <= ledger.granted[u][t]

(* What each DCA intent returned overall: at least the signed rate on what    *)
(* was pulled, less one rounding unit per part.                               *)
DcaRateUpToRounding ==
    \A i \in Intents :
        ledger.dcaOut[i] * RateScale + ledger.parts[i] * (RateScale - 1)
            >= ledger.dcaIn[i] * i.minRate

(* What can ever leave a user's wallet is bounded by the signatures alone:    *)
(* one order, the largest, of each nonce, and one DCA permit of each of its    *)
(* nonces, however often the keeper presents them and whatever the router      *)
(* returns unused.                                                            *)
OrdersOf(u, t)  == {o \in Orders : o.owner = u /\ o.tokenIn = t}
PermitsOf(u, t) == {p \in Permits : p.owner = u /\ p.token = t}
ByNonce(S)     == {<<s.nonce, s.amount>> : s \in S}
SignedAway(u, t) == TotalOnce(ByNonce(OrdersOf(u, t))) + TotalOnce(ByNonce(PermitsOf(u, t)))
DebitsWithinSignatures ==
    \A u \in Users, t \in Tokens : InitBal[t][u] - bal[t][u] <= SignedAway(u, t)
=============================================================================
