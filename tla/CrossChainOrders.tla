-------------------------- MODULE CrossChainOrders --------------------------
(* CrossChainOrderExecutor: USDC that a bridge delivers to the contract pays for signed     *)
(* intents.  What is delivered is one balance, whoever it was sent for.                  *)
EXTENDS Integers, FiniteSets, Totals

CONSTANTS
    Intents,            \* signed: owner, amountIn, deadline and nonce
    BPS, FeeRates,      \* 10000 and what feeBps may be, MAX_FEE_BPS at most
    Interops,           \* "none", "keeper" or "other": what interop may be set to
    MaxDelivered, MaxBridgeTime, MaxSettings    \* bounds of the model

VARIABLES
    held,               \* the contract's USDC
    usedIntent, feeBps, interop, allowed,
    clock, settingsMade,
    delivered           \* history: owner -> USDC delivered for it
vars == <<held, usedIntent, feeBps, interop, allowed, clock, settingsMade, delivered>>

Owners == {i.owner : i \in Intents}
AmountOf(I) == Total([i \in I |-> i.amountIn])
FilledOf(o) == AmountOf({i \in usedIntent : i.owner = o})

Init ==
    /\ held = 0 /\ usedIntent = {} /\ feeBps \in FeeRates /\ interop \in Interops /\ allowed = TRUE
    /\ clock = 0 /\ settingsMade = 0
    /\ delivered = [o \in Owners |-> 0]

(* The bridge's message credits the contract for one of the owner's intents.             *)
Deliver(i) ==
    /\ delivered[i.owner] + i.amountIn <= MaxDelivered
    /\ held' = held + i.amountIn
    /\ delivered' = [delivered EXCEPT ![i.owner] = @ + i.amountIn]
    /\ UNCHANGED <<usedIntent, feeBps, interop, allowed, clock, settingsMade>>

(* Mutant: the fee is charged on top of the signed amount.                              *)
NetAndFee(i) == i.amountIn
Net(i) == i.amountIn - (i.amountIn * feeBps) \div BPS
(* Two roles are asked for, and one caller has to have both.                            *)
CallerAllowed == interop \in {"none", "keeper"}
Callable(i) ==
    CallerAllowed /\ clock <= i.deadline /\ allowed /\ i \notin usedIntent /\ held >= i.amountIn
(* The venue takes what it is approved for or less, and what it leaves stays in the          *)
(* contract; a swap that brings less than minOut reverts the call, so no such step.          *)
executeCrossChain(i) ==
    /\ Callable(i)
    /\ \E spent \in 0..Net(i) : held' = held - (i.amountIn * feeBps) \div BPS - spent
    /\ usedIntent' = usedIntent \cup {i}
    /\ UNCHANGED <<feeBps, interop, allowed, clock, settingsMade, delivered>>

OwnerSets ==
    /\ settingsMade < MaxSettings /\ settingsMade' = settingsMade + 1
    /\ \/ feeBps' \in FeeRates \ {feeBps} /\ UNCHANGED <<interop, allowed>>
       \/ interop' \in Interops \ {interop} /\ UNCHANGED <<feeBps, allowed>>
       \/ allowed' = ~allowed /\ UNCHANGED <<feeBps, interop>>
    /\ UNCHANGED <<held, usedIntent, clock, delivered>>
Later ==
    /\ clock < MaxBridgeTime /\ clock' = clock + 1
    /\ UNCHANGED <<held, usedIntent, feeBps, interop, allowed, settingsMade, delivered>>
Next == \/ \E i \in Intents : Deliver(i) \/ executeCrossChain(i)
        \/ OwnerSets \/ Later
Spec == Init /\ [][Next]_vars

----------------------------------------------------------------------------
(* The contract's balance is never below zero.                                          *)
CrossChainTypeOK ==
    /\ held \in Nat /\ usedIntent \subseteq Intents /\ feeBps \in FeeRates
    /\ delivered \in [Owners -> 0..MaxDelivered]

(* Whose delivery has come and was not used is filled from it, unless an intent of someone  *)
(* else was filled before that one's own delivery came: the balance is shared              *)
(* (CrossChainOrderExecutor.sol:186).                                                  *)
Overdrawn(o) == FilledOf(o) > delivered[o]
CrossChainFaithful ==
    \A i \in Intents \ usedIntent :
        /\ delivered[i.owner] - FilledOf(i.owner) >= i.amountIn
        /\ \A o \in Owners \ {i.owner} : ~Overdrawn(o)
        => held >= i.amountIn
=============================================================================
