------------------------- MODULE ArcIntelExecutorV3 -------------------------
(* arc-intel/executor/src/ArcIntelExecutorV3.sol: orders a user signed, and    *)
(* orders a session key signs within the limits its user authorized on chain,  *)
(* each swapped in a Uniswap v4 pool.  A transaction is atomic, so every        *)
(* external function is one action and a revert is no step.                    *)
EXTENDS Totals

CONSTANTS
    Users, Keys, Tokens, Pools, Hooks,
    Executor, Manager,     \* the contract, and the v4 PoolManager
    NoHook, NoGrant,
    PoolKey,        \* [Pools -> [currency0 : Tokens, currency1 : Tokens, hooks]]
    SignedOrders,   \* orders users signed, with their Permit2 permit
    SessionOrders,  \* orders a session key may sign
    Grants,         \* what a user may authorize a key for
    InitBal,        \* [Tokens -> [Users -> Nat]]
    InitPools,      \* the pools the constructor allows
    Testnet,        \* block.chainid # 5042
    U128,           \* 2^128, the width swap deltas are cast to
    MaxOut,         \* bound on what a swap returns
    MaxTime, MaxGrants      \* bounds on the clock and on authorizations by a user

Holders == Users \cup {Executor, Manager}
SignedOrder == [user : Users, token : Tokens, amount : Nat, permitNonce : Nat,
                pool : Pools, zeroForOne : BOOLEAN, minOut : Nat, recipient : Users,
                orderNonce : Nat, deadline : Nat]
SessionOrder == [user : Users, pool : Pools, zeroForOne : BOOLEAN, amountIn : Nat,
                 minOut : Nat, recipient : Users, orderNonce : Nat, deadline : Nat]
Grant == [pool : Pools, tokenIn : Tokens, maxPerOrder : Nat, maxTotal : Nat,
          minOutFloor : Nat, expiry : Nat]
Nonces == {o.orderNonce : o \in SignedOrders \cup SessionOrders}

ASSUME DistinctHolders == Executor # Manager /\ Executor \notin Users /\ Manager \notin Users
ASSUME PoolsHaveTwoSides ==
    /\ PoolKey \in [Pools -> [currency0 : Tokens, currency1 : Tokens, hooks : Hooks \cup {NoHook}]]
    /\ \A p \in Pools : PoolKey[p].currency0 # PoolKey[p].currency1
    /\ InitPools \subseteq Pools /\ NoHook \notin Hooks
ASSUME SignedData ==
    /\ SignedOrders \subseteq SignedOrder /\ SessionOrders \subseteq SessionOrder
    /\ Grants \subseteq Grant /\ NoGrant \notin Grants
    /\ InitBal \in [Tokens -> [Users -> Nat]]
ASSUME FinitelySigned == IsFiniteSet(SignedOrders) /\ IsFiniteSet(Keys)
ASSUME Numbers ==
    Testnet \in BOOLEAN /\ U128 \in Nat \ {0} /\ MaxOut \in Nat /\ MaxTime \in Nat /\ MaxGrants \in Nat

VARIABLES
    now,                                             \* block.timestamp
    paused, allowedPools, allowedHooks, allowAllPools,
    sessions,            \* by user and session key
    orderNonceUsed,      \* by user: filled or cancelled
    permitUsed,          \* Permit2 unordered nonces spent, by user
    bal,                 \* ERC-20 balances, token by holder
    ledger               \* history: fills, cancellations, and what sessions were used for
policy  == <<paused, allowedPools, allowedHooks, allowAllPools>>
v3vars  == <<now, policy, sessions, orderNonceUsed, permitUsed, bal, ledger>>

Session == [grant : Grants \cup {NoGrant}, revoked : BOOLEAN, spent : Nat]
Use     == [orders : Nat, short : Nat, pulled : Nat, got : Nat]
NoUse   == [orders |-> 0, short |-> 0, pulled |-> 0, got |-> 0]
Ledger  == [fills     : [Users -> [Nonces -> Nat]],
            short     : [Users -> SUBSET Nonces],         \* filled for less than minOut
            cancelled : [Users -> SUBSET Nonces],         \* before they were filled
            use       : [Users -> [Keys -> Use]],         \* since the key was last authorized
            grants    : [Users -> 0..MaxGrants],
            consented : [Users -> [Tokens -> Nat]]]       \* sum of the maxTotals authorized

TypeOK ==
    /\ now \in 0..MaxTime /\ paused \in BOOLEAN /\ allowAllPools \in BOOLEAN
    /\ allowedPools \subseteq Pools /\ allowedHooks \subseteq Hooks
    /\ sessions \in [Users -> [Keys -> Session]]
    /\ orderNonceUsed \in [Users -> SUBSET Nonces]
    /\ permitUsed \in [Users -> SUBSET Nat]
    /\ bal \in [Tokens -> [Holders -> Int]]
    /\ \A t \in Tokens, h \in Users \cup {Executor} : bal[t][h] >= 0
    /\ ledger \in Ledger

Init ==
    /\ now = 0 /\ paused = FALSE
    /\ allowedPools = InitPools /\ allowedHooks = {} /\ allowAllPools = FALSE
    /\ sessions = [u \in Users |-> [k \in Keys |-> [grant |-> NoGrant, revoked |-> FALSE, spent |-> 0]]]
    /\ orderNonceUsed = [u \in Users |-> {}]
    /\ permitUsed = [u \in Users |-> {}]
    /\ bal = [t \in Tokens |-> [h \in Holders |-> IF h \in Users THEN InitBal[t][h] ELSE 0]]
    /\ ledger = [fills     |-> [u \in Users |-> [n \in Nonces |-> 0]],
                 short     |-> [u \in Users |-> {}],
                 cancelled |-> [u \in Users |-> {}],
                 use       |-> [u \in Users |-> [k \in Keys |-> NoUse]],
                 grants    |-> [u \in Users |-> 0],
                 consented |-> [u \in Users |-> [t \in Tokens |-> 0]]]

----------------------------------------------------------------------------
(* The owner's policy *)

setPaused(p) == paused' = p
    /\ UNCHANGED <<now, allowedPools, allowedHooks, allowAllPools, sessions, orderNonceUsed, permitUsed, bal, ledger>>

setAllowedPool(p, allowed) ==
    /\ allowedPools' = IF allowed THEN allowedPools \cup {p} ELSE allowedPools \ {p}
    /\ UNCHANGED <<now, paused, allowedHooks, allowAllPools, sessions, orderNonceUsed, permitUsed, bal, ledger>>

setAllowedHook(h, allowed) ==
    /\ allowedHooks' = IF allowed THEN allowedHooks \cup {h} ELSE allowedHooks \ {h}
    /\ UNCHANGED <<now, paused, allowedPools, allowAllPools, sessions, orderNonceUsed, permitUsed, bal, ledger>>

setAllowAllPools(all) ==
    /\ all => Testnet
    /\ allowAllPools' = all
    /\ UNCHANGED <<now, paused, allowedPools, allowedHooks, sessions, orderNonceUsed, permitUsed, bal, ledger>>

_checkPool(p) ==
    \/ allowAllPools
    \/ p \in allowedPools
    \/ PoolKey[p].hooks \in allowedHooks

----------------------------------------------------------------------------
(* The user's own transactions *)

(* Authorizing a key again lifts its revocation and starts its budget anew.    *)
authorizeSession(u, k, g) ==
    /\ g.expiry > now
    /\ ledger.grants[u] < MaxGrants
    /\ sessions' = [sessions EXCEPT ![u][k] =
                        [grant |-> g, revoked |-> FALSE, spent |-> 0]]
    /\ ledger' = [ledger EXCEPT !.use[u][k] = NoUse, !.grants[u] = @ + 1,
                                !.consented[u][g.tokenIn] = @ + g.maxTotal]
    /\ UNCHANGED <<now, policy, orderNonceUsed, permitUsed, bal>>

revokeSession(u, k) ==
    /\ sessions' = [sessions EXCEPT ![u][k].revoked = TRUE]
    /\ UNCHANGED <<now, policy, orderNonceUsed, permitUsed, bal, ledger>>

cancelOrder(u, n) ==
    /\ orderNonceUsed' = [orderNonceUsed EXCEPT ![u] = @ \cup {n}]
    /\ ledger' = [ledger EXCEPT !.cancelled[u] =
                        IF ledger.fills[u][n] = 0 THEN @ \cup {n} ELSE @]
    /\ UNCHANGED <<now, policy, sessions, permitUsed, bal>>

----------------------------------------------------------------------------
(* The swap inside a fill *)

TokenIn(p, zeroForOne)  == IF zeroForOne THEN PoolKey[p].currency0 ELSE PoolKey[p].currency1
TokenOut(p, zeroForOne) == IF zeroForOne THEN PoolKey[p].currency1 ELSE PoolKey[p].currency0

Transfer(b, t, from, to, n) ==
    [b EXCEPT ![t] = [h \in Holders |->
        b[t][h] - (IF h = from THEN n ELSE 0) + (IF h = to THEN n ELSE 0)]]

(* unlockCallback reports amount0 when it is positive and otherwise amount1 as  *)
(* an unsigned number: a swap of currency1 that returns nothing reports the     *)
(* two's complement of what it took.                                            *)
ReportedOut(zeroForOne, taken, out) ==
    IF zeroForOne THEN out
    ELSE IF out > 0 THEN out ELSE (0 - taken) % U128

LeftoverKept(b, t, u) == b
Leftover(b, t, u) == Transfer(b, t, Executor, u, b[t][Executor])

SettledRefundFirst(u, p, zeroForOne, amount, taken, out, recipient) ==
    LET tIn    == TokenIn(p, zeroForOne)
        pulled == Transfer(bal, tIn, u, Executor, amount)
        paid   == Transfer(pulled, TokenOut(p, zeroForOne), Manager, recipient, out)
    IN  Transfer(Leftover(paid, tIn, u), tIn, Executor, Manager, taken)

(* The pull from the user, the pool's take of what it used and payment of the   *)
(* output, and the refund of the input the pool left.                           *)
Settled(u, p, zeroForOne, amount, taken, out, recipient) ==
    LET tIn    == TokenIn(p, zeroForOne)
        pulled == Transfer(bal, tIn, u, Executor, amount)
        paid   == Transfer(pulled, TokenOut(p, zeroForOne), Manager, recipient, out)
    IN  Leftover(Transfer(paid, tIn, Executor, Manager, taken), tIn, u)

_swapAndSettle(u, p, zeroForOne, amount, taken, out, recipient, minOut) ==
    /\ amount <= bal[TokenIn(p, zeroForOne)][u]
    /\ taken <= amount
    /\ ReportedOut(zeroForOne, taken, out) >= minOut
    /\ bal' = Settled(u, p, zeroForOne, amount, taken, out, recipient)

Short(o, out) == IF out < o.minOut THEN {o.orderNonce} ELSE {}

NonceSpared(u, n) == orderNonceUsed
NonceSpent(u, n) == [orderNonceUsed EXCEPT ![u] = @ \cup {n}]

----------------------------------------------------------------------------
(* Fills *)

execute(o) ==
    /\ ~paused /\ now <= o.deadline
    /\ _checkPool(o.pool)
    /\ o.orderNonce \notin orderNonceUsed[o.user]
    /\ o.token = TokenIn(o.pool, o.zeroForOne)
    /\ o.permitNonce \notin permitUsed[o.user]
    /\ orderNonceUsed' = NonceSpent(o.user, o.orderNonce)
    /\ permitUsed' = [permitUsed EXCEPT ![o.user] = @ \cup {o.permitNonce}]
    /\ \E taken \in 0..o.amount, out \in 0..MaxOut :
            /\ _swapAndSettle(o.user, o.pool, o.zeroForOne, o.amount, taken, out, o.recipient, o.minOut)
            /\ ledger' = [ledger EXCEPT !.fills[o.user][o.orderNonce] = @ + 1,
                                        !.short[o.user] = @ \cup Short(o, out)]
    /\ UNCHANGED <<now, policy, sessions>>

WithinTotalBefore(s, amount) == s.spent <= s.grant.maxTotal
WithinTotal(s, amount) == s.spent + amount <= s.grant.maxTotal

InScope(s, o) ==
    /\ s.grant # NoGrant /\ ~s.revoked
    /\ now <= s.grant.expiry
    /\ o.pool = s.grant.pool
    /\ o.amountIn # 0 /\ o.amountIn <= s.grant.maxPerOrder
    /\ WithinTotal(s, o.amountIn)
    /\ o.minOut >= s.grant.minOutFloor
    /\ o.recipient = o.user
    /\ TokenIn(o.pool, o.zeroForOne) = s.grant.tokenIn

executeWithSession(k, o) ==
    LET s == sessions[o.user][k] IN
    /\ ~paused /\ now <= o.deadline
    /\ InScope(s, o)
    /\ _checkPool(o.pool)
    /\ o.orderNonce \notin orderNonceUsed[o.user]
    /\ orderNonceUsed' = NonceSpent(o.user, o.orderNonce)
    /\ sessions' = [sessions EXCEPT ![o.user][k].spent = @ + o.amountIn]
    /\ \E taken \in 0..o.amountIn, out \in 0..MaxOut :
            /\ _swapAndSettle(o.user, o.pool, o.zeroForOne, o.amountIn, taken, out, o.recipient, o.minOut)
            /\ ledger' = [ledger EXCEPT
                    !.fills[o.user][o.orderNonce] = @ + 1,
                    !.short[o.user] = @ \cup Short(o, out),
                    !.use[o.user][k] = [orders |-> @.orders + 1,
                                        short  |-> @.short + Cardinality(Short(o, out)),
                                        pulled |-> @.pulled + o.amountIn,
                                        got    |-> @.got + out]]
    /\ UNCHANGED <<now, policy, permitUsed>>

Tick == now < MaxTime /\ now' = now + 1
        /\ UNCHANGED <<policy, sessions, orderNonceUsed, permitUsed, bal, ledger>>

Owner ==
    \/ \E b \in BOOLEAN : setPaused(b) \/ setAllowAllPools(b)
    \/ \E p \in Pools, b \in BOOLEAN : setAllowedPool(p, b)
    \/ \E h \in Hooks, b \in BOOLEAN : setAllowedHook(h, b)

User ==
    \/ \E u \in Users, k \in Keys, g \in Grants : authorizeSession(u, k, g)
    \/ \E u \in Users, k \in Keys : revokeSession(u, k)
    \/ \E u \in Users, n \in Nonces : cancelOrder(u, n)

FillStep ==
    \/ \E o \in SignedOrders : execute(o)
    \/ \E k \in Keys, o \in SessionOrders : executeWithSession(k, o)

V3Next == Owner \/ User \/ FillStep \/ Tick
V3Spec == Init /\ [][V3Next]_v3vars

----------------------------------------------------------------------------
(* Properties *)

(* "No custody at rest": whatever a pool leaves unused of the input goes back   *)
(* to the user in the same transaction.                                         *)
NoResidue == \A t \in Tokens : bal[t][Executor] = 0

(* "One intent, at most one fill", in whichever of the two ways an order with   *)
(* the nonce was signed, and none once the user cancelled the nonce.            *)
OneFillPerNonce ==
    \A u \in Users, n \in Nonces :
        /\ ledger.fills[u][n] <= 1
        /\ n \in ledger.cancelled[u] => ledger.fills[u][n] = 0

(* The worst a session key can do, over any sequence of orders, revocations and *)
(* renewals: since it was last authorized it pulled at most maxTotal, at most    *)
(* maxPerOrder an order, and returned the floor for each order that returned its *)
(* minOut.                                                                      *)
SessionWithinGrant ==
    \A u \in Users, k \in Keys :
        LET use == ledger.use[u][k]  g == sessions[u][k].grant IN
        IF g = NoGrant THEN use = NoUse
        ELSE /\ use.pulled <= g.maxTotal
             /\ use.pulled <= use.orders * g.maxPerOrder
             /\ use.got >= (use.orders - use.short) * g.minOutFloor

(* What leaves a wallet is bounded by what its user signed or authorized: each   *)
(* order nonce once, for the largest order signed with it, and maxTotal for each *)
(* authorization, whatever keepers, keys and pools do.                           *)
SignedBy(u, t) == {o \in SignedOrders : o.user = u /\ o.token = t}
ByNonce(S) == {<<o.orderNonce, o.amount>> : o \in S}
SignedAway(u, t) == TotalOnce(ByNonce(SignedBy(u, t)))
DebitsWithinConsent ==
    \A u \in Users, t \in Tokens :
        InitBal[t][u] - bal[t][u] <= SignedAway(u, t) + ledger.consented[u][t]

(* The audit scope's "minOut enforced on-chain": no order is filled for less     *)
(* than its minOut.                                                              *)
MinOutEnforced == \A u \in Users : ledger.short[u] = {}
=============================================================================
