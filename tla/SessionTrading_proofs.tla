----------------------- MODULE SessionTrading_proofs -----------------------
(* ArcIntelExecutorV3 and session trading, for every set of users, keys, pools, keepers, *)
(* rows and signed orders, every amount and every bound.  Session trading is a use of    *)
(* the contract: the contract's invariants are proved for its own steps first and then    *)
(* hold of every step of session trading; the preorders table tells the truth about the   *)
(* chain.                                                                               *)
EXTENDS SessionTrading, Totals_proofs

Balances == [Tokens -> [Holders -> Int]]

LEMMA TransferEntry ==
    ASSUME NEW b \in Balances, NEW t \in Tokens, NEW from \in Holders, NEW to \in Holders, NEW n \in Int
    PROVE  /\ Transfer(b, t, from, to, n) \in Balances
           /\ \A s \in Tokens, h \in Holders :
                Transfer(b, t, from, to, n)[s][h] =
                    IF s = t THEN b[s][h] - (IF h = from THEN n ELSE 0) + (IF h = to THEN n ELSE 0)
                    ELSE b[s][h]
BY DEF Transfer, Balances

(* Updating one entry of a two-dimensional table.                               *)
LEMMA Entry ==
    ASSUME NEW A, NEW B, NEW C, NEW f \in [A -> [B -> C]], NEW a \in A, NEW b \in B, NEW c \in C,
           NEW g, g = [f EXCEPT ![a][b] = c]
    PROVE  /\ g \in [A -> [B -> C]] /\ g[a][b] = c
           /\ \A x \in A, y \in B : ~(x = a /\ y = b) => g[x][y] = f[x][y]
OBVIOUS

LEMMA Sides ==
    ASSUME NEW p \in Pools, NEW z \in BOOLEAN
    PROVE  TokenIn(p, z) \in Tokens /\ TokenOut(p, z) \in Tokens /\ TokenIn(p, z) # TokenOut(p, z)
BY PoolsHaveTwoSides DEF TokenIn, TokenOut

LEMMA HolderKinds ==
    /\ Executor \in Holders /\ Manager \in Holders /\ Users \subseteq Holders
    /\ Executor # Manager /\ Executor \notin Users /\ Manager \notin Users
BY DistinctHolders DEF Holders

(* A settled swap leaves the executor with nothing, takes nothing but the       *)
(* amount from the user whose order it is, and leaves nobody in debt, however   *)
(* much of the input the pool used.                                             *)
LEMMA SettleEffect ==
    ASSUME TypeOK, NoResidue, NEW u \in Users, NEW p \in Pools, NEW z \in BOOLEAN,
           NEW amount \in Nat, NEW taken \in 0..amount, NEW out \in Nat, NEW recipient \in Users,
           amount <= bal[TokenIn(p, z)][u]
    PROVE  /\ Settled(u, p, z, amount, taken, out, recipient) \in Balances
           /\ \A t \in Tokens, h \in Users \cup {Executor} :
                Settled(u, p, z, amount, taken, out, recipient)[t][h] >= 0
           /\ \A t \in Tokens : Settled(u, p, z, amount, taken, out, recipient)[t][Executor] = 0
           /\ \A t \in Tokens, h \in Users :
                Settled(u, p, z, amount, taken, out, recipient)[t][h]
                    >= bal[t][h] - (IF t = TokenIn(p, z) /\ h = u THEN amount ELSE 0)
<1> DEFINE tIn  == TokenIn(p, z)
           tOut == TokenOut(p, z)
           b1 == Transfer(bal, tIn, u, Executor, amount)
           b2 == Transfer(b1, tOut, Manager, recipient, out)
           b3 == Transfer(b2, tIn, Executor, Manager, taken)
           b4 == Transfer(b3, tIn, Executor, u, b3[tIn][Executor])
<1>1. tIn \in Tokens /\ tOut \in Tokens /\ tIn # tOut
  BY Sides
<1>2. Settled(u, p, z, amount, taken, out, recipient) = b4
  BY DEF Settled, Leftover
<1>3. bal \in Balances /\ \A t \in Tokens : bal[t][Executor] = 0
  BY DEF TypeOK, Balances, NoResidue
<1>4. \A t \in Tokens, h \in Users : bal[t][h] >= 0
  BY DEF TypeOK
<1>5. /\ u \in Holders /\ recipient \in Holders /\ Executor \in Holders /\ Manager \in Holders
      /\ u # Executor /\ u # Manager /\ recipient # Executor /\ recipient # Manager
      /\ Executor # Manager
  BY HolderKinds
<1>6. amount <= bal[tIn][u]
  OBVIOUS
<1> HIDE DEF tIn, tOut
<1>7. b1 \in Balances /\ \A s \in Tokens, h \in Holders :
        b1[s][h] = IF s = tIn THEN bal[s][h] - (IF h = u THEN amount ELSE 0)
                                            + (IF h = Executor THEN amount ELSE 0)
                   ELSE bal[s][h]
  <2>1. bal \in Balances /\ tIn \in Tokens /\ u \in Holders /\ Executor \in Holders /\ amount \in Int
    BY <1>1, <1>3, <1>5
  <2> QED
    BY <2>1, TransferEntry
<1> HIDE DEF b1
<1>8. b2 \in Balances /\ \A s \in Tokens, h \in Holders :
        b2[s][h] = IF s = tOut THEN b1[s][h] - (IF h = Manager THEN out ELSE 0)
                                             + (IF h = recipient THEN out ELSE 0)
                   ELSE b1[s][h]
  BY <1>1, <1>5, <1>7, TransferEntry
<1> HIDE DEF b2
<1>9. b3 \in Balances /\ \A s \in Tokens, h \in Holders :
        b3[s][h] = IF s = tIn THEN b2[s][h] - (IF h = Executor THEN taken ELSE 0)
                                            + (IF h = Manager THEN taken ELSE 0)
                   ELSE b2[s][h]
  <2>1. b2 \in Balances /\ tIn \in Tokens /\ taken \in Int
    BY <1>1, <1>8
  <2> QED
    BY <2>1, <1>5, TransferEntry
<1> HIDE DEF b3
<1>10. b3[tIn][Executor] = amount - taken
  <2>1. b1[tIn][Executor] = amount
    BY <1>1, <1>3, <1>5, <1>7
  <2>2. b2[tIn][Executor] = amount
    BY <1>1, <1>5, <1>8, <2>1
  <2> QED
    BY <1>1, <1>5, <1>9, <2>2
<1>11. b4 \in Balances /\ \A s \in Tokens, h \in Holders :
        b4[s][h] = IF s = tIn THEN b3[s][h] - (IF h = Executor THEN amount - taken ELSE 0)
                                            + (IF h = u THEN amount - taken ELSE 0)
                   ELSE b3[s][h]
  BY <1>1, <1>5, <1>9, <1>10, TransferEntry
<1> HIDE DEF b4
<1>12. ASSUME NEW t \in Tokens PROVE b4[t][Executor] = 0
  <2>1. CASE t = tIn
    BY <2>1, <1>5, <1>10, <1>11
  <2>2. CASE t # tIn
    <3>1. b1[t][Executor] = 0
      BY <2>2, <1>3, <1>5, <1>7
    <3>2. b2[t][Executor] = 0
      BY <3>1, <1>5, <1>7, <1>8
    <3> QED
      BY <2>2, <3>2, <1>5, <1>9, <1>11
  <2> QED
    BY <2>1, <2>2
<1>13. ASSUME NEW t \in Tokens, NEW h \in Users
       PROVE  b4[t][h] >= 0 /\ b4[t][h] >= bal[t][h] - (IF t = tIn /\ h = u THEN amount ELSE 0)
  <2>0. h \in Holders /\ h # Executor /\ h # Manager /\ bal[t][h] \in Int /\ bal[t][h] >= 0
    BY <1>3, <1>4, HolderKinds DEF Balances
  <2>1. CASE t = tIn
    <3>1. b1[t][h] = bal[t][h] - (IF h = u THEN amount ELSE 0)
      BY <2>0, <2>1, <1>7
    <3>2. b3[t][h] = b1[t][h]
      BY <2>0, <2>1, <1>1, <1>7, <1>8, <1>9 DEF Balances
    <3> QED
      BY <2>0, <2>1, <3>1, <3>2, <1>6, <1>11
  <2>2. CASE t # tIn
    <3>1. b1[t][h] = bal[t][h]
      BY <2>0, <2>2, <1>7
    <3>2. b2[t][h] >= bal[t][h]
      BY <2>0, <3>1, <1>8
    <3>3. b4[t][h] = b2[t][h]
      BY <2>0, <2>2, <1>9, <1>11
    <3>4. b2[t][h] \in Int
      BY <2>0, <1>8 DEF Balances
    <3> QED
      BY <2>0, <2>2, <3>2, <3>3, <3>4
  <2> QED
    BY <2>1, <2>2
<1> QED
  BY <1>2, <1>11, <1>12, <1>13 DEF tIn

LEMMA Distribute == ASSUME NEW a \in Int, NEW c \in Int PROVE (a + 1) * c = a * c + c
OBVIOUS

LEMMA MulInt == ASSUME NEW a \in Int, NEW c \in Int PROVE a * c \in Int
OBVIOUS

-----------------------------------------------------------------------------
(* The inductive invariant: the nonce of whatever was filled or cancelled is    *)
(* recorded as used, and a session's spent counter is what its key pulled.      *)

NoncesRecorded ==
    \A u \in Users, n \in Nonces :
        ledger.fills[u][n] > 0 \/ n \in ledger.cancelled[u] => n \in orderNonceUsed[u]

SpentIsPulled ==
    \A u \in Users, k \in Keys : sessions[u][k].spent = ledger.use[u][k].pulled

IInv == TypeOK /\ NoResidue /\ NoncesRecorded /\ OneFillPerNonce /\ SpentIsPulled /\ SessionWithinGrant

LEMMA InitIInv == Init => IInv
<1> SUFFICES ASSUME Init PROVE IInv
  OBVIOUS
<1>1. TypeOK
  <2>1. ledger \in Ledger
    BY Numbers DEF Init, Ledger, Use, NoUse
  <2>2. sessions \in [Users -> [Keys -> Session]]
    BY DEF Init, Session
  <2>3. /\ bal \in [Tokens -> [Holders -> Int]]
        /\ \A t \in Tokens, h \in Users \cup {Executor} : bal[t][h] >= 0
    BY SignedData, HolderKinds DEF Init
  <2>4. /\ now \in 0..MaxTime /\ paused \in BOOLEAN /\ allowAllPools \in BOOLEAN
        /\ allowedPools \subseteq Pools /\ allowedHooks \subseteq Hooks
    <3>1. now = 0 /\ paused = FALSE /\ allowedPools = InitPools /\ allowedHooks = {} /\ allowAllPools = FALSE
      BY DEF Init
    <3>2. MaxTime \in Nat /\ InitPools \subseteq Pools
      BY Numbers, PoolsHaveTwoSides
    <3>3. now \in 0..MaxTime
      BY <3>1, <3>2
    <3>4. paused \in BOOLEAN /\ allowAllPools \in BOOLEAN
      BY <3>1, Zenon
    <3>5. allowedPools \subseteq Pools /\ allowedHooks \subseteq Hooks
      BY <3>1, <3>2, Zenon
    <3> QED
      BY <3>3, <3>4, <3>5, Zenon
  <2>5. orderNonceUsed \in [Users -> SUBSET Nonces] /\ permitUsed \in [Users -> SUBSET Nat]
    <3>1. orderNonceUsed = [v \in Users |-> {}] /\ permitUsed = [v \in Users |-> {}]
      BY DEF Init
    <3> QED
      BY <3>1
  <2> QED
    BY <2>1, <2>2, <2>3, <2>4, <2>5 DEF TypeOK
<1>2. NoResidue
  BY HolderKinds DEF Init, NoResidue
<1>3. NoncesRecorded /\ OneFillPerNonce
  BY DEF Init, NoncesRecorded, OneFillPerNonce
<1>4. SpentIsPulled /\ SessionWithinGrant
  BY DEF Init, SpentIsPulled, SessionWithinGrant, NoUse
<1> QED
  BY <1>1, <1>2, <1>3, <1>4 DEF IInv

(* The owner, and time, touch neither funds nor sessions nor nonces.            *)
LEMMA OwnerStep == ASSUME IInv, Owner \/ Tick PROVE IInv'
<1>1. UNCHANGED <<sessions, orderNonceUsed, permitUsed, bal, ledger>>
  BY DEF Owner, Tick, setPaused, setAllowedPool, setAllowedHook, setAllowAllPools
<1>2. /\ now' \in 0..MaxTime /\ paused' \in BOOLEAN /\ allowAllPools' \in BOOLEAN
      /\ allowedPools' \subseteq Pools /\ allowedHooks' \subseteq Hooks
  BY Numbers DEF IInv, TypeOK, Owner, Tick, policy, setPaused, setAllowedPool, setAllowedHook, setAllowAllPools
<1> QED
  BY <1>1, <1>2 DEF IInv, TypeOK, NoResidue, NoncesRecorded, OneFillPerNonce, SpentIsPulled, SessionWithinGrant

LEMMA AuthorizeStep ==
    ASSUME IInv, NEW u \in Users, NEW k \in Keys, NEW g \in Grants, authorizeSession(u, k, g)
    PROVE  IInv'
<1>1. /\ UNCHANGED <<now, paused, allowedPools, allowedHooks, allowAllPools, orderNonceUsed, permitUsed, bal>>
      /\ sessions' = [sessions EXCEPT ![u][k] = [grant |-> g, revoked |-> FALSE, spent |-> 0]]
      /\ ledger' = [ledger EXCEPT !.use[u][k] = NoUse, !.grants[u] = @ + 1,
                                  !.consented[u][g.tokenIn] = @ + g.maxTotal]
      /\ ledger.grants[u] < MaxGrants
  BY DEF authorizeSession, policy
<1>2. TypeOK /\ ledger \in Ledger /\ g.tokenIn \in Tokens /\ g.maxTotal \in Nat
      /\ g.maxPerOrder \in Nat /\ g.minOutFloor \in Nat
  BY SignedData DEF IInv, TypeOK, Grant
<1>3. sessions' \in [Users -> [Keys -> Session]]
  BY <1>1, <1>2 DEF TypeOK, Session
<1>4. /\ ledger'.fills = ledger.fills /\ ledger'.short = ledger.short
      /\ ledger'.cancelled = ledger.cancelled
      /\ ledger'.use = [ledger.use EXCEPT ![u][k] = NoUse]
      /\ ledger'.grants = [ledger.grants EXCEPT ![u] = @ + 1]
      /\ ledger'.consented = [ledger.consented EXCEPT ![u][g.tokenIn] = @ + g.maxTotal]
  BY <1>1, <1>2 DEF Ledger
<1>5. ledger' \in Ledger
  <2>1. /\ ledger.use \in [Users -> [Keys -> Use]] /\ ledger.grants \in [Users -> 0..MaxGrants]
        /\ ledger.consented \in [Users -> [Tokens -> Nat]]
    BY <1>2 DEF Ledger
  <2>2. ledger'.use \in [Users -> [Keys -> Use]]
    BY <1>4, <2>1 DEF Use, NoUse
  <2>3. ledger'.grants \in [Users -> 0..MaxGrants]
    BY <1>1, <1>4, <2>1, Numbers
  <2>4. ledger'.consented \in [Users -> [Tokens -> Nat]]
    BY <1>2, <1>4, <2>1
  <2>5. ledger' = [ledger EXCEPT !.use = ledger'.use, !.grants = ledger'.grants,
                                 !.consented = ledger'.consented]
    BY <1>1, <1>2, <1>4 DEF Ledger
  <2> QED
    BY <1>2, <2>2, <2>3, <2>4, <2>5 DEF Ledger
<1>6. TypeOK' /\ NoResidue' /\ NoncesRecorded' /\ OneFillPerNonce'
  BY <1>1, <1>2, <1>3, <1>4, <1>5 DEF IInv, TypeOK, NoResidue, NoncesRecorded, OneFillPerNonce
<1>7. ASSUME NEW v \in Users, NEW j \in Keys
      PROVE  \/ /\ sessions'[v][j] = sessions[v][j] /\ ledger'.use[v][j] = ledger.use[v][j]
             \/ /\ sessions'[v][j].grant = g /\ sessions'[v][j].spent = 0 /\ ledger'.use[v][j] = NoUse
  <2>1. sessions \in [Users -> [Keys -> Session]] /\ ledger.use \in [Users -> [Keys -> Use]]
    BY <1>2 DEF TypeOK, Ledger
  <2>2. CASE v = u /\ j = k
    <3>1. sessions'[v][j] = [grant |-> g, revoked |-> FALSE, spent |-> 0]
      BY <2>1, <2>2, <1>1
    <3>2. ledger'.use[v][j] = NoUse
      BY <2>1, <2>2, <1>4
    <3> QED
      BY <3>1, <3>2
  <2>3. CASE ~(v = u /\ j = k)
    BY <2>1, <2>3, <1>1, <1>4
  <2> QED
    BY <2>2, <2>3
<1>8. SpentIsPulled'
  BY <1>7 DEF IInv, SpentIsPulled, NoUse
<1>9. SessionWithinGrant'
  <2>1. g # NoGrant
    BY SignedData
  <2> QED
    BY <1>2, <1>7, <2>1 DEF IInv, SessionWithinGrant, NoUse
<1> QED
  BY <1>6, <1>8, <1>9 DEF IInv

LEMMA RevokeStep ==
    ASSUME IInv, NEW u \in Users, NEW k \in Keys, revokeSession(u, k)
    PROVE  IInv'
<1>1. /\ UNCHANGED <<now, paused, allowedPools, allowedHooks, allowAllPools, orderNonceUsed, permitUsed, bal, ledger>>
      /\ sessions' = [sessions EXCEPT ![u][k].revoked = TRUE]
      /\ sessions \in [Users -> [Keys -> Session]]
  BY DEF revokeSession, policy, IInv, TypeOK
<1> DEFINE ended == [sessions[u][k] EXCEPT !.revoked = TRUE]
<1>4. /\ sessions' = [sessions EXCEPT ![u][k] = ended] /\ ended \in Session
      /\ ended.grant = sessions[u][k].grant /\ ended.spent = sessions[u][k].spent
  <2>1. sessions[u][k] \in Session
    BY <1>1
  <2> QED
    BY <1>1, <2>1 DEF Session
<1> HIDE DEF ended
<1>2. sessions' \in [Users -> [Keys -> Session]]
  <2>1. /\ sessions \in [Users -> [Keys -> Session]] /\ ended \in Session
        /\ sessions' = [sessions EXCEPT ![u][k] = ended]
    BY <1>1, <1>4
  <2> QED
    BY <2>1, Entry
<1>3. \A v \in Users, j \in Keys :
        sessions'[v][j].grant = sessions[v][j].grant /\ sessions'[v][j].spent = sessions[v][j].spent
  BY <1>1, <1>4, Entry
<1> QED
  BY <1>1, <1>2, <1>3 DEF IInv, TypeOK, NoResidue, NoncesRecorded, OneFillPerNonce, SpentIsPulled, SessionWithinGrant

LEMMA CancelStep ==
    ASSUME IInv, NEW u \in Users, NEW n \in Nonces, cancelOrder(u, n)
    PROVE  IInv'
<1>1. /\ UNCHANGED <<now, paused, allowedPools, allowedHooks, allowAllPools, sessions, permitUsed, bal>>
      /\ orderNonceUsed' = [orderNonceUsed EXCEPT ![u] = @ \cup {n}]
      /\ ledger' = [ledger EXCEPT !.cancelled[u] = IF ledger.fills[u][n] = 0 THEN @ \cup {n} ELSE @]
  BY DEF cancelOrder, policy
<1>2. TypeOK /\ ledger \in Ledger /\ orderNonceUsed \in [Users -> SUBSET Nonces]
  BY DEF IInv, TypeOK
<1>3. /\ ledger'.fills = ledger.fills /\ ledger'.use = ledger.use
      /\ ledger'.cancelled = [ledger.cancelled EXCEPT ![u] = IF ledger.fills[u][n] = 0 THEN @ \cup {n} ELSE @]
      /\ ledger' = [ledger EXCEPT !.cancelled = ledger'.cancelled]
  BY <1>1, <1>2 DEF Ledger
<1>4. ledger.cancelled \in [Users -> SUBSET Nonces] /\ ledger'.cancelled \in [Users -> SUBSET Nonces]
  BY <1>2, <1>3 DEF Ledger
<1>5. ledger' \in Ledger
  BY <1>2, <1>3, <1>4 DEF Ledger
<1>6. orderNonceUsed' \in [Users -> SUBSET Nonces]
  BY <1>1, <1>2
<1>7. TypeOK' /\ NoResidue' /\ SpentIsPulled' /\ SessionWithinGrant'
  BY <1>1, <1>2, <1>3, <1>5, <1>6 DEF IInv, TypeOK, NoResidue, SpentIsPulled, SessionWithinGrant
<1>8. NoncesRecorded' /\ OneFillPerNonce'
  BY <1>1, <1>2, <1>3, <1>4 DEF IInv, NoncesRecorded, OneFillPerNonce
<1> QED
  BY <1>7, <1>8 DEF IInv

-----------------------------------------------------------------------------
(* Both kinds of fill move funds and spend the order's nonce in the same way.   *)

LEMMA FillFunds ==
    ASSUME IInv, NEW u \in Users, NEW p \in Pools, NEW z \in BOOLEAN, NEW amount \in Nat,
           NEW taken \in 0..amount, NEW out \in 0..MaxOut, NEW recipient \in Users, NEW minOut \in Nat,
           _swapAndSettle(u, p, z, amount, taken, out, recipient, minOut)
    PROVE  /\ bal' \in Balances /\ NoResidue'
           /\ \A t \in Tokens, h \in Users \cup {Executor} : bal'[t][h] >= 0
           /\ \A t \in Tokens, h \in Users :
                bal'[t][h] >= bal[t][h] - (IF t = TokenIn(p, z) /\ h = u THEN amount ELSE 0)
<1>1. TypeOK /\ NoResidue /\ out \in Nat
  BY Numbers DEF IInv
<1>2. amount <= bal[TokenIn(p, z)][u] /\ bal' = Settled(u, p, z, amount, taken, out, recipient)
  BY DEF _swapAndSettle
<1> QED
  BY <1>1, <1>2, SettleEffect DEF NoResidue

LEMMA NonceOnce ==
    ASSUME IInv, NEW u \in Users, NEW n \in Nonces, n \notin orderNonceUsed[u],
           orderNonceUsed' = NonceSpent(u, n),
           ledger'.fills = [ledger.fills EXCEPT ![u][n] = @ + 1],
           ledger'.cancelled = ledger.cancelled
    PROVE  /\ orderNonceUsed' \in [Users -> SUBSET Nonces]
           /\ ledger'.fills \in [Users -> [Nonces -> Nat]]
           /\ NoncesRecorded' /\ OneFillPerNonce'
<1>1. /\ ledger.fills \in [Users -> [Nonces -> Nat]] /\ ledger.cancelled \in [Users -> SUBSET Nonces]
      /\ orderNonceUsed \in [Users -> SUBSET Nonces]
  BY DEF IInv, TypeOK, Ledger
<1>2. ledger.fills[u][n] = 0 /\ n \notin ledger.cancelled[u]
  <2>1. ~(ledger.fills[u][n] > 0) /\ n \notin ledger.cancelled[u]
    BY DEF IInv, NoncesRecorded
  <2> QED
    BY <1>1, <2>1
<1>3. orderNonceUsed' \in [Users -> SUBSET Nonces]
      /\ \A v \in Users : orderNonceUsed'[v] = IF v = u THEN orderNonceUsed[v] \cup {n} ELSE orderNonceUsed[v]
  BY <1>1 DEF NonceSpent
<1>4. ledger'.fills \in [Users -> [Nonces -> Nat]]
      /\ \A v \in Users, m \in Nonces :
            ledger'.fills[v][m] = IF v = u /\ m = n THEN 1 ELSE ledger.fills[v][m]
  BY <1>1, <1>2
<1>5. NoncesRecorded'
  BY <1>1, <1>3, <1>4 DEF IInv, NoncesRecorded
<1>6. OneFillPerNonce'
  BY <1>1, <1>2, <1>4 DEF IInv, OneFillPerNonce
<1> QED
  BY <1>3, <1>4, <1>5, <1>6

LEMMA ShortType ==
    ASSUME NEW o \in SignedOrders \cup SessionOrders, NEW out \in Nat
    PROVE  Short(o, out) \subseteq Nonces
BY DEF Short, Nonces

LEMMA ExecuteStep == ASSUME IInv, NEW o \in SignedOrders, execute(o) PROVE IInv'
<1>1. PICK taken \in 0..o.amount, out \in 0..MaxOut :
        /\ _swapAndSettle(o.user, o.pool, o.zeroForOne, o.amount, taken, out, o.recipient, o.minOut)
        /\ ledger' = [ledger EXCEPT !.fills[o.user][o.orderNonce] = @ + 1,
                                    !.short[o.user] = @ \cup Short(o, out)]
  BY DEF execute
<1>2. /\ o.user \in Users /\ o.pool \in Pools /\ o.zeroForOne \in BOOLEAN /\ o.amount \in Nat
      /\ o.minOut \in Nat /\ o.recipient \in Users /\ o.permitNonce \in Nat /\ o.orderNonce \in Nonces
      /\ out \in Nat
  BY SignedData, Numbers DEF SignedOrder, Nonces
<1>3. /\ o.orderNonce \notin orderNonceUsed[o.user]
      /\ orderNonceUsed' = NonceSpent(o.user, o.orderNonce)
      /\ permitUsed' = [permitUsed EXCEPT ![o.user] = @ \cup {o.permitNonce}]
      /\ UNCHANGED <<now, paused, allowedPools, allowedHooks, allowAllPools, sessions>>
  BY DEF execute, policy
<1>4. TypeOK /\ ledger \in Ledger
  BY DEF IInv, TypeOK
<1>5. /\ ledger'.fills = [ledger.fills EXCEPT ![o.user][o.orderNonce] = @ + 1]
      /\ ledger'.short = [ledger.short EXCEPT ![o.user] = @ \cup Short(o, out)]
      /\ ledger'.cancelled = ledger.cancelled /\ ledger'.use = ledger.use
      /\ ledger' = [ledger EXCEPT !.fills = ledger'.fills, !.short = ledger'.short]
  BY <1>1, <1>4 DEF Ledger
<1>6. /\ bal' \in Balances /\ NoResidue'
      /\ \A t \in Tokens, h \in Users \cup {Executor} : bal'[t][h] >= 0
  BY <1>1, <1>2, FillFunds
<1>7. /\ orderNonceUsed' \in [Users -> SUBSET Nonces]
      /\ ledger'.fills \in [Users -> [Nonces -> Nat]]
      /\ NoncesRecorded' /\ OneFillPerNonce'
  BY <1>2, <1>3, <1>5, NonceOnce
<1>8. ledger' \in Ledger
  <2>1. ledger.short \in [Users -> SUBSET Nonces] /\ Short(o, out) \subseteq Nonces
    BY <1>2, <1>4, ShortType DEF Ledger
  <2>2. ledger'.short \in [Users -> SUBSET Nonces]
    BY <2>1, <1>5
  <2> QED
    BY <1>4, <1>5, <1>7, <2>2 DEF Ledger
<1>9. permitUsed' \in [Users -> SUBSET Nat]
  BY <1>2, <1>3, <1>4 DEF TypeOK
<1>10. TypeOK'
  BY <1>3, <1>4, <1>6, <1>7, <1>8, <1>9 DEF TypeOK, Balances
<1>11. SpentIsPulled' /\ SessionWithinGrant'
  BY <1>3, <1>5 DEF IInv, SpentIsPulled, SessionWithinGrant
<1> QED
  BY <1>6, <1>7, <1>10, <1>11 DEF IInv

(* One more order of a session keeps its use within the grant.                  *)
LEMMA UseGrows ==
    ASSUME NEW n \in Nat, NEW short \in Nat, NEW pulled \in Nat, NEW got \in Nat,
           NEW per \in Nat, NEW floor \in Nat, NEW amount \in Nat, NEW out \in Nat, NEW s \in {0, 1},
           pulled <= n * per, got >= (n - short) * floor,
           amount <= per, s = 0 => out >= floor
    PROVE  pulled + amount <= (n + 1) * per /\ got + out >= ((n + 1) - (short + s)) * floor
<1>1. (n + 1) * per = n * per + per /\ n * per \in Int
  BY Distribute, MulInt
<1>2. ((n - short) + 1) * floor = (n - short) * floor + floor /\ (n - short) * floor \in Int
  <2>1. n - short \in Int
    OBVIOUS
  <2> QED
    BY <2>1, Distribute, MulInt
<1>3. CASE s = 1
  <2>1. (n + 1) - (short + s) = n - short
    BY <1>3
  <2> QED
    BY <1>1, <1>2, <2>1
<1>4. CASE s = 0
  <2>1. (n + 1) - (short + s) = (n - short) + 1
    BY <1>4
  <2> QED
    BY <1>1, <1>2, <1>4, <2>1
<1> QED
  BY <1>3, <1>4

LEMMA SessionStep ==
    ASSUME IInv, NEW k \in Keys, NEW o \in SessionOrders, executeWithSession(k, o)
    PROVE  IInv'
<1> DEFINE s == sessions[o.user][k]
           use == ledger.use[o.user][k]
<1>1. PICK taken \in 0..o.amountIn, out \in 0..MaxOut :
        /\ _swapAndSettle(o.user, o.pool, o.zeroForOne, o.amountIn, taken, out, o.recipient, o.minOut)
        /\ ledger' = [ledger EXCEPT
                !.fills[o.user][o.orderNonce] = @ + 1,
                !.short[o.user] = @ \cup Short(o, out),
                !.use[o.user][k] = [orders |-> @.orders + 1,
                                    short  |-> @.short + Cardinality(Short(o, out)),
                                    pulled |-> @.pulled + o.amountIn,
                                    got    |-> @.got + out]]
  BY DEF executeWithSession
<1>2. /\ o.user \in Users /\ o.pool \in Pools /\ o.zeroForOne \in BOOLEAN /\ o.amountIn \in Nat
      /\ o.minOut \in Nat /\ o.recipient \in Users /\ o.orderNonce \in Nonces /\ out \in Nat
  BY SignedData, Numbers DEF SessionOrder, Nonces
<1>3. /\ o.orderNonce \notin orderNonceUsed[o.user]
      /\ orderNonceUsed' = NonceSpent(o.user, o.orderNonce)
      /\ sessions' = [sessions EXCEPT ![o.user][k].spent = @ + o.amountIn]
      /\ UNCHANGED <<now, paused, allowedPools, allowedHooks, allowAllPools, permitUsed>>
  BY DEF executeWithSession, policy
<1>4. /\ s.grant # NoGrant /\ o.amountIn <= s.grant.maxPerOrder
      /\ s.spent + o.amountIn <= s.grant.maxTotal /\ o.minOut >= s.grant.minOutFloor
  BY DEF executeWithSession, InScope, WithinTotal
<1>5. /\ TypeOK /\ ledger \in Ledger /\ sessions \in [Users -> [Keys -> Session]]
      /\ ledger.use \in [Users -> [Keys -> Use]]
  BY DEF IInv, TypeOK, Ledger
<1>6. Short(o, out) \subseteq Nonces /\ Cardinality(Short(o, out)) \in {0, 1}
      /\ (Cardinality(Short(o, out)) = 0 => out >= o.minOut)
  <2>1. CASE out < o.minOut
    <3>1. Short(o, out) = {o.orderNonce}
      BY <2>1 DEF Short
    <3>2. Cardinality(Short(o, out)) = 1
      BY <3>1, FS_Singleton
    <3>3. Short(o, out) \subseteq Nonces
      BY <3>1, <1>2
    <3> QED
      BY <3>2, <3>3
  <2>2. CASE ~(out < o.minOut)
    BY <2>2, <1>2, FS_EmptySet DEF Short
  <2> QED
    BY <2>1, <2>2
<1> DEFINE c == Cardinality(Short(o, out))
           more == [orders |-> use.orders + 1, short |-> use.short + c,
                    pulled |-> use.pulled + o.amountIn, got |-> use.got + out]
<1>7. /\ ledger'.fills = [ledger.fills EXCEPT ![o.user][o.orderNonce] = @ + 1]
      /\ ledger'.short = [ledger.short EXCEPT ![o.user] = @ \cup Short(o, out)]
      /\ ledger'.cancelled = ledger.cancelled
      /\ ledger'.use = [ledger.use EXCEPT ![o.user][k] = more]
      /\ ledger' = [ledger EXCEPT !.fills = ledger'.fills, !.short = ledger'.short, !.use = ledger'.use]
  BY <1>1, <1>5 DEF Ledger
<1>8. /\ bal' \in Balances /\ NoResidue'
      /\ \A t \in Tokens, h \in Users \cup {Executor} : bal'[t][h] >= 0
  BY <1>1, <1>2, FillFunds
<1>9. /\ orderNonceUsed' \in [Users -> SUBSET Nonces]
      /\ ledger'.fills \in [Users -> [Nonces -> Nat]]
      /\ NoncesRecorded' /\ OneFillPerNonce'
  BY <1>2, <1>3, <1>7, NonceOnce
<1>10. use \in Use /\ s \in Session
  BY <1>2, <1>5
<1>11. /\ use.orders \in Nat /\ use.short \in Nat /\ use.pulled \in Nat /\ use.got \in Nat
       /\ s.spent \in Nat /\ s.grant \in Grants
  BY <1>4, <1>10 DEF Use, Session
<1>12. s.grant.maxPerOrder \in Nat /\ s.grant.maxTotal \in Nat /\ s.grant.minOutFloor \in Nat
  BY <1>11, SignedData DEF Grant
<1>13. c \in {0, 1}
  BY <1>6
<1> HIDE DEF c
<1>14. more \in Use
  BY <1>2, <1>11, <1>13 DEF Use
<1> DEFINE drawn == [s EXCEPT !.spent = @ + o.amountIn]
<1>25. /\ sessions' = [sessions EXCEPT ![o.user][k] = drawn] /\ drawn \in Session
       /\ drawn.grant = s.grant /\ drawn.spent = s.spent + o.amountIn
  <2>1. s.spent + o.amountIn \in Nat
    BY <1>2, <1>11
  <2>2. sessions' = [sessions EXCEPT ![o.user][k] = drawn]
    BY <1>2, <1>3, <1>5
  <2> HIDE DEF s
  <2> QED
    BY <1>10, <2>1, <2>2 DEF Session
<1>26. /\ more.orders = use.orders + 1 /\ more.short = use.short + c
       /\ more.pulled = use.pulled + o.amountIn /\ more.got = use.got + out
  OBVIOUS
<1> HIDE DEF drawn, more
<1>15. ledger' \in Ledger
  <2>1. ledger.short \in [Users -> SUBSET Nonces]
    BY <1>5 DEF Ledger
  <2>2. ledger'.short \in [Users -> SUBSET Nonces]
    BY <2>1, <1>6, <1>7
  <2>3. ledger'.use \in [Users -> [Keys -> Use]]
    BY <1>2, <1>5, <1>7, <1>14, Entry
  <2> QED
    BY <1>5, <1>7, <1>9, <2>2, <2>3 DEF Ledger
<1>16. sessions' \in [Users -> [Keys -> Session]]
  BY <1>2, <1>5, <1>25, Entry
<1>17. TypeOK'
  BY <1>3, <1>5, <1>8, <1>9, <1>15, <1>16 DEF TypeOK, Balances
<1>18. ASSUME NEW v \in Users, NEW j \in Keys, ~(v = o.user /\ j = k)
       PROVE  sessions'[v][j] = sessions[v][j] /\ ledger'.use[v][j] = ledger.use[v][j]
  BY <1>2, <1>18, <1>5, <1>7, <1>14, <1>25, Entry
<1>19. /\ sessions'[o.user][k].grant = s.grant /\ sessions'[o.user][k].spent = s.spent + o.amountIn
       /\ ledger'.use[o.user][k] = more
  BY <1>2, <1>5, <1>7, <1>14, <1>25, Entry
<1>20. s.spent = use.pulled
  BY <1>2 DEF IInv, SpentIsPulled
<1>21. SpentIsPulled'
  BY <1>18, <1>19, <1>20, <1>26 DEF IInv, SpentIsPulled
<1>22. /\ use.pulled <= use.orders * s.grant.maxPerOrder
       /\ use.got >= (use.orders - use.short) * s.grant.minOutFloor
  BY <1>2, <1>4 DEF IInv, SessionWithinGrant
<1> HIDE DEF use, s
<1>23. /\ more.pulled <= s.grant.maxTotal
       /\ more.pulled <= more.orders * s.grant.maxPerOrder
       /\ more.got >= (more.orders - more.short) * s.grant.minOutFloor
  <2>1. c = 0 => out >= s.grant.minOutFloor
    BY <1>2, <1>4, <1>6, <1>12 DEF c
  <2>2. /\ use.pulled + o.amountIn <= (use.orders + 1) * s.grant.maxPerOrder
        /\ use.got + out >= ((use.orders + 1) - (use.short + c)) * s.grant.minOutFloor
    <3>1. PICK n, sh, pulled, got, per, floor, amount \in Nat :
            /\ n = use.orders /\ sh = use.short /\ pulled = use.pulled /\ got = use.got
            /\ per = s.grant.maxPerOrder /\ floor = s.grant.minOutFloor /\ amount = o.amountIn
      BY <1>2, <1>11, <1>12
    <3>2. pulled <= n * per /\ got >= (n - sh) * floor /\ amount <= per /\ (c = 0 => out >= floor)
      BY <1>4, <1>22, <2>1, <3>1
    <3>3. pulled + amount <= (n + 1) * per /\ got + out >= ((n + 1) - (sh + c)) * floor
      BY <1>2, <1>13, <3>2, UseGrows
    <3> QED
      BY <3>1, <3>3
  <2>3. use.pulled + o.amountIn <= s.grant.maxTotal
    BY <1>4, <1>20
  <2> QED
    BY <1>26, <2>2, <2>3
<1>24. SessionWithinGrant'
  <2> SUFFICES ASSUME NEW v \in Users, NEW j \in Keys
               PROVE  LET w == ledger'.use[v][j]  g == sessions'[v][j].grant IN
                      IF g = NoGrant THEN w = NoUse
                      ELSE /\ w.pulled <= g.maxTotal
                           /\ w.pulled <= w.orders * g.maxPerOrder
                           /\ w.got >= (w.orders - w.short) * g.minOutFloor
    BY DEF SessionWithinGrant
  <2>1. CASE v = o.user /\ j = k
    BY <2>1, <1>4, <1>19, <1>23
  <2>2. CASE ~(v = o.user /\ j = k)
    BY <2>2, <1>18 DEF IInv, SessionWithinGrant
  <2> QED
    BY <2>1, <2>2
<1> QED
  BY <1>8, <1>9, <1>17, <1>21, <1>24 DEF IInv

LEMMA Inductive == ASSUME IInv, [V3Next]_v3vars PROVE IInv'
<1>1. CASE UNCHANGED v3vars
  BY <1>1 DEF v3vars, policy, IInv, TypeOK, NoResidue, NoncesRecorded, OneFillPerNonce,
              SpentIsPulled, SessionWithinGrant
<1>2. CASE Owner \/ Tick
  BY <1>2, OwnerStep
<1>3. CASE User
  BY <1>3, AuthorizeStep, RevokeStep, CancelStep DEF User
<1>4. CASE FillStep
  BY <1>4, ExecuteStep, SessionStep DEF FillStep
<1> QED
  BY <1>1, <1>2, <1>3, <1>4 DEF V3Next

LEMMA Invariance == V3Spec => []IInv
<1>1. Init => IInv
  BY InitIInv
<1>2. IInv /\ [V3Next]_v3vars => IInv'
  BY Inductive
<1> QED
  BY <1>1, <1>2, PTL DEF V3Spec

-----------------------------------------------------------------------------
(* What leaves a wallet.  What a user lost of a token and what its sessions may  *)
(* still pull of it are covered by the signed orders whose nonce is used and by  *)
(* what was authorized: an authorization adds to both sides, a session's fill    *)
(* moves from one term of the left side to the other, a signed order is covered  *)
(* by its nonce, which was not used before.                                      *)

Left(u, t) ==
    [k \in Keys |-> LET s == sessions[u][k] IN
        IF s.grant # NoGrant /\ s.grant.tokenIn = t THEN s.grant.maxTotal - s.spent ELSE 0]

SpentBy(u, t) == ByNonce({o \in SignedBy(u, t) : o.orderNonce \in orderNonceUsed[u]})

DebitsCovered ==
    \A u \in Users, t \in Tokens :
        InitBal[t][u] - bal[t][u] + Total(Left(u, t)) <= TotalOnce(SpentBy(u, t)) + ledger.consented[u][t]

LEMMA LeftType ==
    ASSUME IInv, NEW u \in Users, NEW t \in Tokens
    PROVE  Left(u, t) \in [Keys -> Nat]
<1> SUFFICES ASSUME NEW k \in Keys, sessions[u][k].grant # NoGrant
             PROVE  sessions[u][k].grant.maxTotal - sessions[u][k].spent \in Nat
  BY DEF Left
<1>1. sessions[u][k] \in Session
  BY DEF IInv, TypeOK
<1>2. sessions[u][k].spent \in Nat /\ sessions[u][k].grant.maxTotal \in Nat
  BY <1>1, SignedData DEF Session, Grant
<1>3. sessions[u][k].spent <= sessions[u][k].grant.maxTotal
  BY DEF IInv, SpentIsPulled, SessionWithinGrant
<1> QED
  BY <1>2, <1>3

LEMMA SignedPairs ==
    ASSUME NEW u \in Users, NEW t \in Tokens
    PROVE  /\ ByNonce(SignedBy(u, t)) \in SUBSET (Nonces \X Nat)
           /\ IsFiniteSet(ByNonce(SignedBy(u, t)))
<1> DEFINE S == SignedBy(u, t)
           f == [o \in S |-> <<o.orderNonce, o.amount>>]
<1>1. IsFiniteSet(S)
  BY FinitelySigned, FS_Subset DEF SignedBy
<1>2. ByNonce(S) = {f[o] : o \in S}
  BY DEF ByNonce
<1>3. ByNonce(S) \in SUBSET (Nonces \X Nat)
  BY SignedData DEF ByNonce, SignedBy, SignedOrder, Nonces
<1> HIDE DEF f, S
<1>4. IsFiniteSet(ByNonce(S))
  BY <1>1, <1>2, FiniteImage
<1> QED
  BY <1>3, <1>4 DEF S

(* Using more nonces never covers less.                                         *)
LEMMA SpentGrows ==
    ASSUME NEW u \in Users, NEW t \in Tokens, orderNonceUsed[u] \subseteq orderNonceUsed'[u]
    PROVE  /\ TotalOnce(SpentBy(u, t)) \in Nat /\ TotalOnce(SpentBy(u, t))' \in Nat
           /\ TotalOnce(SpentBy(u, t)) <= TotalOnce(SpentBy(u, t))'
<1> DEFINE P == SpentBy(u, t)
           Q == ByNonce({o \in SignedBy(u, t) : o.orderNonce \in orderNonceUsed'[u]})
<1>1. Q \in SUBSET ByNonce(SignedBy(u, t)) /\ P \in SUBSET Q
  BY DEF ByNonce, SpentBy
<1>2. Q \in SUBSET (Nonces \X Nat) /\ IsFiniteSet(Q)
  BY <1>1, SignedPairs, FS_Subset
<1>3. SpentBy(u, t)' = Q
  BY DEF SpentBy, ByNonce, SignedBy
<1> HIDE DEF P, Q
<1>4. TotalOnce(P) \in Nat /\ TotalOnce(Q) \in Nat /\ TotalOnce(P) <= TotalOnce(Q)
  BY <1>1, <1>2, TotalOnceGrows
<1> QED
  BY <1>3, <1>4 DEF P

LEMMA CoverTypes ==
    ASSUME IInv, NEW u \in Users, NEW t \in Tokens
    PROVE  /\ bal[t][u] \in Int /\ InitBal[t][u] \in Int
           /\ ledger.consented[u][t] \in Int
           /\ Total(Left(u, t)) \in Nat
<1>1. bal \in [Tokens -> [Holders -> Int]] /\ ledger \in Ledger
  BY DEF IInv, TypeOK
<1>2. bal[t][u] \in Int
  BY <1>1, HolderKinds
<1>3. InitBal[t][u] \in Int
  BY SignedData
<1>4. ledger.consented[u][t] \in Int
  BY <1>1 DEF Ledger
<1>5. Total(Left(u, t)) \in Nat
  BY LeftType, FinitelySigned, TotalType
<1> QED
  BY <1>2, <1>3, <1>4, <1>5

LEMMA InitCovered == Init => DebitsCovered
<1> SUFFICES ASSUME Init, NEW u \in Users, NEW t \in Tokens
             PROVE  InitBal[t][u] - bal[t][u] + Total(Left(u, t)) <= TotalOnce(SpentBy(u, t)) + ledger.consented[u][t]
  BY DEF DebitsCovered
<1>1. IInv
  BY InitIInv
<1>2. InitBal[t][u] = bal[t][u] /\ ledger.consented[u][t] = 0
  BY HolderKinds DEF Init
<1>3. \A k \in Keys : Left(u, t)[k] = 0
  BY DEF Init, Left
<1>4. Total(Left(u, t)) = 0
  BY <1>1, <1>3, LeftType, TotalZero
<1>5. TotalOnce(SpentBy(u, t)) \in Nat
  <2>1. SpentBy(u, t) \in SUBSET ByNonce(SignedBy(u, t))
    BY DEF SpentBy, ByNonce
  <2> QED
    BY <2>1, SignedPairs, TotalOnceGrows
<1> QED
  BY <1>1, <1>2, <1>4, <1>5, CoverTypes

(* A step that moves no funds and no budgets.                                   *)
LEMMA BudgetsUntouched ==
    ASSUME IInv, IInv', DebitsCovered, bal' = bal, ledger'.consented = ledger.consented,
           \A v \in Users, j \in Keys :
                sessions'[v][j].grant = sessions[v][j].grant /\ sessions'[v][j].spent = sessions[v][j].spent,
           \A v \in Users : orderNonceUsed[v] \subseteq orderNonceUsed'[v]
    PROVE  DebitsCovered'
<1> SUFFICES ASSUME NEW u \in Users, NEW t \in Tokens
             PROVE  InitBal[t][u] - bal'[t][u] + Total(Left(u, t))'
                        <= TotalOnce(SpentBy(u, t))' + ledger'.consented[u][t]
  BY DEF DebitsCovered
<1>1. Left(u, t)' = Left(u, t)
  BY DEF Left
<1>2. InitBal[t][u] - bal[t][u] + Total(Left(u, t)) <= TotalOnce(SpentBy(u, t)) + ledger.consented[u][t]
  BY DEF DebitsCovered
<1>3. Total(Left(u, t))' = Total(Left(u, t))
  BY <1>1 DEF Total, Units
<1>4. TotalOnce(SpentBy(u, t)) \in Nat /\ TotalOnce(SpentBy(u, t))' \in Nat
      /\ TotalOnce(SpentBy(u, t)) <= TotalOnce(SpentBy(u, t))'
  BY SpentGrows
<1> QED
  BY <1>2, <1>3, <1>4, CoverTypes

LEMMA AuthorizeCovered ==
    ASSUME IInv, IInv', DebitsCovered,
           NEW v \in Users, NEW k \in Keys, NEW g \in Grants, authorizeSession(v, k, g)
    PROVE  DebitsCovered'
<1> SUFFICES ASSUME NEW u \in Users, NEW t \in Tokens
             PROVE  InitBal[t][u] - bal'[t][u] + Total(Left(u, t))'
                        <= TotalOnce(SpentBy(u, t))' + ledger'.consented[u][t]
  BY DEF DebitsCovered
<1> DEFINE s == [grant |-> g, revoked |-> FALSE, spent |-> 0]
           n == IF u = v /\ t = g.tokenIn THEN g.maxTotal ELSE 0
<1>1. /\ UNCHANGED <<orderNonceUsed, bal>> /\ sessions' = [sessions EXCEPT ![v][k] = s]
      /\ ledger' = [ledger EXCEPT !.use[v][k] = NoUse, !.grants[v] = @ + 1,
                                  !.consented[v][g.tokenIn] = @ + g.maxTotal]
  BY DEF authorizeSession
<1>2. /\ ledger \in Ledger /\ ledger.consented \in [Users -> [Tokens -> Nat]]
      /\ sessions \in [Users -> [Keys -> Session]] /\ sessions' \in [Users -> [Keys -> Session]]
  BY DEF IInv, TypeOK, Ledger
<1>3. g.tokenIn \in Tokens /\ g.maxTotal \in Nat /\ g # NoGrant
  BY SignedData DEF Grant
<1>4. n \in Nat
  BY <1>3
<1>5. ledger'.consented[u][t] = ledger.consented[u][t] + n
  <2>1. ledger'.consented = [ledger.consented EXCEPT ![v][g.tokenIn] = @ + g.maxTotal]
    BY <1>1, <1>2 DEF Ledger
  <2> QED
    BY <2>1, <1>2, <1>3
<1>6. sessions'[v][k] = s
      /\ \A x \in Users, y \in Keys : ~(x = v /\ y = k) => sessions'[x][y] = sessions[x][y]
  BY <1>1, <1>2
<1>7. Total(Left(u, t)) \in Nat /\ Total(Left(u, t))' \in Int
      /\ Total(Left(u, t))' <= Total(Left(u, t)) + n
  <2>1. Left(u, t) \in [Keys -> Nat]
    BY LeftType
  <2>2. CASE u = v
    <3>1. Left(u, t)' = [Left(u, t) EXCEPT ![k] = n]
      <4>1. Left(v, t)' = [j \in Keys |-> IF j = k THEN n ELSE Left(v, t)[j]]
        BY <2>2, <1>3, <1>6 DEF Left
      <4> QED
        BY <2>1, <2>2, <4>1
    <3>2. Left(u, t)[k] \in Nat
      BY <2>1
    <3>3. /\ Total(Left(u, t)) \in Nat
          /\ Total([Left(u, t) EXCEPT ![k] = n]) = Total(Left(u, t)) - Left(u, t)[k] + n
      BY <2>1, <1>4, FinitelySigned, TotalUpdate
    <3>4. Total(Left(u, t))' = Total([Left(u, t) EXCEPT ![k] = n])
      BY <3>1 DEF Total, Units
    <3> HIDE DEF n
    <3> QED
      BY <3>2, <3>3, <3>4, <1>4
  <2>3. CASE u # v
    <3>1. Left(u, t)' = Left(u, t)
      BY <2>3, <1>6 DEF Left
    <3>2. Total(Left(u, t))' = Total(Left(u, t))
      BY <3>1 DEF Total, Units
    <3> QED
      BY <3>2, <1>4, CoverTypes
  <2> QED
    BY <2>2, <2>3
<1>8. TotalOnce(SpentBy(u, t)) \in Nat /\ TotalOnce(SpentBy(u, t))' \in Nat
      /\ TotalOnce(SpentBy(u, t)) <= TotalOnce(SpentBy(u, t))'
  BY <1>1, SpentGrows
<1>9. InitBal[t][u] - bal[t][u] + Total(Left(u, t)) <= TotalOnce(SpentBy(u, t)) + ledger.consented[u][t]
  BY DEF DebitsCovered
<1> HIDE DEF n
<1> QED
  BY <1>1, <1>4, <1>5, <1>7, <1>8, <1>9, CoverTypes

(* The nonce of an order that is filled was not used before.                    *)
LEMMA SpentByOrder ==
    ASSUME NEW o \in SignedOrders, TypeOK, o.orderNonce \notin orderNonceUsed[o.user],
           orderNonceUsed' = NonceSpent(o.user, o.orderNonce)
    PROVE  /\ TotalOnce(SpentBy(o.user, o.token)) \in Nat
           /\ TotalOnce(SpentBy(o.user, o.token))' \in Nat
           /\ TotalOnce(SpentBy(o.user, o.token)) + o.amount <= TotalOnce(SpentBy(o.user, o.token))'
<1> DEFINE u == o.user
           S == SignedBy(u, o.token)
           P == SpentBy(u, o.token)
           Q == ByNonce({x \in S : x.orderNonce \in orderNonceUsed'[u]})
           q == <<o.orderNonce, o.amount>>
<1>1. o.user \in Users /\ o.token \in Tokens /\ o.amount \in Nat /\ o.orderNonce \in Nonces
  BY SignedData DEF SignedOrder, Nonces
<1>2. orderNonceUsed'[u] = orderNonceUsed[u] \cup {o.orderNonce}
  BY <1>1 DEF NonceSpent, TypeOK
<1>3. q \in Q
  BY <1>2 DEF ByNonce, SignedBy
<1>4. \A p \in P : p[1] # q[1]
  BY DEF SpentBy, ByNonce
<1>5. Q \in SUBSET ByNonce(S) /\ P \in SUBSET Q
  BY <1>2 DEF ByNonce, SpentBy
<1>6. Q \in SUBSET (Nonces \X Nat) /\ IsFiniteSet(Q)
  BY <1>1, <1>5, SignedPairs, FS_Subset
<1>7. SpentBy(u, o.token)' = Q
  BY DEF SpentBy, ByNonce, SignedBy
<1>8. q[1] = o.orderNonce /\ q[2] = o.amount
  OBVIOUS
<1> HIDE DEF P, Q, q
<1>9. TotalOnce(P) + q[2] <= TotalOnce(Q)
  BY <1>3, <1>4, <1>5, <1>6, TotalOnceNew
<1>10. TotalOnce(P) \in Nat /\ TotalOnce(Q) \in Nat
  BY <1>5, <1>6, TotalOnceGrows
<1> QED
  BY <1>7, <1>8, <1>9, <1>10 DEF P

LEMMA ExecuteCovered ==
    ASSUME IInv, IInv', DebitsCovered, NEW o \in SignedOrders, execute(o)
    PROVE  DebitsCovered'
<1> SUFFICES ASSUME NEW u \in Users, NEW t \in Tokens
             PROVE  InitBal[t][u] - bal'[t][u] + Total(Left(u, t))'
                        <= TotalOnce(SpentBy(u, t))' + ledger'.consented[u][t]
  BY DEF DebitsCovered
<1>1. /\ o.user \in Users /\ o.pool \in Pools /\ o.zeroForOne \in BOOLEAN /\ o.amount \in Nat
      /\ o.minOut \in Nat /\ o.recipient \in Users /\ o.orderNonce \in Nonces
  BY SignedData DEF SignedOrder, Nonces
<1>2. /\ o.orderNonce \notin orderNonceUsed[o.user]
      /\ orderNonceUsed' = NonceSpent(o.user, o.orderNonce)
      /\ o.token = TokenIn(o.pool, o.zeroForOne) /\ sessions' = sessions
  BY DEF execute
<1>3. PICK taken \in 0..o.amount, out \in 0..MaxOut :
        /\ _swapAndSettle(o.user, o.pool, o.zeroForOne, o.amount, taken, out, o.recipient, o.minOut)
        /\ ledger' = [ledger EXCEPT !.fills[o.user][o.orderNonce] = @ + 1,
                                    !.short[o.user] = @ \cup Short(o, out)]
  BY DEF execute
<1>4. bal'[t][u] >= bal[t][u] - (IF t = o.token /\ u = o.user THEN o.amount ELSE 0)
  BY <1>1, <1>2, <1>3, FillFunds
<1>5. ledger'.consented = ledger.consented
  BY <1>3 DEF IInv, TypeOK, Ledger
<1>6. Total(Left(u, t))' = Total(Left(u, t))
  BY <1>2 DEF Total, Units, Left
<1>7. InitBal[t][u] - bal[t][u] + Total(Left(u, t)) <= TotalOnce(SpentBy(u, t)) + ledger.consented[u][t]
  BY DEF DebitsCovered
<1>8. bal'[t][u] \in Int
  BY HolderKinds DEF IInv, TypeOK
<1>9. CASE t = o.token /\ u = o.user
  <2>1. /\ TotalOnce(SpentBy(u, t)) \in Nat /\ TotalOnce(SpentBy(u, t))' \in Nat
        /\ TotalOnce(SpentBy(u, t)) + o.amount <= TotalOnce(SpentBy(u, t))'
    BY <1>2, <1>9, SpentByOrder DEF IInv
  <2> QED
    BY <1>1, <1>4, <1>5, <1>6, <1>7, <1>8, <1>9, <2>1, CoverTypes
<1>10. CASE ~(t = o.token /\ u = o.user)
  <2>1. orderNonceUsed[u] \subseteq orderNonceUsed'[u]
    BY <1>1, <1>2 DEF NonceSpent, IInv, TypeOK
  <2>2. /\ TotalOnce(SpentBy(u, t)) \in Nat /\ TotalOnce(SpentBy(u, t))' \in Nat
        /\ TotalOnce(SpentBy(u, t)) <= TotalOnce(SpentBy(u, t))'
    BY <2>1, SpentGrows
  <2> QED
    BY <1>4, <1>5, <1>6, <1>7, <1>8, <1>10, <2>2, CoverTypes
<1> QED
  BY <1>9, <1>10

(* A session's fill spends what its budget had left.                            *)
LEMMA SessionCovered ==
    ASSUME IInv, IInv', DebitsCovered, NEW k \in Keys, NEW o \in SessionOrders, executeWithSession(k, o)
    PROVE  DebitsCovered'
<1> SUFFICES ASSUME NEW u \in Users, NEW t \in Tokens
             PROVE  InitBal[t][u] - bal'[t][u] + Total(Left(u, t))'
                        <= TotalOnce(SpentBy(u, t))' + ledger'.consented[u][t]
  BY DEF DebitsCovered
<1> DEFINE s == sessions[o.user][k]
           tIn == TokenIn(o.pool, o.zeroForOne)
           n == IF t = tIn /\ u = o.user THEN o.amountIn ELSE 0
<1>1. /\ o.user \in Users /\ o.pool \in Pools /\ o.zeroForOne \in BOOLEAN /\ o.amountIn \in Nat
      /\ o.minOut \in Nat /\ o.recipient \in Users /\ o.orderNonce \in Nonces
  BY SignedData DEF SessionOrder, Nonces
<1>2. /\ orderNonceUsed' = NonceSpent(o.user, o.orderNonce)
      /\ sessions' = [sessions EXCEPT ![o.user][k].spent = @ + o.amountIn]
      /\ s.grant # NoGrant /\ tIn = s.grant.tokenIn /\ s.spent + o.amountIn <= s.grant.maxTotal
  BY DEF executeWithSession, InScope, WithinTotal
<1>3. PICK taken \in 0..o.amountIn, out \in 0..MaxOut :
        /\ _swapAndSettle(o.user, o.pool, o.zeroForOne, o.amountIn, taken, out, o.recipient, o.minOut)
        /\ ledger' = [ledger EXCEPT
                !.fills[o.user][o.orderNonce] = @ + 1,
                !.short[o.user] = @ \cup Short(o, out),
                !.use[o.user][k] = [orders |-> @.orders + 1,
                                    short  |-> @.short + Cardinality(Short(o, out)),
                                    pulled |-> @.pulled + o.amountIn,
                                    got    |-> @.got + out]]
  BY DEF executeWithSession
<1>4. bal'[t][u] >= bal[t][u] - n /\ n \in Nat
  BY <1>1, <1>3, FillFunds
<1>5. ledger'.consented = ledger.consented
  BY <1>3 DEF IInv, TypeOK, Ledger
<1>6. /\ sessions \in [Users -> [Keys -> Session]] /\ s \in Session
      /\ s.spent \in Nat /\ s.grant.maxTotal \in Nat
  BY <1>1, <1>2, SignedData DEF IInv, TypeOK, Session, Grant
<1>7. /\ sessions'[o.user][k].grant = s.grant /\ sessions'[o.user][k].spent = s.spent + o.amountIn
      /\ \A x \in Users, y \in Keys : ~(x = o.user /\ y = k) => sessions'[x][y] = sessions[x][y]
  BY <1>1, <1>2, <1>6 DEF Session
<1> HIDE DEF s, tIn
<1>8. Total(Left(u, t)) \in Nat /\ Total(Left(u, t))' = Total(Left(u, t)) - n
  <2>1. Left(u, t) \in [Keys -> Nat]
    BY LeftType
  <2>2. CASE t = tIn /\ u = o.user
    <3>1. Left(u, t)[k] = s.grant.maxTotal - s.spent
      BY <2>2, <1>2 DEF Left, s
    <3> DEFINE v == s.grant.maxTotal - (s.spent + o.amountIn)
    <3>2. v \in Nat /\ v = Left(u, t)[k] - n
      BY <2>2, <3>1, <1>1, <1>2, <1>6
    <3>3. Left(u, t)' = [j \in Keys |-> IF j = k THEN v ELSE Left(u, t)[j]]
      BY <2>2, <1>2, <1>7 DEF Left
    <3> HIDE DEF v, n
    <3>4. Left(u, t)' = [Left(u, t) EXCEPT ![k] = v]
      BY <2>1, <3>3
    <3>5. /\ Total(Left(u, t)) \in Nat
          /\ Total([Left(u, t) EXCEPT ![k] = v]) = Total(Left(u, t)) - Left(u, t)[k] + v
      BY <2>1, <3>2, FinitelySigned, TotalUpdate
    <3>6. Total(Left(u, t))' = Total([Left(u, t) EXCEPT ![k] = v])
      BY <3>4 DEF Total, Units
    <3>7. Left(u, t)[k] \in Nat
      BY <2>1
    <3> QED
      BY <3>2, <3>5, <3>6, <3>7, <1>4
  <2>3. CASE ~(t = tIn /\ u = o.user)
    <3> DEFINE part(x) == IF x.grant # NoGrant /\ x.grant.tokenIn = t
                          THEN x.grant.maxTotal - x.spent ELSE 0
    <3>1. Left(u, t)' = Left(u, t)
      <4>1. ASSUME NEW j \in Keys PROVE part(sessions'[u][j]) = part(sessions[u][j])
        <5>1. CASE u = o.user /\ j = k
          <6>1. s.grant.tokenIn # t
            BY <5>1, <2>3, <1>2
          <6> QED
            BY <5>1, <6>1, <1>7 DEF s
        <5>2. CASE ~(u = o.user /\ j = k)
          BY <5>2, <1>7
        <5> QED
          BY <5>1, <5>2
      <4> QED
        BY <4>1 DEF Left
    <3>2. Total(Left(u, t))' = Total(Left(u, t))
      BY <3>1 DEF Total, Units
    <3> QED
      BY <3>2, <2>3, CoverTypes
  <2> QED
    BY <2>2, <2>3
<1>9. InitBal[t][u] - bal[t][u] + Total(Left(u, t)) <= TotalOnce(SpentBy(u, t)) + ledger.consented[u][t]
  BY DEF DebitsCovered
<1>10. orderNonceUsed[u] \subseteq orderNonceUsed'[u]
  BY <1>1, <1>2 DEF NonceSpent, IInv, TypeOK
<1>11. /\ TotalOnce(SpentBy(u, t)) \in Nat /\ TotalOnce(SpentBy(u, t))' \in Nat
       /\ TotalOnce(SpentBy(u, t)) <= TotalOnce(SpentBy(u, t))'
  BY <1>10, SpentGrows
<1>12. bal'[t][u] \in Int
  BY HolderKinds DEF IInv, TypeOK
<1> HIDE DEF n
<1> QED
  BY <1>4, <1>5, <1>8, <1>9, <1>11, <1>12, CoverTypes

LEMMA Covered == ASSUME IInv, DebitsCovered, [V3Next]_v3vars PROVE DebitsCovered'
<1>1. IInv'
  BY Inductive
<1>2. CASE UNCHANGED v3vars \/ Owner \/ Tick
  <2>1. UNCHANGED <<sessions, orderNonceUsed, bal, ledger>>
    BY <1>2 DEF v3vars, Owner, Tick, setPaused, setAllowedPool, setAllowedHook, setAllowAllPools
  <2> QED
    BY <1>1, <2>1, BudgetsUntouched
<1>3. ASSUME NEW u \in Users, NEW k \in Keys, NEW g \in Grants, authorizeSession(u, k, g)
      PROVE  DebitsCovered'
  BY <1>1, <1>3, AuthorizeCovered
<1>4. ASSUME NEW u \in Users, NEW k \in Keys, revokeSession(u, k)
      PROVE  DebitsCovered'
  <2>1. /\ UNCHANGED <<orderNonceUsed, bal, ledger>>
        /\ sessions' = [sessions EXCEPT ![u][k].revoked = TRUE]
        /\ sessions \in [Users -> [Keys -> Session]]
    BY <1>4 DEF revokeSession, IInv, TypeOK
  <2>2. \A v \in Users, j \in Keys :
          sessions'[v][j].grant = sessions[v][j].grant /\ sessions'[v][j].spent = sessions[v][j].spent
    BY <2>1 DEF Session
  <2> QED
    BY <1>1, <2>1, <2>2, BudgetsUntouched
<1>5. ASSUME NEW u \in Users, NEW n \in Nonces, cancelOrder(u, n)
      PROVE  DebitsCovered'
  <2>1. /\ UNCHANGED <<sessions, bal>>
        /\ orderNonceUsed' = [orderNonceUsed EXCEPT ![u] = @ \cup {n}]
        /\ ledger' = [ledger EXCEPT !.cancelled[u] = IF ledger.fills[u][n] = 0 THEN @ \cup {n} ELSE @]
    BY <1>5 DEF cancelOrder
  <2>2. ledger'.consented = ledger.consented
    BY <2>1 DEF IInv, TypeOK, Ledger
  <2>3. \A v \in Users : orderNonceUsed[v] \subseteq orderNonceUsed'[v]
    BY <2>1 DEF IInv, TypeOK
  <2> QED
    BY <1>1, <2>1, <2>2, <2>3, BudgetsUntouched
<1>6. ASSUME NEW o \in SignedOrders, execute(o) PROVE DebitsCovered'
  BY <1>1, <1>6, ExecuteCovered
<1>7. ASSUME NEW k \in Keys, NEW o \in SessionOrders, executeWithSession(k, o) PROVE DebitsCovered'
  BY <1>1, <1>7, SessionCovered
<1> QED
  BY <1>2, <1>3, <1>4, <1>5, <1>6, <1>7 DEF V3Next, User, FillStep

LEMMA Consented == ASSUME IInv, DebitsCovered PROVE DebitsWithinConsent
<1> SUFFICES ASSUME NEW u \in Users, NEW t \in Tokens
             PROVE  InitBal[t][u] - bal[t][u] <= SignedAway(u, t) + ledger.consented[u][t]
  BY DEF DebitsWithinConsent
<1>1. InitBal[t][u] - bal[t][u] + Total(Left(u, t)) <= TotalOnce(SpentBy(u, t)) + ledger.consented[u][t]
  BY DEF DebitsCovered
<1>2. SpentBy(u, t) \in SUBSET ByNonce(SignedBy(u, t))
  BY DEF SpentBy, ByNonce
<1>3. /\ TotalOnce(SpentBy(u, t)) \in Nat /\ SignedAway(u, t) \in Nat
      /\ TotalOnce(SpentBy(u, t)) <= SignedAway(u, t)
  BY <1>2, SignedPairs, TotalOnceGrows DEF SignedAway
<1> QED
  BY <1>1, <1>3, CoverTypes

(* Nobody who signed is ever overdrawn and every record keeps its type.         *)
THEOREM TypeCorrect == V3Spec => []TypeOK
<1>1. IInv => TypeOK
  BY DEF IInv
<1> QED
  BY <1>1, Invariance, PTL

(* The contract holds nothing between transactions.                             *)
THEOREM NothingAtRest == V3Spec => []NoResidue
<1>1. IInv => NoResidue
  BY DEF IInv
<1> QED
  BY <1>1, Invariance, PTL

(* An order nonce pays for one fill at most, and for none once it is cancelled. *)
THEOREM NonceFillsOnce == V3Spec => []OneFillPerNonce
<1>1. IInv => OneFillPerNonce
  BY DEF IInv
<1> QED
  BY <1>1, Invariance, PTL

(* Whatever orders a session key signs, what it pulled since it was authorized   *)
(* stays within the budget and the floor of its grant.                           *)
THEOREM SessionsStayInScope == V3Spec => []SessionWithinGrant
<1>1. IInv => SessionWithinGrant
  BY DEF IInv
<1> QED
  BY <1>1, Invariance, PTL

(* Whatever keepers, keys and pools do, a wallet loses no more than its user     *)
(* signed away, each order nonce once, and authorized sessions to pull.          *)
THEOREM WalletsWithinConsent == V3Spec => []DebitsWithinConsent
<1>1. Init => IInv /\ DebitsCovered
  BY InitIInv, InitCovered
<1>2. IInv /\ DebitsCovered /\ [V3Next]_v3vars => IInv' /\ DebitsCovered'
  BY Inductive, Covered
<1>3. IInv /\ DebitsCovered => DebitsWithinConsent
  BY Consented
<1> QED
  BY <1>1, <1>2, <1>3, PTL DEF V3Spec

-----------------------------------------------------------------------------
(* What a keeper may hold: an order that was placed, with its intent, and was     *)
(* not cancelled before any keeper had it.                                       *)
Placed(r) == rows[r].status # "none" /\ rows[r].payload /\ r \notin quiet

ServerTypeOK ==
    /\ issued \in [Keys -> IssuedKey] /\ rows \in [Rows -> Row]
    /\ frozen \subseteq Users /\ keeper \in [Keepers -> Run]
    /\ sent \subseteq Tx /\ quiet \subseteq Rows /\ faults \in 0..MaxFaults

IssuedForGrants == \A k \in Keys : issued[k].status # "none" => issued[k].grant \in Grants
HeldArePlaced ==
    \A a \in Keepers :
        /\ \A r \in keeper[a].batch : Placed(r)
        /\ keeper[a].row # NoRow => Placed(keeper[a].row) /\ keeper[a].key \in Keys
SentArePlaced   == \A t \in sent : Placed(t.row)
QuietAreOver    == \A r \in quiet : rows[r].status = "cancelled"
ReceiptsAreTrue == \A t \in sent : t.status = "ok" => Filled(t.row)

(* The inductive invariant, next to the contract's own (IInv).                    *)
OffIInv == /\ ServerTypeOK /\ IssuedForGrants
           /\ HeldArePlaced /\ SentArePlaced /\ QuietAreOver
           /\ ReceiptsAreTrue /\ ExecutedIsFilled /\ OnlyPlacedOrdersFill
TradingIInv == IInv /\ OffIInv

LEMMA OrderOfRow ==
    ASSUME NEW r \in Rows
    PROVE  /\ OrderOf[r] \in SessionOrders /\ OrderOf[r].user \in Users
           /\ OrderOf[r].orderNonce \in Nonces
BY RowsHaveOrders, SignedData DEF SessionOrder, Nonces

LEMMA FillsNat ==
    ASSUME IInv PROVE ledger.fills \in [Users -> [Nonces -> Nat]]
BY DEF IInv, TypeOK, Ledger

(* A fill adds the order's nonce to what was filled and nothing else.             *)
LEMMA FillEffect ==
    ASSUME IInv, NEW k \in Keys, NEW r \in Rows, executeWithSession(k, OrderOf[r])
    PROVE  /\ Filled(r)'
           /\ \A q \in Rows : Filled(q) => Filled(q)'
           /\ \A q \in Rows : Filled(q)' => Filled(q) \/ q = r
<1> DEFINE o == OrderOf[r]
           f == ledger.fills
<1>1. o \in SessionOrders /\ o.user \in Users /\ o.orderNonce \in Nonces
  BY OrderOfRow
<1>2. f \in [Users -> [Nonces -> Nat]] /\ ledger \in Ledger
  BY FillsNat DEF IInv, TypeOK
<1>3. ledger'.fills = [f EXCEPT ![o.user][o.orderNonce] = @ + 1]
  <2>1. PICK out \in 0..MaxOut :
            ledger' = [ledger EXCEPT
                    !.fills[o.user][o.orderNonce] = @ + 1,
                    !.short[o.user] = @ \cup Short(o, out),
                    !.use[o.user][k] = [orders |-> @.orders + 1,
                                        short  |-> @.short + Cardinality(Short(o, out)),
                                        pulled |-> @.pulled + o.amountIn,
                                        got    |-> @.got + out]]
    BY Zenon DEF executeWithSession
  <2> QED
    BY <2>1, <1>2 DEF Ledger
<1>4. f[o.user][o.orderNonce] \in Nat
  BY <1>1, <1>2
<1> DEFINE v == f[o.user][o.orderNonce] + 1
           g == ledger'.fills
<1>5. g = [f EXCEPT ![o.user][o.orderNonce] = v] /\ v \in Nat /\ v > 0
  BY <1>3, <1>4
<1> HIDE DEF v, g, f
<1>6. /\ g[o.user][o.orderNonce] = v
      /\ \A x \in Users, y \in Nonces : ~(x = o.user /\ y = o.orderNonce) => g[x][y] = f[x][y]
  BY <1>1, <1>2, <1>5, Entry
<1>7. \A q \in Rows : Filled(q)' <=> g[OrderOf[q].user][OrderOf[q].orderNonce] > 0
  BY DEF Filled, g
<1>8. \A q \in Rows : Filled(q) <=> f[OrderOf[q].user][OrderOf[q].orderNonce] > 0
  BY DEF Filled, f
<1>9. ASSUME NEW q \in Rows, q # r
      PROVE  Filled(q)' <=> Filled(q)
  <2>1. OrderOf[q].orderNonce # o.orderNonce
    BY <1>9, FreshNonces
  <2> QED
    BY <2>1, <1>6, <1>7, <1>8, OrderOfRow
<1>10. Filled(r)'
  BY <1>5, <1>6, <1>7
<1> QED
  BY <1>9, <1>10

(* Of the contract's steps only a fill of a session order changes what is filled.  *)
LEMMA NothingFilled ==
    ASSUME IInv, NEW u \in Users, NEW k \in Keys, NEW g \in Grants, authorizeSession(u, k, g)
    PROVE  ledger'.fills = ledger.fills
BY DEF authorizeSession, IInv, TypeOK, Ledger

LEMMA NothingFilledByWallets ==
    ASSUME IInv, OnChain PROVE ledger'.fills = ledger.fills
BY DEF OnChain, revokeSession, cancelOrder, Tick, IInv, TypeOK, Ledger

-----------------------------------------------------------------------------
(* Session trading is a use of the contract                                      *)

LEMMA TradingInitOff == TradingInit => TradingIInv
<1> SUFFICES ASSUME TradingInit PROVE TradingIInv
  OBVIOUS
<1>1. IInv
  BY InitIInv DEF TradingInit
<1>2. ServerTypeOK
  BY Bounds, Numbers DEF TradingInit, ServerTypeOK, IssuedKey, Row, Run, Resting
<1>3. IssuedForGrants
  BY DEF TradingInit, IssuedForGrants
<1>4. HeldArePlaced /\ SentArePlaced /\ QuietAreOver /\ ReceiptsAreTrue
  BY DEF TradingInit, HeldArePlaced, SentArePlaced, QuietAreOver, ReceiptsAreTrue, Resting
<1>5. \A r \in Rows : ~Filled(r)
  BY OrderOfRow DEF TradingInit, Init, Filled
<1>6. ExecutedIsFilled /\ OnlyPlacedOrdersFill
  BY <1>5 DEF TradingInit, ExecutedIsFilled, OnlyPlacedOrdersFill
<1> QED
  BY <1>1, <1>2, <1>3, <1>4, <1>6 DEF TradingIInv, OffIInv

(* Every step of the composed system is a step of the contract or leaves it.      *)
LEMMA ImplementsStep == ASSUME TradingIInv, [TradingNext]_tvars PROVE [V3Next]_v3vars
<1> USE DEF TradingIInv, OffIInv
<1>1. CASE UNCHANGED tvars
  BY <1>1 DEF tvars
<1>2. CASE Server
  <2>1. ASSUME NEW k \in Keys, NEW g \in Grants, save_session(k, g) PROVE UNCHANGED v3vars
    BY <2>1 DEF save_session
  <2>2. ASSUME NEW k \in Keys, Authorize(k) PROVE V3Next
    <3>1. issued[k].user \in Users /\ issued[k].grant \in Grants
      BY <2>2 DEF Authorize, ServerTypeOK, IssuedKey, IssuedForGrants
    <3>2. authorizeSession(issued[k].user, k, issued[k].grant)
      BY <2>2 DEF Authorize
    <3> QED
      BY <3>1, <3>2 DEF V3Next, User
  <2>3. ASSUME NEW k \in Keys, revoke_session(k) PROVE UNCHANGED v3vars
    BY <2>3 DEF revoke_session
  <2>4. ASSUME NEW r \in Rows, create_preorder(r) \/ save_sig_payload(r) \/ cancel_preorder(r)
        PROVE  UNCHANGED v3vars
    BY <2>4 DEF create_preorder, save_sig_payload, cancel_preorder
  <2>5. ASSUME NEW u \in Users, NEW b \in BOOLEAN, set_frozen(u, b) PROVE UNCHANGED v3vars
    BY <2>5 DEF set_frozen
  <2> QED
    BY <1>2, <2>1, <2>2, <2>3, <2>4, <2>5 DEF Server
<1>3. CASE OnChain
  BY <1>3 DEF OnChain, V3Next, User, ServerTypeOK, IssuedKey
<1>4. ASSUME NEW a \in Keepers, KeeperFetch(a) \/ KeeperRun(a) \/ KeeperLosesAnswer(a) \/ Crash(a)
      PROVE  UNCHANGED v3vars
  BY <1>4 DEF KeeperFetch, KeeperRun, KeeperPick, KeeperSend, KeeperReceipt, KeeperLosesAnswer, Crash
<1>5. ASSUME NEW t \in sent, Mine(t) PROVE [V3Next]_v3vars
  <2>1. CASE MineFill(t)
    <3>1. t.key \in Keys /\ t.row \in Rows
      BY DEF ServerTypeOK, Tx
    <3>2. OrderOf[t.row] \in SessionOrders
      BY <3>1, OrderOfRow
    <3> QED
      BY <2>1, <3>1, <3>2 DEF MineFill, V3Next, FillStep
  <2>2. CASE MineRevert(t)
    BY <2>2 DEF MineRevert
  <2> QED
    BY <1>5, <2>1, <2>2 DEF Mine
<1> QED
  BY <1>1, <1>2, <1>3, <1>4, <1>5 DEF TradingNext

-----------------------------------------------------------------------------
(* The table tells the truth: one lemma for each step of the server, the keepers  *)
(* and the chain                                                                 *)

LEMMA SameFills ==
    ASSUME ledger'.fills = ledger.fills PROVE \A r \in Rows : Filled(r)' <=> Filled(r)
BY DEF Filled

(* Steps that touch neither the rows nor what keepers hold nor the chain's fills. *)
LEMMA TableUntouched ==
    ASSUME OffIInv, UNCHANGED <<rows, keeper, sent, quiet, faults>>, ledger'.fills = ledger.fills,
           issued' \in [Keys -> IssuedKey], frozen' \subseteq Users, IssuedForGrants'
    PROVE  OffIInv'
<1>1. ServerTypeOK'
  BY DEF OffIInv, ServerTypeOK
<1>2. HeldArePlaced' /\ SentArePlaced' /\ QuietAreOver'
  BY DEF OffIInv, HeldArePlaced, SentArePlaced, QuietAreOver, Placed
<1>3. \A r \in Rows : Filled(r)' <=> Filled(r)
  BY SameFills
<1>4. ReceiptsAreTrue' /\ ExecutedIsFilled' /\ OnlyPlacedOrdersFill'
  BY <1>3 DEF OffIInv, ServerTypeOK, Tx, ReceiptsAreTrue, ExecutedIsFilled, OnlyPlacedOrdersFill
<1> QED
  BY <1>1, <1>2, <1>4 DEF OffIInv

LEMMA SessionSteps ==
    ASSUME TradingIInv, NEW k \in Keys,
           (\E g \in Grants : save_session(k, g)) \/ Authorize(k) \/ revoke_session(k)
    PROVE  OffIInv'
<1> USE DEF TradingIInv
<1>0. OffIInv /\ issued \in [Keys -> IssuedKey] /\ frozen \subseteq Users /\ IssuedForGrants
  BY DEF OffIInv, ServerTypeOK
<1>1. ASSUME NEW g \in Grants, save_session(k, g) PROVE OffIInv'
  <2>1. now \in 0..MaxTime
    BY DEF IInv, TypeOK
  <2>2. issued' = [issued EXCEPT ![k].grant = g, ![k].created = now, ![k].status = "active"]
    BY <1>1 DEF save_session
  <2>3. issued' \in [Keys -> IssuedKey] /\ IssuedForGrants'
    BY <1>0, <2>1, <2>2 DEF IssuedKey, IssuedForGrants
  <2>4. UNCHANGED <<rows, keeper, sent, quiet, faults>> /\ ledger'.fills = ledger.fills /\ frozen' = frozen
    BY <1>1 DEF save_session, v3vars
  <2> QED
    BY <1>0, <2>3, <2>4, TableUntouched
<1>2. CASE Authorize(k)
  <2>1. UNCHANGED offchain /\ authorizeSession(issued[k].user, k, issued[k].grant)
    BY <1>2 DEF Authorize
  <2>2. issued[k].user \in Users /\ issued[k].grant \in Grants
    BY <1>0, <1>2 DEF Authorize, IssuedKey, IssuedForGrants
  <2>3. ledger'.fills = ledger.fills
    BY <2>1, <2>2, NothingFilled
  <2>4. IssuedForGrants'
    BY <1>0, <2>1 DEF offchain, IssuedForGrants
  <2> QED
    BY <1>0, <2>1, <2>3, <2>4, TableUntouched DEF offchain
<1>3. CASE revoke_session(k)
  <2>1. issued' = [issued EXCEPT ![k].status = "revoked"] /\ issued[k].status # "none"
    BY <1>3 DEF revoke_session
  <2>2. issued' \in [Keys -> IssuedKey] /\ IssuedForGrants'
    BY <1>0, <2>1 DEF IssuedKey, IssuedForGrants
  <2>3. UNCHANGED <<rows, keeper, sent, quiet, faults>> /\ ledger'.fills = ledger.fills /\ frozen' = frozen
    BY <1>3 DEF revoke_session, v3vars
  <2> QED
    BY <1>0, <2>2, <2>3, TableUntouched
<1> QED
  BY <1>1, <1>2, <1>3

LEMMA FreezeStep ==
    ASSUME TradingIInv, NEW u \in Users, NEW b \in BOOLEAN, set_frozen(u, b)
    PROVE  OffIInv'
<1>1. /\ UNCHANGED <<rows, keeper, sent, quiet, faults>> /\ ledger'.fills = ledger.fills
      /\ issued' = issued
  BY DEF set_frozen, v3vars
<1>2. issued' \in [Keys -> IssuedKey] /\ IssuedForGrants'
  BY <1>1 DEF TradingIInv, OffIInv, ServerTypeOK, IssuedForGrants
<1>3. frozen' \subseteq Users
  BY DEF TradingIInv, OffIInv, ServerTypeOK, set_frozen
<1> QED
  BY <1>1, <1>2, <1>3, TableUntouched DEF TradingIInv

LEMMA WalletStep == ASSUME TradingIInv, OnChain, UNCHANGED offchain PROVE OffIInv'
<1>1. ledger'.fills = ledger.fills
  BY NothingFilledByWallets DEF TradingIInv
<1>2. issued' \in [Keys -> IssuedKey] /\ frozen' \subseteq Users /\ IssuedForGrants'
  BY DEF offchain, TradingIInv, OffIInv, ServerTypeOK, IssuedForGrants
<1> QED
  BY <1>1, <1>2, TableUntouched DEF offchain, TradingIInv

LEMMA CreateStep ==
    ASSUME TradingIInv, NEW r \in Rows, create_preorder(r) \/ save_sig_payload(r)
    PROVE  OffIInv'
<1> USE DEF TradingIInv
<1>0. /\ OffIInv /\ rows \in [Rows -> Row]
      /\ UNCHANGED <<issued, frozen, keeper, sent, quiet, faults>> /\ ledger'.fills = ledger.fills
  BY DEF OffIInv, ServerTypeOK, create_preorder, save_sig_payload, v3vars
<1>1. \/ rows[r].status = "none" /\ rows' = [rows EXCEPT ![r].status = "armed"]
      \/ rows[r].status # "none" /\ rows' = [rows EXCEPT ![r].payload = TRUE]
  BY DEF create_preorder, save_sig_payload
<1>2. rows' \in [Rows -> Row]
  BY <1>0, <1>1 DEF Row
<1>3. \A q \in Rows : /\ rows[q].status # "none" => rows'[q].status = rows[q].status
                      /\ rows'[q].status \in {rows[q].status, "armed"}
                      /\ rows[q].payload => rows'[q].payload
  BY <1>0, <1>1 DEF Row
<1>4. \A q \in Rows : Placed(q) => Placed(q)'
  BY <1>0, <1>3 DEF Placed
<1>5. \A q \in Rows : Filled(q)' <=> Filled(q)
  BY <1>0, SameFills
<1>6. ServerTypeOK' /\ IssuedForGrants'
  BY <1>0, <1>2 DEF OffIInv, ServerTypeOK, IssuedForGrants
<1>7. HeldArePlaced' /\ SentArePlaced'
  BY <1>0, <1>4 DEF OffIInv, ServerTypeOK, Run, Tx, HeldArePlaced, SentArePlaced
<1>8. QuietAreOver'
  BY <1>0, <1>3 DEF OffIInv, ServerTypeOK, QuietAreOver
<1>9. ReceiptsAreTrue' /\ ExecutedIsFilled'
  BY <1>0, <1>3, <1>5 DEF OffIInv, ServerTypeOK, Tx, ReceiptsAreTrue, ExecutedIsFilled
<1>10. OnlyPlacedOrdersFill'
  BY <1>0, <1>3, <1>5 DEF OffIInv, OnlyPlacedOrdersFill
<1> QED
  BY <1>6, <1>7, <1>8, <1>9, <1>10 DEF OffIInv

(* Only an order nobody holds and nobody filled is cancelled before any keeper    *)
(* had it.                                                                       *)
LEMMA CancelRowStep == ASSUME TradingIInv, NEW r \in Rows, cancel_preorder(r) PROVE OffIInv'
<1> USE DEF TradingIInv
<1>0. /\ OffIInv /\ rows \in [Rows -> Row] /\ rows[r].status = "armed"
      /\ rows' = [rows EXCEPT ![r].status = "cancelled"]
      /\ quiet' = IF Held(r) \/ Filled(r) THEN quiet ELSE quiet \cup {r}
      /\ UNCHANGED <<issued, frozen, keeper, sent, faults>> /\ ledger'.fills = ledger.fills
  BY DEF OffIInv, ServerTypeOK, cancel_preorder, v3vars
<1>1. rows' \in [Rows -> Row]
  BY <1>0 DEF Row
<1>2. \A q \in Rows : /\ q # r => rows'[q] = rows[q]
                      /\ rows'[q].payload = rows[q].payload
                      /\ rows'[r].status = "cancelled"
  BY <1>0 DEF Row
<1>3. \A q \in Rows : Placed(q) /\ (Held(q) \/ Filled(q)) => Placed(q)'
  BY <1>0, <1>2 DEF Placed
<1>4. \A q \in Rows : Filled(q)' <=> Filled(q)
  BY <1>0, SameFills
<1>5. ServerTypeOK' /\ IssuedForGrants'
  BY <1>0, <1>1 DEF OffIInv, ServerTypeOK, IssuedForGrants
<1>6. HeldArePlaced'
  <2>1. ASSUME NEW a \in Keepers, NEW q \in Rows, q \in keeper[a].batch \/ q = keeper[a].row
        PROVE  Held(q)
    BY <2>1 DEF Held, HeldBy
  <2>2. \A a \in Keepers : keeper[a].batch \subseteq Rows /\ keeper[a].row \in Rows \cup {NoRow}
    BY DEF OffIInv, ServerTypeOK, Run
  <2> QED
    BY <1>0, <1>3, <2>1, <2>2 DEF OffIInv, HeldArePlaced
<1>7. SentArePlaced'
  <2>1. \A t \in sent : t.row \in Rows /\ Held(t.row)
    BY DEF OffIInv, ServerTypeOK, Tx, Held
  <2> QED
    BY <1>0, <1>3, <2>1 DEF OffIInv, SentArePlaced
<1>8. QuietAreOver'
  BY <1>0, <1>2 DEF OffIInv, ServerTypeOK, QuietAreOver
<1>9. ReceiptsAreTrue' /\ ExecutedIsFilled'
  BY <1>0, <1>2, <1>4 DEF OffIInv, ServerTypeOK, Tx, ReceiptsAreTrue, ExecutedIsFilled
<1>10. OnlyPlacedOrdersFill'
  BY <1>0, <1>3, <1>4 DEF OffIInv, OnlyPlacedOrdersFill, Placed
<1> QED
  BY <1>5, <1>6, <1>7, <1>8, <1>9, <1>10 DEF OffIInv

(* Steps of a keeper that record nothing: what it holds afterwards was placed.    *)
LEMMA NothingRecorded ==
    ASSUME OffIInv, UNCHANGED <<issued, rows, frozen, quiet>>, ledger'.fills = ledger.fills,
           faults' \in 0..MaxFaults, keeper' \in [Keepers -> Run], HeldArePlaced',
           sent' \subseteq Tx, \A t \in sent' : Placed(t.row) /\ (t.status = "ok" => Filled(t.row))
    PROVE  OffIInv'
<1>1. \A r \in Rows : (Filled(r)' <=> Filled(r)) /\ (Placed(r)' <=> Placed(r))
  BY SameFills DEF Placed
<1>2. ServerTypeOK' /\ IssuedForGrants' /\ QuietAreOver'
  BY DEF OffIInv, ServerTypeOK, IssuedForGrants, QuietAreOver
<1>3. \A t \in sent' : t.row \in Rows
  BY DEF Tx
<1>4. SentArePlaced' /\ ReceiptsAreTrue'
  BY <1>1, <1>3 DEF SentArePlaced, ReceiptsAreTrue
<1>5. ExecutedIsFilled' /\ OnlyPlacedOrdersFill'
  BY <1>1 DEF OffIInv, ExecutedIsFilled, OnlyPlacedOrdersFill
<1> QED
  BY <1>2, <1>4, <1>5 DEF OffIInv

(* A keeper that goes on with less in its hands.                                  *)
LEMMA LessHeld ==
    ASSUME OffIInv, UNCHANGED <<rows, quiet>>, NEW a \in Keepers, NEW run \in Run,
           keeper' = [keeper EXCEPT ![a] = run],
           run.batch \subseteq keeper[a].batch,
           run.row = NoRow \/ run.row \in keeper[a].batch \cup {keeper[a].row},
           run.row = NoRow \/ run.key \in Keys
    PROVE  keeper' \in [Keepers -> Run] /\ HeldArePlaced'
<1>1. keeper \in [Keepers -> Run]
  BY DEF OffIInv, ServerTypeOK
<1>2. keeper' \in [Keepers -> Run]
  BY <1>1
<1>3. \A r \in Rows : Placed(r)' <=> Placed(r)
  BY DEF Placed
<1>4. keeper[a].batch \subseteq Rows /\ run.batch \subseteq Rows /\ run.row \in Rows \cup {NoRow}
  BY <1>1 DEF Run
<1>5. /\ \A r \in run.batch : Placed(r)
      /\ run.row # NoRow => Placed(run.row) /\ run.key \in Keys
  BY <1>4 DEF OffIInv, HeldArePlaced
<1>6. \A b \in Keepers : keeper'[b].batch \subseteq Rows /\ keeper'[b].row \in Rows \cup {NoRow}
  BY <1>2 DEF Run
<1>7. \A b \in Keepers : keeper'[b] = IF b = a THEN run ELSE keeper[b]
  BY <1>1
<1> QED
  BY <1>2, <1>3, <1>5, <1>6, <1>7 DEF OffIInv, HeldArePlaced

LEMMA OrphanedTxs ==
    ASSUME OffIInv, NEW a \in Keepers
    PROVE  /\ Orphaned(a) \subseteq Tx
           /\ \A t \in Orphaned(a) : Placed(t.row) /\ (t.status = "ok" => Filled(t.row))
<1>1. sent \subseteq Tx /\ \A t \in sent : Placed(t.row) /\ (t.status = "ok" => Filled(t.row))
  BY DEF OffIInv, ServerTypeOK, SentArePlaced, ReceiptsAreTrue
<1>2. ASSUME NEW t \in sent
      PROVE  /\ [t EXCEPT !.by = NoKeeper] \in Tx
             /\ [t EXCEPT !.by = NoKeeper].row = t.row /\ [t EXCEPT !.by = NoKeeper].status = t.status
  BY <1>1 DEF Tx
<1> QED
  BY <1>1, <1>2 DEF Orphaned

LEMMA SameTxs ==
    ASSUME OffIInv
    PROVE  sent \subseteq Tx /\ \A t \in sent : Placed(t.row) /\ (t.status = "ok" => Filled(t.row))
BY DEF OffIInv, ServerTypeOK, SentArePlaced, ReceiptsAreTrue

LEMMA FaultBound == ASSUME OffIInv, Fault \/ faults' = faults PROVE faults' \in 0..MaxFaults
BY Bounds DEF OffIInv, ServerTypeOK, Fault

(* A keeper reads armed orders whose intent is stored, so none of them is quiet.   *)
LEMMA FetchStep == ASSUME TradingIInv, NEW a \in Keepers, KeeperFetch(a) PROVE OffIInv'
<1> USE DEF TradingIInv
<1> DEFINE new == {r \in FirstOf(armed_orders) : rows[r].payload}
<1>1. /\ OffIInv /\ UNCHANGED <<issued, rows, frozen, sent, quiet, faults>> /\ ledger'.fills = ledger.fills
      /\ keeper' = [keeper EXCEPT ![a].batch = new] /\ keeper[a] = Resting
      /\ keeper \in [Keepers -> Run]
  BY DEF OffIInv, ServerTypeOK, KeeperFetch, v3vars
<1>2. new \subseteq Rows /\ \A r \in new : Placed(r)
  BY DEF FirstOf, armed_orders, OffIInv, QuietAreOver, Placed
<1> HIDE DEF new
<1>3. keeper' \in [Keepers -> Run]
  BY <1>1, <1>2 DEF Run
<1>4. /\ keeper'[a].batch = new /\ keeper'[a].row = NoRow
      /\ \A b \in Keepers : b # a => keeper'[b] = keeper[b]
  BY <1>1 DEF Resting, Run
<1>5. \A r \in Rows : Placed(r)' <=> Placed(r)
  BY <1>1 DEF Placed
<1>6. \A b \in Keepers : keeper'[b].batch \subseteq Rows /\ keeper'[b].row \in Rows \cup {NoRow}
  BY <1>3 DEF Run
<1>7. HeldArePlaced'
  BY <1>1, <1>2, <1>4, <1>5, <1>6 DEF OffIInv, HeldArePlaced
<1> QED
  BY <1>1, <1>3, <1>7, SameTxs, FaultBound, NothingRecorded

LEMMA PickStep == ASSUME TradingIInv, NEW a \in Keepers, KeeperPick(a) PROVE OffIInv'
<1> USE DEF TradingIInv
<1>1. /\ OffIInv /\ UNCHANGED <<issued, rows, frozen, sent, quiet, faults>> /\ ledger'.fills = ledger.fills
      /\ keeper \in [Keepers -> Run] /\ keeper[a].row = NoRow
  BY DEF OffIInv, ServerTypeOK, KeeperPick, v3vars
<1>2. PICK r \in keeper[a].batch :
        LET rest == [keeper[a] EXCEPT !.batch = @ \ {r}] IN
        \/ keeper' = [keeper EXCEPT ![a] = rest]
        \/ \E k \in Keys : keeper' = [keeper EXCEPT ![a] = [rest EXCEPT !.row = r, !.key = k]]
  BY DEF KeeperPick, get_session, Active
<1> DEFINE rest == [keeper[a] EXCEPT !.batch = @ \ {r}]
<1>3. rest \in Run /\ rest.batch \subseteq keeper[a].batch /\ rest.row = NoRow /\ r \in Rows
  BY <1>1 DEF Run
<1>4. CASE keeper' = [keeper EXCEPT ![a] = rest]
  <2>1. keeper' \in [Keepers -> Run] /\ HeldArePlaced'
    BY <1>1, <1>3, <1>4, LessHeld
  <2> QED
    BY <1>1, <2>1, SameTxs, FaultBound, NothingRecorded
<1>5. ASSUME NEW k \in Keys, keeper' = [keeper EXCEPT ![a] = [rest EXCEPT !.row = r, !.key = k]]
      PROVE  OffIInv'
  <2> DEFINE run == [rest EXCEPT !.row = r, !.key = k]
  <2>1. run \in Run /\ run.batch \subseteq keeper[a].batch /\ run.row = r /\ run.key = k
    BY <1>1, <1>3 DEF Run
  <2> HIDE DEF run
  <2>2. keeper' = [keeper EXCEPT ![a] = run]
    BY <1>5 DEF run
  <2>3. keeper' \in [Keepers -> Run] /\ HeldArePlaced'
    BY <1>1, <2>1, <2>2, LessHeld
  <2> QED
    BY <1>1, <2>3, SameTxs, FaultBound, NothingRecorded
<1> QED
  BY <1>2, <1>4, <1>5

(* A keeper that is done with its order goes on with the rest of its batch.       *)
LEMMA DoneHolds ==
    ASSUME OffIInv, UNCHANGED <<rows, quiet>>, NEW a \in Keepers, keeper' = Done(a)
    PROVE  keeper' \in [Keepers -> Run] /\ HeldArePlaced'
<1> DEFINE run == [batch |-> keeper[a].batch, row |-> NoRow, key |-> NoKey, waiting |-> FALSE]
<1>1. keeper \in [Keepers -> Run]
  BY DEF OffIInv, ServerTypeOK
<1>2. keeper' = [keeper EXCEPT ![a] = run]
  BY <1>1 DEF Done
<1>3. run \in Run
  BY <1>1 DEF Run
<1> QED
  BY <1>2, <1>3, LessHeld

LEMMA SendStep == ASSUME TradingIInv, NEW a \in Keepers, KeeperSend(a) PROVE OffIInv'
<1> USE DEF TradingIInv
<1> DEFINE r == keeper[a].row
           k == keeper[a].key
           tx == [by |-> a, row |-> r, key |-> k, status |-> "pending"]
<1>1. /\ OffIInv /\ UNCHANGED <<issued, rows, frozen, quiet>> /\ ledger'.fills = ledger.fills
      /\ keeper \in [Keepers -> Run] /\ r # NoRow
  BY DEF OffIInv, ServerTypeOK, KeeperSend, v3vars
<1>2. \/ /\ sent' = sent \cup {tx} /\ faults' = faults
         /\ keeper' = [keeper EXCEPT ![a].waiting = TRUE]
      \/ /\ sent' = sent /\ keeper' = Done(a)
         /\ Fault \/ faults' = faults
  BY DEF KeeperSend
<1>3. faults' \in 0..MaxFaults
  BY <1>1, <1>2, FaultBound
<1>4. CASE keeper' = Done(a) /\ sent' = sent
  <2>1. keeper' \in [Keepers -> Run] /\ HeldArePlaced'
    BY <1>1, <1>4, DoneHolds
  <2> QED
    BY <1>1, <1>3, <1>4, <2>1, SameTxs, NothingRecorded
<1>5. CASE sent' = sent \cup {tx} /\ keeper' = [keeper EXCEPT ![a].waiting = TRUE]
  <2>1. r \in Rows /\ k \in Keys /\ Placed(r)
    BY <1>1 DEF OffIInv, HeldArePlaced, Run
  <2>2. tx \in Tx /\ tx.row = r /\ tx.status = "pending"
    BY <2>1 DEF Tx
  <2> DEFINE run == [keeper[a] EXCEPT !.waiting = TRUE]
  <2>3. /\ run \in Run /\ run.batch = keeper[a].batch /\ run.row = r /\ run.key = k
        /\ keeper' = [keeper EXCEPT ![a] = run]
    BY <1>1, <1>5 DEF Run
  <2> HIDE DEF run
  <2>4. keeper' \in [Keepers -> Run] /\ HeldArePlaced'
    BY <1>1, <2>1, <2>3, LessHeld
  <2>5. sent' \subseteq Tx /\ \A t \in sent' : Placed(t.row) /\ (t.status = "ok" => Filled(t.row))
    BY <1>1, <1>5, <2>1, <2>2, SameTxs
  <2> QED
    BY <1>1, <1>3, <2>4, <2>5, NothingRecorded
<1> QED
  BY <1>2, <1>4, <1>5

LEMMA LoseStep ==
    ASSUME TradingIInv, NEW a \in Keepers, KeeperLosesAnswer(a) \/ Crash(a)
    PROVE  OffIInv'
<1> USE DEF TradingIInv
<1>1. /\ OffIInv /\ UNCHANGED <<issued, rows, frozen, quiet>> /\ ledger'.fills = ledger.fills
      /\ Fault /\ sent' = Orphaned(a)
      /\ keeper' = Done(a) \/ keeper' = [keeper EXCEPT ![a] = Resting]
  BY DEF KeeperLosesAnswer, Crash, v3vars
<1>2. Resting \in Run /\ Resting.batch = {} /\ Resting.row = NoRow
  BY DEF Resting, Run
<1>3. keeper' \in [Keepers -> Run] /\ HeldArePlaced'
  <2>1. CASE keeper' = Done(a)
    BY <1>1, <2>1, DoneHolds
  <2>2. CASE keeper' = [keeper EXCEPT ![a] = Resting]
    BY <1>1, <1>2, <2>2, LessHeld
  <2> QED
    BY <1>1, <2>1, <2>2
<1> QED
  BY <1>1, <1>3, OrphanedTxs, FaultBound, NothingRecorded

(* A receipt is recorded as it is: the transaction of a row reported executed was  *)
(* mined, and its row was not cancelled before a keeper had it.                   *)
LEMMA ReceiptStep == ASSUME TradingIInv, NEW a \in Keepers, KeeperReceipt(a) PROVE OffIInv'
<1> USE DEF TradingIInv
<1>1. PICK t \in sent : /\ rows' = IF Receipt(t) THEN Recorded(t.row) ELSE rows
                        /\ sent' = sent \ {t}
  BY DEF KeeperReceipt
<1>2. /\ OffIInv /\ UNCHANGED <<issued, frozen, quiet, faults>> /\ ledger'.fills = ledger.fills
      /\ keeper' = Done(a)
      /\ rows \in [Rows -> Row] /\ keeper \in [Keepers -> Run]
  BY DEF OffIInv, ServerTypeOK, KeeperReceipt, v3vars
<1>3. /\ t.row \in Rows /\ t.status = "ok" => Filled(t.row)
      /\ Placed(t.row)
  BY DEF OffIInv, ServerTypeOK, SentArePlaced, ReceiptsAreTrue, Tx
<1>4. rows' \in [Rows -> Row]
  BY <1>1, <1>2, <1>3 DEF Recorded, Row
<1>5. \A r \in Rows : /\ rows'[r].payload = rows[r].payload
                      /\ \/ rows'[r].status = rows[r].status
                         \/ r = t.row /\ Filled(r) /\ rows'[r].status = "executed"
  BY <1>1, <1>2, <1>3 DEF Recorded, Receipt, Row
<1>6. \A r \in Rows : Placed(r) => Placed(r)'
  BY <1>2, <1>5 DEF Placed
<1>7. \A r \in Rows : Filled(r)' <=> Filled(r)
  BY <1>2, SameFills
<1> DEFINE run == [batch |-> keeper[a].batch, row |-> NoRow, key |-> NoKey, waiting |-> FALSE]
<1>8. run \in Run /\ keeper' = [keeper EXCEPT ![a] = run] /\ run.batch = keeper[a].batch /\ run.row = NoRow
  BY <1>2 DEF Done, Run
<1> HIDE DEF run
<1>9. keeper' \in [Keepers -> Run]
  BY <1>2, <1>8
<1>10. HeldArePlaced'
  <2>1. \A b \in Keepers : keeper'[b] = IF b = a THEN run ELSE keeper[b]
    BY <1>2, <1>8
  <2>2. \A b \in Keepers : keeper[b].batch \subseteq Rows /\ keeper[b].row \in Rows \cup {NoRow}
    BY <1>2 DEF Run
  <2> QED
    BY <1>2, <1>6, <1>8, <2>1, <2>2 DEF OffIInv, HeldArePlaced
<1>11. ServerTypeOK' /\ IssuedForGrants'
  BY <1>1, <1>2, <1>4, <1>9 DEF OffIInv, ServerTypeOK, IssuedForGrants
<1>12. \A s \in sent' : s \in sent /\ s.row \in Rows
  BY <1>1 DEF OffIInv, ServerTypeOK, Tx
<1>13. SentArePlaced' /\ ReceiptsAreTrue'
  BY <1>6, <1>7, <1>12 DEF OffIInv, SentArePlaced, ReceiptsAreTrue
<1>14. QuietAreOver'
  BY <1>2, <1>3, <1>5 DEF OffIInv, ServerTypeOK, QuietAreOver, Placed
<1>15. ExecutedIsFilled' /\ OnlyPlacedOrdersFill'
  BY <1>2, <1>5, <1>7 DEF OffIInv, ExecutedIsFilled, OnlyPlacedOrdersFill
<1> QED
  BY <1>10, <1>11, <1>13, <1>14, <1>15 DEF OffIInv

(* Only transactions keepers sent are mined, so only placed orders are filled.    *)
LEMMA MineStep == ASSUME TradingIInv, NEW t \in sent, Mine(t) PROVE OffIInv'
<1> USE DEF TradingIInv
<1>1. /\ OffIInv /\ t \in Tx /\ t.row \in Rows /\ t.key \in Keys /\ Placed(t.row)
      /\ sent \subseteq Tx /\ keeper \in [Keepers -> Run]
  BY DEF OffIInv, ServerTypeOK, SentArePlaced, Tx
<1>2. UNCHANGED <<issued, rows, frozen, keeper, quiet>> /\ faults' \in 0..MaxFaults
  BY FaultBound DEF Mine, MineFill, MineRevert
<1>3. \A r \in Rows : Placed(r)' <=> Placed(r)
  BY <1>2 DEF Placed
<1>4. /\ \A r \in Rows : Filled(r) => Filled(r)'
      /\ \A r \in Rows : Filled(r)' => Filled(r) \/ r = t.row
      /\ \E st \in {"ok", "failed"} : Settle(t, st) /\ (st = "ok" => Filled(t.row)')
  <2>1. CASE MineFill(t)
    BY <1>1, <2>1, FillEffect DEF MineFill
  <2>2. CASE MineRevert(t)
    <3>1. ledger' = ledger /\ Settle(t, "failed")
      BY <2>2 DEF MineRevert, v3vars
    <3> QED
      BY <3>1, SameFills
  <2> QED
    BY <2>1, <2>2 DEF Mine
<1>5. PICK st \in {"ok", "failed"} : Settle(t, st) /\ (st = "ok" => Filled(t.row)')
  BY <1>4
<1>6. ASSUME NEW s \in sent'
      PROVE  s \in Tx /\ Placed(s.row) /\ (s.status = "ok" => Filled(s.row)')
  <2>1. s \in sent \/ s = [t EXCEPT !.status = st]
    BY <1>5, <1>6 DEF Settle
  <2>2. CASE s \in sent
    BY <1>1, <1>4, <2>2 DEF OffIInv, SentArePlaced, ReceiptsAreTrue, Tx
  <2>3. CASE s = [t EXCEPT !.status = st]
    <3>1. s \in Tx /\ s.row = t.row /\ s.status = st
      BY <1>1, <2>3 DEF Tx
    <3> QED
      BY <1>1, <1>5, <3>1
  <2> QED
    BY <2>1, <2>2, <2>3
<1>7. ServerTypeOK' /\ IssuedForGrants' /\ QuietAreOver'
  BY <1>1, <1>2, <1>6 DEF OffIInv, ServerTypeOK, IssuedForGrants, QuietAreOver
<1>8. HeldArePlaced'
  <2>1. \A b \in Keepers : keeper[b].batch \subseteq Rows /\ keeper[b].row \in Rows \cup {NoRow}
    BY <1>1 DEF Run
  <2> QED
    BY <1>2, <1>3, <2>1 DEF OffIInv, HeldArePlaced
<1>9. SentArePlaced' /\ ReceiptsAreTrue'
  BY <1>3, <1>6 DEF SentArePlaced, ReceiptsAreTrue, Tx
<1>10. ExecutedIsFilled'
  BY <1>2, <1>4 DEF OffIInv, ExecutedIsFilled
<1>11. OnlyPlacedOrdersFill'
  BY <1>1, <1>2, <1>4 DEF OffIInv, OnlyPlacedOrdersFill, Placed
<1> QED
  BY <1>7, <1>8, <1>9, <1>10, <1>11 DEF OffIInv

-----------------------------------------------------------------------------
(* The invariant and what it gives                                               *)

LEMMA TradingInductive == ASSUME TradingIInv, [TradingNext]_tvars PROVE TradingIInv'
<1>1. IInv'
  BY ImplementsStep, Inductive DEF TradingIInv
<1>2. CASE UNCHANGED tvars
  <2>1. UNCHANGED <<rows, keeper, sent, quiet, faults, issued, frozen>> /\ ledger'.fills = ledger.fills
    BY <1>2 DEF tvars, offchain, v3vars
  <2>2. issued' \in [Keys -> IssuedKey] /\ frozen' \subseteq Users /\ IssuedForGrants'
    BY <2>1 DEF TradingIInv, OffIInv, ServerTypeOK, IssuedForGrants
  <2>3. OffIInv'
    BY <2>1, <2>2, TableUntouched DEF TradingIInv
  <2> QED
    BY <1>1, <2>3 DEF TradingIInv
<1>3. CASE Server
  <2>1. OffIInv'
    BY <1>3, SessionSteps, FreezeStep, CreateStep, CancelRowStep DEF Server
  <2> QED
    BY <1>1, <2>1 DEF TradingIInv
<1>4. CASE OnChain /\ UNCHANGED offchain
  BY <1>1, <1>4, WalletStep DEF TradingIInv
<1>5. ASSUME NEW a \in Keepers, KeeperFetch(a) \/ KeeperRun(a) \/ KeeperLosesAnswer(a) \/ Crash(a)
      PROVE  TradingIInv'
  <2>1. OffIInv'
    BY <1>5, FetchStep, PickStep, SendStep, ReceiptStep, LoseStep DEF KeeperRun
  <2> QED
    BY <1>1, <2>1 DEF TradingIInv
<1>6. ASSUME NEW t \in sent, Mine(t) PROVE TradingIInv'
  BY <1>1, <1>6, MineStep DEF TradingIInv
<1> QED
  BY <1>2, <1>3, <1>4, <1>5, <1>6 DEF TradingNext

LEMMA TradingInvariance == TradingSpec => []TradingIInv
<1>1. TradingInit => TradingIInv
  BY TradingInitOff
<1>2. TradingIInv /\ [TradingNext]_tvars => TradingIInv'
  BY TradingInductive
<1> QED
  BY <1>1, <1>2, PTL DEF TradingSpec

-----------------------------------------------------------------------------
(* What wallets pay: a step moves funds only by filling a row, and a row that is  *)
(* filled was not filled before.                                                 *)

LEMMA OnlyFillsMove ==
    ASSUME TradingIInv, [TradingNext]_tvars
    PROVE  \/ bal' = bal /\ ledger'.fills = ledger.fills
           \/ \E k \in Keys, r \in Rows : executeWithSession(k, OrderOf[r])
<1>1. IInv /\ sent \subseteq Tx
  BY DEF TradingIInv, OffIInv, ServerTypeOK
<1>2. CASE UNCHANGED v3vars
  BY <1>2 DEF v3vars
<1>3. ASSUME NEW k \in Keys, Authorize(k) PROVE bal' = bal /\ ledger'.fills = ledger.fills
  BY <1>1, <1>3 DEF Authorize, authorizeSession, IInv, TypeOK, Ledger
<1>4. CASE OnChain
  BY <1>1, <1>4, NothingFilledByWallets DEF OnChain, revokeSession, cancelOrder, Tick
<1>5. ASSUME NEW t \in sent, MineFill(t) PROVE \E k \in Keys, r \in Rows : executeWithSession(k, OrderOf[r])
  BY <1>1, <1>5 DEF MineFill, Tx
<1>6. ASSUME NEW t \in sent, MineRevert(t) PROVE UNCHANGED v3vars
  BY <1>6 DEF MineRevert
<1>7. CASE Server
  <2>1. (\E k \in Keys : Authorize(k)) \/ UNCHANGED v3vars
    BY <1>7 DEF Server, save_session, revoke_session, create_preorder, save_sig_payload, cancel_preorder, set_frozen
  <2> QED
    BY <2>1, <1>2, <1>3
<1>8. ASSUME NEW a \in Keepers, KeeperFetch(a) \/ KeeperRun(a) \/ KeeperLosesAnswer(a) \/ Crash(a)
      PROVE  UNCHANGED v3vars
  BY <1>8 DEF KeeperFetch, KeeperRun, KeeperPick, KeeperSend, KeeperReceipt, KeeperLosesAnswer, Crash
<1> QED
  BY <1>2, <1>4, <1>5, <1>6, <1>7, <1>8 DEF TradingNext, tvars, Mine

PaidPairs(u, t) == {<<r, OrderOf[r].amountIn>> : r \in PaidFor(u, t)}

LEMMA PaidPairsFinite ==
    ASSUME NEW S \in SUBSET Rows, NEW P, P = {<<r, OrderOf[r].amountIn>> : r \in S}
    PROVE  P \in SUBSET (Rows \X Nat) /\ IsFiniteSet(P)
<1> DEFINE f == [r \in S |-> <<r, OrderOf[r].amountIn>>]
<1>1. IsFiniteSet(S)
  BY RowsHaveOrders, FS_Subset
<1>2. P = {f[r] : r \in S}
  OBVIOUS
<1>3. P \in SUBSET (Rows \X Nat)
  BY RowsHaveOrders, SignedData DEF SessionOrder
<1> HIDE DEF f
<1>4. IsFiniteSet(P)
  BY <1>1, <1>2, FiniteImage
<1> QED
  BY <1>3, <1>4

LEMMA InitPaid == TradingInit => PaysOncePerOrder
<1> SUFFICES ASSUME TradingInit, NEW u \in Users, NEW t \in Tokens
             PROVE  InitBal[t][u] - bal[t][u] <= TotalOnce(PaidPairs(u, t))
  BY DEF PaysOncePerOrder, PaidPairs
<1>1. InitBal[t][u] = bal[t][u] /\ InitBal[t][u] \in Nat
  BY HolderKinds, SignedData DEF TradingInit, Init
<1>2. PaidFor(u, t) \in SUBSET Rows
  BY DEF PaidFor
<1>3. TotalOnce(PaidPairs(u, t)) \in Nat
  <2>1. PaidPairs(u, t) \in SUBSET (Rows \X Nat) /\ IsFiniteSet(PaidPairs(u, t))
    BY <1>2, PaidPairsFinite DEF PaidPairs
  <2> QED
    BY <2>1, TotalOnceGrows
<1> QED
  BY <1>1, <1>3

LEMMA PaidStep == ASSUME TradingIInv, PaysOncePerOrder, [TradingNext]_tvars PROVE PaysOncePerOrder'
<1> SUFFICES ASSUME NEW u \in Users, NEW t \in Tokens
             PROVE  InitBal[t][u] - bal'[t][u] <= TotalOnce(PaidPairs(u, t))'
  BY DEF PaysOncePerOrder, PaidPairs
<1>1. InitBal[t][u] - bal[t][u] <= TotalOnce(PaidPairs(u, t))
  BY DEF PaysOncePerOrder, PaidPairs
<1>2. CASE bal' = bal /\ ledger'.fills = ledger.fills
  <2>1. PaidPairs(u, t)' = PaidPairs(u, t)
    BY <1>2, SameFills DEF PaidPairs, PaidFor
  <2> QED
    BY <1>1, <1>2, <2>1 DEF TotalOnce, Once
<1>3. ASSUME NEW k \in Keys, NEW r \in Rows, executeWithSession(k, OrderOf[r])
      PROVE  InitBal[t][u] - bal'[t][u] <= TotalOnce(PaidPairs(u, t))'
  <2> DEFINE o == OrderOf[r]
             mine == u = o.user /\ t = TokenIn(o.pool, o.zeroForOne)
             P == PaidPairs(u, t)
             Q == PaidPairs(u, t)'
             q == <<r, o.amountIn>>
  <2>1. IInv /\ IInv'
    BY TradingInductive DEF TradingIInv
  <2>2. /\ o \in SessionOrders /\ o.user \in Users /\ o.pool \in Pools /\ o.zeroForOne \in BOOLEAN
        /\ o.amountIn \in Nat /\ o.minOut \in Nat /\ o.recipient \in Users /\ o.orderNonce \in Nonces
    BY OrderOfRow, SignedData DEF SessionOrder
  <2>3. bal'[t][u] >= bal[t][u] - (IF mine THEN o.amountIn ELSE 0)
    <3>1. PICK taken \in 0..o.amountIn, out \in 0..MaxOut :
            _swapAndSettle(o.user, o.pool, o.zeroForOne, o.amountIn, taken, out, o.recipient, o.minOut)
      BY <1>3 DEF executeWithSession
    <3> QED
      BY <2>1, <2>2, <3>1, FillFunds
  <2>4. Filled(r)' /\ ~Filled(r) /\ \A x \in Rows : Filled(x) => Filled(x)'
    <3>1. o.orderNonce \notin orderNonceUsed[o.user]
      BY <1>3 DEF executeWithSession
    <3>2. ~Filled(r)
      BY <2>1, <2>2, <3>1 DEF IInv, NoncesRecorded, Filled
    <3> QED
      BY <1>3, <2>1, <3>2, FillEffect
  <2>5. PaidFor(u, t) \in SUBSET Rows /\ PaidFor(u, t)' \in SUBSET Rows
        /\ PaidFor(u, t) \in SUBSET PaidFor(u, t)'
    BY <2>4 DEF PaidFor
  <2>6. Q \in SUBSET (Rows \X Nat) /\ IsFiniteSet(Q) /\ P \in SUBSET Q
    <3>1. Q = {<<x, OrderOf[x].amountIn>> : x \in PaidFor(u, t)'}
      BY DEF PaidPairs
    <3>2. P = {<<x, OrderOf[x].amountIn>> : x \in PaidFor(u, t)}
      BY DEF PaidPairs
    <3>3. P \in SUBSET Q
      BY <2>5, <3>1, <3>2
    <3> QED
      BY <2>5, <3>1, <3>3, PaidPairsFinite
  <2>7. bal[t][u] \in Int /\ bal'[t][u] \in Int /\ InitBal[t][u] \in Int
    BY <2>1, HolderKinds, SignedData DEF IInv, TypeOK
  <2>8. CASE mine
    <3>1. q \in Q /\ \A p \in P : p[1] # q[1]
      BY <2>4, <2>8 DEF PaidPairs, PaidFor
    <3>2. q[2] = o.amountIn
      OBVIOUS
    <3> HIDE DEF P, Q, q
    <3>3. TotalOnce(P) + q[2] <= TotalOnce(Q) /\ TotalOnce(P) \in Nat /\ TotalOnce(Q) \in Nat
      BY <2>6, <3>1, TotalOnceNew, TotalOnceGrows
    <3>4. InitBal[t][u] - bal[t][u] <= TotalOnce(P)
      BY <1>1 DEF P
    <3>5. InitBal[t][u] - bal'[t][u] <= TotalOnce(Q)
      BY <2>2, <2>3, <2>7, <2>8, <3>2, <3>3, <3>4
    <3>6. TotalOnce(PaidPairs(u, t))' = TotalOnce(Q)
      BY DEF Q, TotalOnce, Once
    <3> QED
      BY <3>5, <3>6
  <2>9. CASE ~mine
    <3> HIDE DEF P, Q
    <3>1. TotalOnce(P) <= TotalOnce(Q) /\ TotalOnce(P) \in Nat /\ TotalOnce(Q) \in Nat
      BY <2>6, TotalOnceGrows
    <3>2. InitBal[t][u] - bal[t][u] <= TotalOnce(P)
      BY <1>1 DEF P
    <3>3. InitBal[t][u] - bal'[t][u] <= TotalOnce(Q)
      BY <2>3, <2>7, <2>9, <3>1, <3>2
    <3>4. TotalOnce(PaidPairs(u, t))' = TotalOnce(Q)
      BY DEF Q, TotalOnce, Once
    <3> QED
      BY <3>3, <3>4
  <2> QED
    BY <2>8, <2>9
<1> QED
  BY <1>2, <1>3, OnlyFillsMove

(* With keepers that take no claim on a row, several of them submitting it and    *)
(* answers lost, a wallet pays for each order at most once.                       *)
THEOREM EachOrderPaidOnce == TradingSpec => []PaysOncePerOrder
<1>1. TradingInit => PaysOncePerOrder
  BY InitPaid
<1>2. TradingIInv /\ PaysOncePerOrder /\ [TradingNext]_tvars => PaysOncePerOrder'
  BY PaidStep
<1> QED
  BY <1>1, <1>2, TradingInvariance, PTL DEF TradingSpec

(* Server, keepers and chain together use the contract only in ways the contract  *)
(* specifies: what is proved of it for any users and keys holds here.             *)
THEOREM TradingImplementsExecutor == TradingSpec => V3Spec
<1>1. TradingInit => Init
  BY DEF TradingInit
<1>2. TradingIInv /\ [TradingNext]_tvars => [V3Next]_v3vars
  BY ImplementsStep
<1> QED
  BY <1>1, <1>2, TradingInvariance, PTL DEF TradingSpec, V3Spec

(* Every record of the server, the keepers and the chain keeps its type.          *)
THEOREM TradingTypeCorrect == TradingSpec => []TradingTypeOK
<1>1. TradingIInv => TradingTypeOK
  BY DEF TradingIInv, OffIInv, ServerTypeOK, IInv, TradingTypeOK
<1> QED
  BY <1>1, TradingInvariance, PTL

(* A row reported executed was filled, with any number of keepers submitting it,   *)
(* answers lost and keepers stopped at any step.                                  *)
THEOREM ExecutedTellsTheTruth == TradingSpec => []ExecutedIsFilled
<1>1. TradingIInv => ExecutedIsFilled
  BY DEF TradingIInv, OffIInv
<1> QED
  BY <1>1, TradingInvariance, PTL

(* Keepers fill only orders that were placed with an intent and not cancelled      *)
(* before any keeper had them.                                                    *)
THEOREM OnlyPlacedFill == TradingSpec => []OnlyPlacedOrdersFill
<1>1. TradingIInv => OnlyPlacedOrdersFill
  BY DEF TradingIInv, OffIInv
<1> QED
  BY <1>1, TradingInvariance, PTL

(* The budget and floor of a session bind its key also when the server signs and   *)
(* several keepers submit.                                                        *)
THEOREM TradingSessionsStayInScope == TradingSpec => []SessionWithinGrant
BY TradingImplementsExecutor, SessionsStayInScope
=============================================================================
