---------------------------- MODULE Market_proofs ----------------------------
(* The staking vault, the bonding curve, the cross-chain executor and the yield *)
(* vault keep their promises for any parties, amounts, rates and prices.        *)
EXTENDS MCMarket, Totals_proofs

LEMMA SameTotal ==
    ASSUME NEW f
    PROVE  /\ Staking!Total(f) = Total(f) /\ Curve!Total(f) = Total(f)
           /\ Bridge!Total(f) = Total(f) /\ Yield!Total(f) = Total(f)
<1>1. /\ Staking!Units(f) = Units(f) /\ Curve!Units(f) = Units(f)
      /\ Bridge!Units(f) = Units(f) /\ Yield!Units(f) = Units(f)
  BY Zenon DEF Staking!Units, Curve!Units, Bridge!Units, Yield!Units, Units
<1> QED
  BY <1>1, Zenon DEF Staking!Total, Curve!Total, Bridge!Total, Yield!Total, Total, Cardinality,
     Staking!Cardinality, Curve!Cardinality, Bridge!Cardinality, Yield!Cardinality

-----------------------------------------------------------------------------
(* The yield vault *)

YieldInv == Yield!YieldTypeOK /\ strategy \in {"none", "first", "second"} /\ drift \in Nat

(* What everyone's shares add up to is at least what one has. *)
LEMMA YieldSupply ==
    ASSUME YieldInv
    PROVE  /\ Yield!supply = Total(vault_shares) /\ Yield!supply \in Nat /\ Yield!totalAssets \in Nat
           /\ \A u \in Depositors : vault_shares[u] \in Nat /\ vault_shares[u] <= Yield!supply
<1>1. /\ vault_shares \in [Depositors -> Nat] /\ balance \in Nat /\ strategies[strategy] \in Nat
      /\ IsFiniteSet(Depositors)
  BY YieldNumbers DEF YieldInv, Yield!YieldTypeOK
<1>2. Yield!supply = Total(vault_shares)
  BY SameTotal DEF Yield!supply
<1>3. ASSUME NEW u \in Depositors
      PROVE  vault_shares[u] \in Nat /\ vault_shares[u] <= Total(vault_shares)
  <2>1. vault_shares[u] \in Nat
    BY <1>1
  <2> QED
    BY <1>1, <2>1, TotalUpdate
<1>4. Total(vault_shares) \in Nat
  BY <1>1, TotalType
<1> QED
  BY <1>1, <1>2, <1>3, <1>4 DEF Yield!totalAssets

(* Shares of one holder change: how the supply does. *)
LEMMA SharesMove ==
    ASSUME YieldInv, NEW u \in Depositors, NEW w \in Nat,
           vault_shares' = [vault_shares EXCEPT ![u] = w]
    PROVE  /\ vault_shares' \in [Depositors -> Nat]
           /\ Yield!supply' = Yield!supply - vault_shares[u] + w
<1>1. vault_shares \in [Depositors -> Nat] /\ IsFiniteSet(Depositors)
  BY YieldNumbers DEF YieldInv, Yield!YieldTypeOK
<1>2. Total(vault_shares') = Total(vault_shares) - vault_shares[u] + w
  BY <1>1, TotalUpdate
<1>3. Yield!supply' = Total(vault_shares')
  BY SameTotal DEF Yield!supply
<1> QED
  BY <1>1, <1>2, <1>3, YieldSupply

LEMMA ConvertType ==
    ASSUME YieldInv, NEW n \in Nat
    PROVE  /\ Yield!Convertible => Yield!convertToShares(n) \in Nat
           /\ Yield!convertToAssets(n) \in Nat
           /\ Yield!Convertible /\ Yield!supply # 0 =>
                /\ Yield!convertToShares(n) * Yield!totalAssets <= n * Yield!supply
                /\ n * Yield!supply <= Yield!convertToShares(n) * Yield!totalAssets + Yield!totalAssets
           /\ Yield!supply # 0 => Yield!convertToAssets(n) * Yield!supply <= n * Yield!totalAssets
<1>1. PICK S \in Nat, A \in Nat : S = Yield!supply /\ A = Yield!totalAssets
  BY YieldSupply
<1>2. n * S \in Nat /\ n * A \in Nat
  BY MulNat
<1>3. ASSUME S # 0, A > 0
      PROVE  LET q == (n * S) \div A IN q \in Nat /\ q * A <= n * S /\ n * S <= q * A + A
  <2> DEFINE q == (n * S) \div A
             m == n * S
  <2>1. m \in Nat
    BY <1>2
  <2> HIDE DEF m
  <2>2. m \div A \in Nat /\ (m \div A) * A <= m /\ m <= (m \div A) * A + A
    BY <1>3, <2>1
  <2> QED
    BY <2>2 DEF m
<1>4. ASSUME S # 0 PROVE (n * A) \div S \in Nat /\ ((n * A) \div S) * S <= n * A
  BY <1>2, <1>4, DivNat
<1> QED
  BY <1>1, <1>3, <1>4 DEF Yield!Convertible, Yield!convertToShares, Yield!convertToAssets

(* What one share is worth times another's supply: no step takes more than the total     *)
(* assets, one share's part of each share.                                             *)
YieldKept == Yield!totalAssets * Yield!supply' <= Yield!totalAssets' * Yield!supply + Yield!totalAssets

LEMMA DepositKeeps ==
    ASSUME YieldInv, NEW u \in Depositors, NEW n \in Nat, Yield!deposit(u, n)
    PROVE  Yield!YieldTypeOK' /\ (Yield!supply # 0 => YieldKept)
<1>1. PICK S \in Nat, T \in Nat, q \in Nat :
          S = Yield!supply /\ T = Yield!totalAssets /\ q = Yield!convertToShares(n)
  BY YieldSupply, ConvertType DEF Yield!deposit
<1>2. vault_shares' = [vault_shares EXCEPT ![u] = vault_shares[u] + q] /\ vault_shares[u] \in Nat
  BY <1>1, YieldSupply DEF Yield!deposit
<1>3. vault_shares' \in [Depositors -> Nat] /\ Yield!supply' = S + q
  <2>0. vault_shares[u] + q \in Nat
    BY <1>2
  <2>1. Yield!supply' = Yield!supply - vault_shares[u] + (vault_shares[u] + q)
        /\ vault_shares' \in [Depositors -> Nat]
    BY <1>2, <2>0, SharesMove
  <2> QED
    BY <1>1, <1>2, <2>1
<1>4. Yield!YieldTypeOK' /\ Yield!totalAssets' = T + n
  BY <1>1, <1>3 DEF YieldInv, Yield!YieldTypeOK, Yield!deposit, Yield!totalAssets
<1>5. ASSUME S # 0 PROVE T * (S + q) <= (T + n) * S + T
  <2>1. q * T <= n * S
    BY <1>1, <1>5, ConvertType DEF Yield!deposit
  <2>2. T * (S + q) = T * S + q * T /\ (T + n) * S = T * S + n * S
    OBVIOUS
  <2>3. T * S \in Nat /\ q * T \in Nat /\ n * S \in Nat
    BY MulNat
  <2> QED
    BY <2>1, <2>2, <2>3
<1> QED
  BY <1>1, <1>3, <1>4, <1>5 DEF YieldKept

(* Shares are burnt and assets paid.                                                *)
LEMMA BurnMoves ==
    ASSUME YieldInv, NEW u \in Depositors, NEW n \in Nat, NEW a \in Nat, Yield!_burnAndPay(u, n, a)
    PROVE  /\ Yield!YieldTypeOK' /\ n <= Yield!supply /\ a <= Yield!totalAssets
           /\ Yield!supply' = Yield!supply - n /\ Yield!totalAssets' = Yield!totalAssets - a
<1>1. /\ vault_shares[u] \in Nat /\ vault_shares[u] <= Yield!supply /\ n <= vault_shares[u]
      /\ vault_shares' = [vault_shares EXCEPT ![u] = vault_shares[u] - n] /\ Yield!supply \in Nat
  BY YieldSupply DEF Yield!_burnAndPay
<1>2. vault_shares' \in [Depositors -> Nat] /\ Yield!supply' = Yield!supply - n
  <2>1. vault_shares[u] - n \in Nat
    BY <1>1
  <2>2. Yield!supply' = Yield!supply - vault_shares[u] + (vault_shares[u] - n)
        /\ vault_shares' \in [Depositors -> Nat]
    BY <1>1, <2>1, SharesMove
  <2> QED
    BY <1>1, <2>2
<1> DEFINE need == IF balance < a THEN a - balance ELSE 0
<1>3. /\ balance \in Nat /\ strategies \in [{"none", "first", "second"} -> Nat]
      /\ strategy \in {"none", "first", "second"} /\ strategies[strategy] \in Nat
  BY DEF YieldInv, Yield!YieldTypeOK
<1>4. need \in Nat /\ need <= strategies[strategy] /\ balance + need - a \in Nat
  BY <1>3 DEF Yield!_burnAndPay
<1>5. /\ strategies' = [strategies EXCEPT ![strategy] = strategies[strategy] - need]
      /\ balance' = balance + need - a /\ strategy' = strategy
  BY DEF Yield!_burnAndPay
<1> HIDE DEF need
<1>6. /\ strategies' \in [{"none", "first", "second"} -> Nat] /\ balance' \in Nat
      /\ strategies'[strategy'] = strategies[strategy] - need
  BY <1>3, <1>4, <1>5
<1>7. Yield!totalAssets' = Yield!totalAssets - a /\ a <= Yield!totalAssets
  BY <1>3, <1>4, <1>5, <1>6 DEF Yield!totalAssets
<1> QED
  BY <1>1, <1>2, <1>6, <1>7 DEF Yield!YieldTypeOK

LEMMA WithdrawKeeps ==
    ASSUME YieldInv, NEW u \in Depositors, NEW n \in Nat, Yield!withdraw(u, n)
    PROVE  Yield!YieldTypeOK' /\ (Yield!supply # 0 => YieldKept)
<1>1. PICK S \in Nat, T \in Nat, q \in Nat :
          S = Yield!supply /\ T = Yield!totalAssets /\ q = Yield!convertToShares(n)
  BY YieldSupply, ConvertType DEF Yield!withdraw
<1>2. /\ Yield!YieldTypeOK' /\ Yield!supply' = S - q /\ Yield!totalAssets' = T - n
      /\ q <= S /\ n <= T
  BY <1>1, BurnMoves DEF Yield!withdraw
<1>3. ASSUME S # 0 PROVE T * (S - q) <= (T - n) * S + T
  <2>1. n * S <= q * T + T
    BY <1>1, <1>3, ConvertType DEF Yield!withdraw
  <2>2. T * (S - q) = T * S - q * T /\ (T - n) * S = T * S - n * S
    OBVIOUS
  <2>3. T * S \in Nat /\ q * T \in Nat /\ n * S \in Nat
    BY MulNat
  <2> QED
    BY <2>1, <2>2, <2>3
<1> QED
  BY <1>1, <1>2, <1>3 DEF YieldKept

LEMMA RedeemKeeps ==
    ASSUME YieldInv, NEW u \in Depositors, NEW n \in Nat, Yield!redeem(u, n)
    PROVE  Yield!YieldTypeOK' /\ (Yield!supply # 0 => YieldKept)
<1>1. PICK S \in Nat, T \in Nat, a \in Nat :
          S = Yield!supply /\ T = Yield!totalAssets /\ a = Yield!convertToAssets(n)
  BY YieldSupply, ConvertType
<1>2. /\ Yield!YieldTypeOK' /\ Yield!supply' = S - n /\ Yield!totalAssets' = T - a
      /\ n <= S /\ a <= T
  BY <1>1, BurnMoves DEF Yield!redeem
<1>3. ASSUME S # 0 PROVE T * (S - n) <= (T - a) * S + T
  <2>1. a * S <= n * T
    BY <1>1, <1>3, ConvertType
  <2>2. T * (S - n) = T * S - n * T /\ (T - a) * S = T * S - a * S
    OBVIOUS
  <2>3. T * S \in Nat /\ n * T \in Nat /\ a * S \in Nat
    BY MulNat
  <2> QED
    BY <2>1, <2>2, <2>3
<1> QED
  BY <1>1, <1>2, <1>3 DEF YieldKept

(* Shares handed on and funds deployed or recalled change no price.                       *)
LEMMA HandKeeps ==
    ASSUME YieldInv, Yield!Hand
    PROVE  /\ Yield!YieldTypeOK' /\ Yield!supply' = Yield!supply
           /\ Yield!totalAssets' = Yield!totalAssets
<1>1. PICK u \in Depositors, to \in Depositors, n \in VaultAmounts :
          /\ u # to /\ n <= vault_shares[u]
          /\ vault_shares' = [vault_shares EXCEPT ![u] = @ - n, ![to] = @ + n]
  BY DEF Yield!Hand
<1>2. UNCHANGED <<balance, strategies, strategy>>
  BY DEF Yield!Hand
<1>3. n \in Nat /\ IsFiniteSet(Depositors) /\ vault_shares \in [Depositors -> Nat]
  BY YieldNumbers DEF YieldInv, Yield!YieldTypeOK
<1>4. vault_shares' \in [Depositors -> Nat] /\ Total(vault_shares') = Total(vault_shares)
  <2>1. vault_shares' = [vault_shares EXCEPT ![u] = vault_shares[u] - n, ![to] = vault_shares[to] + n]
    BY <1>1, <1>3
  <2>2. vault_shares[u] \in Nat /\ vault_shares[u] - n \in Nat /\ vault_shares[to] \in Nat
    BY <1>1, <1>3
  <2>3. vault_shares' \in [Depositors -> Nat]
    BY <1>3, <2>1, <2>2
  <2>4. /\ vault_shares'[u] + vault_shares'[to] = vault_shares[u] + vault_shares[to]
        /\ \A d \in Depositors \ {u, to} : vault_shares'[d] = vault_shares[d]
    BY <1>1, <1>3, <2>1, <2>2
  <2>5. /\ Total(vault_shares') = Total(vault_shares) - vault_shares[u] - vault_shares[to]
                                  + vault_shares'[u] + vault_shares'[to]
        /\ Total(vault_shares) \in Nat
    <3>1. PICK f, h : f = vault_shares /\ h = vault_shares'
      OBVIOUS
    <3>2. /\ f \in [Depositors -> Nat] /\ h \in [Depositors -> Nat] /\ IsFiniteSet(Depositors) /\ u # to
          /\ \A d \in Depositors \ {u, to} : h[d] = f[d]
      BY <1>1, <1>3, <2>3, <2>4, <3>1
    <3>3. Total(h) = Total(f) - f[u] - f[to] + h[u] + h[to] /\ Total(f) \in Nat
      BY <3>2, TotalMove
    <3> QED
      BY <3>1, <3>3
  <2> QED
    BY <1>1, <1>3, <2>1, <2>2, <2>3, <2>5
<1>5. Yield!supply = Total(vault_shares) /\ Yield!supply' = Total(vault_shares')
  BY SameTotal DEF Yield!supply
<1> QED
  BY <1>2, <1>4, <1>5 DEF YieldInv, Yield!YieldTypeOK, Yield!totalAssets

LEMMA ManagerKeeps ==
    ASSUME YieldInv, Yield!Manager
    PROVE  /\ Yield!YieldTypeOK' /\ Yield!supply' = Yield!supply
           /\ Yield!totalAssets' = Yield!totalAssets /\ strategy' = strategy
<1>1. PICK n \in VaultAmounts : Yield!deployToStrategy(n) \/ Yield!recallFromStrategy(n)
  BY DEF Yield!Manager
<1>2. /\ n \in Nat /\ balance \in Nat /\ strategies \in [{"none", "first", "second"} -> Nat]
      /\ strategy \in {"none", "first", "second"} /\ strategies[strategy] \in Nat
      /\ vault_shares \in [Depositors -> Nat]
  BY YieldNumbers DEF YieldInv, Yield!YieldTypeOK
<1>3. strategy' = strategy /\ vault_shares' = vault_shares
  BY <1>1 DEF Yield!deployToStrategy, Yield!recallFromStrategy
<1>4. Yield!supply' = Yield!supply
  BY <1>3, SameTotal DEF Yield!supply, Total, Units
<1>5. CASE Yield!deployToStrategy(n)
  <2>1. /\ n <= balance /\ balance' = balance - n
        /\ strategies' = [strategies EXCEPT ![strategy] = strategies[strategy] + n]
    BY <1>5 DEF Yield!deployToStrategy
  <2>2. balance' \in Nat /\ strategies' \in [{"none", "first", "second"} -> Nat]
        /\ strategies'[strategy'] = strategies[strategy] + n
    BY <1>2, <1>3, <2>1
  <2>3. Yield!totalAssets' = Yield!totalAssets
    BY <1>2, <2>1, <2>2 DEF Yield!totalAssets
  <2> QED
    BY <1>2, <1>3, <1>4, <2>2, <2>3 DEF Yield!YieldTypeOK
<1>6. CASE Yield!recallFromStrategy(n)
  <2>1. /\ n <= strategies[strategy] /\ balance' = balance + n
        /\ strategies' = [strategies EXCEPT ![strategy] = strategies[strategy] - n]
    BY <1>6 DEF Yield!recallFromStrategy
  <2>2. balance' \in Nat /\ strategies' \in [{"none", "first", "second"} -> Nat]
        /\ strategies'[strategy'] = strategies[strategy] - n
    BY <1>2, <1>3, <2>1
  <2>3. Yield!totalAssets' = Yield!totalAssets
    BY <1>2, <2>1, <2>2 DEF Yield!totalAssets
  <2> QED
    BY <1>2, <1>3, <1>4, <2>2, <2>3 DEF Yield!YieldTypeOK
<1> QED
  BY <1>1, <1>5, <1>6

LEMMA DriftKeeps ==
    ASSUME YieldInv, Yield!Drift
    PROVE  Yield!YieldTypeOK' /\ drift' # drift /\ drift' \in Nat /\ strategy' = strategy
<1>1. PICK gain \in {-1, 1} :
          /\ strategies[strategy] + gain >= 0
          /\ strategies' = [strategies EXCEPT ![strategy] = @ + gain]
  BY DEF Yield!Drift
<1>2. strategies \in [{"none", "first", "second"} -> Nat] /\ strategy \in {"none", "first", "second"}
  BY DEF YieldInv, Yield!YieldTypeOK
<1>3. strategies[strategy] + gain \in Nat
  BY <1>1, <1>2
<1>4. strategies' \in [{"none", "first", "second"} -> Nat]
  BY <1>1, <1>2, <1>3
<1> QED
  BY <1>4 DEF YieldInv, Yield!YieldTypeOK, Yield!Drift

LEMMA YieldInit == ASSUME Yield!Init PROVE YieldInv
BY DEF Yield!Init, YieldInv, Yield!YieldTypeOK

(* A step of the vault: shares whose holder does nothing keep their value up to the part   *)
(* of one share.                                                                   *)
LEMMA YieldStepKeeps ==
    ASSUME YieldInv, Yield!Next
    PROVE  /\ YieldInv'
           /\ strategy' = strategy /\ drift' = drift /\ Yield!supply # 0 => YieldKept
<1>1. PICK S \in Nat, T \in Nat : S = Yield!supply /\ T = Yield!totalAssets
  BY YieldSupply
<1>2. CASE Yield!Drift
  BY <1>2, DriftKeeps DEF YieldInv
<1>3. ASSUME Yield!supply' = S, Yield!totalAssets' = T PROVE YieldKept
  BY <1>1, <1>3, MulNat DEF YieldKept
<1>4. CASE Yield!Holder /\ UNCHANGED drift
  <2>1. PICK u \in Depositors, n \in VaultAmounts :
            Yield!deposit(u, n) \/ Yield!withdraw(u, n) \/ Yield!redeem(u, n)
    BY <1>4 DEF Yield!Holder
  <2>2. n \in Nat
    BY YieldNumbers
  <2>3. Yield!YieldTypeOK' /\ (Yield!supply # 0 => YieldKept)
    BY <2>1, <2>2, DepositKeeps, WithdrawKeeps, RedeemKeeps
  <2>4. strategy' = strategy
    BY <2>1 DEF Yield!deposit, Yield!withdraw, Yield!redeem, Yield!_burnAndPay
  <2> QED
    BY <1>4, <2>3, <2>4 DEF YieldInv
<1>5. CASE Yield!Hand /\ UNCHANGED drift
  <2>1. strategy' = strategy
    BY <1>5 DEF Yield!Hand
  <2> QED
    BY <1>1, <1>3, <1>5, <2>1, HandKeeps DEF YieldInv
<1>6. CASE Yield!Manager /\ UNCHANGED drift
  BY <1>1, <1>3, <1>6, ManagerKeeps DEF YieldInv
<1>7. CASE Yield!setStrategy /\ UNCHANGED drift
  <2>1. strategy' # strategy /\ strategy' \in DOMAIN strategies
        /\ UNCHANGED <<balance, strategies, vault_shares>>
    BY <1>7 DEF Yield!setStrategy
  <2> QED
    BY <1>7, <2>1 DEF YieldInv, Yield!YieldTypeOK
<1> QED
  BY <1>2, <1>4, <1>5, <1>6, <1>7 DEF Yield!Next

(* What the run's property says of a step.                                              *)
ValueKept ==
    \A u \in Depositors :
        (vault_shares'[u] = vault_shares[u] /\ strategy' = strategy /\ drift' = drift)
        => vault_shares[u] * Yield!totalAssets' * Yield!supply + vault_shares[u] * Yield!totalAssets
           >= vault_shares[u] * Yield!totalAssets * Yield!supply'

LEMMA ValueKeeps ==
    ASSUME YieldInv, YieldInv', strategy' = strategy /\ drift' = drift /\ Yield!supply # 0 => YieldKept
    PROVE  ValueKept
<1> SUFFICES ASSUME NEW u \in Depositors, strategy' = strategy, drift' = drift
             PROVE  vault_shares[u] * Yield!totalAssets' * Yield!supply + vault_shares[u] * Yield!totalAssets
                    >= vault_shares[u] * Yield!totalAssets * Yield!supply'
  BY DEF ValueKept
<1>1. PICK S \in Nat, T \in Nat, v \in Nat :
          S = Yield!supply /\ T = Yield!totalAssets /\ v = vault_shares[u] /\ v <= S
  BY YieldSupply
<1>2. PICK S2 \in Nat, T2 \in Nat : S2 = Yield!supply' /\ T2 = Yield!totalAssets'
  <2>1. Yield!supply' \in Nat
    <3>1. IsFiniteSet(Depositors) /\ vault_shares' \in [Depositors -> Nat]
      BY YieldNumbers DEF YieldInv, Yield!YieldTypeOK
    <3> QED
      BY <3>1, TotalType, SameTotal DEF Yield!supply
  <2>2. Yield!totalAssets' \in Nat
    <3>1. balance' \in Nat /\ strategies'[strategy'] \in Nat
      BY DEF YieldInv, Yield!YieldTypeOK
    <3> QED
      BY <3>1 DEF Yield!totalAssets
  <2> QED
    BY <2>1, <2>2
<1>3. CASE S = 0
  <2>1. v * T2 * S + v * T >= v * T * S2
    <3>1. v = 0
      BY <1>1, <1>3
    <3> QED
      BY <3>1
  <2> QED
    BY <1>1, <1>2, <2>1
<1>4. CASE S # 0
  <2>1. T * S2 <= T2 * S + T
    BY <1>1, <1>2, <1>4 DEF YieldKept
  <2>2. T * S2 \in Nat /\ T2 * S \in Nat
    BY MulNat
  <2>3. v * (T * S2) <= v * (T2 * S + T)
    BY <2>1, <2>2, MulMono
  <2>4. v * (T * S2) = v * T * S2 /\ v * (T2 * S + T) = v * T2 * S + v * T
    OBVIOUS
  <2> QED
    BY <1>1, <1>2, <2>3, <2>4
<1> QED
  BY <1>3, <1>4

-----------------------------------------------------------------------------
(* The cross-chain executor: what it holds and what it filled is all that was delivered.     *)

BridgeFilled == [o \in Bridge!Owners |-> Bridge!FilledOf(o)]
BridgeCovered == Total(delivered) <= bridge_held + Total(BridgeFilled)
BridgeInv == Bridge!CrossChainTypeOK /\ BridgeCovered

LEMMA OwnersFinite == IsFiniteSet(Bridge!Owners)
<1> DEFINE f == [i \in Intents |-> i.owner]
<1>1. Bridge!Owners = {f[i] : i \in Intents}
  BY DEF Bridge!Owners
<1> QED
  BY <1>1, BridgeNumbers, FiniteImage

LEMMA AmountAdds ==
    ASSUME NEW I \in SUBSET Intents
    PROVE  /\ Bridge!AmountOf(I) \in Nat
           /\ \A i \in Intents \ I : Bridge!AmountOf(I \cup {i}) = Bridge!AmountOf(I) + i.amountIn
<1>1. IsFiniteSet(I) /\ \A i \in Intents : i.amountIn \in Nat
  BY BridgeNumbers, FS_Subset
<1>2. Bridge!AmountOf(I) = Total([i \in I |-> i.amountIn])
  BY SameTotal DEF Bridge!AmountOf
<1>3. [i \in I |-> i.amountIn] \in [I -> Nat]
  BY <1>1
<1>4. Bridge!AmountOf(I) \in Nat
  BY <1>1, <1>2, <1>3, TotalType
<1>5. ASSUME NEW i \in Intents \ I
      PROVE  Bridge!AmountOf(I \cup {i}) = Bridge!AmountOf(I) + i.amountIn
  <2> DEFINE S == I \cup {i}
             f == [j \in S |-> j.amountIn]
  <2>1. IsFiniteSet(S) /\ f \in [S -> Nat] /\ i \in S \ I /\ I \in SUBSET S /\ f[i] = i.amountIn
    BY <1>1, FS_AddElement
  <2>2. Bridge!AmountOf(S) = Total(f)
    BY SameTotal DEF Bridge!AmountOf
  <2>3. [j \in I |-> f[j]] = [j \in I |-> j.amountIn]
    OBVIOUS
  <2>4. S = I \cup {i}
    OBVIOUS
  <2> HIDE DEF f, S
  <2>5. Total([j \in I |-> f[j]]) + f[i] = Total(f)
    BY <2>1, <2>4, TotalPart
  <2> QED
    BY <1>2, <2>1, <2>2, <2>3, <2>4, <2>5
<1> QED
  BY <1>4, <1>5

LEMMA FilledType ==
    ASSUME BridgeInv
    PROVE  /\ BridgeFilled \in [Bridge!Owners -> Nat] /\ Total(BridgeFilled) \in Nat
           /\ delivered \in [Bridge!Owners -> Nat] /\ Total(delivered) \in Nat
<1>1. ASSUME NEW o \in Bridge!Owners PROVE Bridge!FilledOf(o) \in Nat
  <2>1. {i \in usedIntent : i.owner = o} \in SUBSET Intents
    BY DEF BridgeInv, Bridge!CrossChainTypeOK
  <2> QED
    BY <2>1, AmountAdds DEF Bridge!FilledOf
<1>2. delivered \in [Bridge!Owners -> Nat]
  BY BridgeNumbers DEF BridgeInv, Bridge!CrossChainTypeOK
<1>3. BridgeFilled \in [Bridge!Owners -> Nat]
  BY <1>1 DEF BridgeFilled
<1> QED
  BY <1>2, <1>3, OwnersFinite, TotalType

(* One more intent filled.                                                           *)
LEMMA FilledMoves ==
    ASSUME BridgeInv, NEW i \in Intents \ usedIntent, usedIntent' = usedIntent \cup {i}
    PROVE  Total(BridgeFilled') = Total(BridgeFilled) + i.amountIn
<1>1. i.owner \in Bridge!Owners /\ i.amountIn \in Nat
  BY BridgeNumbers DEF Bridge!Owners
<1> DEFINE mine == {j \in usedIntent : j.owner = i.owner}
           n == BridgeFilled[i.owner] + i.amountIn
<1>2. ASSUME NEW o \in Bridge!Owners
      PROVE  Bridge!FilledOf(o)' = IF o = i.owner THEN Bridge!FilledOf(o) + i.amountIn
                                   ELSE Bridge!FilledOf(o)
  <2>1. CASE o = i.owner
    <3>1. {j \in usedIntent' : j.owner = o} = mine \cup {i}
      BY <2>1
    <3>2. mine \in SUBSET Intents /\ i \in Intents \ mine
      BY DEF BridgeInv, Bridge!CrossChainTypeOK
    <3>3. Bridge!AmountOf(mine \cup {i}) = Bridge!AmountOf(mine) + i.amountIn
      BY <3>2, AmountAdds
    <3>4. Bridge!FilledOf(o)' = Bridge!AmountOf(mine \cup {i})
      BY <3>1 DEF Bridge!FilledOf, Bridge!AmountOf
    <3> QED
      BY <2>1, <3>3, <3>4 DEF Bridge!FilledOf
  <2>2. CASE o # i.owner
    <3>1. {j \in usedIntent' : j.owner = o} = {j \in usedIntent : j.owner = o}
      BY <2>2
    <3> QED
      BY <2>2, <3>1 DEF Bridge!FilledOf, Bridge!AmountOf
  <2> QED
    BY <2>1, <2>2
<1>3. BridgeFilled' = [BridgeFilled EXCEPT ![i.owner] = n]
  BY <1>1, <1>2 DEF BridgeFilled
<1>4. n \in Nat /\ BridgeFilled[i.owner] \in Nat
  BY <1>1, FilledType
<1> HIDE DEF n
<1>5. Total([BridgeFilled EXCEPT ![i.owner] = n]) = Total(BridgeFilled) - BridgeFilled[i.owner] + n
  BY <1>1, <1>4, FilledType, OwnersFinite, TotalUpdate
<1> QED
  BY <1>1, <1>3, <1>4, <1>5, FilledType DEF n

LEMMA BridgeInit == ASSUME Bridge!Init PROVE BridgeInv
<1>1. Bridge!CrossChainTypeOK
  BY BridgeNumbers DEF Bridge!Init, Bridge!CrossChainTypeOK
<1>2. delivered = [o \in Bridge!Owners |-> 0] /\ bridge_held = 0
  BY DEF Bridge!Init
<1>3. Total(delivered) = 0
  <2>1. delivered \in [Bridge!Owners -> Nat] /\ \A o \in Bridge!Owners : delivered[o] = 0
    BY <1>2
  <2> QED
    BY <2>1, TotalZero
<1>4. Total(BridgeFilled) \in Nat
  <2>1. ASSUME NEW o \in Bridge!Owners PROVE Bridge!FilledOf(o) \in Nat
    <3>1. {i \in usedIntent : i.owner = o} \in SUBSET Intents
      BY DEF Bridge!Init
    <3> QED
      BY <3>1, AmountAdds DEF Bridge!FilledOf
  <2>2. BridgeFilled \in [Bridge!Owners -> Nat]
    BY <2>1 DEF BridgeFilled
  <2> QED
    BY <2>2, OwnersFinite, TotalType
<1> QED
  BY <1>1, <1>2, <1>3, <1>4 DEF BridgeInv, BridgeCovered

LEMMA DeliverKeeps ==
    ASSUME BridgeInv, NEW i \in Intents, Bridge!Deliver(i)
    PROVE  BridgeInv'
<1>1. i.owner \in Bridge!Owners /\ i.amountIn \in Nat /\ bridge_held \in Nat /\ delivered[i.owner] \in Nat
  BY BridgeNumbers, FilledType DEF Bridge!Owners, BridgeInv, Bridge!CrossChainTypeOK
<1> DEFINE n == delivered[i.owner] + i.amountIn
<1>2. /\ n <= MaxDelivered /\ bridge_held' = bridge_held + i.amountIn
      /\ delivered' = [delivered EXCEPT ![i.owner] = n]
      /\ UNCHANGED <<usedIntent, feeBps, interop, allowed, clock, settingsMade>>
  BY DEF Bridge!Deliver
<1>3. n \in Nat /\ n \in 0..MaxDelivered
  BY <1>1, <1>2, BridgeNumbers
<1>4. Bridge!CrossChainTypeOK'
  BY <1>1, <1>2, <1>3 DEF BridgeInv, Bridge!CrossChainTypeOK
<1> HIDE DEF n
<1>5. Total(delivered') = Total(delivered) - delivered[i.owner] + n
  <2>1. Total([delivered EXCEPT ![i.owner] = n]) = Total(delivered) - delivered[i.owner] + n
    BY <1>1, <1>3, FilledType, OwnersFinite, TotalUpdate
  <2> QED
    BY <1>2, <2>1
<1>6. BridgeFilled' = BridgeFilled
  BY <1>2 DEF BridgeFilled, Bridge!FilledOf, Bridge!AmountOf
<1>7. Total(BridgeFilled)' = Total(BridgeFilled)
  BY <1>6 DEF Total, Units
<1>8. Total(delivered)' = Total(delivered) + i.amountIn
  <2>1. Total(delivered)' = Total(delivered')
    BY DEF Total, Units
  <2> QED
    BY <1>1, <1>5, <2>1, FilledType DEF n
<1> QED
  BY <1>1, <1>2, <1>4, <1>7, <1>8, FilledType DEF BridgeInv, BridgeCovered

LEMMA ExecuteKeeps ==
    ASSUME BridgeInv, NEW i \in Intents, Bridge!executeCrossChain(i)
    PROVE  BridgeInv'
<1> DEFINE fee == (i.amountIn * feeBps) \div SmallBPS
<1>1. i.amountIn \in Nat /\ bridge_held \in Nat /\ feeBps \in Nat /\ feeBps <= SmallBPS /\ SmallBPS \in Nat \ {0}
  BY BridgeNumbers, StakingNumbers DEF BridgeInv, Bridge!CrossChainTypeOK
<1>2. fee \in Nat /\ fee <= i.amountIn
  <2>1. i.amountIn * feeBps \in Nat /\ fee \in Nat /\ fee * SmallBPS <= i.amountIn * feeBps
    BY <1>1, MulNat, DivNat
  <2>2. i.amountIn * feeBps <= i.amountIn * SmallBPS
    BY <1>1, MulMono
  <2> HIDE DEF fee
  <2>3. fee * SmallBPS <= i.amountIn * SmallBPS
    BY <1>1, <2>1, <2>2, MulNat
  <2> QED
    BY <1>1, <2>1, <2>3, MulCancel
<1>3. Bridge!Net(i) = i.amountIn - fee
  BY DEF Bridge!Net
<1>4. PICK spent \in 0..Bridge!Net(i) : bridge_held' = bridge_held - fee - spent
  BY DEF Bridge!executeCrossChain
<1>5. /\ usedIntent' = usedIntent \cup {i} /\ i \notin usedIntent /\ bridge_held >= i.amountIn
      /\ UNCHANGED <<feeBps, interop, allowed, clock, settingsMade, delivered>>
  BY DEF Bridge!executeCrossChain, Bridge!Callable
<1> HIDE DEF fee
<1>6. bridge_held' \in Nat /\ bridge_held' >= bridge_held - i.amountIn
  BY <1>1, <1>2, <1>3, <1>4, <1>5
<1>7. Bridge!CrossChainTypeOK'
  BY <1>5, <1>6 DEF BridgeInv, Bridge!CrossChainTypeOK
<1>8. Total(BridgeFilled)' = Total(BridgeFilled) + i.amountIn
  <2>1. Total(BridgeFilled') = Total(BridgeFilled) + i.amountIn
    BY <1>5, FilledMoves
  <2> QED
    BY <2>1 DEF Total, Units
<1>9. Total(delivered)' = Total(delivered)
  BY <1>5 DEF Total, Units
<1> QED
  BY <1>1, <1>6, <1>7, <1>8, <1>9, FilledType DEF BridgeInv, BridgeCovered

LEMMA BridgeStepKeeps == ASSUME BridgeInv, Bridge!Next PROVE BridgeInv'
<1>1. CASE Bridge!OwnerSets \/ Bridge!Later
  <2>1. UNCHANGED <<bridge_held, usedIntent, delivered>> /\ feeBps' \in FeeRates
    BY <1>1 DEF Bridge!OwnerSets, Bridge!Later, BridgeInv, Bridge!CrossChainTypeOK
  <2>2. Bridge!CrossChainTypeOK'
    BY <2>1 DEF BridgeInv, Bridge!CrossChainTypeOK
  <2>3. Total(delivered)' = Total(delivered)
    BY <2>1 DEF Total, Units
  <2>4. Total(BridgeFilled)' = Total(BridgeFilled)
    <3>1. BridgeFilled' = BridgeFilled
      BY <2>1 DEF BridgeFilled, Bridge!FilledOf, Bridge!AmountOf
    <3> QED
      BY <3>1 DEF Total, Units
  <2> QED
    BY <2>1, <2>2, <2>3, <2>4 DEF BridgeInv, BridgeCovered
<1> QED
  BY <1>1, DeliverKeeps, ExecuteKeeps DEF Bridge!Next

(* Filling the intent as well stays within what was delivered, owner by owner.               *)
LEMMA BridgeServes == ASSUME BridgeInv PROVE Bridge!CrossChainFaithful
<1> SUFFICES ASSUME NEW i \in Intents \ usedIntent,
                    delivered[i.owner] - Bridge!FilledOf(i.owner) >= i.amountIn,
                    \A o \in Bridge!Owners \ {i.owner} : ~Bridge!Overdrawn(o)
             PROVE  bridge_held >= i.amountIn
  BY DEF Bridge!CrossChainFaithful
<1>1. i.owner \in Bridge!Owners /\ i.amountIn \in Nat /\ bridge_held \in Nat
  BY BridgeNumbers DEF Bridge!Owners, BridgeInv, Bridge!CrossChainTypeOK
<1> DEFINE n == BridgeFilled[i.owner] + i.amountIn
           g == [BridgeFilled EXCEPT ![i.owner] = n]
<1>2. n \in Nat /\ g \in [Bridge!Owners -> Nat] /\ BridgeFilled[i.owner] \in Nat
  BY <1>1, FilledType
<1>3. ASSUME NEW o \in Bridge!Owners PROVE g[o] <= delivered[o]
  <2>1. BridgeFilled[o] = Bridge!FilledOf(o) /\ BridgeFilled[o] \in Nat /\ delivered[o] \in Nat
    BY FilledType DEF BridgeFilled
  <2>2. CASE o = i.owner
    BY <1>1, <2>1, <2>2, FilledType
  <2>3. CASE o # i.owner
    <3>1. ~(Bridge!FilledOf(o) > delivered[o])
      BY <2>3 DEF Bridge!Overdrawn
    <3> QED
      BY <2>1, <2>3, <3>1, FilledType
  <2> QED
    BY <2>2, <2>3
<1> HIDE DEF n
<1> HIDE DEF g
<1>4. Total(g) = Total(BridgeFilled) - BridgeFilled[i.owner] + n
  <2>1. PICK f \in [Bridge!Owners -> Nat], o \in Bridge!Owners : f = BridgeFilled /\ o = i.owner
    BY <1>1, FilledType
  <2>2. Total([f EXCEPT ![o] = n]) = Total(f) - f[o] + n
    BY <1>2, OwnersFinite, TotalUpdate
  <2> QED
    BY <2>1, <2>2 DEF g
<1>5. Total(g) <= Total(delivered)
  BY <1>2, <1>3, FilledType, OwnersFinite, TotalMono
<1>6. Total(delivered) <= bridge_held + Total(BridgeFilled)
  BY DEF BridgeInv, BridgeCovered
<1> QED
  BY <1>1, <1>2, <1>4, <1>5, <1>6, FilledType DEF n

-----------------------------------------------------------------------------
(* The bonding curve: its virtual reserves are backed and their product stays within one     *)
(* trade's rounding of k.                                                             *)

Locks == [amount : Nat, unlockTime : Nat, withdrawn : BOOLEAN]
CurveBook ==
    /\ x >= X0 /\ (done => graduated) /\ (~done => tokens["exchange"] = 0)
    /\ Curve!CurveBacked /\ Curve!ProductKept /\ Curve!StopsAtThreshold
CurveInv ==
    /\ Curve!CurveTypeOK
    /\ graduationUsdc \in Thresholds /\ time \in Nat /\ lockSeconds \in LockChoices
    /\ lock \in Locks /\ lowered \in BOOLEAN /\ done \in BOOLEAN
    /\ CurveBook

LEMMA CurveConstants ==
    /\ X0 \in Nat \ {0} /\ Y0 \in Nat \ {0} /\ X0 * Y0 \in Nat /\ BPS \in Nat \ {0}
    /\ IsFiniteSet(Curve!Holders) /\ "curve" \in Curve!Holders /\ "exchange" \in Curve!Holders
    /\ \A u \in Buyers : u \in Curve!Holders /\ u # "curve" /\ u # "exchange"
<1>1. IsFiniteSet({"curve", "exchange"})
  <2>1. IsFiniteSet({"curve"} \cup {"exchange"})
    BY FS_Singleton, FS_Union
  <2>2. {"curve"} \cup {"exchange"} = {"curve", "exchange"}
    OBVIOUS
  <2> QED
    BY <2>1, <2>2
<1>2. IsFiniteSet(Buyers \cup {"curve", "exchange"})
  BY <1>1, CurveNumbers, FS_Union
<1> QED
  BY <1>2, CurveNumbers, Numbers, MulNat DEF Curve!Holders

LEMMA FeeWithin ==
    ASSUME CurveInv, NEW n \in Nat
    PROVE  Curve!FeeOf(n) \in Nat /\ Curve!FeeOf(n) <= n
<1>1. PICK f \in 0..BPS : f = Curve!_effFeeBps
  BY CurveNumbers DEF CurveInv, Curve!CurveTypeOK, Curve!_effFeeBps
<1> DEFINE fee == (n * f) \div BPS
<1>2. fee \in Nat /\ fee * BPS <= n * f /\ n * f \in Nat
  BY CurveConstants, MulNat, DivNat
<1>3. n * f <= n * BPS /\ n * BPS \in Nat
  BY CurveConstants, MulNat, MulMono
<1> HIDE DEF fee
<1>4. fee * BPS <= n * BPS
  <2>1. fee * BPS \in Nat
    BY <1>2, CurveConstants, MulNat
  <2> QED
    BY <1>2, <1>3, <2>1
<1>5. fee <= n
  BY <1>2, <1>4, CurveConstants, MulCancel
<1> QED
  BY <1>1, <1>2, <1>5 DEF Curve!FeeOf, fee

(* The quotient that keeps the product within a trade's rounding of k.                       *)
LEMMA Rounded ==
    ASSUME NEW K \in Nat, NEW d \in Nat \ {0}
    PROVE  /\ K \div d \in Nat /\ (K \div d) * d <= K
           /\ K < (K \div d + 1) * (d + 1) /\ K < (K \div d + 1) * d
<1> DEFINE q == K \div d
<1>1. q \in Nat /\ q * d <= K /\ K < (q + 1) * d
  OBVIOUS
<1> HIDE DEF q
<1>2. (q + 1) * d <= (q + 1) * (d + 1)
  BY <1>1, MulMono
<1>3. (q + 1) * d \in Nat /\ (q + 1) * (d + 1) \in Nat
  BY <1>1, MulNat
<1>4. K < (q + 1) * (d + 1)
  BY <1>1, <1>2, <1>3
<1> QED
  BY <1>1, <1>4 DEF q

LEMMA TransferMoves ==
    ASSUME CurveInv, NEW from \in Curve!Holders, NEW to \in Curve!Holders, from # to,
           NEW n \in Nat, Curve!Transfer(from, to, n)
    PROVE  /\ tokens' \in [Curve!Holders -> Nat] /\ Curve!Total(tokens)' = Y0
           /\ tokens'[from] = tokens[from] - n /\ tokens'[to] = tokens[to] + n
           /\ \A h \in Curve!Holders \ {from, to} : tokens'[h] = tokens[h]
<1>1. /\ tokens \in [Curve!Holders -> Nat] /\ Total(tokens) = Y0 /\ n <= tokens[from]
      /\ tokens' = [tokens EXCEPT ![from] = @ - n, ![to] = @ + n]
  BY SameTotal DEF CurveInv, Curve!CurveTypeOK, Curve!Transfer
<1>2. tokens[from] \in Nat /\ tokens[to] \in Nat /\ tokens[from] - n \in Nat
  BY <1>1
<1>3. /\ tokens' \in [Curve!Holders -> Nat]
      /\ tokens'[from] = tokens[from] - n /\ tokens'[to] = tokens[to] + n
      /\ \A h \in Curve!Holders \ {from, to} : tokens'[h] = tokens[h]
  BY <1>1, <1>2
<1>4. tokens'[from] + tokens'[to] = tokens[from] + tokens[to]
  BY <1>2, <1>3
<1>5. Total(tokens') = Total(tokens)
  <2>1. /\ Total(tokens') = Total(tokens) - tokens[from] - tokens[to] + tokens'[from] + tokens'[to]
        /\ Total(tokens) \in Nat
    <3>1. PICK f, h : f = tokens /\ h = tokens'
      OBVIOUS
    <3>2. /\ f \in [Curve!Holders -> Nat] /\ h \in [Curve!Holders -> Nat] /\ IsFiniteSet(Curve!Holders)
          /\ \A g \in Curve!Holders \ {from, to} : h[g] = f[g]
      BY <1>1, <1>3, <3>1, CurveConstants
    <3>3. Total(h) = Total(f) - f[from] - f[to] + h[from] + h[to] /\ Total(f) \in Nat
      BY <3>2, TotalMove
    <3> QED
      BY <3>1, <3>3
  <2> QED
    BY <1>2, <1>3, <2>1
<1>6. Curve!Total(tokens)' = Total(tokens')
  BY SameTotal
<1> QED
  BY <1>1, <1>3, <1>5, <1>6

LEMMA CurveInit == ASSUME Curve!Init PROVE CurveInv
<1>1. /\ x = X0 /\ y = Y0 /\ X0 \in Nat \ {0} /\ Y0 \in Nat \ {0} /\ X0 * Y0 \in Nat
  BY CurveConstants DEF Curve!Init
<1>2. /\ tokens = [h \in Curve!Holders |-> IF h = "curve" THEN Y0 ELSE 0]
      /\ tokens["curve"] = Y0 /\ tokens["exchange"] = 0 /\ tokens \in [Curve!Holders -> Nat]
  BY CurveConstants DEF Curve!Init
<1>3. Curve!Total(tokens) = Y0
  <2> DEFINE none == [h \in Curve!Holders |-> 0]
  <2>1. none \in [Curve!Holders -> Nat] /\ \A h \in Curve!Holders : none[h] = 0
    OBVIOUS
  <2>2. tokens = [none EXCEPT !["curve"] = Y0]
    BY <1>2
  <2> HIDE DEF none
  <2>3. Total(none) = 0
    BY <2>1, TotalZero
  <2>4. Total([none EXCEPT !["curve"] = Y0]) = Total(none) - none["curve"] + Y0
    <3>1. Y0 \in Nat /\ IsFiniteSet(Curve!Holders) /\ "curve" \in Curve!Holders
      BY CurveConstants
    <3> QED
      BY <2>1, <3>1, TotalUpdate
  <2>5. none["curve"] = 0
    BY <2>1, CurveConstants
  <2> QED
    BY <2>2, <2>3, <2>4, <2>5, CurveConstants, SameTotal
<1>4. Curve!ProductKept
  <2>1. (X0 + 1) * (Y0 + 1) = X0 * Y0 + X0 + Y0 + 1
    BY <1>1
  <2> QED
    BY <1>1, <2>1 DEF Curve!ProductKept, Curve!k
<1>5. graduationUsdc \in Nat \ {0} /\ graduationUsdc \in Thresholds
  BY CurveNumbers DEF Curve!Init
<1>6. /\ curve_usdc = 0 /\ curve_fees \in FeeChoices /\ graduated = FALSE /\ done = FALSE /\ time = 0
      /\ lockSeconds \in LockChoices /\ lowered = FALSE
      /\ lock = [amount |-> 0, unlockTime |-> 0, withdrawn |-> FALSE]
  BY DEF Curve!Init, Curve!NoLock
<1>7. lock \in Locks /\ lock.amount \in Nat
  BY <1>6 DEF Locks
<1>8. Curve!CurveTypeOK
  BY <1>1, <1>2, <1>3, <1>6, <1>7 DEF Curve!CurveTypeOK
<1>9. CurveBook
  BY <1>1, <1>2, <1>4, <1>5, <1>6
  DEF CurveBook, Curve!CurveBacked, Curve!StopsAtThreshold, Curve!raisedUsdc
<1> QED
  BY <1>5, <1>6, <1>7, <1>8, <1>9 DEF CurveInv

(* What the steps need of the book while the curve trades.                                *)
LEMMA Trading ==
    ASSUME CurveInv, ~graduated
    PROVE  /\ x \in Nat /\ y \in Nat \ {0} /\ curve_usdc \in Nat /\ x >= X0 /\ ~done
           /\ curve_usdc = x - X0 /\ tokens["curve"] = y /\ tokens["exchange"] = 0
           /\ Curve!k = X0 * Y0 /\ Curve!k \in Nat
           /\ \A h \in Curve!Holders : tokens[h] \in Nat
BY CurveConstants DEF CurveInv, CurveBook, Curve!CurveTypeOK, Curve!CurveBacked, Curve!raisedUsdc, Curve!k

LEMMA ProductAfter ==
    ASSUME CurveInv, ~graduated, NEW a \in Nat, NEW b \in Nat,
           a * b <= Curve!k, Curve!k < (a + 1) * (b + 1), {x', y'} = {a, b}
    PROVE  Curve!ProductKept'
<1>1. a * b = b * a /\ (a + 1) * (b + 1) = (b + 1) * (a + 1)
  OBVIOUS
<1>2. (a + 1) * (b + 1) \in Nat /\ Curve!k \in Nat
  <2>1. a + 1 \in Nat /\ b + 1 \in Nat
    OBVIOUS
  <2> QED
    BY <2>1, Trading, MulNat
<1>3. (x' = a /\ y' = b) \/ (x' = b /\ y' = a)
  OBVIOUS
<1>4. Curve!k' = Curve!k
  BY DEF Curve!k
<1> QED
  BY <1>1, <1>2, <1>3, <1>4 DEF Curve!ProductKept

(* The book after a trade that leaves x1 and the quotient's counterpart y1.                  *)
LEMMA BookAfter ==
    ASSUME CurveInv, ~graduated, x' \in Nat, x' >= X0, y' \in Nat \ {0}, curve_usdc' = x' - X0,
           Curve!ProductKept', tokens' \in [Curve!Holders -> Nat],
           Curve!Total(tokens)' = Y0, tokens'["curve"] = y', tokens'["exchange"] = 0,
           UNCHANGED <<curve_fees, graduationUsdc, lockSeconds, done, lock, time>>,
           graduated' \in BOOLEAN, lowered' \in BOOLEAN,
           ~graduated' /\ x' - X0 >= graduationUsdc => lowered'
    PROVE  CurveInv'
<1>1. ~done /\ ~done'
  BY Trading
<1>2. Curve!CurveTypeOK'
  <2>1. curve_fees \in FeeChoices /\ lock.amount \in Nat
    BY DEF CurveInv, Curve!CurveTypeOK
  <2>2. curve_fees' \in FeeChoices /\ lock'.amount \in Nat
    BY <2>1
  <2>3. x' \in Nat /\ y' \in Nat \ {0} /\ curve_usdc' \in Nat
    <3>1. PICK w \in Nat, z \in Nat : w = x' /\ z = X0
      BY CurveConstants
    <3>2. w >= z /\ curve_usdc' = w - z
      BY <3>1
    <3>3. w - z \in Nat
      BY <3>2
    <3> QED
      BY <3>2, <3>3
  <2> QED
    BY <2>2, <2>3 DEF Curve!CurveTypeOK
<1>3. CurveBook'
  BY <1>1
  DEF CurveBook, Curve!CurveBacked, Curve!StopsAtThreshold, Curve!raisedUsdc
<1> QED
  BY <1>2, <1>3 DEF CurveInv

LEMMA BuyKeeps ==
    ASSUME CurveInv, NEW u \in Buyers, NEW n \in Spends, Curve!buy(u, n)
    PROVE  CurveInv'
<1>1. n \in Nat /\ ~graduated
  BY CurveNumbers DEF Curve!buy
<1>2. PICK fee \in Nat : fee = Curve!FeeOf(n) /\ fee <= n
  BY <1>1, FeeWithin
<1> DEFINE d == x + n - fee
           q == Curve!k \div d
<1>3. d \in Nat \ {0} /\ d >= X0
  BY <1>1, <1>2, Trading, CurveConstants
<1>4. /\ q \in Nat /\ q * d <= Curve!k /\ Curve!k < (q + 1) * (d + 1)
  <2>1. PICK K \in Nat : K = Curve!k
    BY <1>1, Trading
  <2> HIDE DEF d
  <2>2. /\ K \div d \in Nat /\ (K \div d) * d <= K /\ K < (K \div d + 1) * (d + 1)
    BY <1>3, Rounded
  <2> QED
    BY <2>1, <2>2
<1>5. Curve!TokensOut(n) = y - q
  BY <1>2 DEF Curve!TokensOut
<1>6. /\ y - q > 0 /\ y - q < y /\ Curve!Transfer("curve", u, y - q)
      /\ x' = x + (n - fee) /\ y' = y - (y - q) /\ curve_usdc' = curve_usdc + (n - fee)
      /\ graduated' = (x' - X0 >= graduationUsdc) /\ lowered' = FALSE
      /\ UNCHANGED <<curve_fees, graduationUsdc, limitsActive, moduleSet, lockSeconds>>
      /\ UNCHANGED <<done, lock, time, changes>>
  BY <1>2, <1>5 DEF Curve!buy, Curve!settings
<1> HIDE DEF q
<1>7. y - q \in Nat /\ q \in Nat \ {0} /\ y' = q /\ x' = d /\ curve_usdc' = x' - X0
  BY <1>1, <1>2, <1>4, <1>6, Trading, CurveConstants
<1>8. /\ tokens' \in [Curve!Holders -> Nat] /\ Curve!Total(tokens)' = Y0
      /\ tokens'["curve"] = tokens["curve"] - (y - q) /\ tokens'["exchange"] = tokens["exchange"]
  BY <1>6, <1>7, CurveConstants, TransferMoves
<1>9. tokens'["curve"] = y' /\ tokens'["exchange"] = 0
  BY <1>1, <1>6, <1>7, <1>8, Trading
<1> HIDE DEF d
<1>10. Curve!ProductKept'
  <2>1. q \in Nat /\ d \in Nat /\ {x', y'} = {q, d}
    BY <1>3, <1>7
  <2> QED
    BY <1>1, <1>4, <2>1, ProductAfter
<1>11. graduated' \in BOOLEAN /\ lowered' \in BOOLEAN
       /\ (~graduated' /\ x' - X0 >= graduationUsdc => lowered')
  <2>1. PICK p, t : p = x' - X0 /\ t = graduationUsdc
    OBVIOUS
  <2>2. graduated' = (p >= t) /\ lowered' = FALSE
    BY <1>6, <2>1
  <2>3. graduated' \in BOOLEAN
    BY <2>2
  <2>4. ASSUME ~graduated' PROVE ~(p >= t)
    BY <2>2, <2>4
  <2> QED
    BY <2>1, <2>2, <2>3, <2>4
<1> QED
  BY <1>1, <1>3, <1>6, <1>7, <1>8, <1>9, <1>10, <1>11, BookAfter

LEMMA SellKeeps ==
    ASSUME CurveInv, NEW u \in Buyers, NEW n \in TokenAmounts, Curve!sell(u, n)
    PROVE  CurveInv'
<1>1. n \in Nat /\ ~graduated
  BY CurveNumbers DEF Curve!sell
<1> DEFINE d == y + n
           q == Curve!k \div d
<1>2. d \in Nat \ {0}
  BY <1>1, Trading
<1>3. /\ q \in Nat /\ q * d <= Curve!k /\ Curve!k < (q + 1) * (d + 1)
  <2>1. PICK K \in Nat : K = Curve!k
    BY <1>1, Trading
  <2> HIDE DEF d
  <2>2. /\ K \div d \in Nat /\ (K \div d) * d <= K /\ K < (K \div d + 1) * (d + 1)
    BY <1>2, Rounded
  <2> QED
    BY <2>1, <2>2
<1>4. Curve!Gross(n) = x - q
  BY DEF Curve!Gross
<1>5. /\ x - q >= 0 /\ x - q <= curve_usdc /\ Curve!Transfer(u, "curve", n)
      /\ x' = x - (x - q) /\ y' = y + n /\ curve_usdc' = curve_usdc - (x - q)
      /\ UNCHANGED <<curve_fees, graduationUsdc, limitsActive, moduleSet, lockSeconds>>
      /\ UNCHANGED <<graduated, done, lock, time, changes, lowered>>
  BY <1>4 DEF Curve!sell, Curve!SaleGoesThrough, Curve!settings
<1> HIDE DEF q
<1>6. x' = q /\ x' >= X0 /\ y' = d /\ curve_usdc' = x' - X0 /\ x' <= x
  BY <1>1, <1>3, <1>5, Trading, CurveConstants
<1>7. /\ tokens' \in [Curve!Holders -> Nat] /\ Curve!Total(tokens)' = Y0
      /\ tokens'["curve"] = tokens["curve"] + n /\ tokens'["exchange"] = tokens["exchange"]
  BY <1>1, <1>5, CurveConstants, TransferMoves
<1>8. tokens'["curve"] = y' /\ tokens'["exchange"] = 0
  BY <1>1, <1>5, <1>7, Trading
<1>9. graduated' \in BOOLEAN /\ lowered' \in BOOLEAN /\ lowered' = lowered /\ ~graduated'
  BY <1>1, <1>5 DEF CurveInv, Curve!CurveTypeOK
<1>10. x' - X0 >= graduationUsdc => lowered'
  <2>1. x - X0 >= graduationUsdc => lowered
    BY <1>1 DEF CurveInv, CurveBook, Curve!StopsAtThreshold, Curve!raisedUsdc
  <2>2. graduationUsdc \in Nat
    BY CurveNumbers DEF CurveInv
  <2> QED
    BY <1>1, <1>3, <1>6, <1>9, <2>1, <2>2, Trading, CurveConstants
<1> HIDE DEF d
<1>11. Curve!ProductKept'
  BY <1>1, <1>2, <1>3, <1>6, ProductAfter
<1> QED
  BY <1>1, <1>2, <1>3, <1>5, <1>6, <1>7, <1>8, <1>9, <1>10, <1>11, BookAfter

LEMMA SendKeeps ==
    ASSUME CurveInv, NEW u \in Buyers, NEW to \in Buyers, NEW n \in TokenAmounts, Curve!Send(u, to, n)
    PROVE  CurveInv'
<1>1. /\ n \in Nat /\ u # to /\ Curve!Transfer(u, to, n)
      /\ UNCHANGED <<curve_fees, graduationUsdc, limitsActive, moduleSet, lockSeconds>>
      /\ UNCHANGED <<x, y, graduated, curve_usdc, done, lock, time, changes, lowered>>
  BY CurveNumbers DEF Curve!Send, Curve!settings
<1>2. /\ tokens' \in [Curve!Holders -> Nat] /\ Curve!Total(tokens)' = Y0
      /\ tokens'["curve"] = tokens["curve"] /\ tokens'["exchange"] = tokens["exchange"]
  BY <1>1, CurveConstants, TransferMoves
<1>3. Curve!CurveTypeOK'
  BY <1>1, <1>2 DEF CurveInv, Curve!CurveTypeOK
<1>4. CurveBook'
  BY <1>1, <1>2 DEF CurveInv, CurveBook, Curve!CurveBacked, Curve!ProductKept, Curve!StopsAtThreshold,
                    Curve!raisedUsdc, Curve!k
<1> QED
  BY <1>1, <1>3, <1>4 DEF CurveInv

LEMMA GraduateKeeps ==
    ASSUME CurveInv, Curve!graduate
    PROVE  CurveInv'
<1>1. /\ ~done /\ graduated /\ curve_usdc > 0 /\ tokens["curve"] > 0 /\ done' = TRUE /\ curve_usdc' = 0
      /\ Curve!Transfer("curve", "exchange", tokens["curve"])
      /\ lock' = [[amount |-> 0, unlockTime |-> 0, withdrawn |-> FALSE]
                  EXCEPT !.amount = curve_usdc, !.unlockTime = time + lockSeconds]
      /\ UNCHANGED <<curve_fees, graduationUsdc, limitsActive, moduleSet, lockSeconds>>
      /\ UNCHANGED <<x, y, graduated, time, changes, lowered>>
  BY DEF Curve!graduate, Curve!settings, Curve!NoLock
<1>2. /\ curve_usdc \in Nat /\ time \in Nat /\ lockSeconds \in Nat
      /\ curve_usdc = x - X0 /\ tokens["curve"] = y /\ tokens["exchange"] = 0 /\ y \in Nat \ {0}
  BY <1>1, CurveNumbers DEF CurveInv, CurveBook, Curve!CurveTypeOK, Curve!CurveBacked, Curve!raisedUsdc
<1>3. lock' \in Locks /\ lock'.amount = curve_usdc
  <2>1. lock' = [amount |-> curve_usdc, unlockTime |-> time + lockSeconds, withdrawn |-> FALSE]
    BY <1>1
  <2>2. time + lockSeconds \in Nat
    BY <1>2
  <2> QED
    BY <1>2, <2>1, <2>2 DEF Locks
<1>4. /\ tokens' \in [Curve!Holders -> Nat] /\ Curve!Total(tokens)' = Y0
      /\ tokens'["exchange"] = tokens["exchange"] + tokens["curve"]
  BY <1>1, <1>2, CurveConstants, TransferMoves
<1>5. tokens'["exchange"] = y
  BY <1>2, <1>4
<1>6. Curve!CurveTypeOK'
  BY <1>1, <1>2, <1>3, <1>4 DEF CurveInv, Curve!CurveTypeOK
<1>7. CurveBook'
  BY <1>1, <1>2, <1>3, <1>5 DEF CurveInv, CurveBook, Curve!CurveBacked, Curve!ProductKept,
                                Curve!StopsAtThreshold, Curve!raisedUsdc, Curve!k
<1> QED
  BY <1>1, <1>3, <1>6, <1>7 DEF CurveInv

(* Time, the locker and the owner's settings leave the reserves and the balances alone.      *)
LEMMA QuietKeeps ==
    ASSUME CurveInv, UNCHANGED <<x, y, graduated, curve_usdc, tokens, done>>,
           lock' \in Locks, lock'.amount = lock.amount, curve_fees' \in FeeChoices,
           graduationUsdc' \in Thresholds, lockSeconds' \in LockChoices, time' \in Nat, lowered' \in BOOLEAN,
           Curve!StopsAtThreshold'
    PROVE  CurveInv'
<1>1. Curve!CurveTypeOK'
  BY DEF CurveInv, Curve!CurveTypeOK
<1>2. CurveBook'
  BY DEF CurveInv, CurveBook, Curve!CurveBacked, Curve!ProductKept, Curve!raisedUsdc, Curve!k
<1> QED
  BY <1>1, <1>2 DEF CurveInv, Curve!CurveTypeOK

LEMMA OwnerKeeps ==
    ASSUME CurveInv, Curve!Owner
    PROVE  CurveInv'
<1>1. UNCHANGED <<x, y, graduated, curve_usdc, tokens, done, lock, time>>
  BY DEF Curve!Owner
<1>2. /\ lock' \in Locks /\ lock'.amount = lock.amount /\ time' \in Nat
      /\ graduationUsdc \in Nat /\ lowered \in BOOLEAN /\ x \in Nat /\ X0 \in Nat
  BY <1>1, CurveNumbers DEF CurveInv, Curve!CurveTypeOK
<1>3. CASE UNCHANGED <<graduationUsdc, lowered>> /\ curve_fees' \in FeeChoices /\ lockSeconds' \in LockChoices
  <2>1. graduationUsdc' \in Thresholds /\ lowered' \in BOOLEAN
    BY <1>3 DEF CurveInv
  <2>2. Curve!StopsAtThreshold'
    BY <1>1, <1>3 DEF CurveInv, CurveBook, Curve!StopsAtThreshold, Curve!raisedUsdc
  <2> QED
    BY <1>1, <1>2, <1>3, <2>1, <2>2, QuietKeeps
<1>4. CASE \E n \in Thresholds :
               /\ graduationUsdc' = n /\ n # graduationUsdc
               /\ lowered' = (lowered \/ n < graduationUsdc)
               /\ UNCHANGED <<curve_fees, limitsActive, moduleSet, lockSeconds>>
  <2>1. PICK n \in Thresholds :
            /\ graduationUsdc' = n /\ n # graduationUsdc
            /\ lowered' = (lowered \/ n < graduationUsdc)
            /\ UNCHANGED <<curve_fees, limitsActive, moduleSet, lockSeconds>>
    BY <1>4
  <2>2. PICK r \in Int, t \in Nat : r = x - X0 /\ t = graduationUsdc
    BY <1>2
  <2>3. n \in Nat
    BY CurveNumbers
  <2>4. lowered' \in BOOLEAN /\ (lowered => lowered') /\ (n < t => lowered')
    <3>1. CASE lowered
      BY <2>1, <3>1
    <3>2. CASE ~lowered /\ n < t
      BY <2>1, <2>2, <3>2
    <3>3. CASE ~lowered /\ ~(n < t)
      <4>1. ~lowered'
        BY <2>1, <2>2, <3>3
      <4>2. lowered' \in BOOLEAN
        BY <2>1
      <4> QED
        BY <3>3, <4>1, <4>2
    <3> QED
      BY <3>1, <3>2, <3>3
  <2>5. ~graduated /\ r >= t => lowered
    BY <2>2 DEF CurveInv, CurveBook, Curve!StopsAtThreshold, Curve!raisedUsdc
  <2>6. ~graduated /\ r >= n => lowered'
    <3>1. CASE n < t
      BY <2>4, <3>1
    <3>2. CASE ~(n < t)
      BY <2>3, <2>4, <2>5, <3>2
    <3> QED
      BY <3>1, <3>2
  <2>7. Curve!StopsAtThreshold'
    <3>1. Curve!raisedUsdc' = r /\ graduated' = graduated /\ graduationUsdc' = n
      BY <1>1, <2>1, <2>2 DEF Curve!raisedUsdc
    <3> QED
      BY <2>6, <3>1 DEF Curve!StopsAtThreshold
  <2>8. curve_fees' \in FeeChoices /\ lockSeconds' \in LockChoices /\ graduationUsdc' \in Thresholds
    BY <2>1 DEF CurveInv, Curve!CurveTypeOK
  <2> QED
    BY <1>1, <1>2, <2>4, <2>7, <2>8, QuietKeeps
<1>5. curve_fees \in FeeChoices /\ lockSeconds \in LockChoices
  BY DEF CurveInv, Curve!CurveTypeOK
<1> QED
  BY <1>3, <1>4, <1>5 DEF Curve!Owner

LEMMA CurveStepKeeps == ASSUME CurveInv, Curve!Next PROVE CurveInv'
<1>1. /\ curve_fees \in FeeChoices /\ lockSeconds \in LockChoices /\ graduationUsdc \in Thresholds
      /\ lowered \in BOOLEAN /\ lock \in Locks /\ time \in Nat /\ Curve!StopsAtThreshold
  BY DEF CurveInv, CurveBook, Curve!CurveTypeOK
<1>2. CASE Curve!Unlock
  <2>1. /\ lock' = [lock EXCEPT !.withdrawn = TRUE]
        /\ UNCHANGED <<x, y, curve_fees, graduationUsdc, limitsActive, moduleSet, lockSeconds>>
        /\ UNCHANGED <<graduated, curve_usdc, tokens, done, time, changes, lowered>>
    BY <1>2 DEF Curve!Unlock, Curve!settings
  <2>2. lock' \in Locks /\ lock'.amount = lock.amount
    BY <1>1, <2>1 DEF Locks
  <2>3. Curve!StopsAtThreshold'
    BY <1>1, <2>1 DEF Curve!StopsAtThreshold, Curve!raisedUsdc
  <2> QED
    BY <1>1, <2>1, <2>2, <2>3, QuietKeeps
<1>3. CASE Curve!Wait
  <2>1. /\ time' = time + 1
        /\ UNCHANGED <<x, y, curve_fees, graduationUsdc, limitsActive, moduleSet, lockSeconds>>
        /\ UNCHANGED <<graduated, curve_usdc, tokens, done, lock, changes, lowered>>
    BY <1>3 DEF Curve!Wait, Curve!settings
  <2>2. time' \in Nat
    BY <1>1, <2>1
  <2>3. Curve!StopsAtThreshold'
    BY <1>1, <2>1 DEF Curve!StopsAtThreshold, Curve!raisedUsdc
  <2> QED
    BY <1>1, <2>1, <2>2, <2>3, QuietKeeps
<1> QED
  BY <1>2, <1>3, BuyKeeps, SellKeeps, SendKeeps, GraduateKeeps, OwnerKeeps DEF Curve!Next

(* A group's tokens and the curve's are at most all there are, so that the quotient stays   *)
(* between the virtual reserve and the reserve of now.                                    *)
LEMMA CurveServes == ASSUME CurveInv PROVE Curve!HoldersCanSell
<1> SUFFICES ASSUME ~graduated, NEW group \in SUBSET Buyers,
                    NEW n, n = Curve!Total([h \in group |-> tokens[h]]), n > 0
             PROVE  Curve!SaleGoesThrough(n)
  BY DEF Curve!HoldersCanSell
<1>1. tokens \in [Curve!Holders -> Nat] /\ Total(tokens) = Y0 /\ tokens["curve"] = y
  BY SameTotal, Trading DEF CurveInv, Curve!CurveTypeOK
<1>2. n \in Nat /\ n + y <= Y0
  <2>1. group \in SUBSET Curve!Holders /\ "curve" \in Curve!Holders \ group /\ IsFiniteSet(Curve!Holders)
    BY CurveConstants
  <2>2. n = Total([h \in group |-> tokens[h]])
    BY SameTotal
  <2>3. n \in Nat /\ n + tokens["curve"] <= Total(tokens)
    BY <1>1, <2>1, <2>2, TotalPart
  <2> QED
    BY <1>1, <2>3
<1>3. PICK X \in Nat, Y \in Nat, a \in Nat, b \in Nat :
          X = x /\ Y = y /\ a = X0 /\ b = Y0 /\ X >= a /\ a > 0
  BY Trading, CurveConstants
<1> DEFINE d == Y + n
           K == a * b
           q == K \div d
<1>4. d \in Nat \ {0} /\ d <= b /\ K \in Nat
  BY <1>2, <1>3, MulNat
<1> HIDE DEF d, K
<1>5. q \in Nat /\ q * d <= K /\ K < (q + 1) * d
  BY <1>4, Rounded
<1> HIDE DEF q
<1>6. a <= q
  <2>1. a * d <= K
    BY <1>3, <1>4, MulMono DEF K
  <2>2. a * d < (q + 1) * d /\ a * d \in Nat /\ (q + 1) * d \in Nat
    BY <1>3, <1>4, <1>5, <2>1, MulNat
  <2>3. ~((q + 1) * d <= a * d)
    BY <2>2
  <2>4. ~(q + 1 <= a)
    BY <1>3, <1>4, <1>5, <2>3, MulMono
  <2> QED
    BY <1>3, <1>5, <2>4
<1>7. q <= X
  <2>1. K < (X + 1) * (Y + 1)
    BY <1>3 DEF CurveInv, CurveBook, Curve!ProductKept, Curve!k, K
  <2>2. (X + 1) * (Y + 1) <= (X + 1) * d
    <3>1. Y + 1 <= d /\ Y + 1 \in Nat /\ X + 1 \in Nat
      BY <1>2, <1>3 DEF d
    <3> QED
      BY <1>4, <3>1, MulMono
  <2>3. /\ q * d \in Nat /\ (X + 1) * d \in Nat /\ (X + 1) * (Y + 1) \in Nat
    <3>1. Y + 1 \in Nat /\ X + 1 \in Nat
      BY <1>3
    <3> QED
      BY <1>4, <1>5, <3>1, MulNat
  <2>4. ~((X + 1) * d <= q * d)
    BY <1>4, <1>5, <2>1, <2>2, <2>3
  <2>5. ~(X + 1 <= q)
    BY <1>3, <1>4, <1>5, <2>4, MulMono
  <2> QED
    BY <1>3, <1>5, <2>5
<1>8. Curve!Gross(n) = X - q /\ curve_usdc = X - a
  BY <1>3, Trading DEF Curve!Gross, Curve!k, q, d, K
<1>9. X - q \in Nat
  BY <1>3, <1>5, <1>7
<1>10. PICK fee \in Nat : fee = Curve!FeeOf(X - q) /\ fee <= X - q
  BY <1>9, FeeWithin
<1>11. X - q >= 0 /\ X - q - fee < X /\ X - q <= X - a
  BY <1>3, <1>5, <1>6, <1>7, <1>9, <1>10
<1> QED
  BY <1>3, <1>8, <1>10, <1>11 DEF Curve!SaleGoesThrough

-----------------------------------------------------------------------------
(* The staking vault, counted in parts of Scale.  Of a staker with s shares and a debt of D,   *)
(* Due is what the accumulator A credits beyond the debt, and Room the same with the part of  *)
(* one unit that a floor may have taken from it.                                          *)

Due(m, c, A) == IF c * Scale <= m * A THEN m * A - c * Scale ELSE 0
Room(m, c, A) == m * A + Scale - c * Scale
Near(m, c, A) == c * Scale < m * A + Scale
DueOf(s, D, A) == [u \in Stakers |-> Due(s[u], D[u], A)]
RoomOf(s, D, A) == [u \in Stakers |-> Room(s[u], D[u], A)]
NotShort(s, D, A) == \A u \in Stakers : Near(s[u], D[u], A)
Covered(s, D, A, group) == \A u \in group : D[u] * Scale <= s[u] * A

(* What waits in the pool (w), what the vault holds (h), the divisions' remainders (f) and the *)
(* number of deposits (n) and withdrawals (e) bound what is due from both sides.              *)
Book(s, D, A, w, h, f, n, e, behind) ==
    /\ s \in [Stakers -> Nat] /\ D \in [Stakers -> Nat] /\ A \in Nat /\ w \in Nat /\ h \in Nat
    /\ f \in Nat /\ n \in Nat /\ e \in Nat
    /\ NotShort(s, D, A)
    /\ Covered(s, D, A, Stakers \ behind)
    /\ w * Scale + Total(DueOf(s, D, A)) + f <= (h + n) * Scale
    /\ h * Scale + Cardinality(Stakers) * Scale <= w * Scale + Total(RoomOf(s, D, A)) + f + e * Scale

LEMMA StakersFinite == IsFiniteSet(Stakers) /\ Cardinality(Stakers) \in Nat /\ Scale \in Nat \ {0}
BY StakingNumbers, FS_CardinalityType

LEMMA DueType ==
    ASSUME NEW s \in [Stakers -> Nat], NEW D \in [Stakers -> Nat], NEW A \in Nat, NotShort(s, D, A)
    PROVE  /\ DueOf(s, D, A) \in [Stakers -> Nat] /\ Total(DueOf(s, D, A)) \in Nat
           /\ RoomOf(s, D, A) \in [Stakers -> Nat] /\ Total(RoomOf(s, D, A)) \in Nat
<1>1. ASSUME NEW u \in Stakers
      PROVE  /\ (IF D[u] * Scale <= s[u] * A THEN s[u] * A - D[u] * Scale ELSE 0) \in Nat
             /\ s[u] * A + Scale - D[u] * Scale \in Nat
  <2>1. PICK a \in Nat, b \in Nat : a = s[u] * A /\ b = D[u] * Scale
    BY StakersFinite, MulNat
  <2>2. b < a + Scale
    BY <2>1 DEF NotShort, Near
  <2>3. (IF b <= a THEN a - b ELSE 0) \in Nat /\ a + Scale - b \in Nat
    BY <2>2, StakersFinite
  <2> QED
    BY <2>1, <2>3
<1>2. DueOf(s, D, A) \in [Stakers -> Nat] /\ RoomOf(s, D, A) \in [Stakers -> Nat]
  BY <1>1 DEF DueOf, RoomOf, Due, Room
<1> QED
  BY <1>2, StakersFinite, TotalType

(* The accumulator grows by d: each staker's due by d for each share.                        *)
LEMMA Accrues ==
    ASSUME NEW s \in [Stakers -> Nat], NEW D \in [Stakers -> Nat], NEW A \in Nat, NEW d \in Nat,
           NotShort(s, D, A)
    PROVE  /\ NotShort(s, D, A + d)
           /\ Total(DueOf(s, D, A + d)) <= Total(DueOf(s, D, A)) + d * Total(s)
           /\ Total(RoomOf(s, D, A + d)) = Total(RoomOf(s, D, A)) + d * Total(s)
<1> DEFINE g == [u \in Stakers |-> d * s[u]]
           B == A + d
<1>1. ASSUME NEW u \in Stakers
      PROVE  /\ D[u] * Scale < s[u] * B + Scale
             /\ (IF D[u] * Scale <= s[u] * B THEN s[u] * B - D[u] * Scale ELSE 0)
                <= (IF D[u] * Scale <= s[u] * A THEN s[u] * A - D[u] * Scale ELSE 0) + d * s[u]
             /\ s[u] * B + Scale - D[u] * Scale = (s[u] * A + Scale - D[u] * Scale) + d * s[u]
  <2>1. PICK a \in Nat, b \in Nat, c \in Nat : a = s[u] * A /\ b = D[u] * Scale /\ c = d * s[u]
    BY StakersFinite, MulNat
  <2>2. s[u] * B = a + c
    <3>1. s[u] * (A + d) = s[u] * A + d * s[u]
      OBVIOUS
    <3> QED
      BY <2>1, <3>1
  <2>3. b < a + Scale
    BY <2>1 DEF NotShort, Near
  <2>4. /\ b < a + c + Scale
        /\ (IF b <= a + c THEN a + c - b ELSE 0) <= (IF b <= a THEN a - b ELSE 0) + c
        /\ a + c + Scale - b = (a + Scale - b) + c
    BY <2>3, StakersFinite
  <2> HIDE DEF B
  <2> QED
    BY <2>1, <2>2, <2>4
<1>2. B \in Nat
  OBVIOUS
<1>3. g \in [Stakers -> Nat] /\ Total(g) = d * Total(s)
  BY StakersFinite, MulNat, TotalScale
<1> HIDE DEF B
<1>4. NotShort(s, D, B)
  BY <1>1 DEF NotShort, Near
<1>5. PICK p, p2, r, r2 : p = DueOf(s, D, A) /\ p2 = DueOf(s, D, B) /\ r = RoomOf(s, D, A) /\ r2 = RoomOf(s, D, B)
  OBVIOUS
<1>6. /\ p \in [Stakers -> Nat] /\ p2 \in [Stakers -> Nat] /\ r \in [Stakers -> Nat] /\ r2 \in [Stakers -> Nat]
  BY <1>2, <1>4, <1>5, DueType
<1>7. \A u \in Stakers : g[u] = d * s[u]
  OBVIOUS
<1> HIDE DEF g
<1>8. \A u \in Stakers : p2[u] <= p[u] + g[u] /\ r2[u] = r[u] + g[u]
  BY <1>1, <1>5, <1>7 DEF DueOf, RoomOf, Due, Room
<1>9. r2 = [u \in Stakers |-> r[u] + g[u]]
  BY <1>6, <1>8
<1>10. Total(r2) = Total(r) + Total(g)
  BY <1>3, <1>6, <1>9, StakersFinite, TotalAdd
<1>11. Total(p2) <= Total(p) + Total(g)
  <2> DEFINE t == [u \in Stakers |-> p[u] + g[u]]
  <2>1. t \in [Stakers -> Nat] /\ \A u \in Stakers : p2[u] <= t[u]
    BY <1>3, <1>6, <1>8
  <2>2. Total(t) = Total(p) + Total(g)
    BY <1>3, <1>6, StakersFinite, TotalAdd
  <2> HIDE DEF t
  <2>3. Total(p2) <= Total(t)
    BY <1>6, <2>1, StakersFinite, TotalMono
  <2> QED
    BY <2>2, <2>3
<1> QED
  BY <1>1, <1>3, <1>4, <1>5, <1>10, <1>11 DEF B

(* One staker's shares and debt change, and with them one entry.                           *)
Moved(f, g, u, v) == Total(g) = Total(f) - f[u] + v
LEMMA OneMoves ==
    ASSUME NEW s \in [Stakers -> Nat], NEW D \in [Stakers -> Nat], NEW A \in Nat, NotShort(s, D, A),
           NEW u \in Stakers, NEW m \in Nat, NEW c \in Nat, Near(m, c, A)
    PROVE  /\ NotShort([s EXCEPT ![u] = m], [D EXCEPT ![u] = c], A)
           /\ Moved(DueOf(s, D, A), DueOf([s EXCEPT ![u] = m], [D EXCEPT ![u] = c], A), u, Due(m, c, A))
           /\ Moved(RoomOf(s, D, A), RoomOf([s EXCEPT ![u] = m], [D EXCEPT ![u] = c], A), u, Room(m, c, A))
<1>0. PICK s2, D2 : s2 = [s EXCEPT ![u] = m] /\ D2 = [D EXCEPT ![u] = c]
  OBVIOUS
<1>1. /\ s2 \in [Stakers -> Nat] /\ D2 \in [Stakers -> Nat] /\ s2[u] = m /\ D2[u] = c
      /\ \A v \in Stakers \ {u} : s2[v] = s[v] /\ D2[v] = D[v]
  BY <1>0
<1>2. NotShort(s2, D2, A)
  BY <1>1 DEF NotShort
<1>3. Due(m, c, A) \in Nat /\ Room(m, c, A) \in Nat
  <2>1. PICK a \in Nat, b \in Nat : a = m * A /\ b = c * Scale
    BY StakersFinite, MulNat
  <2>2. b < a + Scale
    BY <2>1 DEF Near
  <2>3. (IF b <= a THEN a - b ELSE 0) \in Nat /\ a + Scale - b \in Nat
    BY <2>2, StakersFinite
  <2> QED
    BY <2>1, <2>3 DEF Due, Room
<1>4. DueOf(s2, D2, A) = [DueOf(s, D, A) EXCEPT ![u] = Due(m, c, A)]
  BY <1>1 DEF DueOf
<1>5. RoomOf(s2, D2, A) = [RoomOf(s, D, A) EXCEPT ![u] = Room(m, c, A)]
  BY <1>1 DEF RoomOf
<1>6. PICK p \in [Stakers -> Nat], r \in [Stakers -> Nat], due \in Nat, room \in Nat :
          p = DueOf(s, D, A) /\ r = RoomOf(s, D, A) /\ due = Due(m, c, A) /\ room = Room(m, c, A)
  BY <1>3, DueType
<1>7. IsFiniteSet(Stakers)
  BY StakersFinite
<1>8. Total([p EXCEPT ![u] = due]) = Total(p) - p[u] + due
  BY <1>7, TotalUpdate
<1>9. Total([r EXCEPT ![u] = room]) = Total(r) - r[u] + room
  BY <1>7, TotalUpdate
<1> QED
  BY <1>0, <1>2, <1>4, <1>5, <1>6, <1>8, <1>9 DEF Moved

(* ... and with them what the vault holds and the counts: enough for what is due to the       *)
(* staker from now on, and no more than what there is room for.                            *)
LEMMA BookMoves ==
    ASSUME NEW s, NEW D, NEW A, NEW w, NEW h, NEW f, NEW n, NEW e, NEW behind,
           Book(s, D, A, w, h, f, n, e, behind),
           NEW u \in Stakers, NEW m \in Nat, NEW c \in Nat, Near(m, c, A),
           NEW h2 \in Nat, NEW n2 \in Nat, NEW e2 \in Nat, NEW behind2,
           Due(m, c, A) + h * Scale + n * Scale
           <= DueOf(s, D, A)[u] + h2 * Scale + n2 * Scale,
           h2 * Scale + RoomOf(s, D, A)[u] + e * Scale
           <= h * Scale + Room(m, c, A) + e2 * Scale,
           behind \subseteq behind2 \cup {u}, u \notin behind2 => c * Scale <= m * A
    PROVE  Book([s EXCEPT ![u] = m], [D EXCEPT ![u] = c], A, w, h2, f, n2, e2, behind2)
<1> DEFINE s2 == [s EXCEPT ![u] = m]
           D2 == [D EXCEPT ![u] = c]
<1>1. /\ s \in [Stakers -> Nat] /\ D \in [Stakers -> Nat] /\ A \in Nat /\ w \in Nat /\ h \in Nat
      /\ f \in Nat /\ n \in Nat /\ e \in Nat /\ NotShort(s, D, A) /\ Scale \in Nat \ {0}
      /\ Covered(s, D, A, Stakers \ behind)
  BY StakersFinite DEF Book
<1>2. PICK T \in Nat, R \in Nat, p \in Nat, r \in Nat :
          /\ T = Total(DueOf(s, D, A)) /\ R = Total(RoomOf(s, D, A))
          /\ p = DueOf(s, D, A)[u] /\ r = RoomOf(s, D, A)[u]
  <2>1. /\ DueOf(s, D, A) \in [Stakers -> Nat] /\ Total(DueOf(s, D, A)) \in Nat
        /\ RoomOf(s, D, A) \in [Stakers -> Nat] /\ Total(RoomOf(s, D, A)) \in Nat
    BY <1>1, DueType
  <2>2. DueOf(s, D, A)[u] \in Nat /\ RoomOf(s, D, A)[u] \in Nat
    BY <2>1
  <2> QED
    BY <2>1, <2>2
<1>3. PICK due \in Nat, room \in Nat : due = Due(m, c, A) /\ room = Room(m, c, A)
  <2>1. PICK a \in Nat, b \in Nat : a = m * A /\ b = c * Scale
    BY <1>1, MulNat
  <2>2. b < a + Scale
    BY <2>1 DEF Near
  <2>3. (IF b <= a THEN a - b ELSE 0) \in Nat /\ a + Scale - b \in Nat
    BY <1>1, <2>2
  <2> QED
    BY <2>1, <2>3 DEF Due, Room
<1>4. /\ s2 \in [Stakers -> Nat] /\ D2 \in [Stakers -> Nat] /\ NotShort(s2, D2, A)
      /\ Total(DueOf(s2, D2, A)) = T - p + due /\ Total(RoomOf(s2, D2, A)) = R - r + room
  <2>1. /\ NotShort([s EXCEPT ![u] = m], [D EXCEPT ![u] = c], A)
        /\ Moved(DueOf(s, D, A), DueOf([s EXCEPT ![u] = m], [D EXCEPT ![u] = c], A), u, Due(m, c, A))
        /\ Moved(RoomOf(s, D, A), RoomOf([s EXCEPT ![u] = m], [D EXCEPT ![u] = c], A), u, Room(m, c, A))
    BY <1>1, OneMoves
  <2> QED
    BY <1>1, <1>2, <1>3, <2>1 DEF Moved
<1>6. PICK W \in Nat, H \in Nat, H2 \in Nat, N \in Nat, N2 \in Nat, E \in Nat, E2 \in Nat, M \in Nat :
          /\ W = w * Scale /\ H = h * Scale /\ H2 = h2 * Scale /\ N = n * Scale /\ N2 = n2 * Scale
          /\ E = e * Scale /\ E2 = e2 * Scale /\ M = Cardinality(Stakers) * Scale
  BY <1>1, StakersFinite, MulNat
<1>7. (h + n) * Scale = H + N /\ (h2 + n2) * Scale = H2 + N2
  BY <1>1, <1>6
<1>8. W + T + f <= H + N /\ H + M <= W + R + f + E
  BY <1>2, <1>6, <1>7 DEF Book
<1>9. due + H + N <= p + H2 + N2 /\ H2 + r + E <= H + room + E2
  BY <1>2, <1>3, <1>6
<1>10. Covered(s2, D2, A, Stakers \ behind2)
  <2> SUFFICES ASSUME NEW v \in Stakers \ behind2 PROVE D2[v] * Scale <= s2[v] * A
    BY DEF Covered
  <2>1. CASE v = u
    <3>1. D2[v] = c /\ s2[v] = m
      BY <1>1, <2>1
    <3> QED
      BY <2>1, <3>1
  <2>2. CASE v # u
    <3>1. D2[v] = D[v] /\ s2[v] = s[v] /\ v \notin behind
      BY <1>1, <2>2
    <3> QED
      BY <1>1, <3>1 DEF Covered
  <2> QED
    BY <2>1, <2>2
<1> HIDE DEF s2, D2
<1>11. W + (T - p + due) + f <= H2 + N2 /\ H2 + M <= W + (R - r + room) + f + E2
  BY <1>1, <1>2, <1>3, <1>8, <1>9
<1>12. Book(s2, D2, A, w, h2, f, n2, e2, behind2)
  BY <1>1, <1>4, <1>6, <1>7, <1>10, <1>11 DEF Book
<1> QED
  BY <1>12 DEF s2, D2

(* What is earned, and the part of a unit that it leaves.                                *)
LEMMA Floored ==
    ASSUME NEW a \in Nat
    PROVE  /\ a \div Scale \in Nat /\ (a \div Scale) * Scale \in Nat
           /\ (a \div Scale) * Scale <= a /\ a < (a \div Scale) * Scale + Scale
<1> DEFINE q == a \div Scale
<1>1. q \in Nat /\ q * Scale <= a /\ a < (q + 1) * Scale
  BY StakersFinite
<1> HIDE DEF q
<1>2. (q + 1) * Scale = q * Scale + Scale /\ q * Scale \in Nat
  BY <1>1, StakersFinite, MulNat
<1> QED
  BY <1>1, <1>2 DEF q

(* A debt of at most what is earned is covered, and a staker's due is what is pending and the *)
(* part of a unit.                                                                   *)
LEMMA Pending ==
    ASSUME NEW s, NEW D, NEW A, NEW w, NEW h, NEW f, NEW n, NEW e, NEW behind,
           Book(s, D, A, w, h, f, n, e, behind), NEW u \in Stakers,
           NEW q, q = (s[u] * A) \div Scale, D[u] <= q
    PROVE  \E a \in Nat, z \in Nat, t \in Nat :
               /\ a = s[u] * A /\ z = q * Scale /\ t = (q - D[u]) * Scale
               /\ q \in Nat /\ q - D[u] \in Nat /\ D[u] * Scale = z - t /\ z <= a /\ a < z + Scale
               /\ DueOf(s, D, A)[u] = t + (a - z) /\ RoomOf(s, D, A)[u] = t + (a - z) + Scale
<1>1. /\ s[u] \in Nat /\ D[u] \in Nat /\ A \in Nat /\ Scale \in Nat \ {0} /\ s[u] * A \in Nat
  BY StakersFinite, MulNat DEF Book
<1>2. PICK a \in Nat, z \in Nat : a = s[u] * A /\ z = q * Scale /\ z <= a /\ a < z + Scale /\ q \in Nat
  BY <1>1, Floored
<1>3. q - D[u] \in Nat
  BY <1>1, <1>2
<1>4. PICK t \in Nat, b \in Nat : t = (q - D[u]) * Scale /\ b = D[u] * Scale
  BY <1>1, <1>3, MulNat
<1>5. b = z - t
  <2>1. (q - D[u]) * Scale = q * Scale - D[u] * Scale
    BY <1>1, <1>2
  <2> QED
    BY <1>2, <1>4, <2>1
<1>6. DueOf(s, D, A)[u] = t + (a - z)
  <2>1. DueOf(s, D, A)[u] = IF b <= a THEN a - b ELSE 0
    BY <1>2, <1>4 DEF DueOf, Due
  <2> QED
    BY <1>2, <1>4, <1>5, <2>1
<1>7. RoomOf(s, D, A)[u] = t + (a - z) + Scale
  <2>1. RoomOf(s, D, A)[u] = a + Scale - b
    BY <1>2, <1>4 DEF RoomOf, Room
  <2> QED
    BY <1>1, <1>2, <1>4, <1>5, <2>1
<1> QED
  BY <1>2, <1>3, <1>4, <1>5, <1>6, <1>7

LEMMA BookClaim ==
    ASSUME NEW s, NEW D, NEW A, NEW w, NEW h, NEW f, NEW n, NEW e, NEW behind,
           Book(s, D, A, w, h, f, n, e, behind), NEW u \in Stakers,
           NEW q, q = (s[u] * A) \div Scale, D[u] <= q, q - D[u] <= h
    PROVE  Book(s, [D EXCEPT ![u] = q], A, w, h - (q - D[u]), f, n, e, behind \ {u})
<1>1. PICK a \in Nat, z \in Nat, t \in Nat :
          /\ a = s[u] * A /\ z = q * Scale /\ t = (q - D[u]) * Scale
          /\ q \in Nat /\ q - D[u] \in Nat /\ D[u] * Scale = z - t /\ z <= a /\ a < z + Scale
          /\ DueOf(s, D, A)[u] = t + (a - z) /\ RoomOf(s, D, A)[u] = t + (a - z) + Scale
  BY Pending
<1>2. /\ s \in [Stakers -> Nat] /\ s[u] \in Nat /\ h \in Nat /\ n \in Nat /\ e \in Nat /\ Scale \in Nat
  BY StakersFinite DEF Book
<1>3. h - (q - D[u]) \in Nat
  BY <1>1, <1>2
<1>4. PICK H \in Nat, N \in Nat, E \in Nat, H2 \in Nat :
          H = h * Scale /\ N = n * Scale /\ E = e * Scale /\ H2 = (h - (q - D[u])) * Scale
  BY <1>2, <1>3, MulNat
<1>5. H2 = H - t
  <2>1. PICK p \in Nat : p = q - D[u]
    BY <1>1
  <2>2. (h - p) * Scale = h * Scale - p * Scale
    BY <1>2
  <2> QED
    BY <1>1, <1>4, <2>1, <2>2
<1>6. /\ Near(s[u], q, A) /\ q * Scale <= s[u] * A
      /\ Due(s[u], q, A) + h * Scale + n * Scale
         <= DueOf(s, D, A)[u] + (h - (q - D[u])) * Scale + n * Scale
      /\ (h - (q - D[u])) * Scale + RoomOf(s, D, A)[u] + e * Scale
         <= h * Scale + Room(s[u], q, A) + e * Scale
  <2>1. /\ z < a + Scale /\ z <= a /\ (IF z <= a THEN a - z ELSE 0) + H + N <= t + (a - z) + H2 + N
        /\ H2 + (t + (a - z) + Scale) + E <= H + (a + Scale - z) + E
    BY <1>1, <1>2, <1>4, <1>5
  <2> QED
    BY <1>1, <1>4, <2>1 DEF Near, Due, Room
<1>7. Book([s EXCEPT ![u] = s[u]], [D EXCEPT ![u] = q], A, w, h - (q - D[u]), f, n, e, behind \ {u})
  BY <1>1, <1>2, <1>3, <1>6, BookMoves
<1>8. [s EXCEPT ![u] = s[u]] = s
  BY <1>2
<1> QED
  BY <1>7, <1>8

LEMMA BookOut ==
    ASSUME NEW s, NEW D, NEW A, NEW w, NEW h, NEW f, NEW n, NEW e, NEW behind,
           Book(s, D, A, w, h, f, n, e, behind), NEW u \in Stakers, NEW k \in Nat, k <= s[u],
           NEW q, q = (s[u] * A) \div Scale, D[u] <= q, q - D[u] <= h, NEW r, r = (k * A) \div Scale
    PROVE  /\ q - r \in Nat
           /\ Book([s EXCEPT ![u] = s[u] - k], [D EXCEPT ![u] = q - r], A, w, h - (q - D[u]), f, n, e + 1,
                   IF k < s[u] THEN behind \cup {u} ELSE behind \ {u})
<1> DEFINE behind2 == IF k < s[u] THEN behind \cup {u} ELSE behind \ {u}
<1>1. PICK a \in Nat, z \in Nat, t \in Nat :
          /\ a = s[u] * A /\ z = q * Scale /\ t = (q - D[u]) * Scale
          /\ q \in Nat /\ q - D[u] \in Nat /\ D[u] * Scale = z - t /\ z <= a /\ a < z + Scale
          /\ DueOf(s, D, A)[u] = t + (a - z) /\ RoomOf(s, D, A)[u] = t + (a - z) + Scale
  BY Pending
<1>2. /\ s \in [Stakers -> Nat] /\ s[u] \in Nat /\ A \in Nat /\ h \in Nat /\ n \in Nat /\ e \in Nat
      /\ Scale \in Nat \ {0} /\ s[u] - k \in Nat
  BY StakersFinite DEF Book
<1>3. h - (q - D[u]) \in Nat /\ e + 1 \in Nat
  BY <1>1, <1>2
<1>4. PICK b \in Nat, y1 \in Nat :
          b = k * A /\ y1 = r * Scale /\ y1 <= b /\ b < y1 + Scale /\ r \in Nat
  BY <1>2, MulNat, Floored
<1>5. b <= a /\ r <= q
  <2>1. k * A <= s[u] * A
    BY <1>2, MulMono
  <2>2. b <= a
    BY <1>1, <1>4, <2>1
  <2> QED
    BY <1>1, <1>2, <1>4, <2>2, DivMono
<1>6. q - r \in Nat
  BY <1>1, <1>4, <1>5
<1>7. (s[u] - k) * A = a - b /\ (q - r) * Scale = z - y1
  <2>1. PICK m \in Nat : m = s[u]
    BY <1>2
  <2>2. (m - k) * A = m * A - k * A
    BY <1>2, MulDifference
  <2>3. (q - r) * Scale = q * Scale - r * Scale
    <3>1. q \in Int /\ r \in Int /\ Scale \in Int
      BY <1>1, <1>2, <1>4
    <3> QED
      BY <3>1, MulDifference
  <2> QED
    BY <1>1, <1>4, <2>1, <2>2, <2>3
<1>8. PICK H \in Nat, N \in Nat, E \in Nat, H2 \in Nat, E2 \in Nat :
          /\ H = h * Scale /\ N = n * Scale /\ E = e * Scale /\ H2 = (h - (q - D[u])) * Scale
          /\ E2 = (e + 1) * Scale
  BY <1>2, <1>3, MulNat
<1>9. H2 = H - t /\ E2 = E + Scale
  <2>1. PICK p \in Nat : p = q - D[u]
    BY <1>1
  <2>2. (h - p) * Scale = h * Scale - p * Scale
    BY <1>2, <2>1, MulDifference
  <2>3. (e + 1) * Scale = e * Scale + Scale
    BY <1>2
  <2> QED
    BY <1>1, <1>8, <2>1, <2>2, <2>3
<1>10. /\ Near(s[u] - k, q - r, A)
       /\ Due(s[u] - k, q - r, A) + h * Scale + n * Scale
          <= DueOf(s, D, A)[u] + (h - (q - D[u])) * Scale + n * Scale
       /\ (h - (q - D[u])) * Scale + RoomOf(s, D, A)[u] + e * Scale
          <= h * Scale + Room(s[u] - k, q - r, A) + (e + 1) * Scale
  <2>1. /\ z - y1 < (a - b) + Scale
        /\ (IF z - y1 <= a - b THEN (a - b) - (z - y1) ELSE 0) + H + N <= t + (a - z) + H2 + N
        /\ H2 + (t + (a - z) + Scale) + E <= H + ((a - b) + Scale - (z - y1)) + E2
    BY <1>1, <1>2, <1>4, <1>8, <1>9
  <2> QED
    BY <1>1, <1>7, <1>8, <2>1 DEF Near, Due, Room
<1>11. behind \subseteq behind2 \cup {u}
  OBVIOUS
<1>12. u \notin behind2 => (q - r) * Scale <= (s[u] - k) * A
  <2> SUFFICES ASSUME u \notin behind2 PROVE (q - r) * Scale <= (s[u] - k) * A
    OBVIOUS
  <2>1. k = s[u]
    BY <1>2
  <2>2. r = q /\ a = b
    BY <1>1, <1>4, <2>1
  <2>3. z = y1
    BY <1>1, <1>4, <2>2
  <2> QED
    BY <1>1, <1>4, <1>7, <2>2, <2>3
<1> HIDE DEF behind2
<1>13. Book([s EXCEPT ![u] = s[u] - k], [D EXCEPT ![u] = q - r], A, w, h - (q - D[u]), f, n, e + 1, behind2)
  BY <1>2, <1>3, <1>6, <1>10, <1>11, <1>12, BookMoves
<1> QED
  BY <1>6, <1>13 DEF behind2

LEMMA BookIn ==
    ASSUME NEW s, NEW D, NEW A, NEW w, NEW h, NEW f, NEW n, NEW e, NEW behind,
           Book(s, D, A, w, h, f, n, e, behind), NEW u \in Stakers, NEW k \in Nat,
           NEW r, r = (k * A) \div Scale
    PROVE  /\ r \in Nat
           /\ Book([s EXCEPT ![u] = s[u] + k], [D EXCEPT ![u] = D[u] + r], A, w, h, f, n + 1, e, behind)
<1>1. /\ s \in [Stakers -> Nat] /\ s[u] \in Nat /\ D[u] \in Nat /\ A \in Nat /\ h \in Nat /\ n \in Nat
      /\ e \in Nat /\ Scale \in Nat \ {0} /\ D[u] * Scale < s[u] * A + Scale
  BY StakersFinite DEF Book, NotShort, Near
<1>2. PICK b \in Nat, y1 \in Nat :
          b = k * A /\ y1 = r * Scale /\ y1 <= b /\ b < y1 + Scale /\ r \in Nat
  BY <1>1, MulNat, Floored
<1>3. PICK a \in Nat, z \in Nat : a = s[u] * A /\ z = D[u] * Scale /\ z < a + Scale
  BY <1>1, MulNat
<1>4. s[u] + k \in Nat /\ D[u] + r \in Nat /\ n + 1 \in Nat
  BY <1>1, <1>2
<1>5. (s[u] + k) * A = a + b /\ (D[u] + r) * Scale = z + y1
  <2>1. PICK m \in Nat, c \in Nat : m = s[u] /\ c = D[u]
    BY <1>1
  <2>2. (m + k) * A = m * A + k * A /\ (c + r) * Scale = c * Scale + r * Scale
    BY <1>1, <1>2
  <2> QED
    BY <1>2, <1>3, <2>1, <2>2
<1>6. PICK H \in Nat, N \in Nat, E \in Nat : H = h * Scale /\ N = n * Scale /\ E = e * Scale
  BY <1>1, MulNat
<1>7. (n + 1) * Scale = N + Scale
  BY <1>1, <1>6
<1>8. DueOf(s, D, A)[u] = (IF z <= a THEN a - z ELSE 0) /\ RoomOf(s, D, A)[u] = a + Scale - z
  BY <1>3 DEF DueOf, RoomOf, Due, Room
<1>9. /\ Near(s[u] + k, D[u] + r, A)
      /\ Due(s[u] + k, D[u] + r, A) + h * Scale + n * Scale
         <= DueOf(s, D, A)[u] + h * Scale + (n + 1) * Scale
      /\ h * Scale + RoomOf(s, D, A)[u] + e * Scale
         <= h * Scale + Room(s[u] + k, D[u] + r, A) + e * Scale
  <2>1. /\ z + y1 < (a + b) + Scale
        /\ (IF z + y1 <= a + b THEN (a + b) - (z + y1) ELSE 0) + H + N
           <= (IF z <= a THEN a - z ELSE 0) + H + (N + Scale)
        /\ H + (a + Scale - z) + E <= H + ((a + b) + Scale - (z + y1)) + E
    BY <1>1, <1>2, <1>3, <1>6
  <2> QED
    BY <1>5, <1>6, <1>7, <1>8, <2>1 DEF Near, Due, Room
<1>10. u \notin behind => (D[u] + r) * Scale <= (s[u] + k) * A
  <2> SUFFICES ASSUME u \notin behind PROVE (D[u] + r) * Scale <= (s[u] + k) * A
    OBVIOUS
  <2>1. z <= a
    BY <1>3 DEF Book, Covered
  <2> QED
    BY <1>2, <1>3, <1>5, <2>1
<1>11. Book([s EXCEPT ![u] = s[u] + k], [D EXCEPT ![u] = D[u] + r], A, w, h, f, n + 1, e, behind)
  BY <1>1, <1>4, <1>9, <1>10, BookMoves
<1> QED
  BY <1>2, <1>11

(* An amount a is divided among the shares, and may come from the pool.                       *)
LEMMA BookGrow ==
    ASSUME NEW s, NEW D, NEW A, NEW w, NEW h, NEW f, NEW n, NEW e, NEW behind,
           Book(s, D, A, w, h, f, n, e, behind), NEW S \in Nat \ {0}, S = Total(s),
           NEW a \in Nat, NEW w2 \in Nat, NEW h2 \in Nat, h + w2 + a = h2 + w
    PROVE  Book(s, D, A + (a * Scale) \div S, w2, h2, f + ((a * Scale) % S), n, e, behind)
<1>1. /\ s \in [Stakers -> Nat] /\ D \in [Stakers -> Nat] /\ A \in Nat /\ w \in Nat /\ h \in Nat
      /\ f \in Nat /\ n \in Nat /\ e \in Nat /\ NotShort(s, D, A) /\ Scale \in Nat \ {0}
      /\ Covered(s, D, A, Stakers \ behind)
  BY StakersFinite DEF Book
<1>2. PICK c \in Nat : c = a * Scale
  BY <1>1, MulNat
<1> DEFINE d == c \div S
           o == c % S
<1>3. d \in Nat /\ o \in Nat /\ c = S * d + o
  BY DivMod
<1> HIDE DEF d, o
<1>4. /\ NotShort(s, D, A + d) /\ A + d \in Nat
      /\ Total(DueOf(s, D, A + d)) <= Total(DueOf(s, D, A)) + d * S
      /\ Total(RoomOf(s, D, A + d)) = Total(RoomOf(s, D, A)) + d * S
  BY <1>1, <1>3, Accrues
<1>14. Covered(s, D, A + d, Stakers \ behind)
  <2> SUFFICES ASSUME NEW v \in Stakers \ behind PROVE D[v] * Scale <= s[v] * (A + d)
    BY DEF Covered
  <2>1. PICK p1 \in Nat, p2 \in Nat, p3 \in Nat : p1 = s[v] * A /\ p2 = D[v] * Scale /\ p3 = s[v] * d
    BY <1>1, <1>3, MulNat
  <2>2. p2 <= p1
    BY <1>1, <2>1 DEF Covered
  <2>3. PICK m \in Nat : m = s[v]
    BY <1>1
  <2>4. m * (A + d) = m * A + m * d
    BY <1>1, <1>3
  <2> QED
    BY <2>1, <2>2, <2>3, <2>4
<1>5. PICK T \in Nat, R \in Nat, T2 \in Nat, R2 \in Nat, g \in Nat :
          /\ T = Total(DueOf(s, D, A)) /\ R = Total(RoomOf(s, D, A))
          /\ T2 = Total(DueOf(s, D, A + d)) /\ R2 = Total(RoomOf(s, D, A + d)) /\ g = d * S
  BY <1>1, <1>3, <1>4, DueType, MulNat
<1>6. g = S * d
  BY <1>3, <1>5
<1>7. PICK W \in Nat, H \in Nat, W2 \in Nat, H2 \in Nat, N \in Nat, E \in Nat, M \in Nat :
          /\ W = w * Scale /\ H = h * Scale /\ W2 = w2 * Scale /\ H2 = h2 * Scale /\ N = n * Scale
          /\ E = e * Scale /\ M = Cardinality(Stakers) * Scale
  BY <1>1, StakersFinite, MulNat
<1>8. H + W2 + c = H2 + W
  <2>1. (h + w2 + a) * Scale = h * Scale + w2 * Scale + a * Scale
        /\ (h2 + w) * Scale = h2 * Scale + w * Scale
    BY <1>1
  <2> QED
    BY <1>2, <1>7, <2>1
<1>9. (h + n) * Scale = H + N /\ (h2 + n) * Scale = H2 + N
  BY <1>1, <1>7
<1>10. W + T + f <= H + N /\ H + M <= W + R + f + E
  BY <1>5, <1>7, <1>9 DEF Book
<1>11. W2 + T2 + (f + o) <= H2 + N /\ H2 + M <= W2 + R2 + (f + o) + E
  BY <1>1, <1>3, <1>4, <1>5, <1>6, <1>8, <1>10
<1>12. f + o \in Nat
  BY <1>1, <1>3
<1>13. Book(s, D, A + d, w2, h2, f + o, n, e, behind)
  BY <1>1, <1>4, <1>14, <1>5, <1>7, <1>9, <1>11, <1>12 DEF Book
<1> QED
  BY <1>2, <1>13 DEF d, o

StakingBook == Book(staked, rewardDebt, accRewardPerShare, pool, vault_usdc, floored, deposits, exits, partial)
StakingRest == treasury \in Nat /\ splitter_held \in Nat /\ stakerShareBps \in ShareChoices
StakingInv == StakingBook /\ StakingRest

LEMMA StakingInit == ASSUME Staking!Init PROVE StakingInv
<1> DEFINE none == [u \in Stakers |-> 0]
<1>1. /\ staked = none /\ rewardDebt = none /\ accRewardPerShare = 0 /\ pool = 0 /\ vault_usdc = 0
      /\ floored = 0 /\ deposits = 0 /\ exits = 0 /\ partial = {}
      /\ treasury = 0 /\ splitter_held = 0 /\ stakerShareBps \in ShareChoices
  BY DEF Staking!Init
<1>2. none \in [Stakers -> Nat] /\ \A u \in Stakers : none[u] = 0
  OBVIOUS
<1> HIDE DEF none
<1>3. 0 * Scale = 0 /\ 0 * 0 = 0 /\ Scale \in Nat \ {0} /\ Cardinality(Stakers) * Scale \in Nat
  BY StakersFinite, MulNat
<1>4. \A u \in Stakers : /\ Due(none[u], none[u], 0) = 0 /\ Room(none[u], none[u], 0) = Scale
                         /\ Near(none[u], none[u], 0)
  BY <1>2, <1>3 DEF Due, Room, Near
<1>5. NotShort(none, none, 0)
  BY <1>4 DEF NotShort
<1>6. Total(DueOf(none, none, 0)) = 0
  <2>1. DueOf(none, none, 0) \in [Stakers -> Nat] /\ \A u \in Stakers : DueOf(none, none, 0)[u] = 0
    BY <1>4 DEF DueOf
  <2> QED
    BY <2>1, TotalZero
<1>7. Total(RoomOf(none, none, 0)) = Cardinality(Stakers) * Scale
  <2>1. RoomOf(none, none, 0) = [u \in Stakers |-> Scale]
    BY <1>4 DEF RoomOf
  <2>2. IsFiniteSet(Stakers) /\ Scale \in Nat
    BY StakersFinite
  <2>3. Total([u \in Stakers |-> Scale]) = Cardinality(Stakers) * Scale
    BY <2>2, TotalConst
  <2> QED
    BY <2>1, <2>3
<1>8. Covered(none, none, 0, Stakers \ {})
  BY <1>2, <1>3 DEF Covered
<1>9. (0 + 0) * Scale = 0 /\ 0 + 0 = 0
  BY <1>3
<1>10. PICK M \in Nat : M = Cardinality(Stakers) * Scale
  BY <1>3
<1>11. Book(none, none, 0, 0, 0, 0, 0, 0, {})
  <2>1. 0 * Scale + 0 + 0 <= (0 + 0) * Scale
    BY <1>3, <1>9
  <2>2. 0 * Scale + M <= 0 * Scale + M + 0 + 0 * Scale
    BY <1>3
  <2> QED
    BY <1>2, <1>5, <1>6, <1>7, <1>8, <1>10, <2>1, <2>2 DEF Book
<1> QED
  BY <1>1, <1>11 DEF StakingInv, StakingBook, StakingRest

LEMMA StakingTyped ==
    ASSUME StakingInv
    PROVE  /\ staked \in [Stakers -> Nat] /\ rewardDebt \in [Stakers -> Nat]
           /\ accRewardPerShare \in Nat /\ pool \in Nat /\ vault_usdc \in Nat
           /\ floored \in Nat /\ deposits \in Nat /\ exits \in Nat
           /\ Staking!totalSupply = Total(staked) /\ Total(staked) \in Nat
<1>1. staked \in [Stakers -> Nat]
  BY DEF StakingInv, StakingBook, Book
<1>2. Total(staked) \in Nat
  BY <1>1, StakersFinite, TotalType
<1> QED
  BY <1>1, <1>2, SameTotal DEF StakingInv, StakingBook, Book, Staking!totalSupply

LEMMA StakeIn ==
    ASSUME StakingInv, NEW u \in Stakers, NEW k \in Stakes, Staking!deposit(u, k)
    PROVE  StakingBook'
<1>1. k \in Nat \ {0} /\ k \in Nat
  BY StakingNumbers
<1>2. PICK A, w, h, f, n, e, s, D, behind, r :
          /\ A = accRewardPerShare /\ w = pool /\ h = vault_usdc /\ f = floored /\ n = deposits
          /\ e = exits /\ s = staked /\ D = rewardDebt /\ behind = partial /\ r = (k * A) \div Scale
  OBVIOUS
<1>3. Book(s, D, A, w, h, f, n, e, behind) /\ w \in Nat /\ h \in Nat /\ s \in [Stakers -> Nat]
  BY <1>2 DEF StakingInv, StakingBook, Book
<1> DEFINE s2 == [s EXCEPT ![u] = s[u] + k]
           D2 == [D EXCEPT ![u] = D[u] + r]
           S == Total(s) + k
<1>4. Book(s2, D2, A, w, h, f, n + 1, e, behind)
  BY <1>1, <1>2, <1>3, BookIn
<1>5. S \in Nat \ {0} /\ S = Total(s2)
  <2>1. s[u] \in Nat /\ s[u] + k \in Nat /\ IsFiniteSet(Stakers)
    BY <1>1, <1>3, StakersFinite
  <2>2. Total(s) \in Nat /\ Total([s EXCEPT ![u] = s[u] + k]) = Total(s) - s[u] + (s[u] + k)
    BY <1>3, <2>1, TotalUpdate
  <2> QED
    BY <1>1, <2>1, <2>2
<1>6. /\ rewardDebt' = D2 /\ staked' = s2
      /\ accRewardPerShare' = A + (w * Scale) \div S /\ pool' = 0 /\ floored' = f + ((w * Scale) % S)
      /\ deposits' = n + 1 /\ UNCHANGED <<vault_usdc, exits, partial>>
  BY <1>2, StakingTyped DEF Staking!deposit, Staking!Rewards
<1> HIDE DEF s2, D2, S
<1>7. h + 0 + w = h + w
  BY <1>3
<1>8. Book(s2, D2, A + (w * Scale) \div S, 0, h, f + ((w * Scale) % S), n + 1, e, behind)
  BY <1>3, <1>4, <1>5, <1>7, BookGrow
<1> QED
  BY <1>2, <1>6, <1>8 DEF StakingBook

LEMMA StakeOut ==
    ASSUME StakingInv, NEW u \in Stakers, NEW k \in Stakes, Staking!_withdraw(u, k)
    PROVE  StakingBook'
<1>1. k \in Nat
  BY StakingNumbers
<1>2. PICK A, w, h, f, n, e, s, D, behind, q, r :
          /\ A = accRewardPerShare /\ w = pool /\ h = vault_usdc /\ f = floored /\ n = deposits
          /\ e = exits /\ s = staked /\ D = rewardDebt /\ behind = partial /\ r = (k * A) \div Scale
          /\ q = (s[u] * A) \div Scale
  OBVIOUS
<1>3. Book(s, D, A, w, h, f, n, e, behind) /\ q \in Nat /\ D[u] \in Nat
  <2>1. Book(s, D, A, w, h, f, n, e, behind)
    BY <1>2 DEF StakingInv, StakingBook
  <2>2. s[u] \in Nat /\ A \in Nat /\ D[u] \in Nat /\ s[u] * A \in Nat
    BY <2>1, MulNat DEF Book
  <2> QED
    BY <1>2, <2>1, <2>2, Floored
<1>4. k <= s[u] /\ q >= D[u] /\ q - D[u] <= h
  BY <1>2 DEF Staking!_withdraw, Staking!PendingDefined, Staking!pendingRewards, Staking!Earned, Staking!Rewards
<1>5. /\ rewardDebt' = [D EXCEPT ![u] = q - r] /\ staked' = [s EXCEPT ![u] = s[u] - k]
      /\ vault_usdc' = h - (q - D[u]) /\ exits' = e + 1
      /\ partial' = IF k < s[u] THEN behind \cup {u} ELSE behind \ {u}
      /\ UNCHANGED <<accRewardPerShare, pool, deposits, floored>>
  BY <1>2 DEF Staking!_withdraw, Staking!DebtLeft, Staking!pendingRewards, Staking!Earned, Staking!Rewards
<1>6. Book([s EXCEPT ![u] = s[u] - k], [D EXCEPT ![u] = q - r], A, w, h - (q - D[u]), f, n, e + 1,
           IF k < s[u] THEN behind \cup {u} ELSE behind \ {u})
  <2>1. D[u] <= q
    BY <1>3, <1>4
  <2> QED
    BY <1>1, <1>2, <1>3, <1>4, <2>1, BookOut
<1> QED
  BY <1>2, <1>5, <1>6 DEF StakingBook

LEMMA ClaimKeeps ==
    ASSUME StakingInv, NEW u \in Stakers, Staking!claim(u)
    PROVE  StakingBook'
<1>1. PICK A, w, h, f, n, e, s, D, behind, q :
          /\ A = accRewardPerShare /\ w = pool /\ h = vault_usdc /\ f = floored /\ n = deposits
          /\ e = exits /\ s = staked /\ D = rewardDebt /\ behind = partial /\ q = (s[u] * A) \div Scale
  OBVIOUS
<1>2. Book(s, D, A, w, h, f, n, e, behind) /\ q \in Nat /\ D[u] \in Nat
  <2>1. Book(s, D, A, w, h, f, n, e, behind)
    BY <1>1 DEF StakingInv, StakingBook
  <2>2. s[u] \in Nat /\ A \in Nat /\ D[u] \in Nat /\ s[u] * A \in Nat
    BY <2>1, MulNat DEF Book
  <2> QED
    BY <1>1, <2>1, <2>2, Floored
<1>3. q >= D[u] /\ q - D[u] \in 1..h
  BY <1>1 DEF Staking!claim, Staking!PendingDefined, Staking!pendingRewards, Staking!Earned, Staking!Rewards
<1>4. /\ rewardDebt' = [D EXCEPT ![u] = q] /\ vault_usdc' = h - (q - D[u]) /\ partial' = behind \ {u}
      /\ UNCHANGED <<staked, accRewardPerShare, pool, deposits, exits, floored>>
  BY <1>1 DEF Staking!claim, Staking!pendingRewards, Staking!Earned, Staking!Rewards
<1>5. Book(s, [D EXCEPT ![u] = q], A, w, h - (q - D[u]), f, n, e, behind \ {u})
  <2>1. D[u] <= q /\ q - D[u] <= h
    BY <1>2, <1>3
  <2> QED
    BY <1>1, <1>2, <2>1, BookClaim
<1> QED
  BY <1>1, <1>4, <1>5 DEF StakingBook

(* A reward waits in the pool while nobody has shares, and is divided otherwise.              *)
LEMMA BookWaits ==
    ASSUME NEW s, NEW D, NEW A, NEW w, NEW h, NEW f, NEW n, NEW e, NEW behind,
           Book(s, D, A, w, h, f, n, e, behind), NEW a \in Nat
    PROVE  Book(s, D, A, w + a, h + a, f, n, e, behind)
<1>1. /\ s \in [Stakers -> Nat] /\ D \in [Stakers -> Nat] /\ A \in Nat /\ w \in Nat /\ h \in Nat
      /\ f \in Nat /\ n \in Nat /\ e \in Nat /\ NotShort(s, D, A) /\ Scale \in Nat
      /\ w + a \in Nat /\ h + a \in Nat
  BY StakersFinite DEF Book
<1>2. PICK T \in Nat, R \in Nat : T = Total(DueOf(s, D, A)) /\ R = Total(RoomOf(s, D, A))
  BY <1>1, DueType
<1>3. PICK W \in Nat, H \in Nat, N \in Nat, E \in Nat, M \in Nat, c \in Nat :
          /\ W = w * Scale /\ H = h * Scale /\ N = n * Scale /\ E = e * Scale
          /\ M = Cardinality(Stakers) * Scale /\ c = a * Scale
  BY <1>1, StakersFinite, MulNat
<1>4. /\ (w + a) * Scale = W + c /\ (h + a) * Scale = H + c
      /\ (h + n) * Scale = H + N /\ (h + a + n) * Scale = H + c + N
  BY <1>1, <1>3
<1>5. W + T + f <= H + N /\ H + M <= W + R + f + E
  BY <1>2, <1>3, <1>4 DEF Book
<1>6. (W + c) + T + f <= H + c + N /\ (H + c) + M <= (W + c) + R + f + E
  BY <1>1, <1>5
<1> QED
  BY <1>1, <1>2, <1>3, <1>4, <1>6 DEF Book

LEMMA RewardKeeps ==
    ASSUME StakingInv, NEW a \in Nat, Staking!notifyReward(a),
           UNCHANGED <<staked, rewardDebt, deposits, exits, partial>>
    PROVE  StakingBook'
<1>1. PICK A, w, h, f, n, e, s, D, behind, S :
          /\ A = accRewardPerShare /\ w = pool /\ h = vault_usdc /\ f = floored /\ n = deposits
          /\ e = exits /\ s = staked /\ D = rewardDebt /\ behind = partial /\ S = Total(s)
  OBVIOUS
<1>2. /\ Book(s, D, A, w, h, f, n, e, behind) /\ w \in Nat /\ h \in Nat
      /\ S \in Nat /\ S = Staking!totalSupply
  <2>1. S \in Nat /\ S = Staking!totalSupply
    BY <1>1, StakingTyped
  <2> QED
    BY <1>1, <2>1 DEF StakingInv, StakingBook, Book
<1>3. vault_usdc' = h + a /\ h + a \in Nat
  BY <1>1, <1>2 DEF Staking!notifyReward
<1>4. CASE S = 0
  <2>1. pool' = w + a /\ UNCHANGED <<accRewardPerShare, floored>>
    BY <1>1, <1>2, <1>4 DEF Staking!notifyReward
  <2>2. Book(s, D, A, w + a, h + a, f, n, e, behind)
    BY <1>2, BookWaits
  <2> QED
    BY <1>1, <1>3, <2>1, <2>2 DEF StakingBook
<1>5. CASE S # 0
  <2>1. /\ accRewardPerShare' = A + (a * Scale) \div S
        /\ floored' = f + ((a * Scale) % S) /\ pool' = w
    BY <1>1, <1>2, <1>5 DEF Staking!notifyReward
  <2>2. h + w + a = (h + a) + w /\ S \in Nat \ {0}
    BY <1>2, <1>5
  <2>3. Book(s, D, A + (a * Scale) \div S, w, h + a, f + ((a * Scale) % S), n, e, behind)
    BY <1>1, <1>2, <1>3, <2>2, BookGrow
  <2> QED
    BY <1>1, <1>3, <2>1, <2>3 DEF StakingBook
<1> QED
  BY <1>4, <1>5

(* The splitter's share of an amount is no more than it.                                   *)
LEMMA ShareWithin ==
    ASSUME StakingInv, NEW a \in Nat
    PROVE  Staking!ToStakers(a) \in Nat /\ Staking!ToStakers(a) <= a
<1>1. PICK p \in Nat : p = stakerShareBps /\ p <= SmallBPS
  BY StakingNumbers DEF StakingInv, StakingRest
<1>2. PICK c \in Nat, d \in Nat : c = a * p /\ d = a * SmallBPS /\ c <= d
  <2>1. SmallBPS \in Nat
    BY StakingNumbers
  <2> QED
    BY <1>1, <2>1, MulNat, MulMono
<1>3. PICK q \in Nat : q = c \div SmallBPS /\ q * SmallBPS <= c
  BY StakingNumbers
<1>4. q * SmallBPS <= a * SmallBPS
  <2>1. PICK m \in Nat : m = q * SmallBPS
    BY StakingNumbers, MulNat
  <2> QED
    BY <1>2, <1>3, <2>1
<1>5. q <= a
  BY <1>4, StakingNumbers, MulCancel
<1> QED
  BY <1>1, <1>2, <1>3, <1>5 DEF Staking!ToStakers

LEMMA SplitKeeps ==
    ASSUME StakingInv, NEW a \in Nat, Staking!Split(a),
           UNCHANGED <<staked, rewardDebt, deposits, exits, partial>>
    PROVE  StakingBook' /\ treasury' \in Nat
<1>1. PICK b \in Nat : b = Staking!ToStakers(a) /\ b <= a
  BY ShareWithin
<1>2. treasury' \in Nat
  <2>1. treasury' = treasury + a - b /\ treasury \in Nat
    BY <1>1 DEF Staking!Split, StakingInv, StakingRest
  <2>2. PICK t \in Nat : t = treasury
    BY <2>1
  <2>3. t + a - b \in Nat
    BY <1>1
  <2> QED
    BY <2>1, <2>2, <2>3
<1>3. CASE b > 0
  <2>1. Staking!notifyReward(b)
    BY <1>1, <1>3 DEF Staking!Split
  <2> QED
    BY <1>2, <2>1, RewardKeeps
<1>4. CASE b = 0
  <2>1. ~ (b > 0)
    BY <1>4
  <2>2. UNCHANGED <<vault_usdc, pool, accRewardPerShare, floored>>
    BY <1>1, <2>1 DEF Staking!Split
  <2>3. StakingBook
    BY DEF StakingInv
  <2> QED
    BY <1>2, <2>2, <2>3 DEF StakingBook
<1>5. b > 0 \/ b = 0
  OBVIOUS
<1> QED
  BY <1>3, <1>4, <1>5

LEMMA StakingStepKeeps == ASSUME StakingInv, Staking!Next PROVE StakingInv'
<1>1. StakingBook /\ treasury \in Nat /\ splitter_held \in Nat /\ stakerShareBps \in ShareChoices
  BY DEF StakingInv, StakingRest
<1>2. CASE Staking!Move
  <2>1. PICK u \in Stakers :
            \/ Staking!claim(u)
            \/ \E k \in Stakes : Staking!deposit(u, k) \/ Staking!_withdraw(u, k)
    BY <1>2 DEF Staking!Move
  <2>2. StakingBook'
    BY <2>1, ClaimKeeps, StakeIn, StakeOut
  <2>3. UNCHANGED <<treasury, splitter_held, stakerShareBps>>
    BY <2>1 DEF Staking!claim, Staking!deposit, Staking!_withdraw
  <2> QED
    BY <1>1, <2>2, <2>3 DEF StakingInv, StakingRest
<1>3. CASE Staking!Revenue
  <2>1. UNCHANGED <<staked, rewardDebt, deposits, exits, partial>>
    BY <1>3 DEF Staking!Revenue
  <2>2. CASE \E a \in StakingRevenues : Staking!distribute(a) /\ UNCHANGED stakerShareBps
    <3>1. PICK a \in StakingRevenues : Staking!distribute(a) /\ UNCHANGED stakerShareBps
      BY <2>2
    <3>2. a \in Nat /\ Staking!Split(a) /\ UNCHANGED <<splitter_held, stakerShareBps>>
      BY <3>1, StakingNumbers DEF Staking!distribute
    <3>3. StakingBook' /\ treasury' \in Nat
      BY <2>1, <3>2, SplitKeeps
    <3> QED
      BY <1>1, <3>2, <3>3 DEF StakingInv, StakingRest
  <2>3. CASE \E a \in StakingRevenues : Staking!SendToSplitter(a) /\ UNCHANGED stakerShareBps
    <3>1. PICK a \in StakingRevenues : Staking!SendToSplitter(a) /\ UNCHANGED stakerShareBps
      BY <2>3
    <3>2. UNCHANGED <<vault_usdc, pool, accRewardPerShare, floored, treasury, stakerShareBps>>
      BY <3>1 DEF Staking!SendToSplitter
    <3>3. splitter_held' \in Nat
      <4>1. splitter_held' = splitter_held + a /\ a \in Nat
        BY <3>1, StakingNumbers DEF Staking!SendToSplitter
      <4> QED
        BY <1>1, <4>1
    <3> QED
      BY <1>1, <2>1, <3>2, <3>3 DEF StakingInv, StakingRest, StakingBook
  <2>4. CASE \E a \in StakingRevenues :
                 Staking!notifyReward(a) /\ UNCHANGED <<treasury, splitter_held, stakerShareBps>>
    <3>1. PICK a \in StakingRevenues :
              Staking!notifyReward(a) /\ UNCHANGED <<treasury, splitter_held, stakerShareBps>>
      BY <2>4
    <3>2. a \in Nat
      BY StakingNumbers
    <3>3. StakingBook'
      BY <2>1, <3>1, <3>2, RewardKeeps
    <3> QED
      BY <1>1, <3>1, <3>3 DEF StakingInv, StakingRest
  <2>5. CASE Staking!distributeBalance /\ UNCHANGED stakerShareBps
    <3>1. Staking!Split(splitter_held) /\ splitter_held' = 0
      BY <2>5 DEF Staking!distributeBalance
    <3>2. StakingBook' /\ treasury' \in Nat
      BY <1>1, <2>1, <3>1, SplitKeeps
    <3> QED
      BY <1>1, <2>5, <3>1, <3>2 DEF StakingInv, StakingRest
  <2>6. CASE \E share \in ShareChoices : Staking!setConfig(share)
    <3>1. PICK share \in ShareChoices : Staking!setConfig(share)
      BY <2>6
    <3>2. stakerShareBps' = share
          /\ UNCHANGED <<vault_usdc, pool, accRewardPerShare, floored, treasury, splitter_held>>
      BY <3>1 DEF Staking!setConfig
    <3> QED
      BY <1>1, <2>1, <3>2 DEF StakingInv, StakingRest, StakingBook
  <2> QED
    BY <1>3, <2>2, <2>3, <2>4, <2>5, <2>6 DEF Staking!Revenue
<1> QED
  BY <1>2, <1>3 DEF Staking!Next

(* What a staker can be paid, and what the accumulator holds for them in parts of Scale.      *)
Payable == [u \in Stakers |-> IF Staking!PendingDefined(u) THEN Staking!pendingRewards(u) ELSE 0]
Held(u) == Scale * Payable[u]
Beyond(u) == Scale * Payable[u] + 2 * Scale

LEMMA PayableFits ==
    ASSUME StakingInv, NEW u \in Stakers
    PROVE  /\ Payable[u] \in Nat
           /\ Held(u) <= DueOf(staked, rewardDebt, accRewardPerShare)[u]
           /\ RoomOf(staked, rewardDebt, accRewardPerShare)[u] <= Beyond(u)
           /\ rewardDebt[u] <= Staking!Earned(u) + 1
           /\ u \notin partial => Staking!PendingDefined(u)
<1>1. PICK m, c, A, q : /\ m = staked[u] /\ c = rewardDebt[u] /\ A = accRewardPerShare
                        /\ q = (m * A) \div Scale
  OBVIOUS
<1>2. /\ StakingBook /\ m \in Nat /\ c \in Nat /\ A \in Nat /\ Scale \in Nat \ {0}
      /\ Near(m, c, A) /\ (u \notin partial => c * Scale <= m * A)
  BY <1>1, StakersFinite DEF StakingInv, StakingBook, Book, NotShort, Covered
<1>3. PICK a \in Nat, b \in Nat, z \in Nat :
          a = m * A /\ b = c * Scale /\ z = q * Scale /\ q \in Nat /\ z <= a /\ a < z + Scale
  BY <1>1, <1>2, MulNat, Floored
<1>4. Staking!Earned(u) = q /\ (Staking!PendingDefined(u) <=> q >= c)
      /\ Payable[u] = IF q >= c THEN q - c ELSE 0
  BY <1>1 DEF Staking!Earned, Staking!Rewards, Staking!PendingDefined, Staking!pendingRewards, Payable
<1>5. b < a + Scale /\ (u \notin partial => b <= a)
  BY <1>2, <1>3 DEF Near
<1>6. /\ DueOf(staked, rewardDebt, accRewardPerShare)[u] = IF b <= a THEN a - b ELSE 0
      /\ RoomOf(staked, rewardDebt, accRewardPerShare)[u] = a + Scale - b
  BY <1>1, <1>3 DEF DueOf, RoomOf, Due, Room
<1>7. c <= q + 1
  <2> SUFFICES ASSUME c >= q + 2 PROVE FALSE
    BY <1>2, <1>3
  <2>1. q + 2 \in Nat /\ q + 2 <= c
    BY <1>3
  <2>2. (q + 2) * Scale <= c * Scale
    BY <1>2, <2>1, MulMono
  <2>3. (q + 2) * Scale = q * Scale + Scale + Scale
    BY <1>2, <1>3
  <2>4. z + Scale + Scale <= b
    BY <1>3, <2>2, <2>3
  <2> QED
    BY <1>2, <1>3, <1>5, <2>4
<1>8. ASSUME q < c PROVE z + Scale <= b
  <2>1. q + 1 \in Nat /\ q + 1 <= c
    BY <1>2, <1>3, <1>8
  <2>2. (q + 1) * Scale <= c * Scale
    BY <1>2, <2>1, MulMono
  <2>3. (q + 1) * Scale = q * Scale + Scale
    BY <1>2, <1>3
  <2> QED
    BY <1>3, <2>2, <2>3
<1>9. CASE q >= c
  <2>1. PICK p \in Nat, t \in Nat : p = q - c /\ t = Scale * p
    BY <1>2, <1>3, <1>9, MulNat
  <2>2. t = z - b
    <3>1. Scale * (q - c) = q * Scale - c * Scale
      BY <1>2, <1>3
    <3> QED
      BY <1>3, <2>1, <3>1
  <2>3. Payable[u] = p
    BY <1>4, <1>9, <2>1
  <2>4. t <= (IF b <= a THEN a - b ELSE 0) /\ a + Scale - b <= t + 2 * Scale
    BY <1>2, <1>3, <2>1, <2>2
  <2>5. Held(u) = t /\ Beyond(u) = t + 2 * Scale
    BY <2>1, <2>3 DEF Held, Beyond
  <2>6. Staking!PendingDefined(u)
    BY <1>4, <1>9
  <2> QED
    BY <1>1, <1>4, <1>6, <1>7, <2>1, <2>3, <2>4, <2>5, <2>6
<1>10. CASE q < c
  <2>1. Payable[u] = 0 /\ ~ (q >= c)
    BY <1>2, <1>3, <1>4, <1>10
  <2>2. a < b
    BY <1>2, <1>3, <1>8, <1>10
  <2>3. Scale * 0 = 0
    BY <1>2
  <2>4. 0 <= (IF b <= a THEN a - b ELSE 0) /\ a + Scale - b <= 0 + 2 * Scale
    BY <1>2, <1>3, <2>2
  <2>5. u \in partial
    BY <1>3, <1>5, <2>2
  <2>6. Held(u) = 0 /\ Beyond(u) = 0 + 2 * Scale
    BY <2>1, <2>3 DEF Held, Beyond
  <2> QED
    BY <1>1, <1>4, <1>6, <1>7, <2>1, <2>4, <2>5, <2>6
<1> QED
  BY <1>2, <1>3, <1>9, <1>10

LEMMA StakingAddsUp == ASSUME StakingInv PROVE Staking!RewardsAddUp
<1>1. PICK s, D, A, w, h, f, n, e :
          /\ s = staked /\ D = rewardDebt /\ A = accRewardPerShare /\ w = pool /\ h = vault_usdc
          /\ f = floored /\ n = deposits /\ e = exits
  OBVIOUS
<1>2. /\ Book(s, D, A, w, h, f, n, e, partial) /\ w \in Nat /\ h \in Nat /\ f \in Nat /\ n \in Nat
      /\ e \in Nat /\ s \in [Stakers -> Nat] /\ D \in [Stakers -> Nat] /\ A \in Nat
      /\ NotShort(s, D, A)
  BY <1>1 DEF StakingInv, StakingBook, Book
<1>3. /\ DueOf(s, D, A) \in [Stakers -> Nat] /\ Total(DueOf(s, D, A)) \in Nat
      /\ RoomOf(s, D, A) \in [Stakers -> Nat] /\ Total(RoomOf(s, D, A)) \in Nat
  BY <1>2, DueType
<1>4. /\ IsFiniteSet(Stakers) /\ Payable \in [Stakers -> Nat] /\ Total(Payable) \in Nat
      /\ Scale \in Nat /\ 2 * Scale \in Nat
  <2>1. \A u \in Stakers : Payable[u] \in Nat
    BY PayableFits
  <2>2. Payable \in [Stakers -> Nat]
    BY <2>1 DEF Payable
  <2> QED
    BY <2>2, StakersFinite, TotalType
<1> DEFINE P == Payable
           low == [u \in Stakers |-> Scale * P[u]]
           two == [u \in Stakers |-> 2 * Scale]
           high == [u \in Stakers |-> low[u] + two[u]]
<1> HIDE DEF P
<1>5. low \in [Stakers -> Nat] /\ two \in [Stakers -> Nat] /\ high \in [Stakers -> Nat]
  <2>1. P \in [Stakers -> Nat]
    BY <1>4 DEF P
  <2>2. \A u \in Stakers : Scale * P[u] \in Nat
    BY <1>4, <2>1, MulNat
  <2> QED
    BY <1>4, <2>2
<1>6. \A u \in Stakers : low[u] <= DueOf(s, D, A)[u] /\ RoomOf(s, D, A)[u] <= high[u]
  BY <1>1, PayableFits DEF Held, Beyond, P
<1>7. PICK O \in Nat : O = Total(P)
  BY <1>4 DEF P
<1>8. Total(low) = Scale * O
  <2>1. P \in [Stakers -> Nat]
    BY <1>4 DEF P
  <2> QED
    BY <1>4, <1>7, <2>1, TotalScale
<1>9. PICK M \in Nat : M = Cardinality(Stakers) * Scale /\ Total(two) = M + M
  <2>1. Total(two) = Cardinality(Stakers) * (2 * Scale)
    BY <1>4, TotalConst
  <2>2. PICK k \in Nat : k = Cardinality(Stakers)
    BY StakersFinite
  <2>3. k * (2 * Scale) = k * Scale + k * Scale /\ k * Scale \in Nat
    BY <1>4, MulNat
  <2> QED
    BY <2>1, <2>2, <2>3
<1> HIDE DEF low, two
<1>10. Total(high) = Total(low) + Total(two)
  BY <1>4, <1>5, TotalAdd
<1> HIDE DEF high
<1>11. Total(low) <= Total(DueOf(s, D, A)) /\ Total(RoomOf(s, D, A)) <= Total(high)
  BY <1>3, <1>4, <1>5, <1>6, TotalMono
<1>12. PICK W \in Nat, H \in Nat, N \in Nat, E \in Nat, Z \in Nat, T \in Nat, R \in Nat :
           /\ W = w * Scale /\ H = h * Scale /\ N = n * Scale /\ E = e * Scale /\ Z = Scale * O
           /\ T = Total(DueOf(s, D, A)) /\ R = Total(RoomOf(s, D, A))
  BY <1>2, <1>3, <1>4, <1>7, MulNat
<1>13. (h + n) * Scale = H + N
  BY <1>2, <1>4, <1>12
<1>14. W + T + f <= H + N /\ H + M <= W + R + f + E /\ Z <= T /\ R <= Z + M + M
  BY <1>2, <1>8, <1>9, <1>10, <1>11, <1>12, <1>13 DEF Book
<1>15. Staking!Owed = w + O
  BY <1>1, <1>7, SameTotal DEF Staking!Owed, Payable, P
<1>16. w + O <= h + n
  <2>1. w + O \in Nat /\ h + n \in Nat /\ Scale \in Nat \ {0}
    BY <1>2, <1>7, StakersFinite
  <2>2. (w + O) * Scale = W + Z
    BY <1>2, <1>4, <1>7, <1>12
  <2>3. (w + O) * Scale <= (h + n) * Scale
    BY <1>2, <1>13, <1>14, <2>2
  <2> QED
    BY <2>1, <2>3, MulCancel
<1>17. (h - (w + O)) * Scale <= f + Scale * (e + Cardinality(Stakers))
  <2>1. (h - (w + O)) * Scale = H - (W + Z)
    BY <1>2, <1>4, <1>7, <1>12
  <2>2. PICK k \in Nat : k = Cardinality(Stakers)
    BY StakersFinite
  <2>3. Scale * (e + k) = E + M
    <3>1. Scale * (e + k) = e * Scale + k * Scale
      BY <1>2, <1>4
    <3> QED
      BY <1>9, <1>12, <2>2, <3>1
  <2>4. H - (W + Z) <= f + (E + M)
    BY <1>2, <1>14
  <2> QED
    BY <2>1, <2>2, <2>3, <2>4
<1>18. Staking!Cardinality(Stakers) = Cardinality(Stakers)
  BY Zenon DEF Staking!Cardinality, Cardinality
<1> QED
  BY <1>1, <1>15, <1>16, <1>17, <1>18 DEF Staking!RewardsAddUp

LEMMA StakingServes == ASSUME StakingInv PROVE Staking!StakingTypeOK /\ Staking!StakingFaithful
<1>1. Staking!StakingTypeOK
  BY DEF StakingInv, StakingBook, StakingRest, Book, Staking!StakingTypeOK
<1>2. Staking!StakersServed
  BY PayableFits DEF Staking!StakersServed
<1> QED
  BY <1>1, <1>2, StakingAddsUp DEF Staking!StakingFaithful

-----------------------------------------------------------------------------
(* One behaviour, one contract: the others' registers stay as they are.                    *)

MarketInv ==
    /\ part = "staking" => StakingInv
    /\ part = "curve" => CurveInv
    /\ part = "bridge" => BridgeInv
    /\ YieldInv

LEMMA StakingStays == ASSUME StakingInv, UNCHANGED stakingVars PROVE StakingInv'
BY DEF StakingInv, StakingBook, StakingRest, stakingVars

LEMMA CurveStays == ASSUME CurveInv, UNCHANGED curveVars PROVE CurveInv'
<1>1. Curve!StopsAtThreshold'
  BY DEF CurveInv, CurveBook, Curve!StopsAtThreshold, Curve!raisedUsdc, curveVars
<1> QED
  BY <1>1, QuietKeeps DEF CurveInv, Curve!CurveTypeOK, curveVars

LEMMA BridgeStays == ASSUME BridgeInv, UNCHANGED bridgeVars PROVE BridgeInv'
<1>1. bridge_held' = bridge_held /\ usedIntent' = usedIntent /\ feeBps' = feeBps /\ delivered' = delivered
  BY DEF bridgeVars
<1>2. BridgeFilled' = BridgeFilled
  BY <1>1 DEF BridgeFilled, Bridge!FilledOf
<1> QED
  BY <1>1, <1>2 DEF BridgeInv, BridgeCovered, Bridge!CrossChainTypeOK

LEMMA YieldStays == ASSUME YieldInv, UNCHANGED yieldVars PROVE YieldInv' /\ UNCHANGED Yield!vars
BY DEF YieldInv, Yield!YieldTypeOK, yieldVars, Yield!vars

LEMMA MarketStarts == ASSUME MarketInit PROVE MarketInv
<1>1. YieldInv
  BY YieldInit DEF MarketInit, YieldOff
<1> QED
  BY <1>1, StakingInit, CurveInit, BridgeInit DEF MarketInit, MarketInv

LEMMA MarketStepKeeps ==
    ASSUME MarketInv, [MarketNext]_marketVars
    PROVE  MarketInv' /\ [ValueKept]_(Yield!vars)
<1>1. CASE YieldStep
  <2>1. part = "yield" /\ part' = part /\ Yield!Next /\ YieldInv
    BY <1>1 DEF YieldStep, MarketInv
  <2>2. YieldInv' /\ ValueKept
    BY <2>1, YieldStepKeeps, ValueKeeps
  <2> QED
    BY <2>1, <2>2 DEF MarketInv
<1>2. CASE UNCHANGED <<part, yieldVars>>
  <2>1. YieldInv' /\ UNCHANGED Yield!vars /\ part' = part
    BY <1>2, YieldStays DEF MarketInv
  <2>2. CASE StakingStep
    BY <2>1, <2>2, StakingStepKeeps DEF StakingStep, MarketInv
  <2>3. CASE CurveStep
    BY <2>1, <2>3, CurveStepKeeps DEF CurveStep, MarketInv
  <2>4. CASE BridgeStep
    BY <2>1, <2>4, BridgeStepKeeps DEF BridgeStep, MarketInv
  <2>5. CASE UNCHANGED <<stakingVars, curveVars, bridgeVars>>
    BY <2>1, <2>5, StakingStays, CurveStays, BridgeStays DEF MarketInv
  <2>6. CASE CreditStep
    BY <2>5, <2>6 DEF CreditStep
  <2>7. CASE UNCHANGED marketVars
    BY <2>5, <2>7 DEF marketVars
  <2>8. CASE YieldStep
    BY <1>1, <2>8
  <2> QED
    BY <2>2, <2>3, <2>4, <2>6, <2>7, <2>8 DEF MarketNext
<1>3. YieldStep \/ UNCHANGED <<part, yieldVars>>
  BY DEF MarketNext, CreditStep, StakingStep, CurveStep, BridgeStep, marketVars
<1> QED
  BY <1>1, <1>2, <1>3

LEMMA MarketServes ==
    ASSUME MarketInv
    PROVE  /\ part = "staking" => Staking!StakingTypeOK /\ Staking!StakingFaithful
           /\ part = "curve" => Curve!CurveTypeOK /\ Curve!CurveFaithful
           /\ part = "bridge" => Bridge!CrossChainTypeOK /\ Bridge!CrossChainFaithful
           /\ part = "yield" => Yield!YieldTypeOK
<1>1. part = "curve" => Curve!CurveTypeOK /\ Curve!CurveFaithful
  BY CurveServes DEF MarketInv, CurveInv, CurveBook, Curve!CurveFaithful
<1>2. part = "bridge" => Bridge!CrossChainTypeOK /\ Bridge!CrossChainFaithful
  BY BridgeServes DEF MarketInv, BridgeInv
<1>3. Yield!YieldTypeOK
  BY DEF MarketInv, YieldInv
<1> QED
  BY <1>1, <1>2, <1>3, StakingServes DEF MarketInv

(* The staking vault owes what it holds up to its floors and only a partial withdrawal can    *)
(* leave a staker waiting; the curve stays backed, keeps its product, stops at its threshold   *)
(* and buys back whatever anybody holds; a delivery pays its owner's intent unless another     *)
(* was filled ahead of its own; and a step of one holder of the yield vault takes less than    *)
(* a share is worth from the others: AgentStakingVault.sol, AgentBondingCurve.sol,            *)
(* CrossChainOrderExecutor.sol and AgentYieldVault.sol, for any parties, amounts and rates.    *)
THEOREM MarketKeepsPromises == MarketSpec => ContractsFaithful
<1>1. MarketInit => MarketInv
  BY MarketStarts
<1>2. MarketInv /\ [MarketNext]_marketVars => MarketInv' /\ [ValueKept]_(Yield!vars)
  BY MarketStepKeeps
<1>3. MarketInv => /\ part = "staking" => Staking!StakingTypeOK /\ Staking!StakingFaithful
                   /\ part = "curve" => Curve!CurveTypeOK /\ Curve!CurveFaithful
                   /\ part = "bridge" => Bridge!CrossChainTypeOK /\ Bridge!CrossChainFaithful
                   /\ part = "yield" => Yield!YieldTypeOK
  BY MarketServes
<1>4. MarketSpec => [][ValueKept]_(Yield!vars)
  BY <1>1, <1>2, PTL DEF MarketSpec
<1>5. MarketSpec => Yield!OthersKeepTheirValue
  BY <1>4, PTL DEF Yield!OthersKeepTheirValue, ValueKept
<1> QED
  BY <1>1, <1>2, <1>3, <1>5, PTL DEF MarketSpec, ContractsFaithful
=============================================================================
