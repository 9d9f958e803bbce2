------------------------ MODULE OrderExecutor_proofs ------------------------
(* Safety of OrderExecutor for every set of signatures, every balance and     *)
(* every bound.                                                               *)
EXTENDS OrderExecutor, Totals_proofs

Balances == [Tokens -> [Accounts -> Nat]]

(* What a transfer that its sender can afford does to the balances.           *)
LEMMA TransferType ==
    ASSUME NEW b \in Balances, NEW t \in Tokens,
           NEW from \in Accounts, NEW to \in Accounts, NEW n \in Nat, n <= b[t][from]
    PROVE  Transfer(b, t, from, to, n) \in Balances
BY DEF Transfer, Balances

LEMMA TransferFrame ==
    ASSUME NEW b \in Balances, NEW t \in Tokens,
           NEW from \in Accounts, NEW to \in Accounts, NEW n \in Nat,
           NEW s \in Tokens, NEW a \in Accounts, s # t \/ (a # from /\ a # to)
    PROVE  Transfer(b, t, from, to, n)[s][a] = b[s][a]
BY DEF Transfer, Balances

LEMMA TransferAll ==
    ASSUME NEW b \in Balances, NEW t \in Tokens,
           NEW from \in Accounts, NEW to \in Accounts, from # to
    PROVE  Transfer(b, t, from, to, b[t][from])[t][from] = 0
BY DEF Transfer, Balances

LEMMA FeeNat == ASSUME TypeOK, NEW a \in Nat PROVE Fee(a) \in Nat
<1>1. feeBps \in Nat
  BY NumericConstants DEF TypeOK
<1>2. a * feeBps \in Nat
  BY <1>1, MulNat
<1>3. (a * feeBps) \div BPS \in Nat
  BY <1>2, DivNat, NumericConstants
<1> QED
  BY <1>3 DEF Fee

LEMMA TransferGain ==
    ASSUME NEW b \in Balances, NEW t \in Tokens,
           NEW from \in Accounts, NEW to \in Accounts, NEW n \in Nat,
           NEW s \in Tokens, NEW a \in Accounts, a # from
    PROVE  Transfer(b, t, from, to, n)[s][a] >= b[s][a]
BY DEF Transfer, Balances

(* A swap spends what the executor holds of tokenIn and refunds the rest, so  *)
(* it leaves the executor with nothing, nobody with a negative balance, and    *)
(* no user with less.                                                         *)
LEMMA SwapEffect ==
    ASSUME TypeOK, NEW b \in Balances, NEW t \in Tokens, NEW user \in Users,
           NEW amount \in Nat, NEW target \in Targets, NEW r \in RouterCall,
           SwapPossible(b, t, amount, target, r),
           \A s \in Tokens \ {t} : b[s][Executor] = 0
    PROVE  /\ Swap(b, user, t, amount, target, r) \in Balances
           /\ \A s \in Tokens : Swap(b, user, t, amount, target, r)[s][Executor] = 0
           /\ \A s \in Tokens, v \in Users :
                Swap(b, user, t, amount, target, r)[s][v] >= b[s][v]
<1> DEFINE b1 == TakeFee(b, t, amount)
           b2 == Transfer(b1, t, Executor, target, r.used)
           b3 == Transfer(b2, r.token, target, r.to, r.out)
           b4 == Transfer(b3, t, Executor, user, b3[t][Executor])
<1>0. /\ Swap(b, user, t, amount, target, r) = b4
      /\ r.used <= b1[t][Executor]
      /\ r.out <= b2[r.token][target]
  BY DEF Swap, Refund, RouterSwap, SwapPossible
<1>1. /\ Executor \in Accounts /\ target \in Accounts /\ user \in Accounts
      /\ r.to \in Accounts /\ r.token \in Tokens /\ r.used \in Nat /\ r.out \in Nat
      /\ target # Executor /\ user # Executor /\ r.to # Executor
      /\ Users \subseteq Accounts /\ Executor \notin Users /\ target \notin Users
  <2>1. Executor \notin Keepers
    BY DistinctAccounts DEF Accounts
  <2> QED
    BY <2>1, DistinctAccounts, NumericConstants DEF Accounts, RouterCall, Amounts
<1>2. /\ b1 \in Balances /\ \A s \in Tokens \ {t} : b1[s][Executor] = 0
      /\ \A s \in Tokens, v \in Users : b1[s][v] >= b[s][v]
  <2>1. CASE Fee(amount) > 0
    <3>1. feeRecipient \in Accounts
      BY <2>1 DEF Fee, TypeOK
    <3>2. Fee(amount) \in Nat /\ Fee(amount) <= b[t][Executor]
      BY FeeNat DEF SwapPossible
    <3>3. b1 = Transfer(b, t, Executor, feeRecipient, Fee(amount))
      BY <2>1 DEF TakeFee
    <3>4. b1 \in Balances
      BY <3>1, <3>2, <3>3, <1>1, TransferType
    <3>5. ASSUME NEW s \in Tokens \ {t} PROVE b1[s][Executor] = b[s][Executor]
      BY <3>1, <3>2, <3>3, <1>1, TransferFrame
    <3>6. ASSUME NEW s \in Tokens, NEW v \in Users PROVE b1[s][v] >= b[s][v]
      BY <3>1, <3>2, <3>3, <1>1, TransferGain
    <3> QED
      BY <3>4, <3>5, <3>6
  <2>2. CASE ~(Fee(amount) > 0)
    BY <2>2, <1>1 DEF TakeFee, Balances
  <2> QED
    BY <2>1, <2>2
<1> HIDE DEF b1
<1>3. /\ b2 \in Balances /\ \A s \in Tokens \ {t} : b2[s][Executor] = 0
      /\ \A s \in Tokens, v \in Users : b2[s][v] >= b1[s][v]
  <2>1. b2 \in Balances
    BY <1>0, <1>1, <1>2, TransferType
  <2>2. ASSUME NEW s \in Tokens \ {t} PROVE b2[s][Executor] = b1[s][Executor]
    BY <1>1, <1>2, TransferFrame
  <2>3. ASSUME NEW s \in Tokens, NEW v \in Users PROVE b2[s][v] >= b1[s][v]
    BY <1>1, <1>2, TransferGain
  <2> QED
    BY <2>1, <2>2, <2>3, <1>2
<1> HIDE DEF b2
<1>4. /\ b3 \in Balances /\ \A s \in Tokens \ {t} : b3[s][Executor] = 0
      /\ \A s \in Tokens, v \in Users : b3[s][v] >= b2[s][v]
  <2>1. b3 \in Balances
    BY <1>0, <1>1, <1>3, TransferType
  <2>2. ASSUME NEW s \in Tokens \ {t} PROVE b3[s][Executor] = b2[s][Executor]
    BY <1>1, <1>3, TransferFrame
  <2>3. ASSUME NEW s \in Tokens, NEW v \in Users PROVE b3[s][v] >= b2[s][v]
    BY <1>1, <1>3, TransferGain
  <2> QED
    BY <2>1, <2>2, <2>3, <1>3
<1> HIDE DEF b3
<1>5. b3[t][Executor] \in Nat
  BY <1>1, <1>4 DEF Balances
<1>6. b4 \in Balances
  BY <1>1, <1>4, <1>5, TransferType
<1>7. \A s \in Tokens : b4[s][Executor] = 0
  <2>1. ASSUME NEW s \in Tokens, s # t PROVE b4[s][Executor] = b3[s][Executor]
    <3> DEFINE rest == b3[t][Executor]
    <3>1. rest \in Nat
      BY <1>5
    <3> HIDE DEF rest
    <3>2. Transfer(b3, t, Executor, user, rest)[s][Executor] = b3[s][Executor]
      BY <2>1, <3>1, <1>1, <1>4, TransferFrame
    <3> QED
      BY <3>2 DEF rest
  <2>2. b4[t][Executor] = 0
    BY <1>1, <1>4, TransferAll
  <2> QED
    BY <2>1, <2>2, <1>4
<1>8. ASSUME NEW s \in Tokens, NEW v \in Users PROVE b4[s][v] >= b[s][v]
  <2> DEFINE rest == b3[t][Executor]
  <2>1. rest \in Nat
    BY <1>5
  <2> HIDE DEF rest
  <2>2. Transfer(b3, t, Executor, user, rest)[s][v] >= b3[s][v]
    BY <2>1, <1>1, <1>4, TransferGain
  <2>3. b4[s][v] >= b3[s][v]
    BY <2>2 DEF rest
  <2>4. /\ b4[s][v] \in Int /\ b3[s][v] \in Int /\ b2[s][v] \in Int /\ b1[s][v] \in Int
        /\ b[s][v] \in Int
    BY <1>1, <1>2, <1>3, <1>4, <1>6 DEF Balances
  <2> QED
    BY <2>3, <2>4, <1>2, <1>3, <1>4
<1> QED
  BY <1>0, <1>6, <1>7, <1>8

(* Pulling from a user touches no other token of the executor.                *)
LEMMA PullEffect ==
    ASSUME TypeOK, NoResidue, NEW t \in Tokens, NEW u \in Users, NEW n \in Nat, n <= bal[t][u]
    PROVE  /\ Transfer(bal, t, u, Executor, n) \in Balances
           /\ \A s \in Tokens \ {t} : Transfer(bal, t, u, Executor, n)[s][Executor] = 0
<1>1. bal \in Balances /\ u \in Accounts /\ Executor \in Accounts
  BY DEF TypeOK, Balances, Accounts
<1> QED
  BY <1>1, TransferType, TransferFrame DEF NoResidue

LEMMA ReceivedNat ==
    ASSUME NEW b \in Balances, NEW a \in Balances, NEW t \in Tokens, NEW u \in Users
    PROVE  Received(b, a, t, u) \in Nat
BY DEF Received, Balances, Accounts

-----------------------------------------------------------------------------
(* Rounding: a floored quotient loses less than one divisor.                   *)

LEMMA DivFloor == ASSUME NEW a \in Nat, NEW d \in Nat \ {0} PROVE (a \div d) * d + (d - 1) >= a
OBVIOUS

LEMMA ModLe == ASSUME NEW a \in Nat, NEW d \in Nat \ {0} PROVE a % d \in Nat /\ a % d <= a
OBVIOUS

LEMMA Distribute == ASSUME NEW a \in Nat, NEW b \in Nat, NEW c \in Int
                    PROVE  (a + b) * c = a * c + b * c
OBVIOUS

(* One part: what the executor demanded covers the signed rate on what it      *)
(* pulled, up to one rounding unit; a part wider than the uint160 it is cast   *)
(* to only pulls less.                                                         *)
LEMMA PartRate ==
    ASSUME NEW part \in Nat, NEW rate \in Nat, NEW got \in Nat, NEW minOut \in Nat,
           minOut >= (part * rate) \div RateScale, got >= minOut
    PROVE  got * RateScale + (RateScale - 1) >= (part % U160) * rate
<1> DEFINE q == (part * rate) \div RateScale
<1>1. RateScale \in Nat \ {0} /\ U160 \in Nat \ {0}
  BY NumericConstants
<1>2. part * rate \in Nat
  BY MulNat
<1>3. q \in Nat /\ q * RateScale + (RateScale - 1) >= part * rate
  BY <1>1, <1>2, DivNat, DivFloor
<1>4. part % U160 \in Nat /\ (part % U160) * rate <= part * rate
  BY <1>1, ModLe, MulMono
<1>5. q * RateScale <= got * RateScale
  <2>1. q <= got
    BY <1>3
  <2> QED
    BY <1>1, <1>3, <2>1, MulMono
<1>6. /\ (part % U160) * rate \in Nat /\ got * RateScale \in Nat /\ q * RateScale \in Nat
  BY <1>1, <1>3, <1>4, MulNat
<1> HIDE DEF q
<1> QED
  BY <1>1, <1>2, <1>3, <1>4, <1>5, <1>6

-----------------------------------------------------------------------------
(* The inductive invariant: the nonce of a filled order is recorded as spent,  *)
(* which is what rules out a second fill.                                      *)

NoncesRecorded ==
    \A o \in Orders : ledger.fills[o] > 0 => o.nonce \in nonceUsed[o.owner]

IInv == /\ TypeOK
        /\ NoResidue
        /\ NoncesRecorded
        /\ NonceFillsOnce
        /\ FillsHonourMinOut
        /\ PulledWithinGrants
        /\ DcaRateUpToRounding

LEMMA InitIInv == Init => IInv
<1> SUFFICES ASSUME Init PROVE IInv
  OBVIOUS
<1>1. TypeOK
  <2>1. /\ now \in 0..MaxTime /\ keeper \in Keepers /\ allowedTargets \subseteq Targets
        /\ feeBps \in 0..MaxFeeBps /\ feeRecipient \in Accounts \ {Executor}
    BY NumericConstants, DistinctAccounts DEF Init, Accounts
  <2>2. /\ bal \in [Tokens -> [Accounts -> Nat]] /\ nonceUsed \in [Users -> SUBSET Nat]
        /\ allowance \in [Users -> [Tokens -> Allowance]]
    BY SignedData DEF Init, Allowance
  <2>3. ledger \in Ledger
    BY DEF Init, Ledger
  <2> QED
    BY <2>1, <2>2, <2>3 DEF TypeOK
<1>2. NoResidue
  BY SignedData DEF Init, NoResidue
<1>3. NoncesRecorded /\ NonceFillsOnce /\ FillsHonourMinOut
  BY SignedData DEF Init, NoncesRecorded, NonceFillsOnce, FillsHonourMinOut
<1>4. PulledWithinGrants
  BY DEF Init, PulledWithinGrants
<1>5. DcaRateUpToRounding
  BY NumericConstants, SignedData DEF Init, DcaRateUpToRounding
<1> QED
  BY <1>1, <1>2, <1>3, <1>4, <1>5 DEF IInv

(* Transactions of the owner, and time passing, change no money.               *)
LEMMA AdminStep == ASSUME IInv, Tick \/ Admin PROVE IInv'
<1>1. TypeOK'
  <2>1. CASE Tick
    BY <2>1, NumericConstants DEF IInv, TypeOK, Tick, config
  <2>2. ASSUME NEW k \in Keepers, setKeeper(k) PROVE TypeOK'
    BY <2>2 DEF IInv, TypeOK, setKeeper
  <2>3. ASSUME NEW t \in Targets, NEW allowed \in BOOLEAN, setAllowedTarget(t, allowed)
        PROVE TypeOK'
    BY <2>3 DEF IInv, TypeOK, setAllowedTarget
  <2>4. ASSUME NEW bps \in FeeChoices, NEW a \in {Treasury, NoRecipient}, setFee(bps, a)
        PROVE TypeOK'
    <3>1. feeBps' \in 0..MaxFeeBps
      BY <2>4, NumericConstants DEF setFee
    <3>2. a \in (Accounts \ {Executor}) \cup {NoRecipient}
      BY DistinctAccounts DEF Accounts
    <3> QED
      BY <2>4, <3>1, <3>2 DEF IInv, TypeOK, setFee
  <2> QED
    BY <2>1, <2>2, <2>3, <2>4 DEF Admin
<1>2. UNCHANGED <<bal, nonceUsed, allowance, ledger>>
  BY DEF Tick, Admin, setKeeper, setAllowedTarget, setFee
<1> QED
  BY <1>1, <1>2 DEF IInv, NoResidue, NoncesRecorded, NonceFillsOnce, FillsHonourMinOut,
                    PulledWithinGrants, DcaRateUpToRounding

LEMMA OrderStep ==
    ASSUME IInv, NEW k \in Keepers, NEW o \in Orders, NEW target \in Targets,
           NEW tokenOut \in Tokens, NEW minOut \in Amounts,
           executeOrder(k, o, target, tokenOut, minOut)
    PROVE  IInv'
<1> DEFINE pulled == Transfer(bal, o.tokenIn, o.owner, Executor, o.amount)
<1>1. /\ TypeOK /\ NoResidue
      /\ o.owner \in Users /\ o.tokenIn \in Tokens /\ o.tokenOut \in Tokens
      /\ o.amount \in Nat /\ o.minOut \in Nat /\ o.nonce \in Nat
  BY SignedData DEF IInv
<1>2. /\ tokenOut = o.tokenOut /\ minOut = o.minOut
      /\ o.nonce \notin nonceUsed[o.owner] /\ o.amount <= bal[o.tokenIn][o.owner]
  BY DEF executeOrder, PermitWitness, WitnessMatches
<1>3. PICK r \in RouterCall :
        LET after == Swap(pulled, o.owner, o.tokenIn, o.amount, target, r)
        IN  /\ SwapPossible(pulled, o.tokenIn, o.amount, target, r)
            /\ Received(bal, after, tokenOut, o.owner) >= minOut
            /\ bal' = after
            /\ ledger' = [ledger EXCEPT
                    !.fills[o] = @ + 1,
                    !.got[o] = @ + Received(bal, after, o.tokenOut, o.owner)]
  BY DEF executeOrder
<1>4. /\ nonceUsed' = [nonceUsed EXCEPT ![o.owner] = @ \cup {o.nonce}]
      /\ UNCHANGED <<now, config, allowance>>
  BY DEF executeOrder, NonceAfterFill
<1> DEFINE got == Received(bal, bal', o.tokenOut, o.owner)
<1>5. /\ pulled \in Balances
      /\ \A s \in Tokens \ {o.tokenIn} : pulled[s][Executor] = 0
  BY <1>1, <1>2, PullEffect
<1>6. bal' \in Balances /\ NoResidue'
  BY <1>1, <1>3, <1>5, SwapEffect DEF NoResidue
<1>7. got \in Nat /\ got >= o.minOut
  <2>1. bal \in Balances
    BY <1>1 DEF TypeOK, Balances
  <2> QED
    BY <1>1, <1>2, <1>3, <1>6, <2>1, ReceivedNat
<1>8. ledger' = [ledger EXCEPT !.fills[o] = @ + 1, !.got[o] = @ + got]
  BY <1>3
<1> HIDE DEF got, pulled
<1>9. ledger \in Ledger
  BY <1>1 DEF TypeOK
<1>10. /\ ledger' \in Ledger
       /\ \A x \in Orders : ledger'.fills[x] = IF x = o THEN ledger.fills[x] + 1 ELSE ledger.fills[x]
       /\ \A x \in Orders : ledger'.got[x] = IF x = o THEN ledger.got[x] + got ELSE ledger.got[x]
       /\ ledger'.pulled = ledger.pulled /\ ledger'.granted = ledger.granted
       /\ ledger'.dcaIn = ledger.dcaIn /\ ledger'.dcaOut = ledger.dcaOut
       /\ ledger'.parts = ledger.parts
  <2>1. /\ ledger'.fills = [ledger.fills EXCEPT ![o] = @ + 1]
        /\ ledger'.got = [ledger.got EXCEPT ![o] = @ + got]
        /\ ledger'.pulled = ledger.pulled /\ ledger'.granted = ledger.granted
        /\ ledger'.dcaIn = ledger.dcaIn /\ ledger'.dcaOut = ledger.dcaOut
        /\ ledger'.parts = ledger.parts
    BY <1>8, <1>9 DEF Ledger
  <2>2. ledger.fills \in [Orders -> Nat] /\ ledger.got \in [Orders -> Nat]
    BY <1>9 DEF Ledger
  <2>3. ledger'.fills \in [Orders -> Nat] /\ ledger'.got \in [Orders -> Nat]
    BY <1>7, <2>1, <2>2
  <2>4. ledger' = [ledger EXCEPT !.fills = ledger'.fills, !.got = ledger'.got]
    BY <1>8, <1>9, <2>1 DEF Ledger
  <2>5. ledger' \in Ledger
    BY <1>9, <2>3, <2>4 DEF Ledger
  <2> QED
    BY <2>1, <2>2, <2>5
<1>11. TypeOK'
  BY <1>1, <1>4, <1>6, <1>10 DEF TypeOK, Balances, config
<1>12. ledger.fills[o] = 0 /\ \A x \in Orders : x.owner = o.owner /\ x.nonce = o.nonce => ledger.fills[x] = 0
  BY <1>2, <1>9 DEF IInv, NoncesRecorded, Ledger
<1>13. NoncesRecorded'
  BY <1>1, <1>4, <1>10, SignedData DEF IInv, NoncesRecorded, TypeOK
<1>14. NonceFillsOnce'
  <2>1. \A x \in Orders : ledger'.fills[x] <= 1
    BY <1>10, <1>12 DEF IInv, NonceFillsOnce
  <2>2. ASSUME NEW o1 \in Orders, NEW o2 \in Orders, o1 # o2,
               o1.owner = o2.owner, o1.nonce = o2.nonce
        PROVE  ledger'.fills[o1] = 0 \/ ledger'.fills[o2] = 0
    BY <2>2, <1>10, <1>12 DEF IInv, NonceFillsOnce
  <2> QED
    BY <2>1, <2>2 DEF NonceFillsOnce
<1>15. FillsHonourMinOut'
  <2>1. ASSUME NEW x \in Orders PROVE ledger'.got[x] >= ledger'.fills[x] * x.minOut
    <3>1. CASE x = o
      <4>1. ledger'.fills[x] = 1 /\ ledger.got[x] \in Nat
        BY <3>1, <1>9, <1>10, <1>12 DEF Ledger
      <4>2. 1 * x.minOut = x.minOut
        BY <1>1, <3>1
      <4> QED
        BY <3>1, <4>1, <4>2, <1>1, <1>7, <1>10
    <3>2. CASE x # o
      BY <3>2, <1>10 DEF IInv, FillsHonourMinOut
    <3> QED
      BY <3>1, <3>2
  <2> QED
    BY <2>1 DEF FillsHonourMinOut
<1>16. PulledWithinGrants'
  BY <1>4, <1>10 DEF IInv, PulledWithinGrants
<1>17. DcaRateUpToRounding'
  BY <1>10 DEF IInv, DcaRateUpToRounding
<1> QED
  BY <1>6, <1>11, <1>13, <1>14, <1>15, <1>16, <1>17 DEF IInv

LEMMA DcaStep ==
    ASSUME IInv, NEW k \in Keepers, NEW i \in Intents, NEW p \in Permits,
           NEW register \in BOOLEAN, NEW part \in Amounts, NEW target \in Targets,
           NEW tokenOut \in Tokens, NEW minOut \in Amounts,
           executeDca(k, i, p, register, part, target, tokenOut, minOut)
    PROVE  IInv'
<1> DEFINE amount == part % U160
           al == IF register THEN Permit(p) ELSE allowance
           pulled == Transfer(bal, p.token, i.owner, Executor, amount)
           grant == IF register THEN p.amount ELSE 0
<1>1. /\ TypeOK /\ NoResidue
      /\ i.owner \in Users /\ i.tokenOut \in Tokens /\ i.minRate \in Nat
      /\ p.owner \in Users /\ p.token \in Tokens /\ p.amount \in Nat /\ p.expiration \in Nat
      /\ part \in Nat /\ minOut \in Nat
  BY SignedData, NumericConstants DEF IInv, Amounts
<1>2. /\ i.tokenOut = tokenOut
      /\ minOut >= (part * i.minRate) \div RateScale
      /\ register => p.owner = i.owner
      /\ amount <= al[i.owner][p.token].amount
      /\ amount <= bal[p.token][i.owner]
  BY DEF executeDca, VerifyDcaIntent
<1>3. PICK r \in RouterCall :
        LET after == Swap(pulled, i.owner, p.token, part, target, r)
        IN  /\ SwapPossible(pulled, p.token, part, target, r)
            /\ Received(bal, after, tokenOut, i.owner) >= minOut
            /\ bal' = after
            /\ ledger' = [ledger EXCEPT
                    !.dcaIn[i] = @ + amount,
                    !.dcaOut[i] = @ + Received(bal, after, i.tokenOut, i.owner),
                    !.parts[i] = @ + 1,
                    !.granted[i.owner][p.token] = @ + (IF register THEN p.amount ELSE 0),
                    !.pulled[i.owner][p.token] = @ + amount]
  BY DEF executeDca
<1>4. /\ allowance' = [al EXCEPT ![i.owner][p.token].amount = @ - amount]
      /\ UNCHANGED <<now, config, nonceUsed>>
  BY DEF executeDca, AllowanceSpent
<1> DEFINE got == Received(bal, bal', i.tokenOut, i.owner)
<1>5. amount \in Nat /\ grant \in Nat
  BY <1>1, ModLe, NumericConstants
<1> HIDE DEF amount
<1>6. /\ pulled \in Balances
      /\ \A s \in Tokens \ {p.token} : pulled[s][Executor] = 0
  BY <1>1, <1>2, <1>5, PullEffect
<1>7. bal' \in Balances /\ NoResidue'
  BY <1>1, <1>3, <1>6, SwapEffect DEF NoResidue
<1>8. got \in Nat /\ got >= minOut
  <2>1. bal \in Balances
    BY <1>1 DEF TypeOK, Balances
  <2> QED
    BY <1>1, <1>2, <1>3, <1>7, <2>1, ReceivedNat
<1>9. ledger' = [ledger EXCEPT
                    !.dcaIn[i] = @ + amount, !.dcaOut[i] = @ + got, !.parts[i] = @ + 1,
                    !.granted[i.owner][p.token] = @ + grant,
                    !.pulled[i.owner][p.token] = @ + amount]
  BY <1>3
<1>10. ledger \in Ledger
  BY <1>1 DEF TypeOK
<1> HIDE DEF got, pulled
<1>11. al \in [Users -> [Tokens -> Allowance]]
  BY <1>1 DEF TypeOK, Permit, Allowance
<1>12. al[i.owner][p.token].amount <= allowance[i.owner][p.token].amount + grant
  BY <1>1, <1>2 DEF TypeOK, Permit, Allowance
<1>13. \A u \in Users, t \in Tokens : u # i.owner \/ t # p.token => al[u][t] = allowance[u][t]
  BY <1>1, <1>2 DEF TypeOK, Permit
<1> HIDE DEF grant, al
<1>14. /\ ledger'.dcaIn = [ledger.dcaIn EXCEPT ![i] = @ + amount]
       /\ ledger'.dcaOut = [ledger.dcaOut EXCEPT ![i] = @ + got]
       /\ ledger'.parts = [ledger.parts EXCEPT ![i] = @ + 1]
       /\ ledger'.granted = [ledger.granted EXCEPT ![i.owner][p.token] = @ + grant]
       /\ ledger'.pulled = [ledger.pulled EXCEPT ![i.owner][p.token] = @ + amount]
       /\ ledger'.fills = ledger.fills /\ ledger'.got = ledger.got
  BY <1>9, <1>10 DEF Ledger
<1>15. /\ ledger'.dcaIn \in [Intents -> Nat] /\ ledger'.dcaOut \in [Intents -> Nat]
       /\ ledger'.parts \in [Intents -> Nat]
       /\ ledger'.granted \in [Users -> [Tokens -> Nat]]
       /\ ledger'.pulled \in [Users -> [Tokens -> Nat]]
  BY <1>1, <1>5, <1>8, <1>10, <1>14 DEF Ledger
<1>16. ledger' \in Ledger
  <2>1. ledger' = [ledger EXCEPT !.dcaIn = ledger'.dcaIn, !.dcaOut = ledger'.dcaOut,
                        !.parts = ledger'.parts, !.granted = ledger'.granted,
                        !.pulled = ledger'.pulled]
    BY <1>9, <1>10, <1>14 DEF Ledger
  <2> QED
    BY <1>10, <1>15, <2>1 DEF Ledger
<1>17. allowance' \in [Users -> [Tokens -> Allowance]]
  <2>1. al[i.owner][p.token].amount - amount \in Nat
    BY <1>1, <1>2, <1>5, <1>11 DEF Allowance
  <2>2. allowance' = [al EXCEPT ![i.owner] = [al[i.owner] EXCEPT ![p.token] =
                        [al[i.owner][p.token] EXCEPT !.amount = al[i.owner][p.token].amount - amount]]]
    BY <1>4
  <2>3. [al[i.owner][p.token] EXCEPT !.amount = al[i.owner][p.token].amount - amount] \in Allowance
    <3>1. al[i.owner][p.token] \in Allowance
      BY <1>1, <1>11
    <3> QED
      BY <2>1, <3>1 DEF Allowance
  <2> QED
    BY <1>1, <1>11, <2>2, <2>3
<1>18. TypeOK'
  BY <1>1, <1>4, <1>7, <1>16, <1>17 DEF TypeOK, Balances, config
<1>19. NoncesRecorded' /\ NonceFillsOnce' /\ FillsHonourMinOut'
  BY <1>4, <1>14 DEF IInv, NoncesRecorded, NonceFillsOnce, FillsHonourMinOut
<1>20. PulledWithinGrants'
  <2>1. ASSUME NEW u \in Users, NEW t \in Tokens
        PROVE ledger'.pulled[u][t] + allowance'[u][t].amount <= ledger'.granted[u][t]
    <3>1. /\ ledger.pulled[u][t] \in Nat /\ ledger.granted[u][t] \in Nat
          /\ allowance[u][t].amount \in Nat /\ al[u][t].amount \in Nat
          /\ ledger.pulled[u][t] + allowance[u][t].amount <= ledger.granted[u][t]
      BY <1>1, <1>10, <1>11 DEF IInv, PulledWithinGrants, TypeOK, Ledger, Allowance
    <3>2. CASE u = i.owner /\ t = p.token
      <4>1. /\ ledger'.pulled[u][t] = ledger.pulled[u][t] + amount
            /\ ledger'.granted[u][t] = ledger.granted[u][t] + grant
        BY <3>2, <1>10, <1>14 DEF Ledger
      <4>2. allowance'[u][t].amount = al[u][t].amount - amount
        BY <3>2, <1>4, <1>11 DEF Allowance
      <4> QED
        BY <4>1, <4>2, <3>1, <3>2, <1>5, <1>12
    <3>3. CASE ~(u = i.owner /\ t = p.token)
      <4>1. /\ ledger'.pulled[u][t] = ledger.pulled[u][t]
            /\ ledger'.granted[u][t] = ledger.granted[u][t]
        BY <3>3, <1>1, <1>10, <1>14 DEF Ledger
      <4>2. allowance'[u][t] = allowance[u][t]
        BY <3>3, <1>1, <1>4, <1>11, <1>13 DEF Allowance
      <4> QED
        BY <4>1, <4>2, <3>1
    <3> QED
      BY <3>2, <3>3
  <2> QED
    BY <2>1 DEF PulledWithinGrants
<1>21. DcaRateUpToRounding'
  <2>1. ASSUME NEW x \in Intents
        PROVE ledger'.dcaOut[x] * RateScale + ledger'.parts[x] * (RateScale - 1)
                >= ledger'.dcaIn[x] * x.minRate
    <3>1. CASE x # i
      BY <3>1, <1>10, <1>14 DEF IInv, DcaRateUpToRounding, Ledger
    <3>2. CASE x = i
      <4> DEFINE out0 == ledger.dcaOut[i]
                 in0 == ledger.dcaIn[i]
                 n0 == ledger.parts[i]
      <4>1. /\ ledger'.dcaOut[x] = out0 + got /\ ledger'.parts[x] = n0 + 1
            /\ ledger'.dcaIn[x] = in0 + amount
            /\ out0 \in Nat /\ in0 \in Nat /\ n0 \in Nat
        BY <3>2, <1>10, <1>14 DEF Ledger
      <4>2. out0 * RateScale + n0 * (RateScale - 1) >= in0 * i.minRate
        BY DEF IInv, DcaRateUpToRounding
      <4>3. got * RateScale + (RateScale - 1) >= amount * i.minRate
        BY <1>1, <1>2, <1>8, PartRate DEF amount
      <4> HIDE DEF out0, in0, n0
      <4>4. RateScale \in Nat \ {0} /\ RateScale - 1 \in Nat
        BY NumericConstants
      <4>5. /\ (out0 + got) * RateScale = out0 * RateScale + got * RateScale
            /\ (n0 + 1) * (RateScale - 1) = n0 * (RateScale - 1) + 1 * (RateScale - 1)
            /\ (in0 + amount) * i.minRate = in0 * i.minRate + amount * i.minRate
        BY <4>1, <4>4, <1>1, <1>5, <1>8, Distribute
      <4>6. /\ out0 * RateScale \in Nat /\ got * RateScale \in Nat
            /\ n0 * (RateScale - 1) \in Nat /\ in0 * i.minRate \in Nat
            /\ amount * i.minRate \in Nat /\ 1 * (RateScale - 1) = RateScale - 1
        BY <4>1, <4>4, <1>1, <1>5, <1>8, MulNat
      <4> QED
        BY <3>2, <4>1, <4>2, <4>3, <4>4, <4>5, <4>6
    <3> QED
      BY <3>1, <3>2
  <2> QED
    BY <2>1 DEF DcaRateUpToRounding
<1> QED
  BY <1>7, <1>18, <1>19, <1>20, <1>21 DEF IInv

-----------------------------------------------------------------------------
LEMMA NextIInv == IInv /\ [Next]_vars => IInv'
<1>1. ASSUME IInv, Next PROVE IInv'
  BY <1>1, AdminStep, OrderStep, DcaStep DEF Next, Fill
<1>2. ASSUME IInv, UNCHANGED vars PROVE IInv'
  BY <1>2 DEF vars, config, IInv, TypeOK, NoResidue, NoncesRecorded, NonceFillsOnce,
              FillsHonourMinOut, PulledWithinGrants, DcaRateUpToRounding
<1> QED
  BY <1>1, <1>2

-----------------------------------------------------------------------------
(* What signatures allow: an order counts once its nonce is spent, a permit    *)
(* once the allowance's nonce has passed its own.                             *)

SpentOrders(u, t)  == ByNonce({o \in OrdersOf(u, t) : o.nonce \in nonceUsed[u]})
UsedPermits(u, t)  == ByNonce({p \in PermitsOf(u, t) : p.nonce < allowance[u][t].nonce})

DebitsRecorded ==
    \A u \in Users, t \in Tokens :
        InitBal[t][u] - bal[t][u] <= TotalOnce(SpentOrders(u, t)) + ledger.pulled[u][t]
GrantsSigned ==
    \A u \in Users, t \in Tokens : ledger.granted[u][t] <= TotalOnce(UsedPermits(u, t))

ConsentInv == IInv /\ DebitsRecorded /\ GrantsSigned

LEMMA SignedPairs ==
    ASSUME NEW u, NEW t
    PROVE  /\ ByNonce(OrdersOf(u, t)) \in SUBSET (Nat \X Nat) /\ IsFiniteSet(ByNonce(OrdersOf(u, t)))
           /\ ByNonce(PermitsOf(u, t)) \in SUBSET (Nat \X Nat) /\ IsFiniteSet(ByNonce(PermitsOf(u, t)))
<1> DEFINE orderPair  == [o \in OrdersOf(u, t) |-> <<o.nonce, o.amount>>]
           permitPair == [p \in PermitsOf(u, t) |-> <<p.nonce, p.amount>>]
<1>1. OrdersOf(u, t) \subseteq Orders /\ PermitsOf(u, t) \subseteq Permits
  BY DEF OrdersOf, PermitsOf
<1>2. IsFiniteSet(OrdersOf(u, t)) /\ IsFiniteSet(PermitsOf(u, t))
  BY <1>1, FinitelySigned, FS_Subset
<1>3. /\ ByNonce(OrdersOf(u, t)) = {orderPair[o] : o \in OrdersOf(u, t)}
      /\ ByNonce(PermitsOf(u, t)) = {permitPair[p] : p \in PermitsOf(u, t)}
  BY DEF ByNonce
<1>4. IsFiniteSet(ByNonce(OrdersOf(u, t))) /\ IsFiniteSet(ByNonce(PermitsOf(u, t)))
  <2> HIDE DEF orderPair, permitPair
  <2> QED
    BY <1>2, <1>3, FiniteImage
<1>5. ByNonce(OrdersOf(u, t)) \in SUBSET (Nat \X Nat)
  BY <1>1, SignedData DEF ByNonce
<1>6. ByNonce(PermitsOf(u, t)) \in SUBSET (Nat \X Nat)
  BY <1>1, SignedData DEF ByNonce
<1> QED
  BY <1>4, <1>5, <1>6

(* What counts is part of what was signed, and more of it never counts less.   *)
LEMMA CountedSigned ==
    ASSUME NEW u, NEW t, NEW S \in SUBSET OrdersOf(u, t), NEW R \in SUBSET S,
           NEW T \in SUBSET PermitsOf(u, t), NEW Q \in SUBSET T
    PROVE  /\ TotalOnce(ByNonce(R)) \in Nat /\ TotalOnce(ByNonce(S)) \in Nat
           /\ TotalOnce(ByNonce(R)) <= TotalOnce(ByNonce(S))
           /\ TotalOnce(ByNonce(Q)) \in Nat /\ TotalOnce(ByNonce(T)) \in Nat
           /\ TotalOnce(ByNonce(Q)) <= TotalOnce(ByNonce(T))
<1>1. /\ ByNonce(R) \subseteq ByNonce(S) /\ ByNonce(S) \subseteq ByNonce(OrdersOf(u, t))
      /\ ByNonce(Q) \subseteq ByNonce(T) /\ ByNonce(T) \subseteq ByNonce(PermitsOf(u, t))
  BY DEF ByNonce
<1>2. /\ ByNonce(S) \in SUBSET (Nat \X Nat) /\ IsFiniteSet(ByNonce(S))
      /\ ByNonce(T) \in SUBSET (Nat \X Nat) /\ IsFiniteSet(ByNonce(T))
  BY <1>1, SignedPairs, FS_Subset
<1> QED
  BY <1>1, <1>2, TotalOnceGrows

LEMMA InitConsent == Init => ConsentInv
<1> SUFFICES ASSUME Init PROVE ConsentInv
  OBVIOUS
<1>1. IInv
  BY InitIInv
<1>2. ASSUME NEW u \in Users, NEW t \in Tokens
      PROVE  /\ InitBal[t][u] - bal[t][u] <= TotalOnce(SpentOrders(u, t)) + ledger.pulled[u][t]
             /\ ledger.granted[u][t] <= TotalOnce(UsedPermits(u, t))
  <2>1. bal = InitBal /\ ledger.pulled[u][t] = 0 /\ ledger.granted[u][t] = 0
    BY DEF Init
  <2>2. InitBal[t][u] \in Nat
    BY SignedData DEF Accounts
  <2>3. TotalOnce(SpentOrders(u, t)) \in Nat /\ TotalOnce(UsedPermits(u, t)) \in Nat
    BY CountedSigned DEF SpentOrders, UsedPermits
  <2> QED
    BY <2>1, <2>2, <2>3
<1> QED
  BY <1>1, <1>2 DEF ConsentInv, DebitsRecorded, GrantsSigned

(* A pull from a user takes the amount and nothing else from any user.         *)
LEMMA PullDebit ==
    ASSUME TypeOK, NEW t \in Tokens, NEW u \in Users, NEW n \in Nat, n <= bal[t][u],
           NEW s \in Tokens, NEW v \in Users
    PROVE  Transfer(bal, t, u, Executor, n)[s][v] >= bal[s][v] - (IF s = t /\ v = u THEN n ELSE 0)
BY DEF Transfer, TypeOK, Accounts

LEMMA OrderConsent ==
    ASSUME ConsentInv, NEW k \in Keepers, NEW o \in Orders, NEW target \in Targets,
           NEW tokenOut \in Tokens, NEW minOut \in Amounts,
           executeOrder(k, o, target, tokenOut, minOut)
    PROVE  DebitsRecorded' /\ GrantsSigned'
<1> DEFINE pulled == Transfer(bal, o.tokenIn, o.owner, Executor, o.amount)
<1>1. /\ TypeOK /\ NoResidue
      /\ o.owner \in Users /\ o.tokenIn \in Tokens /\ o.amount \in Nat /\ o.nonce \in Nat
  BY SignedData DEF ConsentInv, IInv
<1>2. /\ o.nonce \notin nonceUsed[o.owner] /\ o.amount <= bal[o.tokenIn][o.owner]
      /\ nonceUsed' = [nonceUsed EXCEPT ![o.owner] = @ \cup {o.nonce}]
      /\ allowance' = allowance
  BY DEF executeOrder, PermitWitness, NonceAfterFill
<1>3. PICK r \in RouterCall :
        /\ SwapPossible(pulled, o.tokenIn, o.amount, target, r)
        /\ bal' = Swap(pulled, o.owner, o.tokenIn, o.amount, target, r)
  BY DEF executeOrder
<1>4. ledger'.pulled = ledger.pulled /\ ledger'.granted = ledger.granted
  BY <1>1 DEF executeOrder, TypeOK, Ledger
<1>5. pulled \in Balances /\ \A s \in Tokens \ {o.tokenIn} : pulled[s][Executor] = 0
  BY <1>1, <1>2, PullEffect
<1>6. bal' \in Balances /\ \A s \in Tokens, v \in Users : bal'[s][v] >= pulled[s][v]
  BY <1>1, <1>3, <1>5, SwapEffect
<1>7. \A s \in Tokens, v \in Users :
        pulled[s][v] >= bal[s][v] - (IF s = o.tokenIn /\ v = o.owner THEN o.amount ELSE 0)
  BY <1>1, <1>2, PullDebit
<1> HIDE DEF pulled
<1>8. ASSUME NEW u \in Users, NEW t \in Tokens
      PROVE  InitBal[t][u] - bal'[t][u] <= TotalOnce(SpentOrders(u, t)') + ledger'.pulled[u][t]
  <2> DEFINE S == {x \in OrdersOf(u, t) : x.nonce \in nonceUsed[u]}
             T == {x \in OrdersOf(u, t) : x.nonce \in nonceUsed'[u]}
  <2>1. SpentOrders(u, t) = ByNonce(S) /\ SpentOrders(u, t)' = ByNonce(T)
    BY DEF SpentOrders, OrdersOf, ByNonce
  <2>2. S \subseteq T /\ T \subseteq OrdersOf(u, t)
    BY <1>1, <1>2 DEF TypeOK
  <2>3. /\ TotalOnce(ByNonce(S)) \in Nat /\ TotalOnce(ByNonce(T)) \in Nat
        /\ TotalOnce(ByNonce(S)) <= TotalOnce(ByNonce(T))
    BY <2>2, CountedSigned
  <2>4. /\ InitBal[t][u] \in Int /\ bal[t][u] \in Int /\ bal'[t][u] \in Int /\ pulled[t][u] \in Int
        /\ ledger.pulled[u][t] \in Int
    BY <1>1, <1>5, <1>6, SignedData DEF Balances, TypeOK, Ledger, Accounts
  <2>5. InitBal[t][u] - bal[t][u] <= TotalOnce(ByNonce(S)) + ledger.pulled[u][t]
    BY <2>1 DEF ConsentInv, DebitsRecorded
  <2>6. CASE t = o.tokenIn /\ u = o.owner
    <3>1. <<o.nonce, o.amount>> \in ByNonce(T) /\ \A p \in ByNonce(S) : p[1] # o.nonce
      BY <1>1, <1>2, <2>6 DEF ByNonce, OrdersOf, TypeOK
    <3>2. /\ ByNonce(T) \in SUBSET (Nat \X Nat) /\ IsFiniteSet(ByNonce(T))
          /\ ByNonce(S) \subseteq ByNonce(T)
      <4>1. ByNonce(T) \subseteq ByNonce(OrdersOf(u, t)) /\ ByNonce(S) \subseteq ByNonce(T)
        BY <2>2 DEF ByNonce
      <4> QED
        BY <4>1, SignedPairs, FS_Subset
    <3> HIDE DEF S, T
    <3> DEFINE q == <<o.nonce, o.amount>>
    <3>3. q \in ByNonce(T) /\ \A p \in ByNonce(S) : p[1] # q[1]
      BY <3>1
    <3>4. q[2] = o.amount
      OBVIOUS
    <3> HIDE DEF q
    <3>5. TotalOnce(ByNonce(S)) + q[2] <= TotalOnce(ByNonce(T))
      BY <3>2, <3>3, TotalOnceNew
    <3> QED
      BY <1>1, <1>4, <1>6, <1>7, <2>1, <2>3, <2>4, <2>5, <2>6, <3>4, <3>5
  <2>7. CASE ~(t = o.tokenIn /\ u = o.owner)
    <3> HIDE DEF S, T
    <3>1. bal'[t][u] >= bal[t][u]
      BY <1>6, <1>7, <2>4, <2>7
    <3> QED
      BY <1>4, <2>1, <2>3, <2>4, <2>5, <3>1
  <2> QED
    BY <2>6, <2>7
<1>9. GrantsSigned'
  BY <1>2, <1>4 DEF ConsentInv, GrantsSigned, UsedPermits, ByNonce, PermitsOf
<1> QED
  BY <1>8, <1>9 DEF DebitsRecorded

(* A permit that is registered has the allowance's own nonce, so it was not    *)
(* counted before and is counted from now on.                                 *)
LEMMA RegisterGrant ==
    ASSUME TypeOK, NEW p \in Permits, PermitValid(p), NEW al, al = Permit(p),
           NEW al2 \in [Users -> [Tokens -> Allowance]],
           al2[p.owner][p.token].nonce = al[p.owner][p.token].nonce
    PROVE  TotalOnce(UsedPermits(p.owner, p.token)) + p.amount
            <= TotalOnce(ByNonce({x \in PermitsOf(p.owner, p.token) : x.nonce < al2[p.owner][p.token].nonce}))
<1> DEFINE u == p.owner
           t == p.token
           n == allowance[u][t].nonce
           S == {x \in PermitsOf(u, t) : x.nonce < n}
           T == {x \in PermitsOf(u, t) : x.nonce < al2[u][t].nonce}
           q == <<p.nonce, p.amount>>
<1>1. p.owner \in Users /\ p.token \in Tokens /\ p.nonce \in Nat /\ p.amount \in Nat
      /\ \A x \in Permits : x.nonce \in Nat
  BY SignedData
<1>2. n \in Nat /\ p.nonce = n /\ al2[u][t].nonce = n + 1
  BY <1>1 DEF TypeOK, Allowance, Permit, PermitValid
<1>3. S \subseteq T /\ T \subseteq PermitsOf(u, t) /\ p \in T
  BY <1>1, <1>2 DEF PermitsOf
<1>4. q \in ByNonce(T) /\ (\A y \in ByNonce(S) : y[1] # q[1]) /\ q[2] = p.amount
  BY <1>1, <1>2, <1>3 DEF ByNonce
<1> HIDE DEF S, T, q
<1>5. ByNonce(S) \subseteq ByNonce(T) /\ ByNonce(T) \subseteq ByNonce(PermitsOf(u, t))
  BY <1>3 DEF ByNonce
<1>6. ByNonce(T) \in SUBSET (Nat \X Nat) /\ IsFiniteSet(ByNonce(T))
  BY <1>5, SignedPairs, FS_Subset
<1>7. TotalOnce(ByNonce(S)) + q[2] <= TotalOnce(ByNonce(T))
  BY <1>4, <1>5, <1>6, TotalOnceNew
<1> QED
  BY <1>4, <1>7 DEF S, T, UsedPermits

LEMMA DcaConsent ==
    ASSUME ConsentInv, NEW k \in Keepers, NEW i \in Intents, NEW p \in Permits,
           NEW register \in BOOLEAN, NEW part \in Amounts, NEW target \in Targets,
           NEW tokenOut \in Tokens, NEW minOut \in Amounts,
           executeDca(k, i, p, register, part, target, tokenOut, minOut)
    PROVE  DebitsRecorded' /\ GrantsSigned'
<1> DEFINE amount == part % U160
           al == IF register THEN Permit(p) ELSE allowance
           pulled == Transfer(bal, p.token, i.owner, Executor, amount)
           grant == IF register THEN p.amount ELSE 0
<1>1. /\ IInv /\ TypeOK /\ NoResidue /\ i.owner \in Users /\ p.owner \in Users /\ p.token \in Tokens
      /\ p.amount \in Nat /\ p.expiration \in Nat /\ p.nonce \in Nat /\ part \in Nat
  BY SignedData, NumericConstants DEF ConsentInv, IInv, Amounts
<1>2. /\ register => p.owner = i.owner /\ PermitValid(p)
      /\ amount <= bal[p.token][i.owner]
      /\ allowance' = [al EXCEPT ![i.owner][p.token].amount = @ - amount]
      /\ nonceUsed' = nonceUsed
  BY DEF executeDca, AllowanceSpent
<1>3. PICK r \in RouterCall :
        /\ SwapPossible(pulled, p.token, part, target, r)
        /\ bal' = Swap(pulled, i.owner, p.token, part, target, r)
        /\ ledger' = [ledger EXCEPT
                    !.dcaIn[i] = @ + amount,
                    !.dcaOut[i] = @ + Received(bal, bal', i.tokenOut, i.owner),
                    !.parts[i] = @ + 1,
                    !.granted[i.owner][p.token] = @ + grant,
                    !.pulled[i.owner][p.token] = @ + amount]
  BY DEF executeDca
<1>4. amount \in Nat /\ grant \in Nat
  BY <1>1, ModLe, NumericConstants
<1> HIDE DEF amount
<1>5. pulled \in Balances /\ \A s \in Tokens \ {p.token} : pulled[s][Executor] = 0
  BY <1>1, <1>2, <1>4, PullEffect
<1>6. bal' \in Balances /\ \A s \in Tokens, v \in Users : bal'[s][v] >= pulled[s][v]
  BY <1>1, <1>3, <1>5, SwapEffect
<1>7. \A s \in Tokens, v \in Users :
        pulled[s][v] >= bal[s][v] - (IF s = p.token /\ v = i.owner THEN amount ELSE 0)
  BY <1>1, <1>2, <1>4, PullDebit
<1> HIDE DEF pulled
<1>8. /\ ledger'.pulled = [ledger.pulled EXCEPT ![i.owner][p.token] = @ + amount]
      /\ ledger'.granted = [ledger.granted EXCEPT ![i.owner][p.token] = @ + grant]
  BY <1>1, <1>3 DEF TypeOK, Ledger
<1>9. /\ ledger.pulled \in [Users -> [Tokens -> Nat]] /\ ledger.granted \in [Users -> [Tokens -> Nat]]
  BY <1>1 DEF TypeOK, Ledger
<1>10. DebitsRecorded'
  <2> SUFFICES ASSUME NEW u \in Users, NEW t \in Tokens
      PROVE  InitBal[t][u] - bal'[t][u] <= TotalOnce(SpentOrders(u, t)') + ledger'.pulled[u][t]
    BY DEF DebitsRecorded
  <2>1. SpentOrders(u, t)' = SpentOrders(u, t) /\ TotalOnce(SpentOrders(u, t)) \in Nat
    <3>1. SpentOrders(u, t)' = SpentOrders(u, t)
      BY <1>2 DEF SpentOrders, OrdersOf, ByNonce
    <3>2. TotalOnce(SpentOrders(u, t)) \in Nat
      BY CountedSigned DEF SpentOrders
    <3> QED
      BY <3>1, <3>2
  <2>2. InitBal[t][u] - bal[t][u] <= TotalOnce(SpentOrders(u, t)) + ledger.pulled[u][t]
    BY DEF ConsentInv, DebitsRecorded
  <2>3. /\ InitBal[t][u] \in Int /\ bal[t][u] \in Int /\ bal'[t][u] \in Int /\ pulled[t][u] \in Int
        /\ ledger.pulled[u][t] \in Int
    BY <1>1, <1>5, <1>6, <1>9, SignedData DEF Balances, TypeOK, Accounts
  <2>4. ledger'.pulled[u][t] = ledger.pulled[u][t] + (IF t = p.token /\ u = i.owner THEN amount ELSE 0)
    BY <1>1, <1>4, <1>8, <1>9
  <2>5. bal'[t][u] >= bal[t][u] - (IF t = p.token /\ u = i.owner THEN amount ELSE 0)
    BY <1>4, <1>6, <1>7, <2>3
  <2> QED
    BY <1>4, <2>1, <2>2, <2>3, <2>4, <2>5
<1>11. al \in [Users -> [Tokens -> Allowance]]
  BY <1>1 DEF TypeOK, Permit, Allowance
<1>12. /\ allowance' \in [Users -> [Tokens -> Allowance]]
       /\ \A u \in Users, t \in Tokens : allowance'[u][t].nonce = al[u][t].nonce
  <2>1. IInv'
    BY <1>1, DcaStep
  <2>2. allowance' \in [Users -> [Tokens -> Allowance]]
    BY <2>1 DEF IInv, TypeOK
  <2> HIDE DEF al
  <2> QED
    BY <1>1, <1>2, <1>11, <2>2 DEF Allowance
<1>13. GrantsSigned'
  <2> SUFFICES ASSUME NEW u \in Users, NEW t \in Tokens
      PROVE  ledger'.granted[u][t] <= TotalOnce(UsedPermits(u, t)')
    BY DEF GrantsSigned
  <2>1. UsedPermits(u, t)' = ByNonce({x \in PermitsOf(u, t) : x.nonce < al[u][t].nonce})
    BY <1>12 DEF UsedPermits, PermitsOf, ByNonce
  <2>2. ledger.granted[u][t] <= TotalOnce(UsedPermits(u, t)) /\ TotalOnce(UsedPermits(u, t)) \in Nat
    BY CountedSigned DEF ConsentInv, GrantsSigned, UsedPermits
  <2>3. CASE register /\ u = p.owner /\ t = p.token
    <3>1. TotalOnce(UsedPermits(u, t)) + p.amount
            <= TotalOnce(ByNonce({x \in PermitsOf(u, t) : x.nonce < al[u][t].nonce}))
      BY <1>1, <1>2, <1>11, <2>3, RegisterGrant
    <3>2. ledger'.granted[u][t] = ledger.granted[u][t] + p.amount /\ ledger.granted[u][t] \in Nat
      BY <1>1, <1>2, <1>8, <1>9, <2>3
    <3>3. TotalOnce(UsedPermits(u, t)') \in Nat
      BY <2>1, CountedSigned
    <3> QED
      BY <1>1, <2>1, <2>2, <3>1, <3>2, <3>3
  <2>4. CASE ~(register /\ u = p.owner /\ t = p.token)
    <3>1. ledger'.granted[u][t] = ledger.granted[u][t]
      BY <1>1, <1>2, <1>8, <1>9, <2>4
    <3>2. al[u][t].nonce = allowance[u][t].nonce
      BY <1>1, <2>4 DEF Permit, TypeOK
    <3> QED
      BY <2>1, <2>2, <3>1, <3>2 DEF UsedPermits
  <2> QED
    BY <2>3, <2>4
<1> QED
  BY <1>10, <1>13

LEMMA NextConsent == ConsentInv /\ [Next]_vars => ConsentInv'
<1> SUFFICES ASSUME ConsentInv, [Next]_vars PROVE ConsentInv'
  OBVIOUS
<1>1. IInv'
  BY NextIInv DEF ConsentInv
<1>2. CASE UNCHANGED <<bal, nonceUsed, allowance, ledger>>
  <2>1. DebitsRecorded' /\ GrantsSigned'
    BY <1>2 DEF ConsentInv, DebitsRecorded, GrantsSigned, SpentOrders, UsedPermits, OrdersOf,
                PermitsOf, ByNonce
  <2> QED
    BY <1>1, <2>1 DEF ConsentInv
<1>3. CASE Fill
  BY <1>1, <1>3, OrderConsent, DcaConsent DEF Fill, ConsentInv
<1>4. CASE Tick \/ Admin
  BY <1>2, <1>4 DEF Tick, Admin, setKeeper, setAllowedTarget, setFee
<1>5. CASE UNCHANGED vars
  BY <1>2, <1>5 DEF vars
<1> QED
  BY <1>3, <1>4, <1>5 DEF Next

(* Type correctness of the executor: in particular no step of executeOrder or *)
(* executeDca drives a balance or an allowance below zero.                     *)
THEOREM TypeCorrect == Spec => []TypeOK
<1>1. IInv => TypeOK
  BY DEF IInv
<1> QED
  BY <1>1, InitIInv, NextIInv, PTL DEF Spec

(* The executor holds no funds between transactions.                           *)
THEOREM NothingAtRest == Spec => []NoResidue
<1>1. IInv => NoResidue
  BY DEF IInv
<1> QED
  BY <1>1, InitIInv, NextIInv, PTL DEF Spec

(* A Permit2 nonce pays for one fill, whatever the keeper repeats.             *)
THEOREM OrdersFillOnce == Spec => []NonceFillsOnce
<1>1. IInv => NonceFillsOnce
  BY DEF IInv
<1> QED
  BY <1>1, InitIInv, NextIInv, PTL DEF Spec

(* Each fill brought the owner at least the signed minOut of the signed token, *)
(* whatever the router was told to do.                                        *)
THEOREM OrdersFillAtPrice == Spec => []FillsHonourMinOut
<1>1. IInv => FillsHonourMinOut
  BY DEF IInv
<1> QED
  BY <1>1, InitIInv, NextIInv, PTL DEF Spec

(* DCA parts draw only on registered permits.                                  *)
THEOREM DcaWithinGrants == Spec => []PulledWithinGrants
<1>1. IInv => PulledWithinGrants
  BY DEF IInv
<1> QED
  BY <1>1, InitIInv, NextIInv, PTL DEF Spec

(* A DCA intent returns at least its signed rate on what was pulled, less one  *)
(* rounding unit for each part.                                                *)
THEOREM DcaRate == Spec => []DcaRateUpToRounding
<1>1. IInv => DcaRateUpToRounding
  BY DEF IInv
<1> QED
  BY <1>1, InitIInv, NextIInv, PTL DEF Spec

(* Whatever a keeper presents, in whatever order and how often, a wallet loses   *)
(* at most one order of each signed nonce and one permit of each permit nonce.   *)
THEOREM WalletsWithinSignatures == Spec => []DebitsWithinSignatures
<1>1. ConsentInv => DebitsWithinSignatures
  <2> SUFFICES ASSUME ConsentInv, NEW u \in Users, NEW t \in Tokens
               PROVE  InitBal[t][u] - bal[t][u] <= SignedAway(u, t)
    BY DEF DebitsWithinSignatures
  <2>1. /\ InitBal[t][u] - bal[t][u] <= TotalOnce(SpentOrders(u, t)) + ledger.pulled[u][t]
        /\ ledger.granted[u][t] <= TotalOnce(UsedPermits(u, t))
        /\ ledger.pulled[u][t] + allowance[u][t].amount <= ledger.granted[u][t]
    BY DEF ConsentInv, DebitsRecorded, GrantsSigned, IInv, PulledWithinGrants
  <2>2. /\ InitBal[t][u] \in Int /\ bal[t][u] \in Int /\ ledger.pulled[u][t] \in Int
        /\ ledger.granted[u][t] \in Int /\ allowance[u][t].amount \in Nat
    BY SignedData DEF ConsentInv, IInv, TypeOK, Ledger, Allowance, Accounts
  <2>3. /\ TotalOnce(SpentOrders(u, t)) \in Nat /\ TotalOnce(UsedPermits(u, t)) \in Nat
        /\ TotalOnce(ByNonce(OrdersOf(u, t))) \in Nat /\ TotalOnce(ByNonce(PermitsOf(u, t))) \in Nat
        /\ TotalOnce(SpentOrders(u, t)) <= TotalOnce(ByNonce(OrdersOf(u, t)))
        /\ TotalOnce(UsedPermits(u, t)) <= TotalOnce(ByNonce(PermitsOf(u, t)))
    BY CountedSigned DEF SpentOrders, UsedPermits
  <2> QED
    BY <2>1, <2>2, <2>3 DEF SignedAway
<1> QED
  BY <1>1, InitConsent, NextConsent, PTL DEF Spec
=============================================================================
