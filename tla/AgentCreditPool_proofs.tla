----------------------- MODULE AgentCreditPool_proofs -----------------------
(* The pool's books balance for any parties, amounts, rates and prices.       *)
EXTENDS AgentCreditPool, Totals_proofs

(* Only loans that were made are active, and they have a borrower. *)
LoansMade ==
    \A i \in LoanIds : /\ loans[i].status # "none" => loans[i].borrower \in Agents
                       /\ i > loanCount => loans[i].status = "none"

IInv == TypeOK /\ Solvent /\ BooksAddUp /\ LoansMade

-----------------------------------------------------------------------------
(* Amounts *)

(* How an amount repaid with interest is divided. *)
LEMMA AmountsType ==
    ASSUME TypeOK, NEW p \in Nat
    PROVE  /\ Interest(p) \in Nat /\ Owed(p) \in Nat /\ PerfFee(p) \in Nat
           /\ ToReserve(p) \in Nat /\ ToLPs(p) \in Nat /\ ToLPs(p) >= p
           /\ Owed(p) - PerfFee(p) = ToLPs(p) + ToReserve(p)
           /\ Owed(p) >= PerfFee(p) /\ Owed(p) >= p
<1>1. /\ fees.perf \in Nat /\ fees.interest \in Nat /\ fees.reserve \in Nat
      /\ fees.perf + fees.reserve <= BPS /\ BPS \in Nat \ {0}
  BY Numbers DEF TypeOK, ValidFees
<1>2. Interest(p) \in Nat
  BY <1>1, MulNat, DivNat DEF Interest, Bps
<1>3. PerfFee(p) \in Nat /\ ToReserve(p) \in Nat
  BY <1>1, <1>2, MulNat, DivNat DEF PerfFee, ToReserve, Bps
<1>4. PerfFee(p) + ToReserve(p) <= Interest(p)
  BY <1>1, <1>2, FloorSplit DEF PerfFee, ToReserve, Bps
<1> QED
  BY <1>2, <1>3, <1>4 DEF Owed, ToLPs

-----------------------------------------------------------------------------
(* The loans as totals *)

LEMMA LoanIdsFinite == IsFiniteSet(LoanIds)
BY Numbers, FS_Interval DEF LoanIds

LEMMA LentType ==
    ASSUME TypeOK
    PROVE  Lent \in [LoanIds -> Nat] /\ \A a \in Agents : LentTo(a) \in [LoanIds -> Nat]
BY DEF TypeOK, Lent, LentTo, Loan

LEMMA EntryCleared ==
    ASSUME NEW f \in [LoanIds -> Nat], NEW i \in LoanIds
    PROVE  /\ Total(f) \in Nat /\ f[i] <= Total(f)
           /\ Total([f EXCEPT ![i] = 0]) = Total(f) - f[i]
<1>1. ASSUME NEW v \in Nat
      PROVE  /\ Total(f) \in Nat /\ f[i] <= Total(f)
             /\ Total([f EXCEPT ![i] = v]) = Total(f) - f[i] + v
  BY LoanIdsFinite, TotalUpdate
<1>2. f[i] \in Nat /\ 0 \in Nat
  OBVIOUS
<1>3. Total(f) \in Nat /\ f[i] <= Total(f) /\ Total([f EXCEPT ![i] = 0]) = Total(f) - f[i] + 0
  BY <1>1, <1>2
<1> QED
  BY <1>2, <1>3

LEMMA EntrySet ==
    ASSUME NEW f \in [LoanIds -> Nat], NEW i \in LoanIds, f[i] = 0, NEW v \in Nat
    PROVE  Total(f) \in Nat /\ Total([f EXCEPT ![i] = v]) = Total(f) + v
<1>1. Total(f) \in Nat /\ Total([f EXCEPT ![i] = v]) = Total(f) - f[i] + v
  BY LoanIdsFinite, TotalUpdate
<1> QED
  BY <1>1

LEMMA BondTotal == ASSUME TypeOK PROVE Total(bond) \in Nat
BY Parties, TotalType DEF TypeOK

(* What closing loan i does to the sums of the open loans. *)
LEMMA CloseEffect ==
    ASSUME TypeOK, BooksAddUp, LoansMade, NEW i \in LoanIds, Active(i),
           NEW s \in {"repaid", "defaulted"}, CloseLoan(i, s), UNCHANGED <<totalShares, shares, loanCount>>
    PROVE  /\ loans' \in [LoanIds -> Loan] /\ outstanding' \in Nat
           /\ agentOutstanding' \in [Agents -> Nat]
           /\ loans[i].principal \in Nat /\ outstanding' = outstanding - loans[i].principal
           /\ loans[i].borrower \in Agents
           /\ BooksAddUp' /\ LoansMade'
<1> DEFINE p == loans[i].principal
           b == loans[i].borrower
<1>1. p \in Nat /\ b \in Agents /\ loans \in [LoanIds -> Loan]
  BY DEF TypeOK, Loan, LoansMade, Active
<1>2. /\ loans' = [loans EXCEPT ![i].status = s] /\ outstanding' = outstanding - p
      /\ agentOutstanding' = [agentOutstanding EXCEPT ![b] = @ - p]
  BY DEF CloseLoan
<1>3. /\ loans' \in [LoanIds -> Loan] /\ loans'[i].status = s
      /\ \A j \in LoanIds : loans'[j].borrower = loans[j].borrower
                            /\ loans'[j].principal = loans[j].principal
      /\ \A j \in LoanIds : j # i => loans'[j] = loans[j]
  BY <1>1, <1>2 DEF Loan
<1>4. Lent' = [Lent EXCEPT ![i] = 0] /\ Lent[i] = p
  BY <1>1, <1>3 DEF Lent, Active
<1>5. ASSUME NEW a \in Agents, a = b
      PROVE  LentTo(a)' = [LentTo(a) EXCEPT ![i] = 0] /\ LentTo(a)[i] = p
  BY <1>1, <1>3, <1>5 DEF LentTo, Active
<1>6. ASSUME NEW a \in Agents, a # b PROVE LentTo(a)' = LentTo(a)
  BY <1>1, <1>3, <1>6 DEF LentTo, Active
<1>7. Total(Lent) \in Nat /\ p <= Total(Lent) /\ Total(Lent') = Total(Lent) - p
  BY <1>1, <1>4, LentType, EntryCleared
<1>8. ASSUME NEW a \in Agents, a = b
      PROVE  /\ Total(LentTo(a)) \in Nat /\ p <= Total(LentTo(a))
             /\ Total(LentTo(a)') = Total(LentTo(a)) - p
  BY <1>1, <1>5, <1>8, LentType, EntryCleared
<1>9. agentOutstanding \in [Agents -> Nat] /\ outstanding = Total(Lent)
      /\ \A a \in Agents : agentOutstanding[a] = Total(LentTo(a))
  BY DEF TypeOK, BooksAddUp
<1> HIDE DEF p, b
<1>10. outstanding' \in Nat /\ agentOutstanding' \in [Agents -> Nat]
  BY <1>1, <1>2, <1>7, <1>8, <1>9
<1>11. outstanding' = Total(Lent')
  BY <1>2, <1>7, <1>9
<1>12. ASSUME NEW a \in Agents PROVE agentOutstanding'[a] = Total(LentTo(a)')
  <2>1. CASE a = b
    <3>1. agentOutstanding'[a] = agentOutstanding[a] - p
      BY <2>1, <1>1, <1>2, <1>9
    <3> QED
      BY <2>1, <3>1, <1>1, <1>8, <1>9
  <2>2. CASE a # b
    BY <2>2, <1>1, <1>2, <1>6, <1>9
  <2> QED
    BY <2>1, <2>2
<1>13. BooksAddUp'
  BY <1>11, <1>12 DEF BooksAddUp
<1>14. LoansMade'
  BY <1>1, <1>3 DEF LoansMade, p, b, Active
<1> QED
  BY <1>1, <1>2, <1>3, <1>10, <1>13, <1>14 DEF p, b

LEMMA InitIInv == Init => IInv
<1> SUFFICES ASSUME Init PROVE IInv
  OBVIOUS
<1>1. TypeOK
  <2>1. /\ policy \in Policy /\ fees \in [perf : Nat, interest : Nat, reserve : Nat] /\ ValidFees(fees)
        /\ risk \in [maxLtv : Nat, threshold : Nat, penalty : Nat] /\ ValidRisk(risk)
        /\ minBond \in Nat /\ price \in Nat
    BY Settings DEF Init
  <2>2. loans \in [LoanIds -> Loan]
    BY DEF Init, Loan
  <2>3. route \in Route
    BY DEF Init, Route, NoRoute
  <2>4. loanCount \in 0..MaxLoans
    BY Numbers DEF Init
  <2> QED
    BY <2>1, <2>2, <2>3, <2>4 DEF Init, TypeOK
<1>2. /\ Total(bond) = 0 /\ Total(shares) = 0
  BY <1>1, TotalZero DEF Init, TypeOK
<1>3. Total(Lent) = 0
  BY <1>1, LentType, TotalZero DEF Init, Lent, Active
<1>4. ASSUME NEW a \in Agents PROVE Total(LentTo(a)) = 0
  BY <1>1, LentType, TotalZero DEF Init, LentTo, Active
<1>5. Solvent /\ BooksAddUp /\ LoansMade
  BY <1>2, <1>3, <1>4 DEF Init, Solvent, BooksAddUp, LoansMade
<1> QED
  BY <1>1, <1>5 DEF IInv

-----------------------------------------------------------------------------
(* One lemma per action *)

LEMMA MintedType ==
    ASSUME TypeOK, NEW x \in Nat, totalShares # 0 => poolAssets # 0
    PROVE  MintedShares(x) \in Nat
<1>1. totalShares \in Nat /\ poolAssets \in Nat /\ x * totalShares \in Nat
  BY MulNat DEF TypeOK, poolAssets
<1> QED
  BY <1>1, DivNat DEF MintedShares

LEMMA DepositStep ==
    ASSUME IInv, NEW l \in LPs, NEW x \in Deposits, deposit(l, x) PROVE IInv'
<1>1. TypeOK /\ Solvent /\ BooksAddUp /\ LoansMade /\ x \in Nat
  BY Numbers DEF IInv
<1> DEFINE m == MintedShares(x)
<1>2. /\ totalShares' = totalShares + m /\ shares' = [shares EXCEPT ![l] = @ + m]
      /\ idle' = idle + x /\ held' = held + x
      /\ UNCHANGED <<now, config, price, reserve, bond, lending, secured, route, shortfall>>
  BY DEF deposit
<1>3. m \in Nat
  BY <1>1, MintedType DEF deposit
<1>4. shares \in [LPs -> Nat] /\ Total(shares') = Total(shares) + m
  <2>1. shares \in [LPs -> Nat] /\ shares[l] + m \in Nat
    BY <1>1, <1>3 DEF TypeOK
  <2>2. shares' = [shares EXCEPT ![l] = shares[l] + m]
    BY <1>2
  <2>3. Total(shares) \in Nat /\ Total(shares') = Total(shares) - shares[l] + (shares[l] + m)
    BY <2>1, <2>2, Parties, TotalUpdate
  <2> QED
    BY <2>1, <2>3, <1>3
<1> HIDE DEF m
<1>5. TypeOK'
  BY <1>1, <1>2, <1>3, <1>4 DEF TypeOK, config, lending, secured
<1>6. Solvent'
  BY <1>1, <1>2, BondTotal DEF TypeOK, Solvent
<1>7. BooksAddUp' /\ LoansMade'
  BY <1>1, <1>2, <1>4 DEF BooksAddUp, LoansMade, lending, Lent, LentTo, Active
<1> QED
  BY <1>5, <1>6, <1>7 DEF IInv

(* An LP cannot burn more shares than there are. *)
LEMMA ShareBound ==
    ASSUME IInv, NEW l \in LPs
    PROVE  shares[l] \in Nat /\ totalShares \in Nat /\ shares[l] <= totalShares
<1>1. shares \in [LPs -> Nat] /\ totalShares = Total(shares) /\ totalShares \in Nat
  BY DEF IInv, TypeOK, BooksAddUp
<1>2. shares[l] <= Total(shares)
  <2>1. shares[l] \in Nat
    BY <1>1
  <2> QED
    BY <1>1, <2>1, Parties, TotalUpdate
<1> QED
  BY <1>1, <1>2

LEMMA ShareValueType ==
    ASSUME IInv, NEW l \in LPs, NEW s \in Nat \ {0}, s <= shares[l]
    PROVE  ShareValue(s) \in Nat
<1>1. totalShares \in Nat \ {0} /\ poolAssets \in Nat
  BY ShareBound DEF IInv, TypeOK, poolAssets
<1> QED
  BY <1>1, MulNat, DivNat DEF ShareValue

LEMMA WithdrawStep ==
    ASSUME IInv, NEW l \in LPs, NEW s \in ShareAmounts \cup {shares[l]}, withdraw(l, s) PROVE IInv'
<1>1. TypeOK /\ Solvent /\ BooksAddUp /\ LoansMade /\ s \in Nat
  BY Numbers, ShareBound DEF IInv
<1> DEFINE v == ShareValue(s)
<1>2. /\ s > 0 /\ s <= shares[l] /\ v <= idle /\ v <= held
      /\ totalShares' = totalShares - s /\ shares' = [shares EXCEPT ![l] = @ - s]
      /\ idle' = idle - v /\ held' = held - v
      /\ UNCHANGED <<now, config, price, reserve, bond, lending, secured, route, shortfall>>
  BY DEF withdraw
<1>3. v \in Nat
  BY <1>1, <1>2, ShareValueType
<1>4. shares \in [LPs -> Nat] /\ shares' \in [LPs -> Nat] /\ Total(shares') = Total(shares) - s
  <2>1. shares \in [LPs -> Nat] /\ shares[l] - s \in Nat
    BY <1>1, <1>2 DEF TypeOK
  <2>2. shares' = [shares EXCEPT ![l] = shares[l] - s]
    BY <1>2
  <2>3. Total(shares) \in Nat /\ Total(shares') = Total(shares) - shares[l] + (shares[l] - s)
    BY <2>1, <2>2, Parties, TotalUpdate
  <2> QED
    BY <2>1, <2>2, <2>3, <1>1
<1> HIDE DEF v
<1>5. totalShares' \in Nat
  BY <1>1, <1>2, ShareBound
<1>6. TypeOK'
  BY <1>1, <1>2, <1>3, <1>4, <1>5 DEF TypeOK, config, lending, secured
<1>7. Solvent'
  BY <1>1, <1>2, <1>3, BondTotal DEF TypeOK, Solvent
<1>8. BooksAddUp' /\ LoansMade'
  BY <1>1, <1>2, <1>4 DEF BooksAddUp, LoansMade, lending, Lent, LentTo, Active
<1> QED
  BY <1>6, <1>7, <1>8 DEF IInv

LEMMA BooksFrame ==
    ASSUME IInv, UNCHANGED <<lpSide, lending>>
    PROVE  BooksAddUp' /\ LoansMade'
BY DEF IInv, BooksAddUp, LoansMade, lpSide, lending, Lent, LentTo, Active

LEMMA BondStep ==
    ASSUME IInv, NEW a \in Agents, NEW x \in BondAmounts, depositBond(a, x) \/ withdrawBond(a, x)
    PROVE  IInv'
<1>1. TypeOK /\ Solvent /\ x \in Nat
  BY Numbers DEF IInv
<1>2. bond \in [Agents -> Nat] /\ held \in Nat
  BY <1>1 DEF TypeOK
<1>3. PICK v \in Nat : /\ bond' = [bond EXCEPT ![a] = v] /\ held' \in Nat
                       /\ held' = held - bond[a] + v
  <2>1. CASE depositBond(a, x)
    <3>1. bond' = [bond EXCEPT ![a] = bond[a] + x] /\ held' = held + x /\ bond[a] \in Nat
      BY <1>2, <2>1 DEF depositBond
    <3>2. bond[a] + x \in Nat /\ held' \in Nat /\ held' = held - bond[a] + (bond[a] + x)
      BY <1>1, <1>2, <3>1
    <3> QED
      BY <3>1, <3>2
  <2>2. CASE withdrawBond(a, x)
    <3>1. /\ bond' = [bond EXCEPT ![a] = bond[a] - x] /\ held' = held - x
          /\ x <= held /\ x <= bond[a] /\ bond[a] \in Nat
      BY <1>2, <2>2 DEF withdrawBond
    <3>2. bond[a] - x \in Nat /\ held' \in Nat /\ held' = held - bond[a] + (bond[a] - x)
      BY <1>1, <1>2, <3>1
    <3> QED
      BY <3>1, <3>2
  <2> QED
    BY <2>1, <2>2
<1>4. UNCHANGED <<now, config, price, idle, reserve, lpSide, lending, secured, route, shortfall>>
  BY DEF depositBond, withdrawBond
<1>5. Total(bond) \in Nat /\ Total(bond') = Total(bond) - bond[a] + v
  <2>1. ASSUME NEW w \in Nat
        PROVE  Total(bond) \in Nat /\ Total([bond EXCEPT ![a] = w]) = Total(bond) - bond[a] + w
    <3>1. IsFiniteSet(Agents) /\ bond \in [Agents -> Nat]
      BY <1>2, Parties
    <3> QED
      BY <3>1, TotalUpdate
  <2> QED
    BY <1>3, <2>1
<1>6. TypeOK'
  BY <1>1, <1>2, <1>3, <1>4 DEF TypeOK, config, lpSide, lending, secured
<1>7. Solvent'
  BY <1>1, <1>2, <1>3, <1>4, <1>5 DEF TypeOK, Solvent
<1> QED
  BY <1>4, <1>6, <1>7, BooksFrame DEF IInv

LEMMA LoanStep ==
    ASSUME IInv, NEW a \in Agents, NEW x \in LoanAmounts, NEW t \in Terms, requestLoan(a, x, t)
    PROVE  IInv'
<1>1. TypeOK /\ Solvent /\ BooksAddUp /\ LoansMade /\ x \in Nat /\ t \in Nat
  BY Numbers DEF IInv
<1> DEFINE i == loanCount + 1
           ln == [borrower |-> a, principal |-> x, dueAt |-> now + t, status |-> "active"]
<1>2. /\ loanCount < MaxLoans /\ x <= idle /\ x <= held
      /\ loans' = [loans EXCEPT ![i] = ln] /\ loanCount' = i
      /\ outstanding' = outstanding + x /\ idle' = idle - x /\ held' = held - x
      /\ agentOutstanding' = [agentOutstanding EXCEPT ![a] = @ + x]
      /\ epoch' = [_touchEpoch EXCEPT !.lent = @ + x]
      /\ UNCHANGED <<now, config, price, reserve, lpSide, bond, secured, route, shortfall>>
  BY DEF requestLoan
<1>3. /\ i \in LoanIds /\ i \in Nat /\ loanCount \in Nat /\ i = loanCount + 1
      /\ ln \in Loan /\ loans \in [LoanIds -> Loan]
      /\ ln.status = "active" /\ ln.borrower = a /\ ln.principal = x
  <2>1. now \in Nat /\ loanCount \in 0..MaxLoans /\ MaxLoans \in Nat /\ loans \in [LoanIds -> Loan]
    BY <1>1, Numbers DEF TypeOK
  <2>2. i \in LoanIds /\ loanCount \in Nat
    BY <1>2, <2>1 DEF LoanIds
  <2>3. ln \in Loan
    BY <1>1, <2>1 DEF Loan
  <2> QED
    BY <2>1, <2>2, <2>3
<1> HIDE DEF i, ln
<1>4. loans[i].status = "none"
  BY <1>1, <1>3 DEF LoansMade
<1>5. /\ loans' \in [LoanIds -> Loan] /\ loans'[i] = ln
      /\ \A j \in LoanIds : j # i => loans'[j] = loans[j]
  BY <1>2, <1>3
<1>6. Lent' = [Lent EXCEPT ![i] = x] /\ Lent[i] = 0
  BY <1>3, <1>4, <1>5 DEF Lent, Active
<1>7. LentTo(a)' = [LentTo(a) EXCEPT ![i] = x] /\ LentTo(a)[i] = 0
  BY <1>3, <1>4, <1>5 DEF LentTo, Active
<1>8. ASSUME NEW b \in Agents, b # a PROVE LentTo(b)' = LentTo(b)
  BY <1>3, <1>4, <1>5, <1>8 DEF LentTo, Active
<1>9. Total(Lent) \in Nat /\ Total(Lent') = Total(Lent) + x
  BY <1>1, <1>3, <1>6, LentType, EntrySet
<1>10. Total(LentTo(a)) \in Nat /\ Total(LentTo(a)') = Total(LentTo(a)) + x
  <2>1. LentTo(a) \in [LoanIds -> Nat]
    BY <1>1, LentType
  <2>2. Total(LentTo(a)) \in Nat /\ Total([LentTo(a) EXCEPT ![i] = x]) = Total(LentTo(a)) + x
    BY <1>1, <1>3, <1>7, <2>1, EntrySet
  <2> QED
    BY <1>7, <2>2
<1>11. agentOutstanding \in [Agents -> Nat] /\ outstanding = Total(Lent) /\ totalShares = Total(shares)
       /\ \A b \in Agents : agentOutstanding[b] = Total(LentTo(b))
  BY <1>1 DEF TypeOK, BooksAddUp
<1>12. epoch' \in [start : Nat, lent : Nat]
  <2>1. now \in Nat /\ epoch \in [start : Nat, lent : Nat]
    BY <1>1 DEF TypeOK
  <2>2. _touchEpoch \in [start : Nat, lent : Nat]
    BY <2>1 DEF _touchEpoch
  <2> QED
    BY <1>1, <1>2, <2>2
<1>13. LoansMade'
  <2>1. ASSUME NEW j \in LoanIds
        PROVE  /\ loans'[j].status # "none" => loans'[j].borrower \in Agents
               /\ j > i => loans'[j].status = "none"
    <3>1. CASE j = i
      BY <3>1, <1>3, <1>5
    <3>2. CASE j # i
      BY <3>2, <1>1, <1>3, <1>5 DEF LoansMade, LoanIds
    <3> QED
      BY <3>1, <3>2
  <2> QED
    BY <1>2, <2>1 DEF LoansMade
<1>14. agentOutstanding' \in [Agents -> Nat]
  BY <1>1, <1>2, <1>11
<1>15. TypeOK'
  <2>1. loanCount' \in 0..MaxLoans
    BY <1>1, <1>2, <1>3 DEF LoanIds
  <2>2. idle' \in Nat /\ held' \in Nat /\ outstanding' \in Nat
    BY <1>1, <1>2 DEF TypeOK
  <2> QED
    BY <1>1, <1>2, <1>5, <1>12, <1>14, <2>1, <2>2 DEF TypeOK, config, lpSide, secured
<1>16. Solvent'
  BY <1>1, <1>2, BondTotal DEF TypeOK, Solvent
<1>17. BooksAddUp'
  <2>1. outstanding' = Total(Lent') /\ totalShares' = Total(shares')
    BY <1>2, <1>9, <1>11 DEF lpSide
  <2>2. agentOutstanding'[a] = Total(LentTo(a)')
    BY <1>2, <1>10, <1>11
  <2>3. ASSUME NEW b \in Agents, b # a PROVE agentOutstanding'[b] = Total(LentTo(b)')
    BY <1>2, <1>8, <1>11, <2>3
  <2> QED
    BY <2>1, <2>2, <2>3 DEF BooksAddUp
<1> QED
  BY <1>13, <1>15, <1>16, <1>17 DEF IInv

LEMMA SettleStep ==
    ASSUME IInv, NEW i \in LoanIds, _settle(i), route' \in Route PROVE IInv'
<1>1. TypeOK /\ Solvent /\ BooksAddUp /\ LoansMade
  BY DEF IInv
<1> DEFINE p == loans[i].principal
<1>2. /\ Active(i) /\ CloseLoan(i, "repaid")
      /\ idle' = idle + ToLPs(p) /\ reserve' = reserve + ToReserve(p)
      /\ held' = held + Owed(p) - PerfFee(p)
      /\ UNCHANGED <<now, config, price, lpSide, bond, loanCount, epoch, secured, shortfall>>
  BY DEF _settle
<1>3. /\ loans' \in [LoanIds -> Loan] /\ outstanding' \in Nat /\ p \in Nat
      /\ agentOutstanding' \in [Agents -> Nat] /\ BooksAddUp' /\ LoansMade'
  BY <1>1, <1>2, CloseEffect DEF lpSide
<1>4. /\ ToLPs(p) \in Nat /\ ToReserve(p) \in Nat /\ Owed(p) \in Nat /\ PerfFee(p) \in Nat
      /\ Owed(p) - PerfFee(p) = ToLPs(p) + ToReserve(p) /\ Owed(p) >= PerfFee(p)
  BY <1>1, <1>3, AmountsType
<1> HIDE DEF p
<1>5. idle' \in Nat /\ reserve' \in Nat /\ held' \in Nat
  BY <1>1, <1>2, <1>4 DEF TypeOK
<1>6. TypeOK'
  BY <1>1, <1>2, <1>3, <1>5 DEF TypeOK, config, lpSide, secured
<1>7. Solvent'
  BY <1>1, <1>2, <1>4, BondTotal DEF TypeOK, Solvent
<1> QED
  BY <1>3, <1>6, <1>7 DEF IInv

LEMMA RouteFrame ==
    ASSUME IInv, route' \in Route,
           UNCHANGED <<now, config, price, held, idle, reserve, lpSide, bond, lending, secured, shortfall>>
    PROVE  IInv'
<1>1. TypeOK' /\ Solvent'
  BY DEF IInv, TypeOK, Solvent, config, lpSide, lending, secured
<1> QED
  BY <1>1, BooksFrame DEF IInv

LEMMA RouteStep ==
    ASSUME IInv,
           \/ RouteNext \/ RouteEnd
           \/ \E a \in Agents, x \in Revenues : repayOnBehalf(a, x) \/ RouteRevenue(a, x)
    PROVE  IInv'
<1>1. TypeOK
  BY DEF IInv
<1>2. ASSUME NEW a \in Agents, NEW x \in Revenues, repayOnBehalf(a, x) \/ RouteRevenue(a, x)
      PROVE  IInv'
  <2>1. x \in Nat
    BY Numbers
  <2>2. debtOf(a) \in Nat
    <3>1. ASSUME NEW i \in LoanIds PROVE Owed(LentTo(a)[i]) \in Nat
      BY <1>1, LentType, AmountsType
    <3> DEFINE f == [i \in LoanIds |-> Owed(LentTo(a)[i])]
    <3>2. f \in [LoanIds -> Nat]
      BY <3>1
    <3> HIDE DEF f
    <3>3. Total(f) \in Nat
      BY <3>2, LoanIdsFinite, TotalType
    <3> QED
      BY <3>3 DEF debtOf, f
  <2>3. Lesser(debtOf(a), x) \in Nat
    BY <2>1, <2>2 DEF Lesser
  <2>4. route' \in Route
    BY <1>2, <2>1, <2>3 DEF repayOnBehalf, RouteRevenue, Begin, Route
  <2> QED
    BY <1>2, <2>4, RouteFrame DEF repayOnBehalf, RouteRevenue, Begin
<1>3. CASE RouteNext
  <2> DEFINE i == route.next
  <2>0. route \in Route /\ i \in Nat \ {0} /\ route.used \in Nat
    BY <1>1 DEF TypeOK, Route
  <2>1. CASE _settle(i) /\ route' = [route EXCEPT !.next = @ + 1, !.used = @ + Owed(loans[i].principal)]
    <3>1. Active(i) /\ i \in LoanIds
      <4>1. Active(i) /\ i <= loanCount
        BY <1>1, <1>3, <2>0, <2>1 DEF _settle, RouteNext, LoopEnds, TypeOK
      <4> QED
        <5>1. loanCount \in 0..MaxLoans /\ MaxLoans \in Nat
          BY <1>1, Numbers DEF TypeOK
        <5> QED
          BY <2>0, <4>1, <5>1 DEF LoanIds
    <3>2. Owed(loans[i].principal) \in Nat
      BY <1>1, <3>1, AmountsType DEF TypeOK, Loan
    <3>3. route' \in Route
      <4>1. route.next + 1 \in Nat \ {0} /\ route.used + Owed(loans[i].principal) \in Nat
        BY <2>0, <3>2
      <4> HIDE DEF i
      <4> QED
        BY <2>0, <2>1, <4>1 DEF Route
    <3> QED
      BY <2>1, <3>1, <3>3, SettleStep
  <2>2. CASE /\ route' = [route EXCEPT !.next = @ + 1]
             /\ UNCHANGED <<now, config, price, held, idle, reserve, lpSide, bond, lending, secured, shortfall>>
    <3>1. route' \in Route
      BY <2>0, <2>2 DEF Route
    <3> QED
      BY <2>2, <3>1, RouteFrame
  <2> QED
    BY <1>3, <2>1, <2>2 DEF RouteNext
<1>4. CASE RouteEnd
  <2>1. route' \in Route
    BY <1>4 DEF RouteEnd, Route, NoRoute
  <2> QED
    BY <1>4, <2>1, RouteFrame DEF RouteEnd
<1> QED
  BY <1>2, <1>3, <1>4

LEMMA LesserType == ASSUME NEW x \in Nat, NEW y \in Nat
                    PROVE  Lesser(x, y) \in Nat /\ Lesser(x, y) <= x /\ Lesser(x, y) <= y
BY DEF Lesser

(* What a default takes from the bond and from the reserve. *)
LEMMA DefaultAmounts ==
    ASSUME TypeOK, NEW i \in LoanIds, loans[i].borrower \in Agents
    PROVE  /\ bond[loans[i].borrower] \in Nat /\ loans[i].principal \in Nat /\ reserve \in Nat
           /\ Slashed(i) \in Nat /\ Slashed(i) <= bond[loans[i].borrower]
           /\ Slashed(i) <= loans[i].principal
           /\ ReserveUsed(i) \in Nat /\ ReserveUsed(i) <= reserve
           /\ ReserveUsed(i) <= loans[i].principal - Slashed(i)
<1>1. bond[loans[i].borrower] \in Nat /\ loans[i].principal \in Nat /\ reserve \in Nat
  BY DEF TypeOK, Loan
<1>2. Slashed(i) \in Nat /\ Slashed(i) <= bond[loans[i].borrower] /\ Slashed(i) <= loans[i].principal
  BY <1>1, LesserType DEF Slashed
<1>3. loans[i].principal - Slashed(i) \in Nat
  BY <1>1, <1>2
<1> QED
  BY <1>1, <1>2, <1>3, LesserType DEF ReserveUsed

LEMMA DefaultStep == ASSUME IInv, NEW i \in LoanIds, markDefault(i) PROVE IInv'
<1>1. TypeOK /\ Solvent /\ BooksAddUp /\ LoansMade
  BY DEF IInv
<1> DEFINE b == loans[i].borrower
           s == Slashed(i)
           u == ReserveUsed(i)
<1>2. /\ Active(i) /\ CloseLoan(i, "defaulted")
      /\ bond' = [bond EXCEPT ![b] = @ - s] /\ reserve' = reserve - u /\ idle' = idle + s + u
      /\ UNCHANGED <<now, config, price, held, lpSide, loanCount, epoch, secured, route, shortfall>>
  BY DEF markDefault
<1>3. /\ loans' \in [LoanIds -> Loan] /\ outstanding' \in Nat /\ b \in Agents
      /\ agentOutstanding' \in [Agents -> Nat] /\ BooksAddUp' /\ LoansMade'
  BY <1>1, <1>2, CloseEffect DEF lpSide
<1>4. /\ bond[b] \in Nat /\ s \in Nat /\ s <= bond[b]
      /\ u \in Nat /\ u <= reserve /\ bond \in [Agents -> Nat] /\ IsFiniteSet(Agents)
  BY <1>1, <1>3, DefaultAmounts, Parties DEF TypeOK
<1> HIDE DEF b, s, u
<1>5. bond[b] - s \in Nat /\ bond' = [bond EXCEPT ![b] = bond[b] - s]
  BY <1>2, <1>4
<1>6. Total(bond) \in Nat /\ Total(bond') = Total(bond) - s
  <2>1. Total(bond) \in Nat /\ Total(bond') = Total(bond) - bond[b] + (bond[b] - s)
    BY <1>3, <1>4, <1>5, TotalUpdate
  <2> QED
    BY <1>4, <2>1
<1>7. bond' \in [Agents -> Nat] /\ idle' \in Nat /\ reserve' \in Nat
  <2>1. bond' \in [Agents -> Nat]
    BY <1>4, <1>5
  <2>2. idle' \in Nat /\ reserve' \in Nat
    BY <1>1, <1>2, <1>4 DEF TypeOK
  <2> QED
    BY <2>1, <2>2
<1>8. TypeOK'
  BY <1>1, <1>2, <1>3, <1>7 DEF TypeOK, config, lpSide, secured
<1>9. Solvent'
  BY <1>1, <1>2, <1>4, <1>6 DEF TypeOK, Solvent
<1> QED
  BY <1>3, <1>8, <1>9 DEF IInv

LEMMA CollateralMoveStep ==
    ASSUME IInv, NEW a \in Agents, NEW c \in CollateralAmounts,
           depositCollateral(a, c) \/ withdrawCollateral(a, c)
    PROVE  IInv'
<1>1. TypeOK /\ Solvent /\ c \in Nat
  BY Numbers DEF IInv
<1>2. collateral' \in [Agents -> Nat]
  BY <1>1 DEF TypeOK, depositCollateral, withdrawCollateral
<1>3. UNCHANGED <<now, config, price, held, idle, reserve, lpSide, bond, lending, collateralDebt, route, shortfall>>
  BY DEF depositCollateral, withdrawCollateral
<1>4. TypeOK' /\ Solvent'
  BY <1>1, <1>2, <1>3 DEF TypeOK, Solvent, config, lpSide, lending
<1> QED
  BY <1>3, <1>4, BooksFrame DEF IInv

LEMMA BorrowStep ==
    ASSUME IInv, NEW a \in Agents, NEW x \in Borrowings, borrowAgainstCollateral(a, x) PROVE IInv'
<1>1. TypeOK /\ Solvent /\ x \in Nat
  BY Numbers DEF IInv
<1>2. /\ x <= idle /\ x <= held
      /\ collateralDebt' = [collateralDebt EXCEPT ![a] = @ + x]
      /\ idle' = idle - x /\ held' = held - x
      /\ UNCHANGED <<now, config, price, reserve, lpSide, bond, lending, collateral, route, shortfall>>
  BY DEF borrowAgainstCollateral
<1>3. collateralDebt' \in [Agents -> Nat] /\ idle' \in Nat /\ held' \in Nat
  BY <1>1, <1>2 DEF TypeOK
<1>4. TypeOK'
  BY <1>1, <1>2, <1>3 DEF TypeOK, config, lpSide, lending
<1>5. Solvent'
  BY <1>1, <1>2, BondTotal DEF TypeOK, Solvent
<1> QED
  BY <1>2, <1>4, <1>5, BooksFrame DEF IInv

LEMMA RepayCollateralStep ==
    ASSUME IInv, NEW a \in Agents, repayCollateral(a) PROVE IInv'
<1>1. TypeOK /\ Solvent
  BY DEF IInv
<1> DEFINE d == collateralDebt[a]
<1>2. /\ collateralDebt' = [collateralDebt EXCEPT ![a] = 0]
      /\ idle' = idle + ToLPs(d) /\ reserve' = reserve + ToReserve(d)
      /\ held' = held + Owed(d) - PerfFee(d)
      /\ UNCHANGED <<now, config, price, lpSide, bond, lending, collateral, route, shortfall>>
  BY DEF repayCollateral
<1>3. d \in Nat
  BY <1>1 DEF TypeOK
<1>4. /\ ToLPs(d) \in Nat /\ ToReserve(d) \in Nat /\ Owed(d) \in Nat /\ PerfFee(d) \in Nat
      /\ Owed(d) - PerfFee(d) = ToLPs(d) + ToReserve(d) /\ Owed(d) >= PerfFee(d)
  BY <1>1, <1>3, AmountsType
<1> HIDE DEF d
<1>5. collateralDebt' \in [Agents -> Nat] /\ idle' \in Nat /\ held' \in Nat /\ reserve' \in Nat
  BY <1>1, <1>2, <1>4 DEF TypeOK
<1>6. TypeOK'
  BY <1>1, <1>2, <1>5 DEF TypeOK, config, lpSide, lending
<1>7. Solvent'
  BY <1>1, <1>2, <1>4, BondTotal DEF TypeOK, Solvent
<1> QED
  BY <1>2, <1>6, <1>7, BooksFrame DEF IInv

LEMMA LiquidateStep == ASSUME IInv, NEW a \in Agents, liquidate(a) PROVE IInv'
<1>1. TypeOK /\ Solvent
  BY DEF IInv
<1> DEFINE o == Owed(collateralDebt[a])
           z == Seized(a)
<1>2. /\ collateral' = [collateral EXCEPT ![a] = @ - z]
      /\ collateralDebt' = [collateralDebt EXCEPT ![a] = 0]
      /\ idle' = idle + o /\ shortfall' = shortfall + o
      /\ UNCHANGED <<now, config, price, held, reserve, lpSide, bond, lending, route>>
  BY DEF liquidate
<1>3. o \in Nat /\ collateral[a] \in Nat
  BY <1>1, AmountsType DEF TypeOK
<1>4. z \in Nat /\ z <= collateral[a]
  <2>1. price \in Nat \ {0}
    <3>1. price \in Nat /\ PriceScale \in Nat \ {0} /\ CollateralValue(collateral[a]) # 0
      BY <1>1, Numbers DEF TypeOK, liquidate, Liquidatable
    <3>2. CASE price = 0
      <4>1. collateral[a] * price = 0 /\ 0 \div PriceScale = 0
        BY <1>3, <3>1, <3>2
      <4> QED
        BY <3>1, <4>1 DEF CollateralValue
    <3> QED
      BY <3>1, <3>2
  <2>2. Bps(o, risk.penalty) \in Nat
    BY <1>1, <1>3, Numbers, MulNat, DivNat DEF TypeOK, Bps
  <2>3. (o + Bps(o, risk.penalty)) * PriceScale \in Nat
    BY <1>3, <2>2, Numbers, MulNat
  <2>4. ((o + Bps(o, risk.penalty)) * PriceScale) \div price \in Nat
    BY <2>1, <2>3, DivNat
  <2> QED
    BY <1>3, <2>4, LesserType DEF Seized
<1> HIDE DEF o, z
<1>5. /\ collateral' \in [Agents -> Nat] /\ collateralDebt' \in [Agents -> Nat]
      /\ idle' \in Nat /\ shortfall' \in Nat
  BY <1>1, <1>2, <1>3, <1>4 DEF TypeOK
<1>6. TypeOK'
  BY <1>1, <1>2, <1>5 DEF TypeOK, config, lpSide, lending
<1>7. Solvent'
  BY <1>1, <1>2, <1>3, BondTotal DEF TypeOK, Solvent
<1> QED
  BY <1>2, <1>6, <1>7, BooksFrame DEF IInv

LEMMA OtherStep == ASSUME IInv, Govern \/ OracleMove \/ Tick PROVE IInv'
<1>1. TypeOK /\ Solvent
  BY DEF IInv
<1>2. UNCHANGED <<held, idle, reserve, lpSide, bond, lending, secured, route, shortfall>>
  BY DEF Govern, OracleMove, Tick
<1>3. /\ now' \in Nat /\ gov' \in Nat /\ price' \in Nat /\ paused' \in BOOLEAN
      /\ approved' \subseteq LPs \cup Agents /\ policy' \in Policy /\ minBond' \in Nat
      /\ fees' \in [perf : Nat, interest : Nat, reserve : Nat] /\ ValidFees(fees)'
      /\ risk' \in [maxLtv : Nat, threshold : Nat, penalty : Nat] /\ ValidRisk(risk)'
  <2>1. CASE Govern
    <3>1. gov' \in Nat /\ UNCHANGED <<now, price>>
      BY <1>1, <2>1 DEF TypeOK, Govern
    <3>2. paused' \in BOOLEAN /\ approved' \subseteq LPs \cup Agents
      BY <1>1, <2>1 DEF TypeOK, Govern
    <3>3. policy' \in Policy /\ minBond' \in Nat
      BY <1>1, <2>1, Settings, Numbers DEF TypeOK, Govern
    <3>4. fees' \in [perf : Nat, interest : Nat, reserve : Nat] /\ ValidFees(fees)'
      BY <1>1, <2>1, Settings DEF TypeOK, Govern, ValidFees
    <3>5. risk' \in [maxLtv : Nat, threshold : Nat, penalty : Nat] /\ ValidRisk(risk)'
      BY <1>1, <2>1, Settings DEF TypeOK, Govern, ValidRisk
    <3> QED
      BY <1>1, <3>1, <3>2, <3>3, <3>4, <3>5 DEF TypeOK
  <2>2. CASE OracleMove
    <3>1. price' \in Nat /\ UNCHANGED <<now, config>>
      BY <2>2, Numbers DEF OracleMove
    <3> QED
      BY <1>1, <3>1 DEF TypeOK, config, ValidFees, ValidRisk
  <2>3. CASE Tick
    <3>1. now' \in Nat /\ UNCHANGED <<price, config>>
      BY <1>1, <2>3 DEF TypeOK, Tick
    <3> QED
      BY <1>1, <3>1 DEF TypeOK, config, ValidFees, ValidRisk
  <2> QED
    BY <2>1, <2>2, <2>3
<1>4. TypeOK' /\ Solvent'
  BY <1>1, <1>2, <1>3 DEF TypeOK, Solvent, lpSide, lending, secured
<1> QED
  BY <1>2, <1>4, BooksFrame DEF IInv

LEMMA NextIInv == IInv /\ [Next]_vars => IInv'
<1>1. ASSUME IInv, UNCHANGED vars PROVE IInv'
  <2>1. TypeOK' /\ Solvent'
    BY <1>1 DEF vars, config, lpSide, lending, secured, IInv, TypeOK, Solvent, ValidFees, ValidRisk
  <2>2. UNCHANGED <<lpSide, lending>>
    BY <1>1 DEF vars
  <2> QED
    BY <1>1, <2>1, <2>2, BooksFrame DEF IInv
<1>2. ASSUME IInv, LoanSteps PROVE IInv'
  <2>1. ASSUME NEW i \in LoanIds, repay(i) PROVE IInv'
    <3>1. _settle(i) /\ route' \in Route
      BY <1>2, <2>1 DEF repay, IInv, TypeOK
    <3> QED
      BY <1>2, <3>1, SettleStep
  <2> QED
    BY <1>2, <2>1, DefaultStep, LoanStep, RouteStep DEF LoanSteps
<1>3. ASSUME IInv, CollateralSteps PROVE IInv'
  BY <1>3, CollateralMoveStep, BorrowStep, RepayCollateralStep, LiquidateStep DEF CollateralSteps
<1> QED
  BY <1>1, <1>2, <1>3, DepositStep, WithdrawStep, BondStep, OtherStep DEF Next

-----------------------------------------------------------------------------
(* The theorems *)

(* No balance, loan, share or setting ever leaves its range: no subtraction    *)
(* of the contract underflows.                                                 *)
THEOREM TypeCorrect == Spec => []TypeOK
<1>1. IInv => TypeOK
  BY DEF IInv
<1> QED
  BY <1>1, InitIInv, NextIInv, PTL DEF Spec

(* The pool's USDC is its idle funds, its reserve and the bonds, less what      *)
(* liquidations credited without receiving it.                                  *)
THEOREM SolventUpToLiquidations == Spec => []Solvent
<1>1. IInv => Solvent
  BY DEF IInv
<1> QED
  BY <1>1, InitIInv, NextIInv, PTL DEF Spec

(* The totals behind the caps and the share price are sums over the loans and   *)
(* the shares.                                                                  *)
THEOREM TotalsAreSums == Spec => []BooksAddUp
<1>1. IInv => BooksAddUp
  BY DEF IInv
<1> QED
  BY <1>1, InitIInv, NextIInv, PTL DEF Spec

-----------------------------------------------------------------------------
(* What single steps may do *)

(* Whoever deposits gets no more shares, and whoever withdraws no more USDC,   *)
(* than the old share value makes fair.                                        *)
LEMMA DepositFair ==
    ASSUME IInv, NEW l \in LPs, NEW x \in Deposits, deposit(l, x), totalShares > 0
    PROVE  poolAssets' * totalShares >= poolAssets * totalShares'
<1> DEFINE A == poolAssets
           T == totalShares
           m == MintedShares(x)
<1>1. A \in Nat /\ T \in Nat \ {0} /\ x \in Nat /\ A # 0
  BY Numbers DEF IInv, TypeOK, poolAssets, deposit
<1>2. m \in Nat /\ m * A <= x * T
  BY <1>1, MulNat, DivNat DEF MintedShares
<1>3. poolAssets' = A + x /\ totalShares' = T + m
  <2>1. idle \in Nat /\ outstanding \in Nat
    BY DEF IInv, TypeOK
  <2>2. idle' = idle + x /\ outstanding' = outstanding /\ totalShares' = totalShares + m
    BY DEF deposit, lending
  <2> QED
    BY <1>1, <2>1, <2>2 DEF poolAssets
<1> HIDE DEF A, T, m
<1>4. (A + x) * T = A * T + x * T /\ A * (T + m) = A * T + m * A
  BY <1>1, <1>2
<1>5. A * T \in Nat /\ x * T \in Nat /\ m * A \in Nat
  BY <1>1, <1>2, MulNat
<1>6. (A + x) * T >= A * (T + m)
  BY <1>2, <1>4, <1>5
<1> QED
  BY <1>3, <1>6 DEF A, T

LEMMA WithdrawFair ==
    ASSUME IInv, NEW l \in LPs, NEW s \in ShareAmounts \cup {shares[l]}, withdraw(l, s)
    PROVE  poolAssets' * totalShares >= poolAssets * totalShares'
<1> DEFINE A == poolAssets
           T == totalShares
           v == ShareValue(s)
<1>1. s \in Nat \ {0} /\ s <= shares[l] /\ v <= idle
  BY Numbers, ShareBound DEF withdraw
<1>2. A \in Nat /\ T \in Nat \ {0} /\ s <= T /\ idle \in Nat /\ outstanding \in Nat /\ A = idle + outstanding
  BY <1>1, ShareBound DEF IInv, TypeOK, poolAssets
<1>3. v \in Nat /\ v * T <= s * A
  BY <1>1, <1>2, MulNat, DivNat DEF ShareValue
<1>4. poolAssets' = A - v /\ totalShares' = T - s
  BY <1>2, <1>3 DEF withdraw, lending, poolAssets
<1> HIDE DEF A, T, v
<1>5. (A - v) * T = A * T - v * T /\ A * (T - s) = A * T - s * A
  BY <1>1, <1>2, <1>3
<1>6. A * T \in Nat /\ v * T \in Nat /\ s * A \in Nat
  BY <1>1, <1>2, <1>3, MulNat
<1>7. (A - v) * T >= A * (T - s)
  BY <1>3, <1>5, <1>6
<1> QED
  BY <1>4, <1>7 DEF A, T

LEMMA AssetsGrow ==
    ASSUME IInv, UNCHANGED totalShares, poolAssets' \in Nat, poolAssets' >= poolAssets
    PROVE  poolAssets' * totalShares >= poolAssets * totalShares'
<1>1. poolAssets \in Nat /\ totalShares \in Nat
  BY DEF IInv, TypeOK, poolAssets
<1> QED
  BY <1>1, MulMono

LEMMA SettleGrows ==
    ASSUME IInv, NEW i \in LoanIds, _settle(i)
    PROVE  poolAssets' \in Nat /\ poolAssets' >= poolAssets /\ UNCHANGED totalShares
<1> DEFINE p == loans[i].principal
<1>1. /\ idle \in Nat /\ outstanding \in Nat /\ p \in Nat
      /\ ToLPs(p) \in Nat /\ ToLPs(p) >= p /\ UNCHANGED totalShares
      /\ idle' = idle + ToLPs(p) /\ outstanding' = outstanding - p
  BY AmountsType DEF IInv, TypeOK, Loan, _settle, CloseLoan, lpSide
<1>2. outstanding' \in Nat
  BY CloseEffect DEF IInv, _settle, lpSide
<1> HIDE DEF p
<1> QED
  BY <1>1, <1>2 DEF poolAssets

LEMMA ShareValueOf == IInv /\ [Next]_vars => [ShareValueStep]_vars
<1> SUFFICES ASSUME IInv, Next, totalShares > 0,
                    \A i \in LoanIds : loans'[i].status = "defaulted" => loans[i].status = "defaulted",
                    \A a \in Agents : collateralDebt'[a] <= collateralDebt[a]
             PROVE  poolAssets' * totalShares >= poolAssets * totalShares'
  BY DEF ShareValueStep
<1>0. /\ idle \in Nat /\ outstanding \in Nat /\ poolAssets \in Nat /\ TypeOK
      /\ collateralDebt \in [Agents -> Nat]
  BY DEF IInv, TypeOK, poolAssets
<1>1. CASE UNCHANGED <<idle, outstanding, totalShares>>
  BY <1>0, <1>1, AssetsGrow DEF poolAssets
<1>2. ASSUME NEW i \in LoanIds, _settle(i)
      PROVE  poolAssets' * totalShares >= poolAssets * totalShares'
  BY <1>2, SettleGrows, AssetsGrow
<1>3. ASSUME NEW l \in LPs, NEW x \in Deposits, deposit(l, x)
      PROVE  poolAssets' * totalShares >= poolAssets * totalShares'
  BY <1>3, DepositFair
<1>4. ASSUME NEW l \in LPs, NEW s \in ShareAmounts \cup {shares[l]}, withdraw(l, s)
      PROVE  poolAssets' * totalShares >= poolAssets * totalShares'
  BY <1>4, WithdrawFair
<1>5. ASSUME NEW a \in Agents, NEW x \in BondAmounts, depositBond(a, x) \/ withdrawBond(a, x)
      PROVE  UNCHANGED <<idle, outstanding, totalShares>>
  BY <1>5 DEF depositBond, withdrawBond, lending, lpSide
<1>6. ASSUME NEW a \in Agents, NEW x \in LoanAmounts, NEW t \in Terms, requestLoan(a, x, t)
      PROVE  poolAssets' * totalShares >= poolAssets * totalShares'
  <2>1. x \in Nat /\ idle' = idle - x /\ outstanding' = outstanding + x /\ UNCHANGED totalShares
    BY <1>6, Numbers DEF requestLoan, lpSide
  <2>2. poolAssets' = poolAssets
    BY <1>0, <2>1 DEF poolAssets
  <2> QED
    BY <1>0, <2>1, <2>2, AssetsGrow
<1>7. ASSUME NEW i \in LoanIds, markDefault(i) PROVE FALSE
  <2>1. loans'[i].status = "defaulted" /\ loans[i].status = "active"
    BY <1>0, <1>7 DEF markDefault, CloseLoan, Active, TypeOK, Loan
  <2> QED
    BY <2>1
<1>8. CASE LoanSteps
  <2>1. CASE \E a \in Agents, x \in Revenues : repayOnBehalf(a, x) \/ RouteRevenue(a, x)
    BY <1>1, <2>1 DEF repayOnBehalf, RouteRevenue, Begin, lending, lpSide
  <2>2. CASE RouteEnd
    BY <1>1, <2>2 DEF RouteEnd, lending, lpSide
  <2>3. CASE RouteNext
    <3>1. CASE Active(route.next) /\ _settle(route.next)
      <4>1. route.next \in LoanIds
        <5>1. route.next \in Nat \ {0} /\ loanCount \in 0..MaxLoans /\ MaxLoans \in Nat
          BY <1>0, Numbers DEF TypeOK, Route
        <5>2. route.next <= loanCount
          BY <2>3, <5>1 DEF RouteNext, LoopEnds
        <5> QED
          BY <5>1, <5>2 DEF LoanIds
      <4> QED
        BY <1>2, <3>1, <4>1
    <3>2. CASE UNCHANGED <<idle, lpSide, lending>>
      BY <1>1, <3>2 DEF lending, lpSide
    <3> QED
      BY <2>3, <3>1, <3>2 DEF RouteNext
  <2> QED
    BY <1>2, <1>6, <1>7, <1>8, <2>1, <2>2, <2>3 DEF LoanSteps, repay
<1>9. ASSUME NEW a \in Agents, CollateralSteps
      PROVE  poolAssets' * totalShares >= poolAssets * totalShares'
  <2>1. ASSUME NEW b \in Agents, NEW x \in Borrowings, borrowAgainstCollateral(b, x) PROVE FALSE
    <3>1. x \in Nat \ {0} /\ collateralDebt[b] \in Nat
      BY <1>0, Numbers
    <3>2. collateralDebt'[b] = collateralDebt[b] + x
      BY <1>0, <2>1 DEF borrowAgainstCollateral
    <3>3. collateralDebt'[b] > collateralDebt[b]
      BY <3>1, <3>2
    <3> QED
      BY <3>1, <3>2, <3>3
  <2>2. ASSUME NEW b \in Agents, repayCollateral(b)
        PROVE  poolAssets' * totalShares >= poolAssets * totalShares'
    <3>1. /\ UNCHANGED <<outstanding, totalShares>> /\ idle' = idle + ToLPs(collateralDebt[b])
          /\ ToLPs(collateralDebt[b]) \in Nat
      BY <1>0, <2>2, AmountsType DEF repayCollateral, lending, lpSide
    <3>2. poolAssets' \in Nat /\ poolAssets' >= poolAssets
      BY <1>0, <3>1 DEF poolAssets
    <3> QED
      BY <3>1, <3>2, AssetsGrow
  <2>3. ASSUME NEW b \in Agents, liquidate(b)
        PROVE  poolAssets' * totalShares >= poolAssets * totalShares'
    <3>1. /\ UNCHANGED <<outstanding, totalShares>> /\ idle' = idle + Owed(collateralDebt[b])
          /\ Owed(collateralDebt[b]) \in Nat
      BY <1>0, <2>3, AmountsType DEF liquidate, lending, lpSide
    <3>2. poolAssets' \in Nat /\ poolAssets' >= poolAssets
      BY <1>0, <3>1 DEF poolAssets
    <3> QED
      BY <3>1, <3>2, AssetsGrow
  <2>4. ASSUME NEW b \in Agents, NEW c \in CollateralAmounts,
               depositCollateral(b, c) \/ withdrawCollateral(b, c)
        PROVE  UNCHANGED <<idle, outstanding, totalShares>>
    BY <2>4 DEF depositCollateral, withdrawCollateral, lending, lpSide
  <2> QED
    BY <1>1, <1>9, <2>1, <2>2, <2>3, <2>4 DEF CollateralSteps
<1>10. CASE Govern \/ OracleMove \/ Tick
  BY <1>1, <1>10 DEF Govern, OracleMove, Tick, lending, lpSide
<1> QED
  BY <1>1, <1>3, <1>4, <1>5, <1>8, <1>9, <1>10 DEF Next, CollateralSteps

(* The maximal LTV lies below the liquidation threshold. *)
LEMMA LtvBelowThreshold ==
    ASSUME TypeOK, NEW d \in Nat, NEW c \in Nat, WithinLtv(d, c, risk.maxLtv)
    PROVE  WithinLtv(d, c, risk.threshold)
<1> DEFINE V == CollateralValue(c)
<1>1. /\ price \in Nat /\ PriceScale \in Nat \ {0} /\ BPS \in Nat
      /\ risk.maxLtv \in Nat /\ risk.threshold \in Nat /\ risk.maxLtv <= risk.threshold
  BY Numbers DEF TypeOK, ValidRisk
<1>2. V \in Nat
  BY <1>1, MulNat, DivNat DEF CollateralValue
<1>3. Owed(d) * BPS \in Nat /\ Owed(d) * BPS <= V * risk.maxLtv
  BY <1>1, AmountsType, MulNat DEF WithinLtv
<1> HIDE DEF V
<1>4. V * risk.maxLtv \in Nat /\ V * risk.threshold \in Nat
  BY <1>1, <1>2, MulNat
<1>5. risk.maxLtv * V <= risk.threshold * V
  BY <1>1, <1>2, MulMono
<1>6. V * risk.maxLtv <= V * risk.threshold
  BY <1>1, <1>2, <1>5
<1>7. Owed(d) * BPS <= V * risk.threshold
  BY <1>3, <1>4, <1>6
<1> QED
  BY <1>7 DEF WithinLtv, V

(* With the market's parameters as they were, a position stays where it is     *)
(* when its debt and collateral do not change,                                 *)
LEMMA SamePosition ==
    ASSUME NEW a \in Agents, UNCHANGED <<price, fees, risk>>,
           collateral'[a] = collateral[a], collateralDebt'[a] = collateralDebt[a]
    PROVE  Underwater(a)' = Underwater(a)
BY DEF Underwater, CollateralValue, WithinLtv, Owed, Interest, Bps

(* and is above the threshold when it is within the maximal LTV.               *)
LEMMA BoundByLtv ==
    ASSUME TypeOK, UNCHANGED <<price, fees, risk>>, NEW a \in Agents,
           NEW d \in Nat, NEW c \in Nat, collateralDebt'[a] = d, collateral'[a] = c,
           WithinLtv(d, c, risk.maxLtv)
    PROVE  ~Underwater(a)'
<1>1. WithinLtv(d, c, risk.threshold)
  BY LtvBelowThreshold
<1> QED
  BY <1>1 DEF Underwater, CollateralValue, WithinLtv, Owed, Interest, Bps

(* More collateral never hurts. *)
LEMMA MoreCollateral ==
    ASSUME TypeOK, NEW d \in Nat, NEW v \in Nat, NEW w \in Nat, v <= w,
           WithinLtv(d, v, risk.threshold)
    PROVE  WithinLtv(d, w, risk.threshold)
<1>1. price \in Nat /\ PriceScale \in Nat \ {0} /\ risk.threshold \in Nat /\ BPS \in Nat
  BY Numbers DEF TypeOK
<1>2. v * price \in Nat /\ w * price \in Nat /\ v * price <= w * price
  BY <1>1, MulNat, MulMono
<1>3. /\ CollateralValue(v) \in Nat /\ CollateralValue(w) \in Nat
      /\ CollateralValue(v) <= CollateralValue(w)
  BY <1>1, <1>2, DivMono, DivNat DEF CollateralValue
<1>4. CollateralValue(v) * risk.threshold <= CollateralValue(w) * risk.threshold
  BY <1>1, <1>3, MulMono
<1>5. /\ CollateralValue(v) * risk.threshold \in Nat /\ CollateralValue(w) * risk.threshold \in Nat
      /\ Owed(d) * BPS \in Nat
  BY <1>1, <1>3, AmountsType, MulNat
<1> QED
  BY <1>4, <1>5 DEF WithinLtv

LEMMA NoDebtNoSink ==
    ASSUME TypeOK, UNCHANGED <<price, fees, risk>>, NEW a \in Agents,
           NEW c \in Nat, collateralDebt'[a] = 0, collateral'[a] = c
    PROVE  ~Underwater(a)'
<1>1. /\ BPS \in Nat \ {0} /\ price \in Nat /\ PriceScale \in Nat \ {0}
      /\ fees.interest \in Nat /\ risk.maxLtv \in Nat
  BY Numbers DEF TypeOK
<1>2. Owed(0) = 0
  <2>1. 0 * fees.interest = 0 /\ 0 \div BPS = 0
    BY <1>1
  <2> QED
    BY <2>1 DEF Owed, Interest, Bps
<1>3. CollateralValue(c) * risk.maxLtv \in Nat
  BY <1>1, MulNat, DivNat DEF CollateralValue
<1>4. WithinLtv(0, c, risk.maxLtv)
  BY <1>1, <1>2, <1>3 DEF WithinLtv
<1> QED
  BY <1>4, BoundByLtv

LEMMA UnderwaterOf == IInv /\ [Next]_vars => [UnderwaterStep]_vars
<1> SUFFICES ASSUME IInv, IInv', Next, NEW a \in Agents, ~Underwater(a),
                    UNCHANGED <<price, fees, risk>>
             PROVE  ~Underwater(a)'
  BY NextIInv DEF UnderwaterStep
<1> DEFINE v == collateral[a]
           d == collateralDebt[a]
<1>1. /\ TypeOK /\ v \in Nat /\ d \in Nat /\ collateral'[a] \in Nat /\ collateralDebt'[a] \in Nat
      /\ collateral \in [Agents -> Nat] /\ collateralDebt \in [Agents -> Nat]
  BY DEF IInv, TypeOK
<1>2. CASE UNCHANGED secured
  BY <1>2, SamePosition DEF secured
<1>3. ASSUME NEW b \in Agents, b # a,
             \/ \E c \in CollateralAmounts : depositCollateral(b, c) \/ withdrawCollateral(b, c)
             \/ \E x \in Borrowings : borrowAgainstCollateral(b, x)
             \/ repayCollateral(b) \/ liquidate(b)
      PROVE  ~Underwater(a)'
  <2>1. collateral'[a] = collateral[a] /\ collateralDebt'[a] = collateralDebt[a]
    BY <1>1, <1>3 DEF depositCollateral, withdrawCollateral, borrowAgainstCollateral,
                      repayCollateral, liquidate
  <2> QED
    BY <2>1, SamePosition
<1>4. ASSUME NEW c \in CollateralAmounts, depositCollateral(a, c) PROVE ~Underwater(a)'
  <2>1. c \in Nat /\ v + c \in Nat /\ v <= v + c /\ collateral'[a] = v + c /\ collateralDebt'[a] = d
    BY <1>1, <1>4, Numbers DEF depositCollateral
  <2>2. WithinLtv(d, v + c, risk.threshold)
    BY <1>1, <2>1, MoreCollateral DEF Underwater
  <2> QED
    BY <2>1, <2>2 DEF Underwater, CollateralValue, WithinLtv, Owed, Interest, Bps
<1>5. ASSUME NEW c \in CollateralAmounts, withdrawCollateral(a, c) PROVE ~Underwater(a)'
  <2>1. /\ collateral'[a] = CollateralLeft(a, c) /\ collateralDebt'[a] = d
        /\ WithinLtv(d, CollateralLeft(a, c), risk.maxLtv)
    BY <1>1, <1>5 DEF withdrawCollateral, CollateralLeft
  <2> QED
    BY <1>1, <2>1, BoundByLtv
<1>6. ASSUME NEW x \in Borrowings, borrowAgainstCollateral(a, x) PROVE ~Underwater(a)'
  <2>1. /\ collateral'[a] = v /\ collateralDebt'[a] = d + x
        /\ WithinLtv(d + x, v, risk.maxLtv)
    BY <1>1, <1>6 DEF borrowAgainstCollateral
  <2> QED
    BY <1>1, <2>1, BoundByLtv
<1>7. CASE repayCollateral(a) \/ liquidate(a)
  <2>1. collateralDebt'[a] = 0
    BY <1>1, <1>7 DEF repayCollateral, liquidate
  <2> QED
    BY <1>1, <2>1, NoDebtNoSink
<1>8. CASE CollateralSteps
  BY <1>3, <1>4, <1>5, <1>6, <1>7, <1>8 DEF CollateralSteps
<1>9. CASE LoanSteps
  <2>1. UNCHANGED secured
    BY <1>9 DEF LoanSteps, repay, _settle, markDefault, requestLoan, repayOnBehalf, RouteRevenue,
                Begin, RouteNext, RouteEnd, secured
  <2> QED
    BY <1>2, <2>1
<1>10. CASE \/ \E l \in LPs : (\E x \in Deposits : deposit(l, x))
                           \/ (\E s \in ShareAmounts \cup {shares[l]} : withdraw(l, s))
            \/ \E b \in Agents, x \in BondAmounts : depositBond(b, x) \/ withdrawBond(b, x)
            \/ Govern \/ OracleMove \/ Tick
  <2>1. UNCHANGED secured
    BY <1>10 DEF deposit, withdraw, depositBond, withdrawBond, Govern, OracleMove, Tick
  <2> QED
    BY <1>2, <2>1
<1> QED
  BY <1>8, <1>9, <1>10 DEF Next

(* No deposit, withdrawal, loan or repayment lowers the value of a share.      *)
THEOREM ShareValueNotDiluted == Spec => ShareValueKept
BY InitIInv, NextIInv, ShareValueOf, PTL DEF Spec, ShareValueKept

(* Only the oracle and governance take a position past the threshold.          *)
THEOREM OnlyTheMarketSinks == Spec => OnlyMarketSinks
BY InitIInv, NextIInv, UnderwaterOf, PTL DEF Spec, OnlyMarketSinks

-----------------------------------------------------------------------------
(* Who pays for a default *)

LEMMA DefaultInOrder ==
    ASSUME IInv, NEW i \in LoanIds, markDefault(i)
    PROVE  /\ poolAssets' < poolAssets => reserve' = 0
           /\ reserve' < reserve => bond'[loans[i].borrower] = 0
<1>1. TypeOK /\ BooksAddUp /\ LoansMade
  BY DEF IInv
<1>2. PICK b \in Agents : b = loans[i].borrower
  BY <1>1 DEF markDefault, Active, LoansMade
<1>3. PICK p \in Nat : p = loans[i].principal
  BY <1>1 DEF TypeOK, Loan
<1>4. PICK s \in Nat, u \in Nat : s = Slashed(i) /\ u = ReserveUsed(i)
  BY <1>1, <1>2, DefaultAmounts
<1>5. /\ s = Lesser(bond[b], p) /\ u = Lesser(reserve, p - s)
      /\ bond[b] \in Nat /\ reserve \in Nat /\ idle \in Nat /\ outstanding \in Nat
  BY <1>1, <1>2, <1>3, <1>4 DEF Slashed, ReserveUsed, TypeOK
<1>6. /\ bond'[b] = bond[b] - s /\ reserve' = reserve - u
      /\ idle' = idle + s + u /\ outstanding' = outstanding - p
  BY <1>1, <1>2, <1>3, <1>4 DEF markDefault, CloseLoan, TypeOK
<1>7. poolAssets' < poolAssets => u < p - s
  BY <1>5, <1>6 DEF poolAssets
<1>8. poolAssets' < poolAssets => reserve' = 0
  BY <1>5, <1>6, <1>7 DEF Lesser
<1>9. reserve' < reserve => bond'[b] = 0
  BY <1>5, <1>6 DEF Lesser
<1> QED
  BY <1>2, <1>8, <1>9

(* Only markDefault makes a loan defaulted. *)
LEMMA OnlyMarked ==
    ASSUME IInv, Next, NEW i \in LoanIds, loans[i].status = "active", loans'[i].status = "defaulted"
    PROVE  markDefault(i)
<1>1. loans \in [LoanIds -> Loan] /\ loanCount \in Nat /\ loans[i].status # loans'[i].status
  BY Numbers DEF IInv, TypeOK
<1>2. ASSUME NEW j \in LoanIds, _settle(j) PROVE FALSE
  BY <1>1, <1>2 DEF _settle, CloseLoan, Loan
<1>3. ASSUME NEW j \in LoanIds, markDefault(j) PROVE markDefault(i)
  <2>1. j = i
    BY <1>1, <1>3 DEF markDefault, CloseLoan, Loan
  <2> QED
    BY <1>3, <2>1
<1>4. ASSUME NEW a \in Agents, NEW x \in LoanAmounts, NEW t \in Terms, requestLoan(a, x, t) PROVE FALSE
  BY <1>1, <1>4 DEF requestLoan
<1>5. ASSUME RouteNext PROVE FALSE
  <2>1. CASE UNCHANGED lending
    BY <1>1, <2>1 DEF lending
  <2>2. CASE Active(route.next) /\ _settle(route.next)
    <3>1. loans'[i] = loans[i] \/ loans'[i].status = "repaid"
      BY <1>1, <2>2 DEF _settle, CloseLoan, Loan
    <3> QED
      BY <1>1, <3>1
  <2> QED
    BY <1>5, <2>1, <2>2 DEF RouteNext
<1>6. CASE LoanSteps
  <2>1. ASSUME UNCHANGED lending PROVE FALSE
    BY <1>1, <2>1 DEF lending
  <2> QED
    BY <1>2, <1>3, <1>4, <1>5, <1>6, <2>1
       DEF LoanSteps, repay, repayOnBehalf, RouteRevenue, Begin, RouteEnd
<1>7. CASE UNCHANGED lending
  BY <1>1, <1>7 DEF lending
<1>8. CASE \/ \E l \in LPs : (\E x \in Deposits : deposit(l, x))
                          \/ (\E s \in ShareAmounts \cup {shares[l]} : withdraw(l, s))
           \/ \E b \in Agents, x \in BondAmounts : depositBond(b, x) \/ withdrawBond(b, x)
           \/ CollateralSteps \/ Govern \/ OracleMove \/ Tick
  BY <1>7, <1>8 DEF deposit, withdraw, depositBond, withdrawBond, CollateralSteps, depositCollateral,
                    withdrawCollateral, borrowAgainstCollateral, repayCollateral, liquidate,
                    Govern, OracleMove, Tick
<1> QED
  BY <1>6, <1>8 DEF Next

LEMMA WaterfallOf == IInv /\ [Next]_vars => [WaterfallStep]_vars
BY OnlyMarked, DefaultInOrder DEF WaterfallStep

-----------------------------------------------------------------------------
(* The router's loop *)

Positive == \A i \in LoanIds : Active(i) => loans[i].principal > 0

(* While the loop runs, the loans it passed over owed more than was left, and   *)
(* what may be spent is the revenue or what is still owed.                      *)
RouteOk ==
    \/ Unlocked
    \/ /\ route.agent \in Agents
       /\ route.revenue > 0 => \/ route.max = route.revenue
                               \/ route.max = route.used + debtOf(route.agent)
       /\ \A j \in LoanIds : j < route.next /\ Active(j) /\ loans[j].borrower = route.agent =>
              route.used + Owed(loans[j].principal) > route.max

PayInv == Positive /\ RouteOk

Debts(a) == [i \in LoanIds |-> Owed(LentTo(a)[i])]

LEMMA DebtsType ==
    ASSUME TypeOK, NEW a \in Agents
    PROVE  /\ Debts(a) \in [LoanIds -> Nat] /\ debtOf(a) = Total(Debts(a)) /\ debtOf(a) \in Nat
           /\ \A i \in LoanIds : Debts(a)[i] <= debtOf(a)
<1>1. ASSUME NEW i \in LoanIds PROVE Owed(LentTo(a)[i]) \in Nat
  BY LentType, AmountsType
<1>2. PICK f : f = Debts(a)
  OBVIOUS
<1>3. f \in [LoanIds -> Nat] /\ debtOf(a) = Total(f)
  BY <1>1, <1>2 DEF Debts, debtOf
<1>4. Total(f) \in Nat
  BY <1>3, LoanIdsFinite, TotalType
<1>5. ASSUME NEW i \in LoanIds PROVE f[i] <= Total(f)
  <2>1. f[i] \in Nat
    BY <1>3
  <2> QED
    BY <1>3, <2>1, LoanIdsFinite, TotalUpdate
<1> QED
  BY <1>2, <1>3, <1>4, <1>5

(* The debt of the agent falls by what a repaid loan owed. *)
LEMMA RepaidDebt ==
    ASSUME IInv, NEW i \in LoanIds, NEW a \in Agents, loans[i].borrower = a, _settle(i)
    PROVE  debtOf(a)' = debtOf(a) - Owed(loans[i].principal)
<1>1. TypeOK /\ loans \in [LoanIds -> Loan] /\ loans[i].principal \in Nat /\ fees.interest \in Nat
  BY DEF IInv, TypeOK, Loan
<1>2. PICK f : f = Debts(a)
  OBVIOUS
<1>3. f \in [LoanIds -> Nat] /\ debtOf(a) = Total(f)
  BY <1>1, <1>2, DebtsType
<1>4. Owed(0) = 0
  <2>1. 0 * fees.interest = 0 /\ BPS \in Nat \ {0}
    BY <1>1, Numbers
  <2>2. 0 \div BPS = 0
    BY <2>1
  <2> QED
    BY <2>1, <2>2 DEF Owed, Interest, Bps
<1>5. UNCHANGED fees
  BY DEF _settle, config
<1>6. /\ loans'[i].status = "repaid" /\ \A j \in LoanIds : j # i => loans'[j] = loans[j]
  BY <1>1 DEF _settle, CloseLoan, Loan
<1>7. LentTo(a)' = [LentTo(a) EXCEPT ![i] = 0] /\ LentTo(a)[i] = loans[i].principal
  BY <1>1, <1>6 DEF LentTo, Active, _settle
<1>8. debtOf(a)' = Total([f EXCEPT ![i] = 0]) /\ f[i] = Owed(loans[i].principal)
  <2>1. f[i] = Owed(loans[i].principal)
    BY <1>2, <1>7 DEF Debts
  <2>2. debtOf(a)' = Total([j \in LoanIds |-> Owed([LentTo(a) EXCEPT ![i] = 0][j])])
    BY <1>5, <1>7 DEF debtOf, Owed, Interest, Bps
  <2>3. LentTo(a) \in [LoanIds -> Nat]
    BY <1>1, LentType
  <2>4. [j \in LoanIds |-> Owed([LentTo(a) EXCEPT ![i] = 0][j])] = [f EXCEPT ![i] = 0]
    BY <1>2, <1>4, <2>3 DEF Debts
  <2> QED
    BY <2>1, <2>2, <2>4
<1> QED
  BY <1>3, <1>8, EntryCleared

LEMMA InitPay == Init => PayInv
BY DEF Init, PayInv, Positive, RouteOk, Unlocked, Active

LEMMA PositiveStep == IInv /\ Positive /\ [Next]_vars => Positive'
<1> SUFFICES ASSUME IInv, Positive, [Next]_vars PROVE Positive'
  OBVIOUS
<1>1. loans \in [LoanIds -> Loan] /\ loanCount \in Nat
  BY Numbers DEF IInv, TypeOK
<1>2. CASE UNCHANGED loans
  BY <1>2 DEF Positive, Active
<1>3. ASSUME NEW j, NEW s \in {"repaid", "defaulted"}, CloseLoan(j, s) PROVE Positive'
  BY <1>1, <1>3 DEF CloseLoan, Positive, Active, Loan
<1>4. ASSUME NEW a \in Agents, NEW x \in LoanAmounts, NEW t \in Terms, requestLoan(a, x, t) PROVE Positive'
  <2>1. x \in Nat \ {0}
    BY Numbers
  <2> QED
    BY <1>1, <1>4, <2>1 DEF requestLoan, Positive, Active
<1>5. CASE LoanSteps
  BY <1>2, <1>3, <1>4, <1>5 DEF LoanSteps, repay, _settle, markDefault, repayOnBehalf, RouteRevenue, Begin,
                                RouteNext, RouteEnd, lending
<1>6. CASE \/ \E l \in LPs : (\E x \in Deposits : deposit(l, x))
                          \/ (\E s \in ShareAmounts \cup {shares[l]} : withdraw(l, s))
           \/ \E b \in Agents, x \in BondAmounts : depositBond(b, x) \/ withdrawBond(b, x)
           \/ CollateralSteps \/ Govern \/ OracleMove \/ Tick \/ UNCHANGED vars
  BY <1>2, <1>6 DEF deposit, withdraw, depositBond, withdrawBond, CollateralSteps, depositCollateral,
                    withdrawCollateral, borrowAgainstCollateral, repayCollateral, liquidate,
                    Govern, OracleMove, Tick, lending, vars
<1> QED
  BY <1>5, <1>6 DEF Next

(* A call begins by allowing the revenue or the debt, whichever is less. *)
LEMMA BeginOk ==
    ASSUME IInv, NEW a \in Agents, NEW x \in Revenues, repayOnBehalf(a, x) \/ RouteRevenue(a, x)
    PROVE  RouteOk'
<1>1. x \in Nat /\ debtOf(a) \in Nat
  BY Numbers, DebtsType DEF IInv
<1>2. debtOf(a)' = debtOf(a)
  BY DEF repayOnBehalf, RouteRevenue, Begin, config, lending, debtOf, LentTo, Active, Owed, Interest, Bps
<1>3. ASSUME NEW j \in LoanIds PROVE ~(j < 1)
  BY DEF LoanIds
<1>4. CASE repayOnBehalf(a, x)
  <2>1. route'.agent = a /\ route'.revenue = 0 /\ route'.next = 1
    BY <1>4 DEF repayOnBehalf, Begin
  <2> QED
    BY <1>3, <2>1 DEF RouteOk
<1>5. CASE RouteRevenue(a, x)
  <2>1. /\ route'.agent = a /\ route'.revenue = x /\ route'.next = 1 /\ route'.used = 0
        /\ route'.max = Lesser(debtOf(a), x)
    BY <1>5 DEF RouteRevenue, Begin
  <2>2. route'.max = x \/ route'.max = 0 + debtOf(a)
    BY <1>1, <2>1 DEF Lesser
  <2> QED
    BY <1>2, <1>3, <2>1, <2>2 DEF RouteOk
<1> QED
  BY <1>4, <1>5

(* What the loop's step sees. *)
LEMMA RouteHere ==
    ASSUME IInv, RouteNext
    PROVE  /\ route.next \in LoanIds /\ route.next \in Nat /\ route.used \in Nat /\ route.max \in Nat
           /\ route \in Route
<1>1. /\ route \in Route /\ route.next \in Nat \ {0} /\ route.used \in Nat /\ route.max \in Nat
      /\ loanCount \in 0..MaxLoans /\ MaxLoans \in Nat
  BY Numbers DEF IInv, TypeOK, Route
<1>2. route.next <= loanCount
  BY <1>1 DEF RouteNext, LoopEnds
<1> QED
  BY <1>1, <1>2 DEF LoanIds

LEMMA RouteNextOk == ASSUME IInv, RouteOk, RouteNext PROVE RouteOk'
<1>1. /\ route.next \in Nat /\ route.used \in Nat /\ route.max \in Nat /\ route \in Route
      /\ TypeOK /\ loans \in [LoanIds -> Loan]
  BY RouteHere DEF IInv, TypeOK
<1>2. PICK i \in LoanIds : i = route.next
  BY RouteHere
<1>3. PICK a \in Agents : a = route.agent
  BY DEF RouteNext, RouteOk
<1>4. /\ route.revenue > 0 => route.max = route.revenue \/ route.max = route.used + debtOf(a)
      /\ \A j \in LoanIds : j < i /\ Active(j) /\ loans[j].borrower = a =>
             route.used + Owed(loans[j].principal) > route.max
  BY <1>2, <1>3 DEF RouteNext, RouteOk
<1>5. ASSUME NEW j \in LoanIds, j < i + 1 PROVE j < i \/ j = i
  BY <1>5 DEF LoanIds
<1>6. \A x \in Nat : Owed(x) \in Nat
  BY <1>1, AmountsType
<1>7. CASE Active(i) /\ loans[i].borrower = a /\ Affordable(i)
  <2>1. _settle(i) /\ route' = [route EXCEPT !.next = @ + 1, !.used = @ + Owed(loans[i].principal)]
    BY <1>2, <1>3, <1>7 DEF RouteNext
  <2>2. PICK w \in Nat : w = Owed(loans[i].principal)
    BY <1>1, <1>6 DEF Loan
  <2>3. /\ route'.agent = a /\ route'.next = i + 1 /\ route'.used = route.used + w
        /\ route'.max = route.max /\ route'.revenue = route.revenue
    BY <1>1, <1>2, <1>3, <2>1, <2>2 DEF Route
  <2>4. debtOf(a) \in Nat /\ debtOf(a)' = debtOf(a) - w
    BY <1>1, <1>7, <2>1, <2>2, DebtsType, RepaidDebt
  <2>5. ASSUME NEW j \in LoanIds, j < i + 1, Active(j)', loans'[j].borrower = a
        PROVE  route'.used + Owed(loans[j].principal)' > route'.max
    <3>1. /\ loans'[i].status = "repaid" /\ \A k \in LoanIds : k # i => loans'[k] = loans[k]
      BY <1>1, <2>1 DEF _settle, CloseLoan, Loan
    <3>2. j < i /\ Active(j) /\ loans[j].borrower = a /\ loans'[j] = loans[j]
      BY <1>5, <2>5, <3>1 DEF Active
    <3>3. PICK v \in Nat : v = Owed(loans[j].principal)
      BY <1>1, <1>6 DEF Loan
    <3>4. Owed(loans[j].principal)' = v
      BY <2>1, <3>2, <3>3 DEF _settle, config, Owed, Interest, Bps
    <3> QED
      BY <1>1, <1>4, <2>3, <3>2, <3>3, <3>4
  <2>6. route'.revenue > 0 => route'.max = route'.revenue \/ route'.max = route'.used + debtOf(a)'
    BY <1>1, <1>4, <2>3, <2>4
  <2>7. debtOf(route.agent)' = debtOf(a)'
    BY <2>3 DEF debtOf, LentTo
  <2> QED
    BY <2>3, <2>5, <2>6, <2>7 DEF RouteOk
<1>8. CASE ~(Active(i) /\ loans[i].borrower = a /\ Affordable(i))
  <2>1. /\ route' = [route EXCEPT !.next = @ + 1]
        /\ UNCHANGED <<config, lending>>
    BY <1>2, <1>3, <1>8 DEF RouteNext
  <2>2. /\ route'.agent = a /\ route'.next = i + 1 /\ route'.used = route.used
        /\ route'.max = route.max /\ route'.revenue = route.revenue
    BY <1>1, <1>2, <1>3, <2>1 DEF Route
  <2>3. debtOf(a)' = debtOf(a)
    BY <2>1 DEF config, lending, debtOf, LentTo, Active, Owed, Interest, Bps
  <2>4. ASSUME NEW j \in LoanIds, j < i + 1, Active(j)', loans'[j].borrower = a
        PROVE  route'.used + Owed(loans[j].principal)' > route'.max
    <3>1. Active(j) /\ loans[j].borrower = a
      BY <2>1, <2>4 DEF lending, Active
    <3>2. Owed(loans[j].principal)' = Owed(loans[j].principal)
      BY <2>1 DEF config, lending, Owed, Interest, Bps
    <3>3. route.used + Owed(loans[j].principal) > route.max
      <4>1. CASE j < i
        BY <1>4, <3>1, <4>1
      <4>2. CASE j = i
        <5>1. ~(route.used + Owed(loans[i].principal) <= route.max)
          BY <1>8, <3>1, <4>2 DEF Affordable
        <5>2. Owed(loans[i].principal) \in Nat
          BY <1>1, <1>6 DEF Loan
        <5> QED
          BY <1>1, <4>2, <5>1, <5>2
      <4> QED
        BY <1>5, <2>4, <4>1, <4>2
    <3> QED
      BY <2>2, <3>2, <3>3
  <2>5. debtOf(route.agent)' = debtOf(a)'
    BY <2>2 DEF debtOf, LentTo
  <2> QED
    BY <1>4, <2>2, <2>3, <2>4, <2>5 DEF RouteOk
<1> QED
  BY <1>7, <1>8

LEMMA PayStep == IInv /\ PayInv /\ [Next]_vars => PayInv'
<1> SUFFICES ASSUME IInv, Positive, RouteOk, [Next]_vars PROVE RouteOk'
  BY PositiveStep DEF PayInv
<1>1. CASE Unlocked /\ UNCHANGED route
  BY <1>1 DEF RouteOk, Unlocked
<1>2. CASE UNCHANGED vars
  BY <1>2 DEF vars, config, lending, RouteOk, Unlocked, debtOf, LentTo, Active, Owed, Interest, Bps
<1>3. CASE RouteEnd
  BY <1>3 DEF RouteEnd, RouteOk, Unlocked
<1>4. CASE LoanSteps
  BY <1>1, <1>3, <1>4, RouteNextOk, BeginOk DEF LoanSteps, repay, markDefault, requestLoan
<1>5. CASE \/ \E l \in LPs : (\E x \in Deposits : deposit(l, x))
                          \/ (\E s \in ShareAmounts \cup {shares[l]} : withdraw(l, s))
           \/ \E b \in Agents, x \in BondAmounts : depositBond(b, x) \/ withdrawBond(b, x)
           \/ CollateralSteps \/ Govern \/ OracleMove \/ Tick
  BY <1>1, <1>5 DEF deposit, withdraw, depositBond, withdrawBond, CollateralSteps, depositCollateral,
                    withdrawCollateral, borrowAgainstCollateral, repayCollateral, liquidate,
                    Govern, OracleMove, Tick
<1> QED
  BY <1>2, <1>4, <1>5 DEF Next

(* Only the end of the loop hands the remainder to the splitter. *)
LEMMA OnlyRouteEnds ==
    ASSUME IInv, Next, route.agent # NoAgent, route'.agent = NoAgent PROVE RouteEnd
<1>1. ~Unlocked /\ NoAgent \notin Agents
  BY Parties DEF Unlocked, NoRoute
<1>2. ~RouteNext
  <2>1. ASSUME RouteNext PROVE route'.agent = route.agent
    BY <2>1, RouteHere DEF RouteNext, Route
  <2> QED
    BY <2>1
<1> QED
  BY <1>1, <1>2 DEF Next, LoanSteps, CollateralSteps, Govern, OracleMove, Tick, deposit, withdraw, depositBond,
        withdrawBond, depositCollateral, withdrawCollateral, borrowAgainstCollateral, repayCollateral,
        liquidate, repay, markDefault, requestLoan, repayOnBehalf, RouteRevenue, Begin

LEMMA SplitOf == IInv /\ PayInv /\ [Next]_vars => [SplitStep]_vars
<1> SUFFICES ASSUME IInv, Positive, RouteOk, Next, route.agent # NoAgent, route'.agent = NoAgent,
                    route.revenue > route.used, NEW i \in LoanIds, Active(i), loans[i].borrower = route.agent
             PROVE  Owed(loans[i].principal) > route.revenue - route.used
  BY DEF SplitStep, PayInv
<1>1. /\ route.next \in Nat /\ route.used \in Nat /\ route.max \in Nat /\ route.revenue \in Nat
      /\ loanCount \in Nat /\ TypeOK
  BY Numbers DEF IInv, TypeOK, Route
<1>2. RouteEnd
  BY OnlyRouteEnds
<1>3. PICK a \in Agents : a = route.agent
  BY <1>2 DEF RouteOk, RouteEnd
<1>4. /\ route.max = route.revenue \/ route.max = route.used + debtOf(a)
      /\ i < route.next => route.used + Owed(loans[i].principal) > route.max
  BY <1>1, <1>2, <1>3 DEF RouteOk, RouteEnd
<1>5. PICK w \in Nat : w = Owed(loans[i].principal) /\ w > 0
  <2>1. loans[i].principal \in Nat /\ loans[i].principal > 0
    BY <1>1 DEF TypeOK, Loan, Positive
  <2> QED
    BY <1>1, <2>1, AmountsType
<1>6. PICK d \in Nat : d = debtOf(a) /\ w <= d
  <2>1. Debts(a)[i] = w
    BY <1>3, <1>5 DEF Debts, LentTo
  <2> QED
    BY <1>1, <1>5, <2>1, DebtsType
<1>7. i \in Nat /\ i <= loanCount
  BY <1>1 DEF IInv, LoansMade, Active, LoanIds
<1>8. CASE route.next > loanCount
  BY <1>1, <1>4, <1>5, <1>6, <1>7, <1>8
<1>9. CASE route.used >= route.max
  BY <1>1, <1>4, <1>5, <1>6, <1>9
<1> QED
  BY <1>2, <1>5, <1>8, <1>9 DEF RouteEnd, LoopEnds

(* A default takes the bond, then the reserve, and only then the LPs' funds;    *)
(* and the router splits revenue only when it covers no open loan any more,     *)
(* for any number of loans of any size.                                         *)
THEOREM LossesAndRevenueInOrder == Spec => WhoPaysFirst
<1>1. Init => IInv /\ PayInv
  BY InitIInv, InitPay
<1>2. IInv /\ PayInv /\ [Next]_vars => (IInv /\ PayInv)' /\ [WaterfallStep]_vars /\ [SplitStep]_vars
  BY NextIInv, PayStep, WaterfallOf, SplitOf
<1> QED
  BY <1>1, <1>2, PTL DEF Spec, WhoPaysFirst, LossWaterfall, RepayBeforeSplit
=============================================================================
