---------------------------- MODULE Totals_proofs ----------------------------
(* Facts about amounts: products and floored quotients, and how a total moves  *)
(* when its entries do.                                                      *)
EXTENDS Totals, FiniteSetTheorems, TLAPS

LEMMA DivNat == ASSUME NEW a \in Nat, NEW d \in Nat \ {0}
                PROVE  a \div d \in Nat /\ (a \div d) * d <= a
OBVIOUS

LEMMA DivMod == ASSUME NEW a \in Nat, NEW d \in Nat \ {0}
                PROVE  a \div d \in Nat /\ a % d \in Nat /\ a = d * (a \div d) + (a % d)
OBVIOUS

LEMMA MulNat == ASSUME NEW a \in Nat, NEW b \in Nat PROVE a * b \in Nat
OBVIOUS

LEMMA MulMono == ASSUME NEW a \in Nat, NEW b \in Nat, NEW c \in Nat, a <= b
                 PROVE  a * c <= b * c /\ c * a <= c * b
OBVIOUS

LEMMA MulDifference == ASSUME NEW a \in Int, NEW b \in Int, NEW c \in Int
                       PROVE  (a - b) * c = a * c - b * c
OBVIOUS

LEMMA MulCancel == ASSUME NEW a \in Nat, NEW b \in Nat, NEW c \in Nat \ {0}, a * c <= b * c
                   PROVE  a <= b
<1>1. CASE a > b
  <2>1. b + 1 <= a /\ b + 1 \in Nat
    BY <1>1
  <2>2. (b + 1) * c <= a * c
    BY <2>1, MulMono
  <2>3. (b + 1) * c = b * c + c
    OBVIOUS
  <2> QED
    BY <2>2, <2>3, MulNat
<1> QED
  BY <1>1

LEMMA DivMono ==
    ASSUME NEW a \in Nat, NEW b \in Nat, NEW d \in Nat \ {0}, a <= b
    PROVE  a \div d <= b \div d
<1> DEFINE p == a \div d
           q == b \div d
<1>1. p \in Nat /\ q \in Nat /\ p * d <= a /\ b < (q + 1) * d
  OBVIOUS
<1> HIDE DEF p, q
<1>2. CASE q < p
  <2>1. q + 1 <= p /\ q + 1 \in Nat
    BY <1>1, <1>2
  <2>2. (q + 1) * d <= p * d /\ (q + 1) * d \in Nat /\ p * d \in Nat
    BY <1>1, <2>1, MulMono, MulNat
  <2> QED
    BY <1>1, <2>2
<1> QED
  BY <1>1, <1>2 DEF p, q

(* Two shares of an amount that are together at most the whole, each rounded  *)
(* down, are together at most the amount.                                     *)
LEMMA FloorSplit ==
    ASSUME NEW x \in Nat, NEW a \in Nat, NEW b \in Nat, NEW d \in Nat \ {0}, a + b <= d
    PROVE  (x * a) \div d + (x * b) \div d <= x
<1> DEFINE p == (x * a) \div d
           q == (x * b) \div d
<1>1. p \in Nat /\ q \in Nat /\ p * d <= x * a /\ q * d <= x * b
  BY MulNat, DivNat
<1>2. x * a + x * b = x * (a + b) /\ x * (a + b) <= x * d
  BY MulMono
<1>3. p * d + q * d = (p + q) * d
  BY <1>1
<1> HIDE DEF p, q
<1>4. (p + q) * d <= x * d
  BY <1>1, <1>2, <1>3, MulNat
<1>5. p + q <= x
  BY <1>1, <1>4, MulCancel
<1> QED
  BY <1>5 DEF p, q

-----------------------------------------------------------------------------
(* Totals *)

LEMMA EntryUnits ==
    ASSUME NEW x, NEW n \in Nat
    PROVE  IsFiniteSet({x} \X (1..n)) /\ Cardinality({x} \X (1..n)) = n
<1>1. IsFiniteSet(1..n) /\ Cardinality(1..n) = n
  BY FS_Interval
<1> DEFINE b == [i \in 1..n |-> <<x, i>>]
<1>2. b \in Bijection(1..n, {x} \X (1..n))
  BY DEF Bijection, Injection, IsInjective, Surjection
<1>3. ExistsBijection(1..n, {x} \X (1..n))
  BY <1>2 DEF ExistsBijection
<1> QED
  BY <1>1, <1>3, FS_Bijection

LEMMA UnitsFinite ==
    ASSUME NEW S, IsFiniteSet(S), NEW f \in [S -> Nat]
    PROVE  IsFiniteSet(Units(f))
<1> DEFINE T == {{x} \X (1..f[x]) : x \in S}
           g == [x \in S |-> {x} \X (1..f[x])]
<1>1. g \in Surjection(S, T)
  BY DEF Surjection
<1>2. IsFiniteSet(T)
  BY <1>1, FS_Surjection
<1>3. ASSUME NEW t \in T PROVE IsFiniteSet(t)
  <2>1. PICK x \in S : t = {x} \X (1..f[x])
    OBVIOUS
  <2>2. f[x] \in Nat
    OBVIOUS
  <2> QED
    BY <2>1, <2>2, EntryUnits
<1>4. IsFiniteSet(UNION T)
  BY <1>2, <1>3, FS_UNION
<1> QED
  BY <1>4 DEF Units

(* A total is a natural number. *)
THEOREM TotalType ==
    ASSUME NEW S, IsFiniteSet(S), NEW f \in [S -> Nat]
    PROVE  Total(f) \in Nat
BY UnitsFinite, FS_CardinalityType DEF Total

(* No entry exceeds the total, and changing one entry changes the total by   *)
(* as much.                                                                  *)
THEOREM TotalUpdate ==
    ASSUME NEW S, IsFiniteSet(S), NEW f \in [S -> Nat], NEW a \in S, NEW v \in Nat
    PROVE  /\ Total(f) \in Nat /\ f[a] <= Total(f)
           /\ Total([f EXCEPT ![a] = v]) = Total(f) - f[a] + v
<1> DEFINE h == [f EXCEPT ![a] = v]
           rest == UNION {{x} \X (1..f[x]) : x \in S \ {a}}
           mine == {a} \X (1..f[a])
           new  == {a} \X (1..v)
<1>1. h \in [S -> Nat] /\ h[a] = v /\ \A x \in S \ {a} : h[x] = f[x]
  OBVIOUS
<1>2. Units(f) = rest \cup mine
  BY DEF Units
<1>3. Units(h) = rest \cup new
  <2>1. UNION {{x} \X (1..h[x]) : x \in S} = (UNION {{x} \X (1..h[x]) : x \in S \ {a}}) \cup ({a} \X (1..h[a]))
    OBVIOUS
  <2>2. {{x} \X (1..h[x]) : x \in S \ {a}} = {{x} \X (1..f[x]) : x \in S \ {a}}
    BY <1>1
  <2> QED
    BY <1>1, <2>1, <2>2 DEF Units
<1>4. IsFiniteSet(Units(f)) /\ IsFiniteSet(rest)
  BY <1>2, UnitsFinite, FS_Subset
<1>5. rest \cap mine = {} /\ rest \cap new = {}
  OBVIOUS
<1>6. /\ IsFiniteSet(mine) /\ Cardinality(mine) = f[a]
      /\ IsFiniteSet(new) /\ Cardinality(new) = v
  BY EntryUnits
<1> HIDE DEF rest, mine, new, h
<1>7. Cardinality(rest) \in Nat /\ f[a] \in Nat
  BY <1>4, FS_CardinalityType
<1>8. Cardinality({}) = 0
  BY FS_EmptySet
<1>9. Cardinality(rest \cup mine) = Cardinality(rest) + f[a]
  <2>1. Cardinality(rest \cup mine) = Cardinality(rest) + Cardinality(mine) - Cardinality(rest \cap mine)
    BY <1>4, <1>6, FS_Union
  <2>2. Cardinality(rest \cap mine) = 0
    BY <1>5, <1>8
  <2> QED
    BY <1>6, <1>7, <2>1, <2>2
<1>10. Cardinality(rest \cup new) = Cardinality(rest) + v
  <2>1. Cardinality(rest \cup new) = Cardinality(rest) + Cardinality(new) - Cardinality(rest \cap new)
    BY <1>4, <1>6, FS_Union
  <2>2. Cardinality(rest \cap new) = 0 /\ v \in Nat
    BY <1>5, <1>8
  <2> QED
    BY <1>6, <1>7, <2>1, <2>2
<1>11. Total(f) = Cardinality(rest) + f[a] /\ Total(h) = Cardinality(rest) + v
  BY <1>2, <1>3, <1>9, <1>10 DEF Total
<1> QED
  BY <1>7, <1>11 DEF h

(* Nothing adds up to nothing. *)
THEOREM TotalZero ==
    ASSUME NEW S, NEW f \in [S -> Nat], \A x \in S : f[x] = 0
    PROVE  Total(f) = 0
<1>1. Units(f) = {}
  BY DEF Units
<1> QED
  BY <1>1, FS_EmptySet DEF Total

LEMMA UnitOf ==
    ASSUME NEW S, NEW f \in [S -> Nat], NEW u
    PROVE  u \in Units(f) <=> \E x \in S : \E i \in 1..f[x] : u = <<x, i>>
BY DEF Units

LEMMA DisjointUnion ==
    ASSUME NEW A, NEW B, IsFiniteSet(A), IsFiniteSet(B), A \cap B = {}
    PROVE  Cardinality(A \cup B) = Cardinality(A) + Cardinality(B)
<1>1. Cardinality(A \cup B) = Cardinality(A) + Cardinality(B) - Cardinality(A \cap B)
  BY FS_Union
<1>2. Cardinality(A \cap B) = 0 /\ Cardinality(A) \in Nat /\ Cardinality(B) \in Nat
  BY FS_EmptySet, FS_CardinalityType
<1> QED
  BY <1>1, <1>2

(* Totals grow with their entries. *)
THEOREM TotalMono ==
    ASSUME NEW S, IsFiniteSet(S), NEW f \in [S -> Nat], NEW g \in [S -> Nat],
           \A x \in S : f[x] <= g[x]
    PROVE  Total(f) <= Total(g)
<1>1. ASSUME NEW x \in S PROVE {x} \X (1..f[x]) \subseteq {x} \X (1..g[x])
  <2>1. f[x] \in Nat /\ g[x] \in Nat /\ f[x] <= g[x]
    OBVIOUS
  <2>2. 1..f[x] \subseteq 1..g[x]
    BY <2>1
  <2> QED
    BY <2>2
<1>2. Units(f) \subseteq Units(g)
  BY <1>1 DEF Units
<1> QED
  BY <1>2, UnitsFinite, FS_Subset DEF Total

(* The total of sums is the sum of the totals. *)
THEOREM TotalAdd ==
    ASSUME NEW S, IsFiniteSet(S), NEW f \in [S -> Nat], NEW g \in [S -> Nat]
    PROVE  Total([x \in S |-> f[x] + g[x]]) = Total(f) + Total(g)
<1> DEFINE h == [x \in S |-> f[x] + g[x]]
           B == UNION {{x} \X ((f[x] + 1)..(f[x] + g[x])) : x \in S}
           b == [u \in Units(g) |-> <<u[1], f[u[1]] + u[2]>>]
<1>1. h \in [S -> Nat]
  OBVIOUS
<1>2. ASSUME NEW x \in S
      PROVE  /\ 1..h[x] = (1..f[x]) \cup ((f[x] + 1)..(f[x] + g[x]))
             /\ (1..f[x]) \cap ((f[x] + 1)..(f[x] + g[x])) = {}
  <2>1. f[x] \in Nat /\ g[x] \in Nat /\ h[x] = f[x] + g[x]
    OBVIOUS
  <2> HIDE DEF h
  <2> QED
    BY <2>1
<1>3. Units(h) = Units(f) \cup B
  <2>1. Units(h) = UNION {{x} \X (1..h[x]) : x \in S}
    BY DEF Units
  <2>2. ASSUME NEW x \in S
        PROVE  {x} \X (1..h[x]) = ({x} \X (1..f[x])) \cup ({x} \X ((f[x] + 1)..(f[x] + g[x])))
    BY <1>2
  <2>3. Units(f) = UNION {{x} \X (1..f[x]) : x \in S}
    BY DEF Units
  <2> HIDE DEF h
  <2> QED
    BY <2>1, <2>2, <2>3
<1>4. Units(f) \cap B = {}
  <2> SUFFICES ASSUME NEW u \in Units(f), u \in B PROVE FALSE
    OBVIOUS
  <2>1. PICK x \in S : \E i \in 1..f[x] : u = <<x, i>>
    BY UnitOf
  <2>2. PICK z \in S : \E j \in (f[z] + 1)..(f[z] + g[z]) : u = <<z, j>>
    OBVIOUS
  <2>3. x = z /\ u[2] \in 1..f[x] /\ u[2] \in (f[x] + 1)..(f[x] + g[x])
    BY <2>1, <2>2
  <2> QED
    BY <2>3, <1>2
<1>5. b \in Bijection(Units(g), B)
  <2>1. ASSUME NEW u \in Units(g)
        PROVE  /\ u[1] \in S /\ u[2] \in 1..g[u[1]] /\ u = <<u[1], u[2]>>
               /\ f[u[1]] \in Nat /\ g[u[1]] \in Nat
    BY <2>1, UnitOf
  <2>2. b \in [Units(g) -> B]
    <3> SUFFICES ASSUME NEW u \in Units(g) PROVE <<u[1], f[u[1]] + u[2]>> \in B
      OBVIOUS
    <3>1. f[u[1]] + u[2] \in (f[u[1]] + 1)..(f[u[1]] + g[u[1]])
      BY <2>1
    <3> QED
      BY <2>1, <3>1
  <2>3. ASSUME NEW u \in Units(g), NEW v \in Units(g), b[u] = b[v] PROVE u = v
    <3>1. u[1] = v[1] /\ f[u[1]] + u[2] = f[v[1]] + v[2]
      BY <2>3
    <3>2. u[2] = v[2]
      BY <2>1, <3>1
    <3> QED
      BY <2>1, <3>1, <3>2
  <2>4. ASSUME NEW t \in B PROVE \E u \in Units(g) : b[u] = t
    <3>0. PICK x \in S : \E j \in (f[x] + 1)..(f[x] + g[x]) : t = <<x, j>>
      OBVIOUS
    <3>1. PICK j \in (f[x] + 1)..(f[x] + g[x]) : t = <<x, j>>
      BY <3>0
    <3>2. f[x] \in Nat /\ g[x] \in Nat /\ j \in Int
      OBVIOUS
    <3>3. j - f[x] \in 1..g[x] /\ f[x] + (j - f[x]) = j
      BY <3>1, <3>2
    <3>4. <<x, j - f[x]>> \in Units(g)
      BY <3>3, UnitOf
    <3>5. b[<<x, j - f[x]>>] = <<x, f[x] + (j - f[x])>>
      BY <3>4
    <3> QED
      BY <3>1, <3>3, <3>4, <3>5
  <2> QED
    BY <2>2, <2>3, <2>4 DEF Bijection, Injection, IsInjective, Surjection
<1>6. /\ IsFiniteSet(Units(f)) /\ IsFiniteSet(Units(g)) /\ IsFiniteSet(B)
      /\ Cardinality(B) = Cardinality(Units(g))
  BY <1>5, UnitsFinite, FS_Bijection DEF ExistsBijection
<1> HIDE DEF h, B, b
<1> QED
  BY <1>3, <1>4, <1>6, DisjointUnion DEF Total, h

(* A multiple of a total is the total of the multiples: the j-th unit of x is    *)
(* one of the c units that replace its i-th.                                 *)
LEMMA Position ==
    ASSUME NEW c \in Nat \ {0}, NEW n \in Nat, NEW j \in 1..(c * n)
    PROVE  \E i \in 1..n : \E r \in 1..c : j = (i - 1) * c + r
<1> DEFINE q == (j - 1) \div c
<1>1. q \in Nat /\ q * c <= j - 1 /\ j - 1 < (q + 1) * c
  OBVIOUS
<1>2. c * n = n * c /\ n * c \in Nat /\ j \in Nat /\ j <= n * c /\ q * c \in Nat
  BY <1>1, MulNat
<1> HIDE DEF q
<1>3. q + 1 <= n
  <2>1. CASE n <= q
    <3>1. n * c <= q * c
      BY <1>1, <2>1, MulMono
    <3> QED
      BY <1>1, <1>2, <3>1
  <2> QED
    BY <1>1, <2>1
<1>4. j - q * c \in 1..c
  <2>1. (q + 1) * c = q * c + c
    BY <1>1
  <2> QED
    BY <1>1, <1>2, <2>1
<1>5. j = ((q + 1) - 1) * c + (j - q * c) /\ q + 1 \in 1..n
  BY <1>1, <1>2, <1>3
<1> QED
  BY <1>4, <1>5

LEMMA PositionBound ==
    ASSUME NEW c \in Nat \ {0}, NEW n \in Nat, NEW i \in 1..n, NEW r \in 1..c
    PROVE  (i - 1) * c + r \in 1..(c * n)
<1>1. i * c <= n * c
  BY MulMono
<1>2. (i - 1) * c = i * c - c /\ n * c = c * n
  OBVIOUS
<1>3. (i - 1) * c \in Nat /\ i * c \in Nat /\ n * c \in Nat
  BY MulNat
<1> QED
  BY <1>1, <1>2, <1>3

LEMMA PositionUnique ==
    ASSUME NEW c \in Nat \ {0}, NEW i \in Nat \ {0}, NEW r \in 1..c, NEW k \in Nat \ {0}, NEW s \in 1..c,
           (i - 1) * c + r = (k - 1) * c + s
    PROVE  i = k /\ r = s
<1>1. ASSUME NEW a \in Nat \ {0}, NEW b \in Nat \ {0}, a < b,
             NEW p \in 1..c, NEW q \in 1..c, (a - 1) * c + p = (b - 1) * c + q
      PROVE  FALSE
  <2>1. a <= b - 1 /\ b - 1 \in Nat
    BY <1>1
  <2>2. a * c <= (b - 1) * c
    BY <2>1, MulMono
  <2>3. (a - 1) * c = a * c - c /\ a * c \in Nat /\ (b - 1) * c \in Nat
    BY <2>1, MulNat
  <2> QED
    BY <1>1, <2>2, <2>3
<1>2. i = k
  <2>1. ~(i < k) /\ ~(k < i)
    BY <1>1
  <2> QED
    BY <2>1
<1>3. (i - 1) * c \in Nat
  BY MulNat
<1> QED
  BY <1>2, <1>3

THEOREM TotalScale ==
    ASSUME NEW S, IsFiniteSet(S), NEW f \in [S -> Nat], NEW c \in Nat
    PROVE  Total([x \in S |-> c * f[x]]) = c * Total(f)
<1> DEFINE h == [x \in S |-> c * f[x]]
           P == Units(f) \X (1..c)
           b == [t \in P |-> <<t[1][1], (t[1][2] - 1) * c + t[2]>>]
<1>0. h \in [S -> Nat] /\ Total(f) \in Nat
  BY MulNat, TotalType
<1>1. CASE c = 0
  <2>1. \A x \in S : h[x] = 0
    BY <1>1
  <2>2. Total(h) = 0
    BY <1>0, <2>1, TotalZero
  <2>3. c * Total(f) = 0
    BY <1>0, <1>1
  <2> QED
    BY <2>2, <2>3
<1>2. CASE c # 0
  <2>0. c \in Nat \ {0}
    BY <1>2
  <2>1. ASSUME NEW t \in P
        PROVE  /\ t[1] \in Units(f) /\ t[2] \in 1..c /\ t = <<t[1], t[2]>>
               /\ t[1][1] \in S /\ t[1][2] \in 1..f[t[1][1]] /\ t[1] = <<t[1][1], t[1][2]>>
               /\ f[t[1][1]] \in Nat /\ h[t[1][1]] = c * f[t[1][1]]
    <3>1. t[1] \in Units(f) /\ t[2] \in 1..c /\ t = <<t[1], t[2]>>
      OBVIOUS
    <3>2. \E x \in S : \E i \in 1..f[x] : t[1] = <<x, i>>
      BY <3>1, UnitOf
    <3> QED
      BY <3>1, <3>2
  <2>2. b \in [P -> Units(h)]
    <3> SUFFICES ASSUME NEW t \in P
                 PROVE  <<t[1][1], (t[1][2] - 1) * c + t[2]>> \in Units(h)
      OBVIOUS
    <3>1. (t[1][2] - 1) * c + t[2] \in 1..(c * f[t[1][1]])
      BY <2>0, <2>1, PositionBound
    <3> HIDE DEF h, P
    <3> QED
      BY <1>0, <2>1, <3>1, UnitOf
  <2>3. ASSUME NEW t \in P, NEW u \in P, b[t] = b[u] PROVE t = u
    <3>1. t[1][1] = u[1][1] /\ (t[1][2] - 1) * c + t[2] = (u[1][2] - 1) * c + u[2]
      BY <2>3
    <3> HIDE DEF b, P, h
    <3>2. /\ t[1][2] \in 1..f[t[1][1]] /\ f[t[1][1]] \in Nat /\ t[2] \in 1..c
          /\ u[1][2] \in 1..f[u[1][1]] /\ f[u[1][1]] \in Nat /\ u[2] \in 1..c
      BY <2>1
    <3>3. PICK i \in Nat \ {0}, k \in Nat \ {0} : i = t[1][2] /\ k = u[1][2]
      BY <3>2
    <3>4. i = k /\ t[2] = u[2]
      <4>1. (i - 1) * c + t[2] = (k - 1) * c + u[2]
        BY <3>1, <3>3
      <4> QED
        BY <2>0, <3>2, <4>1, PositionUnique
    <3>5. t[1] = u[1]
      <4>1. t[1] = <<t[1][1], t[1][2]>> /\ u[1] = <<u[1][1], u[1][2]>>
        BY <2>1
      <4>2. t[1][1] = u[1][1] /\ t[1][2] = u[1][2]
        BY <3>1, <3>3, <3>4
      <4> QED
        BY <4>1, <4>2, Zenon
    <3>6. t = <<t[1], t[2]>> /\ u = <<u[1], u[2]>>
      BY <2>1
    <3> QED
      BY <3>4, <3>5, <3>6, Zenon
  <2>4. ASSUME NEW v \in Units(h) PROVE \E t \in P : b[t] = v
    <3>1. PICK x \in S : \E j \in 1..h[x] : v = <<x, j>>
      BY <1>0, UnitOf
    <3>2. PICK j \in 1..(c * f[x]) : v = <<x, j>>
      BY <3>1
    <3>3. f[x] \in Nat
      OBVIOUS
    <3>4. PICK i \in 1..f[x] : \E r \in 1..c : j = (i - 1) * c + r
      BY <2>0, <3>3, Position
    <3>5. PICK r \in 1..c : j = (i - 1) * c + r
      BY <3>4
    <3>6. <<x, i>> \in Units(f)
      BY UnitOf
    <3>7. <<<<x, i>>, r>> \in P
      BY <3>6
    <3>8. b[<<<<x, i>>, r>>] = <<x, (i - 1) * c + r>>
      BY <3>7
    <3> QED
      BY <3>2, <3>5, <3>7, <3>8
  <2>5. b \in Bijection(P, Units(h))
    BY <2>2, <2>3, <2>4 DEF Bijection, Injection, IsInjective, Surjection
  <2>6. IsFiniteSet(Units(f)) /\ IsFiniteSet(1..c) /\ Cardinality(1..c) = c
    BY UnitsFinite, FS_Interval
  <2>7. IsFiniteSet(P) /\ Cardinality(P) = Total(f) * c
    BY <2>6, FS_Product DEF Total
  <2> HIDE DEF P, h, b
  <2>8. Total(h) = Total(f) * c
    BY <2>5, <2>7, FS_Bijection DEF ExistsBijection, Total
  <2> QED
    BY <1>0, <2>8 DEF h
<1> QED
  BY <1>1, <1>2

(* What some hold is part of what all hold, and without one more than them. *)
THEOREM TotalPart ==
    ASSUME NEW S, IsFiniteSet(S), NEW f \in [S -> Nat], NEW T \in SUBSET S
    PROVE  /\ Total([x \in T |-> f[x]]) \in Nat
           /\ Total([x \in T |-> f[x]]) <= Total(f)
           /\ \A a \in S \ T : Total([x \in T |-> f[x]]) + f[a] <= Total(f)
           /\ \A a \in S \ T : S = T \cup {a} => Total([x \in T |-> f[x]]) + f[a] = Total(f)
<1> DEFINE g == [x \in T |-> f[x]]
<1>1. g \in [T -> Nat] /\ IsFiniteSet(T)
  BY FS_Subset
<1>2. Units(g) = UNION {{x} \X (1..f[x]) : x \in T}
  <2>1. {{x} \X (1..g[x]) : x \in T} = {{x} \X (1..f[x]) : x \in T}
    OBVIOUS
  <2>2. DOMAIN g = T
    OBVIOUS
  <2> QED
    BY <2>1, <2>2 DEF Units
<1>3. Units(g) \subseteq Units(f) /\ IsFiniteSet(Units(f)) /\ IsFiniteSet(Units(g))
  <2>1. Units(f) = UNION {{x} \X (1..f[x]) : x \in S}
    BY DEF Units
  <2> HIDE DEF g
  <2>2. Units(g) \subseteq Units(f)
    BY <1>2, <2>1
  <2>3. IsFiniteSet(Units(f))
    BY UnitsFinite
  <2> QED
    BY <2>2, <2>3, FS_Subset
<1>4. Total(g) \in Nat /\ Total(g) <= Total(f)
  BY <1>3, FS_Subset, FS_CardinalityType DEF Total
<1>5. ASSUME NEW a \in S \ T
      PROVE  /\ Total(g) + f[a] <= Total(f)
             /\ S = T \cup {a} => Total(g) + f[a] = Total(f)
  <2> DEFINE mine == {a} \X (1..f[a])
  <2>1. mine \subseteq Units(f) /\ IsFiniteSet(mine) /\ Cardinality(mine) = f[a]
    <3>1. f[a] \in Nat
      OBVIOUS
    <3> QED
      BY <3>1, EntryUnits DEF Units
  <2>2. mine \cap Units(g) = {}
    BY <1>2
  <2>3. S = T \cup {a} => Units(f) = Units(g) \cup mine
    BY <1>2 DEF Units
  <2> HIDE DEF mine, g
  <2>4. Cardinality(Units(g) \cup mine) = Total(g) + f[a]
    BY <1>3, <2>1, <2>2, DisjointUnion DEF Total
  <2>5. Cardinality(Units(g) \cup mine) <= Total(f)
    BY <1>3, <2>1, FS_Subset DEF Total
  <2> QED
    BY <2>3, <2>4, <2>5 DEF Total
<1> QED
  BY <1>4, <1>5

(* An amount held by everyone. *)
THEOREM TotalConst ==
    ASSUME NEW S, IsFiniteSet(S), NEW c \in Nat
    PROVE  Total([x \in S |-> c]) = Cardinality(S) * c
<1>1. Units([x \in S |-> c]) = S \X (1..c)
  BY DEF Units
<1>2. IsFiniteSet(1..c) /\ Cardinality(1..c) = c
  BY FS_Interval
<1> QED
  BY <1>1, <1>2, FS_Product DEF Total

(* Two entries change: what moves from one to the other leaves the total as it is. *)
THEOREM TotalMove ==
    ASSUME NEW S, IsFiniteSet(S), NEW f \in [S -> Nat], NEW a \in S, NEW b \in S, a # b,
           NEW h \in [S -> Nat], \A c \in S \ {a, b} : h[c] = f[c]
    PROVE  Total(h) = Total(f) - f[a] - f[b] + h[a] + h[b] /\ Total(f) \in Nat
<1>1. PICK p \in Nat, q \in Nat, r \in Nat, t \in Nat :
          p = h[a] /\ q = h[b] /\ r = f[a] /\ t = f[b]
  OBVIOUS
<1> DEFINE half == [f EXCEPT ![a] = p]
           whole == [half EXCEPT ![b] = q]
<1>2. half \in [S -> Nat] /\ half[b] = t
  BY <1>1
<1>3. Total(half) = Total(f) - r + p /\ Total(f) \in Nat
  BY <1>1, TotalUpdate
<1>4. whole = h
  BY <1>1
<1> HIDE DEF half
<1>5. Total(whole) = Total(half) - t + q /\ Total(half) \in Nat
  BY <1>2, TotalUpdate
<1> HIDE DEF whole
<1>6. Total(whole) = Total(f) - r - t + p + q
  BY <1>1, <1>3, <1>5
<1> QED
  BY <1>1, <1>3, <1>4, <1>6

LEMMA OnceFinite ==
    ASSUME NEW X, NEW P \in SUBSET (X \X Nat), IsFiniteSet(P)
    PROVE  IsFiniteSet(Once(P))
<1> DEFINE T == {{p[1]} \X (1..p[2]) : p \in P}
           g == [p \in P |-> {p[1]} \X (1..p[2])]
<1>1. g \in Surjection(P, T)
  BY DEF Surjection
<1>2. IsFiniteSet(T)
  BY <1>1, FS_Surjection
<1>3. ASSUME NEW t \in T PROVE IsFiniteSet(t)
  <2>1. PICK p \in P : t = {p[1]} \X (1..p[2])
    OBVIOUS
  <2>2. p[2] \in Nat
    OBVIOUS
  <2> QED
    BY <2>1, <2>2, EntryUnits
<1>4. IsFiniteSet(UNION T)
  BY <1>2, <1>3, FS_UNION
<1> QED
  BY <1>4 DEF Once

(* More pairs never count for less.                                          *)
THEOREM TotalOnceGrows ==
    ASSUME NEW X, NEW Q \in SUBSET (X \X Nat), IsFiniteSet(Q), NEW P \in SUBSET Q
    PROVE  TotalOnce(P) \in Nat /\ TotalOnce(Q) \in Nat /\ TotalOnce(P) <= TotalOnce(Q)
<1>1. IsFiniteSet(Once(Q)) /\ Once(P) \subseteq Once(Q)
  BY OnceFinite DEF Once
<1> QED
  BY <1>1, FS_Subset, FS_CardinalityType DEF TotalOnce

(* A pair whose name is new counts in full.                                  *)
THEOREM TotalOnceNew ==
    ASSUME NEW X, NEW Q \in SUBSET (X \X Nat), IsFiniteSet(Q), NEW P \in SUBSET Q,
           NEW q \in Q, \A p \in P : p[1] # q[1]
    PROVE  TotalOnce(P) + q[2] <= TotalOnce(Q)
<1> DEFINE mine == {q[1]} \X (1..q[2])
<1>1. IsFiniteSet(Once(Q)) /\ Once(P) \subseteq Once(Q) /\ mine \subseteq Once(Q)
  BY OnceFinite DEF Once
<1>2. Once(P) \cap mine = {}
  BY DEF Once
<1>3. q[2] \in Nat
  OBVIOUS
<1>4. IsFiniteSet(mine) /\ Cardinality(mine) = q[2]
  BY <1>3, EntryUnits
<1>5. IsFiniteSet(Once(P))
  BY <1>1, FS_Subset
<1> HIDE DEF mine
<1>6. Cardinality(Once(P) \cup mine) = TotalOnce(P) + q[2]
  <2>1. Cardinality(Once(P) \cup mine)
            = Cardinality(Once(P)) + Cardinality(mine) - Cardinality(Once(P) \cap mine)
    BY <1>4, <1>5, FS_Union
  <2>2. Cardinality(Once(P) \cap mine) = 0
    BY <1>2, FS_EmptySet
  <2>3. Cardinality(Once(P)) \in Nat
    BY <1>5, FS_CardinalityType
  <2> QED
    BY <1>3, <1>4, <2>1, <2>2, <2>3 DEF TotalOnce
<1>7. Cardinality(Once(P) \cup mine) <= Cardinality(Once(Q))
  BY <1>1, FS_Subset
<1> QED
  BY <1>6, <1>7 DEF TotalOnce

(* The pairs read off a finite set are finitely many.                        *)
LEMMA FiniteImage ==
    ASSUME NEW S, IsFiniteSet(S), NEW f, NEW T, T = {f[x] : x \in S}
    PROVE  IsFiniteSet(T)
<1> DEFINE g == [x \in S |-> f[x]]
<1>1. g \in Surjection(S, T)
  BY DEF Surjection
<1> QED
  BY <1>1, FS_Surjection
=============================================================================
