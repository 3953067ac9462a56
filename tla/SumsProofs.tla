----------------------------- MODULE SumsProofs -----------------------------
(***************************************************************************)
(* Facts about SumUpTo that the proofs of the billing modules cite.  The   *)
(* induction theorems of the library cannot be instantiated here, so each  *)
(* induction is written as "the set of counterexamples has no least        *)
(* element".                                                               *)
(***************************************************************************)
EXTENDS Sums, WellFoundedInduction, TLAPS

\* Every nonempty set of naturals has a least element.
LEMMA LeastNat ==
  ASSUME NEW T, T \subseteq Nat, T # {}
  PROVE  \E x \in T : \A y \in T : x <= y
<1>1. IsWellFoundedOn(OpToRel(<, Nat), Nat)
  BY NatLessThanWellFounded
<1>2. PICK x \in T : \A y \in T : ~(<<y, x>> \in OpToRel(<, Nat))
  BY <1>1, WFMin, Zenon
<1>3. \A y \in T : ~(y < x)
  BY <1>2 DEF OpToRel
<1> QED
  BY <1>3

\* s is the sequence of the partial sums of f over 0..n.
PartialSums(s, f, n) ==
  /\ s \in [0..n -> Int]
  /\ s[0] = 0
  /\ \A i \in 1..n : s[i] = s[i - 1] + f[i]

\* The recursive definition of the partial sums has a solution.
LEMMA PartialSumsExist ==
  ASSUME NEW n \in Nat, NEW f \in [1..n -> Int]
  PROVE  \E s : PartialSums(s, f, n)
<1> DEFINE T == {m \in 0..n : ~ \E s : PartialSums(s, f, m)}
<1>1. SUFFICES ASSUME ~ \E s : PartialSums(s, f, n) PROVE FALSE
  OBVIOUS
<1>2. PICK m \in T : \A y \in T : m <= y
  <2>1. T # {} /\ T \subseteq Nat
    BY <1>1
  <2> HIDE DEF T
  <2> QED
    BY <2>1, LeastNat
<1>3. PartialSums([i \in 0..0 |-> 0], f, 0)
  BY DEF PartialSums
<1>4. m \in 1..n /\ m - 1 \in 0..n
  BY <1>2, <1>3
<1>5. PICK s : PartialSums(s, f, m - 1)
  BY <1>2, <1>4
<1> DEFINE t == [i \in 0..m |-> IF i = m THEN s[m - 1] + f[m] ELSE s[i]]
<1>6. PartialSums(t, f, m)
  <2>1. \A i \in 0..(m - 1) : s[i] \in Int
    BY <1>5 DEF PartialSums
  <2>2. t \in [0..m -> Int]
    BY <1>4, <2>1
  <2>3. t[0] = 0
    BY <1>4, <1>5 DEF PartialSums
  <2>4. ASSUME NEW i \in 1..m PROVE t[i] = t[i - 1] + f[i]
    <3>1. CASE i = m
      BY <1>4, <3>1
    <3>2. CASE i # m
      <4>1. i \in 1..(m - 1)
        BY <1>4, <3>2
      <4>2. s[i] = s[i - 1] + f[i]
        BY <1>5, <4>1 DEF PartialSums
      <4> QED
        BY <1>4, <4>1, <4>2
    <3> QED
      BY <3>1, <3>2
  <2> HIDE DEF t
  <2> QED
    BY <2>2, <2>3, <2>4 DEF PartialSums
<1> QED
  BY <1>2, <1>6

\* SumUpTo(f, n) is the last of the partial sums.
LEMMA SumIsPartialSum ==
  ASSUME NEW n \in Nat, NEW f \in [1..n -> Int]
  PROVE  \E s : PartialSums(s, f, n) /\ SumUpTo(f, n) = s[n]
<1> DEFINE Rec(s) == s = [i \in 0..n |-> IF i = 0 THEN 0 ELSE s[i - 1] + f[i]]
           c == CHOOSE s : Rec(s)
<1>1. PICK p : PartialSums(p, f, n)
  BY PartialSumsExist
<1>2. Rec(p)
  BY <1>1 DEF PartialSums
<1>3. Rec(c)
  BY <1>2, Zenon
<1>4. SumUpTo(f, n) = c[n]
  BY Zenon DEF SumUpTo
<1> HIDE DEF c
<1>5. c[0] = 0 /\ \A i \in 1..n : c[i] = c[i - 1] + f[i]
  BY <1>3
<1> DEFINE T == {m \in 0..n : c[m] \notin Int}
<1>6. T = {}
  <2>1. SUFFICES ASSUME T # {} PROVE FALSE
    OBVIOUS
  <2>2. PICK m \in T : \A y \in T : m <= y
    <3>1. T \subseteq Nat
      OBVIOUS
    <3> HIDE DEF T
    <3> QED
      BY <2>1, <3>1, LeastNat
  <2>3. m \in 1..n /\ m - 1 \in 0..n
    BY <1>5, <2>2
  <2>4. c[m - 1] \in Int
    BY <2>2, <2>3
  <2> QED
    BY <1>5, <2>2, <2>3, <2>4
<1>7. c \in [0..n -> Int]
  BY <1>3, <1>6
<1> QED
  BY <1>4, <1>5, <1>7 DEF PartialSums

\* A sum of integers is an integer.
LEMMA SumType ==
  ASSUME NEW n \in Nat, NEW f \in [1..n -> Int]
  PROVE  SumUpTo(f, n) \in Int
BY SumIsPartialSum DEF PartialSums

\* Two functions that differ at k at most have sums that differ by as much.
LEMMA SumDiffersAt ==
  ASSUME NEW n \in Nat, NEW f \in [1..n -> Int], NEW g \in [1..n -> Int],
         NEW k \in 1..n, \A i \in 1..n : i # k => g[i] = f[i]
  PROVE  SumUpTo(g, n) = SumUpTo(f, n) + g[k] - f[k]
<1>1. PICK s : PartialSums(s, f, n) /\ SumUpTo(f, n) = s[n]
  BY SumIsPartialSum
<1>2. PICK t : PartialSums(t, g, n) /\ SumUpTo(g, n) = t[n]
  BY SumIsPartialSum
<1> DEFINE d == g[k] - f[k]
           T == {m \in 0..n : t[m] # (IF m < k THEN s[m] ELSE s[m] + d)}
<1>3. T = {}
  <2>1. SUFFICES ASSUME T # {} PROVE FALSE
    OBVIOUS
  <2>2. PICK m \in T : \A y \in T : m <= y
    <3>1. T \subseteq Nat
      OBVIOUS
    <3> HIDE DEF T
    <3> QED
      BY <2>1, <3>1, LeastNat
  <2>3. m \in 1..n /\ m - 1 \in 0..n
    BY <1>1, <1>2, <2>2 DEF PartialSums
  <2>4. t[m - 1] = IF m - 1 < k THEN s[m - 1] ELSE s[m - 1] + d
    BY <2>2, <2>3
  <2>5. t[m] = t[m - 1] + g[m] /\ s[m] = s[m - 1] + f[m]
    BY <1>1, <1>2, <2>3 DEF PartialSums
  <2>6. s[m - 1] \in Int /\ f[m] \in Int /\ g[m] \in Int /\ f[k] \in Int /\ g[k] \in Int
    BY <1>1, <2>3 DEF PartialSums
  <2> QED
    BY <2>2, <2>3, <2>4, <2>5, <2>6
<1>4. t[n] = s[n] + d
  BY <1>3
<1>5. s[n] \in Int /\ f[k] \in Int /\ g[k] \in Int
  BY <1>1 DEF PartialSums
<1> QED
  BY <1>1, <1>2, <1>4, <1>5

\* A sum of zeros is zero.
LEMMA SumOfZeros ==
  ASSUME NEW n \in Nat, NEW f \in [1..n -> Int], \A i \in 1..n : f[i] = 0
  PROVE  SumUpTo(f, n) = 0
<1>1. PICK s : PartialSums(s, f, n) /\ SumUpTo(f, n) = s[n]
  BY SumIsPartialSum
<1> DEFINE T == {m \in 0..n : s[m] # 0}
<1>2. T = {}
  <2>1. SUFFICES ASSUME T # {} PROVE FALSE
    OBVIOUS
  <2>2. PICK m \in T : \A y \in T : m <= y
    <3>1. T \subseteq Nat
      OBVIOUS
    <3> HIDE DEF T
    <3> QED
      BY <2>1, <3>1, LeastNat
  <2> QED
    BY <1>1, <2>2 DEF PartialSums
<1> QED
  BY <1>1, <1>2

\* No term of a sum of non-negative terms exceeds the sum.
LEMMA SumBoundsTerm ==
  ASSUME NEW n \in Nat, NEW f \in [1..n -> Int], \A i \in 1..n : f[i] >= 0,
         NEW k \in 1..n
  PROVE  f[k] <= SumUpTo(f, n)
<1>1. PICK s : PartialSums(s, f, n) /\ SumUpTo(f, n) = s[n]
  BY SumIsPartialSum
<1> DEFINE T == {m \in 0..n : s[m] < (IF m < k THEN 0 ELSE f[k])}
<1>2. T = {}
  <2>1. SUFFICES ASSUME T # {} PROVE FALSE
    OBVIOUS
  <2>2. PICK m \in T : \A y \in T : m <= y
    <3>1. T \subseteq Nat
      OBVIOUS
    <3> HIDE DEF T
    <3> QED
      BY <2>1, <3>1, LeastNat
  <2>3. m \in 1..n /\ m - 1 \in 0..n
    BY <1>1, <2>2 DEF PartialSums
  <2>4. ~(s[m - 1] < (IF m - 1 < k THEN 0 ELSE f[k]))
    BY <2>2, <2>3
  <2>5. s[m] = s[m - 1] + f[m] /\ s[m - 1] \in Int /\ f[m] \in Int /\ f[m] >= 0
    BY <1>1, <2>3 DEF PartialSums
  <2> QED
    BY <2>2, <2>3, <2>4, <2>5
<1>3. ~(s[n] < f[k])
  BY <1>2
<1> QED
  BY <1>1, <1>3 DEF PartialSums

\* A factor of all terms is a factor of the sum.
LEMMA SumTimes ==
  ASSUME NEW n \in Nat, NEW f \in [1..n -> Int], NEW g \in [1..n -> Int], NEW c \in Int,
         \A i \in 1..n : g[i] = f[i] * c
  PROVE  SumUpTo(g, n) = SumUpTo(f, n) * c
<1>1. PICK s : PartialSums(s, f, n) /\ SumUpTo(f, n) = s[n]
  BY SumIsPartialSum
<1>2. PICK t : PartialSums(t, g, n) /\ SumUpTo(g, n) = t[n]
  BY SumIsPartialSum
<1> DEFINE T == {m \in 0..n : t[m] # s[m] * c}
<1>3. T = {}
  <2>1. SUFFICES ASSUME T # {} PROVE FALSE
    OBVIOUS
  <2>2. PICK m \in T : \A y \in T : m <= y
    <3>1. T \subseteq Nat
      OBVIOUS
    <3> HIDE DEF T
    <3> QED
      BY <2>1, <3>1, LeastNat
  <2>3. m \in 1..n /\ m - 1 \in 0..n
    BY <1>1, <1>2, <2>2 DEF PartialSums
  <2>4. t[m - 1] = s[m - 1] * c
    BY <2>2, <2>3
  <2>5. t[m] = t[m - 1] + f[m] * c /\ s[m] = s[m - 1] + f[m]
    BY <1>1, <1>2, <2>3 DEF PartialSums
  <2>6. s[m - 1] \in Int /\ f[m] \in Int
    BY <1>1, <2>3 DEF PartialSums
  <2>7. (s[m - 1] + f[m]) * c = s[m - 1] * c + f[m] * c
    BY <2>6
  <2> QED
    BY <2>2, <2>4, <2>5, <2>7
<1> QED
  BY <1>1, <1>2, <1>3

\* Each term of a sum may be counted in one of m shares.
LEMMA SumOfShares ==
  ASSUME NEW n \in Nat, NEW m \in Nat, NEW e \in [1..n -> Int], NEW h \in [1..n -> 1..m],
         NEW a \in [1..m -> [1..n -> Int]],
         \A i \in 1..n, k \in 1..m : a[k][i] = IF k = h[i] THEN e[i] ELSE 0
  PROVE  SumUpTo([k \in 1..m |-> SumUpTo(a[k], n)], m) = SumUpTo(e, n)
<1>1. PICK s : PartialSums(s, e, n) /\ SumUpTo(e, n) = s[n]
  BY SumIsPartialSum
<1> DEFINE p == [k \in 1..m |-> CHOOSE t : PartialSums(t, a[k], n) /\ SumUpTo(a[k], n) = t[n]]
<1>2. \A k \in 1..m : PartialSums(p[k], a[k], n) /\ SumUpTo(a[k], n) = p[k][n]
  <2>1. \A k \in 1..m : \E t : PartialSums(t, a[k], n) /\ SumUpTo(a[k], n) = t[n]
    BY SumIsPartialSum
  <2> QED
    BY <2>1, Zenon
<1> HIDE DEF p
<1> DEFINE F == [j \in 0..n |-> [k \in 1..m |-> p[k][j]]]
<1>3. \A j \in 0..n : F[j] \in [1..m -> Int]
  BY <1>2 DEF PartialSums
<1>4. \A k \in 1..m : F[0][k] = 0
  BY <1>2 DEF PartialSums
<1>5. \A j \in 1..n, k \in 1..m : F[j][k] = F[j - 1][k] + a[k][j]
  BY <1>2 DEF PartialSums
<1>6. F[n] = [k \in 1..m |-> SumUpTo(a[k], n)]
  BY <1>2
<1> HIDE DEF F
<1> DEFINE z == [j \in 0..n |-> SumUpTo(F[j], m)]
           T == {j \in 0..n : z[j] # s[j]}
<1>7. z[0] = 0
  <2>0. 0 \in 0..n
    OBVIOUS
  <2>1. F[0] \in [1..m -> Int]
    BY <1>3, <2>0
  <2>2. SumUpTo(F[0], m) = 0
    BY <1>4, <2>1, SumOfZeros
  <2> QED
    BY <2>2
<1>8. ASSUME NEW j \in 1..n
      PROVE  z[j] = z[j - 1] + e[j]
  <2>1. h[j] \in 1..m /\ e[j] \in Int /\ j \in 0..n /\ j - 1 \in 0..n
    OBVIOUS
  <2>2. PICK f \in [1..m -> Int], g \in [1..m -> Int] : f = F[j - 1] /\ g = F[j]
    BY <1>3, <2>1
  <2>3. \A k \in 1..m : g[k] = f[k] + a[k][j]
    BY <1>5, <2>2
  <2>4. ASSUME NEW k \in 1..m, k # h[j] PROVE g[k] = f[k]
    <3>1. a[k][j] = 0 /\ f[k] \in Int
      BY <2>1, <2>4
    <3>2. g[k] = f[k] + a[k][j]
      BY <2>3
    <3> QED
      BY <3>1, <3>2
  <2>5. g[h[j]] = f[h[j]] + e[j]
    <3>1. a[h[j]][j] = e[j]
      BY <2>1
    <3> QED
      BY <2>1, <2>3, <3>1
  <2>6. SumUpTo(g, m) = SumUpTo(f, m) + g[h[j]] - f[h[j]]
    BY <2>1, <2>4, SumDiffersAt
  <2>7. SumUpTo(f, m) \in Int /\ f[h[j]] \in Int
    BY <2>1, SumType
  <2>8. z[j] = SumUpTo(g, m) /\ z[j - 1] = SumUpTo(f, m)
    BY <2>1, <2>2
  <2> QED
    BY <2>1, <2>5, <2>6, <2>7, <2>8
<1>9. z[n] = SumUpTo(F[n], m)
  OBVIOUS
<1> HIDE DEF z
<1>10. T = {}
  <2>1. SUFFICES ASSUME T # {} PROVE FALSE
    OBVIOUS
  <2>2. PICK j \in T : \A y \in T : j <= y
    <3>1. T \subseteq Nat
      OBVIOUS
    <3> HIDE DEF T
    <3> QED
      BY <2>1, <3>1, LeastNat
  <2>3. j \in 1..n /\ j - 1 \in 0..n
    BY <1>1, <1>7, <2>2 DEF PartialSums
  <2>4. z[j - 1] = s[j - 1]
    BY <2>2, <2>3
  <2>5. s[j] = s[j - 1] + e[j]
    BY <1>1, <2>3 DEF PartialSums
  <2> QED
    BY <1>8, <2>2, <2>3, <2>4, <2>5
<1>11. z[n] = s[n]
  <2>1. \A j \in 0..n : z[j] = s[j]
    BY <1>10
  <2> QED
    BY <2>1
<1> QED
  BY <1>1, <1>6, <1>9, <1>11
=============================================================================
