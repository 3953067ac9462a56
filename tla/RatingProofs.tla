---------------------------- MODULE RatingProofs ----------------------------
(***************************************************************************)
(* What banker's rounding does to a bill and to all bills, for any number  *)
(* of CDRs and services and any rates.                                     *)
(***************************************************************************)
EXTENDS RatedBatches, SumsProofs, FiniteSetTheorems, SequenceTheorems

Row == [type : TypeSet, quantity : Nat]

RatedInv == logs \in Seq(Row) /\ rates \in [TypeSet -> Nat]

-----------------------------------------------------------------------------
(***************************************************************************)
(* One rounding.                                                           *)
(***************************************************************************)

\* Quotient and remainder are unique.
LEMMA DivisionIs ==
  ASSUME NEW n \in Nat \ {0}, NEW d \in Int, NEW r \in Int, 0 <= r, r < n, NEW x \in Int,
         x = n * d + r
  PROVE  x \div n = d /\ x % n = r
<1>1. PICK c \in Int, q \in Int : c = x \div n /\ q = x % n
  OBVIOUS
<1>2. x = n * c + q /\ 0 <= q /\ q < n
  BY <1>1
<1>3. ~(c < d)
  <2>1. SUFFICES ASSUME c < d PROVE FALSE
    OBVIOUS
  <2>2. c + 1 <= d
    BY <2>1
  <2>3. n * (c + 1) <= n * d
    BY <2>2
  <2>4. n * (c + 1) = n * c + n
    OBVIOUS
  <2> QED
    BY <1>2, <2>3, <2>4
<1>4. ~(d < c)
  <2>1. SUFFICES ASSUME d < c PROVE FALSE
    OBVIOUS
  <2>2. d + 1 <= c
    BY <2>1
  <2>3. n * (d + 1) <= n * c
    BY <2>2
  <2>4. n * (d + 1) = n * d + n
    OBVIOUS
  <2> QED
    BY <1>2, <2>3, <2>4
<1>5. c = d
  BY <1>3, <1>4
<1>6. q = r
  BY <1>2, <1>5
<1> QED
  BY <1>1, <1>5, <1>6

\* What RoundHalfEven does, in terms of the quotient and the remainder.
LEMMA RoundIs ==
  ASSUME NEW d \in Nat, NEW r \in Nat, r < Scale, NEW x \in Nat, x = Scale * d + r
  PROVE  RoundHalfEven(x) =
           IF 2 * r > Scale \/ (2 * r = Scale /\ d % 2 = 1) THEN d + 1 ELSE d
<1>1. x \div Scale = d /\ x % Scale = r
  BY ScaleAssumption, DivisionIs
<1> QED
  BY <1>1 DEF RoundHalfEven

LEMMA Divided ==
  ASSUME NEW x \in Nat
  PROVE  \E d \in Nat, r \in Nat : r < Scale /\ x = Scale * d + r
<1>1. PICK d \in Int, r \in Int : d = x \div Scale /\ r = x % Scale
  BY ScaleAssumption
<1>2. x = Scale * d + r /\ 0 <= r /\ r < Scale
  BY <1>1, ScaleAssumption
<1>3. ~(d < 0)
  <2>1. SUFFICES ASSUME d + 1 <= 0 PROVE FALSE
    OBVIOUS
  <2>2. Scale * (d + 1) <= 0
    BY <2>1, ScaleAssumption
  <2>3. Scale * (d + 1) = Scale * d + Scale
    BY ScaleAssumption
  <2> QED
    BY <1>2, <2>2, <2>3, ScaleAssumption
<1> QED
  BY <1>2, <1>3

\* A rounding is off by at most half a cent.
LEMMA RoundingError ==
  ASSUME NEW x \in Nat
  PROVE  /\ RoundHalfEven(x) \in Nat
         /\ 2 * (Scale * RoundHalfEven(x) - x) <= Scale
         /\ 2 * (x - Scale * RoundHalfEven(x)) <= Scale
<1>1. PICK d \in Nat, r \in Nat : r < Scale /\ x = Scale * d + r
  BY Divided
<1>2. RoundHalfEven(x) = IF 2 * r > Scale \/ (2 * r = Scale /\ d % 2 = 1) THEN d + 1 ELSE d
  BY <1>1, RoundIs
<1>3. Scale * (d + 1) = Scale * d + Scale /\ Scale * d \in Nat /\ Scale \in Nat
  BY ScaleAssumption
<1>4. CASE RoundHalfEven(x) = d + 1 /\ 2 * r >= Scale
  BY <1>1, <1>3, <1>4
<1>5. CASE RoundHalfEven(x) = d /\ 2 * r <= Scale
  BY <1>1, <1>3, <1>5
<1> QED
  BY <1>2, <1>3, <1>4, <1>5

LEMMA RoundZero == RoundHalfEven(0) = 0
<1>1. 0 = Scale * 0 + 0 /\ 0 < Scale
  BY ScaleAssumption
<1> QED
  BY <1>1, RoundIs, ScaleAssumption

\* The amounts x and 2 * Scale * c - x are rounded in opposite directions: if one is a
\* tie so is the other, and the even cent is above the one and below the other.
LEMMA RoundMirrors ==
  ASSUME NEW c \in Nat, NEW x \in Nat, NEW y \in Nat, x + y = 2 * (Scale * c)
  PROVE  RoundHalfEven(x) + RoundHalfEven(y) = 2 * c
<1>1. PICK d \in Nat, r \in Nat : r < Scale /\ x = Scale * d + r
  BY Divided
<1>2. RoundHalfEven(x) = IF 2 * r > Scale \/ (2 * r = Scale /\ d % 2 = 1) THEN d + 1 ELSE d
  BY <1>1, RoundIs
<1>3. PICK e \in Nat, q \in Nat : q < Scale /\ y = Scale * e + q
  BY Divided
<1>4. RoundHalfEven(y) = IF 2 * q > Scale \/ (2 * q = Scale /\ e % 2 = 1) THEN e + 1 ELSE e
  BY <1>3, RoundIs
<1>5. PICK k \in Int : k = 2 * c - d - e
  <2>1. 2 * c - d - e \in Int
    OBVIOUS
  <2> QED
    BY <2>1
<1>6. r + q = Scale * k
  <2>1. Scale * k = 2 * (Scale * c) - Scale * d - Scale * e
    BY <1>5, ScaleAssumption
  <2>2. Scale * d \in Int /\ Scale * e \in Int /\ Scale * c \in Int
    BY ScaleAssumption
  <2> QED
    BY <1>1, <1>3, <2>1, <2>2
<1>7. k \in {0, 1}
  <2>1. k > -1
    <3>1. SUFFICES ASSUME k <= -1 PROVE FALSE
      OBVIOUS
    <3>2. Scale * k <= -Scale
      BY <3>1, ScaleAssumption
    <3> QED
      BY <1>6, <3>2, ScaleAssumption
  <2>2. k < 2
    <3>1. SUFFICES ASSUME k >= 2 PROVE FALSE
      OBVIOUS
    <3>2. Scale * k >= 2 * Scale
      BY <3>1, ScaleAssumption
    <3> QED
      BY <1>1, <1>3, <1>6, <3>2, ScaleAssumption
  <2> QED
    BY <2>1, <2>2
<1>8. CASE k = 0
  <2>1. r = 0 /\ q = 0
    BY <1>6, <1>8, ScaleAssumption
  <2> QED
    BY <1>2, <1>4, <1>5, <1>8, <2>1, ScaleAssumption
<1>9. CASE k = 1
  <2>1. r + q = Scale /\ d + e = 2 * c - 1
    BY <1>5, <1>6, <1>9, ScaleAssumption
  <2>2. (d % 2 = 1) <=> ~(e % 2 = 1)
    BY <2>1
  <2> QED
    BY <1>1, <1>2, <1>3, <1>4, <2>1, <2>2, ScaleAssumption
<1> QED
  BY <1>7, <1>8, <1>9

-----------------------------------------------------------------------------
(***************************************************************************)
(* All bills.                                                              *)
(***************************************************************************)

LEMMA ErrorType ==
  ASSUME NEW x \in Nat
  PROVE  Error(x) \in Int
BY RoundingError, ScaleAssumption DEF Error

\* A quantity and what it lacks of two full cycles have opposite errors.
LEMMA ErrorMirrors ==
  ASSUME NEW r \in Nat, NEW q \in 0..(2 * Scale)
  PROVE  Error((2 * Scale - q) * r) = -Error(q * r)
<1>1. 2 * Scale - q \in Nat /\ q \in Nat /\ Scale \in Nat
  BY ScaleAssumption
<1>2. PICK x \in Nat, y \in Nat : x = q * r /\ y = (2 * Scale - q) * r
  BY <1>1
<1>3. x + y = 2 * (Scale * r)
  BY <1>1, <1>2
<1>4. PICK u \in Nat, v \in Nat : u = RoundHalfEven(x) /\ v = RoundHalfEven(y)
  BY RoundingError
<1>5. u + v = 2 * r
  BY <1>3, <1>4, RoundMirrors
<1>6. Scale * u + Scale * v = 2 * (Scale * r)
  <2>1. Scale * u + Scale * v = Scale * (u + v) /\ Scale * (2 * r) = 2 * (Scale * r)
    BY <1>1
  <2> QED
    BY <1>5, <2>1
<1>7. Scale * u \in Int /\ Scale * v \in Int /\ Scale * r \in Int
  BY <1>1
<1>8. Error(x) = Scale * u - x /\ Error(y) = Scale * v - y
  BY <1>4 DEF Error
<1>9. Error(y) = -Error(x)
  BY <1>3, <1>6, <1>7, <1>8
<1> QED
  BY <1>2, <1>9

LEMMA ErrorsCancel ==
  ASSUME NEW r \in Nat
  PROVE  SumUpTo([q \in 1..(2 * Scale) |-> Error(q * r)], 2 * Scale) = 0
<1> DEFINE f == [q \in 1..(2 * Scale) |-> Error(q * r)]
<1>1. Scale \in Nat /\ Scale >= 1 /\ 2 * Scale \in Nat
  BY ScaleAssumption
<1>2. f \in [1..(2 * Scale) -> Int]
  <2>1. \A q \in 1..(2 * Scale) : q * r \in Nat
    BY <1>1
  <2> QED
    BY <2>1, ErrorType
<1>3. \A q \in 1..(2 * Scale - 1) : f[2 * Scale - q] = -f[q]
  <2>1. SUFFICES ASSUME NEW q \in 1..(2 * Scale - 1) PROVE f[2 * Scale - q] = -f[q]
    OBVIOUS
  <2>2. q \in 0..(2 * Scale) /\ q \in 1..(2 * Scale) /\ 2 * Scale - q \in 1..(2 * Scale)
    BY <1>1
  <2>3. f[2 * Scale - q] = Error((2 * Scale - q) * r) /\ f[q] = Error(q * r)
    BY <2>2
  <2> QED
    BY <2>2, <2>3, ErrorMirrors
<1>4. f[2 * Scale] = 0
  <2>1. 0 \in 0..(2 * Scale) /\ 2 * Scale \in 1..(2 * Scale)
    BY <1>1
  <2>2. Error((2 * Scale - 0) * r) = -Error(0 * r)
    BY <2>1, ErrorMirrors
  <2>3. (2 * Scale - 0) * r = (2 * Scale) * r /\ 0 * r = 0
    BY <1>1
  <2>4. Error(0) = 0
    BY RoundZero, <1>1 DEF Error
  <2>5. f[2 * Scale] = Error((2 * Scale) * r)
    BY <2>1
  <2> QED
    BY <2>2, <2>3, <2>4, <2>5
<1> HIDE DEF f
<1>5. PICK s : PartialSums(s, f, 2 * Scale) /\ SumUpTo(f, 2 * Scale) = s[2 * Scale]
  BY <1>1, <1>2, SumIsPartialSum
<1>6. /\ \A i \in 0..(2 * Scale) : s[i] \in Int
      /\ \A i \in 1..(2 * Scale) : f[i] \in Int /\ s[i] = s[i - 1] + f[i]
      /\ s[0] = 0
  BY <1>2, <1>5 DEF PartialSums
<1> DEFINE T == {j \in 0..(Scale - 1) : s[Scale + j] # s[Scale - 1 - j]}
<1>7. T = {}
  <2>1. SUFFICES ASSUME T # {} PROVE FALSE
    OBVIOUS
  <2>2. PICK j \in T : \A y \in T : j <= y
    <3>1. T \subseteq Nat
      OBVIOUS
    <3> HIDE DEF T
    <3> QED
      BY <2>1, <3>1, LeastNat
  <2>3. j \in 0..(Scale - 1) /\ s[Scale + j] # s[Scale - 1 - j]
    BY <2>2
  <2>4. CASE j = 0
    <3>1. Scale \in 1..(2 * Scale - 1) /\ 2 * Scale - Scale = Scale
      BY <1>1
    <3>2. f[Scale] = -f[Scale] /\ f[Scale] \in Int
      BY <1>3, <1>6, <3>1
    <3>3. f[Scale] = 0
      BY <3>2
    <3>4. s[Scale] = s[Scale - 1] + f[Scale] /\ s[Scale - 1] \in Int
      BY <1>6, <3>1
    <3>5. Scale + 0 = Scale /\ Scale - 1 - 0 = Scale - 1
      BY <1>1
    <3> QED
      BY <2>3, <2>4, <3>3, <3>4, <3>5
  <2>5. CASE j # 0
    <3>1. PICK lo \in 1..(2 * Scale - 1), hi \in 1..(2 * Scale) : lo = Scale - j /\ hi = Scale + j
      <4>1. Scale - j \in 1..(2 * Scale - 1) /\ Scale + j \in 1..(2 * Scale)
        BY <1>1, <2>3, <2>5
      <4> QED
        BY <4>1
    <3>2. j - 1 \in 0..(Scale - 1) /\ ~(j - 1 \in T)
      BY <1>1, <2>2, <2>3, <2>5
    <3>3. s[Scale + (j - 1)] = s[Scale - 1 - (j - 1)]
      BY <3>2
    <3>4. /\ Scale + (j - 1) = hi - 1 /\ Scale - 1 - (j - 1) = lo
          /\ Scale - 1 - j = lo - 1 /\ 2 * Scale - lo = hi
          /\ lo \in 1..(2 * Scale) /\ lo - 1 \in 0..(2 * Scale)
      BY <1>1, <2>3, <3>1
    <3>5. s[hi - 1] = s[lo]
      BY <3>3, <3>4
    <3>6. f[hi] = -f[lo]
      BY <1>3, <3>4
    <3>7. s[hi] = s[hi - 1] + f[hi] /\ s[lo] = s[lo - 1] + f[lo]
      BY <1>6, <3>4
    <3>8. s[lo - 1] \in Int /\ f[lo] \in Int
      BY <1>6, <3>4
    <3>9. s[hi] = s[lo - 1]
      BY <3>5, <3>6, <3>7, <3>8
    <3> QED
      BY <2>3, <3>1, <3>4, <3>9
  <2> QED
    BY <2>4, <2>5
<1>8. s[2 * Scale - 1] = s[0]
  <2>1. Scale - 1 \in 0..(Scale - 1)
    BY <1>1
  <2>2. s[Scale + (Scale - 1)] = s[Scale - 1 - (Scale - 1)]
    BY <1>7, <2>1
  <2>3. Scale + (Scale - 1) = 2 * Scale - 1 /\ Scale - 1 - (Scale - 1) = 0
    BY <1>1
  <2> QED
    BY <2>2, <2>3
<1>9. s[2 * Scale] = s[2 * Scale - 1] + f[2 * Scale]
  BY <1>1, <1>6
<1>10. SumUpTo(f, 2 * Scale) = 0
  BY <1>4, <1>5, <1>6, <1>8, <1>9
<1> QED
  BY <1>10 DEF f

-----------------------------------------------------------------------------
(***************************************************************************)
(* Reachable states.                                                       *)
(***************************************************************************)

LEMMA RatedInvInit == Init => RatedInv
BY EmptySeq DEF Init, RatedInv

LEMMA RatedInvNext ==
  ASSUME RatedInv, [Next]_<<logs, rates>>
  PROVE  RatedInv'
<1>1. ASSUME NEW s \in TypeSet, NEW q \in 1..MaxQuantity, RecordUsage(s, q)
      PROVE  RatedInv'
  <2>1. [type |-> s, quantity |-> q] \in Row
    BY DEF Row
  <2>2. Append(logs, [type |-> s, quantity |-> q]) \in Seq(Row)
    BY <2>1, AppendProperties DEF RatedInv
  <2> QED
    BY <1>1, <2>2 DEF RecordUsage, RatedInv
<1>2. ASSUME NEW s \in TypeSet, NEW r \in 0..MaxRate, UpdateRate(s, r)
      PROVE  RatedInv'
  BY <1>2 DEF UpdateRate, RatedInv
<1>3. CASE UNCHANGED <<logs, rates>>
  BY <1>3 DEF RatedInv
<1> QED
  BY <1>1, <1>2, <1>3 DEF Next

\* At any rate, the rounding errors of single CDRs of all the quantities of two full
\* cycles cancel: half-even rounding has no bias.
THEOREM RoundingHasNoBias == Spec => []NoAggregateBias
<1>1. RatedInv /\ [Next]_<<logs, rates>> => RatedInv'
  BY RatedInvNext
<1>2. RatedInv => NoAggregateBias
  <2>1. SUFFICES ASSUME RatedInv, NEW s \in TypeSet
                 PROVE  SumUpTo([q \in 1..(2 * Scale) |-> Error(q * rates[s])], 2 * Scale) = 0
    BY DEF NoAggregateBias
  <2>2. PICK r \in Nat : r = rates[s]
    BY <2>1 DEF RatedInv
  <2>3. SumUpTo([q \in 1..(2 * Scale) |-> Error(q * r)], 2 * Scale) = 0
    BY ErrorsCancel
  <2> QED
    BY <2>2, <2>3
<1> QED
  BY <1>1, <1>2, RatedInvInit, PTL DEF Spec

-----------------------------------------------------------------------------
(***************************************************************************)
(* One bill.                                                               *)
(***************************************************************************)

LEMMA SumIsNat ==
  ASSUME NEW n \in Nat, NEW f \in [1..n -> Nat]
  PROVE  SumUpTo(f, n) \in Nat
<1>1. f \in [1..n -> Int] /\ \A i \in 1..n : f[i] >= 0 /\ f[i] \in Int
  OBVIOUS
<1>2. SumUpTo(f, n) \in Int
  BY <1>1, SumType
<1>3. CASE n = 0
  <2>1. \A i \in 1..n : f[i] = 0
    BY <1>3
  <2>2. SumUpTo(f, n) = 0
    BY <1>1, <2>1, SumOfZeros
  <2> QED
    BY <2>2
<1>4. CASE n # 0
  <2>1. 1 \in 1..n
    BY <1>4
  <2>2. f[1] <= SumUpTo(f, n)
    BY <1>1, <2>1, SumBoundsTerm
  <2> QED
    BY <1>1, <1>2, <2>1, <2>2
<1> QED
  BY <1>3, <1>4

\* Sums whose terms differ by at most w / 2, and at the places U only, differ by at
\* most w / 2 for each of these.
LEMMA SumDistance ==
  ASSUME NEW n \in Nat, NEW f \in [1..n -> Int], NEW g \in [1..n -> Int], NEW w \in Nat,
         NEW U, U \subseteq 1..n,
         \A k \in U : 2 * (f[k] - g[k]) <= w /\ 2 * (g[k] - f[k]) <= w,
         \A k \in 1..n : k \notin U => f[k] = g[k]
  PROVE  /\ 2 * (SumUpTo(f, n) - SumUpTo(g, n)) <= w * Cardinality(U)
         /\ 2 * (SumUpTo(g, n) - SumUpTo(f, n)) <= w * Cardinality(U)
<1>1. PICK s : PartialSums(s, f, n) /\ SumUpTo(f, n) = s[n]
  BY SumIsPartialSum
<1>2. PICK t : PartialSums(t, g, n) /\ SumUpTo(g, n) = t[n]
  BY SumIsPartialSum
<1>3. /\ s[0] = 0 /\ t[0] = 0
      /\ \A i \in 0..n : s[i] \in Int /\ t[i] \in Int
      /\ \A i \in 1..n : s[i] = s[i - 1] + f[i] /\ t[i] = t[i - 1] + g[i]
      /\ \A i \in 1..n : f[i] \in Int /\ g[i] \in Int
  BY <1>1, <1>2 DEF PartialSums
<1> DEFINE B == [m \in 0..n |-> {k \in 1..n : k \in U /\ k <= m}]
           c == [m \in 0..n |-> Cardinality(B[m])]
<1>4. \A m \in 0..n : B[m] \subseteq 1..n /\ \A k \in 1..n : k \in B[m] <=> k \in U /\ k <= m
  OBVIOUS
<1> HIDE DEF B
<1>5. \A m \in 0..n : c[m] \in Nat /\ IsFiniteSet(B[m])
  <2>1. IsFiniteSet(1..n)
    BY FS_Interval
  <2>2. \A m \in 0..n : B[m] \subseteq 1..n
    BY <1>4
  <2>3. \A m \in 0..n : IsFiniteSet(B[m])
    BY <2>1, <2>2, FS_Subset
  <2> QED
    BY <2>3, FS_CardinalityType
<1>6. c[0] = 0
  <2>1. B[0] = {}
    BY <1>4
  <2>2. c[0] = Cardinality(B[0])
    OBVIOUS
  <2> QED
    BY <2>1, <2>2, FS_EmptySet
<1>7. ASSUME NEW m \in 1..n
      PROVE  c[m] = IF m \in U THEN c[m - 1] + 1 ELSE c[m - 1]
  <2>1. m - 1 \in 0..n /\ m \in 0..n /\ m \notin B[m - 1]
    BY <1>4
  <2>2. CASE m \in U
    <3>1. \A k \in 1..n : k \in B[m] <=> k \in B[m - 1] \/ k = m
      BY <1>4, <2>1, <2>2
    <3>2. B[m] = B[m - 1] \cup {m}
      BY <1>4, <2>1, <3>1
    <3>3. Cardinality(B[m - 1] \cup {m}) = Cardinality(B[m - 1]) + 1
      BY <1>5, <2>1, FS_AddElement
    <3> QED
      BY <2>1, <2>2, <3>2, <3>3
  <2>3. CASE m \notin U
    <3>1. ASSUME NEW k \in 1..n PROVE k \in B[m] <=> k \in B[m - 1]
      <4>1. k \in U => k # m
        BY <2>3
      <4>2. k # m => (k <= m <=> k <= m - 1)
        OBVIOUS
      <4> QED
        BY <1>4, <2>1, <4>1, <4>2
    <3>2. B[m] = B[m - 1]
      BY <1>4, <2>1, <3>1
    <3> QED
      BY <2>1, <2>3, <3>2
  <2> QED
    BY <2>2, <2>3
<1>8. c[n] = Cardinality(U)
  <2>1. n \in 0..n /\ \A k \in 1..n : k \in B[n] <=> k \in U
    BY <1>4
  <2>2. B[n] = U
    BY <1>4, <2>1
  <2> QED
    BY <2>1, <2>2
<1> HIDE DEF c
<1> DEFINE T == {m \in 0..n : ~(/\ 2 * (s[m] - t[m]) <= w * c[m]
                                /\ 2 * (t[m] - s[m]) <= w * c[m])}
<1>9. T = {}
  <2>1. SUFFICES ASSUME T # {} PROVE FALSE
    OBVIOUS
  <2>2. PICK m \in T : \A y \in T : m <= y
    <3>1. T \subseteq Nat
      OBVIOUS
    <3> HIDE DEF T
    <3> QED
      BY <2>1, <3>1, LeastNat
  <2>3. m \in 1..n /\ m - 1 \in 0..n /\ m \in 0..n
    BY <1>3, <1>6, <2>2
  <2>4. /\ 2 * (s[m - 1] - t[m - 1]) <= w * c[m - 1]
        /\ 2 * (t[m - 1] - s[m - 1]) <= w * c[m - 1]
    BY <2>2, <2>3
  <2>5. /\ s[m] = s[m - 1] + f[m] /\ t[m] = t[m - 1] + g[m]
        /\ s[m - 1] \in Int /\ t[m - 1] \in Int /\ f[m] \in Int /\ g[m] \in Int
        /\ c[m - 1] \in Nat
    BY <1>3, <1>5, <2>3
  <2>6. ~(/\ 2 * (s[m] - t[m]) <= w * c[m]
          /\ 2 * (t[m] - s[m]) <= w * c[m])
    BY <2>2
  <2> HIDE DEF T
  <2>7. CASE m \in U
    <3>1. 2 * (f[m] - g[m]) <= w /\ 2 * (g[m] - f[m]) <= w
      BY <2>7
    <3>2. c[m] = c[m - 1] + 1
      BY <1>7, <2>3, <2>7
    <3>3. PICK p \in Int : p = w * c[m - 1]
      BY <2>5
    <3>4. w * c[m] = p + w
      BY <2>5, <3>2, <3>3
    <3>5. PICK v \in Int, u \in Int, x \in Int, y \in Int :
            v = s[m - 1] /\ u = t[m - 1] /\ x = f[m] /\ y = g[m]
      BY <2>5
    <3>6. 2 * (v - u) <= p /\ 2 * (u - v) <= p
      BY <2>4, <3>3, <3>5
    <3>7. 2 * (x - y) <= w /\ 2 * (y - x) <= w
      BY <3>1, <3>5
    <3>8. 2 * ((v + x) - (u + y)) <= p + w /\ 2 * ((u + y) - (v + x)) <= p + w
      BY <3>6, <3>7
    <3>9. s[m] = v + x /\ t[m] = u + y
      BY <2>5, <3>5
    <3> QED
      BY <2>6, <3>4, <3>8, <3>9
  <2>8. CASE m \notin U
    <3>1. f[m] = g[m] /\ c[m] = c[m - 1]
      BY <1>7, <2>3, <2>8
    <3> QED
      BY <2>3, <2>4, <2>5, <2>6, <3>1
  <2> QED
    BY <2>7, <2>8
<1>10. 2 * (s[n] - t[n]) <= w * c[n] /\ 2 * (t[n] - s[n]) <= w * c[n]
  <2>1. n \in 0..n
    OBVIOUS
  <2> QED
    BY <1>9, <2>1
<1> QED
  BY <1>1, <1>2, <1>8, <1>10

\* The CDRs of a service
Shares(k) == [i \in 1..Len(logs) |->
                IF logs[i].type = Types[k] THEN logs[i].quantity ELSE 0]

LEMMA RowTypes ==
  ASSUME RatedInv
  PROVE  /\ Len(logs) \in Nat /\ DOMAIN logs = 1..Len(logs)
         /\ Len(Types) \in Nat /\ DOMAIN Types = 1..Len(Types)
         /\ \A k \in 1..Len(Types) : Types[k] \in TypeSet /\ rates[Types[k]] \in Nat
         /\ \A i \in 1..Len(logs) : /\ logs[i].type \in TypeSet
                                    /\ logs[i].quantity \in Nat
                                    /\ \E k \in 1..Len(Types) : Types[k] = logs[i].type
<1>1. /\ Len(logs) \in Nat /\ DOMAIN logs = 1..Len(logs)
      /\ Len(Types) \in Nat /\ DOMAIN Types = 1..Len(Types)
  BY LenProperties, TypesAssumption DEF RatedInv
<1>2. \A k \in 1..Len(Types) : Types[k] \in TypeSet /\ rates[Types[k]] \in Nat
  BY <1>1 DEF TypeSet, RatedInv
<1>3. \A i \in 1..Len(logs) : logs[i] \in Row
  BY ElementOfSeq DEF RatedInv
<1>4. \A s \in TypeSet : \E k \in 1..Len(Types) : Types[k] = s
  BY <1>1 DEF TypeSet
<1> QED
  BY <1>1, <1>2, <1>3, <1>4 DEF Row

\* What a service costs exactly
LEMMA ExactShare ==
  ASSUME RatedInv, NEW k \in 1..Len(Types)
  PROVE  /\ Shares(k) \in [1..Len(logs) -> Nat]
         /\ Aggregation(logs, Types[k]) = SumUpTo(Shares(k), Len(logs))
         /\ Aggregation(logs, Types[k]) \in Nat
         /\ Aggregation(logs, Types[k]) * rates[Types[k]] \in Nat
<1>1. Shares(k) \in [1..Len(logs) -> Nat]
  BY RowTypes DEF Shares
<1>2. Aggregation(logs, Types[k]) = SumUpTo(Shares(k), Len(logs))
  BY RowTypes DEF Aggregation, Shares
<1>3. SumUpTo(Shares(k), Len(logs)) \in Nat
  BY <1>1, RowTypes, SumIsNat
<1> QED
  BY <1>1, <1>2, <1>3, RowTypes

\* The exact total is the sum of what the services cost exactly: each CDR is in the
\* share of one service.
LEMMA ExactIsSumOfShares ==
  ASSUME RatedInv
  PROVE  Exact = SumUpTo([k \in 1..Len(Types) |->
                            Aggregation(logs, Types[k]) * rates[Types[k]]], Len(Types))
<1>1. PICK n \in Nat, m \in Nat : n = Len(logs) /\ m = Len(Types)
  BY RowTypes
<1>2. /\ DOMAIN logs = 1..n /\ DOMAIN Types = 1..m
      /\ \A k \in 1..m : rates[Types[k]] \in Nat
      /\ \A i \in 1..n : logs[i].quantity \in Nat /\ \E k \in 1..m : Types[k] = logs[i].type
  BY <1>1, RowTypes
<1> DEFINE h == [i \in 1..n |-> CHOOSE k \in 1..m : Types[k] = logs[i].type]
           e == [i \in 1..n |-> logs[i].quantity * rates[logs[i].type]]
           a == [k \in 1..m |-> [i \in 1..n |-> Shares(k)[i] * rates[Types[k]]]]
<1>3. h \in [1..n -> 1..m] /\ \A i \in 1..n : Types[h[i]] = logs[i].type
  BY <1>2
<1>4. \A i \in 1..n, k \in 1..m : Types[k] = logs[i].type <=> k = h[i]
  <2>1. \A j, k \in 1..m : Types[j] = Types[k] => j = k
    BY <1>2, TypesAssumption
  <2> QED
    BY <1>3, <2>1
<1> HIDE DEF h
<1>5. e \in [1..n -> Int]
  <2>1. \A i \in 1..n : rates[logs[i].type] \in Nat
    BY <1>2
  <2> QED
    BY <1>2, <2>1
<1>6. \A k \in 1..m, i \in 1..n :
        Shares(k)[i] = IF Types[k] = logs[i].type THEN logs[i].quantity ELSE 0
  BY <1>1 DEF Shares
<1>7. \A k \in 1..m : Shares(k) \in [1..n -> Nat]
  BY <1>1, ExactShare
<1>8. a \in [1..m -> [1..n -> Int]]
  <2>1. \A k \in 1..m, i \in 1..n : Shares(k)[i] \in Nat
    BY <1>7
  <2>2. \A k \in 1..m, i \in 1..n : Shares(k)[i] * rates[Types[k]] \in Int
    BY <1>2, <2>1
  <2> QED
    BY <2>2
<1>9. ASSUME NEW i \in 1..n, NEW k \in 1..m
      PROVE  a[k][i] = IF k = h[i] THEN e[i] ELSE 0
  <2>1. a[k][i] = Shares(k)[i] * rates[Types[k]]
    OBVIOUS
  <2>2. e[i] = logs[i].quantity * rates[logs[i].type]
    OBVIOUS
  <2>3. CASE k = h[i]
    <3>1. Types[k] = logs[i].type
      BY <1>4, <2>3
    <3>2. Shares(k)[i] = logs[i].quantity
      BY <1>6, <3>1
    <3> QED
      BY <2>1, <2>2, <2>3, <3>1, <3>2
  <2>4. CASE k # h[i]
    <3>1. Shares(k)[i] = 0
      BY <1>4, <1>6, <2>4
    <3>2. 0 * rates[Types[k]] = 0
      BY <1>2
    <3> QED
      BY <2>1, <2>4, <3>1, <3>2
  <2> QED
    BY <2>3, <2>4
<1>10. Exact = SumUpTo(e, n)
  BY <1>1, <1>2 DEF Exact
<1>11. \A k \in 1..m : SumUpTo(a[k], n) = Aggregation(logs, Types[k]) * rates[Types[k]]
  <2>1. SUFFICES ASSUME NEW k \in 1..m
                 PROVE  SumUpTo(a[k], n) = Aggregation(logs, Types[k]) * rates[Types[k]]
    OBVIOUS
  <2>11. \A i \in 1..n : a[k][i] = Shares(k)[i] * rates[Types[k]]
    OBVIOUS
  <2> HIDE DEF a
  <2>2. PICK f \in [1..n -> Int], g \in [1..n -> Int] : f = Shares(k) /\ g = a[k]
    <3>1. Shares(k) \in [1..n -> Int]
      BY <1>7
    <3>2. a[k] \in [1..n -> Int]
      BY <1>8
    <3> QED
      BY <3>1, <3>2
  <2>3. PICK c \in Int : c = rates[Types[k]]
    <3>1. rates[Types[k]] \in Int
      BY <1>2
    <3> QED
      BY <3>1
  <2>4. \A i \in 1..n : g[i] = f[i] * c
    BY <2>11, <2>2, <2>3
  <2>5. SumUpTo(g, n) = SumUpTo(f, n) * c
    BY <2>4, SumTimes
  <2>6. Aggregation(logs, Types[k]) = SumUpTo(f, n)
    BY <1>1, <2>2, ExactShare
  <2> QED
    BY <2>2, <2>3, <2>5, <2>6
<1> HIDE DEF a, e
<1>12. SumUpTo([k \in 1..m |-> SumUpTo(a[k], n)], m) = SumUpTo(e, n)
  BY <1>3, <1>5, <1>8, <1>9, SumOfShares
<1>13. [k \in 1..m |-> SumUpTo(a[k], n)]
         = [k \in 1..m |-> Aggregation(logs, Types[k]) * rates[Types[k]]]
  BY <1>11
<1> QED
  BY <1>1, <1>10, <1>12, <1>13

\* Only the services used have costs, so that the places at which the rounded and the
\* exact sum differ are no more than the services used.
LEMMA UnusedAreFree ==
  ASSUME RatedInv, NEW k \in 1..Len(Types), Types[k] \notin Used
  PROVE  Aggregation(logs, Types[k]) = 0
<1>1. PICK n \in Nat : n = Len(logs) /\ DOMAIN logs = 1..n
  BY RowTypes
<1>2. \A i \in 1..n : Shares(k)[i] = 0
  BY <1>1 DEF Shares, Used
<1>3. PICK f \in [1..n -> Int] : f = Shares(k)
  BY <1>1, ExactShare
<1>4. SumUpTo(f, n) = 0
  BY <1>2, <1>3, SumOfZeros
<1> QED
  BY <1>1, <1>3, <1>4, ExactShare

LEMMA UsedPlaces ==
  ASSUME RatedInv
  PROVE  Cardinality({k \in 1..Len(Types) : Types[k] \in Used}) <= Cardinality(Used)
         /\ Cardinality({k \in 1..Len(Types) : Types[k] \in Used}) \in Nat
         /\ Cardinality(Used) \in Nat
<1> DEFINE U == {k \in 1..Len(Types) : Types[k] \in Used}
           t == [k \in U |-> Types[k]]
<1>1. IsFiniteSet(Used)
  <2>1. IsFiniteSet(1..Len(logs)) /\ DOMAIN logs = 1..Len(logs)
    BY RowTypes, FS_Interval
  <2>2. Used = {logs[i].type : i \in 1..Len(logs)}
    BY <2>1 DEF Used
  <2>3. [i \in 1..Len(logs) |-> logs[i].type] \in Surjection(1..Len(logs), Used)
    BY <2>2 DEF Surjection
  <2> QED
    BY <2>1, <2>3, FS_Surjection
<1>2. t \in Injection(U, Used)
  <2>1. \A j, k \in 1..Len(Types) : Types[j] = Types[k] => j = k
    BY RowTypes, TypesAssumption
  <2> QED
    BY <2>1 DEF Injection, IsInjective
<1> HIDE DEF t, U
<1>3. IsFiniteSet(U) /\ Cardinality(U) <= Cardinality(Used)
  BY <1>1, <1>2, FS_Injection
<1>4. Cardinality(U) \in Nat /\ Cardinality(Used) \in Nat
  BY <1>1, <1>3, FS_CardinalityType
<1> QED
  BY <1>3, <1>4 DEF U

LEMMA RatedInvBounds ==
  ASSUME RatedInv
  PROVE  BillErrorBounded
<1>1. PICK m \in Nat : m = Len(Types) /\ DOMAIN Types = 1..m
  BY RowTypes
<1> DEFINE x == [k \in 1..m |-> Aggregation(logs, Types[k]) * rates[Types[k]]]
           c == [k \in 1..m |-> Cost(logs, rates, Types[k])]
           f == [k \in 1..m |-> c[k] * Scale]
           U == {k \in 1..m : Types[k] \in Used}
<1>2. \A k \in 1..m : x[k] \in Nat /\ c[k] = RoundHalfEven(x[k])
  BY <1>1, ExactShare DEF Cost
<1>3. Exact = SumUpTo(x, m)
  BY <1>1, ExactIsSumOfShares
<1>4. RatedTotal(logs, rates) = SumUpTo(c, m)
  BY <1>1 DEF RatedTotal
<1>5. \A k \in 1..m : k \notin U => x[k] = 0
  <2>1. SUFFICES ASSUME NEW k \in 1..m, Types[k] \notin Used PROVE x[k] = 0
    OBVIOUS
  <2>2. Aggregation(logs, Types[k]) = 0 /\ rates[Types[k]] \in Nat
    BY <1>1, <2>1, UnusedAreFree, RowTypes
  <2>3. 0 * rates[Types[k]] = 0
    BY <2>2
  <2> QED
    BY <2>2, <2>3
<1>6. U \subseteq 1..m
  OBVIOUS
<1>7. /\ Cardinality(U) \in Nat /\ Cardinality(Used) \in Nat
      /\ Cardinality(U) <= Cardinality(Used)
  BY <1>1, UsedPlaces
<1>8. /\ x \in [1..m -> Int] /\ DOMAIN c = 1..m
      /\ \A k \in 1..m : f[k] = c[k] * Scale
      /\ f = [k \in 1..m |-> c[k] * Scale] /\ c = [k \in 1..m |-> c[k]]
  BY <1>2
<1> HIDE DEF x, c, U
<1>9. \A k \in 1..m : c[k] \in Nat
  BY <1>2, RoundingError
<1>10. c \in [1..m -> Int] /\ f \in [1..m -> Int]
  BY <1>8, <1>9, ScaleAssumption
<1> HIDE DEF f
<1>11. SumUpTo(f, m) = SumUpTo(c, m) * Scale
  <2>1. PICK w \in Int : w = Scale
    BY ScaleAssumption
  <2>2. \A k \in 1..m : f[k] = c[k] * w
    BY <1>8, <2>1
  <2>3. SumUpTo(f, m) = SumUpTo(c, m) * w
    BY <1>10, <2>2, SumTimes
  <2> QED
    BY <2>1, <2>3
<1>12. \A k \in 1..m : 2 * (f[k] - x[k]) <= Scale /\ 2 * (x[k] - f[k]) <= Scale
  <2>1. SUFFICES ASSUME NEW k \in 1..m
                 PROVE  2 * (f[k] - x[k]) <= Scale /\ 2 * (x[k] - f[k]) <= Scale
    OBVIOUS
  <2>2. PICK y \in Nat, r \in Nat : y = x[k] /\ r = c[k]
    BY <1>2, <1>9
  <2>3. 2 * (Scale * r - y) <= Scale /\ 2 * (y - Scale * r) <= Scale
    BY <1>2, <2>2, RoundingError
  <2>4. f[k] = Scale * r
    BY <1>8, <2>2, ScaleAssumption
  <2> QED
    BY <2>2, <2>3, <2>4
<1>13. \A k \in 1..m : k \notin U => f[k] = x[k]
  <2>1. SUFFICES ASSUME NEW k \in 1..m, k \notin U PROVE f[k] = x[k]
    OBVIOUS
  <2>2. c[k] = 0 /\ x[k] = 0
    BY <1>2, <1>5, <2>1, RoundZero
  <2> QED
    BY <1>8, <2>2, ScaleAssumption
<1>14. /\ 2 * (SumUpTo(f, m) - SumUpTo(x, m)) <= Scale * Cardinality(U)
       /\ 2 * (SumUpTo(x, m) - SumUpTo(f, m)) <= Scale * Cardinality(U)
  BY <1>6, <1>8, <1>10, <1>12, <1>13, ScaleAssumption, SumDistance
<1>15. PICK p \in Int, q \in Int : p = Scale * Cardinality(U) /\ q = Scale * Cardinality(Used)
  BY <1>7, ScaleAssumption
<1>16. p <= q
  BY <1>7, <1>15, ScaleAssumption
<1>17. PICK total \in Int, exact \in Int :
         total = Scale * RatedTotal(logs, rates) /\ exact = Exact
  <2>1. SumUpTo(c, m) \in Int /\ SumUpTo(x, m) \in Int
    BY <1>8, <1>10, SumType
  <2> QED
    BY <1>3, <1>4, <2>1, ScaleAssumption
<1>18. total = SumUpTo(f, m)
  <2>1. SumUpTo(c, m) \in Int
    BY <1>10, SumType
  <2> QED
    BY <1>4, <1>11, <1>17, <2>1, ScaleAssumption
<1>19. 2 * (total - exact) <= p /\ 2 * (exact - total) <= p
  BY <1>3, <1>14, <1>15, <1>17, <1>18
<1>20. 2 * Distance(total, exact) <= q
  BY <1>16, <1>19 DEF Distance
<1> QED
  BY <1>15, <1>17, <1>20 DEF BillErrorBounded

\* However many CDRs a bill has, it is off by at most half a cent for each service it
\* has CDRs of.
THEOREM BillsAreNearlyExact == Spec => []BillErrorBounded
<1>1. RatedInv /\ [Next]_<<logs, rates>> => RatedInv'
  BY RatedInvNext
<1>2. RatedInv => BillErrorBounded
  BY RatedInvBounds
<1> QED
  BY <1>1, <1>2, RatedInvInit, PTL DEF Spec
=============================================================================
