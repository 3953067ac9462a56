----------------------------- MODULE PagedProofs -----------------------------
(***************************************************************************)
(* Theorems about the paged readers, for any number of rows, any page      *)
(* sizes and any number of changes between the pages.                      *)
(*                                                                         *)
(* A row has a place: the number of matching rows newer than it.  A page   *)
(* is a range of places, so what a client misses or is given twice are the *)
(* rows whose place crosses the border between the pages given and those   *)
(* to come.  Insertions only push places up, departures only down.         *)
(***************************************************************************)
EXTENDS PagedReads, FiniteSetTheorems, SequenceTheorems, TLAPS

Newer(i) == {j \in matching : created[j] > created[i]}

\* How many places the pages given so far have covered
Given == IF pc \in {"balance", "done"} THEN Offset(page + 1, limit) ELSE Offset(page, limit)

TableInv ==
  /\ TypeOK
  /\ limit \in Limits /\ reader \in {"bills", "ledger"}
  /\ seen \in Seq(Ids)
  /\ \A i \in matching : created[i] # 0
  /\ pc = "idle" => seen = <<>> /\ total = 0 /\ ~inserted /\ ~left /\ ~raced
  /\ raced => inserted

-----------------------------------------------------------------------------
(***************************************************************************)
(* Operators.                                                              *)
(***************************************************************************)

LEMMA IdsFinite ==
  ASSUME NEW S, S \subseteq Ids
  PROVE  IsFiniteSet(S) /\ Cardinality(S) \in 0..MaxRows
<1>1. IsFiniteSet(Ids) /\ Cardinality(Ids) = MaxRows /\ MaxRows \in Nat
  BY BoundAssumption, FS_Interval DEF Ids
<1> QED
  BY <1>1, FS_Subset, FS_CardinalityType

LEMMA FewerIds ==
  ASSUME NEW S, NEW T, T \subseteq Ids, S \subseteq T
  PROVE  Cardinality(S) <= Cardinality(T)
BY IdsFinite, FS_Subset

LEMMA OffsetType ==
  ASSUME NEW p \in Nat \ {0}, NEW n \in Nat
  PROVE  /\ Offset(p, n) \in Nat
         /\ Offset(p + 1, n) = Offset(p, n) + n
         /\ Offset(1, n) = 0
BY DEF Offset

\* An order of S lists each of its rows once.
LEMMA OrderLists ==
  ASSUME NEW S, S \subseteq Ids, NEW q \in Orders(S)
  PROVE  /\ q \in [1..Cardinality(S) -> S]
         /\ \A i, j \in 1..Cardinality(S) : i # j => q[i] # q[j]
         /\ \A i, j \in 1..Cardinality(S) : i < j => created[q[i]] >= created[q[j]]
         /\ \A x \in S : \E k \in 1..Cardinality(S) : q[k] = x
<1> DEFINE n == Cardinality(S)
<1>1. /\ q \in [1..n -> S]
      /\ \A i, j \in 1..n : i # j => q[i] # q[j]
      /\ \A i, j \in 1..n : i < j => created[q[i]] >= created[q[j]]
  BY DEF Orders, SetToSeqs
<1>2. IsFiniteSet(S) /\ n \in Nat
  BY IdsFinite
<1>3. q \in Injection(1..n, S)
  BY <1>1 DEF Injection, IsInjective
<1>4. Cardinality(1..n) = n
  BY <1>2, FS_Interval
<1> HIDE DEF n
<1>5. q \in Surjection(1..n, S)
  BY <1>2, <1>3, <1>4, FS_Injection DEF n
<1>6. \A x \in S : \E k \in 1..n : q[k] = x
  BY <1>5, <1>1 DEF Surjection
<1> QED
  BY <1>1, <1>6 DEF n

\* Without ties the order of a statement is the order of places.
LEMMA OrderIsByPlace ==
  ASSUME TableInv, NoTies, NEW q \in Orders(matching), NEW k \in 1..Cardinality(matching)
  PROVE  Cardinality(Newer(q[k])) = k - 1
<1> DEFINE n == Cardinality(matching)
           g == [i \in 1..(k - 1) |-> q[i]]
<1>0. matching \subseteq Ids /\ n \in Nat
  BY IdsFinite DEF TableInv, TypeOK
<1>1. /\ q \in [1..n -> matching]
      /\ \A i, j \in 1..n : i # j => q[i] # q[j]
      /\ \A i, j \in 1..n : i < j => created[q[i]] >= created[q[j]]
      /\ \A x \in matching : \E m \in 1..n : q[m] = x
  BY <1>0, OrderLists
<1>2. \A x \in matching : x \in Ids /\ created[x] \in Nat /\ created[x] # 0
  BY <1>0, BoundAssumption DEF TableInv, TypeOK
<1> HIDE DEF n
<1>3. ASSUME NEW i \in 1..n, i < k PROVE q[i] \in Newer(q[k])
  <2>1. created[q[i]] >= created[q[k]] /\ q[i] # q[k] /\ q[i] \in matching /\ q[k] \in matching
    BY <1>0, <1>1, <1>3 DEF n
  <2>2. created[q[i]] # created[q[k]]
    BY <1>2, <2>1 DEF NoTies
  <2> QED
    BY <1>2, <2>1, <2>2 DEF Newer
<1>4. ASSUME NEW x \in Newer(q[k]) PROVE \E i \in 1..(k - 1) : q[i] = x
  <2>1. x \in matching /\ created[x] > created[q[k]] /\ q[k] \in matching
    BY <1>1 DEF Newer, n
  <2>2. PICK m \in 1..n : q[m] = x
    BY <1>1, <2>1
  <2>3. ~(k < m) /\ k # m
    BY <1>1, <1>2, <2>1, <2>2 DEF n
  <2> QED
    BY <1>0, <2>2, <2>3 DEF n
<1>5. g \in Injection(1..(k - 1), Newer(q[k])) /\ g \in Surjection(1..(k - 1), Newer(q[k]))
  <2>1. k \in Nat /\ \A i \in 1..(k - 1) : i \in 1..n /\ i < k
    BY <1>0 DEF n
  <2>2. g \in [1..(k - 1) -> Newer(q[k])]
    BY <1>3, <2>1
  <2>3. \A i, j \in 1..(k - 1) : g[i] = g[j] => i = j
    BY <1>1, <2>1
  <2>4. \A x \in Newer(q[k]) : \E i \in 1..(k - 1) : g[i] = x
    BY <1>4
  <2> QED
    BY <2>2, <2>3, <2>4 DEF Injection, IsInjective, Surjection
<1>6. Cardinality(1..(k - 1)) = k - 1 /\ IsFiniteSet(1..(k - 1))
  <2>1. 1 \in Int /\ k - 1 \in Nat
    BY <1>0 DEF n
  <2>2. /\ IsFiniteSet(1..(k - 1))
        /\ Cardinality(1..(k - 1)) = IF 1 > k - 1 THEN 0 ELSE (k - 1) - 1 + 1
    BY <2>1, FS_Interval
  <2> QED
    BY <2>1, <2>2
<1>7. Cardinality(Newer(q[k])) = Cardinality(1..(k - 1))
  <2> HIDE DEF g
  <2> QED
    BY <1>5, <1>6, FS_Surjection
<1> QED
  BY <1>6, <1>7

\* A page is the range of places after the offset.
LEMMA SliceIs ==
  ASSUME NEW S, NEW q \in Seq(S), NEW n \in Nat \ {0}, NEW k \in Nat
  PROVE  /\ Slice(q, n, k) \in Seq(S)
         /\ Len(Slice(q, n, k)) =
              IF k + n <= Len(q) THEN n ELSE IF k <= Len(q) THEN Len(q) - k ELSE 0
         /\ \A i \in 1..Len(Slice(q, n, k)) :
              k + i \in 1..Len(q) /\ Slice(q, n, k)[i] = q[k + i]
<1> DEFINE last == IF k + n < Len(q) THEN k + n ELSE Len(q)
<1>1. Len(q) \in Nat /\ \A i \in 1..Len(q) : q[i] \in S
  BY LenProperties, ElementOfSeq
<1>2. Slice(q, n, k) = SubSeq(q, k + 1, last)
  BY DEF Slice
<1>3. last \in Int /\ last <= Len(q) /\ \A i \in (k + 1)..last : q[i] \in S
  BY <1>1
<1> HIDE DEF last
<1>4. /\ SubSeq(q, k + 1, last) \in Seq(S)
      /\ Len(SubSeq(q, k + 1, last)) = IF k + 1 <= last THEN last - (k + 1) + 1 ELSE 0
      /\ \A i \in 1..(last - (k + 1) + 1) : SubSeq(q, k + 1, last)[i] = q[(k + 1) + i - 1]
  BY <1>3, SubSeqProperties
<1>5. Len(Slice(q, n, k)) =
        IF k + n <= Len(q) THEN n ELSE IF k <= Len(q) THEN Len(q) - k ELSE 0
  BY <1>1, <1>2, <1>4 DEF last
<1>6. ASSUME NEW i \in 1..Len(Slice(q, n, k))
      PROVE  k + i \in 1..Len(q) /\ Slice(q, n, k)[i] = q[k + i]
  <2>1. i \in 1..(last - (k + 1) + 1) /\ (k + 1) + i - 1 = k + i
    BY <1>1, <1>2, <1>3, <1>4
  <2> QED
    BY <1>1, <1>2, <1>3, <1>4, <2>1
<1> QED
  BY <1>2, <1>4, <1>5, <1>6

\* An order is a sequence of the rows.
LEMMA OrderIsSeq ==
  ASSUME NEW S, S \subseteq Ids, NEW q \in Orders(S)
  PROVE  q \in Seq(S) /\ Len(q) = Cardinality(S)
<1>1. PICK m \in Nat : m = Cardinality(S)
  BY IdsFinite
<1>2. q \in [1..m -> S]
  BY <1>1, OrderLists
<1> QED
  BY <1>1, <1>2, SeqDef

\* A page has at most as many rows as were asked for.
LEMMA PageFits ==
  ASSUME NEW S, S \subseteq Ids, NEW q \in Orders(S), NEW n \in Nat \ {0}, NEW k \in Nat
  PROVE  Slice(q, n, k) \in Seq(S) /\ Len(Slice(q, n, k)) \in Nat /\ Len(Slice(q, n, k)) <= n
<1>1. q \in Seq(S) /\ Len(q) \in Nat
  BY OrderIsSeq, LenProperties
<1> QED
  BY <1>1, SliceIs

-----------------------------------------------------------------------------
(***************************************************************************)
(* Types.                                                                  *)
(***************************************************************************)

LEMMA TableInvInit == Init => TableInv
BY BoundAssumption, EmptySeq DEF Init, TableInv, TypeOK, Ids

\* A page appends rows of the table.
LEMMA PageAppends ==
  ASSUME TableInv, Page
  PROVE  \E q \in Orders(matching) :
           LET rows == Slice(q, limit, Offset(page, limit))
           IN  /\ rows \in Seq(matching) /\ rows \in Seq(Ids)
               /\ Len(rows) \in Nat /\ Len(rows) <= limit
               /\ seen' = seen \o rows /\ seen' \in Seq(Ids)
               /\ ToSet(seen') = ToSet(seen) \cup ToSet(rows)
               /\ IF reader = "ledger" THEN pc' = "balance" /\ UNCHANGED page
                                       ELSE Follow(rows)
<1>1. PICK q \in Orders(matching) :
        /\ seen' = seen \o Slice(q, limit, Offset(page, limit))
        /\ IF reader = "ledger" THEN pc' = "balance" /\ UNCHANGED page
                                ELSE Follow(Slice(q, limit, Offset(page, limit)))
  BY DEF Page
<1> DEFINE rows == Slice(q, limit, Offset(page, limit))
<1>2. limit \in Nat \ {0} /\ Offset(page, limit) \in Nat /\ matching \subseteq Ids
  BY LimitAssumption, OffsetType DEF TableInv, TypeOK
<1>4. rows \in Seq(matching) /\ Len(rows) \in Nat /\ Len(rows) <= limit
  BY <1>1, <1>2, PageFits
<1> HIDE DEF rows
<1>5. rows \in Seq(Ids) /\ seen \in Seq(Ids)
  BY <1>2, <1>4, SeqMonotonic DEF TableInv
<1>6. seen \o rows \in Seq(Ids) /\ ToSet(seen \o rows) = ToSet(seen) \cup ToSet(rows)
  <2>1. seen \o rows \in Seq(Ids)
    BY <1>5, ConcatProperties
  <2>2. Range(seen \o rows) = Range(seen) \cup Range(rows)
    BY <1>5, RangeConcatenation
  <2> QED
    BY <2>1, <2>2 DEF ToSet, Range
<1> QED
  BY <1>1, <1>4, <1>5, <1>6 DEF rows

\* The pages given cover as many places as before, and after a page so many more.
LEMMA PlacesGiven ==
  ASSUME TableInv, Next
  PROVE  /\ Given \in Nat /\ limit \in Nat \ {0} /\ Offset(page, limit) \in Nat
         /\ Start => Given' = 0
         /\ Page => Given' = Given + limit /\ Given = Offset(page, limit)
         /\ ~Start /\ ~Page => Given' = Given
<1>1. /\ page \in Nat \ {0} /\ limit \in Nat \ {0}
      /\ page + 1 \in Nat \ {0}
  BY LimitAssumption DEF TableInv, TypeOK
<1>2. /\ Offset(page, limit) \in Nat /\ Offset(page + 1, limit) = Offset(page, limit) + limit
      /\ Offset(1, limit) = 0
  BY <1>1, OffsetType
<1>3. Given \in Nat
  BY <1>1, <1>2 DEF Given
<1>4. limit' = limit
  BY DEF Next, Insert, Leave, Start, Count, Page, Balance, table, history
<1>5. CASE Start
  BY <1>1, <1>2, <1>3, <1>4, <1>5 DEF Start, Given, Page
<1>6. CASE Page
  <2>1. \/ pc' = "count" /\ page' = page + 1
        \/ pc' \in {"done", "balance"} /\ page' = page
    BY <1>6 DEF Page, Follow
  <2> QED
    BY <1>1, <1>2, <1>3, <1>4, <1>6, <2>1 DEF Given, Page, Start
<1>7. CASE Balance
  <2>1. \/ pc' = "count" /\ page' = page + 1
        \/ pc' = "done" /\ page' = page
    BY <1>7 DEF Balance, Follow
  <2> QED
    BY <1>1, <1>2, <1>3, <1>4, <1>7, <2>1 DEF Given, Page, Start, Balance
<1>8. CASE Count
  BY <1>1, <1>2, <1>3, <1>4, <1>8 DEF Given, Page, Start, Count
<1>9. CASE Insert \/ \E i \in Ids : Leave(i)
  <2>1. pc' = pc /\ page' = page
    BY <1>9 DEF Insert, Leave
  <2> QED
    BY <1>1, <1>2, <1>3, <1>4, <2>1 DEF Given, Page, Start, Follow
<1> QED
  BY <1>5, <1>6, <1>7, <1>8, <1>9 DEF Next

LEMMA TableInvNext ==
  ASSUME TableInv, [Next]_vars
  PROVE  TableInv'
<1>0. /\ created \in [Ids -> 0..MaxSecond]
      /\ matching \subseteq Ids /\ page \in Nat \ {0}
  BY DEF TableInv, TypeOK
<1>1. CASE Insert
  <2>1. PICK i \in Ids, at \in 1..MaxSecond :
               /\ created' = [created EXCEPT ![i] = at]
               /\ matching' = matching \cup {i}
    BY <1>1 DEF Insert
  <2>2. /\ created' \in [Ids -> 0..MaxSecond] /\ matching' \subseteq Ids
        /\ \A j \in matching' : created'[j] # 0
    BY <1>0, <2>1, BoundAssumption DEF TableInv
  <2>3. /\ inserted' = (pc # "idle") /\ raced' = (raced \/ pc = "page")
        /\ UNCHANGED <<reader, limit, page, total, pc, seen, summed, base, left>>
    BY <1>1 DEF Insert
  <2>4. TypeOK'
    BY <2>2, <2>3 DEF TableInv, TypeOK
  <2> QED
    BY <2>2, <2>3, <2>4 DEF TableInv
<1>2. ASSUME NEW i \in Ids, Leave(i)
      PROVE  TableInv'
  <2>1. /\ matching' = matching \ {i} /\ left' = (pc # "idle")
        /\ UNCHANGED <<created, reader, limit, page, total, pc, seen, summed, base,
                      inserted, raced>>
    BY <1>2 DEF Leave
  <2> QED
    BY <2>1 DEF TableInv, TypeOK
<1>4. CASE Start
  BY <1>4 DEF Start, table, TableInv, TypeOK
<1>5. CASE Count
  <2>1. Cardinality(matching) \in 0..MaxRows
    BY <1>0, IdsFinite
  <2> QED
    BY <1>5, <2>1 DEF Count, table, history, TableInv, TypeOK
<1>6. CASE Page
  <2>1. seen' \in Seq(Ids)
    BY <1>6, PageAppends
  <2>2. \A i \in DOMAIN seen' : seen'[i] \in Ids
    BY <2>1, ElementOfSeq, LenProperties
  <2>3. pc' \in {"balance", "count", "done"} /\ page' \in Nat \ {0}
    BY <1>0, <1>6 DEF Page, Follow
  <2> QED
    BY <1>6, <2>1, <2>2, <2>3 DEF Page, table, history, TableInv, TypeOK
<1>7. CASE Balance
  <2>1. pc' \in {"count", "done"} /\ page' \in Nat \ {0}
    BY <1>0, <1>7 DEF Balance, Follow
  <2> QED
    BY <1>7, <2>1 DEF Balance, table, history, TableInv, TypeOK
<1>8. CASE UNCHANGED vars
  BY <1>8 DEF vars, table, history, TableInv, TypeOK
<1> QED
  BY <1>1, <1>2, <1>4, <1>5, <1>6, <1>7, <1>8 DEF Next

\* Every reachable state is well typed.
THEOREM PagedTypeCorrect == Spec => []TypeOK
<1>1. TableInv /\ [Next]_vars => TableInv'
  BY TableInvNext
<1>2. TableInv => TypeOK
  BY DEF TableInv
<1> QED
  BY <1>1, <1>2, TableInvInit, PTL DEF Spec

-----------------------------------------------------------------------------
(***************************************************************************)
(* getLedger's balance.                                                    *)
(***************************************************************************)

\* Entries are only added, so what was counted or shown is still in the ledger when
\* the balance is summed.
BalanceInv ==
  reader = "ledger" =>
    /\ ToSet(seen) \subseteq matching
    /\ total <= Cardinality(matching)
    /\ pc \in {"idle", "count", "done"} =>
         ToSet(seen) \subseteq summed /\ total <= Cardinality(summed)

LEMMA BalanceInvInit == Init => BalanceInv
<1>1. ToSet(<<>>) = {} /\ Cardinality({}) = 0
  BY FS_EmptySet DEF ToSet
<1> QED
  BY <1>1 DEF Init, BalanceInv

LEMMA BalanceInvNext ==
  ASSUME TableInv, BalanceInv, [Next]_vars
  PROVE  BalanceInv'
<1>0. TableInv' /\ matching \subseteq Ids /\ matching' \subseteq Ids
  BY TableInvNext DEF TableInv, TypeOK
<1>1. CASE Insert
  <2>1. matching \subseteq matching' /\ UNCHANGED <<reader, pc, seen, summed, total>>
    BY <1>1 DEF Insert
  <2>2. Cardinality(matching) <= Cardinality(matching')
    BY <1>0, <2>1, FewerIds
  <2>3. /\ total \in Nat /\ Cardinality(matching) \in Nat /\ Cardinality(matching') \in Nat
    BY <1>0, IdsFinite, BoundAssumption DEF TableInv, TypeOK
  <2> QED
    BY <2>1, <2>2, <2>3 DEF BalanceInv
<1>2. CASE \E i \in Ids : Leave(i)
  BY <1>2 DEF Leave, BalanceInv
<1>3. CASE Start \/ UNCHANGED vars
  BY <1>3 DEF Start, vars, table, history, BalanceInv
<1>4. CASE Count
  <2>1. Cardinality(matching) \in Nat
    BY <1>0, IdsFinite
  <2> QED
    BY <1>4, <2>1 DEF Count, table, BalanceInv
<1>5. CASE Page
  <2>1. PICK rows \in Seq(matching) :
          /\ ToSet(seen') = ToSet(seen) \cup ToSet(rows)
          /\ reader = "ledger" => pc' = "balance"
    BY <1>5, PageAppends
  <2>2. ToSet(rows) \subseteq matching
    BY RangeOfSeq DEF ToSet, Range
  <2> QED
    BY <1>5, <2>1, <2>2 DEF Page, table, BalanceInv
<1>6. CASE Balance
  BY <1>6 DEF Balance, Follow, table, BalanceInv
<1> QED
  BY <1>1, <1>2, <1>3, <1>4, <1>5, <1>6 DEF Next

\* The balance getLedger answers accounts for every entry it has counted or shown,
\* although the three come from three snapshots.
THEOREM BalanceIsNeverOlder == Spec => []BalanceCoversEntries
<1>1. TableInv /\ BalanceInv /\ [Next]_vars => TableInv' /\ BalanceInv'
  BY TableInvNext, BalanceInvNext
<1>2. BalanceInv => BalanceCoversEntries
  BY DEF BalanceInv, BalanceCoversEntries
<1> QED
  BY <1>1, <1>2, TableInvInit, BalanceInvInit, PTL DEF Spec

-----------------------------------------------------------------------------
(***************************************************************************)
(* Places.                                                                 *)
(***************************************************************************)

LEMMA PlaceType ==
  ASSUME TableInv, NEW i
  PROVE  Newer(i) \subseteq Ids /\ Cardinality(Newer(i)) \in Nat
<1>1. Newer(i) \subseteq Ids
  BY DEF Newer, TableInv, TypeOK
<1> QED
  BY <1>1, IdsFinite

\* Departures only lower places.
LEMMA PlacesFall ==
  ASSUME TableInv, NEW i, created' = created, matching' \subseteq matching
  PROVE  Cardinality(Newer(i)') <= Cardinality(Newer(i))
<1>1. Newer(i)' \subseteq Newer(i) /\ Newer(i) \subseteq Ids
  BY PlaceType DEF Newer
<1> QED
  BY <1>1, FewerIds

\* Insertions only raise places.
LEMMA PlacesRise ==
  ASSUME TableInv, TableInv', Insert, NEW i \in matching
  PROVE  Cardinality(Newer(i)) <= Cardinality(Newer(i)')
<1>1. PICK x \in Ids, at \in 1..MaxSecond :
             /\ created[x] = 0
             /\ created' = [created EXCEPT ![x] = at]
             /\ matching' = matching \cup {x}
  BY DEF Insert
<1>2. x \notin matching /\ matching \subseteq Ids /\ created \in [Ids -> 0..MaxSecond]
  BY <1>1 DEF TableInv, TypeOK
<1>3. \A j \in matching : created'[j] = created[j]
  BY <1>1, <1>2
<1>4. Newer(i) \subseteq Newer(i)'
  BY <1>1, <1>3 DEF Newer
<1>5. Newer(i)' \subseteq Ids
  BY <1>1, <1>2 DEF Newer
<1> QED
  BY <1>4, <1>5, FewerIds

\* A lower place is a newer row.
LEMMA PlaceTellsAge ==
  ASSUME TableInv, NEW x \in Ids, NEW y \in Ids,
         Cardinality(Newer(x)) < Cardinality(Newer(y))
  PROVE  created[x] > created[y]
<1>1. created[x] \in Nat /\ created[y] \in Nat /\ \A j \in matching : created[j] \in Nat
  BY BoundAssumption DEF TableInv, TypeOK
<1>2. SUFFICES ASSUME created[x] <= created[y] PROVE FALSE
  BY <1>1
<1>3. Newer(y) \subseteq Newer(x)
  BY <1>1, <1>2 DEF Newer
<1>4. Cardinality(Newer(y)) <= Cardinality(Newer(x))
  BY <1>3, PlaceType, FewerIds
<1> QED
  BY <1>4, PlaceType

\* Ties do not go away.
LEMMA TiesRemain ==
  ASSUME TableInv, [Next]_vars, NoTies'
  PROVE  NoTies
<1>1. CASE Insert
  <2>1. PICK x \in Ids, at \in 1..MaxSecond :
          created[x] = 0 /\ created' = [created EXCEPT ![x] = at]
    BY <1>1 DEF Insert
  <2> QED
    BY <2>1 DEF NoTies, TableInv, TypeOK
<1>2. CASE UNCHANGED created
  BY <1>2 DEF NoTies
<1> QED
  BY <1>1, <1>2 DEF Next, Leave, Start, Count, Page, Balance, vars, table

\* The rows of a page are those in the places after the offset.
LEMMA SliceIsPlaces ==
  ASSUME TableInv, NoTies, NEW q \in Orders(matching), NEW n \in Nat \ {0}, NEW k \in Nat
  PROVE  /\ Len(Slice(q, n, k)) <= n
         /\ \A i \in 1..Len(Slice(q, n, k)) :
              /\ Slice(q, n, k)[i] \in matching
              /\ Cardinality(Newer(Slice(q, n, k)[i])) = k + i - 1
         /\ \A x \in matching :
              k <= Cardinality(Newer(x)) /\ Cardinality(Newer(x)) < k + n =>
                \E i \in 1..Len(Slice(q, n, k)) : Slice(q, n, k)[i] = x
<1>1. matching \subseteq Ids /\ Cardinality(matching) \in Nat
  BY IdsFinite DEF TableInv, TypeOK
<1>2. PICK m \in Nat : m = Cardinality(matching)
  BY <1>1
<1>3. q \in [1..m -> matching] /\ \A x \in matching : \E j \in 1..m : q[j] = x
  BY <1>1, <1>2, OrderLists
<1>4. \A j \in 1..m : Cardinality(Newer(q[j])) = j - 1
  BY <1>2, OrderIsByPlace
<1>5. PICK rows : rows = Slice(q, n, k)
  OBVIOUS
<1>6. /\ Len(rows) = IF k + n <= m THEN n ELSE IF k <= m THEN m - k ELSE 0
      /\ \A i \in 1..Len(rows) : k + i \in 1..m /\ rows[i] = q[k + i]
  <2>1. q \in Seq(matching) /\ Len(q) = m
    BY <1>1, <1>2, OrderIsSeq
  <2>2. /\ Slice(q, n, k) \in Seq(matching)
        /\ Len(Slice(q, n, k)) =
             IF k + n <= Len(q) THEN n ELSE IF k <= Len(q) THEN Len(q) - k ELSE 0
        /\ \A i \in 1..Len(Slice(q, n, k)) :
             k + i \in 1..Len(q) /\ Slice(q, n, k)[i] = q[k + i]
    BY <2>1, SliceIs
  <2> QED
    BY <1>5, <2>1, <2>2
<1>7. ASSUME NEW i \in 1..Len(rows)
      PROVE  rows[i] \in matching /\ Cardinality(Newer(rows[i])) = k + i - 1
  <2>1. PICK j \in 1..m : j = k + i /\ rows[i] = q[j]
    BY <1>6
  <2> QED
    BY <1>3, <1>4, <2>1
<1>8. ASSUME NEW x \in matching, k <= Cardinality(Newer(x)), Cardinality(Newer(x)) < k + n
      PROVE  \E i \in 1..Len(rows) : rows[i] = x
  <2>1. PICK j \in 1..m : q[j] = x
    BY <1>3
  <2>2. Cardinality(Newer(x)) = j - 1
    BY <1>4, <2>1
  <2>3. j - k \in 1..Len(rows) /\ k + (j - k) = j
    BY <1>2, <1>6, <1>8, <2>2
  <2> QED
    BY <1>6, <2>1, <2>3
<1> QED
  BY <1>2, <1>5, <1>6, <1>7, <1>8

\* A page gives the rows in the next places, in the order of places.
LEMMA PageIsPlaces ==
  ASSUME TableInv, NoTies, Page
  PROVE  \E rows \in Seq(Ids) :
           /\ seen' = seen \o rows
           /\ Len(rows) <= limit
           /\ reader = "ledger" => pc' = "balance"
           /\ reader = "bills" => Follow(rows)
           /\ \A i \in 1..Len(rows) :
                rows[i] \in matching /\ Cardinality(Newer(rows[i])) = Given + i - 1
           /\ \A x \in matching :
                Given <= Cardinality(Newer(x)) /\ Cardinality(Newer(x)) < Given + limit =>
                  x \in ToSet(rows)
<1>1. PICK q \in Orders(matching) :
        LET rows == Slice(q, limit, Offset(page, limit))
        IN  /\ rows \in Seq(Ids) /\ seen' = seen \o rows
            /\ IF reader = "ledger" THEN pc' = "balance" /\ UNCHANGED page
                                    ELSE Follow(rows)
  BY PageAppends
<1>2. Given \in Nat /\ limit \in Nat \ {0} /\ Given = Offset(page, limit)
  BY PlacesGiven DEF Next
<1>3. PICK rows : rows = Slice(q, limit, Given)
  OBVIOUS
<1>4. /\ rows \in Seq(Ids) /\ seen' = seen \o rows
      /\ reader = "ledger" => pc' = "balance"
      /\ reader = "bills" => Follow(rows)
  BY <1>1, <1>2, <1>3
<1>5. /\ Len(rows) <= limit
      /\ \A i \in 1..Len(rows) :
           rows[i] \in matching /\ Cardinality(Newer(rows[i])) = Given + i - 1
      /\ \A x \in matching :
           Given <= Cardinality(Newer(x)) /\ Cardinality(Newer(x)) < Given + limit =>
             \E i \in 1..Len(rows) : rows[i] = x
  BY <1>2, <1>3, SliceIsPlaces
<1>6. DOMAIN rows = 1..Len(rows)
  BY <1>4, LenProperties
<1>7. \A x : (\E i \in 1..Len(rows) : rows[i] = x) => x \in ToSet(rows)
  BY <1>6 DEF ToSet
<1> QED
  BY <1>4, <1>5, <1>7
\* The place of a matching row is below their number.
LEMMA PlaceBelowCount ==
  ASSUME TableInv, NEW x \in matching
  PROVE  Cardinality(Newer(x)) < Cardinality(matching)
<1>1. matching \subseteq Ids /\ created[x] \in Nat
  BY BoundAssumption DEF TableInv, TypeOK
<1>2. Newer(x) \subseteq matching \ {x}
  BY <1>1 DEF Newer
<1>3. IsFiniteSet(matching) /\ Cardinality(matching) \in Nat
  BY <1>1, IdsFinite
<1>4. Cardinality(matching \ {x}) = Cardinality(matching) - 1
  BY <1>3, FS_RemoveElement
<1>5. Cardinality(Newer(x)) <= Cardinality(matching \ {x})
  BY <1>1, <1>2, FewerIds
<1> QED
  BY <1>3, <1>4, <1>5, PlaceType

\* Steps that leave the table alone leave places alone.
LEMMA PlacesStay ==
  ASSUME UNCHANGED <<created, matching>>
  PROVE  \A x : Newer(x)' = Newer(x)
BY DEF Newer

-----------------------------------------------------------------------------
(***************************************************************************)
(* Departures.                                                             *)
(***************************************************************************)

\* What the client was given is sorted, and its places are covered by the pages given:
\* a row of a later page is older than all of it.
DescInv ==
  NoTies /\ ~inserted =>
    /\ \A i, j \in DOMAIN seen : i < j => created[seen[i]] > created[seen[j]]
    /\ \A x \in ToSet(seen) : Cardinality(Newer(x)) < Given

LEMMA DescInvInit == Init => DescInv
BY DEF Init, DescInv, ToSet

\* The rows of a page go on where those before it ended.
LEMMA PageGoesOn ==
  ASSUME TableInv, DescInv, NoTies, ~inserted, Page
  PROVE  /\ \A i, j \in DOMAIN seen' : i < j => created[seen'[i]] > created[seen'[j]]
         /\ \A x \in ToSet(seen') : Cardinality(Newer(x)) < Given + limit
<1>1. PICK rows \in Seq(Ids) :
        /\ seen' = seen \o rows
        /\ Len(rows) <= limit
        /\ \A i \in 1..Len(rows) :
             rows[i] \in matching /\ Cardinality(Newer(rows[i])) = Given + i - 1
  BY PageIsPlaces
<1>2. /\ seen \in Seq(Ids) /\ Given \in Nat /\ limit \in Nat
      /\ Len(seen) \in Nat /\ DOMAIN seen = 1..Len(seen)
      /\ Len(rows) \in Nat /\ DOMAIN rows = 1..Len(rows)
  BY PlacesGiven, LenProperties DEF TableInv, Next
<1>3. /\ DOMAIN seen' = 1..(Len(seen) + Len(rows))
      /\ \A i \in 1..Len(seen) : seen'[i] = seen[i]
      /\ \A i \in 1..(Len(seen) + Len(rows)) : i > Len(seen) => seen'[i] = rows[i - Len(seen)]
  <2>1. /\ seen \o rows \in Seq(Ids) /\ Len(seen \o rows) = Len(seen) + Len(rows)
        /\ \A i \in 1..(Len(seen) + Len(rows)) :
             (seen \o rows)[i] = IF i <= Len(seen) THEN seen[i] ELSE rows[i - Len(seen)]
    BY <1>2, ConcatProperties
  <2>2. DOMAIN (seen \o rows) = 1..(Len(seen) + Len(rows))
    BY <2>1, LenProperties
  <2> QED
    BY <1>1, <1>2, <2>1, <2>2
<1>4. \A i \in 1..Len(seen), x \in Ids : seen[i] = x => Cardinality(Newer(x)) < Given
  BY <1>2 DEF DescInv, ToSet
<1>5. \A i \in 1..(Len(seen) + Len(rows)), x \in Ids :
        i > Len(seen) /\ seen'[i] = x => Cardinality(Newer(x)) = Given + (i - Len(seen)) - 1
  <2>1. SUFFICES ASSUME NEW i \in 1..(Len(seen) + Len(rows)), i > Len(seen)
                 PROVE  Cardinality(Newer(seen'[i])) = Given + (i - Len(seen)) - 1
    OBVIOUS
  <2>2. i - Len(seen) \in 1..Len(rows)
    BY <1>2, <2>1
  <2> QED
    BY <1>1, <1>3, <2>1, <2>2
<1>6. \A i \in 1..(Len(seen) + Len(rows)) : seen'[i] \in Ids
  <2>1. SUFFICES ASSUME NEW i \in 1..(Len(seen) + Len(rows)) PROVE seen'[i] \in Ids
    OBVIOUS
  <2>2. CASE i <= Len(seen)
    BY <1>2, <1>3, <2>2, ElementOfSeq
  <2>3. CASE i > Len(seen)
    BY <1>1, <1>2, <1>3, <2>3, ElementOfSeq
  <2> QED
    BY <1>2, <2>2, <2>3
<1>7. ASSUME NEW i \in DOMAIN seen', NEW j \in DOMAIN seen', i < j
      PROVE  created[seen'[i]] > created[seen'[j]]
  <2>1. CASE j <= Len(seen)
    BY <1>2, <1>3, <1>7, <2>1 DEF DescInv
  <2>2. CASE j > Len(seen)
    <3>1. PICK x \in Ids, y \in Ids : x = seen'[i] /\ y = seen'[j]
      BY <1>3, <1>6
    <3>2. Cardinality(Newer(y)) = Given + (j - Len(seen)) - 1
      BY <1>3, <1>5, <2>2, <3>1
    <3>3. CASE i <= Len(seen)
      <4>1. Cardinality(Newer(x)) < Given
        BY <1>2, <1>3, <1>4, <3>1, <3>3
      <4>2. Cardinality(Newer(x)) < Cardinality(Newer(y))
        BY <1>2, <1>3, <2>2, <3>2, <4>1, PlaceType
      <4> QED
        BY <3>1, <4>2, PlaceTellsAge
    <3>4. CASE i > Len(seen)
      <4>1. Cardinality(Newer(x)) = Given + (i - Len(seen)) - 1
        BY <1>3, <1>5, <3>1, <3>4
      <4>2. Cardinality(Newer(x)) < Cardinality(Newer(y))
        BY <1>2, <1>3, <1>7, <3>2, <4>1
      <4> QED
        BY <3>1, <4>2, PlaceTellsAge
    <3> QED
      BY <1>2, <1>3, <3>3, <3>4
  <2> QED
    BY <1>2, <1>3, <2>1, <2>2
<1>8. ASSUME NEW x \in ToSet(seen') PROVE Cardinality(Newer(x)) < Given + limit
  <2>1. PICK i \in 1..(Len(seen) + Len(rows)) : seen'[i] = x
    BY <1>3, <1>8 DEF ToSet
  <2>2. CASE i <= Len(seen)
    <3>1. Cardinality(Newer(x)) < Given
      BY <1>2, <1>3, <1>4, <1>6, <2>1, <2>2
    <3> QED
      BY <1>2, <3>1, PlaceType
  <2>3. CASE i > Len(seen)
    <3>1. Cardinality(Newer(x)) = Given + (i - Len(seen)) - 1
      BY <1>5, <1>6, <2>1, <2>3
    <3> QED
      BY <1>1, <1>2, <3>1
  <2> QED
    BY <1>2, <2>2, <2>3
<1> QED
  BY <1>7, <1>8

LEMMA DescInvNext ==
  ASSUME TableInv, DescInv, [Next]_vars
  PROVE  DescInv'
<1> SUFFICES ASSUME NoTies', ~inserted'
             PROVE  /\ \A i, j \in DOMAIN seen' :
                         i < j => created'[seen'[i]] > created'[seen'[j]]
                    /\ \A x \in ToSet(seen') : Cardinality(Newer(x)') < Given'
  BY DEF DescInv, ToSet
<1>0. NoTies
  BY TiesRemain
<1>1. CASE Insert \/ Start
  <2>1. seen' = seen /\ seen = <<>>
    BY <1>1 DEF Insert, Start, TableInv
  <2> QED
    BY <2>1 DEF ToSet
<1>2. CASE \E i \in Ids : Leave(i)
  <2>1. /\ created' = created /\ matching' \subseteq matching /\ seen' = seen
        /\ inserted' = inserted /\ pc' = pc /\ page' = page /\ limit' = limit
    BY <1>2 DEF Leave
  <2>2. Given' = Given
    BY <2>1 DEF Given
  <2>3. ASSUME NEW x \in ToSet(seen) PROVE Cardinality(Newer(x)') < Given
    <3>1. Cardinality(Newer(x)') <= Cardinality(Newer(x)) /\ Cardinality(Newer(x)) < Given
      BY <1>0, <2>1, <2>3, PlacesFall DEF DescInv
    <3>2. TableInv'
      BY TableInvNext
    <3>3. Newer(x)' \subseteq Ids
      BY <3>2 DEF TableInv, TypeOK, Newer
    <3>4. Cardinality(Newer(x)') \in Nat /\ Cardinality(Newer(x)) \in Nat /\ Given \in Nat
      BY <1>2, <3>3, IdsFinite, PlaceType, PlacesGiven DEF Next
    <3> QED
      BY <3>1, <3>4
  <2> QED
    BY <1>0, <2>1, <2>2, <2>3 DEF DescInv, ToSet
<1>3. CASE Page
  <2>1. UNCHANGED <<created, matching, inserted, limit>>
    BY <1>3 DEF Page, table, history
  <2>2. Given' = Given + limit
    BY <1>3, PlacesGiven DEF Next
  <2> QED
    BY <1>0, <1>3, <2>1, <2>2, PageGoesOn, PlacesStay
<1>4. CASE Count \/ Balance \/ UNCHANGED vars
  <2>1. UNCHANGED <<created, matching, seen, inserted>>
    BY <1>4 DEF Count, Balance, table, history, vars
  <2>2. Given' = Given
    <3>1. CASE UNCHANGED vars
      BY <3>1 DEF vars, Given
    <3>2. CASE Count \/ Balance
      <4>1. ~Start /\ ~Page
        BY <3>2 DEF Count, Balance, Follow, Start, Page
      <4> QED
        BY <3>2, <4>1, PlacesGiven DEF Next
    <3> QED
      BY <1>4, <3>1, <3>2
  <2> QED
    BY <1>0, <2>1, <2>2, PlacesStay DEF DescInv, ToSet
<1> QED
  BY <1>1, <1>2, <1>3, <1>4 DEF Next

\* Rows that leave between two pages pull others out of the client's sight, but no row
\* is given twice.
THEOREM NothingGivenTwice == Spec => []DeparturesRepeatNothing
<1>1. TableInv /\ DescInv /\ [Next]_vars => TableInv' /\ DescInv'
  BY TableInvNext, DescInvNext
<1>2. TableInv /\ DescInv => DeparturesRepeatNothing
  <2>1. SUFFICES ASSUME TableInv, DescInv, NoTies, ~inserted PROVE IsInjective(seen)
    BY DEF DeparturesRepeatNothing
  <2>2. /\ DOMAIN seen = 1..Len(seen) /\ Len(seen) \in Nat
        /\ \A i \in DOMAIN seen : created[seen[i]] \in Nat
    BY <2>1, LenProperties, BoundAssumption DEF TableInv, TypeOK
  <2>3. \A i, j \in DOMAIN seen : i < j => created[seen[i]] > created[seen[j]]
    BY <2>1 DEF DescInv
  <2>4. \A i, j \in DOMAIN seen : seen[i] = seen[j] => i = j
    BY <2>2, <2>3
  <2> QED
    BY <2>4 DEF IsInjective
<1> QED
  BY <1>1, <1>2, TableInvInit, DescInvInit, PTL DEF Spec
-----------------------------------------------------------------------------
(***************************************************************************)
(* Insertions.                                                             *)
(***************************************************************************)

\* totalPages pages of n rows hold t rows.
LEMMA PagesHold ==
  ASSUME NEW t \in Nat, NEW n \in Nat \ {0}, NEW p \in Nat, ~(p < (t + n - 1) \div n)
  PROVE  t <= p * n
<1>1. PICK d \in Int : d = (t + n - 1) \div n
  OBVIOUS
<1>2. PICK r \in Int : r = (t + n - 1) % n
  OBVIOUS
<1>3. t + n - 1 = (d * n) + r /\ r < n
  BY <1>1, <1>2
<1>4. d * n \in Int /\ p * n \in Int /\ t <= d * n
  BY <1>3
<1>5. d <= p
  BY <1>1
<1>6. d * n <= p * n
  BY <1>5
<1> QED
  BY <1>4, <1>6

\* A client that is told there is no more was given as many places as were counted.
DoneInv == pc = "done" => total <= Given

LEMMA FollowedToTheEnd ==
  ASSUME TableInv, NEW rows, Len(rows) \in Nat, Len(rows) <= limit, Follow(rows), pc' = "done"
  PROVE  total <= Offset(page + 1, limit)
<1>1. /\ page \in Nat \ {0} /\ limit \in Nat \ {0} /\ total \in Nat
      /\ reader \in {"bills", "ledger"}
  BY LimitAssumption, BoundAssumption DEF TableInv, TypeOK
<1>2. ~More(rows)
  BY DEF Follow
<1>3. CASE reader = "bills"
  <2>1. ~(Offset(page, limit) + Len(rows) < total)
    BY <1>2, <1>3 DEF More
  <2>2. Offset(page, limit) \in Nat /\ Offset(page + 1, limit) = Offset(page, limit) + limit
    BY <1>1, OffsetType
  <2> QED
    BY <1>1, <2>1, <2>2
<1>4. CASE reader = "ledger"
  <2>1. total <= page * limit
    BY <1>1, <1>2, <1>4, PagesHold DEF More
  <2> QED
    BY <1>1, <2>1 DEF Offset
<1> QED
  BY <1>1, <1>3, <1>4

LEMMA DoneInvNext ==
  ASSUME TableInv, DoneInv, [Next]_vars
  PROVE  DoneInv'
<1> SUFFICES ASSUME pc' = "done" PROVE total' <= Given'
  BY DEF DoneInv
<1>1. CASE Page
  <2>1. PICK rows \in Seq(matching) : Len(rows) \in Nat /\ Len(rows) <= limit /\ Follow(rows)
    BY <1>1, PageAppends
  <2>2. total <= Offset(page + 1, limit)
    BY <2>1, FollowedToTheEnd
  <2>3. /\ Given' = Given + limit /\ Given = Offset(page, limit)
        /\ Offset(page + 1, limit) = Offset(page, limit) + limit
    BY <1>1, LimitAssumption, OffsetType, PlacesGiven DEF Next, TableInv, TypeOK
  <2> QED
    BY <1>1, <2>2, <2>3 DEF Page
<1>2. CASE Balance
  <2>1. Follow(<<>>) /\ UNCHANGED <<limit, total>>
    BY <1>2 DEF Balance
  <2>2. Len(<<>>) = 0 /\ limit \in Nat
    BY LimitAssumption DEF TableInv, TypeOK
  <2>3. total <= Offset(page + 1, limit)
    BY <2>1, <2>2, FollowedToTheEnd
  <2>4. page' = page
    BY <2>1 DEF Follow
  <2> QED
    BY <2>1, <2>3, <2>4 DEF Given
<1>3. CASE Insert \/ (\E i \in Ids : Leave(i)) \/ UNCHANGED vars
  BY <1>3 DEF Insert, Leave, vars, DoneInv, Given
<1>4. CASE Start \/ Count
  BY <1>4 DEF Start, Count
<1> QED
  BY <1>1, <1>2, <1>3, <1>4 DEF Next

\* As long as nothing has left, a row that was there at the start has been given or is
\* in a place still to come; and none is still to come when all places counted have
\* been given.
KeptInv ==
  NoTies /\ ~left /\ pc # "idle" =>
    /\ base \subseteq matching
    /\ \A x \in base : x \in ToSet(seen) \/ Given <= Cardinality(Newer(x))
    /\ pc = "page" /\ ~raced => total = Cardinality(matching)
    /\ pc \in {"balance", "done"} /\ ~raced /\ total <= Given => base \subseteq ToSet(seen)

LEMMA KeptInvNext ==
  ASSUME TableInv, KeptInv, [Next]_vars
  PROVE  KeptInv'
<1> SUFFICES ASSUME NoTies', ~left', pc' # "idle"
             PROVE  /\ base' \subseteq matching'
                    /\ \A x \in base' :
                         x \in ToSet(seen') \/ Given' <= Cardinality(Newer(x)')
                    /\ pc' = "page" /\ ~raced' => total' = Cardinality(matching')
                    /\ pc' \in {"balance", "done"} /\ ~raced' /\ total' <= Given' =>
                         base' \subseteq ToSet(seen')
  BY DEF KeptInv, ToSet
<1>0. NoTies /\ TableInv'
  BY TiesRemain, TableInvNext
<1>1. CASE Insert
  <2>1. /\ matching \subseteq matching' /\ UNCHANGED <<base, seen, total, left, pc, page, limit>>
        /\ raced' = (raced \/ pc = "page")
    BY <1>1 DEF Insert
  <2>2. Given' = Given
    BY <2>1 DEF Given
  <2>3. ASSUME NEW x \in base, x \notin ToSet(seen) PROVE Given <= Cardinality(Newer(x)')
    <3>1. x \in matching /\ Given <= Cardinality(Newer(x))
      BY <1>0, <2>1, <2>3 DEF KeptInv
    <3>2. Cardinality(Newer(x)) <= Cardinality(Newer(x)')
      BY <1>0, <1>1, <3>1, PlacesRise
    <3>3. Newer(x)' \subseteq Ids
      BY <1>0 DEF TableInv, TypeOK, Newer
    <3>4. Cardinality(Newer(x)') \in Nat /\ Cardinality(Newer(x)) \in Nat /\ Given \in Nat
      BY <1>1, <3>3, IdsFinite, PlaceType, PlacesGiven DEF Next
    <3> QED
      BY <3>1, <3>2, <3>4
  <2> QED
    BY <1>0, <2>1, <2>2, <2>3 DEF KeptInv, ToSet
<1>2. CASE \E i \in Ids : Leave(i)
  BY <1>2 DEF Leave
<1>3. CASE Start
  <2>1. base' = matching /\ matching' = matching /\ pc' = "count"
    BY <1>3 DEF Start, table
  <2>2. Given' = 0
    BY <1>3, PlacesGiven DEF Next
  <2>3. \A x : Cardinality(Newer(x)') \in Nat
    <3>1. \A x : Newer(x)' \subseteq Ids
      BY <1>0 DEF TableInv, TypeOK, Newer
    <3> QED
      BY <3>1, IdsFinite
  <2> QED
    BY <2>1, <2>2, <2>3
<1>4. CASE Count
  <2>1. /\ UNCHANGED <<created, matching, base, seen, left, raced>>
        /\ pc = "count" /\ pc' = "page" /\ total' = Cardinality(matching)
    BY <1>4 DEF Count, table, history
  <2>2. Given' = Given
    <3>1. ~Start /\ ~Page
      BY <2>1 DEF Start, Page
    <3> QED
      BY <1>4, <3>1, PlacesGiven DEF Next
  <2> QED
    BY <1>0, <2>1, <2>2, PlacesStay DEF KeptInv, ToSet
<1>5. CASE Page
  <2>1. /\ UNCHANGED <<created, matching, base, left, raced, total>>
        /\ pc = "page" /\ pc' \in {"balance", "count", "done"}
    BY <1>5 DEF Page, Follow, table, history
  <2>2. Given' = Given + limit /\ Given \in Nat /\ limit \in Nat
    BY <1>5, PlacesGiven DEF Next
  <2>3. PICK rows \in Seq(Ids) :
          /\ seen' = seen \o rows
          /\ \A x \in matching :
               Given <= Cardinality(Newer(x)) /\ Cardinality(Newer(x)) < Given + limit =>
                 x \in ToSet(rows)
    BY <1>0, <1>5, PageIsPlaces
  <2>4. ToSet(seen') = ToSet(seen) \cup ToSet(rows)
    <3>1. seen \in Seq(Ids) /\ Range(seen \o rows) = Range(seen) \cup Range(rows)
      BY RangeConcatenation DEF TableInv
    <3> QED
      BY <2>3, <3>1 DEF ToSet, Range
  <2>5. base \subseteq matching
    BY <1>0, <2>1 DEF KeptInv
  <2>6. ASSUME NEW x \in base
        PROVE  x \in ToSet(seen') \/ Given + limit <= Cardinality(Newer(x))
    BY <1>0, <2>1, <2>2, <2>3, <2>4, <2>5, PlaceType DEF KeptInv
  <2>7. ASSUME NEW x \in base, ~raced, total <= Given + limit
        PROVE  x \in ToSet(seen')
    <3>1. total = Cardinality(matching)
      BY <1>0, <2>1, <2>7 DEF KeptInv
    <3>2. Cardinality(Newer(x)) < total /\ Cardinality(Newer(x)) \in Nat
      BY <2>5, <3>1, PlaceBelowCount, PlaceType
    <3>3. total \in Nat
      BY BoundAssumption DEF TableInv, TypeOK
    <3> QED
      BY <2>2, <2>6, <2>7, <3>2, <3>3
  <2> QED
    BY <2>1, <2>2, <2>5, <2>6, <2>7, PlacesStay
<1>6. CASE Balance
  <2>1. /\ UNCHANGED <<created, matching, base, seen, left, raced, total>>
        /\ pc = "balance" /\ pc' \in {"count", "done"}
    BY <1>6 DEF Balance, Follow, table, history
  <2>2. Given' = Given
    <3>1. ~Start /\ ~Page
      BY <2>1 DEF Start, Page
    <3> QED
      BY <1>6, <3>1, PlacesGiven DEF Next
  <2> QED
    BY <1>0, <2>1, <2>2, PlacesStay DEF KeptInv, ToSet
<1>7. CASE UNCHANGED vars
  <2>1. UNCHANGED <<created, matching, base, seen, left, raced, total, pc, page, limit>>
    BY <1>7 DEF vars, table, history
  <2>2. Given' = Given
    BY <2>1 DEF Given
  <2> QED
    BY <1>0, <2>1, <2>2, PlacesStay DEF KeptInv, ToSet
<1> QED
  BY <1>1, <1>2, <1>3, <1>4, <1>5, <1>6, <1>7 DEF Next

\* Rows inserted between two pages push others down.  No row that was there at the
\* start is missed, unless one is inserted between a COUNT and its page.
THEOREM NothingHidden == Spec => []InsertsHideNothing
<1>1. Init => DoneInv /\ KeptInv
  BY DEF Init, DoneInv, KeptInv
<1>2. TableInv /\ DoneInv /\ KeptInv /\ [Next]_vars => TableInv' /\ DoneInv' /\ KeptInv'
  BY TableInvNext, DoneInvNext, KeptInvNext
<1>3. TableInv /\ DoneInv /\ KeptInv => InsertsHideNothing
  BY DEF DoneInv, KeptInv, InsertsHideNothing
<1> QED
  BY <1>1, <1>2, <1>3, TableInvInit, PTL DEF Spec

-----------------------------------------------------------------------------
(***************************************************************************)
(* Nothing changes.  Rows of one second share their places: a row may be   *)
(* given in any of them, and no other row may.                             *)
(***************************************************************************)

NotOlder(i) == {j \in matching : created[j] >= created[i]}

\* Row x may be the k-th of an order.
InPlace(x, k) == Cardinality(Newer(x)) < k /\ k <= Cardinality(NotOlder(x))

LEMMA NotOlderType ==
  ASSUME TableInv, NEW i
  PROVE  NotOlder(i) \subseteq Ids /\ IsFiniteSet(NotOlder(i)) /\ Cardinality(NotOlder(i)) \in Nat
<1>1. NotOlder(i) \subseteq Ids
  BY DEF NotOlder, TableInv, TypeOK
<1> QED
  BY <1>1, IdsFinite

\* The rows before a row in an order are all that are newer, and it and they are not older.
LEMMA OrderInPlace ==
  ASSUME TableInv, NEW q \in Orders(matching), NEW k \in 1..Cardinality(matching)
  PROVE  q[k] \in matching /\ InPlace(q[k], k)
<1>1. PICK n \in Nat : n = Cardinality(matching)
  BY IdsFinite DEF TableInv, TypeOK
<1>2. /\ matching \subseteq Ids /\ k \in 1..n
      /\ \A x \in matching : created[x] \in Nat
  BY <1>1, BoundAssumption DEF TableInv, TypeOK
<1>3. /\ q \in [1..n -> matching]
      /\ \A i, j \in 1..n : i # j => q[i] # q[j]
      /\ \A i, j \in 1..n : i < j => created[q[i]] >= created[q[j]]
      /\ \A x \in matching : \E m \in 1..n : q[m] = x
  BY <1>1, <1>2, OrderLists
<1>4. Cardinality(Newer(q[k])) < k
  <2> DEFINE g == [i \in 1..(k - 1) |-> q[i]]
             T == {q[i] : i \in 1..(k - 1)}
  <2>1. g \in Surjection(1..(k - 1), T)
    BY DEF Surjection
  <2>2. IsFiniteSet(1..(k - 1)) /\ Cardinality(1..(k - 1)) = k - 1
    <3>1. 1 \in Int /\ k - 1 \in Nat
      BY <1>2
    <3>2. /\ IsFiniteSet(1..(k - 1))
          /\ Cardinality(1..(k - 1)) = IF 1 > k - 1 THEN 0 ELSE (k - 1) - 1 + 1
      BY <3>1, FS_Interval
    <3> QED
      BY <3>1, <3>2
  <2>3. Newer(q[k]) \subseteq T
    <3>1. SUFFICES ASSUME NEW x \in matching, created[x] > created[q[k]]
                   PROVE  \E i \in 1..(k - 1) : q[i] = x
      BY DEF Newer
    <3>2. PICK m \in 1..n : q[m] = x
      BY <1>3
    <3>3. created[x] \in Nat /\ created[q[k]] \in Nat
      BY <1>2, <1>3
    <3>4. ~(k < m) /\ k # m
      BY <1>2, <1>3, <3>1, <3>2, <3>3
    <3> QED
      BY <1>2, <3>2, <3>4
  <2> HIDE DEF g, T
  <2>4. IsFiniteSet(T) /\ Cardinality(T) <= k - 1 /\ Cardinality(T) \in Nat
    BY <2>1, <2>2, FS_Surjection, FS_CardinalityType
  <2>5. Cardinality(Newer(q[k])) <= Cardinality(T) /\ Cardinality(Newer(q[k])) \in Nat
    BY <2>3, <2>4, FS_Subset, PlaceType
  <2> QED
    BY <1>2, <2>4, <2>5
<1>5. k <= Cardinality(NotOlder(q[k]))
  <2> DEFINE h == [i \in 1..k |-> q[i]]
  <2>1. \A i \in 1..k : i \in 1..n /\ q[i] \in NotOlder(q[k])
    <3>1. SUFFICES ASSUME NEW i \in 1..k PROVE i \in 1..n /\ q[i] \in NotOlder(q[k])
      OBVIOUS
    <3>2. i \in 1..n /\ (i < k \/ i = k)
      BY <1>2
    <3>3. q[i] \in matching /\ created[q[k]] \in Nat
      BY <1>2, <1>3, <3>2
    <3>4. created[q[i]] >= created[q[k]]
      BY <1>2, <1>3, <3>2, <3>3
    <3> QED
      BY <3>2, <3>3, <3>4 DEF NotOlder
  <2>2. h \in Injection(1..k, NotOlder(q[k]))
    BY <1>3, <2>1 DEF Injection, IsInjective
  <2>3. Cardinality(1..k) = k
    <3>1. Cardinality(1..k) = IF 1 > k THEN 0 ELSE k - 1 + 1
      BY <1>2, FS_Interval
    <3> QED
      BY <1>2, <3>1
  <2> HIDE DEF h
  <2> QED
    BY <2>2, <2>3, NotOlderType, FS_Injection
<1> QED
  BY <1>2, <1>3, <1>4, <1>5 DEF InPlace

\* A page gives the next places to rows that may have them.
LEMMA PageInPlaces ==
  ASSUME TableInv, Page
  PROVE  \E rows \in Seq(Ids) :
           /\ seen' = seen \o rows
           /\ Len(rows) = IF Given + limit <= Cardinality(matching) THEN limit
                          ELSE IF Given <= Cardinality(matching)
                          THEN Cardinality(matching) - Given ELSE 0
           /\ \A i \in 1..Len(rows) : rows[i] \in matching /\ InPlace(rows[i], Given + i)
<1>1. PICK q \in Orders(matching) :
        LET rows == Slice(q, limit, Offset(page, limit))
        IN  rows \in Seq(Ids) /\ seen' = seen \o rows
  BY PageAppends
<1>2. Given \in Nat /\ limit \in Nat \ {0} /\ Given = Offset(page, limit)
  BY PlacesGiven DEF Next
<1>3. PICK rows \in Seq(Ids) : rows = Slice(q, limit, Given) /\ seen' = seen \o rows
  BY <1>1, <1>2
<1>4. matching \subseteq Ids
  BY DEF TableInv, TypeOK
<1>5. q \in Seq(matching) /\ Len(q) = Cardinality(matching)
  BY <1>4, OrderIsSeq
<1>6. /\ Slice(q, limit, Given) \in Seq(matching)
      /\ Len(Slice(q, limit, Given)) =
           IF Given + limit <= Len(q) THEN limit ELSE IF Given <= Len(q) THEN Len(q) - Given ELSE 0
      /\ \A i \in 1..Len(Slice(q, limit, Given)) :
           Given + i \in 1..Len(q) /\ Slice(q, limit, Given)[i] = q[Given + i]
  BY <1>2, <1>5, SliceIs
<1>7. ASSUME NEW i \in 1..Len(rows)
      PROVE  rows[i] \in matching /\ InPlace(rows[i], Given + i)
  <2>1. PICK k \in 1..Cardinality(matching) : k = Given + i /\ rows[i] = q[k]
    BY <1>3, <1>5, <1>6
  <2> QED
    BY <2>1, OrderInPlace
<1> QED
  BY <1>3, <1>5, <1>6, <1>7

\* The client was given the places in order.
Placed == \A k \in 1..Len(seen) : seen[k] \in matching /\ InPlace(seen[k], k)

\* The table is what it was at the start, and the client was given its first places.
QuietInv ==
  ~inserted /\ ~left /\ pc # "idle" =>
    /\ matching = base
    /\ pc # "count" => total = Cardinality(matching)
    /\ Len(seen) = IF Given <= Cardinality(matching) THEN Given ELSE Cardinality(matching)
    /\ Placed

LEMMA PlacedStays ==
  ASSUME Placed, UNCHANGED <<created, matching, seen>>
  PROVE  Placed'
BY DEF Placed, InPlace, Newer, NotOlder

LEMMA QuietInvNext ==
  ASSUME TableInv, QuietInv, [Next]_vars
  PROVE  QuietInv'
<1> SUFFICES ASSUME ~inserted', ~left', pc' # "idle"
             PROVE  /\ matching' = base'
                    /\ pc' # "count" => total' = Cardinality(matching')
                    /\ Len(seen') = IF Given' <= Cardinality(matching') THEN Given'
                                    ELSE Cardinality(matching')
                    /\ Placed'
  BY DEF QuietInv
<1>0. Cardinality(matching) \in Nat
  BY IdsFinite DEF TableInv, TypeOK
<1>1. CASE Insert \/ \E i \in Ids : Leave(i)
  BY <1>1 DEF Insert, Leave
<1>2. CASE Start
  <2>1. /\ seen' = <<>> /\ matching' = matching /\ base' = matching /\ pc' = "count"
    BY <1>2 DEF Start, table, TableInv
  <2>2. Given' = 0
    BY <1>2, PlacesGiven DEF Next
  <2>3. Len(seen') = 0 /\ Placed'
    BY <2>1 DEF Placed
  <2> QED
    BY <1>0, <2>1, <2>2, <2>3
<1>3. CASE Page
  <2>1. /\ UNCHANGED <<created, matching, base, total, inserted, left>> /\ pc = "page"
    BY <1>3 DEF Page, table, history
  <2>2. Given' = Given + limit /\ Given \in Nat /\ limit \in Nat \ {0}
    BY <1>3, PlacesGiven DEF Next
  <2>3. PICK rows \in Seq(Ids) :
          /\ seen' = seen \o rows
          /\ Len(rows) = IF Given + limit <= Cardinality(matching) THEN limit
                         ELSE IF Given <= Cardinality(matching)
                         THEN Cardinality(matching) - Given ELSE 0
          /\ \A i \in 1..Len(rows) : rows[i] \in matching /\ InPlace(rows[i], Given + i)
    BY <1>3, PageInPlaces
  <2>4. /\ matching = base /\ total = Cardinality(matching)
        /\ Len(seen) = IF Given <= Cardinality(matching) THEN Given ELSE Cardinality(matching)
        /\ \A k \in 1..Len(seen) : seen[k] \in matching /\ InPlace(seen[k], k)
    BY <2>1 DEF QuietInv, Placed
  <2>5. /\ Len(seen') = Len(seen) + Len(rows) /\ Len(seen) \in Nat /\ Len(rows) \in Nat
        /\ \A k \in 1..Len(seen) + Len(rows) :
             seen'[k] = IF k <= Len(seen) THEN seen[k] ELSE rows[k - Len(seen)]
    <3>1. seen \in Seq(Ids)
      BY DEF TableInv
    <3> QED
      BY <2>3, <3>1, ConcatProperties, LenProperties
  <2>6. Len(seen') = IF Given' <= Cardinality(matching) THEN Given' ELSE Cardinality(matching)
    BY <1>0, <2>2, <2>3, <2>4, <2>5
  <2>7. ASSUME NEW k \in 1..Len(seen')
        PROVE  seen'[k] \in matching /\ InPlace(seen'[k], k)
    <3>1. CASE k <= Len(seen)
      <4>1. k \in 1..Len(seen) /\ seen'[k] = seen[k]
        BY <2>5, <3>1
      <4> QED
        BY <2>4, <4>1
    <3>2. CASE ~(k <= Len(seen))
      <4>1. PICK i \in 1..Len(rows) : i = k - Len(seen)
        BY <2>5, <3>2
      <4>2. Given <= Cardinality(matching)
        BY <1>0, <2>2, <2>3, <4>1
      <4>3. seen'[k] = rows[i] /\ Given + i = k
        BY <2>2, <2>4, <2>5, <3>2, <4>1, <4>2
      <4> QED
        BY <2>3, <4>3
    <3> QED
      BY <3>1, <3>2
  <2>8. Placed'
    BY <2>1, <2>7 DEF Placed, InPlace, Newer, NotOlder
  <2> QED
    BY <2>1, <2>4, <2>6, <2>8
<1>4. CASE Count
  <2>1. /\ UNCHANGED <<created, matching, base, seen, inserted, left>>
        /\ pc = "count" /\ total' = Cardinality(matching)
    BY <1>4 DEF Count, table, history
  <2>2. Given' = Given
    <3>1. ~Start /\ ~Page
      BY <2>1 DEF Start, Page
    <3> QED
      BY <1>4, <3>1, PlacesGiven DEF Next
  <2> QED
    BY <2>1, <2>2, PlacedStays DEF QuietInv
<1>5. CASE Balance
  <2>1. /\ UNCHANGED <<created, matching, base, seen, total, inserted, left>>
        /\ pc = "balance"
    BY <1>5 DEF Balance, table, history
  <2>2. Given' = Given
    <3>1. ~Start /\ ~Page
      BY <2>1 DEF Start, Page
    <3> QED
      BY <1>5, <3>1, PlacesGiven DEF Next
  <2> QED
    BY <2>1, <2>2, PlacedStays DEF QuietInv
<1>6. CASE UNCHANGED vars
  <2>1. /\ UNCHANGED <<created, matching, base, seen, total, inserted, left, pc>>
        /\ Given' = Given
    BY <1>6 DEF vars, table, history, Given
  <2> QED
    BY <2>1, PlacedStays DEF QuietInv
<1> QED
  BY <1>1, <1>2, <1>3, <1>4, <1>5, <1>6 DEF Next

\* Places tell ages up to ties.
LEMMA LaterPlaceIsNotNewer ==
  ASSUME TableInv, NEW x \in matching, NEW y \in matching, NEW i \in Nat, NEW j \in Nat,
         InPlace(x, i), InPlace(y, j), i <= j
  PROVE  created[x] >= created[y]
<1>1. created[x] \in Nat /\ created[y] \in Nat /\ \A z \in matching : created[z] \in Nat
  BY BoundAssumption DEF TableInv, TypeOK
<1>2. SUFFICES ASSUME created[x] < created[y] PROVE FALSE
  BY <1>1
<1>3. NotOlder(y) \subseteq Newer(x)
  BY <1>1, <1>2 DEF Newer, NotOlder
<1>4. Cardinality(NotOlder(y)) <= Cardinality(Newer(x))
  BY <1>3, PlaceType, FewerIds
<1> QED
  BY <1>4, PlaceType, NotOlderType DEF InPlace

\* A row with a second to itself has one place.
LEMMA PlaceOfUntied ==
  ASSUME TableInv, NEW x \in matching, \A y \in matching : created[y] = created[x] => y = x
  PROVE  Cardinality(NotOlder(x)) = Cardinality(Newer(x)) + 1
<1>1. \A z \in matching : created[z] \in Nat
  BY BoundAssumption DEF TableInv, TypeOK
<1>2. NotOlder(x) = Newer(x) \cup {x} /\ x \notin Newer(x)
  BY <1>1 DEF Newer, NotOlder
<1>3. IsFiniteSet(Newer(x))
  BY PlaceType, IdsFinite
<1> QED
  BY <1>2, <1>3, FS_AddElement

LEMMA QuietInvGivesAll ==
  ASSUME TableInv, DoneInv, QuietInv, pc = "done", ~inserted, ~left
  PROVE  /\ Len(seen) = Cardinality(base) /\ ToSet(seen) \subseteq base
         /\ \A i, j \in DOMAIN seen : i < j => created[seen[i]] >= created[seen[j]]
         /\ \A x \in base : (\A y \in base : created[y] = created[x] => y = x) =>
              \E i \in DOMAIN seen : \A j \in DOMAIN seen : seen[j] = x <=> j = i
<1>1. PICK n \in Nat : n = Cardinality(matching)
  BY IdsFinite DEF TableInv, TypeOK
<1>2. /\ matching = base /\ total = n
      /\ Len(seen) = IF Given <= n THEN Given ELSE n
      /\ \A k \in 1..Len(seen) : seen[k] \in matching /\ InPlace(seen[k], k)
  BY <1>1 DEF QuietInv, Placed
<1>3. Given \in Nat /\ n <= Given
  <2>1. page \in Nat \ {0} /\ page + 1 \in Nat \ {0} /\ limit \in Nat
    BY LimitAssumption DEF TableInv, TypeOK
  <2>2. Offset(page + 1, limit) \in Nat
    BY <2>1, OffsetType
  <2> QED
    BY <1>2, <2>2 DEF DoneInv, Given
<1>4. Len(seen) = n /\ DOMAIN seen = 1..n
  <2>1. Len(seen) = n
    BY <1>1, <1>2, <1>3
  <2> QED
    BY <2>1, LenProperties DEF TableInv
<1>5. ToSet(seen) \subseteq base
  BY <1>2, <1>4 DEF ToSet
<1>6. ASSUME NEW i \in 1..n, NEW j \in 1..n, i <= j
      PROVE  created[seen[i]] >= created[seen[j]]
  <2>1. seen[i] \in matching /\ seen[j] \in matching /\ InPlace(seen[i], i) /\ InPlace(seen[j], j)
    BY <1>2, <1>4
  <2> QED
    BY <1>6, <2>1, LaterPlaceIsNotNewer
<1>7. ASSUME NEW x \in matching, \A y \in matching : created[y] = created[x] => y = x
      PROVE  \E i \in 1..n : \A j \in 1..n : seen[j] = x <=> j = i
  <2>1. PICK p \in Nat : p = Cardinality(Newer(x))
    BY PlaceType
  <2>2. Cardinality(NotOlder(x)) = p + 1 /\ InPlace(x, p + 1)
    BY <1>7, <2>1, PlaceOfUntied DEF InPlace
  <2>3. p + 1 \in 1..n
    <3>1. NotOlder(x) \subseteq matching /\ matching \subseteq Ids
      BY DEF NotOlder, TableInv, TypeOK
    <3>2. Cardinality(NotOlder(x)) <= n
      BY <1>1, <3>1, FewerIds
    <3> QED
      BY <2>2, <3>2
  <2>4. seen[p + 1] = x
    <3>1. seen[p + 1] \in matching /\ InPlace(seen[p + 1], p + 1)
      BY <1>2, <1>4, <2>3
    <3>2. created[x] >= created[seen[p + 1]] /\ created[seen[p + 1]] >= created[x]
      BY <2>2, <3>1, LaterPlaceIsNotNewer
    <3>3. created[x] \in Nat /\ created[seen[p + 1]] \in Nat
      BY <3>1, BoundAssumption DEF TableInv, TypeOK
    <3> QED
      BY <1>7, <3>1, <3>2, <3>3
  <2>5. ASSUME NEW j \in 1..n, seen[j] = x PROVE j = p + 1
    <3>1. InPlace(x, j)
      BY <1>2, <1>4, <2>5
    <3> QED
      BY <2>1, <2>2, <3>1 DEF InPlace
  <2> QED
    BY <2>3, <2>4, <2>5
<1> QED
  BY <1>1, <1>2, <1>4, <1>5, <1>6, <1>7

\* A client that follows the pages while nothing changes is given as many rows as there
\* are, the newest first, and each row that has its second to itself exactly once.
THEOREM QuietListing == Spec => []QuietListingComplete
<1>1. Init => DoneInv /\ QuietInv
  BY DEF Init, DoneInv, QuietInv
<1>2. TableInv /\ DoneInv /\ QuietInv /\ [Next]_vars => TableInv' /\ DoneInv' /\ QuietInv'
  BY TableInvNext, DoneInvNext, QuietInvNext
<1>3. TableInv /\ DoneInv /\ QuietInv => QuietListingComplete
  BY QuietInvGivesAll DEF QuietListingComplete
<1> QED
  BY <1>1, <1>2, <1>3, TableInvInit, PTL DEF Spec
=============================================================================
