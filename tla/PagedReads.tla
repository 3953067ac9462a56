----------------------------- MODULE PagedReads -----------------------------
(***************************************************************************)
(* The paged readers of src/src/services/billingService.ts and             *)
(* deadLetterService.ts.  Each call is a sequence of autocommitted         *)
(* statements, a COUNT, a page of rows ordered by created_at and, in       *)
(* getLedger, the SUM of all rows, with all other requests in between;     *)
(* between two calls of a client there is even more time.  The readers are *)
(* told apart by how their client learns that it is done: getBillsByUserId *)
(* and searchBills answer hasMore, getLedger's controller answers          *)
(* totalPages.  (getPending answers the total only, and its client can do  *)
(* no better.)                                                             *)
(***************************************************************************)
EXTENDS Integers, SequencesExt

CONSTANTS
  Limits,       \* page sizes clients ask for
  MaxRows,      \* bound: rows that ever match
  MaxSecond     \* bound: created_at counts seconds from 1

ASSUME LimitAssumption == Limits \subseteq Nat \ {0}
ASSUME BoundAssumption == MaxRows \in Nat /\ MaxSecond \in Nat \ {0}

Ids == 1..MaxRows

VARIABLES
  created,    \* created[i]: created_at of row i, 0 before it is visible
  matching,   \* the rows the WHERE clause selects
  reader,     \* the operation the client calls, once chosen
  limit, page, total,   \* the arguments of its current call, and what it counted
  pc,         \* the next statement
  seen,       \* the rows the client was given, in order
  summed,     \* the rows the last currentBalance is the sum of
  base,       \* history: the rows the first call would have selected
  inserted,   \* history: a row was inserted since the listing began,
  raced,      \* one of them between a COUNT and its page,
  left        \* a row stopped matching since the listing began

table == <<created, matching>>
history == <<base, inserted, raced, left>>
vars == <<table, reader, limit, page, total, pc, seen, summed, history>>

Init ==
  /\ created = [i \in Ids |-> 0]
  /\ matching = {}
  /\ reader \in {"bills", "ledger"}
  /\ limit \in Limits
  /\ page = 1
  /\ total = 0
  /\ pc = "idle"
  /\ seen = <<>>
  /\ summed = {}
  /\ base = {}
  /\ inserted = FALSE /\ raced = FALSE /\ left = FALSE

-----------------------------------------------------------------------------
\* Offset, were OFFSET the number of the page
OffsetPages(p, n) == p - 1

\* Offset, were pages counted from 0
OffsetFromZero(p, n) == p * n

Offset(p, n) == (p - 1) * n

\* The orders ORDER BY created_at DESC may give the rows S: ties are in any order,
\* and each statement may have its own.
Orders(S) ==
  {q \in SetToSeqs(S) : \A i, j \in DOMAIN q : i < j => created[q[i]] >= created[q[j]]}

\* LIMIT n OFFSET k
Slice(q, n, k) == SubSeq(q, k + 1, IF k + n < Len(q) THEN k + n ELSE Len(q))

\* More, were totalPages rounded down and hasMore true for full pages only
MoreFullPages(rows) == page < total \div limit

\* hasMore, and page < totalPages = Math.ceil(total / limit)
More(rows) ==
  \/ reader = "bills" /\ Offset(page, limit) + Len(rows) < total
  \/ reader = "ledger" /\ page < (total + limit - 1) \div limit

-----------------------------------------------------------------------------
\* A bill or an entry is committed (or, in a listing of paid bills, a payment).  Its
\* created_at is the time of its INSERT, any number of statements ago, so that rows
\* created later may have been visible before.  Rows are numbered in the order of
\* created_at, whenever they become visible.
Insert ==
  \E i \in Ids, at \in 1..MaxSecond :
    /\ created[i] = 0
    /\ \A j \in Ids : created[j] # 0 =>
         (j < i => created[j] <= at) /\ (i < j => at <= created[j])
    /\ created' = [created EXCEPT ![i] = at]
    /\ matching' = matching \cup {i}
    /\ inserted' = (pc # "idle")
    /\ raced' = (raced \/ pc = "page")
    /\ UNCHANGED <<reader, limit, page, total, pc, seen, summed, base, left>>

\* A row stops matching: an unpaid bill is paid.  The ledger has no such rows.
Leave(i) ==
  /\ reader = "bills"
  /\ i \in matching
  /\ matching' = matching \ {i}
  /\ left' = (pc # "idle")
  /\ UNCHANGED <<created, reader, limit, page, total, pc, seen, summed, base, inserted, raced>>

\* Start, were the default of the query parameter page 0
StartFromZero ==
  /\ pc = "idle"
  /\ pc' = "count"
  /\ page' = 0
  /\ base' = matching
  /\ UNCHANGED <<table, reader, limit, total, seen, summed, inserted, raced, left>>

\* The client asks for the first page.
Start ==
  /\ pc = "idle"
  /\ pc' = "count"
  /\ page' = 1
  /\ base' = matching
  /\ UNCHANGED <<table, reader, limit, total, seen, summed, inserted, raced, left>>

\* SELECT COUNT(*)
Count ==
  /\ pc = "count"
  /\ total' = Cardinality(matching)
  /\ pc' = "page"
  /\ UNCHANGED <<table, reader, limit, page, seen, summed, history>>

\* The client asks for the next page if there is one.
Follow(rows) ==
  IF More(rows) THEN pc' = "count" /\ page' = page + 1
                ELSE pc' = "done" /\ UNCHANGED page

\* SELECT * ... ORDER BY created_at DESC LIMIT ? OFFSET ?, the last statement of all
\* calls but getLedger.
Page ==
  /\ pc = "page"
  /\ \E q \in Orders(matching) :
       LET rows == Slice(q, limit, Offset(page, limit))
       IN  /\ seen' = seen \o rows
           /\ IF reader = "ledger" THEN pc' = "balance" /\ UNCHANGED page
                                   ELSE Follow(rows)
  /\ UNCHANGED <<table, reader, limit, total, summed, history>>

\* Balance, were it the sum of the entries on the page
BalanceOfPage ==
  /\ pc = "balance"
  /\ summed' = {seen[i] : i \in {i \in DOMAIN seen : i > Offset(page, limit)}}
  /\ Follow(<<>>)
  /\ UNCHANGED <<table, reader, limit, total, seen, history>>

\* getLedger: SELECT COALESCE(SUM(...), 0) FROM ledger
Balance ==
  /\ pc = "balance"
  /\ summed' = matching
  /\ Follow(<<>>)
  /\ UNCHANGED <<table, reader, limit, total, seen, history>>

Next == Insert \/ (\E i \in Ids : Leave(i)) \/ Start \/ Count \/ Page \/ Balance

Spec == Init /\ [][Next]_vars

-----------------------------------------------------------------------------
TypeOK ==
  /\ created \in [Ids -> 0..MaxSecond]
  /\ matching \subseteq Ids
  /\ base \subseteq Ids /\ summed \subseteq Ids
  /\ pc \in {"idle", "count", "page", "balance", "done"}
  /\ page \in Nat \ {0} /\ total \in 0..MaxRows
  /\ \A i \in DOMAIN seen : seen[i] \in Ids

\* No two rows have the same created_at, so that the order is the same for each
\* statement.
NoTies == \A i, j \in Ids : created[i] # 0 /\ created[i] = created[j] => i = j

\* Nothing changes while a client follows the pages: it gets as many rows as there are,
\* newest first.  Rows of one second may be swapped from page to page, so that one is
\* given twice and another never, yet a row that has its second to itself is given
\* exactly once, whatever the ties before and after it.
QuietListingComplete ==
  pc = "done" /\ ~inserted /\ ~left =>
    /\ Len(seen) = Cardinality(base) /\ ToSet(seen) \subseteq base
    /\ \A i, j \in DOMAIN seen : i < j => created[seen[i]] >= created[seen[j]]
    /\ \A x \in base : (\A y \in base : created[y] = created[x] => y = x) =>
         \E i \in DOMAIN seen : \A j \in DOMAIN seen : seen[j] = x <=> j = i

\* New rows, however late they become visible, push older ones to later pages.  These may be seen twice, and yet no row
\* that was there at the start is missed, unless one is inserted between a COUNT and
\* its page: then the call may say that there is no more when there is.
InsertsHideNothing ==
  pc = "done" /\ NoTies /\ ~left /\ ~raced => base \subseteq ToSet(seen)

\* Rows that leave pull later ones to earlier pages.  They may be missed, but no row
\* is given twice.
DeparturesRepeatNothing ==
  NoTies /\ ~inserted => IsInjective(seen)

\* getLedger answers total, entries and currentBalance from three snapshots.  The
\* balance may be newer than the rest and is never older: it accounts for every entry
\* counted and for every entry its client has been shown, on this page and before.
BalanceCoversEntries ==
  reader = "ledger" /\ pc \in {"count", "done"} =>
    /\ ToSet(seen) \subseteq summed
    /\ total <= Cardinality(summed)
=============================================================================
