-------------------------- MODULE DisciplineProofs ---------------------------
(***************************************************************************)
(* What holds when the surroundings of the service keep to a discipline.   *)
(* First, when the billing runs of a user do not overlap, no CDR is on two *)
(* bills: what a run has read as unbilled belongs to its user and stays    *)
(* unbilled until it commits, because only another run of that user could  *)
(* mark it.  Second, when the transactions that write a user's ledger do   *)
(* not overlap, the balance a transaction has read is still the balance    *)
(* when it commits, and its entry is the user's last.                      *)
(***************************************************************************)
EXTENDS Disciplines, BillingServiceProofs

-----------------------------------------------------------------------------
(***************************************************************************)
(* Serial runs bill no CDR twice.                                          *)
(***************************************************************************)

\* What request r has read as unbilled is its user's and, by marks, still unbilled.
Fresh(step, r, marks) ==
  r.op = "generate" /\ step \notin {"idle", "calculate"} =>
    \A c \in r.logIds : CdrUser[c] = r.user /\ marks[c] = NoBill

\* A charged CDR is marked with the one bill that charged for it.
ChargedOnce == \A b \in BillIds : \A c \in charged[b] : billOf[c] = b

SerialInv ==
  /\ TypeInv
  /\ OneRunPerUser
  /\ ChargedOnce
  /\ \A w \in Workers : Fresh(pc[w], req[w], billOf)

LEMMA SerialInvInit == Init => SerialInv
<1>1. Init => OneRunPerUser /\ ChargedOnce
  BY DEF Init, OneRunPerUser, ChargedOnce, NoRequest
<1>2. Init => \A w \in Workers : Fresh(pc[w], req[w], billOf)
  BY DEF Init, Fresh
<1> QED
  BY <1>1, <1>2, TypeInvInit DEF SerialInv

\* A step of w that marks no CDR
LEMMA LocalKeepsSerialInv ==
  ASSUME SerialInv, TypeInv', OneRunPerUser', NEW w \in Workers, NEW step, NEW r,
         Goto(w, step, r), UNCHANGED <<billOf, charged>>, Fresh(step, r, billOf)
  PROVE  SerialInv'
<1>1. ChargedOnce'
  BY DEF SerialInv, ChargedOnce
<1>2. ASSUME NEW v \in Workers PROVE Fresh(pc[v], req[v], billOf)'
  <2>1. CASE v = w
    BY <2>1 DEF Goto, SerialInv, TypeInv, TypeOK, Fresh
  <2>2. CASE v # w
    BY <2>2 DEF Goto, SerialInv, TypeInv, TypeOK, Fresh
  <2> QED
    BY <2>1, <2>2
<1> QED
  BY <1>1, <1>2 DEF SerialInv

\* The commit of a run marks CDRs that no other run in flight has read.
LEMMA ChargeKeepsSerialInv ==
  ASSUME SerialInv, TypeInv', OneRunPerUser', NEW w \in Workers, CommitCharge(w)
  PROVE  SerialInv'
<1> DEFINE b == req[w].bill
           marked == req[w].logIds
<1>1. /\ b \in BillIds /\ marked \subseteq Cdrs
      /\ \A c \in marked : CdrUser[c] = req[w].user /\ billOf[c] = NoBill
  BY DEF CommitCharge, SerialInv, TypeInv, TypeOK, RequestOK, StepNeeds, Request, Fresh
<1>2. /\ billOf' = [c \in Cdrs |-> IF c \in marked THEN b ELSE billOf[c]]
      /\ charged'[b] = marked
      /\ \A d \in BillIds : d # b => charged'[d] = charged[d]
  BY <1>1 DEF CommitCharge, SerialInv, TypeInv, TypeOK
<1>3. \A d \in BillIds : charged[d] \subseteq Cdrs
  BY DEF SerialInv, TypeInv, TypeOK
<1> HIDE DEF b, marked
<1>4. ChargedOnce'
  <2>1. ASSUME NEW d \in BillIds, NEW c \in charged'[d] PROVE billOf'[c] = d
    <3>1. CASE d = b
      BY <1>1, <1>2, <2>1, <3>1
    <3>2. CASE d # b
      BY <1>1, <1>2, <1>3, <2>1, <3>2 DEF SerialInv, ChargedOnce, BillIds, NoBill
    <3> QED
      BY <3>1, <3>2
  <2> QED
    BY <2>1 DEF ChargedOnce
<1>5. ASSUME NEW v \in Workers PROVE Fresh(pc[v], req[v], billOf)'
  <2>1. CASE v = w
    BY <2>1 DEF CommitCharge, Goto, SerialInv, TypeInv, TypeOK, Fresh
  <2>2. CASE v # w
    <3>1. pc'[v] = pc[v] /\ req'[v] = req[v] /\ req[v].logIds \subseteq Cdrs
      BY <2>2 DEF CommitCharge, Goto, SerialInv, TypeInv, TypeOK, Request
    <3>2. req[v].op = "generate" => req[v].user # req[w].user
      BY <2>2 DEF CommitCharge, SerialInv, OneRunPerUser
    <3>3. Fresh(pc[v], req[v], billOf)
      BY DEF SerialInv
    <3> QED
      BY <1>1, <1>2, <3>1, <3>2, <3>3 DEF Fresh
  <2> QED
    BY <2>1, <2>2
<1> QED
  BY <1>4, <1>5 DEF SerialInv

\* A request in the middle of its work keeps what its run has read.
LEMMA StepsKeepRun ==
  ASSUME TypeInv, NEW w \in Workers,
         InsertBill(w) \/ MarkCdrs(w) \/ LockBill(w) \/ MarkPaid(w) \/ ReadBalance(w)
           \/ InsertEntry(w)
  PROVE  \E step, r :
           /\ Goto(w, step, r) /\ UNCHANGED <<billOf, charged>>
           /\ r.op = req[w].op /\ r.logIds = req[w].logIds
           /\ r.op = "generate" => r.user = req[w].user
           /\ pc[w] \notin {"idle", "calculate"}
<1>0. req[w] \in Request /\ RequestOK(w)
  BY DEF TypeInv, TypeOK
<1>1. CASE InsertBill(w)
  BY <1>0, <1>1 DEF InsertBill, tables, Request
<1>2. CASE MarkCdrs(w) \/ MarkPaid(w)
  BY <1>0, <1>2 DEF MarkCdrs, MarkPaid, tables
<1>3. CASE LockBill(w)
  BY <1>0, <1>3 DEF LockBill, tables, Request, RequestOK, StepNeeds
<1>4. CASE ReadBalance(w)
  BY <1>0, <1>4 DEF ReadBalance, tables, Request
<1>5. CASE InsertEntry(w)
  BY <1>0, <1>5 DEF InsertEntry, tables, Request
<1> QED
  BY <1>1, <1>2, <1>3, <1>4, <1>5

LEMMA SerialInvNext ==
  ASSUME SerialInv, [Next /\ OneRunPerUser']_vars
  PROVE  SerialInv'
<1>0. TypeInv' /\ [Next]_vars
  BY TypeInvNext DEF SerialInv
<1>1. CASE UNCHANGED vars
  <2>1. UNCHANGED <<billOf, charged, pc, req>>
    BY <1>1 DEF vars, tables
  <2> QED
    BY <1>0, <2>1 DEF SerialInv, OneRunPerUser, ChargedOnce, Fresh
<1>2. CASE Next /\ OneRunPerUser'
  <2>1. CASE Environment
    <3>1. UNCHANGED <<billOf, charged, pc, req>>
      BY <2>1 DEF Environment, RecordUsage, TimePasses, UpdateRate
    <3> QED
      BY <1>0, <1>2, <3>1 DEF SerialInv, ChargedOnce, Fresh
  <2>2. ASSUME NEW w \in Workers, NEW u \in Users, StartGenerate(w, u)
        PROVE  SerialInv'
    <3>1. Fresh("calculate", [NoRequest EXCEPT !.op = "generate", !.user = u], billOf)
      BY DEF Fresh
    <3> QED
      BY <1>0, <1>2, <2>2, <3>1, LocalKeepsSerialInv DEF StartGenerate, tables
  <2>3. ASSUME NEW w \in Workers, NEW b \in BillIds, StartPay(w, b)
        PROVE  SerialInv'
    <3>1. Fresh("lockBill", [NoRequest EXCEPT !.op = "pay", !.bill = b], billOf)
      BY DEF Fresh, NoRequest
    <3> QED
      BY <1>0, <1>2, <2>3, <3>1, LocalKeepsSerialInv DEF StartPay, tables
  <2>4. ASSUME NEW w \in Workers, Calculate(w)
        PROVE  SerialInv'
    <3> DEFINE logIds == Billable(req[w].user)
               r == [req[w] EXCEPT !.logIds = logIds, !.amount = Price(logIds, rates)]
    <3>1. r.logIds = logIds /\ r.user = req[w].user
      BY DEF SerialInv, TypeInv, TypeOK, Request
    <3>2. Goto(w, "insertBill", r) /\ UNCHANGED tables
      BY <2>4 DEF Calculate
    <3> HIDE DEF r
    <3>3. Fresh("insertBill", r, billOf)
      BY <3>1 DEF Fresh, Billable
    <3> QED
      BY <1>0, <1>2, <3>2, <3>3, LocalKeepsSerialInv DEF tables
  <2>5. ASSUME NEW w \in Workers, NoCharge(w) \/ NotPayable(w) \/ OutOfRange(w) \/ Abort(w)
        PROVE  SerialInv'
    <3>1. Fresh("idle", NoRequest, billOf)
      BY DEF Fresh
    <3> QED
      BY <1>0, <1>2, <2>5, <3>1, LocalKeepsSerialInv
         DEF NoCharge, NotPayable, OutOfRange, Abort, tables
  <2>6. ASSUME NEW w \in Workers,
               InsertBill(w) \/ MarkCdrs(w) \/ LockBill(w) \/ MarkPaid(w) \/ ReadBalance(w)
                 \/ InsertEntry(w)
        PROVE  SerialInv'
    <3>1. PICK step, r :
            /\ Goto(w, step, r) /\ UNCHANGED <<billOf, charged>>
            /\ r.op = req[w].op /\ r.logIds = req[w].logIds
            /\ r.op = "generate" => r.user = req[w].user
            /\ pc[w] \notin {"idle", "calculate"}
      BY <2>6, StepsKeepRun DEF SerialInv
    <3>2. Fresh(step, r, billOf)
      BY <3>1 DEF SerialInv, Fresh
    <3> QED
      BY <1>0, <1>2, <3>1, <3>2, LocalKeepsSerialInv
  <2>7. ASSUME NEW w \in Workers, CommitCharge(w)
        PROVE  SerialInv'
    BY <1>0, <1>2, <2>7, ChargeKeepsSerialInv
  <2>8. ASSUME NEW w \in Workers, CommitPayment(w)
        PROVE  SerialInv'
    <3>1. Fresh("idle", NoRequest, billOf)
      BY DEF Fresh
    <3> QED
      BY <1>0, <1>2, <2>8, <3>1, LocalKeepsSerialInv DEF CommitPayment
  <2> QED
    BY <1>2, <2>1, <2>2, <2>3, <2>4, <2>5, <2>6, <2>7, <2>8 DEF Next, Start, Step
<1> QED
  BY <1>1, <1>2

\* When the billing runs of a user do not overlap, no CDR is charged on two bills,
\* whatever fails, is retried, or pays at the same time.
THEOREM SerialRunsNeverDoubleBill == SerialRunsSpec => []NoDoubleBilling
<1>1. SerialInv /\ [Next /\ OneRunPerUser']_vars => SerialInv'
  BY SerialInvNext
<1>2. SerialInv => NoDoubleBilling
  BY DEF SerialInv, ChargedOnce, NoDoubleBilling
<1> QED
  BY <1>1, <1>2, SerialInvInit, PTL DEF SerialRunsSpec
-----------------------------------------------------------------------------
(***************************************************************************)
(* Serial writers keep the running balance.                                *)
(***************************************************************************)

\* What the entry of request r adds to the balance of its user
Change(r) == IF r.op = "generate" THEN r.amount ELSE -r.amount

\* Request r, about to do step, writes the ledger of u: the balance it has computed
\* is u's balance, owed, with its own entry added, and that entry will be u's last
\* in table.
Current(step, r, u, owed, table) ==
  r.user = u =>
    /\ step \in {"insertEntry", "commit"} => r.balance = owed + Change(r)
    /\ step = "commit" =>
         /\ r.balance <= LedgerCap
         /\ \A e \in EntryIds : Exists(table, e) /\ table[e].user = u => e < r.entry

WriterInv ==
  /\ LedgerInv
  /\ OneWriterPerUser
  /\ ReconcileConsistent
  /\ OwedFitsLedger
  /\ \A w \in Workers, u \in Users : Current(pc[w], req[w], u, LedgerBalance(u), ledger)

LEMMA WriterInvInit == Init => WriterInv
<1> SUFFICES ASSUME Init PROVE WriterInv
  OBVIOUS
<1>1. ASSUME NEW u \in Users PROVE LedgerBalance(u) = 0
  <2>1. Signed(u) \in [1..MaxEntries -> Int]
    BY TypeInvInit, TermTypes DEF TypeInv
  <2>2. \A i \in 1..MaxEntries : Signed(u)[i] = 0
    BY DEF Init, Signed, Exists, EntryIds
  <2> QED
    BY <2>1, <2>2, SumOfZeros, BoundAssumption DEF LedgerBalance
<1>2. ASSUME NEW u \in Users PROVE LastBalance(u) = 0
  <2>1. {e \in EntryIds : Exists(ledger, e) /\ ledger[e].user = u} = {}
    BY DEF Init, Exists
  <2> QED
    BY <2>1 DEF LastBalance
<1>3. ReconcileConsistent /\ OwedFitsLedger
  BY <1>1, <1>2, CapAssumption DEF ReconcileConsistent, OwedFitsLedger
<1>4. OneWriterPerUser
  BY DEF Init, OneWriterPerUser, Writing
<1>5. \A w \in Workers, u \in Users : Current(pc[w], req[w], u, LedgerBalance(u), ledger)
  BY DEF Init, Current
<1> QED
  BY <1>3, <1>4, <1>5, LedgerInvInit DEF WriterInv

\* What is owed depends on the committed entries only.
LEMMA BalanceStays ==
  ASSUME NEW u \in Users, ledger' = ledger
  PROVE  LedgerBalance(u)' = LedgerBalance(u)
BY DEF LedgerBalance, Signed, Exists

\* A step of w that commits nothing
LEMMA LocalKeepsWriterInv ==
  ASSUME WriterInv, LedgerInv', OneWriterPerUser', ledger' = ledger,
         NEW w \in Workers, NEW step, NEW r, Goto(w, step, r),
         \A u \in Users : Current(step, r, u, LedgerBalance(u), ledger)
  PROVE  WriterInv'
<1>1. \A u \in Users : LedgerBalance(u)' = LedgerBalance(u) /\ LastBalance(u)' = LastBalance(u)
  BY BalanceStays, LastBalanceStays
<1>2. ReconcileConsistent' /\ OwedFitsLedger'
  BY <1>1 DEF WriterInv, ReconcileConsistent, OwedFitsLedger
<1>3. ASSUME NEW v \in Workers, NEW u \in Users
      PROVE  Current(pc'[v], req'[v], u, LedgerBalance(u)', ledger')
  <2>1. CASE v = w
    <3>1. pc'[v] = step /\ req'[v] = r
      BY <2>1 DEF Goto, WriterInv, LedgerInv, TypeInv, TypeOK
    <3> QED
      BY <1>1, <3>1
  <2>2. CASE v # w
    <3>1. pc'[v] = pc[v] /\ req'[v] = req[v]
      BY <2>2 DEF Goto, WriterInv, LedgerInv, TypeInv, TypeOK
    <3> QED
      BY <1>1, <3>1 DEF WriterInv
  <2> QED
    BY <2>1, <2>2
<1> QED
  BY <1>2, <1>3 DEF WriterInv

\* Writing row as the entry e that comes after all entries of its user makes it the
\* user's last, and changes nothing for the other users.
LEMMA LastBalanceAfter ==
  ASSUME NEW e \in EntryIds, NEW row \in EntryRow, ~Exists(ledger, e),
         ledger'[e] = row, \A f \in EntryIds : f # e => ledger'[f] = ledger[f],
         \A f \in EntryIds : Exists(ledger, f) /\ ledger[f].user = row.user => f < e,
         NEW u \in Users
  PROVE  LastBalance(u)' = IF u = row.user THEN row.balance_after ELSE LastBalance(u)
<1> DEFINE Own(table) == {f \in EntryIds : Exists(table, f) /\ table[f].user = u}
<1>1. LastBalance(u) = LastIn(ledger, u) /\ LastBalance(u)' = LastIn(ledger', u)
  BY DEF LastBalance, LastIn
<1>2. row # NoRow
  BY NoRowAssumption
<1>3. CASE u = row.user
  <2>1. e \in Own(ledger') /\ \A f \in Own(ledger') : f <= e
    BY <1>2, <1>3 DEF Exists, EntryIds
  <2>2. \A x \in Own(ledger') : (\A f \in Own(ledger') : f <= x) => x = e
    BY <2>1 DEF EntryIds
  <2> DEFINE last == CHOOSE x \in Own(ledger') : \A f \in Own(ledger') : f <= x
  <2>3. LastIn(ledger', u) = ledger'[last].balance_after
    BY <2>1 DEF LastIn
  <2>4. last = e
    <3> HIDE DEF Own
    <3> QED
      BY <2>1, <2>2
  <2> HIDE DEF last
  <2> QED
    BY <1>1, <1>3, <2>3, <2>4
<1>4. CASE u # row.user
  <2>1. Own(ledger') = Own(ledger)
    BY <1>2, <1>4 DEF Exists
  <2>2. CASE Own(ledger) = {}
    BY <1>1, <1>4, <2>1, <2>2 DEF LastIn
  <2>3. CASE Own(ledger) # {}
    <3> DEFINE last == CHOOSE x \in Own(ledger) : \A f \in Own(ledger) : f <= x
    <3>1. last \in Own(ledger)
      <4>1. Own(ledger) \in SUBSET EntryIds
        OBVIOUS
      <4> HIDE DEF Own
      <4>2. \E x \in Own(ledger) : \A f \in Own(ledger) : f <= x
        BY <2>3, <4>1, GreatestEntry
      <4> QED
        BY <4>2
    <3>2. LastIn(ledger, u) = ledger[last].balance_after
      BY <2>3 DEF LastIn
    <3>3. LastIn(ledger', u) = ledger'[last].balance_after
      BY <2>1, <2>3 DEF LastIn
    <3> HIDE DEF last
    <3>4. ledger'[last] = ledger[last]
      BY <3>1
    <3> QED
      BY <1>1, <1>4, <3>2, <3>3, <3>4
  <2> QED
    BY <2>2, <2>3
<1> QED
  BY <1>3, <1>4

\* The commit of w: no other transaction writes the ledger of its user.
LEMMA CommitKeepsWriterInv ==
  ASSUME WriterInv, LedgerInv', OneWriterPerUser', NEW w \in Workers,
         pc[w] = "commit", Goto(w, "idle", NoRequest),
         NEW row \in EntryRow, row.user = req[w].user, row.balance_after = req[w].balance,
         ledger' = [ledger EXCEPT ![req[w].entry] = row],
         \A u \in Users : LedgerBalance(u)' =
           IF u = req[w].user THEN LedgerBalance(u) + Change(req[w]) ELSE LedgerBalance(u)
  PROVE  WriterInv'
<1> DEFINE me == req[w].user
           e == req[w].entry
<1>1. /\ me \in Users /\ e \in EntryIds /\ ~Exists(ledger, e)
      /\ Current("commit", req[w], me, LedgerBalance(me), ledger)
  BY CommitFacts DEF WriterInv
<1>2. /\ req[w].balance = LedgerBalance(me) + Change(req[w])
      /\ req[w].balance <= LedgerCap
      /\ \A f \in EntryIds : Exists(ledger, f) /\ ledger[f].user = me => f < e
  BY <1>1 DEF Current
<1>3. ledger'[e] = row /\ \A f \in EntryIds : f # e => ledger'[f] = ledger[f]
  BY <1>1 DEF WriterInv, LedgerInv, TypeInv, TypeOK
<1>4. ASSUME NEW u \in Users
      PROVE  LastBalance(u)' = LedgerBalance(u)' /\ LedgerBalance(u)' <= LedgerCap
  <2>1. LastBalance(u)' = IF u = me THEN req[w].balance ELSE LastBalance(u)
    BY <1>1, <1>2, <1>3, LastBalanceAfter
  <2>2. LedgerBalance(u)' = IF u = me THEN req[w].balance ELSE LedgerBalance(u)
    BY <1>2
  <2>3. LastBalance(u) = LedgerBalance(u) /\ LedgerBalance(u) <= LedgerCap
    BY DEF WriterInv, ReconcileConsistent, OwedFitsLedger
  <2> QED
    BY <1>2, <2>1, <2>2, <2>3
<1>5. ASSUME NEW v \in Workers, NEW u \in Users
      PROVE  Current(pc'[v], req'[v], u, LedgerBalance(u)', ledger')
  <2>1. CASE v = w
    <3>1. pc'[v] = "idle"
      BY <2>1 DEF Goto, WriterInv, LedgerInv, TypeInv, TypeOK
    <3> QED
      BY <3>1 DEF Current
  <2>2. CASE v # w
    <3>1. pc'[v] = pc[v] /\ req'[v] = req[v]
      BY <2>2 DEF Goto, WriterInv, LedgerInv, TypeInv, TypeOK
    <3>2. pc[v] \in {"insertEntry", "commit"} => req[v].user # me
      BY <2>2 DEF WriterInv, OneWriterPerUser, Writing
    <3>3. Current(pc[v], req[v], u, LedgerBalance(u), ledger)
      BY DEF WriterInv
    <3>4. u # me => /\ LedgerBalance(u)' = LedgerBalance(u)
                    /\ \A f \in EntryIds : Exists(ledger', f) /\ ledger'[f].user = u =>
                         Exists(ledger, f) /\ ledger[f].user = u
      BY <1>3 DEF Exists
    <3> QED
      BY <3>1, <3>2, <3>3, <3>4 DEF Current
  <2> QED
    BY <2>1, <2>2
<1> QED
  BY <1>4, <1>5 DEF WriterInv, ReconcileConsistent, OwedFitsLedger

\* A commit adds to the balance of its user what its entry says.
LEMMA CommitChanges ==
  ASSUME LedgerInv, TypeInv', NEW w \in Workers, CommitCharge(w) \/ CommitPayment(w),
         NEW u \in Users
  PROVE  LedgerBalance(u)' =
           IF u = req[w].user THEN LedgerBalance(u) + Change(req[w]) ELSE LedgerBalance(u)
<1>1. req[w].amount \in Nat /\ LedgerBalance(u) \in Int
  BY TermTypes DEF LedgerInv, TypeInv, TypeOK, Request
<1>2. CASE CommitCharge(w)
  <2> DEFINE d == IF req[w].user = u THEN req[w].amount ELSE 0
  <2>1. d \in Int /\ Change(req[w]) = req[w].amount
    BY <1>1, <1>2 DEF CommitCharge, Change
  <2> QED
    BY <1>1, <1>2, <2>1, ChargeChanges
<1>3. CASE CommitPayment(w)
  <2> DEFINE d == IF req[w].user = u THEN -req[w].amount ELSE 0
  <2>1. d \in Int /\ Change(req[w]) = -req[w].amount
    BY <1>1, <1>3 DEF CommitPayment, Change
  <2> QED
    BY <1>1, <1>3, <2>1, PaymentChanges
<1> QED
  BY <1>2, <1>3

\* A step that leaves w before its entry and after its commit
LEMMA NotWritingYet ==
  ASSUME [Next]_vars, NEW w \in Workers,
         \/ Start(w) \/ Calculate(w) \/ NoCharge(w) \/ InsertBill(w) \/ MarkCdrs(w)
         \/ LockBill(w) \/ NotPayable(w) \/ MarkPaid(w) \/ OutOfRange(w) \/ Abort(w)
  PROVE  /\ ledger' = ledger
         /\ \E step, r : Goto(w, step, r) /\ step \notin {"insertEntry", "commit"}
<1>1. ledger' = ledger
  BY DEF Start, StartGenerate, StartPay, Calculate, NoCharge, InsertBill, MarkCdrs, LockBill,
         NotPayable, MarkPaid, OutOfRange, Abort, tables
<1>2. \E step \in {"calculate", "lockBill", "insertBill", "markCdrs", "readBalance", "markPaid",
                    "idle"} : \E r : Goto(w, step, r)
  BY DEF Start, StartGenerate, StartPay, Calculate, NoCharge, InsertBill, MarkCdrs, LockBill,
         NotPayable, MarkPaid, OutOfRange, Abort
<1> QED
  BY <1>1, <1>2

LEMMA WriterInvNext ==
  ASSUME WriterInv, [Next /\ OneWriterPerUser']_vars
  PROVE  WriterInv'
<1>0. LedgerInv' /\ TypeInv' /\ [Next]_vars
  BY LedgerInvNext DEF WriterInv, LedgerInv
<1>1. OneWriterPerUser'
  BY DEF vars, WriterInv, OneWriterPerUser, Writing
<1>2. ASSUME UNCHANGED <<ledger, pc, req>>
      PROVE  WriterInv'
  <2>1. \A u \in Users : LedgerBalance(u)' = LedgerBalance(u) /\ LastBalance(u)' = LastBalance(u)
    BY <1>2, BalanceStays, LastBalanceStays
  <2> QED
    BY <1>0, <1>1, <1>2, <2>1 DEF WriterInv, ReconcileConsistent, OwedFitsLedger
<1>3. ASSUME NEW w \in Workers,
             \/ Start(w) \/ Calculate(w) \/ NoCharge(w) \/ InsertBill(w) \/ MarkCdrs(w)
             \/ LockBill(w) \/ NotPayable(w) \/ MarkPaid(w) \/ OutOfRange(w) \/ Abort(w)
      PROVE  WriterInv'
  <2>1. /\ ledger' = ledger
        /\ \E step, r : Goto(w, step, r) /\ step \notin {"insertEntry", "commit"}
    BY <1>0, <1>3, NotWritingYet
  <2>2. PICK step, r : Goto(w, step, r) /\ step \notin {"insertEntry", "commit"}
    BY <2>1
  <2> QED
    BY <1>0, <1>1, <2>1, <2>2, LocalKeepsWriterInv DEF Current
<1>4. ASSUME NEW w \in Workers, ReadBalance(w)
      PROVE  WriterInv'
  <2> DEFINE owed == LedgerBalance(req[w].user)
             r == [req[w] EXCEPT !.balance = owed + Change(req[w])]
  <2>1. Goto(w, "insertEntry", r) /\ ledger' = ledger
    BY <1>4 DEF ReadBalance, Change, tables
  <2>2. r.user = req[w].user /\ r.balance = owed + Change(req[w]) /\ Change(r) = Change(req[w])
    BY DEF WriterInv, LedgerInv, TypeInv, TypeOK, Request, Change
  <2> HIDE DEF r
  <2>3. \A u \in Users : Current("insertEntry", r, u, LedgerBalance(u), ledger)
    BY <2>2 DEF Current
  <2> QED
    BY <1>0, <1>1, <2>1, <2>3, LocalKeepsWriterInv
<1>5. ASSUME NEW w \in Workers, InsertEntry(w)
      PROVE  WriterInv'
  <2> DEFINE r == [req[w] EXCEPT !.entry = nextEntry]
  <2>1. /\ Goto(w, "commit", r) /\ ledger' = ledger
        /\ pc[w] = "insertEntry" /\ req[w].balance \in -LedgerCap..LedgerCap
    BY <1>5 DEF InsertEntry, FitsLedger, tables
  <2>2. /\ r.user = req[w].user /\ r.balance = req[w].balance /\ r.entry = nextEntry
        /\ Change(r) = Change(req[w]) /\ r.balance <= LedgerCap
    BY <2>1, CapAssumption DEF WriterInv, LedgerInv, TypeInv, TypeOK, Request, Change
  <2>3. \A e \in EntryIds : Exists(ledger, e) => e < nextEntry
    BY BoundAssumption DEF WriterInv, LedgerInv, TypeInv, TypeOK, Unused, EntryIds
  <2> HIDE DEF r
  <2>4. \A u \in Users : Current("commit", r, u, LedgerBalance(u), ledger)
    BY <2>1, <2>2, <2>3 DEF WriterInv, Current
  <2> QED
    BY <1>0, <1>1, <2>1, <2>4, LocalKeepsWriterInv
<1>6. ASSUME NEW w \in Workers, CommitCharge(w) \/ CommitPayment(w)
      PROVE  WriterInv'
  <2>1. PICK type \in {"CHARGE", "PAYMENT"} :
          ledger' = [ledger EXCEPT ![req[w].entry] = NewEntry(w, type)]
    BY <1>6 DEF CommitCharge, CommitPayment
  <2> DEFINE row == NewEntry(w, type)
  <2>2. pc[w] = "commit" /\ Goto(w, "idle", NoRequest)
    BY <1>6 DEF CommitCharge, CommitPayment
  <2>3. row \in EntryRow /\ row.user = req[w].user /\ row.balance_after = req[w].balance
    BY <2>2, CommitFacts DEF WriterInv, NewEntry, EntryRow, Request
  <2>4. \A u \in Users : LedgerBalance(u)' =
          IF u = req[w].user THEN LedgerBalance(u) + Change(req[w]) ELSE LedgerBalance(u)
    BY <1>0, <1>6, CommitChanges DEF WriterInv
  <2> HIDE DEF row
  <2>5. ledger' = [ledger EXCEPT ![req[w].entry] = row]
    BY <2>1 DEF row
  <2> QED
    BY <1>0, <1>1, <2>2, <2>3, <2>4, <2>5, CommitKeepsWriterInv
<1>7. CASE Environment \/ UNCHANGED vars
  <2>1. UNCHANGED <<ledger, pc, req>>
    BY <1>7 DEF Environment, RecordUsage, TimePasses, UpdateRate, vars, tables
  <2> QED
    BY <1>2, <2>1
<1> QED
  BY <1>0, <1>3, <1>4, <1>5, <1>6, <1>7 DEF Next, Step

-----------------------------------------------------------------------------
(***************************************************************************)
(* What the disciplines give, side by side.                                *)
(***************************************************************************)

\* With or without a discipline billing behaves as BillingService says, so that all that
\* is proved of Spec holds of ConcurrentSpec.
THEOREM DisciplinesOnlyRestrict == ConcurrentSpec => Spec
<1>1. ConcurrentInit => Init
  BY DEF ConcurrentInit
<1>2. [ConcurrentNext]_<<vars, discipline>> => [Next]_vars
  BY DEF ConcurrentNext
<1> QED
  BY <1>1, <1>2, PTL DEF ConcurrentSpec, Spec

ConcurrentInv ==
  /\ discipline = "runs" => SerialInv
  /\ discipline = "writers" => WriterInv

LEMMA ConcurrentInvariant == ConcurrentSpec => []ConcurrentInv
<1>1. ConcurrentInit => ConcurrentInv
  BY SerialInvInit, WriterInvInit DEF ConcurrentInit, ConcurrentInv
<1>2. ConcurrentInv /\ [ConcurrentNext]_<<vars, discipline>> => ConcurrentInv'
  <2> SUFFICES ASSUME ConcurrentInv, [ConcurrentNext]_<<vars, discipline>>
               PROVE  ConcurrentInv'
    OBVIOUS
  <2>1. /\ discipline' = discipline
        /\ discipline = "runs" => [Next /\ OneRunPerUser']_vars
        /\ discipline = "writers" => [Next /\ OneWriterPerUser']_vars
    BY DEF ConcurrentNext
  <2> QED
    BY <2>1, SerialInvNext, WriterInvNext DEF ConcurrentInv
<1> QED
  BY <1>1, <1>2, PTL DEF ConcurrentSpec

\* An operator that has one billing run of a user in flight at a time, and restricts
\* nothing else, charges no CDR on two bills.
THEOREM RunsInTurn == ConcurrentSpec => []RunsInTurnBillOnce
<1>1. ConcurrentInv => RunsInTurnBillOnce
  BY DEF ConcurrentInv, SerialInv, ChargedOnce, RunsInTurnBillOnce, NoDoubleBilling
<1> QED
  BY <1>1, ConcurrentInvariant, PTL

\* A lock per user around the statements that write the ledger would be enough for
\* createBill and payBill to keep the running balance that reconcileLedger compares.
THEOREM WritersInTurn == ConcurrentSpec => []WritersInTurnReconcile
<1>1. ConcurrentInv => WritersInTurnReconcile
  BY DEF ConcurrentInv, WriterInv, WritersInTurnReconcile
<1> QED
  BY <1>1, ConcurrentInvariant, PTL

\* And for the column of balance_after to bound what a user owes.
THEOREM WritersStayInRange == ConcurrentSpec => []WritersInTurnFit
<1>1. ConcurrentInv => WritersInTurnFit
  BY DEF ConcurrentInv, WriterInv, WritersInTurnFit
<1> QED
  BY <1>1, ConcurrentInvariant, PTL
=============================================================================
