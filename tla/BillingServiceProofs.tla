------------------------ MODULE BillingServiceProofs ------------------------
(***************************************************************************)
(* Theorems about BillingService for every set of users, CDRs, requests    *)
(* and rates, and for every bound.                                         *)
(***************************************************************************)
EXTENDS BillingService, SumsProofs

-----------------------------------------------------------------------------
(***************************************************************************)
(* Type correctness.                                                       *)
(***************************************************************************)

\* What request r has found out by the time it reaches a step, when table holds
\* the bills
StepNeeds(step, r, table) ==
  /\ step \in {"calculate", "insertBill", "markCdrs"} => r.op = "generate"
  /\ step \in {"lockBill", "markPaid"} => r.op = "pay"
  /\ step \in {"readBalance", "insertEntry", "commit"} => r.op \in {"generate", "pay"}
  /\ step \notin {"idle", "lockBill"} => r.user \in Users
  /\ step \notin {"idle", "calculate", "insertBill"} => r.bill \in BillIds
  /\ step = "commit" => r.entry \in EntryIds
  /\ step \in {"markPaid", "readBalance", "insertEntry", "commit"} /\ r.op = "pay" =>
       Exists(table, r.bill)

RequestOK(w) == StepNeeds(pc[w], req[w], bills)

BillsKept == \A b \in BillIds : Exists(bills, b) => Exists(bills', b)

TypeInv == TypeOK /\ \A w \in Workers : RequestOK(w)

\* The balance a statement reads is an integer.
LEMMA BalanceIsInt ==
  ASSUME TypeOK, NEW u \in Users
  PROVE  LedgerBalance(u) \in Int
<1>1. Signed(u) \in [1..MaxEntries -> Int]
  BY DEF TypeOK, Signed, Exists, EntryRow, EntryIds
<1>2. MaxEntries \in Nat
  BY BoundAssumption
<1> QED
  BY <1>1, <1>2, SumType DEF LedgerBalance

\* A step of one worker leaves the other requests alone.
LEMMA GotoKeepsTypes ==
  ASSUME TypeInv, NEW w \in Workers, NEW step \in Steps, NEW r \in Request,
         Goto(w, step, r), StepNeeds(step, r, bills'), BillsKept
  PROVE  /\ pc' \in [Workers -> Steps]
         /\ req' \in [Workers -> Request]
         /\ \A v \in Workers : RequestOK(v)'
<1>1. pc' \in [Workers -> Steps] /\ req' \in [Workers -> Request]
  BY DEF TypeInv, TypeOK, Goto
<1>2. pc'[w] = step /\ req'[w] = r
  BY DEF TypeInv, TypeOK, Goto
<1>3. ASSUME NEW v \in Workers PROVE RequestOK(v)'
  <2>1. CASE v = w
    BY <1>2, <2>1 DEF RequestOK
  <2>2. CASE v # w
    <3>1. pc'[v] = pc[v] /\ req'[v] = req[v]
      BY <2>2 DEF TypeInv, TypeOK, Goto
    <3>2. pc[v] \in Steps /\ RequestOK(v)
      BY DEF TypeInv, TypeOK
    <3> QED
      BY <3>1, <3>2 DEF RequestOK, StepNeeds, BillsKept, Steps
  <2> QED
    BY <2>1, <2>2
<1> QED
  BY <1>1, <1>3

LEMMA NoRequestType == NoRequest \in Request /\ "idle" \in Steps
BY DEF NoRequest, Request, Steps

\* Going back to idle is well typed.
LEMMA EndKeepsTypes ==
  ASSUME TypeInv, NEW w \in Workers, Goto(w, "idle", NoRequest), BillsKept
  PROVE  /\ pc' \in [Workers -> Steps]
         /\ req' \in [Workers -> Request]
         /\ \A v \in Workers : RequestOK(v)'
<1>1. NoRequest \in Request /\ "idle" \in Steps
  BY NoRequestType
<1>2. StepNeeds("idle", NoRequest, bills')
  BY DEF StepNeeds
<1> QED
  BY <1>1, <1>2, GotoKeepsTypes

\* A step that writes no table is well typed when its request is.
LEMMA LocalStep ==
  ASSUME TypeInv, NEW w \in Workers, NEW step \in Steps, NEW r \in Request,
         Goto(w, step, r), StepNeeds(step, r, bills), UNCHANGED tables,
         nextBill' \in 1..(MaxBills + 1), nextEntry' \in 1..(MaxEntries + 1)
  PROVE  TypeInv'
<1>1. BillsKept /\ StepNeeds(step, r, bills')
  BY DEF BillsKept, tables
<1>2. /\ pc' \in [Workers -> Steps]
      /\ req' \in [Workers -> Request]
      /\ \A v \in Workers : RequestOK(v)'
  BY <1>1, GotoKeepsTypes
<1> QED
  BY <1>2 DEF TypeInv, TypeOK, tables

LEMMA TypeInvInit == Init => TypeInv
BY BoundAssumption, NoRequestType
   DEF Init, TypeInv, TypeOK, RequestOK, StepNeeds, Steps, BillIds, EntryIds

LEMMA TypeInvNext == TypeInv /\ [Next]_vars => TypeInv'
<1> SUFFICES ASSUME TypeInv, [Next]_vars PROVE TypeInv'
  OBVIOUS
<1>0. nextBill \in 1..(MaxBills + 1) /\ nextEntry \in 1..(MaxEntries + 1)
  BY DEF TypeInv, TypeOK
<1>1. CASE Environment
  <2>1. UNCHANGED <<bills, pc, req>>
    BY <1>1 DEF Environment, RecordUsage, TimePasses, UpdateRate
  <2>2. \A v \in Workers : RequestOK(v)'
    BY <2>1 DEF TypeInv, RequestOK
  <2>3. TypeOK'
    BY <1>1 DEF Environment, RecordUsage, TimePasses, UpdateRate, TypeInv, TypeOK, counters
  <2> QED
    BY <2>2, <2>3 DEF TypeInv
<1>2. ASSUME NEW w \in Workers, NEW u \in Users, StartGenerate(w, u)
      PROVE  TypeInv'
  <2> DEFINE r == [NoRequest EXCEPT !.op = "generate", !.user = u]
  <2>1. r \in Request /\ r.op = "generate" /\ r.user \in Users
    BY NoRequestType DEF Request
  <2>2. Goto(w, "calculate", r) /\ "calculate" \in Steps
    BY <1>2 DEF StartGenerate, Steps
  <2> HIDE DEF r
  <2>3. StepNeeds("calculate", r, bills)
    BY <2>1 DEF StepNeeds
  <2> QED
    BY <1>0, <1>2, <2>1, <2>2, <2>3, LocalStep DEF StartGenerate, counters
<1>3. ASSUME NEW w \in Workers, NEW b \in BillIds, StartPay(w, b)
      PROVE  TypeInv'
  <2> DEFINE r == [NoRequest EXCEPT !.op = "pay", !.bill = b]
  <2>1. r \in Request /\ r.op = "pay" /\ r.bill \in BillIds
    BY NoRequestType DEF Request
  <2>2. Goto(w, "lockBill", r) /\ "lockBill" \in Steps
    BY <1>3 DEF StartPay, Steps
  <2> HIDE DEF r
  <2>3. StepNeeds("lockBill", r, bills)
    BY <2>1 DEF StepNeeds
  <2> QED
    BY <1>0, <1>3, <2>1, <2>2, <2>3, LocalStep DEF StartPay, counters
<1>4. ASSUME NEW w \in Workers, Calculate(w)
      PROVE  TypeInv'
  <2> DEFINE logIds == Billable(req[w].user)
             r == [req[w] EXCEPT !.logIds = logIds, !.amount = Price(logIds, rates)]
  <2>1. logIds \in SUBSET Cdrs /\ Price(logIds, rates) \in Nat
    BY PriceAssumption DEF TypeInv, TypeOK, Billable
  <2>2. req[w] \in Request /\ StepNeeds("calculate", req[w], bills)
    BY <1>4 DEF TypeInv, TypeOK, RequestOK, Calculate
  <2> HIDE DEF logIds
  <2>3. r \in Request /\ StepNeeds("insertBill", r, bills)
    BY <2>1, <2>2 DEF Request, StepNeeds
  <2>4. Goto(w, "insertBill", r) /\ "insertBill" \in Steps
    BY <1>4 DEF Calculate, Steps, logIds
  <2> HIDE DEF r
  <2> QED
    BY <1>0, <1>4, <2>3, <2>4, LocalStep DEF Calculate, counters
<1>5. ASSUME NEW w \in Workers, InsertBill(w)
      PROVE  TypeInv'
  <2> DEFINE r == [req[w] EXCEPT !.bill = nextBill]
  <2>1. req[w] \in Request /\ StepNeeds("insertBill", req[w], bills)
    BY <1>5 DEF TypeInv, TypeOK, RequestOK, InsertBill
  <2>2. r \in Request /\ StepNeeds("markCdrs", r, bills)
    BY <1>5, <2>1 DEF Request, InsertBill, StepNeeds
  <2>3. Goto(w, "markCdrs", r) /\ "markCdrs" \in Steps
    BY <1>5 DEF InsertBill, Steps
  <2> HIDE DEF r
  <2>4. nextBill' \in 1..(MaxBills + 1) /\ nextEntry' \in 1..(MaxEntries + 1)
    BY <1>0, <1>5, BoundAssumption DEF InsertBill, BillIds
  <2> QED
    BY <1>5, <2>2, <2>3, <2>4, LocalStep DEF InsertBill
<1>6. ASSUME NEW w \in Workers, MarkCdrs(w) \/ MarkPaid(w)
      PROVE  TypeInv'
  <2>1. /\ req[w] \in Request
        /\ StepNeeds("markCdrs", req[w], bills) \/ StepNeeds("markPaid", req[w], bills)
    BY <1>6 DEF TypeInv, TypeOK, RequestOK, MarkCdrs, MarkPaid
  <2>2. StepNeeds("readBalance", req[w], bills)
    BY <2>1 DEF StepNeeds
  <2>3. Goto(w, "readBalance", req[w]) /\ "readBalance" \in Steps
    BY <1>6 DEF MarkCdrs, MarkPaid, Steps
  <2> QED
    BY <1>0, <1>6, <2>1, <2>2, <2>3, LocalStep DEF MarkCdrs, MarkPaid, counters
<1>7. ASSUME NEW w \in Workers, LockBill(w)
      PROVE  TypeInv'
  <2> DEFINE bill == bills[req[w].bill]
             r == [req[w] EXCEPT !.user = bill.user, !.amount = bill.amount]
  <2>1. req[w] \in Request /\ StepNeeds("lockBill", req[w], bills)
    BY <1>7 DEF TypeInv, TypeOK, RequestOK, LockBill
  <2>2. bill \in BillRow /\ Exists(bills, req[w].bill)
    BY <1>7, <2>1 DEF TypeInv, TypeOK, LockBill, Payable, Exists, StepNeeds
  <2>3. r \in Request /\ StepNeeds("markPaid", r, bills)
    BY <2>1, <2>2 DEF Request, BillRow, StepNeeds
  <2>4. Goto(w, "markPaid", r) /\ "markPaid" \in Steps
    BY <1>7 DEF LockBill, Steps
  <2> HIDE DEF r
  <2> QED
    BY <1>0, <1>7, <2>3, <2>4, LocalStep DEF LockBill, counters
<1>8. ASSUME NEW w \in Workers, ReadBalance(w)
      PROVE  TypeInv'
  <2> DEFINE change == IF req[w].op = "generate" THEN req[w].amount ELSE -req[w].amount
             balance == LedgerBalance(req[w].user) + change
             r == [req[w] EXCEPT !.balance = balance]
  <2>1. req[w] \in Request /\ StepNeeds("readBalance", req[w], bills)
    BY <1>8 DEF TypeInv, TypeOK, RequestOK, ReadBalance
  <2>2. LedgerBalance(req[w].user) \in Int
    BY <2>1, BalanceIsInt DEF TypeInv, StepNeeds
  <2>3. balance \in Int
    BY <2>1, <2>2 DEF Request
  <2> HIDE DEF balance
  <2>4. r \in Request /\ StepNeeds("insertEntry", r, bills)
    BY <2>1, <2>3 DEF Request, StepNeeds
  <2>5. Goto(w, "insertEntry", r) /\ "insertEntry" \in Steps
    BY <1>8 DEF ReadBalance, Steps, balance
  <2> HIDE DEF r
  <2> QED
    BY <1>0, <1>8, <2>4, <2>5, LocalStep DEF ReadBalance, counters
<1>9. ASSUME NEW w \in Workers, InsertEntry(w)
      PROVE  TypeInv'
  <2> DEFINE r == [req[w] EXCEPT !.entry = nextEntry]
  <2>1. req[w] \in Request /\ StepNeeds("insertEntry", req[w], bills)
    BY <1>9 DEF TypeInv, TypeOK, RequestOK, InsertEntry
  <2>2. r \in Request /\ StepNeeds("commit", r, bills)
    BY <1>9, <2>1 DEF Request, InsertEntry, StepNeeds
  <2>3. Goto(w, "commit", r) /\ "commit" \in Steps
    BY <1>9 DEF InsertEntry, Steps
  <2> HIDE DEF r
  <2>4. nextBill' \in 1..(MaxBills + 1) /\ nextEntry' \in 1..(MaxEntries + 1)
    BY <1>0, <1>9, BoundAssumption DEF InsertEntry, EntryIds
  <2> QED
    BY <1>9, <2>2, <2>3, <2>4, LocalStep DEF InsertEntry
<1>10. ASSUME NEW w \in Workers, NoCharge(w) \/ NotPayable(w) \/ OutOfRange(w) \/ Abort(w)
       PROVE  TypeInv'
  <2>1. Goto(w, "idle", NoRequest) /\ UNCHANGED <<tables, counters>>
    BY <1>10 DEF NoCharge, NotPayable, OutOfRange, Abort
  <2>2. StepNeeds("idle", NoRequest, bills)
    BY DEF StepNeeds
  <2> QED
    BY <1>0, <2>1, <2>2, NoRequestType, LocalStep DEF counters
<1>11. ASSUME NEW w \in Workers, CommitCharge(w)
       PROVE  TypeInv'
  <2>1. req[w] \in Request /\ StepNeeds("commit", req[w], bills)
    BY <1>11 DEF TypeInv, TypeOK, RequestOK, CommitCharge
  <2>2. NewEntry(w, "CHARGE") \in EntryRow
    BY <2>1 DEF NewEntry, EntryRow, Request, StepNeeds
  <2>3. [user |-> req[w].user, amount |-> req[w].amount, status |-> "UNPAID"] \in BillRow
    BY <2>1 DEF BillRow, Request, StepNeeds
  <2>4. bills' \in [BillIds -> BillRow \cup {NoRow}] /\ BillsKept
    BY <1>11, <2>3, NoRowAssumption DEF CommitCharge, TypeInv, TypeOK, BillsKept, Exists
  <2>5. /\ pc' \in [Workers -> Steps]
        /\ req' \in [Workers -> Request]
        /\ \A v \in Workers : RequestOK(v)'
    BY <1>11, <2>4, EndKeepsTypes DEF CommitCharge
  <2>6. ledger' \in [EntryIds -> EntryRow \cup {NoRow}]
    BY <1>11, <2>2 DEF CommitCharge, TypeInv, TypeOK
  <2>7. billOf' \in [Cdrs -> BillIds \cup {NoBill}]
    BY <1>11, <2>1 DEF CommitCharge, TypeInv, TypeOK, StepNeeds
  <2>8. charged' \in [BillIds -> SUBSET Cdrs]
    BY <1>11, <2>1 DEF CommitCharge, TypeInv, TypeOK, Request
  <2> QED
    BY <1>11, <2>4, <2>5, <2>6, <2>7, <2>8 DEF CommitCharge, TypeInv, TypeOK, counters
<1>12. ASSUME NEW w \in Workers, CommitPayment(w)
       PROVE  TypeInv'
  <2>1. req[w] \in Request /\ StepNeeds("commit", req[w], bills)
    BY <1>12 DEF TypeInv, TypeOK, RequestOK, CommitPayment
  <2>2. NewEntry(w, "PAYMENT") \in EntryRow
    BY <2>1 DEF NewEntry, EntryRow, Request, StepNeeds
  <2>3. bills[req[w].bill] \in BillRow
    BY <1>12, <2>1 DEF CommitPayment, TypeInv, TypeOK, StepNeeds, Exists
  <2>4. [bills[req[w].bill] EXCEPT !.status = "PAID"] \in BillRow
    BY <2>3 DEF BillRow
  <2>5. bills' \in [BillIds -> BillRow \cup {NoRow}] /\ BillsKept
    BY <1>12, <2>4, NoRowAssumption DEF CommitPayment, TypeInv, TypeOK, BillsKept, Exists
  <2>6. /\ pc' \in [Workers -> Steps]
        /\ req' \in [Workers -> Request]
        /\ \A v \in Workers : RequestOK(v)'
    BY <1>12, <2>5, EndKeepsTypes DEF CommitPayment
  <2>7. ledger' \in [EntryIds -> EntryRow \cup {NoRow}]
    BY <1>12, <2>2 DEF CommitPayment, TypeInv, TypeOK
  <2> QED
    BY <1>12, <2>5, <2>6, <2>7 DEF CommitPayment, TypeInv, TypeOK, counters
<1>13. CASE UNCHANGED vars
  <2>1. UNCHANGED <<bills, pc, req>>
    BY <1>13 DEF vars, tables
  <2>2. \A v \in Workers : RequestOK(v)'
    BY <2>1 DEF TypeInv, RequestOK
  <2> QED
    BY <1>13, <2>2 DEF vars, tables, counters, TypeInv, TypeOK
<1> QED
  BY <1>1, <1>2, <1>3, <1>4, <1>5, <1>6, <1>7, <1>8, <1>9, <1>10, <1>11, <1>12, <1>13
  DEF Next, Start, Step

\* Every reachable state is well typed.
THEOREM TypeCorrect == Spec => []TypeOK
<1>1. Spec => []TypeInv
  BY TypeInvInit, TypeInvNext, PTL DEF Spec
<1>2. TypeInv => TypeOK
  BY DEF TypeInv
<1> QED
  BY <1>1, <1>2, PTL

-----------------------------------------------------------------------------
(***************************************************************************)
(* The ledger accounts for the bills, in every interleaving of requests    *)
(* and failures.                                                           *)
(*                                                                         *)
(* LedgerMatchesBills speaks of committed rows only and is not inductive:  *)
(* LedgerInv adds what a transaction in flight may rely on.  The           *)
(* identifiers it was given are nobody else's, a bill it has inserted does *)
(* not exist for the others, and the bill it pays stays as it found it     *)
(* because it holds the row lock.                                          *)
(***************************************************************************)

WritingSteps == {"markCdrs", "markPaid", "readBalance", "insertEntry", "commit"}

\* Request r, about to do step, against the tables bs and es and the counters
\* nb and ne
Pending(step, r, bs, es, nb, ne) ==
  /\ step \in WritingSteps /\ r.op = "generate" => r.bill < nb /\ ~Exists(bs, r.bill)
  /\ step \in WritingSteps /\ r.op = "pay" =>
       /\ Exists(bs, r.bill)
       /\ bs[r.bill].status = "UNPAID"
       /\ bs[r.bill].user = r.user
       /\ bs[r.bill].amount = r.amount
  /\ step = "commit" => r.entry < ne /\ ~Exists(es, r.entry)

\* Two requests work on different bills and write different entries.
Apart(step, r, step2, r2) ==
  /\ step \in WritingSteps /\ step2 \in WritingSteps => r.bill # r2.bill
  /\ step = "commit" /\ step2 = "commit" => r.entry # r2.entry

\* Identifiers that AUTO_INCREMENT has not given out have no row.
Unused(table, ids, next) == \A i \in ids : i >= next => ~Exists(table, i)

LedgerInv ==
  /\ TypeInv
  /\ LedgerMatchesBills
  /\ Unused(bills, BillIds, nextBill)
  /\ Unused(ledger, EntryIds, nextEntry)
  /\ \A w \in Workers : Pending(pc[w], req[w], bills, ledger, nextBill, nextEntry)
  /\ \A v, w \in Workers : v # w => Apart(pc[v], req[v], pc[w], req[w])

LEMMA LedgerInvInit == Init => LedgerInv
<1> SUFFICES ASSUME Init PROVE LedgerInv
  OBVIOUS
<1>1. TypeInv
  BY TypeInvInit
<1>2. LedgerMatchesBills
  BY DEF Init, LedgerMatchesBills, Exists
<1> QED
  BY <1>1, <1>2 DEF Init, LedgerInv, Unused, Exists, Pending, Apart, WritingSteps

\* Steps that change no table this invariant is about
LEMMA FrameKeepsLedgerInv ==
  ASSUME LedgerInv, TypeInv', UNCHANGED <<bills, ledger, counters, pc, req>>
  PROVE  LedgerInv'
<1>1. LedgerMatchesBills'
  BY DEF LedgerInv, LedgerMatchesBills, ExactlyOneEntry, IsEntryOf
<1> QED
  BY <1>1 DEF LedgerInv, counters

\* A step of w that commits nothing keeps the invariant when w's request may do
\* the next step and stays apart from the others.
LEMMA LocalKeepsLedgerInv ==
  ASSUME LedgerInv, TypeInv', NEW w \in Workers, NEW step, NEW r,
         Goto(w, step, r), UNCHANGED tables,
         nextBill' \in Nat, nextBill' >= nextBill,
         nextEntry' \in Nat, nextEntry' >= nextEntry,
         Pending(step, r, bills, ledger, nextBill', nextEntry'),
         \A v \in Workers \ {w} : Apart(step, r, pc[v], req[v])
  PROVE  LedgerInv'
<1>0. bills' = bills /\ ledger' = ledger
  BY DEF tables
<1>1. LedgerMatchesBills'
  BY <1>0 DEF LedgerInv, LedgerMatchesBills, ExactlyOneEntry, IsEntryOf, Exists
<1>2. pc'[w] = step /\ req'[w] = r
  BY DEF Goto, LedgerInv, TypeInv, TypeOK
<1>3. \A v \in Workers \ {w} : pc'[v] = pc[v] /\ req'[v] = req[v]
  BY DEF Goto, LedgerInv, TypeInv, TypeOK
<1>4. nextBill \in Nat /\ nextEntry \in Nat
  BY BoundAssumption DEF LedgerInv, TypeInv, TypeOK
<1>5. Unused(bills, BillIds, nextBill)' /\ Unused(ledger, EntryIds, nextEntry)'
  BY <1>0, <1>4, BoundAssumption DEF LedgerInv, Unused, Exists, BillIds, EntryIds
<1>6. ASSUME NEW v \in Workers
      PROVE  Pending(pc[v], req[v], bills, ledger, nextBill, nextEntry)'
  <2>1. CASE v = w
    BY <1>0, <1>2, <2>1
  <2>2. CASE v # w
    <3>1. Pending(pc[v], req[v], bills, ledger, nextBill, nextEntry)
      BY DEF LedgerInv
    <3>2. pc'[v] = pc[v] /\ req'[v] = req[v]
      BY <1>3, <2>2
    <3>3. req[v] \in Request
      BY DEF LedgerInv, TypeInv, TypeOK
    <3> QED
      BY <1>0, <1>4, <3>1, <3>2, <3>3, BoundAssumption
         DEF Pending, Request, BillIds, EntryIds, NoBill, NoEntry
  <2> QED
    BY <2>1, <2>2
<1>7. ASSUME NEW u \in Workers, NEW v \in Workers, u # v
      PROVE  Apart(pc[u], req[u], pc[v], req[v])'
  <2>1. CASE u = w
    BY <1>2, <1>3, <1>7, <2>1
  <2>2. CASE v = w
    <3>1. Apart(step, r, pc[u], req[u])
      BY <1>7, <2>2
    <3> QED
      BY <1>2, <1>3, <1>7, <2>2, <3>1 DEF Apart
  <2>3. CASE u # w /\ v # w
    BY <1>3, <1>7, <2>3 DEF LedgerInv
  <2> QED
    BY <2>1, <2>2, <2>3
<1> QED
  BY <1>1, <1>5, <1>6, <1>7 DEF LedgerInv

\* No other request works on a bill whose row lock is free.
LEMMA FreeBillIsApart ==
  ASSUME LedgerInv, NEW w \in Workers, BillFree(w), NEW v \in Workers \ {w},
         pc[v] \in WritingSteps
  PROVE  req[w].bill # req[v].bill
BY DEF LedgerInv, TypeInv, RequestOK, StepNeeds, BillFree, HoldsBill, WritingSteps

\* The commit of w writes the row of its own bill and its own, unused entry.
LEMMA CommitFacts ==
  ASSUME LedgerInv, NEW w \in Workers, pc[w] = "commit"
  PROVE  /\ req[w] \in Request /\ req[w].op \in {"generate", "pay"}
         /\ req[w].user \in Users /\ req[w].bill \in BillIds /\ req[w].entry \in EntryIds
         /\ ~Exists(ledger, req[w].entry) /\ req[w].entry < nextEntry
         /\ Pending("commit", req[w], bills, ledger, nextBill, nextEntry)
BY DEF LedgerInv, TypeInv, TypeOK, RequestOK, StepNeeds, Pending

\* After the commit of w the other requests stand where they stood.
LEMMA CommitKeepsOthers ==
  ASSUME LedgerInv, NEW w \in Workers, pc[w] = "commit",
         Goto(w, "idle", NoRequest), UNCHANGED counters,
         \A b \in BillIds : b # req[w].bill => bills'[b] = bills[b],
         \A e \in EntryIds : e # req[w].entry => ledger'[e] = ledger[e]
  PROVE  /\ Unused(bills, BillIds, nextBill)' /\ Unused(ledger, EntryIds, nextEntry)'
         /\ \A v \in Workers : Pending(pc[v], req[v], bills, ledger, nextBill, nextEntry)'
         /\ \A u, v \in Workers : u # v => Apart(pc[u], req[u], pc[v], req[v])'
<1>1. pc'[w] = "idle" /\ \A v \in Workers \ {w} : pc'[v] = pc[v] /\ req'[v] = req[v]
  BY DEF Goto, LedgerInv, TypeInv, TypeOK
<1>2. req[w].bill < nextBill /\ req[w].entry < nextEntry
  <2>1. CASE req[w].op = "generate"
    BY <2>1 DEF LedgerInv, Pending, WritingSteps
  <2>2. CASE req[w].op = "pay"
    <3>1. Exists(bills, req[w].bill) /\ req[w].bill \in BillIds
      BY <2>2, CommitFacts DEF Pending, WritingSteps
    <3>2. ~(req[w].bill >= nextBill)
      BY <3>1 DEF LedgerInv, Unused
    <3> QED
      BY <3>1, <3>2, CommitFacts, BoundAssumption DEF LedgerInv, TypeInv, TypeOK, BillIds
  <2> QED
    BY <2>1, <2>2, CommitFacts
<1>3. nextBill' = nextBill /\ nextEntry' = nextEntry
  BY DEF counters
<1>4. Unused(bills, BillIds, nextBill)' /\ Unused(ledger, EntryIds, nextEntry)'
  <2>1. nextBill \in Nat /\ nextEntry \in Nat
    BY BoundAssumption DEF LedgerInv, TypeInv, TypeOK
  <2>2. req[w].bill \in BillIds /\ req[w].entry \in EntryIds
    BY CommitFacts
  <2>3. ASSUME NEW b \in BillIds, b >= nextBill PROVE ~Exists(bills', b)
    <3>1. b # req[w].bill
      BY <1>2, <2>1, <2>2, <2>3, BoundAssumption DEF BillIds
    <3> QED
      BY <2>3, <3>1 DEF LedgerInv, Unused, Exists
  <2>4. ASSUME NEW e \in EntryIds, e >= nextEntry PROVE ~Exists(ledger', e)
    <3>1. e # req[w].entry
      BY <1>2, <2>1, <2>2, <2>4, BoundAssumption DEF EntryIds
    <3> QED
      BY <2>4, <3>1 DEF LedgerInv, Unused, Exists
  <2> QED
    BY <1>3, <2>3, <2>4 DEF Unused
<1>5. ASSUME NEW v \in Workers
      PROVE  Pending(pc[v], req[v], bills, ledger, nextBill, nextEntry)'
  <2>1. CASE v = w
    BY <1>1, <2>1 DEF Pending, WritingSteps
  <2>2. CASE v # w
    <3>1. /\ Pending(pc[v], req[v], bills, ledger, nextBill, nextEntry)
          /\ Apart(pc[v], req[v], pc[w], req[w])
          /\ StepNeeds(pc[v], req[v], bills)
          /\ pc[v] \in Steps
      BY <2>2 DEF LedgerInv, TypeInv, TypeOK, RequestOK
    <3>2. pc'[v] = pc[v] /\ req'[v] = req[v]
      BY <1>1, <2>2
    <3>3. pc[v] \in WritingSteps => req[v].bill \in BillIds /\ req[v].bill # req[w].bill
      BY <3>1 DEF Apart, StepNeeds, WritingSteps
    <3>4. pc[v] = "commit" => req[v].entry \in EntryIds /\ req[v].entry # req[w].entry
      BY <3>1 DEF Apart, StepNeeds, WritingSteps
    <3> QED
      BY <1>3, <3>1, <3>2, <3>3, <3>4 DEF Pending, Exists, WritingSteps
  <2> QED
    BY <2>1, <2>2
<1>6. \A u, v \in Workers : u # v => Apart(pc[u], req[u], pc[v], req[v])'
  <2> TAKE u, v \in Workers
  <2>1. CASE u = w \/ v = w
    BY <1>1, <2>1 DEF Apart, WritingSteps
  <2>2. CASE u # w /\ v # w
    BY <1>1, <2>2 DEF LedgerInv
  <2> QED
    BY <2>1, <2>2
<1> QED
  BY <1>4, <1>5, <1>6

\* COMMIT of createBill: the bill gets its CHARGE and no PAYMENT.
LEMMA ChargeKeepsLedgerInv ==
  ASSUME LedgerInv, TypeInv', NEW w \in Workers, CommitCharge(w)
  PROVE  LedgerInv'
<1> DEFINE b == req[w].bill
           e == req[w].entry
<1>1. /\ b \in BillIds /\ e \in EntryIds
      /\ ~Exists(ledger, e) /\ ~Exists(bills, b)
  BY CommitFacts DEF CommitCharge, Pending, WritingSteps
<1>2. /\ bills'[b] = [user |-> req[w].user, amount |-> req[w].amount, status |-> "UNPAID"]
      /\ \A d \in BillIds : d # b => bills'[d] = bills[d]
      /\ ledger'[e] = NewEntry(w, "CHARGE")
      /\ \A f \in EntryIds : f # e => ledger'[f] = ledger[f]
  BY <1>1 DEF CommitCharge, LedgerInv, TypeInv, TypeOK
<1>3. Exists(bills', b) /\ Exists(ledger', e)
  <2>1. bills'[b] \in BillRow /\ ledger'[e] \in EntryRow
    BY <1>1, <1>2, CommitFacts DEF CommitCharge, BillRow, EntryRow, NewEntry, Request
  <2> QED
    BY <2>1, NoRowAssumption DEF Exists
<1>4. /\ ledger'[e].bill = b /\ ledger'[e].type = "CHARGE"
      /\ ledger'[e].user = bills'[b].user /\ ledger'[e].amount = bills'[b].amount
      /\ bills'[b].status = "UNPAID"
  BY <1>2 DEF NewEntry
<1>5. \A f \in EntryIds : Exists(ledger, f) => ledger[f].bill \in BillIds /\ ledger[f].bill # b
  BY <1>1 DEF LedgerInv, LedgerMatchesBills, TypeInv, TypeOK, EntryRow, Exists
<1> HIDE DEF b, e
<1>6. ASSUME NEW d \in BillIds, Exists(bills', d)
      PROVE  /\ ExactlyOneEntry(d, "CHARGE")'
             /\ bills'[d].status = "PAID" => ExactlyOneEntry(d, "PAYMENT")'
             /\ bills'[d].status = "UNPAID" => \A f \in EntryIds : ~IsEntryOf(f, d, "PAYMENT")'
  <2>1. CASE d = b
    <3>1. \A f \in EntryIds : IsEntryOf(f, d, "CHARGE")' <=> f = e
      BY <1>2, <1>3, <1>4, <1>5, <2>1 DEF IsEntryOf, Exists
    <3>2. \A f \in EntryIds : ~IsEntryOf(f, d, "PAYMENT")'
      BY <1>2, <1>4, <1>5, <2>1 DEF IsEntryOf, Exists
    <3> QED
      BY <1>1, <1>4, <2>1, <3>1, <3>2 DEF ExactlyOneEntry
  <2>2. CASE d # b
    <3>1. bills'[d] = bills[d] /\ Exists(bills, d)
      BY <1>2, <1>6, <2>2 DEF Exists
    <3>2. \A f \in EntryIds, t \in {"CHARGE", "PAYMENT"} :
            IsEntryOf(f, d, t)' <=> IsEntryOf(f, d, t)
      BY <1>1, <1>2, <1>4, <2>2 DEF IsEntryOf, Exists
    <3>3. /\ ExactlyOneEntry(d, "CHARGE")
          /\ bills[d].status = "PAID" => ExactlyOneEntry(d, "PAYMENT")
          /\ bills[d].status = "UNPAID" => \A f \in EntryIds : ~IsEntryOf(f, d, "PAYMENT")
      BY <3>1 DEF LedgerInv, LedgerMatchesBills
    <3> QED
      BY <3>1, <3>2, <3>3 DEF ExactlyOneEntry
  <2> QED
    BY <2>1, <2>2
<1>7. ASSUME NEW f \in EntryIds, Exists(ledger', f)
      PROVE  /\ Exists(bills', ledger'[f].bill)
             /\ bills'[ledger'[f].bill].user = ledger'[f].user
             /\ bills'[ledger'[f].bill].amount = ledger'[f].amount
  <2>1. CASE f = e
    BY <1>3, <1>4, <2>1
  <2>2. CASE f # e
    <3>1. ledger'[f] = ledger[f] /\ Exists(ledger, f)
      BY <1>2, <1>7, <2>2 DEF Exists
    <3>2. bills'[ledger[f].bill] = bills[ledger[f].bill]
      BY <1>2, <1>5, <3>1
    <3> QED
      BY <3>1, <3>2 DEF LedgerInv, LedgerMatchesBills, Exists
  <2> QED
    BY <2>1, <2>2
<1>8. LedgerMatchesBills'
  BY <1>6, <1>7 DEF LedgerMatchesBills, Exists
<1> QED
  BY <1>2, <1>8, CommitKeepsOthers DEF CommitCharge, LedgerInv, b, e

\* COMMIT of payBill: the bill was unpaid, so it had no PAYMENT and now has one.
LEMMA PaymentKeepsLedgerInv ==
  ASSUME LedgerInv, TypeInv', NEW w \in Workers, CommitPayment(w)
  PROVE  LedgerInv'
<1> DEFINE b == req[w].bill
           e == req[w].entry
<1>1. /\ b \in BillIds /\ e \in EntryIds
      /\ ~Exists(ledger, e) /\ Exists(bills, b)
      /\ bills[b].status = "UNPAID" /\ bills[b].user = req[w].user
      /\ bills[b].amount = req[w].amount
  BY CommitFacts DEF CommitPayment, Pending, WritingSteps
<1>2. /\ bills'[b] = [bills[b] EXCEPT !.status = "PAID"]
      /\ \A d \in BillIds : d # b => bills'[d] = bills[d]
      /\ ledger'[e] = NewEntry(w, "PAYMENT")
      /\ \A f \in EntryIds : f # e => ledger'[f] = ledger[f]
  BY <1>1 DEF CommitPayment, LedgerInv, TypeInv, TypeOK
<1>3. bills[b] \in BillRow
  BY <1>1 DEF LedgerInv, TypeInv, TypeOK, Exists
<1>4. /\ bills'[b].status = "PAID"
      /\ bills'[b].user = req[w].user /\ bills'[b].amount = req[w].amount
  BY <1>1, <1>2, <1>3 DEF BillRow
<1>5. Exists(bills', b) /\ Exists(ledger', e)
  <2>1. bills'[b] \in BillRow /\ ledger'[e] \in EntryRow
    BY <1>1, <1>2, <1>3, CommitFacts DEF CommitPayment, BillRow, EntryRow, NewEntry, Request
  <2> QED
    BY <2>1, NoRowAssumption DEF Exists
<1>6. /\ ledger'[e].bill = b /\ ledger'[e].type = "PAYMENT"
      /\ ledger'[e].user = req[w].user /\ ledger'[e].amount = req[w].amount
  BY <1>2 DEF NewEntry
<1> HIDE DEF b, e
<1>7. ASSUME NEW d \in BillIds, Exists(bills', d)
      PROVE  /\ ExactlyOneEntry(d, "CHARGE")'
             /\ bills'[d].status = "PAID" => ExactlyOneEntry(d, "PAYMENT")'
             /\ bills'[d].status = "UNPAID" => \A f \in EntryIds : ~IsEntryOf(f, d, "PAYMENT")'
  <2>1. Exists(bills, d)
    BY <1>1, <1>2, <1>7 DEF Exists
  <2>2. /\ ExactlyOneEntry(d, "CHARGE")
        /\ bills[d].status = "PAID" => ExactlyOneEntry(d, "PAYMENT")
        /\ bills[d].status = "UNPAID" => \A f \in EntryIds : ~IsEntryOf(f, d, "PAYMENT")
    BY <2>1 DEF LedgerInv, LedgerMatchesBills
  <2>3. \A f \in EntryIds : IsEntryOf(f, d, "CHARGE")' <=> IsEntryOf(f, d, "CHARGE")
    BY <1>1, <1>2, <1>6 DEF IsEntryOf, Exists
  <2>4. CASE d = b
    <3>1. \A f \in EntryIds : IsEntryOf(f, d, "PAYMENT")' <=> f = e
      BY <1>1, <1>2, <1>5, <1>6, <2>2, <2>4 DEF IsEntryOf, Exists
    <3> QED
      BY <1>1, <1>4, <2>2, <2>3, <2>4, <3>1 DEF ExactlyOneEntry
  <2>5. CASE d # b
    <3>1. \A f \in EntryIds : IsEntryOf(f, d, "PAYMENT")' <=> IsEntryOf(f, d, "PAYMENT")
      BY <1>1, <1>2, <1>6, <2>5 DEF IsEntryOf, Exists
    <3> QED
      BY <1>2, <2>2, <2>3, <2>5, <3>1 DEF ExactlyOneEntry
  <2> QED
    BY <2>4, <2>5
<1>8. ASSUME NEW f \in EntryIds, Exists(ledger', f)
      PROVE  /\ Exists(bills', ledger'[f].bill)
             /\ bills'[ledger'[f].bill].user = ledger'[f].user
             /\ bills'[ledger'[f].bill].amount = ledger'[f].amount
  <2>1. CASE f = e
    BY <1>4, <1>5, <1>6, <2>1
  <2>2. CASE f # e
    <3>1. ledger'[f] = ledger[f] /\ Exists(ledger, f)
      BY <1>2, <1>8, <2>2 DEF Exists
    <3>2. /\ ledger[f].bill \in BillIds /\ Exists(bills, ledger[f].bill)
          /\ bills[ledger[f].bill].user = ledger[f].user
          /\ bills[ledger[f].bill].amount = ledger[f].amount
      BY <3>1 DEF LedgerInv, LedgerMatchesBills, TypeInv, TypeOK, EntryRow, Exists
    <3>3. CASE ledger[f].bill = b
      BY <1>1, <1>4, <1>5, <3>1, <3>2, <3>3
    <3>4. CASE ledger[f].bill # b
      BY <1>2, <3>1, <3>2, <3>4 DEF Exists
    <3> QED
      BY <3>3, <3>4
  <2> QED
    BY <2>1, <2>2
<1>9. LedgerMatchesBills'
  BY <1>7, <1>8 DEF LedgerMatchesBills, Exists
<1> QED
  BY <1>2, <1>9, CommitKeepsOthers DEF CommitPayment, LedgerInv, b, e

LEMMA LedgerInvNext == LedgerInv /\ [Next]_vars => LedgerInv'
<1> SUFFICES ASSUME LedgerInv, [Next]_vars PROVE LedgerInv'
  OBVIOUS
<1>0. /\ TypeInv' /\ TypeOK
      /\ nextBill \in Nat /\ nextEntry \in Nat
  BY TypeInvNext, BoundAssumption DEF LedgerInv, TypeInv, TypeOK
<1>1. CASE Environment
  BY <1>0, <1>1, FrameKeepsLedgerInv DEF Environment, RecordUsage, TimePasses, UpdateRate
<1>2. ASSUME NEW w \in Workers, NEW u \in Users, StartGenerate(w, u)
      PROVE  LedgerInv'
  BY <1>0, <1>2, LocalKeepsLedgerInv
     DEF StartGenerate, counters, Pending, Apart, WritingSteps
<1>3. ASSUME NEW w \in Workers, NEW b \in BillIds, StartPay(w, b)
      PROVE  LedgerInv'
  BY <1>0, <1>3, LocalKeepsLedgerInv
     DEF StartPay, counters, Pending, Apart, WritingSteps
<1>4. ASSUME NEW w \in Workers, Calculate(w)
      PROVE  LedgerInv'
  BY <1>0, <1>4, LocalKeepsLedgerInv
     DEF Calculate, counters, Pending, Apart, WritingSteps
<1>5. ASSUME NEW w \in Workers, NoCharge(w) \/ NotPayable(w) \/ OutOfRange(w) \/ Abort(w)
      PROVE  LedgerInv'
  BY <1>0, <1>5, LocalKeepsLedgerInv
     DEF NoCharge, NotPayable, OutOfRange, Abort, counters, Pending, Apart, WritingSteps
<1>6. ASSUME NEW w \in Workers, InsertBill(w)
      PROVE  LedgerInv'
  <2> DEFINE r == [req[w] EXCEPT !.bill = nextBill]
  <2>1. r.bill = nextBill /\ r.op = "generate"
    BY <1>0, <1>6 DEF InsertBill, TypeOK, Request, LedgerInv, TypeInv, RequestOK, StepNeeds
  <2>2. Pending("markCdrs", r, bills, ledger, nextBill + 1, nextEntry)
    BY <1>0, <1>6, <2>1 DEF InsertBill, Pending, LedgerInv, Unused
  <2>3. ASSUME NEW v \in Workers \ {w} PROVE Apart("markCdrs", r, pc[v], req[v])
    <3>1. ASSUME pc[v] \in WritingSteps PROVE req[v].bill # nextBill
      <4>1. /\ Pending(pc[v], req[v], bills, ledger, nextBill, nextEntry)
            /\ req[v].op \in {"generate", "pay"} /\ req[v].bill \in BillIds
        BY <3>1 DEF LedgerInv, TypeInv, RequestOK, StepNeeds, WritingSteps
      <4>2. CASE req[v].op = "generate"
        BY <1>0, <3>1, <4>1, <4>2 DEF Pending
      <4>3. CASE req[v].op = "pay"
        BY <1>0, <1>6, <3>1, <4>1, <4>3 DEF Pending, LedgerInv, Unused, InsertBill
      <4> QED
        BY <4>1, <4>2, <4>3
    <3> QED
      BY <2>1, <3>1 DEF Apart
  <2>4. Goto(w, "markCdrs", r) /\ UNCHANGED tables /\ nextBill' = nextBill + 1 /\ nextEntry' = nextEntry
    BY <1>6 DEF InsertBill
  <2> HIDE DEF r
  <2> QED
    BY <1>0, <2>2, <2>3, <2>4, LocalKeepsLedgerInv
<1>7. ASSUME NEW w \in Workers, MarkCdrs(w) \/ MarkPaid(w)
      PROVE  LedgerInv'
  <2>1. pc[w] \in WritingSteps /\ pc[w] # "commit"
    BY <1>7 DEF MarkCdrs, MarkPaid, WritingSteps
  <2>2. Pending("readBalance", req[w], bills, ledger, nextBill, nextEntry)
    BY <2>1 DEF LedgerInv, Pending, WritingSteps
  <2>3. \A v \in Workers \ {w} : Apart("readBalance", req[w], pc[v], req[v])
    BY <2>1 DEF LedgerInv, Apart
  <2> QED
    BY <1>0, <1>7, <2>2, <2>3, LocalKeepsLedgerInv DEF MarkCdrs, MarkPaid, counters
<1>8. ASSUME NEW w \in Workers, LockBill(w)
      PROVE  LedgerInv'
  <2> DEFINE bill == bills[req[w].bill]
             r == [req[w] EXCEPT !.user = bill.user, !.amount = bill.amount]
  <2>1. /\ r.bill = req[w].bill /\ r.op = "pay"
        /\ r.user = bills[r.bill].user /\ r.amount = bills[r.bill].amount
        /\ Exists(bills, r.bill) /\ bills[r.bill].status = "UNPAID"
    BY <1>0, <1>8 DEF LockBill, TypeOK, Request, LedgerInv, TypeInv, RequestOK, StepNeeds, Payable
  <2>2. Goto(w, "markPaid", r) /\ UNCHANGED <<tables, counters>> /\ BillFree(w)
    BY <1>8 DEF LockBill
  <2> HIDE DEF r
  <2>3. Pending("markPaid", r, bills, ledger, nextBill, nextEntry)
    BY <2>1 DEF Pending
  <2>4. \A v \in Workers \ {w} : Apart("markPaid", r, pc[v], req[v])
    BY <2>1, <2>2, FreeBillIsApart DEF Apart
  <2> QED
    BY <1>0, <2>2, <2>3, <2>4, LocalKeepsLedgerInv DEF counters
<1>9. ASSUME NEW w \in Workers, ReadBalance(w)
      PROVE  LedgerInv'
  <2> DEFINE change == IF req[w].op = "generate" THEN req[w].amount ELSE -req[w].amount
             balance == LedgerBalance(req[w].user) + change
             r == [req[w] EXCEPT !.balance = balance]
  <2>0. Goto(w, "insertEntry", r) /\ UNCHANGED <<tables, counters>> /\ pc[w] = "readBalance"
    BY <1>9 DEF ReadBalance
  <2> HIDE DEF balance
  <2>1. /\ r.op = req[w].op /\ r.bill = req[w].bill
        /\ r.user = req[w].user /\ r.amount = req[w].amount
    BY <1>0 DEF TypeOK, Request
  <2> HIDE DEF r
  <2>2. Pending("insertEntry", r, bills, ledger, nextBill, nextEntry)
    BY <2>0, <2>1 DEF LedgerInv, Pending, WritingSteps
  <2>3. \A v \in Workers \ {w} : Apart("insertEntry", r, pc[v], req[v])
    BY <2>0, <2>1 DEF LedgerInv, Apart, WritingSteps
  <2> QED
    BY <1>0, <2>0, <2>2, <2>3, LocalKeepsLedgerInv DEF counters
<1>10. ASSUME NEW w \in Workers, InsertEntry(w)
       PROVE  LedgerInv'
  <2> DEFINE r == [req[w] EXCEPT !.entry = nextEntry]
  <2>0. /\ Goto(w, "commit", r) /\ UNCHANGED tables /\ nextBill' = nextBill
        /\ nextEntry' = nextEntry + 1 /\ pc[w] = "insertEntry" /\ nextEntry \in EntryIds
    BY <1>10 DEF InsertEntry
  <2>1. /\ r.op = req[w].op /\ r.bill = req[w].bill /\ r.entry = nextEntry
        /\ r.user = req[w].user /\ r.amount = req[w].amount
    BY <1>0 DEF TypeOK, Request
  <2> HIDE DEF r
  <2>2. ~Exists(ledger, nextEntry)
    BY <1>0, <2>0 DEF LedgerInv, Unused
  <2>3. Pending("commit", r, bills, ledger, nextBill, nextEntry + 1)
    BY <1>0, <2>0, <2>1, <2>2 DEF LedgerInv, Pending, WritingSteps
  <2>4. ASSUME NEW v \in Workers \ {w} PROVE Apart("commit", r, pc[v], req[v])
    <3>1. pc[v] = "commit" => req[v].entry < nextEntry /\ req[v].entry \in EntryIds
      BY CommitFacts
    <3>2. Apart(pc[w], req[w], pc[v], req[v])
      BY DEF LedgerInv
    <3> QED
      BY <1>0, <2>0, <2>1, <3>1, <3>2 DEF Apart, WritingSteps, EntryIds
  <2> QED
    BY <1>0, <2>0, <2>3, <2>4, LocalKeepsLedgerInv
<1>11. ASSUME NEW w \in Workers, CommitCharge(w) PROVE LedgerInv'
  BY <1>0, <1>11, ChargeKeepsLedgerInv
<1>12. ASSUME NEW w \in Workers, CommitPayment(w) PROVE LedgerInv'
  BY <1>0, <1>12, PaymentKeepsLedgerInv
<1>13. CASE UNCHANGED vars
  BY <1>0, <1>13, FrameKeepsLedgerInv DEF vars, tables
<1> QED
  BY <1>1, <1>2, <1>3, <1>4, <1>5, <1>6, <1>7, <1>8, <1>9, <1>10, <1>11, <1>12, <1>13
  DEF Next, Start, Step

LEMMA LedgerInvariant == Spec => []LedgerInv
BY LedgerInvInit, LedgerInvNext, PTL DEF Spec

\* In every reachable state the ledger accounts for the bills exactly: a bill is
\* charged once and paid at most once, whatever requests race, fail or are
\* retried.
THEOREM LedgerAlwaysMatchesBills == Spec => []LedgerMatchesBills
<1>1. LedgerInv => LedgerMatchesBills
  BY DEF LedgerInv
<1> QED
  BY <1>1, LedgerInvariant, PTL

-----------------------------------------------------------------------------
(***************************************************************************)
(* Marks and bills agree.                                                  *)
(***************************************************************************)

\* A bill that is not committed has charged for nothing.  Without this a commit
\* could forget the CDRs of an earlier bill of the same identifier.
ChargedIfCommitted == \A b \in BillIds : ~Exists(bills, b) => charged[b] = {}

MarkInv == LedgerInv /\ BilledIffCharged /\ ChargedIfCommitted

LEMMA MarkInvInit == Init => MarkInv
<1>1. Init => BilledIffCharged /\ ChargedIfCommitted
  BY DEF Init, BilledIffCharged, ChargedIfCommitted
<1> QED
  BY <1>1, LedgerInvInit DEF MarkInv

LEMMA ChargeKeepsMarks ==
  ASSUME MarkInv, NEW w \in Workers, CommitCharge(w)
  PROVE  BilledIffCharged' /\ ChargedIfCommitted'
<1> DEFINE b == req[w].bill
           marked == req[w].logIds
<1>1. /\ b \in BillIds /\ b # NoBill /\ marked \subseteq Cdrs
      /\ ~Exists(bills, b)
  BY CommitFacts DEF CommitCharge, MarkInv, Pending, WritingSteps, Request, BillIds, NoBill
<1>2. /\ billOf' = [c \in Cdrs |-> IF c \in marked THEN b ELSE billOf[c]]
      /\ charged'[b] = marked
      /\ \A d \in BillIds : d # b => charged'[d] = charged[d]
      /\ \A d \in BillIds : d # b => bills'[d] = bills[d]
  BY <1>1 DEF CommitCharge, MarkInv, LedgerInv, TypeInv, TypeOK
<1>3. billOf \in [Cdrs -> BillIds \cup {NoBill}]
  BY DEF MarkInv, LedgerInv, TypeInv, TypeOK
<1>4. charged[b] = {}
  BY <1>1 DEF MarkInv, ChargedIfCommitted
<1>5. bills'[b] # NoRow
  <2>1. [user |-> req[w].user, amount |-> req[w].amount, status |-> "UNPAID"] \in BillRow
    BY CommitFacts DEF BillRow, Request, CommitCharge, MarkInv
  <2> QED
    BY <1>1, <2>1, NoRowAssumption DEF CommitCharge, MarkInv, LedgerInv, TypeInv, TypeOK
<1> HIDE DEF b, marked
<1>6. BilledIffCharged'
  <2>1. ASSUME NEW c \in Cdrs
        PROVE  /\ billOf'[c] # NoBill => c \in charged'[billOf'[c]]
               /\ billOf'[c] = NoBill => \A d \in BillIds : c \notin charged'[d]
    <3>1. CASE c \in marked
      BY <1>1, <1>2, <3>1
    <3>2. CASE c \notin marked
      BY <1>1, <1>2, <1>3, <1>4, <3>2 DEF MarkInv, BilledIffCharged
    <3> QED
      BY <3>1, <3>2
  <2> QED
    BY <2>1 DEF BilledIffCharged
<1>7. ChargedIfCommitted'
  BY <1>2, <1>5 DEF MarkInv, ChargedIfCommitted, Exists
<1> QED
  BY <1>6, <1>7

LEMMA PaymentKeepsBills ==
  ASSUME LedgerInv, NEW w \in Workers, CommitPayment(w)
  PROVE  BillsKept
<1>1. bills[req[w].bill] \in BillRow
  BY CommitFacts DEF CommitPayment, LedgerInv, TypeInv, TypeOK, Pending, WritingSteps, Exists
<1>2. [bills[req[w].bill] EXCEPT !.status = "PAID"] \in BillRow
  BY <1>1 DEF BillRow
<1> QED
  BY <1>2, NoRowAssumption DEF CommitPayment, LedgerInv, TypeInv, TypeOK, BillsKept, Exists

\* The steps other than the two commits touch neither bills nor marks.
LEMMA OnlyCommitsMark ==
  ASSUME [Next]_vars,
         \A w \in Workers : ~CommitCharge(w) /\ ~CommitPayment(w)
  PROVE  UNCHANGED <<bills, billOf, charged>>
<1>1. CASE Environment
  BY <1>1 DEF Environment, RecordUsage, TimePasses, UpdateRate
<1>2. ASSUME NEW w \in Workers, Start(w) \/ Step(w) \/ Abort(w)
      PROVE  UNCHANGED tables
  BY <1>2 DEF Start, Step, StartGenerate, Calculate, NoCharge, InsertBill, MarkCdrs, StartPay,
              LockBill, NotPayable, MarkPaid, ReadBalance, InsertEntry, OutOfRange, Abort
<1>3. CASE UNCHANGED vars
  BY <1>3 DEF vars, tables
<1> QED
  BY <1>1, <1>2, <1>3 DEF Next, tables

LEMMA MarkInvNext ==
  ASSUME MarkInv, [Next]_vars
  PROVE  MarkInv'
<1>1. LedgerInv'
  BY LedgerInvNext DEF MarkInv
<1>2. ASSUME NEW w \in Workers, CommitCharge(w)
      PROVE  BilledIffCharged' /\ ChargedIfCommitted'
  BY <1>2, ChargeKeepsMarks
<1>3. ASSUME NEW w \in Workers, CommitPayment(w)
      PROVE  BilledIffCharged' /\ ChargedIfCommitted'
  <2>1. BillsKept /\ UNCHANGED <<billOf, charged>>
    BY <1>3, PaymentKeepsBills DEF MarkInv, CommitPayment
  <2> QED
    BY <2>1 DEF MarkInv, BilledIffCharged, ChargedIfCommitted, BillsKept, Exists
<1>4. ASSUME \A w \in Workers : ~CommitCharge(w) /\ ~CommitPayment(w)
      PROVE  BilledIffCharged' /\ ChargedIfCommitted'
  <2>1. UNCHANGED <<bills, billOf, charged>>
    BY <1>4, OnlyCommitsMark
  <2> QED
    BY <2>1 DEF MarkInv, BilledIffCharged, ChargedIfCommitted, Exists
<1>5. BilledIffCharged' /\ ChargedIfCommitted'
  BY <1>2, <1>3, <1>4, Zenon
<1> QED
  BY <1>1, <1>5 DEF MarkInv

\* In every reachable state a CDR has billed = TRUE exactly when a committed bill
\* charged for it: createBill's bill and marks succeed or fail together.
THEOREM MarksMatchBills == Spec => []BilledIffCharged
<1>1. MarkInv /\ [Next]_vars => MarkInv'
  BY MarkInvNext
<1>2. MarkInv => BilledIffCharged
  BY DEF MarkInv
<1> QED
  BY <1>1, <1>2, MarkInvInit, PTL DEF Spec

-----------------------------------------------------------------------------
(***************************************************************************)
(* The amounts.  What the ledger says a user owes is, after every commit,  *)
(* the sum of the user's unpaid bills.  From this follows that no stored   *)
(* balance is negative, stale or not: the payment of a bill subtracts one  *)
(* of the amounts whose sum was read.                                      *)
(***************************************************************************)

\* A sum changes by as much as the one term that changes.
LEMMA SumChange ==
  ASSUME NEW n \in Nat, NEW f \in [1..n -> Int], NEW g \in [1..n -> Int],
         NEW k \in 1..n, NEW d \in Int, g[k] = f[k] + d,
         \A i \in 1..n : i # k => g[i] = f[i]
  PROVE  SumUpTo(g, n) = SumUpTo(f, n) + d
<1>1. SumUpTo(g, n) = SumUpTo(f, n) + g[k] - f[k]
  BY SumDiffersAt
<1>2. SumUpTo(f, n) \in Int /\ f[k] \in Int
  BY SumType
<1> QED
  BY <1>1, <1>2

LEMMA TermTypes ==
  ASSUME TypeOK, NEW u \in Users
  PROVE  /\ Signed(u) \in [1..MaxEntries -> Int]
         /\ UnpaidOf(u) \in [1..MaxBills -> Int]
         /\ LedgerBalance(u) \in Int
         /\ SumUpTo(UnpaidOf(u), MaxBills) \in Int
<1>1. Signed(u) \in [1..MaxEntries -> Int]
  BY DEF TypeOK, Signed, Exists, EntryRow, EntryIds
<1>2. UnpaidOf(u) \in [1..MaxBills -> Int]
  BY DEF TypeOK, UnpaidOf, Exists, BillRow, BillIds
<1> QED
  BY <1>1, <1>2, BoundAssumption, BalanceIsInt, SumType

\* What the commit of w changes for user u
LEMMA ChargeChanges ==
  ASSUME LedgerInv, TypeInv', NEW w \in Workers, CommitCharge(w), NEW u \in Users,
         NEW d \in Int, d = IF req[w].user = u THEN req[w].amount ELSE 0
  PROVE  /\ LedgerBalance(u)' = LedgerBalance(u) + d
         /\ SumUpTo(UnpaidOf(u), MaxBills)' = SumUpTo(UnpaidOf(u), MaxBills) + d
<1> DEFINE b == req[w].bill
           e == req[w].entry
<1>1. /\ b \in 1..MaxBills /\ e \in 1..MaxEntries
      /\ ~Exists(ledger, e) /\ ~Exists(bills, b)
  BY CommitFacts DEF CommitCharge, Pending, WritingSteps, BillIds, EntryIds
<1>2. TypeOK /\ TypeOK'
  BY DEF LedgerInv, TypeInv
<1>3. /\ bills'[b] = [user |-> req[w].user, amount |-> req[w].amount, status |-> "UNPAID"]
      /\ \A i \in BillIds : i # b => bills'[i] = bills[i]
      /\ ledger'[e] = [user |-> req[w].user, bill |-> b, type |-> "CHARGE",
                       amount |-> req[w].amount, balance_after |-> req[w].balance]
      /\ \A i \in EntryIds : i # e => ledger'[i] = ledger[i]
  BY <1>1, <1>2 DEF CommitCharge, TypeOK, NewEntry, BillIds, EntryIds
<1>4. Exists(bills', b) /\ Exists(ledger', e)
  <2>1. bills'[b] \in BillRow /\ ledger'[e] \in EntryRow
    BY <1>1, <1>3, CommitFacts DEF CommitCharge, BillRow, EntryRow, Request
  <2> QED
    BY <2>1, NoRowAssumption DEF Exists
<1>5. /\ Signed(u) \in [1..MaxEntries -> Int] /\ UnpaidOf(u) \in [1..MaxBills -> Int]
      /\ Signed(u)' \in [1..MaxEntries -> Int] /\ UnpaidOf(u)' \in [1..MaxBills -> Int]
  <2>1. TypeOK => Signed(u) \in [1..MaxEntries -> Int] /\ UnpaidOf(u) \in [1..MaxBills -> Int]
    BY TermTypes
  <2>2. (TypeOK => Signed(u) \in [1..MaxEntries -> Int] /\ UnpaidOf(u) \in [1..MaxBills -> Int])'
    BY TermTypes, PTL
  <2> QED
    BY <1>2, <2>1, <2>2
<1> HIDE DEF b, e
<1>6. /\ Signed(u)'[e] = Signed(u)[e] + d
      /\ \A i \in 1..MaxEntries : i # e => Signed(u)'[i] = Signed(u)[i]
  BY <1>1, <1>3, <1>4, <1>5 DEF Signed, Exists, EntryIds
<1>7. /\ UnpaidOf(u)'[b] = UnpaidOf(u)[b] + d
      /\ \A i \in 1..MaxBills : i # b => UnpaidOf(u)'[i] = UnpaidOf(u)[i]
  BY <1>1, <1>3, <1>4, <1>5 DEF UnpaidOf, Exists, BillIds
<1>8. SumUpTo(Signed(u)', MaxEntries) = SumUpTo(Signed(u), MaxEntries) + d
  <2> HIDE DEF Signed
  <2> QED
    BY <1>1, <1>5, <1>6, SumChange, BoundAssumption
<1>9. SumUpTo(UnpaidOf(u)', MaxBills) = SumUpTo(UnpaidOf(u), MaxBills) + d
  BY <1>1, <1>5, <1>7, SumChange, BoundAssumption
<1> QED
  BY <1>8, <1>9 DEF LedgerBalance

\* A payment takes the amount of its bill off both.
LEMMA PaymentChanges ==
  ASSUME LedgerInv, TypeInv', NEW w \in Workers, CommitPayment(w), NEW u \in Users,
         NEW d \in Int, d = IF req[w].user = u THEN -req[w].amount ELSE 0
  PROVE  /\ LedgerBalance(u)' = LedgerBalance(u) + d
         /\ SumUpTo(UnpaidOf(u), MaxBills)' = SumUpTo(UnpaidOf(u), MaxBills) + d
<1> DEFINE b == req[w].bill
           e == req[w].entry
<1>1. /\ b \in 1..MaxBills /\ e \in 1..MaxEntries
      /\ ~Exists(ledger, e) /\ Exists(bills, b)
      /\ bills[b].status = "UNPAID" /\ bills[b].user = req[w].user
      /\ bills[b].amount = req[w].amount /\ req[w].amount \in Nat
  BY CommitFacts DEF CommitPayment, Pending, WritingSteps, BillIds, EntryIds, Request
<1>2. TypeOK /\ TypeOK'
  BY DEF LedgerInv, TypeInv
<1>3. /\ bills'[b] = [bills[b] EXCEPT !.status = "PAID"]
      /\ \A i \in BillIds : i # b => bills'[i] = bills[i]
      /\ ledger'[e] = [user |-> req[w].user, bill |-> b, type |-> "PAYMENT",
                       amount |-> req[w].amount, balance_after |-> req[w].balance]
      /\ \A i \in EntryIds : i # e => ledger'[i] = ledger[i]
  BY <1>1, <1>2 DEF CommitPayment, TypeOK, NewEntry, BillIds, EntryIds
<1>4. Exists(ledger', e) /\ bills'[b].status = "PAID"
  <2>1. ledger'[e] \in EntryRow
    BY <1>1, <1>3, CommitFacts DEF CommitPayment, EntryRow, Request, BillIds
  <2>2. bills[b] \in BillRow
    BY <1>1, <1>2 DEF TypeOK, Exists, BillIds
  <2> QED
    BY <1>3, <2>1, <2>2, NoRowAssumption DEF Exists, BillRow
<1>5. /\ Signed(u) \in [1..MaxEntries -> Int] /\ UnpaidOf(u) \in [1..MaxBills -> Int]
      /\ Signed(u)' \in [1..MaxEntries -> Int] /\ UnpaidOf(u)' \in [1..MaxBills -> Int]
  <2>1. TypeOK => Signed(u) \in [1..MaxEntries -> Int] /\ UnpaidOf(u) \in [1..MaxBills -> Int]
    BY TermTypes
  <2>2. (TypeOK => Signed(u) \in [1..MaxEntries -> Int] /\ UnpaidOf(u) \in [1..MaxBills -> Int])'
    BY TermTypes, PTL
  <2> QED
    BY <1>2, <2>1, <2>2
<1> HIDE DEF b, e
<1>6. /\ Signed(u)'[e] = Signed(u)[e] + d
      /\ \A i \in 1..MaxEntries : i # e => Signed(u)'[i] = Signed(u)[i]
  BY <1>1, <1>3, <1>4, <1>5 DEF Signed, Exists, EntryIds
<1>7. /\ UnpaidOf(u)'[b] = UnpaidOf(u)[b] + d
      /\ \A i \in 1..MaxBills : i # b => UnpaidOf(u)'[i] = UnpaidOf(u)[i]
  <2>1. \A i \in 1..MaxBills : i # b => UnpaidOf(u)'[i] = UnpaidOf(u)[i]
    BY <1>1, <1>3, <1>5 DEF UnpaidOf, Exists, BillIds
  <2>2. UnpaidOf(u)'[b] = 0
    BY <1>1, <1>4, <1>5 DEF UnpaidOf, BillIds
  <2>3. UnpaidOf(u)[b] = IF req[w].user = u THEN req[w].amount ELSE 0
    BY <1>1, <1>5 DEF UnpaidOf, BillIds
  <2> QED
    BY <1>1, <2>1, <2>2, <2>3
<1>8. SumUpTo(Signed(u)', MaxEntries) = SumUpTo(Signed(u), MaxEntries) + d
  BY <1>1, <1>5, <1>6, SumChange, BoundAssumption
<1>9. SumUpTo(UnpaidOf(u)', MaxBills) = SumUpTo(UnpaidOf(u), MaxBills) + d
  BY <1>1, <1>5, <1>7, SumChange, BoundAssumption
<1> QED
  BY <1>8, <1>9 DEF LedgerBalance

\* The steps other than the two commits leave the ledger alone too.
LEMMA OnlyCommitsWrite ==
  ASSUME [Next]_vars,
         \A w \in Workers : ~CommitCharge(w) /\ ~CommitPayment(w)
  PROVE  UNCHANGED <<bills, ledger, charged>>
<1>1. CASE Environment
  BY <1>1 DEF Environment, RecordUsage, TimePasses, UpdateRate
<1>2. ASSUME NEW w \in Workers, Start(w) \/ Step(w) \/ Abort(w)
      PROVE  UNCHANGED tables
  BY <1>2 DEF Start, Step, StartGenerate, Calculate, NoCharge, InsertBill, MarkCdrs, StartPay,
              LockBill, NotPayable, MarkPaid, ReadBalance, InsertEntry, OutOfRange, Abort
<1>3. CASE UNCHANGED vars
  BY <1>3 DEF vars, tables
<1> QED
  BY <1>1, <1>2, <1>3 DEF Next, tables

LEMMA OwedInit == Init => LedgerOwesUnpaid
<1> SUFFICES ASSUME Init, NEW u \in Users
             PROVE  LedgerBalance(u) = SumUpTo(UnpaidOf(u), MaxBills)
  BY DEF LedgerOwesUnpaid
<1>1. Signed(u) \in [1..MaxEntries -> Int] /\ UnpaidOf(u) \in [1..MaxBills -> Int]
  BY TypeInvInit, TermTypes DEF TypeInv
<1>2. /\ \A i \in 1..MaxEntries : Signed(u)[i] = 0
      /\ \A i \in 1..MaxBills : UnpaidOf(u)[i] = 0
  BY DEF Init, Signed, UnpaidOf, Exists, EntryIds, BillIds
<1> QED
  BY <1>1, <1>2, SumOfZeros, BoundAssumption DEF LedgerBalance

LEMMA OwedNext ==
  ASSUME LedgerInv, LedgerOwesUnpaid, [Next]_vars
  PROVE  LedgerOwesUnpaid'
<1> SUFFICES ASSUME NEW u \in Users
             PROVE  LedgerBalance(u)' = SumUpTo(UnpaidOf(u), MaxBills)'
  BY DEF LedgerOwesUnpaid
<1>1. TypeInv' /\ TypeOK
  BY LedgerInvNext DEF LedgerInv, TypeInv
<1>2. /\ LedgerBalance(u) = SumUpTo(UnpaidOf(u), MaxBills)
      /\ \A w \in Workers : req[w].amount \in Nat
  BY <1>1 DEF LedgerOwesUnpaid, TypeOK, Request
<1>3. ASSUME NEW w \in Workers, CommitCharge(w)
      PROVE  LedgerBalance(u)' = SumUpTo(UnpaidOf(u), MaxBills)'
  <2> DEFINE d == IF req[w].user = u THEN req[w].amount ELSE 0
  <2>1. d \in Int
    BY <1>2
  <2> QED
    BY <1>1, <1>2, <1>3, <2>1, ChargeChanges
<1>4. ASSUME NEW w \in Workers, CommitPayment(w)
      PROVE  LedgerBalance(u)' = SumUpTo(UnpaidOf(u), MaxBills)'
  <2> DEFINE d == IF req[w].user = u THEN -req[w].amount ELSE 0
  <2>1. d \in Int
    BY <1>2
  <2> QED
    BY <1>1, <1>2, <1>4, <2>1, PaymentChanges
<1>5. ASSUME \A w \in Workers : ~CommitCharge(w) /\ ~CommitPayment(w)
      PROVE  LedgerBalance(u)' = SumUpTo(UnpaidOf(u), MaxBills)'
  BY <1>2, <1>5, OnlyCommitsWrite DEF LedgerBalance, Signed, UnpaidOf, Exists
<1> QED
  BY <1>3, <1>4, <1>5

OwedInv == LedgerInv /\ LedgerOwesUnpaid

LEMMA OwedInvariant == Spec => []OwedInv
<1>1. Init => OwedInv
  BY LedgerInvInit, OwedInit DEF OwedInv
<1>2. OwedInv /\ [Next]_vars => OwedInv'
  BY LedgerInvNext, OwedNext DEF OwedInv
<1> QED
  BY <1>1, <1>2, PTL DEF Spec

\* In every reachable state what the ledger says a user owes is the sum of the
\* user's unpaid bills: reconcileLedger's third cross-check never fails.
THEOREM LedgerOwesWhatIsUnpaid == Spec => []LedgerOwesUnpaid
<1>1. OwedInv => LedgerOwesUnpaid
  BY DEF OwedInv
<1> QED
  BY <1>1, OwedInvariant, PTL

-----------------------------------------------------------------------------
(***************************************************************************)
(* The amount a request carries is the price of what it bills, and the     *)
(* balance it has computed is not negative.                                *)
(***************************************************************************)

IsPrice(amount, S) == \E r \in [Services -> Rates \cup {0}] : amount = Price(S, r)

\* Request r, about to do step, has the figures its commit will write.
Sound(step, r) ==
  /\ r.op = "generate" /\ step \in WritingSteps \cup {"insertBill"} => IsPrice(r.amount, r.logIds)
  /\ r.op = "generate" /\ step \in WritingSteps => r.amount > 0
  /\ r.op = "generate" /\ step = "commit" => r.amount \in 1..LedgerCap
  /\ step \in {"insertEntry", "commit"} => r.balance >= 0

AmountInv ==
  /\ OwedInv
  /\ BalanceNeverNegative
  /\ BillIsPriced
  /\ \A w \in Workers : Sound(pc[w], req[w])

LEMMA AmountInit == Init => AmountInv
<1> SUFFICES ASSUME Init PROVE AmountInv
  OBVIOUS
<1>1. OwedInv
  BY LedgerInvInit, OwedInit DEF OwedInv
<1>2. BalanceNeverNegative /\ BillIsPriced
  BY DEF Init, BalanceNeverNegative, BillIsPriced, Exists
<1>3. \A w \in Workers : Sound(pc[w], req[w])
  BY DEF Init, Sound, WritingSteps
<1> QED
  BY <1>1, <1>2, <1>3 DEF AmountInv

\* What a user owes covers any of the user's unpaid bills.
LEMMA OwedCoversBill ==
  ASSUME OwedInv, NEW b \in BillIds, Exists(bills, b), bills[b].status = "UNPAID"
  PROVE  LedgerBalance(bills[b].user) >= bills[b].amount
<1> DEFINE u == bills[b].user
<1>1. TypeOK /\ bills[b] \in BillRow
  BY DEF OwedInv, LedgerInv, TypeInv, TypeOK, Exists
<1>2. u \in Users
  BY <1>1 DEF BillRow
<1>3. UnpaidOf(u) \in [1..MaxBills -> Int] /\ SumUpTo(UnpaidOf(u), MaxBills) \in Int
  BY <1>1, <1>2, TermTypes
<1>4. \A i \in 1..MaxBills : UnpaidOf(u)[i] >= 0
  BY <1>1 DEF UnpaidOf, TypeOK, BillRow, Exists, BillIds
<1>5. UnpaidOf(u)[b] <= SumUpTo(UnpaidOf(u), MaxBills)
  BY <1>3, <1>4, SumBoundsTerm, BoundAssumption DEF BillIds
<1>6. UnpaidOf(u)[b] = bills[b].amount
  BY <1>1 DEF UnpaidOf, BillIds
<1>7. LedgerBalance(u) = SumUpTo(UnpaidOf(u), MaxBills)
  BY <1>2 DEF OwedInv, LedgerOwesUnpaid
<1> QED
  BY <1>1, <1>3, <1>5, <1>6, <1>7 DEF BillRow

LEMMA OwedIsNotNegative ==
  ASSUME OwedInv, NEW u \in Users
  PROVE  LedgerBalance(u) >= 0
<1>1. TypeOK
  BY DEF OwedInv, LedgerInv, TypeInv
<1>2. UnpaidOf(u) \in [1..MaxBills -> Int]
  BY <1>1, TermTypes
<1>3. \A i \in 1..MaxBills : UnpaidOf(u)[i] >= 0
  BY <1>1 DEF UnpaidOf, TypeOK, BillRow, Exists, BillIds
<1>4. SumUpTo(UnpaidOf(u), MaxBills) >= 0
  <2>1. CASE MaxBills = 0
    <3>1. \A i \in 1..MaxBills : UnpaidOf(u)[i] = 0
      BY <2>1
    <3> QED
      BY <1>2, <3>1, SumOfZeros, BoundAssumption
  <2>2. CASE MaxBills # 0
    <3>1. 1 \in 1..MaxBills
      BY <2>2, BoundAssumption
    <3>2. UnpaidOf(u)[1] <= SumUpTo(UnpaidOf(u), MaxBills)
      BY <1>2, <1>3, <3>1, SumBoundsTerm, BoundAssumption
    <3>3. SumUpTo(UnpaidOf(u), MaxBills) \in Int /\ UnpaidOf(u)[1] \in Int
      BY <1>1, <1>2, <3>1, TermTypes
    <3> QED
      BY <1>3, <3>1, <3>2, <3>3
  <2> QED
    BY <2>1, <2>2
<1> QED
  BY <1>4 DEF OwedInv, LedgerOwesUnpaid

\* The balance written by a request is not negative: a charge adds to a balance that
\* is not, and a payment subtracts the amount of a bill that is unpaid and locked.
LEMMA ReadBalanceIsSound ==
  ASSUME AmountInv, NEW w \in Workers, ReadBalance(w)
  PROVE  Sound("insertEntry", req'[w])
<1>1. /\ req[w] \in Request /\ pc[w] = "readBalance" /\ req[w].user \in Users
      /\ req[w].bill \in BillIds /\ req[w].op \in {"generate", "pay"}
      /\ Pending(pc[w], req[w], bills, ledger, nextBill, nextEntry)
      /\ Sound(pc[w], req[w]) /\ TypeOK /\ OwedInv
  BY DEF AmountInv, OwedInv, LedgerInv, TypeInv, TypeOK, RequestOK, StepNeeds, ReadBalance
<1> DEFINE change == IF req[w].op = "generate" THEN req[w].amount ELSE -req[w].amount
           owed == LedgerBalance(req[w].user)
<1>2. /\ req'[w] = [req[w] EXCEPT !.balance = owed + change]
  BY <1>1 DEF ReadBalance, Goto, TypeOK
<1>3. owed + change >= 0
  <2>1. owed \in Int /\ owed >= 0 /\ req[w].amount \in Nat
    BY <1>1, TermTypes, OwedIsNotNegative DEF Request
  <2>2. req[w].op = "pay" => owed >= req[w].amount
    BY <1>1, OwedCoversBill DEF Pending, WritingSteps
  <2> QED
    BY <1>1, <2>1, <2>2
<1> HIDE DEF owed, change
<1>4. /\ req'[w].op = req[w].op /\ req'[w].amount = req[w].amount
      /\ req'[w].logIds = req[w].logIds /\ req'[w].balance = owed + change
  BY <1>1, <1>2 DEF Request
<1> QED
  BY <1>1, <1>3, <1>4 DEF Sound, WritingSteps

LEMMA SoundKept ==
  ASSUME AmountInv, NEW w \in Workers, NEW step, NEW r, Goto(w, step, r), Sound(step, r)
  PROVE  \A v \in Workers : Sound(pc[v], req[v])'
<1>1. pc'[w] = step /\ req'[w] = r
  BY DEF Goto, AmountInv, OwedInv, LedgerInv, TypeInv, TypeOK
<1>2. \A v \in Workers \ {w} : pc'[v] = pc[v] /\ req'[v] = req[v]
  BY DEF Goto, AmountInv, OwedInv, LedgerInv, TypeInv, TypeOK
<1> QED
  BY <1>1, <1>2 DEF AmountInv

LEMMA SoundNext ==
  ASSUME AmountInv, [Next]_vars
  PROVE  \A v \in Workers : Sound(pc[v], req[v])'
<1>1. /\ TypeOK
      /\ \A w \in Workers : /\ req[w] \in Request /\ StepNeeds(pc[w], req[w], bills)
                            /\ Sound(pc[w], req[w])
  BY DEF AmountInv, OwedInv, LedgerInv, TypeInv, TypeOK, RequestOK
<1>2. CASE Environment
  BY <1>2 DEF Environment, RecordUsage, TimePasses, UpdateRate, AmountInv
<1>3. ASSUME NEW w \in Workers,
             \/ Start(w)
             \/ NoCharge(w) \/ NotPayable(w) \/ OutOfRange(w) \/ Abort(w)
             \/ CommitCharge(w) \/ CommitPayment(w)
      PROVE  \A v \in Workers : Sound(pc[v], req[v])'
  <2>0. PICK step \in {"calculate", "lockBill", "idle"} : \E x : Goto(w, step, x)
    BY <1>3 DEF Start, StartGenerate, StartPay, NoCharge, NotPayable, OutOfRange, Abort,
                CommitCharge, CommitPayment
  <2>1. PICK r : Goto(w, step, r)
    BY <2>0
  <2>2. Sound(step, r)
    BY <2>1 DEF Sound, WritingSteps
  <2> QED
    BY <2>1, <2>2, SoundKept
<1>4. ASSUME NEW w \in Workers, Calculate(w)
      PROVE  \A v \in Workers : Sound(pc[v], req[v])'
  <2> DEFINE logIds == Billable(req[w].user)
             r == [req[w] EXCEPT !.logIds = logIds, !.amount = Price(logIds, rates)]
  <2>1. Goto(w, "insertBill", r)
    BY <1>4 DEF Calculate
  <2>2. r.logIds = logIds /\ r.amount = Price(logIds, rates)
    BY <1>1 DEF Request
  <2>3. IsPrice(r.amount, r.logIds)
    BY <1>1, <2>2 DEF IsPrice, TypeOK
  <2> QED
    BY <2>1, <2>3, SoundKept DEF Sound, WritingSteps
<1>5. ASSUME NEW w \in Workers, InsertBill(w)
      PROVE  \A v \in Workers : Sound(pc[v], req[v])'
  <2> DEFINE r == [req[w] EXCEPT !.bill = nextBill]
  <2>1. Goto(w, "markCdrs", r) /\ pc[w] = "insertBill" /\ req[w].amount > 0
    BY <1>5 DEF InsertBill
  <2>2. r.logIds = req[w].logIds /\ r.amount = req[w].amount /\ r.op = req[w].op
    BY <1>1 DEF Request
  <2>3. Sound("markCdrs", r)
    BY <1>1, <2>1, <2>2 DEF Sound, WritingSteps
  <2> QED
    BY <2>1, <2>3, SoundKept
<1>6. ASSUME NEW w \in Workers, MarkCdrs(w) \/ MarkPaid(w)
      PROVE  \A v \in Workers : Sound(pc[v], req[v])'
  <2>1. Goto(w, "readBalance", req[w]) /\ pc[w] \in {"markCdrs", "markPaid"}
    BY <1>6 DEF MarkCdrs, MarkPaid
  <2>2. Sound("readBalance", req[w])
    BY <1>1, <2>1 DEF Sound, WritingSteps
  <2> QED
    BY <2>1, <2>2, SoundKept
<1>7. ASSUME NEW w \in Workers, LockBill(w)
      PROVE  \A v \in Workers : Sound(pc[v], req[v])'
  <2> DEFINE bill == bills[req[w].bill]
             r == [req[w] EXCEPT !.user = bill.user, !.amount = bill.amount]
  <2>1. Goto(w, "markPaid", r) /\ r.op = "pay"
    BY <1>1, <1>7 DEF LockBill, StepNeeds, Request
  <2> QED
    BY <2>1, SoundKept DEF Sound
<1>8. ASSUME NEW w \in Workers, ReadBalance(w)
      PROVE  \A v \in Workers : Sound(pc[v], req[v])'
  <2>1. PICK r : Goto(w, "insertEntry", r) /\ req'[w] = r
    BY <1>1, <1>8 DEF ReadBalance, Goto, TypeOK
  <2> QED
    BY <1>8, <2>1, ReadBalanceIsSound, SoundKept
<1>9. ASSUME NEW w \in Workers, InsertEntry(w)
      PROVE  \A v \in Workers : Sound(pc[v], req[v])'
  <2> DEFINE r == [req[w] EXCEPT !.entry = nextEntry]
  <2>1. Goto(w, "commit", r) /\ pc[w] = "insertEntry" /\ req[w].amount <= LedgerCap
    BY <1>9 DEF InsertEntry, FitsLedger
  <2>2. /\ r.logIds = req[w].logIds /\ r.amount = req[w].amount /\ r.op = req[w].op
        /\ r.balance = req[w].balance
    BY <1>1 DEF Request
  <2>3. req[w].amount \in Nat /\ LedgerCap \in Nat
    BY <1>1, CapAssumption DEF Request
  <2>4. Sound("commit", r)
    BY <1>1, <2>1, <2>2, <2>3 DEF Sound, WritingSteps
  <2> QED
    BY <2>1, <2>4, SoundKept
<1>10. CASE UNCHANGED vars
  BY <1>10 DEF vars, AmountInv
<1> QED
  BY <1>2, <1>3, <1>4, <1>5, <1>6, <1>7, <1>8, <1>9, <1>10 DEF Next, Step

LEMMA FiguresNext ==
  ASSUME AmountInv, [Next]_vars
  PROVE  BalanceNeverNegative' /\ BillIsPriced'
<1>1. TypeOK
  BY DEF AmountInv, OwedInv, LedgerInv, TypeInv
<1>2. ASSUME NEW w \in Workers, CommitCharge(w)
      PROVE  BalanceNeverNegative' /\ BillIsPriced'
  <2> DEFINE b == req[w].bill
             e == req[w].entry
  <2>1. b \in BillIds /\ e \in EntryIds /\ Sound("commit", req[w]) /\ req[w].op = "generate"
    BY <1>2, CommitFacts DEF CommitCharge, AmountInv, OwedInv
  <2>2. /\ bills'[b].amount = req[w].amount /\ charged'[b] = req[w].logIds
        /\ \A d \in BillIds : d # b => bills'[d] = bills[d] /\ charged'[d] = charged[d]
        /\ ledger'[e].balance_after = req[w].balance
        /\ \A f \in EntryIds : f # e => ledger'[f] = ledger[f]
    BY <1>1, <1>2, <2>1 DEF CommitCharge, TypeOK, NewEntry
  <2>3. /\ req[w].balance >= 0 /\ req[w].amount > 0
        /\ \E r \in [Services -> Rates \cup {0}] : req[w].amount = Price(req[w].logIds, r)
    BY <2>1 DEF Sound, WritingSteps, IsPrice
  <2>4. BalanceNeverNegative'
    BY <2>2, <2>3 DEF AmountInv, BalanceNeverNegative, Exists
  <2>5. ASSUME NEW d \in BillIds, Exists(bills', d)
        PROVE  bills'[d].amount > 0 /\ IsPrice(bills'[d].amount, charged'[d])
    <3>1. CASE d = b
      BY <2>2, <2>3, <3>1 DEF IsPrice
    <3>2. CASE d # b
      BY <2>2, <2>5, <3>2 DEF AmountInv, BillIsPriced, Exists, IsPrice
    <3> QED
      BY <3>1, <3>2
  <2> QED
    BY <2>4, <2>5 DEF BillIsPriced, Exists, IsPrice
<1>3. ASSUME NEW w \in Workers, CommitPayment(w)
      PROVE  BalanceNeverNegative' /\ BillIsPriced'
  <2> DEFINE b == req[w].bill
             e == req[w].entry
  <2>1. /\ b \in BillIds /\ e \in EntryIds /\ Sound("commit", req[w]) /\ req[w].op = "pay"
        /\ Exists(bills, b)
    BY <1>3, CommitFacts DEF CommitPayment, AmountInv, OwedInv, Pending, WritingSteps
  <2>2. /\ bills'[b] = [bills[b] EXCEPT !.status = "PAID"] /\ charged' = charged
        /\ \A d \in BillIds : d # b => bills'[d] = bills[d]
        /\ ledger'[e].balance_after = req[w].balance
        /\ \A f \in EntryIds : f # e => ledger'[f] = ledger[f]
    BY <1>1, <1>3, <2>1 DEF CommitPayment, TypeOK, NewEntry
  <2>3. req[w].balance >= 0
    BY <2>1 DEF Sound
  <2>4. bills'[b].amount = bills[b].amount
    BY <1>1, <2>1, <2>2 DEF TypeOK, BillRow, Exists
  <2>5. BalanceNeverNegative'
    BY <2>2, <2>3 DEF AmountInv, BalanceNeverNegative, Exists
  <2>6. ASSUME NEW d \in BillIds, Exists(bills', d)
        PROVE  bills'[d].amount > 0 /\ IsPrice(bills'[d].amount, charged'[d])
    <3>1. Exists(bills, d) /\ bills'[d].amount = bills[d].amount
      BY <2>1, <2>2, <2>4, <2>6 DEF Exists
    <3>2. bills[d].amount > 0 /\ IsPrice(bills[d].amount, charged[d])
      BY <3>1 DEF AmountInv, BillIsPriced, IsPrice
    <3> QED
      BY <2>2, <3>1, <3>2
  <2> QED
    BY <2>5, <2>6 DEF BillIsPriced, Exists, IsPrice
<1>4. ASSUME \A w \in Workers : ~CommitCharge(w) /\ ~CommitPayment(w)
      PROVE  BalanceNeverNegative' /\ BillIsPriced'
  BY <1>4, OnlyCommitsWrite DEF AmountInv, BalanceNeverNegative, BillIsPriced, Exists
<1> QED
  BY <1>2, <1>3, <1>4, Zenon

LEMMA AmountInvariant == Spec => []AmountInv
<1>1. AmountInv /\ [Next]_vars => AmountInv'
  BY LedgerInvNext, OwedNext, SoundNext, FiguresNext DEF AmountInv, OwedInv
<1> QED
  BY <1>1, AmountInit, PTL DEF Spec

\* No row of the ledger records that the company owes a customer, however stale the
\* balance it was computed from.
THEOREM NoBalanceIsNegative == Spec => []BalanceNeverNegative
<1>1. AmountInv => BalanceNeverNegative
  BY DEF AmountInv
<1> QED
  BY <1>1, AmountInvariant, PTL

\* Every committed bill is the positive price of exactly the CDRs it charged for, at
\* one set of rates, whatever arrives or changes between calculateBill and createBill.
THEOREM BillsArePriced == Spec => []BillIsPriced
<1>1. AmountInv => BillIsPriced
  BY DEF AmountInv
<1> QED
  BY <1>1, AmountInvariant, PTL

-----------------------------------------------------------------------------
(***************************************************************************)
(* The last entry of a user, as reconcileLedger finds it.                  *)
(***************************************************************************)

\* The greatest of a bounded set of numbers
LEMMA GreatestEntry ==
  ASSUME NEW S \in SUBSET EntryIds, S # {}
  PROVE  \E e \in S : \A f \in S : f <= e
<1> DEFINE D == {MaxEntries - e : e \in S}
<1>1. S \subseteq 1..MaxEntries /\ MaxEntries \in Nat
  BY BoundAssumption DEF EntryIds
<1>2. D \subseteq Nat /\ D # {}
  <2>1. \A e \in S : MaxEntries - e \in Nat
    BY <1>1
  <2> QED
    BY <2>1
<1>3. PICK d \in D : \A x \in D : d <= x
  <2> HIDE DEF D
  <2> QED
    BY <1>2, LeastNat
<1>4. PICK e \in S : d = MaxEntries - e
  BY <1>3
<1>5. ASSUME NEW f \in S PROVE f <= e
  <2>1. d <= MaxEntries - f
    BY <1>3
  <2> QED
    BY <1>1, <1>4, <2>1
<1> QED
  BY <1>5

LEMMA LastBalanceType ==
  ASSUME TypeOK, NEW u \in Users
  PROVE  LastBalance(u) \in Int
<1> DEFINE own == {e \in EntryIds : Exists(ledger, e) /\ ledger[e].user = u}
           last == CHOOSE e \in own : \A f \in own : f <= e
<1>1. CASE own = {}
  BY <1>1 DEF LastBalance
<1>2. CASE own # {}
  <2>1. \E e \in own : \A f \in own : f <= e
    <3>1. own \in SUBSET EntryIds
      OBVIOUS
    <3> HIDE DEF own
    <3> QED
      BY <1>2, <3>1, GreatestEntry
  <2>2. last \in own
    <3> HIDE DEF own
    <3> QED
      BY <2>1
  <2>3. LastBalance(u) = ledger[last].balance_after
    BY <1>2 DEF LastBalance
  <2> HIDE DEF last
  <2> QED
    BY <2>2, <2>3 DEF TypeOK, Exists, EntryRow
<1> QED
  BY <1>1, <1>2

\* LastBalance, of any ledger
LastIn(table, u) ==
  LET own == {e \in EntryIds : Exists(table, e) /\ table[e].user = u}
  IN  IF own = {} THEN 0
      ELSE table[CHOOSE e \in own : \A f \in own : f <= e].balance_after

LEMMA LastBalanceStays ==
  ASSUME NEW u \in Users, ledger' = ledger
  PROVE  LastBalance(u)' = LastBalance(u)
<1>1. LastBalance(u) = LastIn(ledger, u) /\ LastBalance(u)' = LastIn(ledger', u)
  BY DEF LastBalance, LastIn
<1> QED
  BY <1>1, Zenon

-----------------------------------------------------------------------------
(***************************************************************************)
(* The engine implements the abstract ledger of BillingLedger.             *)
(***************************************************************************)

\* The entry e, as the journal shows it
Shown(e) ==
  [user |-> e.user, bill |-> e.bill, type |-> e.type, amount |-> e.amount]

\* Writing a row that was not there adds one entry to the journal.
LEMMA JournalGrows ==
  ASSUME NEW e \in EntryIds, NEW row, row # NoRow, ~Exists(ledger, e),
         ledger'[e] = row, \A f \in EntryIds : f # e => ledger'[f] = ledger[f]
  PROVE  Journal' = Journal \cup {Shown(row)}
<1>1. Journal = {Shown(ledger[f]) : f \in {f \in EntryIds : ledger[f] # NoRow}}
  BY DEF Journal, Shown, Exists
<1>2. Journal' = {Shown(ledger'[f]) : f \in {f \in EntryIds : ledger'[f] # NoRow}}
  BY DEF Journal, Shown, Exists
<1> HIDE DEF Shown
<1> QED
  BY <1>1, <1>2 DEF Exists

LEMMA ChargeIsAbstract ==
  ASSUME AmountInv, NEW w \in Workers, CommitCharge(w)
  PROVE  \E b \in BillIds, u \in Users, a \in 1..LedgerCap : Abstract!Charge(b, u, a)
<1> DEFINE b == req[w].bill
           row == NewEntry(w, "CHARGE")
<1>1. /\ b \in BillIds /\ req[w].entry \in EntryIds /\ req[w].user \in Users
      /\ ~Exists(ledger, req[w].entry) /\ ~Exists(bills, b)
      /\ req[w].amount \in 1..LedgerCap /\ req[w] \in Request
  <2>1. Sound("commit", req[w]) /\ LedgerInv /\ req[w].op = "generate" /\ pc[w] = "commit"
    BY DEF AmountInv, OwedInv, CommitCharge
  <2> QED
    BY <2>1, CommitFacts DEF Pending, WritingSteps, Sound
<1>2. row # NoRow
  <2>1. row \in EntryRow
    BY <1>1 DEF EntryRow, NewEntry, Request
  <2> QED
    BY <2>1, NoRowAssumption
<1>3. Journal' = Journal \cup {Shown(row)}
  <2>1. /\ ledger'[req[w].entry] = row
        /\ \A f \in EntryIds : f # req[w].entry => ledger'[f] = ledger[f]
    BY <1>1 DEF CommitCharge, AmountInv, OwedInv, LedgerInv, TypeInv, TypeOK
  <2> QED
    BY <1>1, <1>2, <2>1, JournalGrows
<1>4. Shown(row) = Abstract!Entry(b, "CHARGE", req[w].user, req[w].amount)
  BY DEF Shown, NewEntry, Abstract!Entry
<1>5. Abstract!Charge(b, req[w].user, req[w].amount)
  BY <1>1, <1>3, <1>4 DEF Abstract!Charge, CommitCharge, Exists
<1> QED
  BY <1>1, <1>5

LEMMA PaymentIsAbstract ==
  ASSUME AmountInv, NEW w \in Workers, CommitPayment(w)
  PROVE  \E b \in BillIds : Abstract!Pay(b)
<1> DEFINE b == req[w].bill
           row == NewEntry(w, "PAYMENT")
<1>1. /\ b \in BillIds /\ req[w].entry \in EntryIds /\ req[w].user \in Users
      /\ ~Exists(ledger, req[w].entry) /\ Exists(bills, b)
      /\ bills[b].status = "UNPAID" /\ bills[b].user = req[w].user
      /\ bills[b].amount = req[w].amount /\ req[w] \in Request
  <2>1. LedgerInv /\ req[w].op = "pay" /\ pc[w] = "commit"
    BY DEF AmountInv, OwedInv, CommitPayment
  <2> QED
    BY <2>1, CommitFacts DEF Pending, WritingSteps
<1>2. row # NoRow
  <2>1. row \in EntryRow
    BY <1>1 DEF EntryRow, NewEntry, Request
  <2> QED
    BY <2>1, NoRowAssumption
<1>3. Journal' = Journal \cup {Shown(row)}
  <2>1. /\ ledger'[req[w].entry] = row
        /\ \A f \in EntryIds : f # req[w].entry => ledger'[f] = ledger[f]
    BY <1>1 DEF CommitPayment, AmountInv, OwedInv, LedgerInv, TypeInv, TypeOK
  <2> QED
    BY <1>1, <1>2, <2>1, JournalGrows
<1>4. Shown(row) = Abstract!Entry(b, "PAYMENT", bills[b].user, bills[b].amount)
  BY <1>1 DEF Shown, NewEntry, Abstract!Entry
<1>5. Abstract!Pay(b)
  BY <1>1, <1>3, <1>4 DEF Abstract!Pay, CommitPayment, Exists
<1> QED
  BY <1>1, <1>5

\* Charging and paying are the only changes a reader of bills and ledger sees, each
\* of them whole: the engine implements the abstract ledger.
THEOREM BillingImplementsLedger == Spec => ImplementsLedger
<1>1. Init => Abstract!Init
  BY DEF Init, Abstract!Init, Journal, Exists
<1>2. AmountInv /\ [Next]_vars => [Abstract!Next]_<<bills, Journal>>
  <2> SUFFICES ASSUME AmountInv, [Next]_vars
               PROVE  [Abstract!Next]_<<bills, Journal>>
    OBVIOUS
  <2>1. ASSUME NEW w \in Workers, CommitCharge(w) PROVE Abstract!Next
    BY <2>1, ChargeIsAbstract DEF Abstract!Next
  <2>2. ASSUME NEW w \in Workers, CommitPayment(w) PROVE Abstract!Next
    BY <2>2, PaymentIsAbstract DEF Abstract!Next
  <2>3. ASSUME \A w \in Workers : ~CommitCharge(w) /\ ~CommitPayment(w)
        PROVE  UNCHANGED <<bills, Journal>>
    BY <2>3, OnlyCommitsWrite DEF Journal, Exists
  <2> QED
    BY <2>1, <2>2, <2>3
<1> QED
  BY <1>1, <1>2, AmountInvariant, PTL DEF Spec, ImplementsLedger, Abstract!Spec
=============================================================================
