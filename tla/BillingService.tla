--------------------------- MODULE BillingService ---------------------------
(***************************************************************************)
(* The billing engine of src/src/services/billingService.ts against the    *)
(* MySQL tables of src/src/models/User.ts: what a customer is charged for  *)
(* (calculateBill, createBill), what is collected (payBill), and the       *)
(* ledger that has to account for both.                                    *)
(*                                                                         *)
(* A worker is one HTTP request being served, on any pod.  The variables   *)
(* of the tables hold what is COMMITTED; the rows a transaction has        *)
(* written and not yet committed live in its request record.  A plain      *)
(* SELECT reads committed rows (InnoDB, REPEATABLE READ: a transaction's   *)
(* first plain SELECT fixes its snapshot), UPDATE and SELECT FOR UPDATE    *)
(* take row locks that are kept until the transaction ends, and            *)
(* AUTO_INCREMENT values are not given back by a rollback.                 *)
(*                                                                         *)
(* Money is counted in cents.                                              *)
(***************************************************************************)
EXTENDS Integers, FiniteSets, Sums

CONSTANTS
  Users,          \* users.id
  Cdrs,           \* the call detail records that may be ingested
  CdrUser,        \* CdrUser[c]: user_logs.user_id of c
  Services,       \* 'CALL', 'SMS', 'DATA'
  Rates,          \* the prices an administrator may set, as their column stores them
  Price(_, _),    \* Price(S, r): the total of a bill for the CDRs S at rates r
  BillCap,        \* largest bills.amount, DECIMAL(10,2)
  LedgerCap,      \* largest ledger.amount and balance_after, DECIMAL(10,4)
  Workers,        \* requests served at the same time
  NoRow,          \* what a key without a row has
  NoUser,         \* the user of a request that has not read its bill yet
  MaxBills,       \* bound: AUTO_INCREMENT values of bills
  MaxEntries      \* bound: AUTO_INCREMENT values of ledger

NoBill   == 0     \* NULL in user_logs.bill_id
NoEntry  == 0
BillIds  == 1..MaxBills
EntryIds == 1..MaxEntries

\* A row of bills and a row of ledger, without the columns no property is
\* about (period, timestamps, description, reference).
BillRow  == [user : Users, amount : Nat, status : {"UNPAID", "PAID"}]
EntryRow == [user : Users, bill : BillIds, type : {"CHARGE", "PAYMENT"},
             amount : Nat, balance_after : Int]

\* A request: the arguments and the local variables of the service method
\* that serves it.  Fields not yet assigned hold their initial values.
Request == [op : {"none", "generate", "pay"}, user : Users \cup {NoUser},
            bill : BillIds \cup {NoBill}, logIds : SUBSET Cdrs, amount : Nat,
            balance : Int, entry : EntryIds \cup {NoEntry}]

NoRequest == [op |-> "none", user |-> NoUser, bill |-> NoBill, logIds |-> {},
              amount |-> 0, balance |-> 0, entry |-> NoEntry]

Steps == {"idle", "calculate", "insertBill", "markCdrs", "lockBill", "markPaid",
          "readBalance", "insertEntry", "commit"}

ASSUME CdrUserAssumption == CdrUser \in [Cdrs -> Users]
ASSUME RateAssumption    == Rates \subseteq Nat
ASSUME PriceAssumption   == \A S \in SUBSET Cdrs, r \in [Services -> Rates \cup {0}] :
                              Price(S, r) \in Nat
ASSUME CapAssumption     == BillCap \in Nat /\ LedgerCap \in Nat
ASSUME BoundAssumption   == MaxBills \in Nat /\ MaxEntries \in Nat
ASSUME NoRowAssumption   == NoRow \notin BillRow /\ NoRow \notin EntryRow

VARIABLES
  rates,      \* service_rates: price per service, 0 where there is no row
  userLogs,   \* user_logs: the CDRs ingested so far
  age,        \* where the timestamp of a CDR lies: "future", "current" (in the
              \* last 30 days) or "expired"
  billOf,     \* user_logs.bill_id; a CDR has billed = TRUE iff it is not NoBill
  bills,      \* bills
  ledger,     \* ledger
  nextBill,   \* AUTO_INCREMENT of bills
  nextEntry,  \* AUTO_INCREMENT of ledger
  pc,         \* pc[w]: the next statement of worker w
  req,        \* req[w]: the request worker w serves
  charged     \* history: the CDRs each committed bill was computed from

tables   == <<rates, userLogs, age, billOf, bills, ledger, charged>>
counters == <<nextBill, nextEntry>>
vars     == <<tables, counters, pc, req>>

Exists(table, id) == table[id] # NoRow

-----------------------------------------------------------------------------
(***************************************************************************)
(* What the statements read.                                               *)
(***************************************************************************)

\* Billable, had the query no billed = FALSE
BillableTwice(u) ==
  {c \in userLogs : CdrUser[c] = u /\ age[c] = "current"}

\* user_id = ? AND billed = FALSE AND timestamp BETWEEN periodStart AND periodEnd
Billable(u) ==
  {c \in userLogs : CdrUser[c] = u /\ billOf[c] = NoBill /\ age[c] = "current"}

\* Signed, had the query no WHERE user_id = ?
SignedOfAll(u) ==
  [e \in EntryIds |->
     IF Exists(ledger, e)
     THEN IF ledger[e].type = "CHARGE" THEN ledger[e].amount ELSE -ledger[e].amount
     ELSE 0]

\* Signed, had the query no case for PAYMENT
SignedChargesOnly(u) ==
  [e \in EntryIds |->
     IF Exists(ledger, e) /\ ledger[e].user = u /\ ledger[e].type = "CHARGE"
     THEN ledger[e].amount ELSE 0]

\* CASE WHEN type = 'CHARGE' THEN amount WHEN type IN ('PAYMENT','REFUND')
\* THEN -amount, over the rows of user u
Signed(u) ==
  [e \in EntryIds |->
     IF Exists(ledger, e) /\ ledger[e].user = u
     THEN IF ledger[e].type = "CHARGE" THEN ledger[e].amount ELSE -ledger[e].amount
     ELSE 0]

LedgerBalance(u) == SumUpTo(Signed(u), MaxEntries)

\* v has locked, or inserted and not committed, the row of bill b
HoldsBill(v, b) ==
  /\ req[v].bill = b
  /\ \/ req[v].op = "generate" /\ pc[v] \in {"markCdrs", "readBalance", "insertEntry", "commit"}
     \/ req[v].op = "pay" /\ pc[v] \in {"markPaid", "readBalance", "insertEntry", "commit"}

\* v has locked the row of CDR c
HoldsCdr(v, c) ==
  /\ req[v].op = "generate"
  /\ c \in req[v].logIds
  /\ pc[v] \in {"readBalance", "insertEntry", "commit"}

\* Bounds: a request starts only when the identifiers it may use are left, so
\* that no request stops half-way for the lack of one.
UsesBill(v)  == req[v].op = "generate" /\ pc[v] \in {"calculate", "insertBill"}
UsesEntry(v) == pc[v] \notin {"idle", "commit"}

RoomForBill  == nextBill + Cardinality({v \in Workers : UsesBill(v)}) <= MaxBills
RoomForEntry == nextEntry + Cardinality({v \in Workers : UsesEntry(v)}) <= MaxEntries

-----------------------------------------------------------------------------
Init ==
  /\ rates = [s \in Services |-> 0]
  /\ userLogs = {}
  /\ age = [c \in Cdrs |-> "current"]
  /\ billOf = [c \in Cdrs |-> NoBill]
  /\ bills = [b \in BillIds |-> NoRow]
  /\ ledger = [e \in EntryIds |-> NoRow]
  /\ nextBill = 1
  /\ nextEntry = 1
  /\ pc = [w \in Workers |-> "idle"]
  /\ req = [w \in Workers |-> NoRequest]
  /\ charged = [b \in BillIds |-> {}]

-----------------------------------------------------------------------------
(***************************************************************************)
(* The environment: ingestion, the clock, the rate administration.         *)
(***************************************************************************)

\* insertUsageLog: the client chooses the timestamp of the record.
RecordUsage(c) ==
  /\ c \notin userLogs
  /\ userLogs' = userLogs \cup {c}
  /\ \E a \in {"future", "current", "expired"} : age' = [age EXCEPT ![c] = a]
  /\ UNCHANGED <<rates, billOf, bills, ledger, charged, counters, pc, req>>

\* Time passes, so that the timestamp of c enters or leaves the window.
TimePasses(c) ==
  /\ c \in userLogs
  /\ \/ age[c] = "future"  /\ age' = [age EXCEPT ![c] = "current"]
     \/ age[c] = "current" /\ age' = [age EXCEPT ![c] = "expired"]
  /\ UNCHANGED <<rates, userLogs, billOf, bills, ledger, charged, counters, pc, req>>

\* updateRate refuses a price of 0, yet DECIMAL(10,4) makes one of a price below
\* 0.00005, so that Rates may contain it.
UpdateRate(s, r) ==
  /\ rates' = [rates EXCEPT ![s] = r]
  /\ UNCHANGED <<userLogs, age, billOf, bills, ledger, charged, counters, pc, req>>

-----------------------------------------------------------------------------
(***************************************************************************)
(* generateBill: calculateBill, then createBill in a transaction of its    *)
(* own.                                                                    *)
(***************************************************************************)

Goto(w, step, r) ==
  /\ pc'  = [pc EXCEPT ![w] = step]
  /\ req' = [req EXCEPT ![w] = r]

StartGenerate(w, u) ==
  /\ pc[w] = "idle"
  /\ RoomForBill /\ RoomForEntry
  /\ Goto(w, "calculate", [NoRequest EXCEPT !.op = "generate", !.user = u])
  /\ UNCHANGED <<tables, counters>>

\* calculateBill: the CDRs and the rates are read from one snapshot, and
\* nothing is written or locked.
Calculate(w) ==
  /\ pc[w] = "calculate"
  /\ LET logIds == Billable(req[w].user)
     IN  Goto(w, "insertBill", [req[w] EXCEPT !.logIds = logIds,
                                              !.amount = Price(logIds, rates)])
  /\ UNCHANGED <<tables, counters>>

\* createBill returns 0 when the total is not positive.
NoCharge(w) ==
  /\ pc[w] = "insertBill"
  /\ req[w].amount = 0
  /\ Goto(w, "idle", NoRequest)
  /\ UNCHANGED <<tables, counters>>

\* INSERT INTO bills
InsertBill(w) ==
  /\ pc[w] = "insertBill"
  /\ req[w].amount \in 1..BillCap
  /\ nextBill \in BillIds
  /\ nextBill' = nextBill + 1
  /\ Goto(w, "markCdrs", [req[w] EXCEPT !.bill = nextBill])
  /\ UNCHANGED <<tables, nextEntry>>

\* MarkCdrs, were the UPDATE sent to the pool and not to the transaction's
\* connection
MarkCdrsOutside(w) ==
  /\ pc[w] = "markCdrs"
  /\ \A c \in req[w].logIds, v \in Workers \ {w} : ~HoldsCdr(v, c)
  /\ billOf' = [c \in Cdrs |-> IF c \in req[w].logIds THEN req[w].bill ELSE billOf[c]]
  /\ Goto(w, "readBalance", req[w])
  /\ UNCHANGED <<rates, userLogs, age, bills, ledger, charged, counters>>

\* MarkCdrs, were it UPDATE ... WHERE user_id = ? AND billed = FALSE
MarkCdrsAgain(w) ==
  /\ pc[w] = "markCdrs"
  /\ \A c \in Billable(req[w].user), v \in Workers \ {w} : ~HoldsCdr(v, c)
  /\ Goto(w, "readBalance", [req[w] EXCEPT !.logIds = Billable(req[w].user)])
  /\ UNCHANGED <<tables, counters>>

\* UPDATE user_logs SET billed = TRUE, bill_id = ? WHERE id IN (?): waits for
\* the row locks, and asks nothing about the billed flag it overwrites.
MarkCdrs(w) ==
  /\ pc[w] = "markCdrs"
  /\ \A c \in req[w].logIds, v \in Workers \ {w} : ~HoldsCdr(v, c)
  /\ Goto(w, "readBalance", req[w])
  /\ UNCHANGED <<tables, counters>>

-----------------------------------------------------------------------------
(***************************************************************************)
(* payBill.                                                                *)
(***************************************************************************)

StartPay(w, b) ==
  /\ pc[w] = "idle"
  /\ RoomForEntry
  /\ Goto(w, "lockBill", [NoRequest EXCEPT !.op = "pay", !.bill = b])
  /\ UNCHANGED <<tables, counters>>

BillFree(w) == \A v \in Workers \ {w} : ~HoldsBill(v, req[w].bill)

\* Payable, had the SELECT no status = "UNPAID"
PayableTwice(b) == Exists(bills, b)

Payable(b) == Exists(bills, b) /\ bills[b].status = "UNPAID"

\* LockBill, were it a SELECT without FOR UPDATE
ReadBill(w) ==
  /\ pc[w] = "lockBill"
  /\ Payable(req[w].bill)
  /\ LET bill == bills[req[w].bill]
     IN  Goto(w, "markPaid", [req[w] EXCEPT !.user = bill.user, !.amount = bill.amount])
  /\ UNCHANGED <<tables, counters>>

\* LockBill, did payBill not take the user of the entry from the bill
LockBillOfNobody(w) ==
  /\ pc[w] = "lockBill"
  /\ BillFree(w)
  /\ Payable(req[w].bill)
  /\ Goto(w, "markPaid", [req[w] EXCEPT !.amount = bills[req[w].bill].amount])
  /\ UNCHANGED <<tables, counters>>

\* SELECT * FROM bills WHERE id = ? AND status = 'UNPAID' FOR UPDATE: waits for
\* the row lock, then reads the latest committed row.
LockBill(w) ==
  /\ pc[w] = "lockBill"
  /\ BillFree(w)
  /\ Payable(req[w].bill)
  /\ LET bill == bills[req[w].bill]
     IN  Goto(w, "markPaid", [req[w] EXCEPT !.user = bill.user, !.amount = bill.amount])
  /\ UNCHANGED <<tables, counters>>

\* The SELECT finds no row: the error of line 246 rolls back.
NotPayable(w) ==
  /\ pc[w] = "lockBill"
  /\ BillFree(w)
  /\ ~Payable(req[w].bill)
  /\ Goto(w, "idle", NoRequest)
  /\ UNCHANGED <<tables, counters>>

\* UPDATE bills SET status = "PAID", under the lock of the SELECT
MarkPaid(w) ==
  /\ pc[w] = "markPaid"
  /\ Goto(w, "readBalance", req[w])
  /\ UNCHANGED <<tables, counters>>

-----------------------------------------------------------------------------
(***************************************************************************)
(* The ledger, written the same way by createBill and payBill.             *)
(***************************************************************************)

\* SELECT COALESCE(SUM(...), 0) FROM ledger WHERE user_id = ?: the snapshot of
\* the committed rows; no lock is taken.
ReadBalance(w) ==
  /\ pc[w] = "readBalance"
  /\ LET change == IF req[w].op = "generate" THEN req[w].amount ELSE -req[w].amount
     IN  Goto(w, "insertEntry",
              [req[w] EXCEPT !.balance = LedgerBalance(req[w].user) + change])
  /\ UNCHANGED <<tables, counters>>

\* FitsLedger, had balance_after room for any balance
AmountFitsLedger(w) == req[w].amount <= LedgerCap

FitsLedger(w) ==
  /\ req[w].amount <= LedgerCap
  /\ req[w].balance \in -LedgerCap..LedgerCap

\* INSERT INTO ledger
InsertEntry(w) ==
  /\ pc[w] = "insertEntry"
  /\ FitsLedger(w)
  /\ nextEntry \in EntryIds
  /\ nextEntry' = nextEntry + 1
  /\ Goto(w, "commit", [req[w] EXCEPT !.entry = nextEntry])
  /\ UNCHANGED <<tables, nextBill>>

\* MySQL refuses a value that does not fit its column: roll back.
OutOfRange(w) ==
  /\ \/ pc[w] = "insertBill" /\ req[w].amount > BillCap
     \/ pc[w] = "insertEntry" /\ ~FitsLedger(w)
  /\ Goto(w, "idle", NoRequest)
  /\ UNCHANGED <<tables, counters>>

NewEntry(w, type) ==
  [user |-> req[w].user, bill |-> req[w].bill, type |-> type,
   amount |-> req[w].amount, balance_after |-> req[w].balance]

\* COMMIT of createBill: the bill, the marks and the entry become visible.
CommitCharge(w) ==
  LET b == req[w].bill
  IN  /\ pc[w] = "commit"
      /\ req[w].op = "generate"
      /\ bills' = [bills EXCEPT ![b] = [user |-> req[w].user, amount |-> req[w].amount,
                                        status |-> "UNPAID"]]
      /\ billOf' = [c \in Cdrs |-> IF c \in req[w].logIds THEN b ELSE billOf[c]]
      /\ ledger' = [ledger EXCEPT ![req[w].entry] = NewEntry(w, "CHARGE")]
      /\ charged' = [charged EXCEPT ![b] = req[w].logIds]
      /\ Goto(w, "idle", NoRequest)
      /\ UNCHANGED <<rates, userLogs, age, counters>>

\* CommitPayment, did payBill not mark the bill
CommitPaymentUnmarked(w) ==
  /\ pc[w] = "commit"
  /\ req[w].op = "pay"
  /\ ledger' = [ledger EXCEPT ![req[w].entry] = NewEntry(w, "PAYMENT")]
  /\ Goto(w, "idle", NoRequest)
  /\ UNCHANGED <<rates, userLogs, age, bills, billOf, charged, counters>>

\* CommitPayment, did payBill turn the bill's entry into a PAYMENT
CommitPaymentInPlace(w) ==
  /\ pc[w] = "commit"
  /\ req[w].op = "pay"
  /\ bills' = [bills EXCEPT ![req[w].bill].status = "PAID"]
  /\ ledger' = [e \in EntryIds |->
                  IF Exists(ledger, e) /\ ledger[e].bill = req[w].bill
                  THEN NewEntry(w, "PAYMENT") ELSE ledger[e]]
  /\ Goto(w, "idle", NoRequest)
  /\ UNCHANGED <<rates, userLogs, age, billOf, charged, counters>>

\* COMMIT of payBill
CommitPayment(w) ==
  /\ pc[w] = "commit"
  /\ req[w].op = "pay"
  /\ bills' = [bills EXCEPT ![req[w].bill].status = "PAID"]
  /\ ledger' = [ledger EXCEPT ![req[w].entry] = NewEntry(w, "PAYMENT")]
  /\ Goto(w, "idle", NoRequest)
  /\ UNCHANGED <<rates, userLogs, age, billOf, charged, counters>>

\* A statement of w fails, its wait for a row lock times out,
\* or its pod dies before the commit: InnoDB rolls the transaction back.  (A
\* commit whose acknowledgement is lost is a commit, after which the client may
\* send its request again.)
Abort(w) ==
  /\ pc[w] # "idle"
  /\ Goto(w, "idle", NoRequest)
  /\ UNCHANGED <<tables, counters>>

-----------------------------------------------------------------------------
Environment ==
  \/ \E c \in Cdrs : RecordUsage(c) \/ TimePasses(c)
  \/ \E s \in Services, r \in Rates : UpdateRate(s, r)

Start(w) == (\E u \in Users : StartGenerate(w, u)) \/ (\E b \in BillIds : StartPay(w, b))

\* What w does next when nothing fails
Step(w) ==
  \/ Calculate(w) \/ NoCharge(w) \/ InsertBill(w) \/ MarkCdrs(w)
  \/ LockBill(w) \/ NotPayable(w) \/ MarkPaid(w)
  \/ ReadBalance(w) \/ InsertEntry(w) \/ OutOfRange(w)
  \/ CommitCharge(w) \/ CommitPayment(w)

Next == Environment \/ \E w \in Workers : Start(w) \/ Step(w) \/ Abort(w)

Spec == Init /\ [][Next]_vars

-----------------------------------------------------------------------------
(***************************************************************************)
(* Two disciplines the code does not enforce, under which more holds.      *)
(***************************************************************************)

\* An operator that never has two billing runs of one user in flight
OneRunPerUser ==
  \A v, w \in Workers :
    v # w /\ req[v].op = "generate" /\ req[w].op = "generate" => req[v].user # req[w].user

SerialRunsSpec == Init /\ [][Next /\ OneRunPerUser']_vars

\* A lock per user, held from the first statement that writes to the commit
Writing(w) == pc[w] \in {"markCdrs", "markPaid", "readBalance", "insertEntry", "commit"}

OneWriterPerUser ==
  \A v, w \in Workers : v # w /\ Writing(v) /\ Writing(w) => req[v].user # req[w].user

-----------------------------------------------------------------------------
(***************************************************************************)
(* Properties.                                                             *)
(***************************************************************************)

\* Every variable holds a value of its table's columns.
TypeOK ==
  /\ rates \in [Services -> Rates \cup {0}]
  /\ userLogs \subseteq Cdrs
  /\ age \in [Cdrs -> {"future", "current", "expired"}]
  /\ billOf \in [Cdrs -> BillIds \cup {NoBill}]
  /\ bills \in [BillIds -> BillRow \cup {NoRow}]
  /\ ledger \in [EntryIds -> EntryRow \cup {NoRow}]
  /\ nextBill \in 1..(MaxBills + 1)
  /\ nextEntry \in 1..(MaxEntries + 1)
  /\ pc \in [Workers -> Steps]
  /\ req \in [Workers -> Request]
  /\ charged \in [BillIds -> SUBSET Cdrs]

\* e is the ledger's entry of this type for bill b
IsEntryOf(e, b, type) ==
  Exists(ledger, e) /\ ledger[e].bill = b /\ ledger[e].type = type

ExactlyOneEntry(b, type) ==
  /\ \E e \in EntryIds : IsEntryOf(e, b, type)
  /\ \A e, f \in EntryIds : IsEntryOf(e, b, type) /\ IsEntryOf(f, b, type) => e = f

\* Whatever runs at the same time, fails or is retried: a committed bill has one
\* CHARGE, a paid bill has one PAYMENT and an unpaid bill none, of the bill's
\* user and amount, and no entry stands without its bill.  (createBill's and
\* payBill's "both succeed or both fail", and no bill is paid twice.)
LedgerMatchesBills ==
  /\ \A b \in BillIds :
       Exists(bills, b) =>
         /\ ExactlyOneEntry(b, "CHARGE")
         /\ bills[b].status = "PAID" => ExactlyOneEntry(b, "PAYMENT")
         /\ bills[b].status = "UNPAID" => \A e \in EntryIds : ~IsEntryOf(e, b, "PAYMENT")
  /\ \A e \in EntryIds :
       Exists(ledger, e) =>
         /\ Exists(bills, ledger[e].bill)
         /\ bills[ledger[e].bill].user = ledger[e].user
         /\ bills[ledger[e].bill].amount = ledger[e].amount

UnpaidOf(u) ==
  [b \in BillIds |->
     IF Exists(bills, b) /\ bills[b].user = u /\ bills[b].status = "UNPAID"
     THEN bills[b].amount ELSE 0]

\* reconcileLedger's third cross-check, which the code computes and does not
\* compare: what the ledger says a user owes is the sum of the unpaid bills.
LedgerOwesUnpaid ==
  \A u \in Users : LedgerBalance(u) = SumUpTo(UnpaidOf(u), MaxBills)

\* A payment's balance may be stale, and yet no entry ever records that the
\* company owes the customer: balance_after is never negative.
BalanceNeverNegative ==
  \A e \in EntryIds : Exists(ledger, e) => ledger[e].balance_after >= 0

\* A CDR has billed = TRUE exactly when a committed bill charged for it, and its
\* bill_id names one of the bills that did.
BilledIffCharged ==
  \A c \in Cdrs :
    /\ billOf[c] # NoBill => c \in charged[billOf[c]]
    /\ billOf[c] = NoBill => \A b \in BillIds : c \notin charged[b]

\* Usage arrives and prices change between calculateBill and createBill; a committed
\* bill is still the price, and not 0, of exactly the CDRs marked with it, at one set of
\* rates.
BillIsPriced ==
  \A b \in BillIds :
    Exists(bills, b) =>
      /\ bills[b].amount > 0
      /\ \E r \in [Services -> Rates \cup {0}] : bills[b].amount = Price(charged[b], r)

\* billingService.ts line 19: the billed = FALSE filter prevents double billing.
\* It does when the runs of a user are serial, crashes and retries included.
NoDoubleBilling ==
  \A b, d \in BillIds : b # d => charged[b] \cap charged[d] = {}

\* The entry of user u with the largest id, as reconcileLedger reads it
LastBalance(u) ==
  LET own == {e \in EntryIds : Exists(ledger, e) /\ ledger[e].user = u}
  IN  IF own = {} THEN 0
      ELSE ledger[CHOOSE e \in own : \A f \in own : f <= e].balance_after

\* reconcileLedger finds every user consistent: the stored running balance is
\* the balance recomputed from all the entries.
ReconcileConsistent ==
  \A u \in Users : LastBalance(u) = LedgerBalance(u)

\* What a user owes always fits ledger.balance_after.
OwedFitsLedger ==
  \A u \in Users : LedgerBalance(u) <= LedgerCap

\* The abstract journal: the entries without their identifiers and balances
Journal ==
  {[user |-> ledger[e].user, bill |-> ledger[e].bill, type |-> ledger[e].type,
    amount |-> ledger[e].amount] : e \in {e \in EntryIds : Exists(ledger, e)}}

\* The engine implements the abstract ledger: the commits are its steps, and
\* nothing else that any request does shows.
Abstract == INSTANCE BillingLedger WITH Amounts <- 1..LedgerCap, NoBillYet <- NoRow,
                                       journal <- Journal

ImplementsLedger == Abstract!Spec
=============================================================================
