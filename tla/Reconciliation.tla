--------------------------- MODULE Reconciliation ---------------------------
(***************************************************************************)
(* reconcileLedger of src/src/services/billingService.ts: three SELECTs in *)
(* one transaction, while requests of all kinds commit.  The first one     *)
(* fixes the snapshot that all three read (REPEATABLE READ); what the      *)
(* later ones will read is kept as figures, not as whole tables.           *)
(***************************************************************************)
EXTENDS BillingService

CONSTANT Auditors   \* the reconciliations that may be in flight

VARIABLES
  audit,     \* audit[a]: the reconciliation a
  suspect    \* history: a's ledger was inconsistent at some moment since a started

\* What the statements of reconcileLedger compute.  totalCharges and totalPayments
\* are answered too, but only their difference is compared with anything.
Figures == [ledgerBalance : Int, recomputedBalance : Int, unpaidBillsTotal : Int]

Nothing == [ledgerBalance |-> 0, recomputedBalance |-> 0, unpaidBillsTotal |-> 0]

\* What an answer lets its reader conclude: isConsistent, which makes it 200 or 409,
\* and whether the unpaid bills add up to the balance.
Verdict   == [isConsistent : BOOLEAN, crossChecks : BOOLEAN]
NoVerdict == [isConsistent |-> TRUE, crossChecks |-> TRUE]

\* A reconciliation.  snapshot: what its transaction sees; read: what it has read.
Audit == [step : {"idle", "readLast", "readTotals", "readUnpaid", "answered"},
          user : Users \cup {NoUser}, snapshot : Figures, read : Figures, verdict : Verdict]

NoAudit == [step |-> "idle", user |-> NoUser, snapshot |-> Nothing, read |-> Nothing,
            verdict |-> NoVerdict]

UnpaidTotal(u) == SumUpTo(UnpaidOf(u), MaxBills)

FiguresOf(u) == [ledgerBalance |-> LastBalance(u), recomputedBalance |-> LedgerBalance(u),
                 unpaidBillsTotal |-> UnpaidTotal(u)]

InFlight(a) == audit[a].step \in {"readLast", "readTotals", "readUnpaid"}

AuditInit ==
  /\ audit = [a \in Auditors |-> NoAudit]
  /\ suspect = [a \in Auditors |-> FALSE]

StartAudit(a, u) ==
  /\ ~InFlight(a)
  /\ audit' = [audit EXCEPT ![a] = [NoAudit EXCEPT !.step = "readLast", !.user = u]]

\* SELECT balance_after ... ORDER BY id DESC LIMIT 1
ReadLast(a) ==
  /\ audit[a].step = "readLast"
  /\ LET figures == FiguresOf(audit[a].user)
     IN  audit' = [audit EXCEPT ![a].step = "readTotals", ![a].snapshot = figures,
                                ![a].read.ledgerBalance = figures.ledgerBalance]

\* ReadTotals, were it sent to the pool and not to the transaction's connection
ReadTotalsOutside(a) ==
  /\ audit[a].step = "readTotals"
  /\ audit' = [audit EXCEPT ![a].step = "readUnpaid",
                            ![a].read.recomputedBalance = LedgerBalance(audit[a].user)]

\* SELECT total_charges, total_payments FROM ledger
ReadTotals(a) ==
  /\ audit[a].step = "readTotals"
  /\ audit' = [audit EXCEPT ![a].step = "readUnpaid",
                            ![a].read.recomputedBalance = audit[a].snapshot.recomputedBalance]

\* The answer, once the last SELECT has read unpaid
Answer(a, unpaid) ==
  LET read == audit[a].read
  IN  audit' = [audit EXCEPT ![a] =
                  [NoAudit EXCEPT !.step = "answered",
                                  !.verdict.isConsistent = (read.ledgerBalance = read.recomputedBalance),
                                  !.verdict.crossChecks  = (unpaid = read.recomputedBalance)]]

\* ReadUnpaid, were it sent to the pool and not to the transaction's connection
ReadUnpaidOutside(a) ==
  /\ audit[a].step = "readUnpaid"
  /\ Answer(a, UnpaidTotal(audit[a].user))

\* SELECT unpaid_total FROM bills; COMMIT; the answer
ReadUnpaid(a) ==
  /\ audit[a].step = "readUnpaid"
  /\ Answer(a, audit[a].snapshot.unpaidBillsTotal)

\* A statement fails or the pod dies: nothing is answered.
AuditFails(a) ==
  /\ InFlight(a)
  /\ audit' = [audit EXCEPT ![a] = NoAudit]

AuditStep(a) == ReadLast(a) \/ ReadTotals(a) \/ ReadUnpaid(a)

Consistent(u) == LastBalance(u) = LedgerBalance(u)

\* Records, at every step of the system, whether the ledger it leaves is one that an
\* audit in flight has reason to report.
WatchAudits ==
  suspect' = [a \in Auditors |->
                IF InFlight(a)' THEN \/ InFlight(a) /\ suspect[a]
                                     \/ ~Consistent(audit[a].user)'
                                ELSE suspect[a] /\ audit'[a].step = "answered"]

-----------------------------------------------------------------------------
AuditTypeOK ==
  /\ audit \in [Auditors -> Audit]
  /\ suspect \in [Auditors -> BOOLEAN]

\* "Cross-check: sum of unpaid bills should equal outstanding balance"
\* (billingService.ts line 394): in every answer it does, whatever was charged and
\* paid between the three SELECTs.
AuditCrossCheck ==
  \A a \in Auditors :
    audit[a].step = "answered" => audit[a].verdict.crossChecks

\* "Uses a transactional snapshot (REPEATABLE READ) to prevent read skew"
\* (docs/ARCHITECTURE.md): a 409 means that the committed ledger really was
\* inconsistent at some moment between the start of the audit and its answer.
AlarmsAreTrue ==
  \A a \in Auditors : audit[a].step = "answered" /\ ~audit[a].verdict.isConsistent => suspect[a]
=============================================================================
