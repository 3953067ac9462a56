----------------------------- MODULE Disciplines -----------------------------
(***************************************************************************)
(* BillingService with the requests of its clients in any order, and with  *)
(* each of the two disciplines under which more of it holds.  Neither is   *)
(* enforced by the code: a discipline is fixed in the initial state and    *)
(* restricts what the surroundings of the service do.                      *)
(***************************************************************************)
EXTENDS BillingService

VARIABLE discipline   \* what the callers keep to: "none", "runs" or "writers"

ConcurrentInit == Init /\ discipline \in {"none", "runs", "writers"}

ConcurrentNext ==
  /\ Next
  /\ discipline = "runs" => OneRunPerUser'
  /\ discipline = "writers" => OneWriterPerUser'
  /\ UNCHANGED discipline

ConcurrentSpec == ConcurrentInit /\ [][ConcurrentNext]_<<vars, discipline>>

\* When no two billing runs of a user overlap, the billed = FALSE filter of
\* calculateBill (billingService.ts line 19) keeps each CDR on one bill, crashes
\* and retries between calculateBill and createBill included.
RunsInTurnBillOnce == discipline = "runs" => NoDoubleBilling

\* When the transactions that write the ledger of a user do not overlap, its last
\* balance_after is the balance reconcileLedger computes again from all entries.
WritersInTurnReconcile == discipline = "writers" => ReconcileConsistent

\* Then, too, checking balance_after against its column keeps what the user owes
\* in the column's range.
WritersInTurnFit == discipline = "writers" => OwedFitsLedger
=============================================================================
