--------------------------- MODULE BillingLedger ----------------------------
(***************************************************************************)
(* What billing promises, without transactions, locks or failures: a bill  *)
(* is charged once and paid at most once, each in one step with the        *)
(* journal entry that accounts for it, and the journal only grows          *)
(* (ARCHITECTURE.md: the ledger is an append-only financial audit trail).  *)
(* BillingService implements it.                                           *)
(***************************************************************************)
EXTENDS Integers

CONSTANTS Users, BillIds, Amounts, NoBillYet

VARIABLES
  bills,    \* bills[b]: NoBillYet, or the user, the amount and the status of b
  journal   \* the set of entries, each of one user, bill, type and amount

Init ==
  /\ bills = [b \in BillIds |-> NoBillYet]
  /\ journal = {}

Entry(b, type, u, a) == [user |-> u, bill |-> b, type |-> type, amount |-> a]

Charge(b, u, a) ==
  /\ bills[b] = NoBillYet
  /\ bills' = [bills EXCEPT ![b] = [user |-> u, amount |-> a, status |-> "UNPAID"]]
  /\ journal' = journal \cup {Entry(b, "CHARGE", u, a)}

Pay(b) ==
  /\ bills[b] # NoBillYet
  /\ bills[b].status = "UNPAID"
  /\ bills' = [bills EXCEPT ![b].status = "PAID"]
  /\ journal' = journal \cup {Entry(b, "PAYMENT", bills[b].user, bills[b].amount)}

Next == \E b \in BillIds : Pay(b) \/ \E u \in Users, a \in Amounts : Charge(b, u, a)

Spec == Init /\ [][Next]_<<bills, journal>>
=============================================================================
