---------------------------- MODULE RatedBatches ----------------------------
(***************************************************************************)
(* Rating over every batch of CDRs and every table of rates: what the      *)
(* errors of the rounding can add up to.                                   *)
(***************************************************************************)
EXTENDS Rating, FiniteSets

CONSTANTS MaxCdrs, MaxQuantity, MaxRate   \* bounds: CDRs of a batch, quantities, rates

ASSUME BatchAssumption == MaxCdrs \in Nat /\ MaxQuantity \in Nat /\ MaxRate \in Nat

VARIABLES logs, rates   \* the batch, and service_rates

Init ==
  /\ logs = <<>>
  /\ rates = [s \in TypeSet |-> 0]

RecordUsage(s, q) ==
  /\ Len(logs) < MaxCdrs
  /\ logs' = Append(logs, [type |-> s, quantity |-> q])
  /\ UNCHANGED rates

UpdateRate(s, r) ==
  /\ rates' = [rates EXCEPT ![s] = r]
  /\ UNCHANGED logs

Next ==
  \E s \in TypeSet :
    \/ \E q \in 1..MaxQuantity : RecordUsage(s, q)
    \/ \E r \in 0..MaxRate : UpdateRate(s, r)

Spec == Init /\ [][Next]_<<logs, rates>>

\* The exact total, in Scale-ths of a cent
Exact == SumUpTo([i \in DOMAIN logs |-> logs[i].quantity * rates[logs[i].type]], Len(logs))

Used == {logs[i].type : i \in DOMAIN logs}

Distance(x, y) == IF x < y THEN y - x ELSE x - y

\* How much a rounded amount is above the exact one
Error(x) == Scale * RoundHalfEven(x) - x

\* ARCHITECTURE.md "a $0.01 error per transaction": a bill is off by at most half
\* a cent for each service it has CDRs of, however many CDRs it bills.
BillErrorBounded ==
  2 * Distance(Scale * RatedTotal(logs, rates), Exact) <= Scale * Cardinality(Used)

\* billingService.ts line 9, "eliminating aggregate bias": at any rate, the
\* rounding errors of single CDRs of all the quantities of two full cycles cancel.
NoAggregateBias ==
  \A s \in TypeSet : SumUpTo([q \in 1..(2 * Scale) |-> Error(q * rates[s])], 2 * Scale) = 0
=============================================================================
