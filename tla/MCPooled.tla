------------------------------ MODULE MCPooled ------------------------------
(***************************************************************************)
(* PooledBilling on small instances.                                       *)
(***************************************************************************)
EXTENDS MCBilling, PooledBilling

CONSTANTS auditor, pod1, pod2

MCPodOf == [c \in Clients |-> IF c = w1 THEN pod1 ELSE pod2]

\* The operator has set a rate and the CDRs have arrived: from here on they are
\* billed, expire and are paid for.
MCPooledInit ==
  /\ rates = [s \in Services |-> CHOOSE r \in Rates : TRUE]
  /\ userLogs = Cdrs
  /\ age = [c \in Cdrs |-> "current"]
  /\ billOf = [c \in Cdrs |-> NoBill]
  /\ bills = [b \in BillIds |-> NoRow]
  /\ ledger = [e \in EntryIds |-> NoRow]
  /\ nextBill = 1 /\ nextEntry = 1
  /\ pc = [w \in Workers |-> "idle"]
  /\ req = [w \in Workers |-> NoRequest]
  /\ charged = [b \in BillIds |-> {}]
  /\ AuditInit /\ PoolInit

MCPooledSpec == MCPooledInit /\ [][PooledNext]_<<sysVars, suspect>> /\ PooledFairness
=============================================================================
