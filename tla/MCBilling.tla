----------------------------- MODULE MCBilling ------------------------------
(***************************************************************************)
(* BillingService on small instances.                                      *)
(***************************************************************************)
EXTENDS BillingService, TLC

CONSTANTS c1, c2, alice, bob, w1, w2

MCCdrUserOne == [c \in Cdrs |-> alice]
MCCdrUserTwo == [c \in Cdrs |-> IF c = c1 THEN alice ELSE bob]

\* c1 is one unit of the first service and c2 two, priced as calculateBill does
\* with two ten-thousandths to the cent: at rate 1 they cost 0 and 1 billed
\* apart and 2 together; at rate 4 they cost 2, 4 (more than the ledger's caps in
\* the runs) and 6 (more than the bills' cap).
LOCAL INSTANCE SequencesExt
MCTypes   == SetToSeq(Services)
MCRow     == [c \in Cdrs |-> [type |-> MCTypes[1], quantity |-> IF c = c1 THEN 1 ELSE 2]]
MCLogs(S) == LET ids == SetToSeq(S) IN [i \in DOMAIN ids |-> MCRow[ids[i]]]

Rated == INSTANCE Rating WITH Scale <- 2, Types <- MCTypes
MCPrice(S, r) == Rated!RatedTotal(MCLogs(S), r)

WorkerSymmetry == Permutations(Workers)
=============================================================================
