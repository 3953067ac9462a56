------------------------------ MODULE MCPickup ------------------------------
(***************************************************************************)
(* What becomes of the CDRs of a billing run that failed after it had      *)
(* calculated the bill: BillingService with a history variable.            *)
(***************************************************************************)
EXTENDS MCBilling

VARIABLE abandoned   \* the CDRs of runs that ended without committing their bill

PickupInit == Init /\ abandoned = {}

\* w fails after calculateBill.  Having nothing to charge is no failure.
GivesUp(w) ==
  /\ pc[w] \notin {"idle", "calculate"} /\ pc'[w] = "idle"
  /\ charged' = charged /\ ~NoCharge(w)

PickupNext ==
  /\ Next
  /\ abandoned' = abandoned \cup UNION {req[w].logIds : w \in {v \in Workers : GivesUp(v)}}

PickupSpec == PickupInit /\ [][PickupNext]_<<vars, abandoned>>

\* billingService.ts lines 111-112: the CDRs of a run that failed before its
\* commit remain unbilled and the next run of the user picks them up.
FailedRunPickedUp ==
  [][\A w \in Workers :
       pc[w] = "calculate" /\ pc'[w] = "insertBill" =>
         {c \in abandoned : CdrUser[c] = req[w].user /\ billOf[c] = NoBill}
           \subseteq req'[w].logIds]_<<vars, abandoned>>
=============================================================================
