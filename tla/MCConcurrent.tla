---------------------------- MODULE MCConcurrent -----------------------------
(***************************************************************************)
(* The disciplines of the callers of BillingService, on the instances of   *)
(* MCBilling.                                                              *)
(***************************************************************************)
EXTENDS MCBilling, Disciplines
=============================================================================
