------------------------------ MODULE MCRating ------------------------------
(***************************************************************************)
(* RatedBatches on a small instance.                                       *)
(***************************************************************************)
EXTENDS RatedBatches

MCTypes == <<"CALL", "SMS">>
=============================================================================
