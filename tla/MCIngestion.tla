---------------------------- MODULE MCIngestion -----------------------------
(***************************************************************************)
(* UsageIngestion with one submission of each kind: "call" and "again" use *)
(* one idempotency key, "plain" has none, "stray" names a user that does   *)
(* not exist, and "bad" is malformed.                                      *)
(***************************************************************************)
EXTENDS UsageIngestion, TLC

CONSTANTS call, again, plain, stray, bad, key1

MCKey == [s \in Submissions |-> IF s \in {call, again} THEN key1 ELSE NoKey]

Symmetry == Permutations(Workers)
=============================================================================
