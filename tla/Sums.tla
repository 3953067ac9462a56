-------------------------------- MODULE Sums --------------------------------
(***************************************************************************)
(* The aggregate SUM(...) of the SQL statements of billingService.ts.  The *)
(* rows of a table are a function on 1..n, and the sum over them is a      *)
(* recursive function, not a RECURSIVE operator, so that TLAPS can reason  *)
(* about it.                                                               *)
(***************************************************************************)
EXTENDS Integers

\* f[1] + ... + f[n]
SumUpTo(f, n) ==
  LET s[i \in 0..n] == IF i = 0 THEN 0 ELSE s[i - 1] + f[i]
  IN  s[n]
=============================================================================
