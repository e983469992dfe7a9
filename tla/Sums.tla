-------------------------------- MODULE Sums --------------------------------
(***************************************************************************)
(* Sums over finite sets, as the ledger forms them: SUM(...) of a column   *)
(* over the rows of a query.                                               *)
(***************************************************************************)
EXTENDS Integers, FiniteSets, FiniteSetsExt

\* the sum of a function over a set of arguments
SumOver(f, S) == MapThenSumSet(LAMBDA e : f[e], S)
=============================================================================
