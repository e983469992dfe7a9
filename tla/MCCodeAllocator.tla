--------------------------- MODULE MCCodeAllocator ---------------------------
(* Instances of CodeAllocator for TLC. *)
EXTENDS CodeAllocator, TLC

CONSTANTS n1, n2, c1, c2, c3

MCNodes == {n1, n2}
MCCallers == {c1, c2, c3}
\* two callers share the bucket of n1
MCNodeOf == c1 :> n1 @@ c2 :> n1 @@ c3 :> n2
=============================================================================
