---------------------------- MODULE MCCodeNumbers ----------------------------
(* Two merchants with the same hash, one with another. *)
EXTENDS CodeNumbers

CONSTANTS m1, m2, m3

MCMapping == [m \in Merchants |-> IF m = m3 THEN 7 ELSE 9058]
=============================================================================
