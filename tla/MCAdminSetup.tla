---------------------------- MODULE MCAdminSetup ----------------------------
EXTENDS AdminSetup

CONSTANTS s1, s2, s3, c1, k1, r1, k2, p1, p2, u1, u2

MCUserOf == [s \in Setups |-> IF s = s3 THEN u2 ELSE u1]
\* two setups and a rotation share the pool of p1
MCServedBy == [r \in Requests |-> IF r \in {s1, s2, r1} THEN p1 ELSE p2]
=============================================================================
