---------------------------- MODULE MCRequestPath ----------------------------
EXTENDS RequestPath

CONSTANTS r1, r2, r3, a, b, k1, k2, x
MCAdapter == [r \in Reqs |-> IF r = r3 THEN b ELSE a]
MCKey == [r \in Constrained |-> x]
==============================================================================
