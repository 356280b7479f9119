--------------------------- MODULE MCDecodeMemory ---------------------------
EXTENDS DecodeMemory

CONSTANTS r1, r2, r3
MCOrigin == [r \in Reqs |-> CASE r = r1 -> 1 [] r = r2 -> 4 [] OTHER -> 2]
MCMaxNew == [r \in Reqs |-> CASE r = r1 -> 9 [] r = r2 -> 5 [] OTHER -> 2]
=============================================================================
