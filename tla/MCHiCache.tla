------------------------------- MODULE MCHiCache -------------------------------
EXTENDS HiCache, TLC

CONSTANTS d1, d2, d3, h1, h2, h3, r1, r2
MCKeys == {<<1>>, <<1, 2>>}
MCStored == {<<1>>, <<1, 2>>}
Symmetric == Permutations(DevPages) \cup Permutations(HostPages) \cup Permutations(Reqs)
==============================================================================
