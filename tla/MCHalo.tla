------------------------------- MODULE MCHalo -------------------------------
(* Small instances of Halo for TLC: two jobs, two request ids.             *)
EXTENDS Halo, TLC

CONSTANTS j1, j2, r1, r2

TwoJobs == {j1, j2}
OneJob == {j1}
TwoRids == {r1, r2}
OneRid == {r1}
AnyClaim == [r \in Rids |-> Jobs]
SomeCaps == {{}, {1}}
CapOne == {{1}}
NoCaps == {{}}
NoLimit == {}
QueueOfOne == {1}
Symmetry == Permutations(Rids) \cup Permutations(Jobs)
=============================================================================
