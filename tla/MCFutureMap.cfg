CONSTANTS
    r1 = r1
    r2 = r2
    r3 = r3
    r4 = r4
    Reqs <- MCReqs
    MaxRunning = 3
    MaxChunks = 1
    MaxPasses = 3
SPECIFICATION Spec
INVARIANTS SlotIntact NoLap
SYMMETRY Symm
