CONSTANTS
    d1 = d1
    d2 = d2
    d3 = d3
    h1 = h1
    h2 = h2
    h3 = h3
    r1 = r1
    r2 = r2
    Block = {1, 2}
    Keys <- MCKeys
    DevPages = {d1, d2}
    HostPages = {h1, h2}
    Reqs = {r1, r2}
    Stored <- MCStored
    LoadBackThreshold = 1
    PrefetchThreshold = 1
    PrefetchLimit = 2
SYMMETRY Symmetric
SPECIFICATION Spec
INVARIANTS PagesAccounted ContentIntact DevicePrefix LeavesExact
CHECK_DEADLOCK FALSE
