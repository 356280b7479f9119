CONSTANTS
    r1 = r1
    r2 = r2
    r3 = r3
    a = a
    b = b
    k1 = k1
    k2 = k2
    x = x
    Reqs = {r1, r2, r3}
    Constrained = {r1, r2}
    Names = {a, b}
    Adapter <- MCAdapter
    Lists = {}
    Pinned = {}
    Preloaded = {a}
    Refusable = {}
    MaxLoaded = 1
    Ids = {1, 2, 3}
    MaxCalls = 1
    Outcomes = {"reject", "abort_queued"}
    Ranks = {k1, k2}
    Key <- MCKey
    Invalid = {}
    MaxPolls = 2
SPECIFICATION Spec
INVARIANT CountExact
CHECK_DEADLOCK FALSE
