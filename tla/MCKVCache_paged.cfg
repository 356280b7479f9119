\* page_size 2, event_loop_overlap
CONSTANTS
    p1 = p1  p2 = p2  p3 = p3  p4 = p4  r1 = r1  r2 = r2  a = a  b = b
    Token <- MCToken
    PageSize = 2
    Page <- ThreePages
    Reqs <- TwoReqs
    Prompts <- PagePrompts
    MaxNewTokens = 3
    Overlap = TRUE
    DisableFinishedInsert = FALSE
    StripThinking = FALSE
    RetractDecodeSteps = 2
SPECIFICATION Spec
SYMMETRY Symmetry3
INVARIANTS LockInv LockCounts LastNodeAlive SizesExact EvictableReachable OneOwner ProtectedPrefix KVIntact PoolBalance
PROPERTIES SharesPages
