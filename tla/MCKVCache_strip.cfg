\* strip_thinking_cache
CONSTANTS
    p1 = p1  p2 = p2  p3 = p3  p4 = p4  r1 = r1  r2 = r2  a = a  b = b
    Token <- MCToken
    PageSize = 1
    Page <- FourPages
    Reqs <- TwoReqs
    Prompts <- TokenPrompts
    MaxNewTokens = 3
    Overlap = FALSE
    DisableFinishedInsert = FALSE
    StripThinking = TRUE
    RetractDecodeSteps = 2
SPECIFICATION Spec
SYMMETRY Symmetry
INVARIANTS PoolBalance
