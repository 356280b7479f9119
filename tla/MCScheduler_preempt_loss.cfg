\* enable_priority_preemption
SPECIFICATION Spec
CONSTANTS
  r1 = r1  r2 = r2  r3 = r3
  Reqs <- ThreeReqs
  InputLen <- Prompts
  MaxNew <- Outputs
  Priority <- LastUrgent
  Total = 12
  PageSize = 1
  ChunkSize = 2
  MaxPrefill = 3
  MaxRunning = 2
  Unit = 4
  Ratios <- FewRatios
  Overlap = FALSE
  Preemption = TRUE
  Aborts = FALSE
  PauseModes <- NoPause
  MaxPauses = 0
INVARIANTS InOnePlace
