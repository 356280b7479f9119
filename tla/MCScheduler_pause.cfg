\* a pause that retracts, and its continuation
SPECIFICATION FairSpec
CONSTANTS
  r1 = r1  r2 = r2  r3 = r3
  Reqs <- ThreeReqs
  InputLen <- Prompts
  MaxNew <- Outputs
  Priority <- SamePriority
  Total = 11
  PageSize = 1
  ChunkSize = 2
  MaxPrefill = 3
  MaxRunning = 2
  Unit = 4
  Ratios <- FewRatios
  Overlap = FALSE
  Preemption = FALSE
  Aborts = FALSE
  PauseModes <- Retract
  MaxPauses = 1
PROPERTIES EventuallyAnswered
