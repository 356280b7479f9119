\* two-token pages, requests as long as the pool allows
SPECIFICATION Spec
CONSTANTS
  r1 = r1  r2 = r2  r3 = r3
  Reqs <- ThreeReqs
  InputLen <- Prompts
  MaxNew <- MaxOutputs
  Priority <- SamePriority
  Total = 12
  PageSize = 2
  ChunkSize = 2
  MaxPrefill = 3
  MaxRunning = 2
  Unit = 4
  Ratios <- FewRatios
  Overlap = FALSE
  Preemption = FALSE
  Aborts = FALSE
  PauseModes <- NoPause
  MaxPauses = 0
INVARIANTS FullMeansBusy
