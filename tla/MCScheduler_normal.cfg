\* event_loop_normal, one-token pages, memory is short
SPECIFICATION FairSpec
CONSTANTS
  r1 = r1  r2 = r2  r3 = r3
  Reqs <- ThreeReqs
  InputLen <- Prompts
  MaxNew <- Outputs
  Priority <- SamePriority
  Total = 11
  PageSize = 1
  ChunkSize = 2
  MaxPrefill = 3
  MaxRunning = 3
  Unit = 4
  Ratios <- FewRatios
  Overlap = FALSE
  Preemption = FALSE
  Aborts = TRUE
  PauseModes <- InPlace
  MaxPauses = 1
INVARIANTS InOnePlace FullMeansBusy PrefillFits
PROPERTIES EventuallyAnswered
