\* event_loop_overlap, priority preemption, two rows, two long prompts, pauses that retract
SPECIFICATION Spec
CONSTANTS
  r1 = r1  r2 = r2  r3 = r3
  Reqs <- ThreeReqs
  InputLen <- TwoLong
  MaxNew <- FirstGrows
  Priority <- LastUrgent
  Total = 13
  PageSize = 1
  ChunkSize = 2
  MaxPrefill = 8
  MaxRunning = 2
  Unit = 4
  Ratios <- FewRatios
  Overlap = TRUE
  Preemption = TRUE
  Aborts = TRUE
  PauseModes <- Retract
  MaxPauses = 1
INVARIANTS AnsweredOnce RowsFit ChunkedHasRoom OneChunked LastOneFits
PROPERTIES AbortIsFinal
