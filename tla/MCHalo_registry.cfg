SPECIFICATION Spec
CONSTANTS
  j1 = j1  j2 = j2  r1 = r1  r2 = r2
  Jobs <- TwoJobs
  Rids <- TwoRids
  Claims <- AnyClaim
  Caps <- SomeCaps
  AdmissionMode = "job"
  KvCapEnabled = TRUE
  SloGate = TRUE
  MaxQueued <- QueueOfOne
  PriorityScheduling = TRUE
  Retracts = TRUE
  Aborts = TRUE
  RetainAge = 0
  QuiescentAge = 1
  IdleAge = 1
  MaxAge = 2
  MaxInFlight = 2
SYMMETRY Symmetry
INVARIANTS MappingExact TrackedWhileLive DeclaredConcurrency
PROPERTIES RetainWindow
