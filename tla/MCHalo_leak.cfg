SPECIFICATION FairSpec
CONSTANTS
  j1 = j1  j2 = j2  r1 = r1  r2 = r2
  Jobs <- OneJob
  Rids <- OneRid
  Claims <- AnyClaim
  Caps <- NoCaps
  AdmissionMode = "off"
  KvCapEnabled = FALSE
  SloGate = FALSE
  MaxQueued <- NoLimit
  PriorityScheduling = FALSE
  Retracts = FALSE
  Aborts = TRUE
  RetainAge = 1
  QuiescentAge = 1
  IdleAge = 1
  MaxAge = 2
  MaxInFlight = 3
PROPERTIES QuiescentReleased
