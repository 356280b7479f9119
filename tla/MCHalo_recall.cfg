SPECIFICATION Spec
CONSTANTS
  j1 = j1  j2 = j2  r1 = r1  r2 = r2
  Jobs <- OneJob
  Rids <- TwoRids
  Claims <- AnyClaim
  Caps <- CapOne
  AdmissionMode = "off"
  KvCapEnabled = FALSE
  SloGate = FALSE
  MaxQueued <- NoLimit
  PriorityScheduling = FALSE
  Retracts = TRUE
  Aborts = FALSE
  RetainAge = 1
  QuiescentAge = 1
  IdleAge = 1
  MaxAge = 2
  MaxInFlight = 3
PROPERTIES CapRejectJustified
