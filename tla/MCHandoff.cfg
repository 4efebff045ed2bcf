SPECIFICATION Spec
CONSTANTS
  None = None
  c1 = c1
  c2 = c2
  u1 = u1
  u2 = u2
  e1 = e1
  Calls <- TwoCalls
  OriginOf <- OwnOrigin
  Places <- ThreePlaces
  WithBudget = 0
  WithWindow = 2
  WithTrackedOrigins = 0
  WithConcurrency = 0
  SniffLimit = 1
  Claims = {"unknown"}
  SolveBudget = 1
  SweepAt = 1
  LegalAgent = FALSE
  Attached = TRUE
  MaxSolves = 2
  MaxTime = 3
INVARIANTS
  HandoffSound
PROPERTIES
  WaitsEnd
CHECK_DEADLOCK FALSE
