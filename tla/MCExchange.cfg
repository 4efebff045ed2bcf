SPECIFICATION Spec
CONSTANTS
  None = None
  Malformed = Malformed
  c1 = c1
  c2 = c2
INVARIANTS
  
  ReadsHonest
  
  FormArrives
  SentAsSaid
  
PROPERTIES
  ResumptionSound
CHECK_DEADLOCK FALSE
