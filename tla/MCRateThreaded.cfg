SPECIFICATION Threaded
CONSTANTS
  r1 = r1
  r2 = r2
  r3 = r3
  r4 = r4
  r5 = r5
  Requests <- MCFour
  Cost = 2
  Burst = 3
  MaxTime = 5
INVARIANTS
  RateRespected
CHECK_DEADLOCK FALSE
