SPECIFICATION AllSpec
CONSTANTS
  None = None
  t1 = t1
  t2 = t2
  t3 = t3
  r4 = r4
  r5 = r5
  a = a
  b = b
  c = c
  Tasks <- MCTasks
  Authorities <- MCAuthorities
  Limit = 1
  Capacity = 2
  SeqSize = 2
  Requests <- MCRequests
  Cost = 2
  Burst = 3
  MaxTime = 7
INVARIANTS
  RateRespected
  GateSound
PROPERTIES
  NoOvertaking
  GatesKept
SYMMETRY Interchangeable
