SPECIFICATION EvictionSpec
CONSTANTS
  None = None
  t1 = t1
  t2 = t2
  t3 = t3
  a = a
  b = b
  c = c
  Tasks <- MCTasks
  Authorities <- MCAuthorities
  Limit = 1
  Capacity = 2
  SeqSize = 2
INVARIANT AtMostLimitPerOrigin
SYMMETRY Interchangeable
