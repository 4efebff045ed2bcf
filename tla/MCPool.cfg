SPECIFICATION LoadSpec
CONSTANTS
  None = None
  t1 = t1
  t2 = t2
  t3 = t3
  a = a
  b = b
  Tasks <- Three
  Origins <- Pair
  Conns <- Four
  Setups <- Both
INVARIANTS
  CountExact
  ConnectionsExclusive
PROPERTIES
  RegistrationsKept
SYMMETRY Interchangeable
