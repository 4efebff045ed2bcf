SPECIFICATION FairSpec
CONSTANTS
  None = None
  c1 = c1
  c2 = c2
  c3 = c3
  a = a
  b = b
  Callers <- MCCallers
  Hosts <- MCHosts
  Lookups <- MCLookups
  PositiveTtl = 2
  NegativeTtl = 0
  MinSweepSize = 1
  MaxTime = 2
INVARIANTS
  LookupsSound
PROPERTIES
  ImplementsSingleFlight
  EveryoneAnswered
