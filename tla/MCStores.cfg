SPECIFICATION Spec
CONSTANTS
  None = None
  Star = Star
  Withdrawn = Withdrawn
  x1 = x1
  x2 = x2
  k1 = k1
  k2 = k2
  k3 = k3
  u1 = u1
  u2 = u2
  u3 = u3
  o1 = o1
  o2 = o2
  o3 = o3
  p1 = p1
  p2 = p2
  p3 = p3
INVARIANTS
  
  DemandsRemembered
  CacheSound
  
  
  SessionsApart
  WaitsWithinPolicy
  DatesRead
PROPERTIES
  GrantsKept
  OriginsRemembered
CHECK_DEADLOCK FALSE
