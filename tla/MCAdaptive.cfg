SPECIFICATION FairSpec
CONSTANTS
  None = None
  t1 = t1
  t2 = t2
  t3 = t3
  Tasks <- MCTasks
  MinLimit = 1
  MaxLimit = 3
  Probe = 1
  CleanProbes = 1
  Hold = 1
  Cooldown = 1
  MaxCooldown = 2
  MaxPause = 2
  CeilingRecovery = 1
  RetryAfters <- MCRetryAfters
  CountMax = 1
  MaxTime = 1
INVARIANTS
  LawBounds
  SlotsAccounted
  NoLostWakeup
PROPERTIES
  FrozenOnceRefused
  
  WaitersNotified
