CONSTANTS
  s1 = s1
  s2 = s2
  k0 = k0
  k1 = k1
  k2 = k2
  Socks = {s1}
  None = None
  Scenes <- TrafficScenes
  MaxUrgent = 1
  MaxBatch = 1
  MaxRead = 2
  MaxRx = 4
  MaxApp = 1
SPECIFICATION FairSpec
CHECK_DEADLOCK FALSE
INVARIANTS
  TypeOK
  NoStrandedInput
  OutputArmed
PROPERTY
  InputServed
