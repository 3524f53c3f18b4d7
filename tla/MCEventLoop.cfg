CONSTANTS
  s1 = s1
  s2 = s2
  k0 = k0
  k1 = k1
  k2 = k2
  Socks = {s1, s2}
  None = None
  Scenes <- SlotScenes
  MaxUrgent = 1
  MaxBatch = 1
  MaxRead = 1
  MaxRx = 1
  MaxApp = 1
SPECIFICATION Spec
SYMMETRY Symmetry
CHECK_DEADLOCK FALSE
INVARIANTS
  OutputIsolation
  InputIsolation
  CountMatchesSlab
  ClosedOnce
