CONSTANTS
  N = 2
  a = a
  b = b
  t1 = t1
  t2 = t2
  Conns = {a, b}
  Callers = {t1, t2}
  None = None
  Scenes <- MCScenes
SPECIFICATION FairSpec
CHECK_DEADLOCK FALSE
INVARIANTS
  TypeOK
  AcceptorWillStop
  CleanEnd
  TasksFindPool
  LoadEven
PROPERTIES
  ShutdownEndsRun
  PeersAnswered
