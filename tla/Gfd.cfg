CONSTANTS
  N = 3
  Keys = 3
  Fds = {3, 4}
  LoopBits = 1
  SlotBits = 1
  SeqBits = 1
  MaxConns = 4
SPECIFICATION Spec
CHECK_DEADLOCK FALSE
INVARIANTS
  RightConnection
  AnswerReaches
