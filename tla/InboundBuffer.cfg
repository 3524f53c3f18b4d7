CONSTANTS
  NoBuf = NoBuf
  Sizes = {0, 1, 2, 3, 5}
  MsgLen = 2
  MaxChunk = 4
  MaxBytes = 12
SPECIFICATION Spec
CHECK_DEADLOCK FALSE
INVARIANTS
  TypeOK
  StreamIntact
  PeekAgrees
  VectoredAgrees
