CONSTANTS
  Calls <- MCCalls
  IoMax = 2
  MaxBatch = 3
  MaxBytes = 8
  MaxChunks = 6
SPECIFICATION Spec
CHECK_DEADLOCK FALSE
INVARIANTS
  TypeOK
  WireInOrder
