CONSTANTS
  c1 = c1
  p = p
  q = q
  Clients = {c1}
  Pools = {p, q}
  None = None
  Workers = 2
  Cap = 1
  Shards = {0, 1}
  Panics = TRUE
  Nested <- MCNested
  MaxTasks <- MCMaxTasks
SPECIFICATION MCSpec
CHECK_DEADLOCK FALSE
INVARIANTS
  TypeOK
  ShardOrder
  ShutdownDrains
PROPERTIES
  SubmitReturns
  ShutdownReturns
