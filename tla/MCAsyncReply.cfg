CONSTANTS
  l0 = l0
  l1 = l1
  p = p
  a = a
  b = b
  Clients <- MCClients
  Pools = {p}
  None = None
  Workers = 2
  Cap = 1
  Shards = {0, 1}
  Nested = {}
  Panics = FALSE
  MaxTasks <- MCMaxTasks
  N = 2
  LoopOf <- MCLoopOf
  Conns = {a, b}
  Home <- MCHome
  Examples = {"chat", "echo"}
  MaxMsgs = 4
SPECIFICATION MCSpec
CHECK_DEADLOCK FALSE
INVARIANTS
  RepliesInOrder
  RepliesComplete
PROPERTY
  RequestsAnswered
