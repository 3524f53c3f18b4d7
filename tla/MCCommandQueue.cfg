CONSTANTS
  app = app
  acceptor = acceptor
  Loop = Loop
  Senders = {app, acceptor}
  Issues <- MCIssues
  MaxUrgent = 1
  MaxBatch = 2
  MaxCmds <- MCMaxCmds
SPECIFICATION FairSpec
CHECK_DEADLOCK FALSE
INVARIANTS
  TypeOK
  NoLostWakeup
  HighInOrder
PROPERTIES
  ImplementsMailbox
  CommandsExecuted
