CONSTANTS
  WordBits = 4
  DEFAULT_BUFFER_SIZE = 4
  MAX_STREAM_BUFFER_CAP = 8
  DefaultBatch = 8
  Offer <- MCOffer
  Hosts <- MCHosts
  Lists <- MCLists
  Cpus <- MCCpus
  Topologies <- MCTopologies
  MaxBuilds = 2
  MaxRuns = 3
SPECIFICATION MCSpec
CHECK_DEADLOCK FALSE
INVARIANTS
  SizesKept
  LoopsPlaced
  EveryAddressServed
  RefusedForCause
