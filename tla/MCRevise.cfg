SPECIFICATION FairSchedSpec
CONSTANTS
  Node <- MCNode
  Edge <- MCEdge
  Request <- MCRequest
  Op <- MCOp
  Kind <- MCKind
  Owner <- MCOwner
  Preds <- MCPreds
  Ins <- MCIns
  Ends <- MCEnds
  Version <- MCVersion
  Rank <- MCRank
  Duration <- MCDuration
  MemoryCapacity = 2
  MaxWidth = 2
  NodeMemoryCapacity = 0
  InterEpochLaunch = TRUE
  MixedConcurrency = FALSE
  ConcurrentSwaps = TRUE
  Plans <- MCPlans
  Repairs <- MCRepairs
  Horizon = 8
  Window = 2
  Lifetimes <- MCLifetimes
  HorizonSlots = 4
  SlotLength = 2
  Offset <- MCOffset
  Terminal <- MCTerminal
  Arrival <- MCArrival
  Deadline <- MCDeadline
  DemandPairs <- MCDemandPairs
  EventPolicy = TRUE
  MaxAttempts = 1
  Patience = 3
INVARIANTS
  DueExact
  DeliveriesCounted
  LateOutputsReleased
PROPERTIES
  EpisodeEnds
