SPECIFICATION OnlineSpec
CONSTANTS
  Node <- MCNode
  Edge <- MCEdge
  Request <- MCRequest
  Op <- MCOp
  Kind <- MCKind
  Owner <- MCOwner
  Preds <- MCPreds
  Ins <- MCIns
  Ends <- MCEnds
  Version <- MCVersion
  Rank <- MCRank
  Duration <- MCDuration
  MemoryCapacity = 2
  MaxWidth = 2
  NodeMemoryCapacity = 2
  InterEpochLaunch = TRUE
  MixedConcurrency = FALSE
  ConcurrentSwaps = TRUE
  Plans <- MCPlans
  Candidate <- MCCandidate
  Repairs <- MCRepairs
  Horizon = 5
  Window = 3
  Lifetimes <- MCLifetimes
  HorizonSlots = 5
  SlotLength = 1
  Offset <- MCOffset
  Terminal <- MCTerminal
  Arrival <- MCArrival
  Deadline <- MCDeadline
  DemandPairs <- MCDemandPairs
  EventPolicy = FALSE
  MaxAttempts = 1
  Interval = 2
INVARIANT
  NothingSeized
