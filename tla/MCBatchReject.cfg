SPECIFICATION BatchSpec
CONSTANTS
  Node <- MCNode
  Edge <- MCEdge
  Request <- MCRequest
  Op <- MCOp
  Kind <- MCKind
  Owner <- MCOwner
  Preds <- MCPreds
  Ins <- MCIns
  Ends <- MCEnds
  Version <- MCVersion
  Rank <- MCRank
  Duration <- MCDuration
  MemoryCapacity = 1
  MaxWidth = 1
  NodeMemoryCapacity = 0
  InterEpochLaunch = TRUE
  MixedConcurrency = FALSE
  ConcurrentSwaps = TRUE
  Plans <- MCPlans
  Repairs <- MCRepairs
  Horizon = 8
  Window = 5
  Lifetimes <- MCLifetimes
  HorizonSlots = 4
  SlotLength = 2
  PlannedSlot <- MCPlannedSlot
  Arrival <- MCArrival
  Deadline <- MCDeadline
  Terminal <- MCTerminal
  DemandPairs <- MCDemandPairs
  Patience = 3
PROPERTY
  RejectedNotReady
