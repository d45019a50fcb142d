SPECIFICATION TxnSpec
CONSTANTS
  Node <- MCNode
  Edge <- MCEdge
  Request <- MCRequest
  Op <- MCOp
  Kind <- MCKind
  Owner <- MCOwner
  Preds <- MCPreds
  Ins <- MCIns
  Ends <- MCEnds
  Version <- MCVersion
  Rank <- MCRank
  Duration <- MCDuration
  MemoryCapacity = 2
  MaxWidth = 2
  NodeMemoryCapacity = 0
  InterEpochLaunch = TRUE
  MixedConcurrency = TRUE
  ConcurrentSwaps = TRUE
  Plans <- MCPlans
  Repairs <- MCRepairs
  Horizon = 3
  Window = 1
  Lifetimes <- MCLifetimes
PROPERTIES
  LaunchAllOrNothing
  LaunchImplementsContract
