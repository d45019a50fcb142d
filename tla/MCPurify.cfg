SPECIFICATION FairSpec
CONSTANTS
  Node <- MCNode
  Edge <- MCEdge
  Request <- MCRequest
  Op <- MCOp
  Kind <- MCKind
  Owner <- MCOwner
  Preds <- MCPreds
  Ins <- MCIns
  Ends <- MCEnds
  Version <- MCVersion
  Rank <- MCRank
  Duration <- MCDuration
  MemoryCapacity = 2
  MaxWidth = 2
  NodeMemoryCapacity = 0
  InterEpochLaunch = TRUE
  MixedConcurrency = FALSE
  ConcurrentSwaps = TRUE
  Plans <- MCPlans
  Repairs <- MCRepairs
  Horizon = 4
  Window = 2
  Lifetimes <- MCLifetimes
INVARIANTS
  Inductive
  InputsExclusive
  CapacityRespected
  NoLateCapacity
  LanesExact
PROPERTIES
  ImplementsContract
  InFlightResolves
