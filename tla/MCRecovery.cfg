SPECIFICATION RecoverySpec
CONSTANTS
  Node <- MCNode
  Edge <- MCEdge
  Request <- MCRequest
  Op <- MCOp
  Kind <- MCKind
  Owner <- MCOwner
  Preds <- MCPreds
  Ins <- MCIns
  Ends <- MCEnds
  Version <- MCVersion
  Rank <- MCRank
  Duration <- MCDuration
  MemoryCapacity = 1
  MaxWidth = 2
  NodeMemoryCapacity = 0
  InterEpochLaunch = TRUE
  MixedConcurrency = FALSE
  ConcurrentSwaps = TRUE
  Plans <- MCPlans
  Candidate <- MCCandidate
  Repairs <- MCRepairs
  Horizon = 20
  Window = 2
  Lifetimes <- MCLifetimes
  HorizonSlots = 5
  SlotLength = 4
  Offset <- MCOffset
  Terminal <- MCTerminal
  Arrival <- MCArrival
  Deadline <- MCDeadline
  DemandPairs <- MCDemandPairs
  EventPolicy = TRUE
  MaxAttempts = 2
  Interval = 2
  Route <- MCRoute
  Major <- MCMajor
  Recoveries <- MCRecoveries
INVARIANTS
  PolicyAgrees
  CoversApply
  BrokenMeansLost
  AdmittedOnTime
