SPECIFICATION PlannerSpec
CONSTANTS
  Node <- MCNode
  Edge <- MCEdge
  Request <- MCRequest
  MemoryCapacity = 2
  MaxWidth = 1
  NodeMemoryCapacity = 3
  Ends <- MCEnds
  Arrival <- MCArrival
  Deadline <- MCDeadline
  Pairs <- MCPairs
  PlainReach <- MCPlainReach
  PureReach <- MCPureReach
  Methods <- MCMethods
  Reservations <- MCReservations
  WindowStart = 1
  WindowEnd = 3
  LastSlot = 9
  SpanLimit = 3
  MaxHops = 4
  PathCount = 2
  TreeCount = 2
  CostLimit = 2
  MaxLinks = 5
INVARIANTS
  SelectionFeasible
  ResidualSound
  PlansExecutable
  NothingLeftOut
  BestTrees
