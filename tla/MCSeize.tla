------------------------------ MODULE MCSeize ------------------------------
(***************************************************************************)
(* Three requests on the chain 1-2-3-4 with two memories per node: A       *)
(* generates a pair on the first link, B needs two pairs on the second,    *)
(* and C, which arrives later, one on the third.                           *)
(***************************************************************************)
EXTENDS OnlineController

MCNode == 1 .. 4
MCEdge == {{1, 2}, {2, 3}, {3, 4}}
MCRequest == {"A", "B", "C"}
MCOp == {"a", "b1", "b2", "c"}

MCKind  == [o \in MCOp |-> "GEN"]
MCOwner == [a |-> "A", b1 |-> "B", b2 |-> "B", c |-> "C"]
MCIns   == [o \in MCOp |-> {}]
MCPreds == MCIns
MCEnds  == [a |-> {1, 2}, b1 |-> {2, 3}, b2 |-> {2, 3}, c |-> {3, 4}]
MCVersion == [o \in MCOp |-> 0]
MCRank == [a |-> 1, b1 |-> 2, b2 |-> 3, c |-> 4]
MCDuration == [o \in MCOp |-> 1]

MCPlans == [A |-> {{"a"}}, B |-> {{"b1", "b2"}}, C |-> {{"c"}}]
MCCandidate == UNION {MCPlans[r] : r \in MCRequest}
MCRepairs == [r \in MCRequest |-> {}]

MCOffset == [o \in MCOp |-> 0]
MCTerminal == MCOp
MCArrival  == [A |-> 0, B |-> 0, C |-> 1]
MCDeadline == [r \in MCRequest |-> HorizonSlots + 1]
MCDemandPairs == [A |-> 1, B |-> 2, C |-> 1]

MCLifetimes == {Horizon + 1}

=============================================================================
