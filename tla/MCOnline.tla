------------------------------ MODULE MCOnline ------------------------------
(***************************************************************************)
(* Two requests on the chain 1-2-3: A joins both links until its deadline, *)
(* B generates a pair on the first link.                                   *)
(***************************************************************************)
EXTENDS OnlineController

MCNode == 1 .. 3
MCEdge == {{1, 2}, {2, 3}}
MCRequest == {"A", "B"}
MCOp == {"left", "right", "swap", "first"}

MCKind == [o \in MCOp |-> IF o = "swap" THEN "SWAP" ELSE "GEN"]
MCOwner == [o \in MCOp |-> IF o = "first" THEN "B" ELSE "A"]
MCIns   == [o \in MCOp |-> IF o = "swap" THEN {"left", "right"} ELSE {}]
MCPreds == MCIns
MCEnds  == [o \in MCOp |-> CASE o = "right" -> {2, 3} [] o = "swap" -> {1, 3} [] OTHER -> {1, 2}]
MCVersion == [o \in MCOp |-> 0]
MCRank == [left |-> 1, right |-> 2, swap |-> 3, first |-> 4]
MCDuration == [o \in MCOp |-> 1]

MCPlans == [A |-> {{"left", "right", "swap"}}, B |-> {{"first"}}]
MCCandidate == UNION {MCPlans[r] : r \in MCRequest}
MCRepairs == [r \in MCRequest |-> {}]

MCOffset == [o \in MCOp |-> IF o = "swap" THEN 1 ELSE 0]
MCTerminal == {"swap", "first"}
MCArrival  == [A |-> 0, B |-> 0]
MCDeadline == [A |-> 4, B |-> HorizonSlots + 1]
MCDemandPairs == [A |-> 1, B |-> 1]

MCLifetimes == {2, Horizon + 1}

=============================================================================
