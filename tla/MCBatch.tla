------------------------------- MODULE MCBatch -------------------------------
(***************************************************************************)
(* Two requests on the chain 1-2-3: A generates both links and swaps, B    *)
(* generates the first link twice, releasing its first pair in between.    *)
(***************************************************************************)
EXTENDS BatchExecutor

CONSTANT Patience  \* A's deadline, in slots

MCNode == 1 .. 3
MCEdge == {{1, 2}, {2, 3}}
MCRequest == {"A", "B"}
MCOp == {"left", "right", "swap", "first", "release", "second"}

MCKind == [o \in MCOp |-> CASE o = "swap" -> "SWAP" [] o = "release" -> "RELEASE" [] OTHER -> "GEN"]
MCOwner == [o \in MCOp |-> IF o \in {"left", "right", "swap"} THEN "A" ELSE "B"]
MCIns   == [o \in MCOp |-> CASE o = "swap" -> {"left", "right"}
                             [] o = "release" -> {"first"}
                             [] OTHER -> {}]
MCPreds == [o \in MCOp |-> IF o = "second" THEN {"release"} ELSE MCIns[o]]
MCEnds  == [o \in MCOp |-> CASE o = "right" -> {2, 3}
                             [] o = "swap" -> {1, 3}
                             [] o = "release" -> {}
                             [] OTHER -> {1, 2}]
MCVersion == [o \in MCOp |-> 0]
MCRank == [o \in MCOp |-> CASE o = "left" -> 1 [] o = "right" -> 2 [] o = "swap" -> 3
                            [] o = "first" -> 4 [] o = "release" -> 5 [] o = "second" -> 6]
MCDuration == [o \in MCOp |-> 1]

MCPlans == [A |-> {{"left", "right", "swap"}},
            B |-> {{"first", "release", "second"} \cap MCOp}]
MCRepairs == [r \in MCRequest |-> {}]

\* B starts beside A.
MCPlannedSlot == [o \in MCOp |-> CASE o \in {"left", "right"} -> 0
                                   [] o = "swap" -> 1
                                   [] o = "first" -> 0
                                   [] o = "release" -> 1
                                   [] o = "second" -> 2]
MCTerminal == {"swap", "first", "second"}
MCArrival  == [A |-> 0, B |-> 0]
MCDeadline == [A |-> Patience, B |-> HorizonSlots + 1]
MCDemandPairs == [A |-> 1, B |-> 2]

MCLifetimes == {3, Horizon + 1}

=============================================================================
