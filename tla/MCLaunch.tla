------------------------------ MODULE MCLaunch ------------------------------
(***************************************************************************)
(* Request A swaps in the middle of the chain 1 - 2 - 3 and request B      *)
(* purifies on the edge between 4 and 5, so that one launch may hold two   *)
(* generations of one edge beside a swap, or a purification.               *)
(***************************************************************************)
EXTENDS LaunchTransaction

MCNode == 1 .. 5
MCEdge == {{1, 2}, {2, 3}, {4, 5}}
MCRequest == {"A", "B"}
MCOp == {"left", "right", "swap", "keep", "measure", "purify"}

MCKind  == [left |-> "GEN", right |-> "GEN", swap |-> "SWAP",
            keep |-> "GEN", measure |-> "GEN", purify |-> "PURIFY"]
MCOwner == [o \in MCOp |-> IF o \in {"left", "right", "swap"} THEN "A" ELSE "B"]
MCIns   == [o \in MCOp |-> CASE o = "swap"   -> {"left", "right"}
                             [] o = "purify" -> {"keep", "measure"}
                             [] OTHER -> {}]
MCPreds == MCIns
MCEnds  == [left |-> {1, 2}, right |-> {2, 3}, swap |-> {1, 3},
            keep |-> {4, 5}, measure |-> {4, 5}, purify |-> {4, 5}]
MCVersion == [o \in MCOp |-> 0]
MCRank == [left |-> 1, right |-> 2, swap |-> 3, keep |-> 4, measure |-> 5, purify |-> 6]
MCDuration == [o \in MCOp |-> 1]

MCPlans == [A |-> {{"left", "right", "swap"}}, B |-> {{"keep", "measure", "purify"}}]
MCRepairs == [r \in MCRequest |-> {}]

MCLifetimes == {Horizon + 1}

=============================================================================
