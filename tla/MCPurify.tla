------------------------------ MODULE MCPurify ------------------------------
(***************************************************************************)
(* One edge with two memories per link.  Request A purifies two elementary *)
(* pairs; request B wants two pairs, one after the other, and releases the *)
(* first before the second is built.  Both compete for the memories.  A    *)
(* repair may give up A's first pair while the purification is still open. *)
(***************************************************************************)
EXTENDS ConstructionExecutor

MCNode == 1 .. 2
MCEdge == {{1, 2}}
MCRequest == {"A", "B"}
MCOp == {"keep", "measure", "purify", "first", "release", "second", "drop"}

MCKind == [keep |-> "GEN", measure |-> "GEN", purify |-> "PURIFY",
           first |-> "GEN", release |-> "RELEASE", second |-> "GEN", drop |-> "RELEASE"]
MCOwner == [o \in MCOp |-> IF o \in {"keep", "measure", "purify", "drop"} THEN "A" ELSE "B"]
MCIns   == [o \in MCOp |-> CASE o = "purify"  -> {"keep", "measure"}
                             [] o = "release" -> {"first"}
                             [] o = "drop"    -> {"keep"}
                             [] OTHER -> {}]
MCPreds == [o \in MCOp |-> IF o = "second" THEN {"release"} ELSE IF o = "drop" THEN {} ELSE MCIns[o]]
MCEnds  == [o \in MCOp |-> IF o \in {"release", "drop"} THEN {} ELSE {1, 2}]
MCVersion == [o \in MCOp |-> IF o = "drop" THEN 1 ELSE 0]
MCRank == [keep |-> 1, measure |-> 2, purify |-> 3, first |-> 4, release |-> 5, second |-> 6, drop |-> 7]
MCDuration == [o \in MCOp |-> 1]

MCPlans == [A |-> {{"keep", "measure", "purify"}}, B |-> {{"first", "release", "second"}}]
MCRepairs == [A |-> {{"drop"}}, B |-> {}]

MCLifetimes == {2, Horizon + 1}

=============================================================================
