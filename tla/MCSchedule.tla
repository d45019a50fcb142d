----------------------------- MODULE MCSchedule -----------------------------
(***************************************************************************)
(* Two requests on one edge.  A purifies two pairs; its revision generates *)
(* the second one again.  B demands two pairs, one after the other, and    *)
(* releases the first before the second is built.                          *)
(***************************************************************************)
EXTENDS PersistentScheduler

CONSTANT Patience  \* A's deadline, in slots

MCNode == 1 .. 2
MCEdge == {{1, 2}}
MCRequest == {"A", "B"}
MCOp == {"keep", "measure", "purify", "again", "repurify", "first", "release", "second"}

MCKind == [keep |-> "GEN", measure |-> "GEN", purify |-> "PURIFY", again |-> "GEN",
           repurify |-> "PURIFY", first |-> "GEN", release |-> "RELEASE", second |-> "GEN"]
MCOwner == [o \in MCOp |-> IF o \in {"first", "release", "second"} THEN "B" ELSE "A"]
MCIns   == [o \in MCOp |-> CASE o = "purify"   -> {"keep", "measure"}
                             [] o = "repurify" -> {"keep", "again"}
                             [] o = "release"  -> {"first"}
                             [] OTHER -> {}]
MCPreds == [o \in MCOp |-> CASE o = "second"   -> {"release"}
                             [] o = "repurify" -> {"again"}
                             [] OTHER -> MCIns[o]]
MCEnds  == [o \in MCOp |-> IF o = "release" THEN {} ELSE {1, 2}]
MCVersion == [o \in MCOp |-> IF o \in {"again", "repurify"} THEN 1 ELSE 0]
MCRank == [keep |-> 1, measure |-> 2, purify |-> 3, again |-> 4, repurify |-> 5,
           first |-> 6, release |-> 7, second |-> 8]
MCDuration == [o \in MCOp |-> 1]

MCPlans == [A |-> {{"keep", "measure", "purify"}},
            B |-> {{"first", "release", "second"}}]
MCRepairs == [A |-> {{"again", "repurify"}}, B |-> {}]

MCOffset == [o \in MCOp |-> CASE o \in {"purify", "repurify", "release"} -> 1
                              [] o = "second" -> 2
                              [] OTHER -> 0]
MCTerminal == {"purify", "repurify", "first", "second"}
MCArrival  == [A |-> 0, B |-> 0]
MCDeadline == [A |-> Patience, B |-> HorizonSlots + 3]
MCDemandPairs == [A |-> 1, B |-> 2]

MCLifetimes == {2, Horizon + 1}

=============================================================================
