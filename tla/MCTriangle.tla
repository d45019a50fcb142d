----------------------------- MODULE MCTriangle -----------------------------
(***************************************************************************)
(* Two requests on a triangle with one memory per link.  Request A builds  *)
(* a pair between 1 and 3 by a swap in 2 and may retry the generation on   *)
(* edge 1-2; request B generates on the edge 1-3, whose ends A's swap      *)
(* joins as well.                                                          *)
(***************************************************************************)
EXTENDS ConstructionExecutor

MCNode == 1 .. 3
MCEdge == {{1, 2}, {2, 3}, {1, 3}}
MCRequest == {"A", "B"}

\* a12, a23 and aSwap are A's plan, b12 and bSwap its repair, c13 is B's plan.
MCOp == {"a12", "a23", "aSwap", "b12", "bSwap", "c13"}
MCSwap == {"aSwap", "bSwap"}

MCKind  == [o \in MCOp |-> IF o \in MCSwap THEN "SWAP" ELSE "GEN"]
MCOwner == [o \in MCOp |-> IF o = "c13" THEN "B" ELSE "A"]
MCIns   == [o \in MCOp |-> CASE o = "aSwap" -> {"a12", "a23"}
                             [] o = "bSwap" -> {"b12", "a23"}
                             [] OTHER -> {}]
MCPreds == [o \in MCOp |-> IF o = "bSwap" THEN {"b12"} ELSE MCIns[o]]
MCEnds  == [o \in MCOp |-> CASE o \in MCSwap \cup {"c13"} -> {1, 3}
                             [] o = "a23" -> {2, 3}
                             [] OTHER -> {1, 2}]
MCVersion == [o \in MCOp |-> IF o \in {"b12", "bSwap"} THEN 1 ELSE 0]
MCRank == [a12 |-> 1, a23 |-> 2, aSwap |-> 3, b12 |-> 4, bSwap |-> 5, c13 |-> 6]
MCDuration == [o \in MCOp |-> IF o \in MCSwap THEN 2 ELSE 1]

MCPlans == [A |-> {{"a12", "a23", "aSwap"}}, B |-> {{"c13"}}]
MCRepairs == [A |-> {{"b12", "bSwap"}}, B |-> {}]

MCLifetimes == {2, Horizon + 1}

=============================================================================
