------------------------------- MODULE MCSwaps -------------------------------
(***************************************************************************)
(* Two swaps on the chain 1 - 2 - ... - 6.  With Gap = 1 request B swaps   *)
(* beside request A (nodes 4, 5, 6), with Gap = 0 they meet in node 3.     *)
(***************************************************************************)
EXTENDS ConstructionExecutor

CONSTANT Gap

MCNode == 1 .. 6
MCEdge == {{n, n + 1} : n \in 1 .. 5}
MCRequest == {"A", "B"}
MCOp == {"aLeft", "aRight", "aSwap", "bLeft", "bRight", "bSwap"}
MCSwap == {"aSwap", "bSwap"}

MCKind  == [o \in MCOp |-> IF o \in MCSwap THEN "SWAP" ELSE "GEN"]
MCOwner == [o \in MCOp |-> IF o \in {"aLeft", "aRight", "aSwap"} THEN "A" ELSE "B"]
MCIns   == [o \in MCOp |-> CASE o = "aSwap" -> {"aLeft", "aRight"}
                             [] o = "bSwap" -> {"bLeft", "bRight"}
                             [] OTHER -> {}]
MCPreds == MCIns
MCEnds == [aLeft |-> {1, 2}, aRight |-> {2, 3}, aSwap |-> {1, 3},
           bLeft |-> {3 + Gap, 4 + Gap}, bRight |-> {4 + Gap, 5 + Gap}, bSwap |-> {3 + Gap, 5 + Gap}]
MCVersion == [o \in MCOp |-> 0]
MCRank == [aLeft |-> 1, aRight |-> 2, aSwap |-> 3, bLeft |-> 4, bRight |-> 5, bSwap |-> 6]
MCDuration == [o \in MCOp |-> IF o \in MCSwap THEN 2 ELSE 1]

MCPlans == [A |-> {{"aLeft", "aRight", "aSwap"}}, B |-> {{"bLeft", "bRight", "bSwap"}}]
MCRepairs == [r \in MCRequest |-> {}]

MCLifetimes == {Horizon + 1}

=============================================================================
