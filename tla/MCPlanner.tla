------------------------------ MODULE MCPlanner ------------------------------
(***************************************************************************)
(* The network of MCRecovery.  Request 1 joins nodes 1 and 4, requests 2   *)
(* and 4 nodes 5 and 1, the first of them for two pairs and the second a   *)
(* slot later, and request 3 nodes 2 and 3, for which a plain link is not  *)
(* good enough.  Others hold nothing, or some or all of one resource.      *)
(***************************************************************************)
EXTENDS WindowPlanner

MCNode == 1 .. 5
MCEdge == {{1, 2}, {2, 3}, {3, 4}, {2, 5}, {4, 5}, {1, 3}}
MCRequest == 1 .. 4
MCEnds == <<<<1, 4>>, <<5, 1>>, <<2, 3>>, <<5, 1>>>>
MCArrival == <<0, 1, 1, 2>>
MCDeadline == <<LastSlot + 1, 7, LastSlot + 1, LastSlot>>
MCPairs == <<1, 2, 1, 1>>
MCPlainReach == <<3, 3, 0, 3>>
MCPureReach == <<3, 3, 2, 3>>

MCMethods == {"qcast", "greedy", "construction_only", "strict_fifo", "best_fifo", "qpass", "qpath", "qleap"}

Held(x, s) == [y \in Resource \X Slots |-> IF y[1] = x[1] /\ y[2] >= s THEN x[2] ELSE 0]
MCReservations ==
  {Held(x, s) : x \in {<<<<"link", {1, 3}>>, 2>>, <<<<"memory", 3>>, 1>>, <<<<"memory", 5>>, 3>>},
                s \in {0, 2, LastSlot}}

=============================================================================
