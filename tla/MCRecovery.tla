----------------------------- MODULE MCRecovery -----------------------------
(***************************************************************************)
(* A joins nodes 1 and 4 over the major route 1-2-3-4.  Its two recovery   *)
(* paths overlap in the middle edge: the link 1-3 goes round the first two *)
(* edges, 2-5-4 round the last two.  So either may cover the middle edge,  *)
(* both may be taken together, and one may keep the other out.  B arrives  *)
(* later and joins 1 and 3 over 1-2-3, with the direct link as its         *)
(* recovery path, as in test_recovery.py.                                  *)
(***************************************************************************)
EXTENDS QcastRecovery

MCNode == 1 .. 5
MCEdge == {{1, 2}, {2, 3}, {3, 4}, {2, 5}, {4, 5}, {1, 3}}
MCRequest == {"A", "B"}

OfA == {"m1", "m2", "m3", "s1", "s2", "q", "r1", "r2"}
OverQ == {"v"}
OverR == {"w1", "w2"}
OverBoth == {"x1", "x2", "x3"}
OfB == {"n1", "n2", "t", "d"}
Detours == {OverQ, OverR, OverBoth}
MCOp == OfA \cup UNION Detours \cup OfB

MCKind == [o \in MCOp |-> IF o \in {"s1", "s2", "t"} \cup UNION Detours THEN "SWAP" ELSE "GEN"]
MCOwner == [o \in MCOp |-> IF o \in OfB THEN "B" ELSE "A"]
MCIns   == [o \in MCOp |-> CASE o = "s1" -> {"m1", "m2"}
                             [] o = "s2" -> {"s1", "m3"}
                             [] o = "v"  -> {"q", "m3"}
                             [] o = "w1" -> {"m1", "r1"}
                             [] o = "w2" -> {"w1", "r2"}
                             [] o = "x1" -> {"q", "m2"}
                             [] o = "x2" -> {"x1", "r1"}
                             [] o = "x3" -> {"x2", "r2"}
                             [] o = "t"  -> {"n1", "n2"}
                             [] OTHER -> {}]
MCPreds == [o \in MCOp |-> IF o \in UNION Detours THEN MCIns[o] \cap UNION Detours ELSE MCIns[o]]
MCEnds  == [m1 |-> {1, 2}, m2 |-> {2, 3}, m3 |-> {3, 4}, s1 |-> {1, 3}, s2 |-> {1, 4},
            q |-> {1, 3}, r1 |-> {2, 5}, r2 |-> {4, 5}, v |-> {1, 4},
            w1 |-> {1, 5}, w2 |-> {1, 4}, x1 |-> {1, 2}, x2 |-> {1, 5}, x3 |-> {1, 4},
            n1 |-> {1, 2}, n2 |-> {2, 3}, t |-> {1, 3}, d |-> {1, 3}]
MCVersion == [o \in MCOp |-> IF o \in UNION Detours THEN 1 ELSE 0]
MCRank == [m1 |-> 1, m2 |-> 2, m3 |-> 3, s1 |-> 4, s2 |-> 5, q |-> 6, r1 |-> 7, r2 |-> 8, v |-> 9,
           w1 |-> 10, w2 |-> 11, x1 |-> 12, x2 |-> 13, x3 |-> 14,
           n1 |-> 15, n2 |-> 16, t |-> 17, d |-> 18]
MCDuration == [o \in MCOp |-> 1]

MCCandidate == {OfA, OfB}
MCPlans == [A |-> {OfA}, B |-> {OfB}]
MCRepairs == [A |-> Detours, B |-> {}]

MCRoute == [ops \in MCCandidate |-> IF ops = OfB THEN <<1, 2, 3>> ELSE <<1, 2, 3, 4>>]
MCMajor == [ops \in MCCandidate |-> IF ops = OfB THEN <<"n1", "n2">> ELSE <<"m1", "m2", "m3">>]
MCRecoveries == [ops \in MCCandidate |->
  IF ops = OfB THEN {[id |-> 0, from |-> 0, to |-> 2, route |-> <<1, 3>>, segs |-> <<"d">>]}
  ELSE {[id |-> 0, from |-> 0, to |-> 2, route |-> <<1, 3>>, segs |-> <<"q">>],
        [id |-> 1, from |-> 1, to |-> 3, route |-> <<2, 5, 4>>, segs |-> <<"r1", "r2">>]}]

MCOffset == [o \in MCOp |-> CASE o \in {"s1", "w2", "x2", "t"} -> 1 [] o \in {"s2", "x3"} -> 2 [] OTHER -> 0]
MCTerminal == {"s2", "v", "w2", "x3", "t"}
MCArrival  == [A |-> 0, B |-> 1]
MCDeadline == [r \in MCRequest |-> HorizonSlots + 1]
MCDemandPairs == [r \in MCRequest |-> 1]

MCLifetimes == {1, Horizon + 1}

=============================================================================
