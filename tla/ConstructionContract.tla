------------------------ MODULE ConstructionContract ------------------------
(***************************************************************************)
(* What the construction executor promises its callers, without clock,     *)
(* lanes, physical pairs or the loop of an event batch: an operation waits,*)
(* runs and is done or dead, it starts only from finished predecessors and *)
(* from inputs nobody else consumes, running joins keep their inputs, and  *)
(* holds and demands stay within the capacities.                           *)
(***************************************************************************)
EXTENDS ConstructionOperations

VARIABLES
  status,   \* where each operation is
  live      \* the segments that exist, named by their producers

Status == {"absent", "waiting", "running", "done", "dead"}

With(s) == {o \in Op : status[o] = s}

\* The inputs of running swaps and purifications.
Reserved == Inputs(Swaps(With("running")) \cup Purifies(With("running")))

WithinBudget ==
  \A r \in Resource :
    Cardinality({s \in live : r \in Hold[s]})
      + Cardinality({o \in With("running") : r \in Demand[o]}) <= Capacity[r]

Init ==
  /\ status \in [Op -> {"absent", "waiting"}]
  /\ live = {}

\* Any step may lose segments, but never one a join is working on.
Keeps == Reserved' \subseteq live'

Becomes(ops, s) == [o \in Op |-> IF o \in ops THEN s ELSE status[o]]

Of(r, s) == {o \in With(s) : Owner[o] = r}

\* A DAG or a repair arrives; a reroute retires what has not started.
Enter(r, ops) ==
  /\ \E retired \in {{}, Of(r, "waiting")} :
       status' = [o \in Op |-> IF o \in retired THEN "dead" ELSE Becomes(ops, "waiting")[o]]
  /\ live' \subseteq live
  /\ Keeps

\* A DAG is dropped together with its segments.
Leave(r) ==
  /\ Of(r, "running") = {}
  /\ status' = [o \in Op |-> IF Owner[o] = r THEN "absent" ELSE status[o]]
  /\ live' = {s \in live : Owner[s] # r}

Start(ops) ==
  /\ ops # {}
  /\ \A o \in ops : /\ Preds[o] \subseteq With("done")
                    /\ Ins[o] \subseteq live
                    /\ \A p \in (ops \cup With("running")) \ {o} : Ins[o] \cap Ins[p] = {}
  /\ status' = Becomes(ops, "running")
  /\ live' \subseteq live
  /\ WithinBudget'
  /\ Keeps

Succeed(o) ==
  /\ status' = Becomes({o}, "done")
  /\ live' = (live \ Ins[o]) \cup (IF Kind[o] = "RELEASE" THEN {} ELSE {o})
  /\ Keeps

Break(o) ==
  /\ status' = Becomes({o}, "dead")
  /\ live' \subseteq live \ Ins[o]
  /\ Keeps

Lose ==
  /\ live' \subseteq live
  /\ Keeps
  /\ UNCHANGED status

Next ==
  \/ \E r \in Request : \E ops \in SUBSET Of(r, "absent") : Enter(r, ops)
  \/ \E r \in Request : Leave(r)
  \/ \E ops \in SUBSET With("waiting") : Start(ops)
  \/ \E o \in With("running") : Succeed(o) \/ Break(o)
  \/ Lose

Spec == Init /\ [][Next]_<<status, live>>

=============================================================================
