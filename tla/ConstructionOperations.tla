----------------------- MODULE ConstructionOperations -----------------------
(***************************************************************************)
(* The construction operations a planner hands to the executor, and the    *)
(* resources they name (construction_api.py, construction_plans.py,        *)
(* resource_catalog.py).                                                   *)
(*                                                                         *)
(* A logical segment is identified with the operation that produces it:    *)
(* the executor's registry rejects two operations with the same id or the  *)
(* same output segment id, so the producer names the segment.  Every       *)
(* amount a plan declares is one unit, so a demand or a hold is the set of *)
(* the resources it names.                                                 *)
(***************************************************************************)
EXTENDS Integers, FiniteSets

CONSTANTS
  Node,                \* network nodes
  Edge,                \* topology edges, each a set of two nodes
  Request,             \* request ids
  Op,                  \* every operation a plan or a repair may contain
  Kind,                \* kind of an operation
  Owner,               \* request_id of an operation
  Preds,               \* predecessors of an operation
  Ins,                 \* input_segment_ids, as the operations producing them
  Ends,                \* output_endpoints ({} for RELEASE)
  Version,             \* dag_version of an operation
  Rank,                \* position in the canonical_key order
  Duration,            \* duration_ps, in ticks
  MemoryCapacity,      \* physical.memory_capacity
  MaxWidth,            \* physical.max_width
  NodeMemoryCapacity   \* physical.node_memory_capacity, 0 when it is None

OperationKind == {"GEN", "PURIFY", "SWAP", "RELEASE"}

Gens(S)      == {o \in S : Kind[o] = "GEN"}
Swaps(S)     == {o \in S : Kind[o] = "SWAP"}
Purifies(S)  == {o \in S : Kind[o] = "PURIFY"}
Physical(S)  == {o \in S : Kind[o] # "RELEASE"}
Inputs(S)    == UNION {Ins[o] : o \in S}

\* The nodes an operation touches: its output endpoints and those of its
\* inputs, which is how the middle node of a swap is included.
Nodes   == [o \in Op |-> Ends[o] \cup UNION {Ends[i] : i \in Ins[o]}]
Middles == [o \in Op |-> UNION {Ends[i] : i \in Ins[o]} \ Ends[o]]

Memories(o) == {<<"memory", n>> : n \in Ends[o]}

Demand == [o \in Op |->
  CASE Kind[o] = "GEN"     -> {<<"link", Ends[o]>>, <<"genlane", Ends[o]>>} \cup Memories(o)
    [] Kind[o] = "PURIFY"  -> {<<"purify", Ends[o]>>}
    [] Kind[o] = "SWAP"    -> {<<"bsm", n>> : n \in Middles[o]}
                              \cup {<<"swapnode", n>> : n \in Nodes[o]}
    [] OTHER               -> {}]

\* What the output segment keeps until it is consumed, released or expired.
Hold == [o \in Op |->
  CASE Kind[o] \in {"GEN", "PURIFY"} -> {<<"link", Ends[o]>>} \cup Memories(o)
    [] Kind[o] = "SWAP"              -> Memories(o)
    [] OTHER                         -> {}]

Degree(n) == Cardinality({e \in Edge : n \in e})

\* Quantum memories built into node n, also its logical memory capacity.
MemorySize == [n \in Node |->
  IF NodeMemoryCapacity # 0 THEN NodeMemoryCapacity
  ELSE IF Degree(n) * MemoryCapacity > 1 THEN Degree(n) * MemoryCapacity ELSE 1]

Resource ==
  ({"link", "genlane", "purify"} \X Edge) \cup ({"bsm", "swapnode", "memory"} \X Node)

\* Capacities the planner and the executor share.
Capacity == [r \in Resource |->
  CASE r[1] = "link"    -> MemoryCapacity
    [] r[1] = "genlane" -> MaxWidth
    [] r[1] = "memory"  -> MemorySize[r[2]]
    [] OTHER            -> 1]

-----------------------------------------------------------------------------

ASSUME ParameterAssumption ==
  /\ IsFiniteSet(Op)
  /\ IsFiniteSet(Edge)
  /\ MemoryCapacity \in Nat \ {0}
  /\ MaxWidth \in Nat \ {0}
  /\ NodeMemoryCapacity \in Nat

ASSUME OperationAssumption ==
  /\ Kind \in [Op -> OperationKind]
  /\ Owner \in [Op -> Request]
  /\ Preds \in [Op -> SUBSET Op]
  /\ Ins \in [Op -> SUBSET Op]
  /\ Ends \in [Op -> SUBSET Node]
  /\ Version \in [Op -> Nat]
  /\ Rank \in [Op -> Nat] /\ \A a, b \in Op : Rank[a] = Rank[b] => a = b
  /\ Duration \in [Op -> Nat \ {0}]

\* What ConstructionOperation.__post_init__ and the plan compilers guarantee
\* of every operation: a generation has no input, a swap joins two segments
\* that meet in one node, a purification joins two elementary segments of one
\* edge, and only an operation with an output can be an input.
WellShaped(o) ==
  /\ \A i \in Ins[o] : Kind[i] # "RELEASE"
  /\ Kind[o] = "GEN" => Ins[o] = {}
  /\ Kind[o] \in {"GEN", "PURIFY"} => Ends[o] \in Edge
  /\ Kind[o] = "PURIFY" => \A i \in Ins[o] : Ends[i] = Ends[o] /\ Kind[i] \in {"GEN", "PURIFY"}
  /\ Kind[o] \in {"SWAP", "PURIFY"} =>
        \E i, j \in Ins[o] : i # j /\ Ins[o] = {i, j} /\ Ends[o] \subseteq Ends[i] \cup Ends[j]

ASSUME ShapeAssumption == \A o \in Op : WellShaped(o)

\* The inputs of a swap meet in one node and nowhere else.
MeetsInMiddle(o) ==
  /\ Cardinality(Middles[o]) = 1
  /\ \A i, j \in Ins[o] : i # j => Ends[i] \cap Ends[j] = Middles[o]
  /\ Ends[o] = UNION {Ends[i] : i \in Ins[o]} \ Middles[o]

\* What the plan compilers guarantee beside, and the executor checks again: an
\* operation works on segments of its own request, and a swap joins two that
\* are neighbours on a path.
CompiledSoundly(o) ==
  /\ \A i \in Ins[o] : Owner[i] = Owner[o]
  /\ Kind[o] = "SWAP" => MeetsInMiddle(o)

=============================================================================
