-------------------------- MODULE ProtocolAdmission --------------------------
(***************************************************************************)
(* The three checks a launch goes through, as predicates of the incoming   *)
(* operations, the operations in flight and the live segments:             *)
(*   - SequenceProtocolArbiter.validate   (which protocols may coexist),   *)
(*   - SequenceConcurrencyScheduler       (coexistence again, capacity),   *)
(*   - CapacityFeasibilityOracle.check    (the incoming set by itself),    *)
(* and the greedy packing ready_operations offers to its callers.          *)
(***************************************************************************)
EXTENDS ConstructionOperations

CONSTANTS
  InterEpochLaunch,    \* backend.supports_inter_epoch_launch
  MixedConcurrency,    \* backend.supports_mixed_operation_concurrency
  ConcurrentSwaps      \* backend.supports_concurrent_swaps

ASSUME FlagAssumption ==
  {InterEpochLaunch, MixedConcurrency, ConcurrentSwaps} \subseteq BOOLEAN

\* Mutant: a swap disturbs others in its middle node only.
MiddleClash(a, b) == Middles[a] \cap Nodes[b] # {} \/ Middles[b] \cap Nodes[a] # {}

Clash(a, b) == Nodes[a] \cap Nodes[b] # {}

\* Mutant: only physical protocols consume their inputs exclusively.
JoinsUnique(S) == \A a, b \in Physical(S) : a # b => Ins[a] \cap Ins[b] = {}

InputsUnique(S) == \A a, b \in S : a # b => Ins[a] \cap Ins[b] = {}

\* Exactly generation and swap protocols, and nothing else, in one set.
Mixed(S) == {Kind[o] : o \in S} = {"GEN", "SWAP"}

SwapsApart(S) == \A a, b \in Swaps(S) : a # b => ~Clash(a, b)
KindsApart(S) == \A a, b \in S : Kind[a] # Kind[b] => ~Clash(a, b)

ArbiterAdmits(launch, active) ==
  LET new  == Physical(launch)
      live == Physical(active)
  IN  new # {} =>
      /\ new \cap live = {}
      /\ InputsUnique(new)
      /\ Inputs(new) \cap Inputs(live) = {}
      /\ live # {} => InterEpochLaunch
      /\ Purifies(new) # {} => Cardinality(new) = 1 /\ live = {}
      /\ Purifies(live) = {}
      /\ ~MixedConcurrency => ~Mixed(new) /\ ~Mixed(live \cup new)
      /\ ~ConcurrentSwaps /\ Swaps(new) # {} => Cardinality(Swaps(new)) = 1 /\ Swaps(live) = {}
      /\ SwapsApart(live \cup new)
      /\ KindsApart(live \cup new)

-----------------------------------------------------------------------------

\* Units of r held by the live segments and demanded by operations in flight.
Usage(segs, ops, r) ==
  Cardinality({s \in segs : r \in Hold[s]}) + Cardinality({o \in ops : r \in Demand[o]})

\* Units of r held once every operation of ops has succeeded.
CompletionUsage(segs, ops, r) ==
  Cardinality({s \in segs \ Inputs(ops) : r \in Hold[s]}) + Cardinality({o \in ops : r \in Hold[o]})

\* Mutant: capacities are checked against the operations alone.
OperationsFit(segs, ops) ==
  \A r \in UNION {Demand[o] : o \in ops} : Usage({}, ops, r) <= Capacity[r]

WithinCapacity(segs, ops) ==
  \A r \in UNION {Hold[x] \cup Demand[x] : x \in segs \cup ops} :
    /\ Usage(segs, ops, r) <= Capacity[r]
    /\ CompletionUsage(segs, ops, r) <= Capacity[r]

\* Mutant: the scheduler looks for a swap among the incoming operations only.
SwapFirst(a, b) == Kind[a] = "SWAP" /\ Kind[b] = "GEN"

GenVersusSwap(a, b) == {Kind[a], Kind[b]} = {"GEN", "SWAP"}

SchedulerAdmits(launch, active, segs) ==
  /\ launch # {}
  /\ active # {} => InterEpochLaunch
  /\ Purifies(launch) # {} => Cardinality(Physical(launch)) = 1 /\ Physical(active) = {}
  /\ Purifies(active) # {} => Physical(launch) = {}
  /\ ~ConcurrentSwaps /\ Swaps(launch) # {} => Cardinality(Swaps(launch)) = 1 /\ Swaps(active) = {}
  /\ \A a \in launch, b \in launch \cup active :
       GenVersusSwap(a, b) => MixedConcurrency /\ ~Clash(a, b)
  /\ SwapsApart(launch)
  /\ InputsUnique(launch)
  /\ Inputs(launch) \cap Inputs(active) = {}
  /\ WithinCapacity(segs, active \cup launch)

\* The executor's oracle knows capacities only: no reservation, no segment.
OracleAdmits(launch) ==
  /\ InputsUnique(launch)
  /\ \A r \in UNION {Hold[o] \cup Demand[o] : o \in launch} :
       /\ Cardinality({o \in launch : r \in Demand[o]}) <= Capacity[r]
       /\ Cardinality({o \in launch : r \in Hold[o]}) <= Capacity[r]

-----------------------------------------------------------------------------

\* The subset of S that a loop over S in canonical order accepts, when
\* Ok(prefix, o) says whether o is accepted after the operations in prefix.
Greedy(S, Ok(_, _)) ==
  CHOOSE A \in SUBSET S : \A o \in S : o \in A <=> Ok({a \in A : Rank[a] < Rank[o]}, o)

Pack(ready, active, segs) ==
  Greedy(ready, LAMBDA chosen, o : SchedulerAdmits(chosen \cup {o}, active, segs))

=============================================================================
