# A TLA+ verification of quantum_sim's construction core

quantum_sim plans entanglement requests on a quantum network and executes the
plans on a simulated physical layer (SeQUeNCe). This directory holds TLA+
models of what every experiment of the repository runs through: the
**construction core** of `qnet_core`, which turns the operations of a plan
(generate, purify, swap, release) into physical protocols and drives them slot
by slot, the **online controller** that decides, submits and settles, and the
**planners** of Q-CAST and of the baselines. TLC checks the models on small
networks, and TLAPS proves the safety of the executor, of both schedulers and of
the controllers for every network, plan set and capacity.

## 1. Inventory

| Part | State it keeps | Operations | Interacts with | Hard behaviour |
|---|---|---|---|---|
| `construction_api`: operations, `ConstructionDAG` | markers *started / completed / dead / obsolete*, version | `mark_*`, `ready_ids`, `repair` | mutated by the executor only | repair while part of the DAG is done; a marker that survives its operation |
| `resource_catalog`, `construction_plans`, `construction_catalog` | none | capacities, compilers of paths and purification trees | executor, planners | demand during an operation versus hold of its output; pruned enumeration of swap trees |
| `sequence_protocol_arbiter`, `sequence_scheduler`, `capacity_feasibility` | none (the oracle can hold reservations, the executor makes none) | `validate`, `pack`, `check` | called on every launch with the operations in flight | three separately written checks over the same launch |
| `sequence_construction_executor` | `_pending`, `_segments`, pair of each segment, lanes, expiry queue, termination flag, one DAG per request | `register_dag`, `launch`, `advance_to_next_event`, `wait_until`, `repair`, `release_*`, `unregister_dag`, `terminate` | calls the backend, called by both schedulers | outcomes of several epochs in one batch, pairs decohering under a protocol, the horizon |
| `sequence_backend` | memories, pairs, pairs owned by protocols, clock | `begin_* / finish_* / cancel_*`, `run_prepared_protocols`, `discard_pair` | SeQUeNCe | accounting that must agree with the logical one |
| `scheduled_execution`: `PersistentConstructionScheduler` | active plans, cleanup set, slot table, `_due`, delivered and terminal segments, outcomes | `submit`, `advance_to_slot`, event processing, `_apply_revision`, reservations | executor below, controller above, event policy beside | late outputs, deadlines inside a batch, revisions, replanning |
| `scheduled_execution`: `run_scheduled_construction_plan` | settlements, deliveries, violations of one fixed set of plans | one call | executor | five places that settle a request, overrun of a slot |
| `algorithms/routing_core`: time expansion, packing | none | layout of a DAG in rounds, usage, feasible starts, greedy projection | planners, controller | a boundary off by one admits two plans that meet |
| `algorithms/routing_core/execution`: `OnlineExecutionController` | running variables, expired requests, attempts, settlements | `run`: decide, submit, advance, process updates | persistent scheduler, a planner | tables of two objects over the same requests; what is shown as reserved |
| `algorithms/qcast`: online planner, recovery policy and its controller | residual resources of a round; allocation and phase per request | `plan_qcast_window`, `resolve`, `register`, `forget` | event policy of the scheduler | two accounts of the network; a cover that must be usable; several events of one batch |
| `algorithms/baselines` | selection of one window | seven methods of `plan_baseline_window` | time expansion | each variable is tried once |
| `construction_repair` | none | builds retry and reroute operation sets | tests only | segments that may be reused |
| `algorithms/rl_routing`, `experiments`, `QCAST/` | | training, figures, vendored Kotlin | | not core logic |

What makes each part correct:

* **Admission**: protocols in flight together never disturb each other; what is
  offered as launchable is accepted.
* **DAG and executor**: an operation starts once, from finished predecessors and
  inputs nobody else consumes; markers, `_pending`, segments, physical pairs,
  ownership and lanes tell one story at every step; capacities hold; what is in
  flight is settled; history is not rewritten by a repair.
* **Persistent scheduler**: every plan gets exactly one outcome; terminal pairs
  are counted once and exactly; late work is never forgotten nor superseded
  work launched; finished attempts return their memory; deadlines and the
  horizon hold; the slot loop neither stalls nor spins.
* **Batch executor**: a settlement is final, in time and backed by built pairs;
  a delay is reported; a settled request holds nothing; the run ends.
* **Controller**: its tables agree with the scheduler's; admitted plans do not
  compete; every request is settled, and its records tell what happened.
* **Q-CAST recovery**: only what is lost counts as broken; a cover that is found
  can be carried out; the policy's table follows the running plans.
* **Planners**: what is returned fits; every compiled plan can be executed; a
  baseline leaves nothing out that fits; on routes of up to five links pruning
  keeps the best swap trees.

`PROJECT.json` lists the hazards behind these, each at its line.

## 2. Modules

```
ConstructionOperations          operations, demands, holds, capacities
  ProtocolAdmission             arbiter, scheduler.validate / pack, oracle
    ConstructionExecutor        the executor, with the backend's pairs and clock
      PersistentScheduler       the slot loop on top of the executor
        OnlineController        decisions and settlements (with TimeExpansion)
          QcastRecovery         the Q-CAST controller and policy (with QcastRoutes)
      BatchExecutor             run_scheduled_construction_plan
      LaunchTransaction         launch step by step, with exceptions
  TimeExpansion                 nominal layout, usage, starts, selections
  ConstructionContract          abstract specification of the executor
QcastRoutes                     shortest routes, cover of broken edges
PlanCompiler                    from routes to construction DAGs
  WindowPlanner                 one window of Q-CAST or of a baseline
                                (with QcastRoutes and an instance of TimeExpansion)
MC*                             instances for TLC

ConstructionExecutorProofs      registries, capacities, prefix, contract
  ExecutorLaunchProofs          what is in flight: lanes, isolation, backend;
                                what is offered can be launched
    PersistentSchedulerProofs   the scheduler's invariants; it implements the executor
      OnlineControllerProofs    the controller implements the scheduler
        QcastRecoveryProofs     the recovery policy is an event policy
    BatchExecutorProofs         settlements, delays, contract
    LaunchTransactionProofs     all or nothing, contract
WindowPlannerProofs             the planners' accounts, their selections, the layout
```

**ConstructionOperations.** A segment is named by the operation that produces
it, since the executor refuses two operations with one output id. All amounts
the compilers write are one unit, so a demand or a hold is a set of resources.
`ShapeAssumption` is what `ConstructionOperation.__post_init__` and the
compilers enforce; `Rank`, the canonical order, is injective as
`canonical_key` is. `CompiledSoundly` is what the compilers guarantee beyond
the constructor and the executor checks again: an operation works on segments
of its own request, and the inputs of a swap meet in one node.

**ProtocolAdmission.** `ArbiterAdmits`, `SchedulerAdmits` and `OracleAdmits` are
the three checks of `_validate_launch`, written from their three sources and
not simplified into one another. `Greedy` is a loop in canonical order that
keeps an element when a test of the kept prefix allows it, stated as the only
set in which an element is kept exactly when the test allows it after the kept
ones before it; `Pack` is `scheduler.pack`.

**ConstructionExecutor.** One action per public method. `advance_to_next_event`
is a loop: `Advance` chooses the boundary, runs the backend and collects the
due operations, `Complete` / `Release` / `Fail` finish one of them,
`BeginTimeout` is the cut at the horizon, `Settle` ends the call and reports
the expirations. `phase` and `todo` are the program counter and the rest of the
loop, so the invariants also speak of the middle of a call. `segs` is
`_segments`, `Pairs` (positive `expiry`) the backend's pairs, `owned`
`_protocol_owned_pair_ids`, `endsAt` the end of the physical protocol, `Logical`
the declared duration. A pair's expiry ignores protocol ownership only when no
protocol owns it (`Alive`), as `_sync_pairs` does.

**ConstructionContract.** What callers rely on, without clock, lanes, pairs or
loop: statuses *absent, waiting, running, done, dead*, the live segments, and
the rules for moving between them.

**LaunchTransaction.** `ConstructionExecutor` takes a launch to be one step.
Here it is the method's own sequence: mark the operations in the DAGs, start the
purifications, then the swaps, then the generations, commit. An exception may
be raised at any point; its handlers (also the one inside `begin_generation`,
whose caller has no handles yet) take everything back and the executor goes on
being used. Starting a swap may measure its inputs, which cancelling does not
repair, so a failed launch can cost free segments; a purification saves its
inputs' states and restores them. The module maps to `ConstructionContract` too,
with the marks hidden until the commit, which justifies the atomic launch.

**PersistentScheduler.** `_run_slot` is sequential; `at` is its program counter
and each step that calls the executor contains the executor's action. Events of
a batch are processed one at a time: the successes and failures in any order
(the code orders them by attempt, which the model does not track), expirations
last as in the code. The event policy may answer each request of a batch with
nothing, a failure, CONTINUE (with releases), COMPLETE, or a revision, which may
turn out infeasible.

**BatchExecutor.** The other slot loop of `scheduled_execution`, with all DAGs
registered from the start. `OpenSlot`, `LaunchDue`, `AdvanceOnce`, `WaitOnce`,
`RejectDue` and `CloseSlot` are the branches of the loop, `ProcessSuccess`,
`ProcessFailure` and `EndProcessing` are `process_events`, and `Conclude` is the
code after the last slot. `settledAt` is the settlement time of a request;
`violations` is the list of `ScheduleViolation`s as a set.

**TimeExpansion.** `Layout` is `build_nominal_schedule`: operations in
topological order, one round each, a swap pushed back past the swaps that share
a node. `PlaceNext` places the first operation of the order whose inputs are
placed (`NextInOrder`); what a cycle keeps back stays in `Unplaced`. `UsageIn` charges an operation in its round and its output from the
round after it to the round of its consumer; a terminal output is not charged.
`SelectionFits` is what the greedy projection keeps to and what
`validate_packing_selection` asks.

**OnlineController.** `run()` with its helpers: `Decide` withdraws the requests
whose deadline has passed, computes `_reserved_usage` and lets the planner
choose, `SubmitChosen` submits one of the plans, `AdvanceStep` is a step of the
scheduler, `ProcessUpdate` and `Finalize` close the records. The planner is *any*
one that respects the reservations: every selection that fits may be chosen,
and every planner of the repository returns such a selection (`WindowPlannerProofs`
proves it of Q-CAST and of the seven baselines of `WindowPlanner`). `PhysicalReservation` is
`physical_reservations_by_request` with its four parts: what is held now, what
is predicted to be held later, the envelope of late work, and the suffix of a
revision.

**QcastRoutes, QcastRecovery.** The policy's answers strengthen the
scheduler's: `KeepWaiting`, `KeepMajor`, `GiveUp`, `AcceptDirect`, `Reroute` are
the outcomes of `_resolve_request`, each conjoined with the scheduler action
that carries it out. `Selection` is the greedy cover of the broken edges;
`Repairable` are all routes `nx.shortest_path` may return on the repaired graph;
`LeftDeep` recognises the operations that `left_deep_swap_suffix` builds.

**PlanCompiler.** Swap trees, the DAG of a tree, the purification of every link,
and repeated pairs, as operators from routes to DAGs. A swap tree is a set of
triples, so the enumeration with pruning is two set expressions, and the
signature that breaks ties is reduced to a number per position.

**WindowPlanner.** One call of `plan_qcast_window` or `plan_baseline_window`. For
Q-CAST, `PickMajor`, `PickRecovery` and `Commit` are the three loops of a round,
on `residual` (what the search may use) and `usage` (what the time expansion has
committed). For a baseline, `BuildProblem` is the catalogue with its canonical
candidates and `TryNext` tries one variable in the method's order (`Key`). A candidate that
`Layout` cannot place ends the call in phase `refused`, the `ValueError` of
`build_nominal_schedule`; `PlansExecutable` shows on the run that it does not
happen. `PlannerAssumption` gives the constants their types, finitely many nodes and
requests and a window that is not empty, and `ReservationAssumption` says
that what is reserved fits the capacities, which the controller's own
reservations do.

### Abstractions and assumptions

* Time is in ticks; `Window` bounds a physical protocol, whose length is any
  value up to it. The model assumes that SeQUeNCe ends every protocol within
  its window (external code).
* Fidelities are left out of the execution models: whether a delivered pair is
  good enough, whether a protocol succeeds and whether a purification's launch
  is refused for its input fidelity are free choices.
* In the planners a fidelity is a reach: a request accepts plain routes up to
  `PlainReach` hops and purified ones up to `PureReach`. On links of equal
  quality expected throughput falls with the hops and expected cost rises with
  the generated pairs, so scores enter as these orders. Ties that the code
  breaks by the textual id of a candidate are left open.
* A new pair lives for any time of `Lifetimes`.
* A launch is atomic except in `LaunchTransaction`, where the other methods are
  called only between launches (the executor has one caller). Exceptions inside
  other methods are not modelled.
* Event contents, snapshots, telemetry and the persistent scheduler's violation
  records are left out; those of the batch executor are kept.
* Superseding revisions only, and only valid ones: on an invalid one `repair`
  raises and the episode ends. `CoversApply` shows that Q-CAST's revisions are
  valid. Deadline and launch-rejection events are not answered by the policy
  (the repository's only policy never does).
* A decision submits its plans one by one; `submit` takes several in one call
  and rolls back when one is invalid, which the controller's never are.
* In the second loop of `_run_slot` (draining) and after an unaligned clock the
  code would do more; `DeadlinesHeld` shows these paths are never taken, and
  `DelaysReported` shows the same of the batch executor.

## 3. Runs

| Run | Instance and bounds | Shows |
|---|---|---|
| `repairs` | triangle, one memory per link, two requests, one repair, horizon 4 ticks | markers, provenance, registries, no physical refusal, immutable prefix |
| `memories` | one edge, two memories, two lanes, two requests, horizon 4 | exclusive inputs, capacities, lanes, the inductive invariant, refinement of `ConstructionContract`, `InFlightResolves` under `FairSpec` |
| `swaps_meeting` | chain where two swaps share a node, mixing allowed, horizon 3 | `ProtocolIsolation`, `ReadyLaunchable` |
| `launches` | chain 1-2-3 beside an edge 4-5, mixing allowed, horizon 3 | a launch is all or nothing, also when it raises, and refines the contract |
| `revisions` | one edge, two requests, four slots of two ticks, an event policy, one attempt each, fair | `DueExact`, deliveries, late outputs, the episode ends |
| `batch` | chain 1-2-3, one memory per link, two requests (one for two pairs), four slots of two ticks, protocols of up to five, fair | settlements sound, final and quiet, delays reported, the run ends |
| `controller` | chain 1-2-3, two requests, five slots of one tick, protocols of up to two, decisions every two slots, two attempts each, fair | tables and attempts agree, deadlines, records, every attempt is cleaned up, every request is settled |
| `recovery` | five nodes, two requests, one with two recovery paths that overlap and one with a direct link, five slots of four ticks, two attempts each, pairs that live one tick or to the end | policy table, covers apply, broken means lost, admitted work is launched on time |
| `planning` | the same network, every subset of four requests, eight methods, nine reservations, two start slots of nine | selections fit, Q-CAST's accounts, executable plans, nothing left out, best trees up to five links |
| `overtaking`, `batch_rejection`, `seized` | small chains | expected violations, see section 6 |

The bounds are the smallest at which the cases of interest occur, which every
property's mutant confirms. Two requests compete for a memory or a node; a
horizon of four ticks holds a generation, a joining operation and an outcome
that falls on the horizon; lifetimes of two ticks let a pair decohere waiting
and under a protocol; a pair that lives past the horizon gives the rest. Four
slots let a revision start in a later slot than its event; in five slots an
attempt fails, is cleaned up, is planned again and completes. In every scheduler
run the deadline of one request falls inside the episode and the other has none
before the horizon. In `batch` and `controller` a protocol may outlast its slot,
so that work is late, waits, or is settled after its request; in `recovery`
a slot has room for two protocols one after the other, because `AdmittedOnTime`
and `BrokenMeansLost` hold only then (see section 6). There the two recovery
paths of a request share a major edge, so that a cover takes one of them or both,
or finds one in the way of the other and gives up although that other alone would
do; and an allocation that failed is registered again with the second attempt.
In `planning` the requests of one pair of nodes compete in opposite directions
and the reservations close a link, take one memory of a joint, or all of a node.

`MaxAttempts` bounds the plans of a request; `HorizonSlots` and `Horizon` bound
time as they do in the code. `MaxHops`, `PathCount`, `TreeCount`, `SpanLimit`
are parameters of the planners, and `MaxLinks` bounds the routes whose trees are
compared. No state constraint, no symmetry and no view is used, and deadlock is
checked in every run: the executor can always register or wait, and the end of
an episode, a batch or a window is an explicit step.

### Fairness

* `FairSpec`: both callers call `advance_to_next_event` in a loop while anything
  is in flight, up to the horizon, which is strong fairness of that call as
  other calls may come between; the body of the call is sequential code that
  runs to its end (weak fairness of its steps).
* `FairSchedSpec`: `advance_to_slot` is sequential code that runs to its end and
  the controller calls it until the horizon: weak fairness of `Step`. Nothing
  is assumed of `Submit` nor of which answer the policy gives.
* `FairBatchSpec` and `FairOnlineSpec`: one call of sequential code
  (`run_scheduled_construction_plan`, `run`) runs to its end: weak fairness of
  its steps. Which outcome a protocol has, how long it takes and what the
  planner chooses stay free.

## 4. Proofs

Eight modules prove 47 results listed in `PROJECT.json`, each for every network,
plan set, set of revisions, capacity, horizon, lifetime and choice of the
backend's flags that the assumptions allow. The assumptions are those of the
models (`ParameterAssumption`, `OperationAssumption`, `ShapeAssumption`,
`FlagAssumption`, `ExecutorAssumption`, `PlanAssumption`, `CompilerAssumption`,
`ScheduleAssumption`, `BatchAssumption` and those of the planners' parameters);
TLC evaluates each of them on the instances it runs. `CompilerAssumption` is
needed for `ReadyLaunchable` only, and `PlansExecutable` checks it on every plan
that the modelled compilers return in the run `planning`.

What a specification promises is seldom inductive. Each module of a component
ends in the definitions that make it so, and every one of these strengthenings
was checked by TLC on the instances of section 3 before it was proved.

**Executor** (`ConstructionExecutorProofs`, `ExecutorLaunchProofs`). `Inductive`
is `RegistrySound /\ LaunchSound`, and the run `memories` checks it.

* `RegistrySound`: the named invariants about markers, segments, pairs and
  capacities, with `LoopShape` (where `todo` and `pending` stand in each phase of
  the event loop), `DagsOwned` (an operation is in the DAG of its own request, so
  unregistering one request leaves the others alone) and `InputsSettled` (what
  has completed or started had completed inputs of its own request; it is why an
  output cannot be produced twice, and why forgetting the markers of one request
  cannot orphan another's segments).
* `LaunchSound`: what is in flight was rightly launched. `LanesExact`,
  `ProtocolIsolation` and `NoPhysicalRejection`, with `OutputsLive` and
  `LanesReturned`. A launch is validated against what runs at that moment;
  isolation holds for ever because ending a protocol removes clashes only, and
  two swaps at one node are kept apart by the capacity of the node's mutex.
  `NoPhysicalRejection` is a counting argument: the memories that the backend
  counts (pairs, and generations in flight) are covered by the logical usage
  that the admission has bounded.
* `CapacityRespected` rests on the counting lemmas at the top of the first
  module: what an output keeps is covered by what its operation demanded or its
  inputs held (`HoldCovered`), and an operation and its inputs may be exchanged
  for its output (`UsageOfOutput`).
* `ContractImplemented`: each of the executor's steps, also those in the middle
  of `advance_to_next_event`, is a step of `ConstructionContract` or invisible.

**What is offered** (the last part of `ExecutorLaunchProofs`): `ReadyLaunchable`. `Greedy` has a
value because a finite set has a least element beyond any kept prefix; the
element that `Pack` keeps last was tested together with all the others, so the
whole packing is admitted; every part of an admitted set is admitted (usage is
monotone, and what an operation leaves is bounded by what it uses); and the
three checks, written separately in the code, agree on such sets: the arbiter by
isolation and the node mutexes, the oracle because its usage at completion is
below the usage in flight, the lanes by the capacity of `genlane`.

**Persistent scheduler** (`PersistentSchedulerProofs`). First `SchedSpec => Spec`:
`LoopInv` relates the scheduler's program counter to the executor's phase, so
every step contains a legal executor action or leaves its variables alone, and
`Inductive` holds under every schedule and policy. Then `ScheduleSound`, with one
part per table: where `_run_slot` is and what the clock shows (`LoopPlace` and
the window of what is in flight, `WindowsHeld`: every call makes progress, so a
slot ends exactly at its boundary), what `_due` holds during the loop and not
only between slots, which deliveries are counted while a batch of events is half
processed, what finished attempts still own. `AttemptsAccounted`,
`DeadlinesHeld`, `DueExact`, `DeliveriesCounted` and `LateOutputsReleased` follow.

**Online controller** (`OnlineControllerProofs`). `OnlineSpec => SchedSpec`, with
`ControllerSound`: during a decision the chosen plans are disjoint from the
running ones and admissible to `submit`, and between the end of an attempt and
the processing of its update the controller's table is ahead of its record by
exactly that update. The planner stays arbitrary. `TablesAgree` and
`RecordsSettled` follow, and all of the scheduler's theorems hold.

**Recovery policy** (`QcastRecoveryProofs`). Every answer of the policy is one
the scheduler may receive, so `RecoverySpec => OnlineSpec`; `PolicySound` says
that the allocation table names the running plans at every step, hence
`PolicyAgrees` and that `register` never meets an allocation of the same request.

**Batch executor** (`BatchExecutorProofs`). `BatchSpec` is not literally a
refinement of `Spec`: it gives back the segments of several requests in one step
of its own (`GivesBack`). It is shown to keep `Inductive` all the same, and to
implement the contract, where giving back one segment or many is one step.
`BatchSound` adds the place in the slot loop, the clock, and where each
operation of an open request is accounted for (due, running, done, or reported);
`SettlementsSound`, `SettledIsQuiet`, `DelaysReported` and `SettlementFinal` follow.

**Launch in steps** (`LaunchTransactionProofs`). `TransactionSound` says that
behind the marks and protections that are not committed the registries agree as
between two calls, that the exception handler's records are exactly what has to
be undone, and that what was admitted stays admissible until the commit.
`LaunchAllOrNothing` and the refinement of the contract, with the marks hidden,
follow; this is what entitles the other modules to an atomic launch.

**Planners** (`WindowPlannerProofs`). `PlannerInv` holds at every step of Q-CAST
and of the baselines. `Booked`: the usage is what others hold plus what the
selected variables use, a sum over a set that grows by one variable at a time,
and it stays within the capacities. `Waiting`: every major path belongs to a
request of its own that is not served yet, and is a simple path over the
network. `Tried`: what has been tried cannot be added any more, which is why one
pass is enough: usage and the set of served requests only grow.
`SelectionFeasible` and `NothingLeftOut` follow. `LayoutSound` is about the time
expansion alone: whatever the DAG, each step of the layout keeps an operation
after its dependencies and two swaps at one node apart. `RoundInv` adds the
account of a round: of each resource, what is left, what is committed in the
slot, and what the major and recovery paths not compiled yet claim are together
within its capacity. The hard step is `Commit`, where claims of paths turn into
usage of a plan. By `LayoutSound` an operation in the first round depends on
nothing, so it is a generation of a hop of one of the paths, each hop has only
one, and `FirstRound` counts them. `ResidualSound` follows; its last part is
geometry of simple paths, which meet a link once and a node inside twice.

What the proofs showed about the code, for all parameters:

* the executor never stalls inside a slot, so the second (draining) loop of
  `_run_slot` and its counterpart in the batch run have nothing to do;
* the batch run's default settlement at the horizon is never needed
  (`NothingSettledByDefault`): what is unsettled then has work still due;
* the executor's capacity check on completion never refuses (`NoLateCapacity`),
  `begin_generation` never refuses (`NoPhysicalRejection`) and the policy's
  `register` never refuses (`NeverRegisteredTwice`);
* the planners' final check of their own selection never raises
  (`SelectionFeasibleAlways`).

Only model-checked:

* liveness (`InFlightResolves`, `CleanupEnds`, `EpisodeEnds`, `BatchEnds`,
  `AllSettled`), which is outside the prover's reach;
* `AdmittedOnTime` and `BrokenMeansLost`, which hold when protocols fit their
  slots as in the instance of `recovery`, not for every parameter, and
  `CoversApply`, whose covers and shortest routes are computed by recursion
  over data;
* `BestTrees`, which compares two enumerations computed by recursion on the
  intervals of a route, up to `MaxLinks` links, with nothing claimed beyond, and `PlansExecutable`, which unfolds every shape the
  compilers give a DAG;
* the three expected violations.

## 5. Mutants

Every property of every passing run has a mutant: a definition that stands for
code, changed the way a plausible mistake would change it (`\* Mutant:` comments
mark them next to the definition they change), which TLC must reject under the
run's own configuration. `PROJECT.json` lists them.

## 6. Findings

* `_ready_due_operations` (`scheduled_execution.py:749-765`) is documented to
  "return ready work without letting later plans overtake older slots", but it
  falls through to the next slot when the executor offers nothing of the older
  one, also when that work is ready and only lacks a free memory. The run
  `overtaking` shows the later slot's operation launched first.
* The batch executor records a due operation that `ready_operations` does not
  offer as `launch_rejected`, "operation is not physically ready"
  (`scheduled_execution.py:1752-1756`), and fails its request. In the run
  `batch_rejection` this happens to a swap that is ready and would be accepted:
  `ready_operations` has dropped it because a generation is ready too, and the
  generation does not fit.
* `physical_reservations_by_request` is documented to keep the resources of late
  work from new plans (`scheduled_execution.py:590`, `:694`). The envelope of
  late work is combined with the request's live segments by the maximum, not
  added to them. In the run `seized` a request waits for the second of two pairs
  on one link; the first, which is live, hides the demand of the second, and a
  plan decided later takes the memory it needs.

Behaviours that a reader of the code should know and that no property reports:

* `ready_operations` drops all swaps when some generation is ready, before
  packing: a swap that would free memories can wait behind a generation that
  waits for them, until a pair expires.
* `wait_until` sets `_terminated` from the clock alone and so revokes an earlier
  `terminate()`.
* A success is processed before the expirations of the same batch, so a request
  that demands several pairs can complete although an earlier one has just
  decohered. Plans for several pairs release each pair before building the next,
  so the pairs are delivered one after the other by design.
* An attempt that is neither finished nor failed at the horizon gets no outcome
  from the scheduler; the controller closes its record as a failure.
* The recovery policy counts a major segment that is not live as broken. When a
  protocol outlasts its slot, a late recovery generation lets the swaps of the
  major path start first, and what they have consumed then looks broken.
* A recovery pair that expires before the last generation is over is answered
  with no response by the policy, and the scheduler's default for an expiration
  is to fail the attempt, although the major path may be complete.
* Q-CAST reserves a major path for the whole round even when its compiled plan
  is then rejected by the time expansion, and the request keeps its turn only in
  the next round.

## 7. Plan

Done: `ConstructionOperations`, `ProtocolAdmission`, `ConstructionExecutor`,
`ConstructionContract` and the executor's proofs; `PersistentScheduler` and the
proof that it implements the executor; `LaunchTransaction`; reservations, the
online controller and the Q-CAST policy on top of the scheduler; plan compilers,
time expansion and the planners; the batch executor. Then the proofs: the executor and its contract, what is offered can be launched,
both schedulers, the controller, the recovery policy, the launch in steps, the
planners' accounts and the nominal layout.

Left:

1. `PlansExecutable` as a theorem, one shape of DAG after the other.
2. `AdmittedOnTime` and `BrokenMeansLost` under an assumption that states when
   protocols fit their slots, once that assumption is found.
3. The rollback of a submission of several plans.

## 8. Not modelled

Fidelity estimation and metrics (real-valued formulas), scenario and workload
generation (randomised input), `construction_repair` and the dynamic repair
catalogue, which only tests reach, the reinforcement-learning router with its
features and `decode_continuous_primal`, experiments and plots, data and
configuration files, the vendored Kotlin simulator, which the Python code does
not call, and the SeQUeNCe library, of which only the effects the backend relies
on appear.
