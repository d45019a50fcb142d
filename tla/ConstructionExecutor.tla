------------------------ MODULE ConstructionExecutor ------------------------
(***************************************************************************)
(* SequenceConstructionExecutor: the executor that launches the operations *)
(* of the request DAGs on the physical backend and settles their outcomes. *)
(*                                                                         *)
(* advance_to_next_event is a loop over the operations that fell due.  It  *)
(* is modelled by Advance, which moves the clock and collects the due set, *)
(* one Finish per due operation, BeginTimeout at the horizon and Settle,   *)
(* which ends the call; phase is the program counter of that loop.  Every  *)
(* other public method is one action, enabled only between calls.          *)
(*                                                                         *)
(* A live segment and the physical pair behind it carry the name of the    *)
(* operation that produced them.                                           *)
(***************************************************************************)
EXTENDS ProtocolAdmission

CONSTANTS
  Plans,       \* initial DAGs a request may be registered with
  Repairs,     \* operation sets a request's DAG may be repaired with
  Horizon,     \* horizon_ps, in ticks
  Window,      \* longest physical window of a protocol, in ticks
  Lifetimes    \* how long a new pair may live before its memories decohere

ASSUME ExecutorAssumption ==
  /\ Plans \in [Request -> SUBSET SUBSET Op]
  /\ Repairs \in [Request -> SUBSET SUBSET Op]
  /\ Horizon \in Nat \ {0}
  /\ Window \in Nat \ {0}
  /\ Lifetimes \subseteq Nat \ {0}

\* A plan is a ConstructionDAG already, so its constructor has checked it.
ASSUME PlanAssumption ==
  \A r \in Request : \A ops \in Plans[r] : \A o \in ops : Owner[o] = r /\ Preds[o] \subseteq ops

\* Plans and repairs come from the compilers of construction_plans.py.
ASSUME CompilerAssumption ==
  \A r \in Request : \A ops \in Plans[r] \cup Repairs[r] : \A o \in ops : CompiledSoundly(o)

VARIABLES
  dags,        \* operations of each registered DAG, {} when not registered
  version,     \* ConstructionDAG.version
  completed, started, dead,   \* the DAG markers
  segs,        \* _segments
  expired,     \* _expired_segments: removed, not yet reported
  expiry,      \* when the pair of a segment decoheres, 0 when there is none
  owned,       \* pairs owned by a running physical protocol
  pending,     \* _pending
  startedAt,   \* launch time of an operation
  endsAt,      \* end of its physical protocol, 0 when it runs none
  lane,        \* generation lane claimed, MaxWidth when none
  busyLanes,   \* _generation_lanes
  now,         \* physical_time_ps
  terminated,  \* _terminated
  phase,       \* where advance_to_next_event is
  todo         \* operations its current loop still has to finish

dagVars  == <<dags, version>>
markVars == <<completed, started, dead>>
pairVars == <<segs, expired, expiry>>
runVars  == <<pending, startedAt, endsAt, lane, busyLanes>>
callVars == <<phase, todo>>
vars == <<dagVars, markVars, pairVars, owned, runVars, now, terminated, callVars>>

Phase == {"idle", "completing", "timing_out"}

Idle == phase = "idle"

Registered == {r \in Request : dags[r] # {}}
Known      == UNION {dags[r] : r \in Request}

Init ==
  /\ dags \in {d \in [Request -> UNION {Plans[r] \cup {{}} : r \in Request}] :
                 \A r \in Request : d[r] \in Plans[r] \cup {{}}}
  /\ version = [r \in Request |-> 0]
  /\ completed = {} /\ started = {} /\ dead = {}
  /\ segs = {} /\ expired = {}
  /\ expiry = [o \in Op |-> 0]
  /\ owned = {}
  /\ pending = {}
  /\ startedAt = [o \in Op |-> 0]
  /\ endsAt = [o \in Op |-> 0]
  /\ lane = [o \in Op |-> MaxWidth]
  /\ busyLanes = [e \in Edge |-> {}]
  /\ now = 0
  /\ terminated = FALSE
  /\ phase = "idle"
  /\ todo = {}

-----------------------------------------------------------------------------
(* Pairs, segments and readiness                                           *)

Pairs == {o \in Op : expiry[o] # 0}

\* A pair survives while a protocol owns it, whatever its memories hold.
Alive(o, t) == o \in owned \/ expiry[o] > t

\* _available_segment_ids: forget the segments whose pair has decohered by t.
Refresh(S, dropped, e, t) ==
  LET stale == {s \in S : s \notin owned /\ e[s] <= t}
  IN  /\ segs' = S \ stale
      /\ expired' = dropped \cup stale
      /\ expiry' = [o \in Op |-> IF o \in stale THEN 0 ELSE e[o]]

\* The same, followed by _drain_expiration_events.
RefreshAndReport(t) ==
  LET stale == {s \in segs : ~Alive(s, t)}
  IN  /\ segs' = segs \ stale
      /\ expired' = {}
      /\ expiry' = [o \in Op |-> IF o \in stale THEN 0 ELSE expiry[o]]

Available == {s \in segs : Alive(s, now)} \ Inputs(pending)

\* Mutant: readiness looks at the input segments only.
ReadyByInputs ==
  {o \in Known \ (completed \cup started \cup dead \cup pending) : Ins[o] \subseteq Available}

\* ConstructionDAG.ready_ids over every registered DAG.
Ready ==
  {o \in Known \ (completed \cup started \cup dead \cup pending) :
     Preds[o] \subseteq completed /\ Ins[o] \subseteq Available}

\* ready_operations: only the first swap, or none while one is in flight ...
SwapFilter(S) ==
  IF ConcurrentSwaps THEN S
  ELSE {o \in S : Kind[o] = "SWAP" =>
          /\ Swaps(pending) = {}
          /\ \A s \in Swaps(S) : Rank[o] <= Rank[s]}

\* ... and generations alone when both generations and swaps are ready.
MixFilter(S) ==
  IF ~MixedConcurrency /\ Gens(S) # {} /\ Swaps(S) # {} THEN Gens(S) ELSE S

\* What ready_operations(allowed) returns.
ReadyOperations(allowed) ==
  IF pending # {} /\ ~InterEpochLaunch THEN {}
  ELSE Pack(MixFilter(SwapFilter(Ready \cap allowed)), pending, {s \in segs : Alive(s, now)})

-----------------------------------------------------------------------------
(* The DAG catalogue                                                       *)

\* ConstructionDAG._add_many, beside the operations already in the DAG.
WellFormed(r, ops, present) ==
  /\ ops # {}
  /\ \A o \in ops : Owner[o] = r /\ Preds[o] \subseteq ops \cup present
  /\ ops \cap Known = {}

Register(r, ops) ==
  /\ Idle
  /\ ~terminated
  /\ dags[r] = {}
  /\ WellFormed(r, ops, {})
  /\ dags' = [dags EXCEPT ![r] = ops]
  /\ version' = [version EXCEPT ![r] = 0]
  /\ UNCHANGED <<markVars, pairVars, owned, runVars, now, terminated, callVars>>

\* The segments release_segment and discard_pair remove, with their pairs.
Discard(S) ==
  /\ segs' = segs \ S
  /\ expiry' = [o \in Op |-> IF o \in S THEN 0 ELSE expiry[o]]
  /\ UNCHANGED expired

OwnedBy(r, S) == {o \in S : Owner[o] = r}

Unregister(r) ==
  /\ Idle
  /\ dags[r] # {}
  /\ OwnedBy(r, pending) = {}
  /\ OwnedBy(r, segs) \cap Inputs(pending) = {}
  /\ Discard(OwnedBy(r, segs))
  /\ dags' = [dags EXCEPT ![r] = {}]
  /\ version' = [version EXCEPT ![r] = 0]
  /\ completed' = completed \ dags[r]
  /\ started' = started \ dags[r]
  /\ dead' = dead \ dags[r]
  /\ UNCHANGED <<owned, runVars, now, terminated, callVars>>

ReleaseSegment(s) ==
  /\ Idle
  /\ s \in segs \ Inputs(pending)
  /\ Discard({s})
  /\ UNCHANGED <<dagVars, markVars, owned, runVars, now, terminated, callVars>>

ReleaseRequest(r) ==
  /\ Idle
  /\ dags[r] # {}
  /\ Discard(OwnedBy(r, segs) \ Inputs(pending))
  /\ UNCHANGED <<dagVars, markVars, owned, runVars, now, terminated, callVars>>

HoldFits(o) == \A r \in Hold[o] : Capacity[r] >= 1

\* Mutant: a reroute retires the completed prefix with the rest.
RetireAll(r) == dags[r]

\* mark_obsolete's targets: neither completed nor dead, and none is started.
Obsolete(r) == dags[r] \ (completed \cup dead)

\* Mutant: a repair drops the uncommitted operations from the DAG.
Rerouted(r, ops) == (dags[r] \cap (completed \cup dead)) \cup ops

Repaired(r, ops) == dags[r] \cup ops

RepairAdmits(r, ops, supersede) ==
  /\ Idle
  /\ dags[r] # {}
  /\ OwnedBy(r, pending) = {}
  /\ supersede => started \cap dags[r] = {}
  /\ ops \cap segs = {}
  /\ WellFormed(r, ops, dags[r])
  /\ \A o \in ops :
       /\ Version[o] = version[r] + 1
       /\ HoldFits(o)
       /\ Preds[o] \cap dead = {}
       /\ \A i \in Ins[o] : \/ i \in OwnedBy(r, Available)
                            \/ i \in ops \cap Preds[o]

Repair(r, ops, supersede) ==
  /\ RepairAdmits(r, ops, supersede)
  /\ dags' = [dags EXCEPT ![r] = Repaired(r, ops)]
  /\ version' = [version EXCEPT ![r] = @ + 1]
  /\ dead' = IF supersede THEN dead \cup Obsolete(r) ELSE dead
  /\ Refresh(segs, expired, expiry, now)
  /\ UNCHANGED <<completed, started, owned, runVars, now, terminated, callVars>>

Terminate ==
  /\ Idle
  /\ pending = {}
  /\ terminated' = TRUE
  /\ UNCHANGED <<dagVars, markVars, pairVars, owned, runVars, now, callVars>>

-----------------------------------------------------------------------------
(* launch                                                                  *)

OnEdge(S, e) == {o \in S : Ends[o] = e}
AtNode(S, n) == {o \in S : n \in Ends[o]}

FreeLanes(e) == (0 .. MaxWidth - 1) \ (busyLanes[e] \cup {lane[p] : p \in OnEdge(Gens(pending), e)})

\* The generations of ops that claim a lane of o's edge before o does.
Before(o, ops) == {a \in OnEdge(Gens(ops), Ends[o]) : Rank[a] < Rank[o]}

AnyClaims(ops) == [Gens(ops) -> UNION {FreeLanes(e) : e \in Edge}]

\* Mutant: the generations of one launch do not see each other's claims.
SameLanes(ops) ==
  {c \in AnyClaims(ops) : \A o \in Gens(ops) :
     /\ c[o] \in FreeLanes(Ends[o])
     /\ \A l \in FreeLanes(Ends[o]) : c[o] <= l}

\* _generation_claims: in canonical order, each generation takes the lowest
\* lane still free on its edge.  There is none when the lanes do not suffice.
LaneClaims(ops) ==
  {c \in AnyClaims(ops) : \A o \in Gens(ops) :
     /\ c[o] \in FreeLanes(Ends[o])
     /\ Cardinality({l \in FreeLanes(Ends[o]) : l < c[o]}) = Cardinality(Before(o, ops))}

\* Mutant: a swapped pair counts against the edge between its ends.
AllPairs == Pairs

\* Elementary pairs keep the lane of the generation they come from.
ElementaryPairs == Gens(Pairs) \cup Purifies(Pairs)

\* begin_generation admits a claim when the edge has room for one more pair
\* and both nodes still have a raw memory.  It takes the claims in order of
\* their edge: the order decides which claim is refused, not whether one is.
\* A protocol keeps its memories until its operation is finished.
MemoryFree(o, taken) ==
  /\ Cardinality(OnEdge(ElementaryPairs, Ends[o])) + Cardinality(OnEdge(taken, Ends[o])) < MemoryCapacity
  /\ \A n \in Ends[o] :
       Cardinality(AtNode(Pairs, n)) + Cardinality(AtNode({p \in Gens(pending) : endsAt[p] # 0}, n))
         + Cardinality(AtNode(taken, n)) < MemorySize[n]

PhysicallyAccepted(ops) == Greedy(Gens(ops), LAMBDA taken, o : MemoryFree(o, taken))

\* can_begin_swap and can_begin_purification; the fidelities are left out.
Joins(o) ==
  /\ Ins[o] \subseteq Pairs \ owned
  /\ Kind[o] = "SWAP" => MeetsInMiddle(o)

LaunchAdmits(ops) ==
  /\ ~terminated
  /\ ops # {}
  /\ ops \subseteq Ready
  /\ \A o \in ops :
       /\ HoldFits(o)
       /\ \A i \in Ins[o] : Owner[i] = Owner[o]
       /\ Kind[o] \in {"SWAP", "PURIFY"} => Joins(o)
  /\ ArbiterAdmits(ops, pending)
  /\ SchedulerAdmits(ops, pending, {s \in segs : Alive(s, now)})
  /\ OracleAdmits(ops)
  /\ ops \cap segs = {}
  /\ LaneClaims(ops) # {}

Launch(ops) ==
  /\ Idle
  /\ LaunchAdmits(ops)
  /\ LET joining  == Swaps(ops) \cup Purifies(ops)
         running  == joining \cup PhysicallyAccepted(ops)
     IN  /\ owned' = owned \cup Inputs(joining)
         /\ \E length \in [running -> 1 .. Window] :
              endsAt' = [o \in Op |-> IF o \in running THEN now + length[o] ELSE endsAt[o]]
  /\ started' = started \cup ops
  /\ pending' = pending \cup ops
  /\ startedAt' = [o \in Op |-> IF o \in ops THEN now ELSE startedAt[o]]
  /\ \E claim \in LaneClaims(ops) :
       /\ lane' = [o \in Op |-> IF o \in Gens(ops) THEN claim[o] ELSE lane[o]]
       /\ busyLanes' = [e \in Edge |-> busyLanes[e] \cup {claim[o] : o \in OnEdge(Gens(ops), e)}]
  /\ Refresh(segs, expired, expiry, now)
  /\ UNCHANGED <<dagVars, completed, dead, now, terminated, callVars>>

-----------------------------------------------------------------------------
(* advance_to_next_event                                                   *)

IsLeast(t, S) == t \in S /\ \A u \in S : t <= u

Logical(o) == startedAt[o] + Duration[o]

\* completion_time_ps: the nominal end, when the physical window is over too.
Nominal(o) ==
  IF Kind[o] = "RELEASE" THEN Logical(o)
  ELSE startedAt[o] + (IF Duration[o] > Window THEN Duration[o] ELSE Window)

\* Mutant: what already completed is collected again.
DueAgain(t) == {o \in pending \cup completed : endsAt[o] <= t /\ Logical(o) <= t}

\* Physically terminated and logically complete at time t.
Due(t) == {o \in pending : endsAt[o] <= t /\ Logical(o) <= t}

NextExpiries == {expiry[p] : p \in {q \in Pairs : expiry[q] > now}}

\* The times advance_to_next_event may not run past; one that is over is now.
Boundaries(bound) ==
  {bound, Horizon} \cup NextExpiries
    \cup {IF Nominal(o) > now THEN Nominal(o) ELSE now : o \in pending}

\* Where the clock may stop: every protocol that ends by the target has ended,
\* and something is due or the target is reached.
Stops(target) ==
  {t \in now .. target :
     /\ \A o \in pending : endsAt[o] <= target => endsAt[o] <= t
     /\ t = target \/ Due(t) # {}}

\* The backend runs event by event until every protocol is over or the next
\* event lies beyond the target.  In the first case the clock stops as early
\* as it can; in the second the other events of the timeline may leave it at
\* any of the possible stops.  The call returns at once when a segment has
\* decohered unreported, which NoPhysicalRejection shows is never so between calls.
Advance(bound) ==
  /\ Idle
  /\ ~terminated
  /\ pending # {}
  /\ \A s \in segs : Alive(s, now)
  /\ \E target, t \in now .. Horizon :
       /\ IsLeast(target, Boundaries(bound))
       /\ t \in Stops(target)
       /\ (\E o \in pending : endsAt[o] > target) \/ IsLeast(t, Stops(target))
       /\ now' = t
       /\ todo' = Due(t)
  /\ phase' = "completing"
  /\ UNCHANGED <<dagVars, markVars, pairVars, owned, runVars, terminated>>

\* Mutant: finished operations leave their inputs registered.
KeepsInputs(o) == {}

\* A swap, a purification and a release settle their inputs in any case.
Consumed(o) == Ins[o]

\* Mutant: the backend keeps the pairs of consumed segments.
KeepsPairs(o) == expiry

Expiries(o) == [p \in Op |-> IF p \in Consumed(o) THEN 0 ELSE expiry[p]]

\* The bookkeeping common to every outcome.
Retire(o) ==
  /\ o \in todo
  /\ todo' = todo \ {o}
  /\ pending' = pending \ {o}
  /\ started' = started \ {o}
  /\ owned' = owned \ Ins[o]
  /\ startedAt' = [startedAt EXCEPT ![o] = 0]
  /\ endsAt' = [endsAt EXCEPT ![o] = 0]
  /\ lane' = [lane EXCEPT ![o] = MaxWidth]
  /\ busyLanes' = [e \in Edge |-> IF Ends[o] = e THEN busyLanes[e] \ {lane[o]} ELSE busyLanes[e]]
  /\ UNCHANGED <<dagVars, now, terminated, phase>>

\* Mutant: the inputs are still charged when the output is stored.
FitsBesideInputs(o) ==
  \A r \in Hold[o] : Usage(segs, pending \ {o}, r) + 1 <= Capacity[r]

\* The capacity check made when the output is about to be stored.
OutputFits(o) ==
  \A r \in Hold[o] : Usage(segs \ Consumed(o), pending \ {o}, r) + 1 <= Capacity[r]

Complete(o, life) ==
  /\ phase = "completing"
  /\ Retire(o)
  /\ Kind[o] # "RELEASE"
  /\ endsAt[o] # 0
  /\ OutputFits(o)
  /\ completed' = completed \cup {o}
  /\ segs' = (segs \ Consumed(o)) \cup {o}
  /\ expiry' = [Expiries(o) EXCEPT ![o] = now + life]
  /\ UNCHANGED <<dead, expired>>

Release(o) ==
  /\ phase = "completing"
  /\ Retire(o)
  /\ Kind[o] = "RELEASE"
  /\ completed' = completed \cup {o}
  /\ segs' = segs \ Consumed(o)
  /\ expiry' = Expiries(o)
  /\ UNCHANGED <<dead, expired>>

\* A failed protocol, an output that was rejected or lost, or the horizon.
Fail(o) ==
  /\ phase = "timing_out" \/ Kind[o] # "RELEASE"
  /\ Retire(o)
  /\ dead' = dead \cup {o}
  /\ Refresh(segs \ Consumed(o), expired, Expiries(o), now)
  /\ UNCHANGED completed

\* Mutant: operations in flight are cut off only after the horizon.
TimeoutLater == phase = "completing" /\ now > Horizon /\ pending # {}

TimeoutDue == phase = "completing" /\ now >= Horizon /\ pending # {}

BeginTimeout ==
  /\ todo = {}
  /\ TimeoutDue
  /\ phase' = "timing_out"
  /\ todo' = pending
  /\ pending' = {}
  /\ UNCHANGED <<dagVars, markVars, pairVars, owned, startedAt, endsAt, lane, busyLanes, now, terminated>>

Settle ==
  /\ ~Idle
  /\ todo = {}
  /\ ~TimeoutDue
  /\ RefreshAndReport(now)
  /\ terminated' = (now >= Horizon)
  /\ phase' = "idle"
  /\ UNCHANGED <<dagVars, markVars, owned, runVars, now, todo>>

WaitUntil(bound) ==
  /\ Idle
  /\ pending = {}
  /\ \E t \in now .. Horizon :
       /\ IsLeast(t, {bound} \cup NextExpiries)
       /\ now' = t
       /\ RefreshAndReport(t)
       /\ terminated' = (t >= Horizon)
  /\ UNCHANGED <<dagVars, markVars, owned, runVars, callVars>>

-----------------------------------------------------------------------------

Finish == \E o \in Op : Release(o) \/ Fail(o) \/ \E life \in Lifetimes : Complete(o, life)

Next ==
  \/ \E r \in Request : \E ops \in Plans[r] : Register(r, ops)
  \/ \E r \in Request : Unregister(r)
  \/ \E r \in Request : \E ops \in Repairs[r], supersede \in BOOLEAN : Repair(r, ops, supersede)
  \/ \E s \in Op : ReleaseSegment(s)
  \/ \E r \in Request : ReleaseRequest(r)
  \/ \E ops \in SUBSET Ready : Launch(ops)
  \/ \E bound \in now .. Horizon : Advance(bound)
  \/ Finish
  \/ BeginTimeout
  \/ Settle
  \/ \E bound \in now .. Horizon : WaitUntil(bound)
  \/ Terminate

Spec == Init /\ [][Next]_vars

\* Both callers, the slot scheduler and the batch runner, keep advancing past
\* their own boundary while anything is in flight, and the loop inside the
\* call is sequential code that runs to its end.
Fairness ==
  /\ SF_vars(Advance(Horizon))
  /\ WF_vars(Finish)
  /\ WF_vars(BeginTimeout)
  /\ WF_vars(Settle)

FairSpec == Spec /\ Fairness

-----------------------------------------------------------------------------
(* Properties                                                              *)

InFlight == pending \cup todo
Joining  == Swaps(InFlight) \cup Purifies(InFlight)

\* The type of every variable.
TypeOK ==
  /\ dags \in [Request -> SUBSET Op]
  /\ version \in [Request -> Nat]
  /\ completed \subseteq Op /\ started \subseteq Op /\ dead \subseteq Op
  /\ segs \subseteq Op /\ expired \subseteq Op
  /\ expiry \in [Op -> Nat]
  /\ owned \subseteq Op
  /\ pending \subseteq Op
  /\ startedAt \in [Op -> Nat]
  /\ endsAt \in [Op -> Nat]
  /\ lane \in [Op -> 0 .. MaxWidth]
  /\ busyLanes \in [Edge -> SUBSET (0 .. MaxWidth - 1)]
  /\ now \in 0 .. Horizon
  /\ terminated \in BOOLEAN
  /\ phase \in Phase
  /\ todo \subseteq Op

\* The DAG markers and the executor's _pending are two records of the same
\* launches, kept in different objects: an operation is marked started exactly
\* while it is in flight, also halfway through the loop of advance and while
\* the horizon is cutting operations off, and no operation carries two markers
\* or a marker without a DAG (mark_started, mark_completed, mark_dead).
MarkersMatchExecution ==
  /\ started = InFlight
  /\ completed \cap dead = {} /\ started \cap (completed \cup dead) = {}
  /\ completed \cup started \cup dead \subseteq Known

\* A live segment was produced by a completed operation and no completed
\* operation consumed it; a running swap or purification still has its inputs,
\* whatever expired meanwhile (_available_segment_ids, _finish_pending).
SegmentProvenance ==
  /\ segs \subseteq completed
  /\ segs \cap Inputs(completed) = {}
  /\ Inputs(Joining) \subseteq segs

\* No two operations in flight consume the same segment, although launches of
\* different epochs are validated one after the other (_validate_launch).
InputsExclusive == \A a, b \in InFlight : a # b => Ins[a] \cap Ins[b] = {}

\* The logical registry and the backend agree at every step: each live segment
\* has its pair and no pair is left without a segment, and a pair is protected
\* from expiry exactly while a running protocol consumes it
\* (_physical_by_segment, _protocol_owned_pair_ids).
RegistriesAgree ==
  /\ Pairs = segs
  /\ owned = Inputs(Joining)

\* The live segments and the operations in flight together never exceed a
\* capacity, at any point of any call (_usage, _validate_launch).
CapacityRespected == \A r \in Resource : Usage(segs, InFlight, r) <= Capacity[r]

\* The capacity check that _finish_pending repeats when it stores an output
\* never fails: what a launch was admitted with is still there when it ends.
NoLateCapacity == phase = "completing" => \A o \in todo : OutputFits(o)

\* Protocols that would disturb each other are never in flight together: a
\* purification runs alone, generations and swaps do not overlap unless the
\* backend supports it, and concurrent swaps share no node.
ProtocolIsolation ==
  \A a, b \in Physical(InFlight) : a # b =>
    /\ Kind[a] # "PURIFY"
    /\ Kind[a] = "SWAP" => Nodes[a] \cap Nodes[b] = {}
    /\ Kind[a] = "SWAP" /\ Kind[b] = "GEN" => MixedConcurrency
    /\ Kind[a] = "SWAP" /\ Kind[b] = "SWAP" => ConcurrentSwaps

\* Generations in flight on one edge hold different lanes, and a lane is busy
\* exactly while such a generation holds it: none is leaked by a failure or
\* by the horizon (_generation_claims, _release_generation_lane).
LanesExact ==
  \A e \in Edge :
    LET gens == OnEdge(Gens(InFlight), e)
    IN  /\ busyLanes[e] = {lane[o] : o \in gens}
        /\ \A a, b \in gens : a # b => lane[a] # lane[b]

\* What the logical state admits the backend can start: a generation finds its
\* memories, so that "physical_backend_rejection" never happens, and between
\* calls no segment has decohered unreported, so that what a caller reads is
\* what the next launch will find (begin_generation, _available_segment_ids).
NoPhysicalRejection ==
  /\ \A o \in Gens(InFlight) : endsAt[o] # 0
  /\ Idle => expired = {} /\ \A s \in segs : Alive(s, now)

\* Every non-empty subset of what ready_operations offers passes the three
\* independent admission checks of launch.
ReadyLaunchable ==
  Idle /\ ~terminated => \A ops \in (SUBSET ReadyOperations(Op)) \ {{}} : LaunchAdmits(ops)

\* A DAG only grows, its version never decreases, and an operation that was
\* started, completed or retired keeps that history until the whole DAG is
\* unregistered: repair and reroute never rewrite the committed prefix.
PrefixKept ==
  \A r \in Request : dags[r] # {} /\ dags'[r] # {} =>
    /\ dags[r] \subseteq dags'[r]
    /\ version[r] <= version'[r]
    /\ completed \cap dags[r] \subseteq completed'
    /\ dead \cap dags[r] \subseteq dead'
    /\ started \cap dags[r] \subseteq started' \cup completed' \cup dead'
CommittedPrefixImmutable == [][PrefixKept]_vars

\* Whatever is launched is eventually settled, success, failure or horizon.
InFlightResolves == \A o \in Op : o \in pending ~> o \notin InFlight

\* What makes the properties above inductive.
LoopShape ==
  /\ phase = "idle" => todo = {}
  /\ phase = "completing" => todo \subseteq pending
  /\ phase = "timing_out" => pending = {}

DagsOwned == \A r \in Request : \A o \in dags[r] : Owner[o] = r

InputsSettled ==
  \A o \in completed \cup started : \A i \in Ins[o] : i \in completed /\ Owner[i] = Owner[o]

\* The loop of advance is where the sets say it is, operations and their inputs
\* belong to one request, and the properties of the registries hold.
RegistrySound ==
  /\ TypeOK
  /\ LoopShape
  /\ DagsOwned
  /\ InputsSettled
  /\ MarkersMatchExecution
  /\ SegmentProvenance
  /\ RegistriesAgree
  /\ InputsExclusive
  /\ CapacityRespected

OutputsLive == \A s \in segs : Kind[s] # "RELEASE"

LanesReturned == \A o \in Op \ Gens(InFlight) : lane[o] = MaxWidth

\* What is in flight was rightly launched, on lanes that return when it ends.
LaunchSound ==
  /\ OutputsLive
  /\ LanesReturned
  /\ LanesExact
  /\ ProtocolIsolation
  /\ NoPhysicalRejection

\* The inductive invariant of the executor: its registries, markers and
\* capacities agree, and what it launched stays apart on lanes and memories of
\* its own (launch, advance_to_next_event and every method between calls).
Inductive == RegistrySound /\ LaunchSound

\* A protocol in flight ends within its window: what the progress of a call rests on.
WindowsHeld ==
  \A o \in Op : /\ o \notin Physical(InFlight) => endsAt[o] = 0
                /\ o \in InFlight => endsAt[o] <= startedAt[o] + Window

\* The executor implements its contract.
Status(o) ==
  CASE o \in completed    -> "done"
    [] o \in dead         -> "dead"
    [] o \in started      -> "running"
    [] o \in Known \ (completed \cup dead \cup started) -> "waiting"
    [] OTHER              -> "absent"

Contract == INSTANCE ConstructionContract
              WITH status <- [o \in Op |-> Status(o)], live <- segs

\* Seen through the DAG markers and the segment registry, every step of the
\* executor is a step of the contract: no operation starts before its
\* predecessors or on an input someone else consumes, no joining operation
\* loses its inputs, nothing finished restarts (launch, _finish_pending).
ImplementsContract == Contract!Spec

=============================================================================
