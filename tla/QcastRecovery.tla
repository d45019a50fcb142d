---------------------------- MODULE QcastRecovery ----------------------------
(***************************************************************************)
(* The Q-CAST controller: the online controller with QCASTRecoveryPolicy   *)
(* as the scheduler's event policy.  Once every generation of a request is *)
(* over the policy looks at what is left of the major path, and keeps it,  *)
(* reroutes it over recovery paths, or gives the attempt up.               *)
(***************************************************************************)
EXTENDS OnlineController, QcastRoutes

LOCAL INSTANCE Sequences
LOCAL INSTANCE Functions
LOCAL INSTANCE FiniteSetsExt

CONSTANTS
  Route,      \* route_nodes of a candidate
  Major,      \* major_segment_ids of a candidate, along its route
  Recoveries  \* recovery_paths of a candidate

\* QCASTRecoveryPathPlan.__post_init__, QCASTAllocation.__post_init__.
ASSUME AllocationAssumption ==
  /\ EventPolicy
  /\ \A ops \in Candidate :
       /\ Len(Major[ops]) = Len(Route[ops]) - 1
       /\ \A p \in Recoveries[ops] :
            /\ 0 <= p.from /\ p.from < p.to /\ p.to < Len(Route[ops])
            /\ p.route[1] = Route[ops][p.from + 1]
            /\ p.route[Len(p.route)] = Route[ops][p.to + 1]
            /\ Len(p.segs) = Len(p.route) - 1

VARIABLES
  allocation,  \* the allocation registered for a request, {} when there is none
  resolved     \* requests whose allocation is resolved

policyVars == <<allocation, resolved>>
recoveryVars == <<onlineVars, policyVars>>

RecoveryInit == OnlineInit /\ allocation = [r \in Request |-> {}] /\ resolved = {}

-----------------------------------------------------------------------------
(* What the policy sees of request r                                       *)

Watched(r) == allocation[r] # {} /\ r \notin resolved

GensOver(r) == Gens(allocation[r]) \subseteq completed \cup dead

Live(r) == OwnedBy(r, segs)

MajorSegments(r) == Range(Major[allocation[r]])

Broken(r) == {i \in 0 .. Len(Major[allocation[r]]) - 1 : Major[allocation[r]][i + 1] \notin segs}

LiveRecoveries(r) == {p \in Recoveries[allocation[r]] : Range(p.segs) \subseteq Live(r)}

\* Live elementary segments a route does not use.
Spare(r, used) == (Live(r) \cap Gens(allocation[r])) \ used

Cover(r) == Selection(Broken(r), LiveRecoveries(r))

\* The links a repaired route may use, with the segments on each.
SegmentsOn(r, link) ==
  (MajorSegments(r) \cup UNION {Range(p.segs) : p \in Cover(r)}) \cap {s \in Live(r) : Ends[s] = link}

Usable(r) == {link \in Edge : SegmentsOn(r, link) # {}}

\* Priority of a segment: the major path, then the recovery paths in order.
Priority(r, s) ==
  Cardinality({q \in Cover(r) : \E p \in Cover(r) : s \in Range(p.segs) /\ (p = q \/ Precedes(q, p))})

SegmentOn(r, link) ==
  CHOOSE s \in SegmentsOn(r, link) : \A t \in SegmentsOn(r, link) \ {s} :
    \/ Priority(r, s) < Priority(r, t)
    \/ Priority(r, s) = Priority(r, t) /\ Rank[s] < Rank[t]

\* _repaired_route_and_segments.
Repairable(r) == IF Cover(r) = NoCover THEN {}
                 ELSE ShortestRoutes(Usable(r), Route[allocation[r]][1], Route[allocation[r]][Len(Route[allocation[r]])])

Chosen(r, route) == [k \in Hops(route) |-> SegmentOn(r, Hop(route, k))]

\* left_deep_swap_suffix, one slot per swap: the operations of ops join the
\* chosen segments from left to right.
LeftDeep(ops, route, chosenSegs) ==
  \E chain \in Bijection(1 .. Len(route) - 2, ops) :
    \A k \in 1 .. Len(route) - 2 :
      /\ Kind[chain[k]] = "SWAP"
      /\ Ins[chain[k]] = {IF k = 1 THEN chosenSegs[1] ELSE chain[k - 1], chosenSegs[k + 1]}
      /\ Preds[chain[k]] = IF k = 1 THEN {} ELSE {chain[k - 1]}
      /\ Ends[chain[k]] = {route[1], route[k + 2]}
      /\ Offset[chain[k]] = k - 1

-----------------------------------------------------------------------------
(* _resolve_request                                                        *)

\* Mutant: the policy decides again at the next event.
DecideAgain(r) == resolved' = resolved

Resolve(r) == resolved' = resolved \cup {r}

Decides(r) == Watched(r) /\ GensOver(r)

FailedGeneration(r) == failed \cap Gens(allocation[r]) # {}

NoResponse(r) ==
  /\ ~Watched(r) \/ (~GensOver(r) /\ ~FailedGeneration(r))
  /\ Decline(r)
  /\ UNCHANGED <<active, resolved>>

\* A generation failed while others are still in flight.
KeepWaiting(r) ==
  /\ Watched(r) /\ ~GensOver(r) /\ FailedGeneration(r)
  /\ Continue(r)
  /\ UNCHANGED resolved

\* The major path is complete: give the recovery paths back.
KeepMajor(r) ==
  /\ Decides(r)
  /\ Broken(r) = {}
  /\ \/ \E s \in Spare(r, MajorSegments(r)) : ContinueRelease(s) /\ UNCHANGED resolved
     \/ Spare(r, MajorSegments(r)) = {} /\ Continue(r) /\ Resolve(r)

GiveUp(r) ==
  /\ Decides(r)
  /\ Broken(r) # {}
  /\ Repairable(r) = {}
  /\ Decline(r)
  /\ r \notin active'
  /\ Resolve(r)

\* The repaired route is one live segment.
AcceptDirect(r) ==
  /\ Decides(r)
  /\ Broken(r) # {}
  /\ \E route \in Repairable(r) : Len(route) = 2 /\ Accept(r, Chosen(r, route)[1])
  /\ Resolve(r)

Reroute(r) ==
  /\ Decides(r)
  /\ Broken(r) # {}
  /\ \E route \in Repairable(r), ops \in Repairs[r] :
       /\ Len(route) > 2
       /\ LeftDeep(ops, route, Chosen(r, route))
       /\ Revise(r, ops) \/ ReviseInfeasible(r, ops)
  /\ Resolve(r)

\* The scheduler releases every elementary segment the suffix does not use,
\* then applies the revision.
RerouteRelease(r) ==
  /\ \E s \in Spare(r, Inputs(revision)) : ReviseRelease(s)
  /\ UNCHANGED resolved

RerouteApply(r) ==
  /\ Spare(r, Inputs(revision)) = {}
  /\ \E start \in 0 .. HorizonSlots : ApplyRevision(r, start)
  /\ UNCHANGED resolved

-----------------------------------------------------------------------------
(* QCASTOnlineController                                                   *)

Advancing == turn = "advance" /\ ~Reached

PolicyStep ==
  /\ Advancing
  /\ \E r \in Request : \/ NoResponse(r) \/ KeepWaiting(r) \/ KeepMajor(r) \/ GiveUp(r)
                        \/ AcceptDirect(r) \/ Reroute(r)
                        \/ RerouteRelease(r) \/ RerouteApply(r)
  /\ UNCHANGED <<ctrlVars, allocation>>

WorkStep ==
  /\ Advancing
  /\ Work
  /\ UNCHANGED <<ctrlVars, policyVars>>

\* A state that is not resolved may not be registered again.
Registrable(v) == allocation[v.request] = {} \/ v.request \in resolved

SubmitAllocation ==
  /\ SubmitChosen
  /\ \E v \in running' \ running :
       /\ Registrable(v)
       /\ allocation' = [allocation EXCEPT ![v.request] = v.ops]
       /\ resolved' = resolved \ {v.request}

\* Mutant: only the allocation of a served request is forgotten.
ForgetServed == {r \in Completed : IsRunning(r) /\ Reported(r)}

Forgotten == {r \in Request : IsRunning(r) /\ Reported(r)}

ProcessOutcomes ==
  /\ ProcessUpdate
  /\ allocation' = [r \in Request |-> IF r \in Forgotten THEN {} ELSE allocation[r]]
  /\ resolved' = resolved \ Forgotten

RecoveryNext ==
  \/ (Decide \/ BeginAdvance \/ Finalize) /\ UNCHANGED policyVars
  \/ SubmitAllocation
  \/ WorkStep
  \/ PolicyStep
  \/ ProcessOutcomes
  \/ Settled /\ UNCHANGED policyVars

RecoverySpec == RecoveryInit /\ [][RecoveryNext]_recoveryVars

-----------------------------------------------------------------------------
(* Properties                                                              *)

\* The policy's table names exactly the plans that are running when new ones
\* are chosen, so that register() never finds an allocation still active.
PolicyAgrees ==
  turn = "decide" =>
    /\ \A v \in running : allocation[v.request] = v.ops
    /\ \A r \in Request : allocation[r] # {} => IsRunning(r)

Deciding(r) == Fresh(r) /\ Decides(r)

\* Whenever a cover is found it can be carried out: the union of the paths
\* joins the end points, and the executor accepts the suffix of every route
\* the search may return, also beside the operations the request has already
\* run (_repaired_route_and_segments, _apply_revision, repair).
CoversApply ==
  \A r \in Request : Deciding(r) /\ Broken(r) # {} /\ Cover(r) # NoCover =>
    /\ Repairable(r) # {}
    /\ \A route \in Repairable(r) : Len(route) > 2 =>
         \E ops \in Repairs[r] : LeftDeep(ops, route, Chosen(r, route)) /\ RepairAdmits(r, ops, TRUE)

\* A major segment that counts as broken was never built or has expired: no
\* swap of the request has consumed it, so no healthy request is rerouted or
\* given up (broken_edges is "not in live_segments").
BrokenMeansLost ==
  \A r \in Request : Deciding(r) => \A i \in Broken(r) : Major[allocation[r]][i + 1] \notin Inputs(completed)

\* What makes PolicyAgrees inductive: the table names the running plans at
\* every step, not only at the decisions.
PolicySound ==
  /\ DOMAIN allocation = Request
  /\ \A v \in running : allocation[v.request] = v.ops
  /\ \A r \in Request : allocation[r] # {} => IsRunning(r)

=============================================================================
