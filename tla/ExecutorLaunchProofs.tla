------------------------- MODULE ExecutorLaunchProofs -------------------------
(***************************************************************************)
(* Proofs about ConstructionExecutor, continued: what is in flight was     *)
(* rightly launched.  Generations hold lanes of their own, protocols that  *)
(* disturb each other never meet, and the backend has a memory for every   *)
(* generation that was admitted on logical capacities alone.               *)
(* Whatever ready_operations offers, and any part of it, passes the three  *)
(* admission checks of launch and finds its generation lanes.              *)
(***************************************************************************)
EXTENDS ConstructionExecutorProofs

-----------------------------------------------------------------------------
(* Steps that launch nothing                                               *)

\* A step that keeps the operations in flight and their launch records, and
\* adds no segment, keeps everything but the freshness of the segments.
LEMMA LaunchesKept ==
  ASSUME LaunchSound, InFlight' = InFlight, segs' \subseteq segs,
         UNCHANGED <<lane, busyLanes, endsAt>>,
         Idle' => expired' = {} /\ \A s \in segs' : Alive(s, now)'
  PROVE  LaunchSound'
<1> USE DEF LaunchSound
<1>1. OutputsLive' /\ LanesReturned' /\ LanesExact' /\ ProtocolIsolation'
  BY DEF OutputsLive, LanesReturned, LanesExact, ProtocolIsolation
<1>2. NoPhysicalRejection'
  BY DEF NoPhysicalRejection, Idle, Alive
<1> QED BY <1>1, <1>2

\* Between calls, methods that remove segments leave no stale one behind.
LEMMA FreshnessKept ==
  ASSUME LaunchSound, Idle, segs' \subseteq segs, owned \subseteq owned', now' = now,
         \A s \in segs' : expiry'[s] = expiry[s]
  PROVE  \A s \in segs' : Alive(s, now)'
BY DEF LaunchSound, NoPhysicalRejection, Alive

\* Nothing has decohered between calls, so Refresh finds nothing to remove.
LEMMA NothingStale ==
  ASSUME RegistrySound, LaunchSound, Idle, Refresh(segs, expired, expiry, now)
  PROVE  segs' = segs /\ expired' = {} /\ expiry' = expiry
<1>1. {s \in segs : s \notin owned /\ expiry[s] <= now} = {}
  BY DEF RegistrySound, TypeOK, LaunchSound, NoPhysicalRejection, Alive
<1>2. expiry = [o \in Op |-> expiry[o]]
  BY DEF RegistrySound, TypeOK
<1> QED BY <1>1, <1>2 DEF Refresh, LaunchSound, NoPhysicalRejection

\* The catalogue methods and the releases.
LEMMA CatalogueLaunches ==
  ASSUME RegistrySound, LaunchSound,
         \/ \E r \in Request : \E ops \in Plans[r] : Register(r, ops)
         \/ \E r \in Request : Unregister(r)
         \/ \E r \in Request : \E ops \in Repairs[r], supersede \in BOOLEAN : Repair(r, ops, supersede)
         \/ GivesBack
         \/ Terminate
  PROVE  LaunchSound'
<1>1. /\ Idle /\ InFlight' = InFlight
      /\ UNCHANGED <<lane, busyLanes, endsAt, owned, now>>
  BY DEF Register, Unregister, Repair, RepairAdmits, GivesBack, Terminate,
         runVars, callVars, InFlight
<1>2. segs' \subseteq segs /\ expired' = {} /\ \A s \in segs' : expiry'[s] = expiry[s]
  <2>1. CASE \E r \in Request : \E ops \in Repairs[r], supersede \in BOOLEAN : Repair(r, ops, supersede)
    BY <1>1, <2>1, NothingStale DEF Repair
  <2>2. CASE UNCHANGED pairVars
    BY <1>1, <2>2 DEF pairVars, LaunchSound, NoPhysicalRejection
  <2>3. ASSUME NEW S, Discard(S) PROVE segs' \subseteq segs /\ expired' = {} /\ \A s \in segs' : expiry'[s] = expiry[s]
    BY <1>1, <2>3 DEF Discard, LaunchSound, NoPhysicalRejection, RegistrySound, TypeOK
  <2> QED BY <2>1, <2>2, <2>3 DEF Register, Unregister, GivesBack, Terminate
<1>3. \A s \in segs' : Alive(s, now)'
  BY <1>1, <1>2, FreshnessKept
<1> QED BY <1>1, <1>2, <1>3, LaunchesKept

\* What RefreshAndReport leaves is fresh, and nothing is left to report.
LEMMA RefreshReports ==
  ASSUME NEW t \in Nat, RefreshAndReport(t), owned' = owned, now' = t, expiry \in [Op -> Nat], segs \subseteq Op
  PROVE  segs' \subseteq segs /\ expired' = {} /\ \A s \in segs' : Alive(s, now)'
BY DEF RefreshAndReport, Alive

\* The loop of advance and the clock.
LEMMA ClockLaunches ==
  ASSUME RegistrySound, LaunchSound,
         \/ \E bound \in now .. Horizon : Advance(bound)
         \/ BeginTimeout
         \/ Settle
         \/ \E bound \in now .. Horizon : WaitUntil(bound)
         \/ UNCHANGED vars
  PROVE  LaunchSound'
<1> USE ExecutorAssumption DEF RegistrySound
<1>1. ASSUME NEW bound \in now .. Horizon, Advance(bound) PROVE LaunchSound'
  <2>1. InFlight' = InFlight
    BY <1>1, IdleInFlight DEF Advance, Due, runVars, InFlight
  <2> QED BY <1>1, <2>1, LaunchesKept DEF Advance, Idle, pairVars, runVars
<1>2. CASE BeginTimeout
  <2>1. InFlight' = InFlight
    BY <1>2 DEF BeginTimeout, InFlight
  <2> QED BY <1>2, <2>1, LaunchesKept DEF BeginTimeout, Idle, pairVars
<1>3. CASE Settle
  <2>1. InFlight' = InFlight /\ UNCHANGED <<lane, busyLanes, endsAt, owned, now>>
    BY <1>3 DEF Settle, runVars, InFlight
  <2>2. segs' \subseteq segs /\ expired' = {} /\ \A s \in segs' : Alive(s, now)'
    BY <1>3, <2>1, RefreshReports DEF Settle, TypeOK
  <2> QED BY <2>1, <2>2, LaunchesKept
<1>4. ASSUME NEW bound \in now .. Horizon, WaitUntil(bound) PROVE LaunchSound'
  <2>1. InFlight' = InFlight /\ UNCHANGED <<lane, busyLanes, endsAt, owned>>
    BY <1>4 DEF WaitUntil, runVars, callVars, InFlight
  <2>2. PICK t \in now .. Horizon : now' = t /\ RefreshAndReport(t)
    BY <1>4 DEF WaitUntil
  <2>3. t \in Nat
    BY <2>2 DEF TypeOK
  <2>4. segs' \subseteq segs /\ expired' = {} /\ \A s \in segs' : Alive(s, now)'
    BY <2>1, <2>2, <2>3, RefreshReports DEF TypeOK
  <2> QED BY <2>1, <2>4, LaunchesKept
<1>5. CASE UNCHANGED vars
  BY <1>5, LaunchesKept DEF vars, pairVars, runVars, callVars, InFlight, LaunchSound,
        NoPhysicalRejection, Idle, Alive
<1> QED BY <1>1, <1>2, <1>3, <1>4, <1>5

-----------------------------------------------------------------------------
(* Settling an operation                                                   *)

\* The lane of a settled generation is returned, and no other lane is.
LEMMA LaneReturned ==
  ASSUME RegistrySound, LaunchSound, NEW o \in Op, Retire(o), InFlight' = InFlight \ {o}
  PROVE  LanesReturned' /\ LanesExact'
<1> USE DEF RegistrySound, LaunchSound
<1>1. /\ lane' = [lane EXCEPT ![o] = MaxWidth]
      /\ busyLanes' = [e \in Edge |-> IF Ends[o] = e THEN busyLanes[e] \ {lane[o]} ELSE busyLanes[e]]
  BY DEF Retire
<1>2. lane'[o] = MaxWidth /\ \A a \in Op \ {o} : lane'[a] = lane[a]
  BY <1>1 DEF TypeOK
<1>3. LanesReturned'
  BY <1>2 DEF LanesReturned, Gens
<1>4. ASSUME NEW e \in Edge
      PROVE  /\ busyLanes'[e] = {lane'[a] : a \in OnEdge(Gens(InFlight'), e)}
             /\ \A a, b \in OnEdge(Gens(InFlight'), e) : a # b => lane'[a] # lane'[b]
  <2> DEFINE gens == OnEdge(Gens(InFlight), e)
  <2>1. OnEdge(Gens(InFlight'), e) = gens \ {o} /\ gens \subseteq Op
    BY DEF OnEdge, Gens, TypeOK, InFlight
  <2>2. busyLanes[e] = {lane[a] : a \in gens} /\ \A a, b \in gens : a # b => lane[a] # lane[b]
    BY DEF LanesExact
  <2>3. busyLanes'[e] = {lane[a] : a \in gens \ {o}}
    <3>1. CASE o \in gens
      BY <1>1, <2>2, <3>1 DEF OnEdge
    <3>2. CASE o \notin gens /\ Ends[o] = e
      <4>1. lane[o] = MaxWidth
        BY <3>2 DEF LanesReturned, OnEdge, Gens
      <4>2. MaxWidth \notin busyLanes[e]
        BY ParameterAssumption DEF TypeOK
      <4> QED BY <1>1, <2>2, <3>2, <4>1, <4>2
    <3>3. CASE o \notin gens /\ Ends[o] # e
      BY <1>1, <2>2, <3>3
    <3> QED BY <3>1, <3>2, <3>3
  <2> QED BY <1>2, <2>1, <2>2, <2>3
<1>5. LanesExact'
  BY <1>4 DEF LanesExact
<1> QED BY <1>3, <1>5

\* Every outcome of an operation.
LEMMA FinishLaunches ==
  ASSUME RegistrySound, LaunchSound, Finish
  PROVE  LaunchSound'
<1> USE DEF RegistrySound, LaunchSound
<1>1. PICK o \in Op : Release(o) \/ Fail(o) \/ \E life \in Lifetimes : Complete(o, life)
  BY DEF Finish
<1>2. Retire(o) /\ phase # "idle"
  BY <1>1 DEF Release, Fail, Complete, Retire, LoopShape
<1>3. InFlight' = InFlight \ {o}
  BY <1>2, RetireStep
<1>4. OutputsLive'
  <2>1. segs' \subseteq segs \/ (Kind[o] # "RELEASE" /\ segs' \subseteq segs \cup {o})
    BY <1>1 DEF Release, Fail, Complete, Refresh, Consumed
  <2> QED BY <2>1 DEF OutputsLive
<1>5. LanesReturned' /\ LanesExact'
  BY <1>2, <1>3, LaneReturned
<1>6. ProtocolIsolation'
  BY <1>3 DEF ProtocolIsolation, Physical
<1>7. NoPhysicalRejection'
  <2>1. phase' # "idle"
    BY <1>2 DEF Retire
  <2>2. \A a \in Op \ {o} : endsAt'[a] = endsAt[a]
    BY <1>2 DEF Retire, TypeOK
  <2>3. Gens(InFlight') \subseteq Gens(InFlight) \ {o} /\ InFlight \subseteq Op
    BY <1>3 DEF Gens, InFlight, TypeOK
  <2> QED BY <2>1, <2>2, <2>3 DEF NoPhysicalRejection, Idle, Gens
<1> QED BY <1>4, <1>5, <1>6, <1>7

-----------------------------------------------------------------------------
(* A launch: protocols apart                                               *)

\* Whatever the arbiter admits beside protocols that are apart stays apart.
LEMMA ArbiterSeparates ==
  ASSUME NEW ops \in SUBSET Op, NEW active \in SUBSET Op, ArbiterAdmits(ops, active),
         NEW a \in Physical(active \cup ops), NEW b \in Physical(active \cup ops), a # b,
         a \in ops \/ b \in ops
  PROVE  /\ Kind[a] # "PURIFY"
         /\ Kind[a] = "SWAP" => Nodes[a] \cap Nodes[b] = {}
         /\ Kind[a] = "SWAP" /\ Kind[b] = "GEN" => MixedConcurrency
         /\ Kind[a] = "SWAP" /\ Kind[b] = "SWAP" => ConcurrentSwaps
<1> DEFINE new  == Physical(ops)
           live == Physical(active)
<1>1. /\ a \in live \cup new /\ b \in live \cup new /\ a \in Op /\ b \in Op
      /\ a \in new \/ b \in new
      /\ new \subseteq Op /\ IsFiniteSet(new)
  <2>1. new \subseteq Op
    BY DEF Physical
  <2>2. IsFiniteSet(new)
    BY <2>1, FS_Subset, ParameterAssumption
  <2> QED BY <2>1, <2>2 DEF Physical
<1> HIDE DEF new, live
<1>2. /\ Purifies(new) = {} \/ (Cardinality(new) = 1 /\ live = {})
      /\ Purifies(live) = {}
      /\ MixedConcurrency \/ ~Mixed(live \cup new)
      /\ \/ ConcurrentSwaps
         \/ Swaps(new) = {}
         \/ Cardinality(Swaps(new)) = 1 /\ Swaps(live) = {}
      /\ SwapsApart(live \cup new)
      /\ KindsApart(live \cup new)
  BY <1>1 DEF ArbiterAdmits, new, live
<1>3. \A S \in SUBSET new : Cardinality(S) = 1 => \A x, y \in S : x = y
  <2> SUFFICES ASSUME NEW S \in SUBSET new, Cardinality(S) = 1 PROVE \A x, y \in S : x = y
    OBVIOUS
  <2>1. IsFiniteSet(S)
    BY <1>1, FS_Subset
  <2> QED BY <2>1, FS_Singleton
<1>4. Purifies(live \cup new) = {}
  BY <1>1, <1>2, <1>3 DEF Purifies
<1>5. \A x \in live \cup new : Kind[x] \in {"GEN", "SWAP"}
  BY <1>1, <1>4, OperationAssumption DEF Purifies, Physical, OperationKind, new, live
<1>6. Kind[a] = "SWAP" => Nodes[a] \cap Nodes[b] = {}
  BY <1>1, <1>2 DEF SwapsApart, KindsApart, Clash, Swaps
<1>7. Kind[a] = "SWAP" /\ Kind[b] = "GEN" => Mixed(live \cup new)
  BY <1>1, <1>5 DEF Mixed
<1>8. Kind[a] = "SWAP" /\ Kind[b] = "SWAP" => ConcurrentSwaps
  <2>1. Kind[a] = "SWAP" /\ Kind[b] = "SWAP" =>
          /\ a \in Swaps(new) \/ a \in Swaps(live)
          /\ b \in Swaps(new) \/ b \in Swaps(live)
          /\ a \in Swaps(new) \/ b \in Swaps(new)
    BY <1>1 DEF Swaps
  <2>2. Swaps(new) \in SUBSET new
    BY DEF Swaps
  <2> QED BY <1>2, <1>3, <2>1, <2>2
<1>9. Kind[a] # "PURIFY"
  BY <1>1, <1>5
<1> QED BY <1>2, <1>6, <1>7, <1>8, <1>9

-----------------------------------------------------------------------------
(* A launch: lanes                                                         *)

\* The generations of one launch claim different lanes of an edge: the lane of
\* the later one has more free lanes below it.
LEMMA ClaimsDistinct ==
  ASSUME NEW ops \in SUBSET Op, NEW claim \in LaneClaims(ops),
         NEW a \in Gens(ops), NEW b \in Gens(ops), a # b, Ends[a] = Ends[b]
  PROVE  claim[a] # claim[b]
<1> USE OperationAssumption
<1>1. \A x, y \in Gens(ops) : Rank[x] < Rank[y] /\ Ends[x] = Ends[y] => claim[x] # claim[y]
  <2> SUFFICES ASSUME NEW x \in Gens(ops), NEW y \in Gens(ops), Rank[x] < Rank[y], Ends[x] = Ends[y]
               PROVE  claim[x] # claim[y]
    OBVIOUS
  <2>1. x \in Op /\ y \in Op /\ Gens(ops) \subseteq Op
    BY DEF Gens
  <2>2. Before(x, ops) \subseteq Before(y, ops) /\ x \in Before(y, ops) /\ x \notin Before(x, ops)
    BY <2>1 DEF Before, OnEdge
  <2>3. Before(x, ops) \in SUBSET Before(y, ops) /\ IsFiniteSet(Before(y, ops))
    <3>1. Before(y, ops) \in SUBSET Op
      BY <2>1 DEF Before, OnEdge
    <3> QED BY <2>2, <3>1, FS_Subset, ParameterAssumption
  <2>4. Cardinality(Before(x, ops)) # Cardinality(Before(y, ops))
    BY <2>2, <2>3, FS_Subset
  <2> QED BY <2>4 DEF LaneClaims
<1>2. a \in Op /\ b \in Op /\ Rank[a] # Rank[b] /\ Rank[a] \in Nat /\ Rank[b] \in Nat
  BY DEF Gens
<1>3. Rank[a] < Rank[b] \/ Rank[b] < Rank[a]
  BY <1>2
<1> QED BY <1>1, <1>3

\* A launch takes free lanes only, one for each generation.
LEMMA LanesClaimed ==
  ASSUME RegistrySound, LaunchSound, NEW ops \in SUBSET Ready, Launch(ops),
         InFlight = pending, InFlight' = pending \cup ops
  PROVE  LanesReturned' /\ LanesExact'
<1> USE DEF RegistrySound, LaunchSound
<1>1. PICK claim \in LaneClaims(ops) :
        /\ lane' = [o \in Op |-> IF o \in Gens(ops) THEN claim[o] ELSE lane[o]]
        /\ busyLanes' = [e \in Edge |-> busyLanes[e] \cup {claim[o] : o \in OnEdge(Gens(ops), e)}]
  BY DEF Launch
<1>2. ops \subseteq Op /\ pending \subseteq Op /\ ops \cap pending = {}
  BY DEF Ready, Known, TypeOK
<1>3. /\ \A o \in Gens(ops) : lane'[o] = claim[o]
      /\ \A o \in Op \ Gens(ops) : lane'[o] = lane[o]
  BY <1>1, <1>2 DEF Gens
<1>4. Gens(InFlight') = Gens(pending) \cup Gens(ops) /\ Gens(pending) \cap Gens(ops) = {}
  BY <1>2 DEF Gens
<1>5. LanesReturned'
  BY <1>3, <1>4 DEF LanesReturned
<1>6. ASSUME NEW e \in Edge
      PROVE  /\ busyLanes'[e] = {lane'[a] : a \in OnEdge(Gens(InFlight'), e)}
             /\ \A a, b \in OnEdge(Gens(InFlight'), e) : a # b => lane'[a] # lane'[b]
  <2> DEFINE old == OnEdge(Gens(pending), e)
             new == OnEdge(Gens(ops), e)
  <2>1. /\ OnEdge(Gens(InFlight'), e) = old \cup new
        /\ old \subseteq Op \ Gens(ops) /\ new \subseteq Gens(ops)
        /\ \A a \in new : Ends[a] = e
    BY <1>2, <1>4 DEF OnEdge, Gens
  <2>2. busyLanes[e] = {lane[a] : a \in old} /\ \A a, b \in old : a # b => lane[a] # lane[b]
    BY DEF LanesExact
  <2>3. (\A a \in old : lane'[a] = lane[a]) /\ (\A a \in new : lane'[a] = claim[a])
    BY <1>3, <2>1
  <2>4. busyLanes'[e] = {lane'[a] : a \in old \cup new}
    <3>1. busyLanes'[e] = {lane[a] : a \in old} \cup {claim[a] : a \in new}
      BY <1>1, <2>2
    <3> QED BY <2>3, <3>1
  <2>5. \A a \in old, b \in new : lane[a] # claim[b]
    BY <2>1 DEF LaneClaims, FreeLanes
  <2>6. \A a, b \in new : a # b => claim[a] # claim[b]
    BY <1>2, <2>1, ClaimsDistinct
  <2>7. \A a, b \in old \cup new : a # b => lane'[a] # lane'[b]
    <3> HIDE DEF old, new
    <3> QED BY <2>2, <2>3, <2>5, <2>6
  <2> QED BY <2>1, <2>4, <2>7
<1>7. LanesExact'
  BY <1>6 DEF LanesExact
<1> QED BY <1>5, <1>7

-----------------------------------------------------------------------------
(* A launch: memories                                                      *)

\* Two disjoint sets and one more element, counted inside a third set.
LEMMA CountTwoAndOne ==
  ASSUME NEW C \in SUBSET Op, NEW A \in SUBSET C, NEW B \in SUBSET C, A \cap B = {},
         NEW o \in C \ (A \cup B)
  PROVE  /\ Cardinality(A) \in Nat /\ Cardinality(B) \in Nat /\ Cardinality(C) \in Nat
         /\ Cardinality(A) + Cardinality(B) + 1 <= Cardinality(C)
<1>1. IsFiniteSet(C)
  BY FS_Subset, ParameterAssumption
<1>2. IsFiniteSet(A) /\ IsFiniteSet(B)
  BY <1>1, FS_Subset
<1>3. Cardinality(A \cap B) = 0
  BY FS_EmptySet
<1>4. IsFiniteSet(A \cup B) /\ Cardinality(A \cup B) = Cardinality(A) + Cardinality(B) - Cardinality(A \cap B)
  BY <1>2, FS_Union
<1>5. Cardinality((A \cup B) \cup {o}) = Cardinality(A \cup B) + 1
  BY <1>4, FS_AddElement
<1>6. (A \cup B) \cup {o} \in SUBSET C
  OBVIOUS
<1>7. Cardinality((A \cup B) \cup {o}) <= Cardinality(C)
  BY <1>1, <1>6, FS_Subset
<1>8. /\ Cardinality(A) \in Nat /\ Cardinality(B) \in Nat /\ Cardinality(C) \in Nat
  BY <1>1, <1>2, FS_CardinalityType
<1> QED BY <1>3, <1>4, <1>5, <1>7, <1>8

\* A generation whose logical capacities suffice finds its memories, whichever
\* generations of the same launch were served before it: a pair the backend
\* counts holds the link and the memories of its ends, and a protocol that
\* still generates demands them.
LEMMA MemoryFound ==
  ASSUME RegistrySound, LaunchSound, Idle, NEW ops \in SUBSET Ready, LaunchAdmits(ops),
         NEW o \in Gens(ops), NEW taken \in SUBSET (Gens(ops) \ {o})
  PROVE  MemoryFree(o, taken)
<1> USE OperationAssumption, ParameterAssumption DEF RegistrySound, LaunchSound
<1> DEFINE flight == pending \cup ops
           H(r) == {s \in segs : r \in Hold[s]}
           D(r) == {a \in flight : r \in Demand[a]}
<1>1. /\ o \in Op /\ Kind[o] = "GEN" /\ Ends[o] \in Edge /\ Ends[o] \subseteq Node
      /\ ops \subseteq Op /\ pending \subseteq Op /\ ops \cap pending = {}
      /\ flight \in SUBSET Op /\ segs \in SUBSET Op
      /\ taken \subseteq Gens(ops) /\ Gens(ops) \subseteq ops /\ o \in ops
  BY ShapeAssumption DEF Gens, Ready, Known, TypeOK, WellShaped
<1>2. WithinCapacity(segs, flight)
  <2>1. {s \in segs : Alive(s, now)} = segs
    BY DEF NoPhysicalRejection
  <2> QED BY <2>1 DEF LaunchAdmits, SchedulerAdmits
<1>3. \A r \in Demand[o] : Usage(segs, flight, r) <= Capacity[r]
  <2>1. \A r \in Demand[o] : r \in UNION {Hold[x] \cup Demand[x] : x \in segs \cup flight}
    BY <1>1
  <2> HIDE DEF flight
  <2> QED BY <1>2, <2>1 DEF WithinCapacity
<1>4. Pairs = segs
  BY DEF RegistriesAgree
<1>5. \A a \in Gens(flight) : a \in Op /\ Demand[a] = {<<"link", Ends[a]>>, <<"genlane", Ends[a]>>} \cup Memories(a)
  BY <1>1 DEF Demand, Gens
<1>6. Cardinality(OnEdge(ElementaryPairs, Ends[o])) + Cardinality(OnEdge(taken, Ends[o])) < MemoryCapacity
  <2> DEFINE r == <<"link", Ends[o]>>
             A == OnEdge(taken, Ends[o])
             S == OnEdge(ElementaryPairs, Ends[o])
  <2>1. r \in Demand[o] /\ Capacity[r] = MemoryCapacity
    <3>1. r \in Resource
      BY <1>1 DEF Resource
    <3>2. o \in Gens(flight)
      BY <1>1 DEF Gens
    <3> QED BY <1>5, <3>1, <3>2 DEF Capacity
  <2>2. S \in SUBSET H(r)
    <3>1. \A s \in S : s \in segs /\ s \in Op /\ Kind[s] \in {"GEN", "PURIFY"} /\ Ends[s] = Ends[o]
      BY <1>1, <1>4 DEF OnEdge, ElementaryPairs, Gens, Purifies
    <3> QED BY <3>1 DEF Hold
  <2>3. A \in SUBSET D(r) /\ {} \in SUBSET D(r) /\ o \in D(r) \ (A \cup {})
    <3>1. \A a \in A : a \in Gens(flight) /\ Ends[a] = Ends[o]
      BY <1>1 DEF OnEdge, Gens
    <3> QED BY <1>1, <1>5, <2>1, <3>1 DEF OnEdge, Gens
  <2>4. D(r) \in SUBSET Op /\ H(r) \in SUBSET Op
    BY <1>1
  <2>5. IsFiniteSet(H(r))
    BY <2>4, FS_Subset
  <2>6. Cardinality(S) \in Nat /\ Cardinality(H(r)) \in Nat /\ Cardinality(S) <= Cardinality(H(r))
    <3>1. IsFiniteSet(S) /\ Cardinality(S) <= Cardinality(H(r))
      BY <2>2, <2>5, FS_Subset
    <3> QED BY <2>5, <3>1, FS_CardinalityType
  <2> HIDE DEF A, S
  <2>7. /\ Cardinality(A) \in Nat /\ Cardinality({}) \in Nat /\ Cardinality(D(r)) \in Nat
        /\ Cardinality(A) + Cardinality({}) + 1 <= Cardinality(D(r))
    BY <2>3, <2>4, CountTwoAndOne
  <2>8. Usage(segs, flight, r) = Cardinality(H(r)) + Cardinality(D(r))
    BY DEF Usage
  <2>9. Cardinality(H(r)) + Cardinality(D(r)) <= MemoryCapacity
    BY <1>3, <2>1, <2>8
  <2>10. Cardinality(S) + Cardinality(A) < MemoryCapacity
    <3> HIDE DEF H, D, r
    <3> QED BY <2>6, <2>7, <2>9
  <2> QED BY <2>10 DEF A, S
<1>7. ASSUME NEW n \in Ends[o]
      PROVE  Cardinality(AtNode(Pairs, n)) + Cardinality(AtNode({p \in Gens(pending) : endsAt[p] # 0}, n))
               + Cardinality(AtNode(taken, n)) < MemorySize[n]
  <2> DEFINE r == <<"memory", n>>
             S == AtNode(Pairs, n)
             A == AtNode({p \in Gens(pending) : endsAt[p] # 0}, n)
             B == AtNode(taken, n)
  <2>1. r \in Demand[o] /\ Capacity[r] = MemorySize[n]
    <3>1. r \in Resource
      BY <1>1 DEF Resource
    <3>2. o \in Gens(flight)
      BY <1>1 DEF Gens
    <3> QED BY <1>5, <3>1, <3>2 DEF Capacity, Memories
  <2>2. S \in SUBSET H(r)
    <3>1. \A s \in S : s \in segs /\ s \in Op /\ Kind[s] \in {"GEN", "PURIFY", "SWAP"} /\ n \in Ends[s]
      BY <1>1, <1>4 DEF AtNode, OutputsLive, OperationKind
    <3>2. \A s \in S : r \in Memories(s)
      BY <3>1 DEF Memories
    <3> QED BY <3>1, <3>2 DEF Hold
  <2>3. A \in SUBSET D(r) /\ B \in SUBSET D(r) /\ A \cap B = {} /\ o \in D(r) \ (A \cup B)
    <3>1. \A a \in A \cup B : a \in Gens(flight) /\ a \in flight /\ n \in Ends[a]
      BY <1>1 DEF AtNode, Gens
    <3>2. \A a \in A \cup B : r \in Memories(a)
      BY <3>1 DEF Memories
    <3>3. A \cap B = {} /\ o \notin A \cup B
      BY <1>1 DEF AtNode, Gens
    <3> QED BY <1>1, <1>5, <2>1, <3>1, <3>2, <3>3
  <2>4. D(r) \in SUBSET Op /\ H(r) \in SUBSET Op
    BY <1>1
  <2>5. IsFiniteSet(H(r))
    BY <2>4, FS_Subset
  <2>6. Cardinality(S) \in Nat /\ Cardinality(H(r)) \in Nat /\ Cardinality(S) <= Cardinality(H(r))
    <3>1. IsFiniteSet(S) /\ Cardinality(S) <= Cardinality(H(r))
      BY <2>2, <2>5, FS_Subset
    <3> QED BY <2>5, <3>1, FS_CardinalityType
  <2> HIDE DEF A, B, S
  <2>7. /\ Cardinality(A) \in Nat /\ Cardinality(B) \in Nat /\ Cardinality(D(r)) \in Nat
        /\ Cardinality(A) + Cardinality(B) + 1 <= Cardinality(D(r))
    BY <2>3, <2>4, CountTwoAndOne
  <2>8. Usage(segs, flight, r) = Cardinality(H(r)) + Cardinality(D(r))
    BY DEF Usage
  <2>9. Cardinality(H(r)) + Cardinality(D(r)) <= MemorySize[n]
    BY <1>3, <2>1, <2>8
  <2>10. MemorySize[n] \in Nat
    BY <1>1, <2>1, CapacityNatural DEF Resource
  <2>11. Cardinality(S) + Cardinality(A) + Cardinality(B) < MemorySize[n]
    <3> HIDE DEF H, D, r
    <3> QED BY <2>6, <2>7, <2>9, <2>10
  <2> QED BY <2>11 DEF A, B, S
<1> QED BY <1>6, <1>7 DEF MemoryFree

\* So the backend refuses none of them.
LEMMA AllAccepted ==
  ASSUME RegistrySound, LaunchSound, Idle, NEW ops \in SUBSET Ready, LaunchAdmits(ops)
  PROVE  PhysicallyAccepted(ops) = Gens(ops)
<1> DEFINE Prefix(A, o) == {a \in A : Rank[a] < Rank[o]}
<1>1. ASSUME NEW A \in SUBSET Gens(ops), NEW o \in Gens(ops) PROVE MemoryFree(o, Prefix(A, o))
  <2>1. Prefix(A, o) \in SUBSET (Gens(ops) \ {o})
    <3>1. Rank[o] \in Nat
      BY OperationAssumption DEF Gens, Ready, Known, RegistrySound, TypeOK
    <3> QED BY <3>1
  <2> HIDE DEF Prefix
  <2> QED BY <2>1, MemoryFound
<1>2. PhysicallyAccepted(ops) =
        CHOOSE A \in SUBSET Gens(ops) : \A o \in Gens(ops) : o \in A <=> MemoryFree(o, Prefix(A, o))
  BY DEF PhysicallyAccepted, Greedy
<1>3. \A A \in SUBSET Gens(ops) : (\A o \in Gens(ops) : o \in A <=> MemoryFree(o, Prefix(A, o))) <=> A = Gens(ops)
  <2> HIDE DEF Prefix
  <2> QED BY <1>1
<1> HIDE DEF Prefix
<1>4. \E A \in SUBSET Gens(ops) : \A o \in Gens(ops) : o \in A <=> MemoryFree(o, Prefix(A, o))
  BY <1>3
<1> QED BY <1>2, <1>3, <1>4

\* What a launch adds is apart from what was in flight, on lanes and memories
\* of its own, and no input it takes was about to be reported as expired.
LEMMA LaunchLaunches ==
  ASSUME RegistrySound, LaunchSound, NEW ops \in SUBSET Ready, Launch(ops)
  PROVE  LaunchSound'
<1> USE DEF RegistrySound, LaunchSound
<1>1. /\ Idle /\ LaunchAdmits(ops) /\ UNCHANGED <<now, phase, todo>>
      /\ pending' = pending \cup ops
      /\ owned \subseteq owned'
  BY DEF Launch, callVars
<1>2. InFlight = pending /\ InFlight' = pending \cup ops
  BY <1>1, IdleInFlight DEF InFlight
<1>3. ops \subseteq Op /\ pending \subseteq Op /\ ops \cap pending = {}
  BY DEF Ready, Known, TypeOK
<1>4. segs' = segs /\ expired' = {} /\ expiry' = expiry
  BY <1>1, NothingStale DEF Launch
<1>5. OutputsLive'
  BY <1>4 DEF OutputsLive
<1>6. LanesReturned' /\ LanesExact'
  BY <1>2, LanesClaimed
<1>7. ProtocolIsolation'
  <2> SUFFICES ASSUME NEW a \in Physical(pending \cup ops), NEW b \in Physical(pending \cup ops), a # b
               PROVE  /\ Kind[a] # "PURIFY"
                      /\ Kind[a] = "SWAP" => Nodes[a] \cap Nodes[b] = {}
                      /\ Kind[a] = "SWAP" /\ Kind[b] = "GEN" => MixedConcurrency
                      /\ Kind[a] = "SWAP" /\ Kind[b] = "SWAP" => ConcurrentSwaps
    BY <1>2 DEF ProtocolIsolation
  <2>1. CASE a \in ops \/ b \in ops
    <3>1. ArbiterAdmits(ops, pending) /\ ops \in SUBSET Op /\ pending \in SUBSET Op
      BY <1>1, <1>3 DEF LaunchAdmits
    <3> QED BY <2>1, <3>1, ArbiterSeparates
  <2>2. CASE a \notin ops /\ b \notin ops
    <3>1. a \in Physical(InFlight) /\ b \in Physical(InFlight)
      BY <1>2, <2>2 DEF Physical
    <3> QED BY <3>1 DEF ProtocolIsolation
  <2> QED BY <2>1, <2>2
<1>8. \A o \in Gens(pending \cup ops) : endsAt'[o] # 0
  <2>1. PhysicallyAccepted(ops) = Gens(ops)
    BY <1>1, AllAccepted
  <2> DEFINE running == (Swaps(ops) \cup Purifies(ops)) \cup Gens(ops)
  <2>2. PICK length \in [running -> 1 .. Window] :
          endsAt' = [o \in Op |-> IF o \in running THEN now + length[o] ELSE endsAt[o]]
    BY <2>1 DEF Launch
  <2>3. ASSUME NEW o \in Gens(ops) PROVE endsAt'[o] # 0
    <3>1. o \in running /\ o \in Op /\ length[o] \in 1 .. Window
      BY <1>3 DEF Gens
    <3> QED BY <2>2, <3>1, ExecutorAssumption DEF TypeOK
  <2>4. ASSUME NEW o \in Gens(pending) PROVE endsAt'[o] # 0
    <3>1. o \notin running /\ o \in Op /\ endsAt[o] # 0
      BY <1>2, <1>3 DEF Gens, Swaps, Purifies, NoPhysicalRejection
    <3> QED BY <2>2, <3>1
  <2> QED BY <2>3, <2>4 DEF Gens
<1>9. NoPhysicalRejection'
  <2>1. \A s \in segs' : Alive(s, now)'
    BY <1>1, <1>4, FreshnessKept
  <2> QED BY <1>2, <1>4, <1>8, <2>1 DEF NoPhysicalRejection
<1> QED BY <1>5, <1>6, <1>7, <1>9

-----------------------------------------------------------------------------
(* The theorems                                                            *)

LEMMA LaunchInit == Init => LaunchSound
<1> SUFFICES ASSUME Init PROVE LaunchSound
  OBVIOUS
<1>1. InFlight = {} /\ segs = {} /\ expired = {}
  BY DEF Init, InFlight
<1>2. OutputsLive /\ ProtocolIsolation /\ NoPhysicalRejection
  BY <1>1 DEF OutputsLive, ProtocolIsolation, NoPhysicalRejection, Physical, Gens
<1>3. LanesReturned /\ LanesExact
  BY <1>1 DEF Init, LanesReturned, LanesExact, OnEdge, Gens
<1> QED BY <1>2, <1>3 DEF LaunchSound

\* Every step of the executor preserves its whole inductive invariant.
LEMMA InductiveStep == Inductive /\ [Next]_vars => Inductive'
<1> SUFFICES ASSUME RegistrySound, LaunchSound, [Next]_vars PROVE RegistrySound' /\ LaunchSound'
  BY DEF Inductive
<1>1. RegistrySound'
  BY RegistryStep
<1>2. CASE \/ \E r \in Request : \E ops \in Plans[r] : Register(r, ops)
           \/ \E r \in Request : Unregister(r)
           \/ \E r \in Request : \E ops \in Repairs[r], supersede \in BOOLEAN : Repair(r, ops, supersede)
           \/ \E s \in Op : ReleaseSegment(s)
           \/ \E r \in Request : ReleaseRequest(r)
           \/ Terminate
  BY <1>1, <1>2, CatalogueLaunches, ReleaseGivesBack
<1>3. ASSUME NEW ops \in SUBSET Ready, Launch(ops) PROVE RegistrySound' /\ LaunchSound'
  BY <1>1, <1>3, LaunchLaunches
<1>4. CASE \/ \E bound \in now .. Horizon : Advance(bound)
           \/ BeginTimeout
           \/ Settle
           \/ \E bound \in now .. Horizon : WaitUntil(bound)
           \/ UNCHANGED vars
  BY <1>1, <1>4, ClockLaunches
<1>5. CASE Finish
  BY <1>1, <1>5, FinishLaunches
<1> QED BY <1>1, <1>2, <1>3, <1>4, <1>5 DEF Next

\* So does a caller that gives the segments of several requests back at once.
LEMMA InductiveGiven == Inductive /\ GivesBack => Inductive'
<1> SUFFICES ASSUME RegistrySound, LaunchSound, GivesBack PROVE RegistrySound' /\ LaunchSound'
  BY DEF Inductive
<1>1. TypeOK'
  BY DEF GivesBack, Discard, RegistrySound, TypeOK, dagVars, markVars, runVars, callVars
<1> QED BY <1>1, GiveBackStep, CatalogueLaunches

\* The executor keeps its inductive invariant for ever.
THEOREM InductiveInvariant == Spec => []Inductive
<1>1. Init => Inductive
  BY RegistryInit, LaunchInit DEF Inductive
<1> QED BY <1>1, InductiveStep, PTL DEF Spec

\* Generations in flight on an edge hold different lanes, and no lane is lost.
THEOREM LanesCorrect == Spec => []LanesExact
<1>1. Inductive => LanesExact
  BY DEF Inductive, LaunchSound
<1> QED BY <1>1, InductiveInvariant, PTL

\* Launches of different epochs are validated one after the other, yet no two
\* protocols that disturb each other are ever in flight together.
THEOREM ProtocolsApart == Spec => []ProtocolIsolation
<1>1. Inductive => ProtocolIsolation
  BY DEF Inductive, LaunchSound
<1> QED BY <1>1, InductiveInvariant, PTL

\* The backend never refuses a generation that the logical checks admitted, and
\* no segment a caller sees between two calls has decohered.
THEOREM BackendNeverRefuses == Spec => []NoPhysicalRejection
<1>1. Inductive => NoPhysicalRejection
  BY DEF Inductive, LaunchSound
<1> QED BY <1>1, InductiveInvariant, PTL

-----------------------------------------------------------------------------
(* The progress of a call                                                  *)

\* A launch gives each of its protocols an end within its window.
LEMMA WindowsStep ==
  ASSUME Inductive, WindowsHeld, [Next]_vars
  PROVE  WindowsHeld'
<1>1. /\ RegistrySound /\ TypeOK /\ now \in Nat /\ Window \in Nat /\ MarkersMatchExecution
      /\ LoopShape
  BY ExecutorAssumption DEF Inductive, RegistrySound, TypeOK
<1> DEFINE Goal == \A o \in Op : /\ o \notin Physical(InFlight') => endsAt'[o] = 0
                                 /\ o \in InFlight' => endsAt'[o] <= startedAt'[o] + Window
<1> SUFFICES Goal
  BY DEF WindowsHeld, InFlight, Physical
<1>2. \A o \in Op : /\ o \notin Physical(InFlight) => endsAt[o] = 0
                    /\ o \in InFlight => endsAt[o] <= startedAt[o] + Window
  BY DEF WindowsHeld
<1>3. CASE UNCHANGED <<startedAt, endsAt>> /\ InFlight' = InFlight
  BY <1>2, <1>3
<1>4. CASE \/ \E r \in Request : \E ops \in Plans[r] : Register(r, ops)
           \/ \E r \in Request : Unregister(r) \/ ReleaseRequest(r)
           \/ \E r \in Request : \E ops \in Repairs[r], supersede \in BOOLEAN : Repair(r, ops, supersede)
           \/ \E s \in Op : ReleaseSegment(s)
           \/ Terminate \/ UNCHANGED vars
  BY <1>3, <1>4 DEF Register, Unregister, Repair, ReleaseSegment, ReleaseRequest, Terminate,
                    InFlight, vars, runVars, callVars
<1>5. CASE (\E bound \in now .. Horizon : Advance(bound) \/ WaitUntil(bound)) \/ Settle \/ BeginTimeout
  <2>1. UNCHANGED <<startedAt, endsAt>>
    BY <1>5 DEF Advance, WaitUntil, Settle, BeginTimeout, runVars
  <2>2. InFlight' = InFlight
    BY <1>1, <1>5 DEF Advance, WaitUntil, Settle, BeginTimeout, InFlight, LoopShape, Due, Idle,
                      runVars, callVars
  <2> QED BY <1>3, <2>1, <2>2
<1>6. CASE Finish
  <2>1. PICK o \in Op : Retire(o)
    BY <1>6 DEF Finish, Release, Fail, Complete
  <2>2. /\ endsAt' = [endsAt EXCEPT ![o] = 0] /\ startedAt' = [startedAt EXCEPT ![o] = 0]
        /\ InFlight' = InFlight \ {o}
    BY <2>1 DEF Retire, InFlight
  <2> QED BY <1>1, <1>2, <2>2 DEF TypeOK, Physical
<1>7. ASSUME NEW ops \in SUBSET Ready, Launch(ops)
      PROVE  Goal
  <2>1. /\ ops \subseteq Op /\ ops \cap InFlight = {} /\ InFlight' = InFlight \cup ops
        /\ startedAt' = [o \in Op |-> IF o \in ops THEN now ELSE startedAt[o]]
    BY <1>1, <1>7 DEF Launch, Ready, InFlight, Known, TypeOK, MarkersMatchExecution, callVars
  <2>2. PhysicallyAccepted(ops) \subseteq Gens(ops)
    BY <1>1, <1>7, AllAccepted DEF Launch, Inductive
  <2>3. PICK running : /\ running \subseteq Physical(ops)
                       /\ \E length \in [running -> 1 .. Window] :
                            endsAt' = [o \in Op |-> IF o \in running THEN now + length[o] ELSE endsAt[o]]
    BY <1>7, <2>2 DEF Launch, Physical, Gens, Swaps, Purifies
  <2>4. PICK length \in [running -> 1 .. Window] :
          endsAt' = [o \in Op |-> IF o \in running THEN now + length[o] ELSE endsAt[o]]
    BY <2>3
  <2>5. ASSUME NEW o \in Op PROVE o \notin Physical(InFlight') => endsAt'[o] = 0
    BY <1>2, <2>1, <2>3, <2>4, <2>5 DEF Physical
  <2>6. ASSUME NEW o \in InFlight', o \in Op PROVE endsAt'[o] <= startedAt'[o] + Window
    <3>1. CASE o \in running
      <4>1. length[o] \in 1 .. Window /\ endsAt'[o] = now + length[o] /\ startedAt'[o] = now
        BY <2>1, <2>3, <2>4, <2>6, <3>1 DEF Physical
      <4> QED BY <1>1, <4>1
    <3>2. CASE o \in ops \ running
      <4>1. endsAt'[o] = 0 /\ startedAt'[o] = now
        BY <1>2, <2>1, <2>4, <2>6, <3>2 DEF Physical
      <4> QED BY <1>1, <4>1
    <3>3. CASE o \notin ops
      BY <1>2, <2>1, <2>3, <2>4, <2>6, <3>3 DEF Physical
    <3> QED BY <3>1, <3>2, <3>3
  <2> QED BY <2>5, <2>6
<1> HIDE DEF Goal
<1> QED BY <1>4, <1>5, <1>6, <1>7 DEF Next

\* A call of the executor makes progress: when the clock cannot move, an
\* operation is due.
LEMMA AdvanceProgress ==
  ASSUME TypeOK, WindowsHeld, LoopShape, NEW bound \in Nat, bound > now, bound <= Horizon, Advance(bound)
  PROVE  now' > now \/ todo' # {}
<1>1. PICK target \in now .. Horizon :
        \E t \in now .. Horizon : /\ IsLeast(target, Boundaries(bound))
                                  /\ t \in Stops(target)
                                  /\ now' = t
                                  /\ todo' = Due(t)
  BY DEF Advance
<1>2. /\ target \in Boundaries(bound) /\ now' \in now .. Horizon /\ now' \in Stops(target)
      /\ todo' = Due(now') /\ now \in Nat /\ Horizon \in Nat
  BY <1>1, ExecutorAssumption DEF IsLeast, TypeOK
<1>3. CASE now' # now
  BY <1>2, <1>3
<1>4. CASE now' = now /\ Due(now') # {}
  BY <1>2, <1>4
<1>5. CASE now' = now /\ target = now
  <2>1. Horizon > now
    BY <1>2
  <2>2. \A e \in NextExpiries : e > now
    BY DEF NextExpiries
  <2>3. PICK o \in pending : now = IF Nominal(o) > now THEN Nominal(o) ELSE now
    BY <1>2, <1>5, <2>1, <2>2 DEF Boundaries
  <2>4. /\ o \in Op /\ startedAt[o] \in Nat /\ endsAt[o] \in Nat
        /\ Duration[o] \in Nat /\ Window \in Nat /\ o \in InFlight
    BY OperationAssumption, ExecutorAssumption DEF TypeOK, InFlight
  <2>5. Nominal(o) \in Nat /\ Logical(o) \in Nat /\ Nominal(o) <= now
    BY <1>2, <2>3, <2>4 DEF Nominal, Logical
  <2>6. Logical(o) <= Nominal(o)
    BY <2>4 DEF Nominal, Logical
  <2>7. endsAt[o] <= Nominal(o)
    <3>1. CASE Kind[o] = "RELEASE"
      BY <2>4, <2>5, <3>1 DEF WindowsHeld, Physical
    <3>2. CASE Kind[o] # "RELEASE"
      BY <2>4, <3>2 DEF WindowsHeld, Nominal
    <3> QED BY <3>1, <3>2
  <2>8. o \in Due(now)
    BY <1>2, <2>4, <2>5, <2>6, <2>7 DEF Due
  <2> QED BY <1>2, <1>5, <2>8
<1> QED BY <1>2, <1>3, <1>4, <1>5 DEF Stops

\* The clock does not run past the time a call is given.
LEMMA CallWithin ==
  ASSUME now \in Nat, NEW bound \in Nat, Advance(bound) \/ WaitUntil(bound)
  PROVE  now' \in now .. bound
<1>1. PICK t \in now .. Horizon : t <= bound /\ now' = t
  <2>1. CASE Advance(bound)
    <3>1. PICK target \in now .. Horizon, t \in now .. Horizon :
            IsLeast(target, Boundaries(bound)) /\ t \in Stops(target) /\ now' = t
      BY <2>1 DEF Advance
    <3>2. target <= bound
      BY <3>1 DEF IsLeast, Boundaries
    <3> QED BY <3>1, <3>2, ExecutorAssumption DEF Stops
  <2>2. CASE WaitUntil(bound)
    BY <2>2 DEF WaitUntil, IsLeast
  <2> QED BY <2>1, <2>2
<1> QED BY <1>1, ExecutorAssumption

-----------------------------------------------------------------------------
(* What the packing returns                                                *)

\* A loop in canonical order accepts one subset, whatever it accepts: T holds
\* the pairs of an accepted prefix and an operation that may join it.
LEMMA GreedyExists ==
  ASSUME NEW S \in SUBSET Op, NEW T
  PROVE  \E A \in SUBSET S : \A o \in S : o \in A <=> <<{a \in A : Rank[a] < Rank[o]}, o>> \in T
<1> DEFINE Accepts(A, D) == \A o \in D : o \in A <=> <<{a \in A : Rank[a] < Rank[o]}, o>> \in T
           \* What remains when a prefix has been worked off.
           Rest == {U \in SUBSET S : /\ \A u \in U, o \in S \ U : Rank[o] < Rank[u]
                                     /\ \E A \in SUBSET (S \ U) : Accepts(A, S \ U)}
<1> USE OperationAssumption
<1>1. S \in Rest
  <2>1. {} \in SUBSET (S \ S) /\ Accepts({}, S \ S)
    OBVIOUS
  <2> QED BY <2>1
<1>2. IsWellFoundedOn(StrictSubsetOrdering(S), SUBSET S)
  <2>1. IsFiniteSet(S)
    BY ParameterAssumption, FS_Subset
  <2>2. FiniteSubsetsOf(S) = SUBSET S
    BY <2>1, FS_FiniteSubsetsOfFinite
  <2>3. IsWellFoundedOn(StrictSubsetOrdering(S), FiniteSubsetsOf(S))
    BY FS_StrictSubsetOrderingWellFounded
  <2> QED BY <2>2, <2>3
<1>3. PICK U \in Rest : \A V \in Rest : ~(<<V, U>> \in StrictSubsetOrdering(S))
  <2>1. Rest \subseteq SUBSET S /\ Rest # {}
    BY <1>1
  <2> HIDE DEF Rest
  <2> QED BY <1>2, <2>1, WFMin
<1>4. U \subseteq S /\ \A u \in U, o \in S \ U : Rank[o] < Rank[u]
  BY <1>3
<1>5. PICK A \in SUBSET (S \ U) : Accepts(A, S \ U)
  BY <1>3
<1>6. CASE U = {}
  BY <1>5, <1>6
<1>7. CASE U # {}
  <2>1. PICK least \in U : \A u \in U : ~(Rank[u] < Rank[least])
    <3> DEFINE Ranks == {Rank[u] : u \in U}
    <3>1. Ranks \subseteq Nat /\ Ranks # {}
      BY <1>4, <1>7
    <3> HIDE DEF Ranks
    <3>2. \E k \in Ranks : \A l \in Ranks : ~(<<l, k>> \in OpToRel(<, Nat))
      BY <3>1, NatLessThanWellFounded, WFMin
    <3>3. PICK k \in Ranks : \A l \in Ranks : ~(l < k)
      BY <3>1, <3>2 DEF OpToRel
    <3> QED BY <3>3 DEF Ranks
  <2>2. \A u \in U \ {least} : Rank[least] < Rank[u]
    BY <1>4, <2>1
  <2> DEFINE V == U \ {least}
             B == IF <<A, least>> \in T THEN A \cup {least} ELSE A
  <2>3. B \in SUBSET (S \ V) /\ \A v \in V, o \in S \ V : Rank[o] < Rank[v]
    BY <1>4, <1>5, <2>2
  <2>4. {a \in B : Rank[a] < Rank[least]} = A
    BY <1>4, <1>5
  <2>5. \A o \in S \ U : {a \in B : Rank[a] < Rank[o]} = {a \in A : Rank[a] < Rank[o]}
    BY <1>4, <1>5
  <2>6. Accepts(B, S \ V)
    <3>1. least \in B <=> <<{a \in B : Rank[a] < Rank[least]}, least>> \in T
      BY <1>5, <2>4
    <3>2. ASSUME NEW o \in S \ U
          PROVE  o \in B <=> <<{a \in B : Rank[a] < Rank[o]}, o>> \in T
      <4>1. o \in A <=> <<{a \in A : Rank[a] < Rank[o]}, o>> \in T
        BY <1>5
      <4>2. o \in B <=> o \in A
        OBVIOUS
      <4> HIDE DEF B
      <4> QED BY <2>5, <4>1, <4>2
    <3>3. S \ V = (S \ U) \cup {least}
      BY <1>4
    <3> HIDE DEF B, V
    <3> QED BY <3>1, <3>2, <3>3
  <2>7. V \in Rest
    BY <1>4, <2>3, <2>6
  <2>8. <<V, U>> \in StrictSubsetOrdering(S)
    BY <1>4 DEF StrictSubsetOrdering
  <2> QED BY <1>3, <2>7, <2>8
<1> QED BY <1>6, <1>7

\* The packing offers what is ready, each operation admitted on top of those
\* packed before it.
LEMMA PackShape ==
  ASSUME NEW S \in SUBSET Op, NEW active, NEW live
  PROVE  /\ Pack(S, active, live) \in SUBSET S
         /\ \A o \in Pack(S, active, live) :
              SchedulerAdmits({a \in Pack(S, active, live) : Rank[a] < Rank[o]} \cup {o}, active, live)
<1> DEFINE Ok(c, o) == SchedulerAdmits(c \cup {o}, active, live)
           T == {p \in (SUBSET S) \X S : Ok(p[1], p[2])}
           P == Pack(S, active, live)
<1>1. PICK A \in SUBSET S : \A o \in S : o \in A <=> <<{a \in A : Rank[a] < Rank[o]}, o>> \in T
  BY GreedyExists
<1>2. \A o \in S : o \in A <=> Ok({a \in A : Rank[a] < Rank[o]}, o)
  BY <1>1
<1>3. P = CHOOSE B \in SUBSET S : \A o \in S : o \in B <=> Ok({a \in B : Rank[a] < Rank[o]}, o)
  BY DEF Pack, Greedy
<1>4. P \in SUBSET S /\ \A o \in S : o \in P <=> Ok({a \in P : Rank[a] < Rank[o]}, o)
  <2> HIDE DEF P, Ok
  <2> QED BY <1>2, <1>3
<1> QED BY <1>4

\* What a caller is offered is ready, and among what the caller allows.
LEMMA ReadyAllowed ==
  ASSUME TypeOK, NEW allowed
  PROVE  ReadyOperations(allowed) \subseteq Ready \cap allowed
<1>1. Ready \subseteq Op
  BY DEF Ready, Known, TypeOK
<1>2. MixFilter(SwapFilter(Ready \cap allowed)) \subseteq Ready \cap allowed
  BY DEF MixFilter, SwapFilter, Gens
<1> QED BY <1>1, <1>2, PackShape DEF ReadyOperations

-----------------------------------------------------------------------------
(* Whatever is offered may be launched: the capacities                     *)

LEMMA GreatestNatural ==
  ASSUME NEW S \in SUBSET Nat, IsFiniteSet(S), S # {}
  PROVE  \E m \in S : \A a \in S : a <= m
<1> DEFINE Above(m) == {a \in S : a > m}
           Counts == {Cardinality(Above(m)) : m \in S}
<1>1. \A m \in S : IsFiniteSet(Above(m)) /\ Cardinality(Above(m)) \in Nat
  <2> SUFFICES ASSUME NEW m \in S PROVE IsFiniteSet(Above(m)) /\ Cardinality(Above(m)) \in Nat
    OBVIOUS
  <2>1. IsFiniteSet(Above(m))
    <3>1. Above(m) \in SUBSET S
      OBVIOUS
    <3> QED BY <3>1, FS_Subset
  <2> QED BY <2>1, FS_CardinalityType
<1>2. PICK k \in Counts : \A l \in Counts : ~(l < k)
  <2>1. Counts \subseteq Nat /\ Counts # {}
    BY <1>1
  <2> HIDE DEF Counts
  <2>2. \E k \in Counts : \A l \in Counts : ~(<<l, k>> \in OpToRel(<, Nat))
    BY <2>1, NatLessThanWellFounded, WFMin
  <2> QED BY <2>1, <2>2 DEF OpToRel
<1>3. PICK m \in S : k = Cardinality(Above(m))
  BY <1>2
<1>4. ASSUME NEW a \in S, a > m PROVE FALSE
  <2>1. Above(a) \in SUBSET Above(m) /\ a \in Above(m) /\ a \notin Above(a)
    <3>1. a \in Nat /\ m \in Nat /\ ~(a > a)
      BY <1>3, <1>4
    <3>2. \A x \in S : x > a => x > m
      BY <1>4, <3>1
    <3>3. \A x \in Above(a) : x \in Above(m)
      BY <3>2
    <3>4. a \in Above(m)
      BY <1>4
    <3>5. a \notin Above(a)
      BY <3>1
    <3> QED BY <3>3, <3>4, <3>5
  <2>2. Cardinality(Above(a)) < Cardinality(Above(m))
    <3>1. Above(a) # Above(m)
      BY <2>1
    <3>2. /\ Cardinality(Above(a)) <= Cardinality(Above(m))
          /\ Cardinality(Above(m)) = Cardinality(Above(a)) => Above(m) = Above(a)
      <4> HIDE DEF Above
      <4> QED BY <1>1, <2>1, FS_Subset
    <3> HIDE DEF Above
    <3> QED BY <1>1, <3>1, <3>2
  <2> QED BY <1>2, <1>3, <2>2
<1> QED BY <1>4

\* What an operation puts out is covered by what it demands or by its inputs,
\* so that settling everything in flight never takes more than is in use.
LEMMA CompletionWithin ==
  ASSUME NEW S \in SUBSET Op, NEW A \in SUBSET Op, NEW r, InputsUnique(A),
         \A o \in A : Hold[o] # {} => Ins[o] \subseteq S
  PROVE  CompletionUsage(S, A, r) <= Usage(S, A, r)
<1> DEFINE HS == {s \in S : r \in Hold[s]}
           HK == {s \in S \ Inputs(A) : r \in Hold[s]}
           HI == {s \in S \cap Inputs(A) : r \in Hold[s]}
           DA == {o \in A : r \in Demand[o]}
           HA == {o \in A : r \in Hold[o]}
           HN == {o \in A : r \in Hold[o] /\ r \notin Demand[o]}
<1>1. /\ IsFiniteSet(HS) /\ IsFiniteSet(HK) /\ IsFiniteSet(HI)
      /\ IsFiniteSet(DA) /\ IsFiniteSet(HA) /\ IsFiniteSet(HN)
  <2>1. /\ HS \in SUBSET Op /\ HK \in SUBSET Op /\ HI \in SUBSET Op
        /\ DA \in SUBSET Op /\ HA \in SUBSET Op /\ HN \in SUBSET Op
    OBVIOUS
  <2> HIDE DEF HS, HK, HI, DA, HA, HN
  <2> QED BY <2>1, FS_Subset, ParameterAssumption
<1>2. Cardinality(HS) = Cardinality(HK) + Cardinality(HI)
  <2>1. HS = HK \cup HI /\ HK \cap HI = {}
    OBVIOUS
  <2> HIDE DEF HS, HK, HI
  <2>2. Cardinality(HK \cap HI) = 0
    BY <2>1, FS_EmptySet
  <2>3. Cardinality(HK \cup HI) = Cardinality(HK) + Cardinality(HI) - Cardinality(HK \cap HI)
    BY <1>1, FS_Union
  <2>4. Cardinality(HK) \in Nat /\ Cardinality(HI) \in Nat
    BY <1>1, FS_CardinalityType
  <2> QED BY <2>1, <2>2, <2>3, <2>4
<1>3. Cardinality(HN) <= Cardinality(HI)
  <2>1. \A o \in HN : \E i \in Ins[o] : i \in HI
    BY HoldCovered DEF Inputs
  <2> DEFINE from == [o \in HN |-> CHOOSE i \in Ins[o] : i \in HI]
  <2>2. \A o \in HN : from[o] \in Ins[o] /\ from[o] \in HI
    BY <2>1
  <2>3. \A o, p \in HN : o # p => Ins[o] \cap Ins[p] = {}
    BY DEF InputsUnique
  <2>4. from \in Injection(HN, HI)
    <3>1. from \in [HN -> HI] /\ \A o, p \in HN : from[o] = from[p] => o = p
      <4> HIDE DEF HI, HN
      <4>1. from \in [HN -> HI]
        BY <2>2
      <4> HIDE DEF from
      <4> QED BY <2>2, <2>3, <4>1
    <3> HIDE DEF HI, HN, from
    <3> QED BY <3>1 DEF Injection, IsInjective
  <2> HIDE DEF HI, HN, from
  <2> QED BY <1>1, <2>4, FS_Injection
<1>4. Cardinality(HA) <= Cardinality(HN) + Cardinality(DA)
  <2>1. HA \in SUBSET (HN \cup DA)
    OBVIOUS
  <2> HIDE DEF HA, HN, DA
  <2>2. /\ IsFiniteSet(HN \cup DA)
        /\ Cardinality(HN \cup DA) = Cardinality(HN) + Cardinality(DA) - Cardinality(HN \cap DA)
    BY <1>1, FS_Union
  <2>3. Cardinality(HN \cap DA) \in Nat
    <3>1. IsFiniteSet(HN \cap DA)
      BY <1>1, FS_Intersection
    <3> QED BY <3>1, FS_CardinalityType
  <2>4. Cardinality(HA) <= Cardinality(HN \cup DA)
    BY <2>1, <2>2, FS_Subset
  <2> QED BY <1>1, <2>2, <2>3, <2>4, FS_CardinalityType
<1>5. CompletionUsage(S, A, r) = Cardinality(HK) + Cardinality(HA) /\ Usage(S, A, r) = Cardinality(HS) + Cardinality(DA)
  BY DEF CompletionUsage, Usage
<1> HIDE DEF HS, HK, HI, DA, HA, HN
<1> QED BY <1>1, <1>2, <1>3, <1>4, <1>5, FS_CardinalityType

\* The last operation packed was admitted beside all the others.
LEMMA PackAdmitted ==
  ASSUME NEW S \in SUBSET Op, NEW active, NEW live, Pack(S, active, live) # {}
  PROVE  SchedulerAdmits(Pack(S, active, live), active, live)
<1> DEFINE P == Pack(S, active, live)
           Ranks == {Rank[o] : o \in P}
<1>1. P \in SUBSET S /\ \A o \in P : SchedulerAdmits({a \in P : Rank[a] < Rank[o]} \cup {o}, active, live)
  BY PackShape
<1>2. P \in SUBSET Op /\ P # {}
  BY <1>1
<1> HIDE DEF P
<1>3. Ranks \in SUBSET Nat /\ Ranks # {} /\ IsFiniteSet(Ranks)
  <2>1. IsFiniteSet(P)
    BY <1>2, FS_Subset, ParameterAssumption
  <2>2. IsFiniteSet(Ranks)
    <3> DEFINE f == [o \in P |-> Rank[o]]
    <3>1. f \in Surjection(P, Ranks)
      BY DEF Surjection
    <3> HIDE DEF f, Ranks
    <3> QED BY <2>1, <3>1, FS_Surjection
  <2> QED BY <1>2, <2>2, OperationAssumption
<1>4. PICK m \in Ranks : \A a \in Ranks : a <= m
  <2> HIDE DEF Ranks
  <2> QED BY <1>3, GreatestNatural
<1>5. PICK o \in P : m = Rank[o]
  BY <1>4
<1>6. \A a \in P : a = o \/ Rank[a] < Rank[o]
  <2> SUFFICES ASSUME NEW a \in P, a # o PROVE Rank[a] < Rank[o]
    OBVIOUS
  <2>1. Rank[a] \in Nat /\ Rank[o] \in Nat /\ Rank[a] # Rank[o]
    BY <1>2, OperationAssumption
  <2>2. Rank[a] <= Rank[o]
    BY <1>4, <1>5
  <2> QED BY <2>1, <2>2
<1>7. {a \in P : Rank[a] < Rank[o]} \cup {o} = P
  <2>1. o \notin {a \in P : Rank[a] < Rank[o]}
    BY <1>2, OperationAssumption
  <2> QED BY <1>6, <2>1
<1> QED BY <1>1, <1>7 DEF P

LEMMA CompletionCounts ==
  ASSUME NEW S \in SUBSET Op, NEW A \in SUBSET Op, NEW r
  PROVE  /\ CompletionUsage(S, A, r) \in Nat
         /\ Cardinality({o \in A : r \in Hold[o]}) \in Nat
         /\ Cardinality({o \in A : r \in Hold[o]}) <= CompletionUsage(S, A, r)
<1> DEFINE HK == {s \in S \ Inputs(A) : r \in Hold[s]}
           HA == {o \in A : r \in Hold[o]}
<1>1. Cardinality(HK) \in Nat /\ Cardinality(HA) \in Nat
  <2>1. HK \in SUBSET Op /\ HA \in SUBSET Op
    OBVIOUS
  <2> HIDE DEF HK, HA
  <2> QED BY <2>1, FS_Subset, FS_CardinalityType, ParameterAssumption
<1>2. CompletionUsage(S, A, r) = Cardinality(HK) + Cardinality(HA)
  BY DEF CompletionUsage
<1> HIDE DEF HK, HA
<1>3. Cardinality(HA) <= CompletionUsage(S, A, r) /\ CompletionUsage(S, A, r) \in Nat
  BY <1>1, <1>2
<1> QED BY <1>1, <1>3 DEF HA

LEMMA OnePart ==
  ASSUME NEW S \in SUBSET Op, Cardinality(S) = 1, NEW A \in SUBSET S, A # {}
  PROVE  Cardinality(A) = 1
<1>1. IsFiniteSet(S)
  BY FS_Subset, ParameterAssumption
<1>2. PICK x : S = {x}
  BY <1>1, FS_Singleton
<1>3. A = S
  BY <1>2
<1> QED BY <1>3

LEMMA DemandNamesResources ==
  ASSUME NEW o \in Op
  PROVE  Demand[o] \subseteq Resource
<1>1. Memories(o) \subseteq Resource /\ Nodes[o] \subseteq Node /\ Middles[o] \subseteq Node
  BY OperationAssumption DEF Memories, Resource, Nodes, Middles
<1>2. \A n \in Node : <<"bsm", n>> \in Resource /\ <<"swapnode", n>> \in Resource
  BY DEF Resource
<1>3. ASSUME NEW e \in Edge
      PROVE  <<"link", e>> \in Resource /\ <<"genlane", e>> \in Resource /\ <<"purify", e>> \in Resource
  BY DEF Resource
<1>4. Kind[o] \in {"GEN", "PURIFY"} => Ends[o] \in Edge
  BY ShapeAssumption DEF WellShaped
<1> SUFFICES ASSUME NEW r \in Demand[o] PROVE r \in Resource
  OBVIOUS
<1>5. CASE Kind[o] = "GEN"
  BY <1>1, <1>3, <1>4, <1>5 DEF Demand
<1>6. CASE Kind[o] = "PURIFY"
  BY <1>3, <1>4, <1>6 DEF Demand
<1>7. CASE Kind[o] = "SWAP"
  <2>1. (\E n \in Middles[o] : r = <<"bsm", n>>) \/ (\E n \in Nodes[o] : r = <<"swapnode", n>>)
    BY <1>7 DEF Demand
  <2>2. CASE \E n \in Middles[o] : r = <<"bsm", n>>
    BY <1>1, <1>2, <2>2
  <2>3. CASE \E n \in Nodes[o] : r = <<"swapnode", n>>
    BY <1>1, <1>2, <2>3
  <2> QED BY <2>1, <2>2, <2>3
<1>8. CASE Kind[o] = "RELEASE"
  BY <1>8 DEF Demand
<1> QED BY <1>5, <1>6, <1>7, <1>8, OperationAssumption DEF OperationKind

\* In flight, every operation with an output has its inputs among the live
\* segments.
LEMMA OutputsCovered ==
  ASSUME RegistrySound, NEW ops \in SUBSET Ready
  PROVE  \A o \in InFlight \cup ops : Hold[o] # {} => Ins[o] \subseteq segs
<1> SUFFICES ASSUME NEW o \in InFlight, Hold[o] # {} PROVE Ins[o] \subseteq segs
  BY DEF Ready, Available
<1>1. o \in Op /\ Kind[o] \in OperationKind
  BY OperationAssumption DEF RegistrySound, TypeOK, InFlight
<1>2. CASE Kind[o] = "GEN"
  BY <1>1, <1>2, ShapeAssumption DEF WellShaped
<1>3. CASE Kind[o] \in {"SWAP", "PURIFY"}
  <2>1. o \in Joining
    BY <1>3 DEF Joining, Swaps, Purifies
  <2> QED BY <2>1 DEF RegistrySound, SegmentProvenance, Inputs
<1>4. CASE Kind[o] = "RELEASE"
  BY <1>1, <1>4 DEF Hold
<1> QED BY <1>1, <1>2, <1>3, <1>4 DEF OperationKind

\* The inputs of what is in flight and of what is launched beside it.
LEMMA InputsStayUnique ==
  ASSUME InputsExclusive, NEW ops, InputsUnique(ops), Inputs(ops) \cap Inputs(InFlight) = {}
  PROVE  InputsUnique(InFlight \cup ops)
<1> SUFFICES ASSUME NEW a \in InFlight \cup ops, NEW b \in InFlight \cup ops, a # b
             PROVE  Ins[a] \cap Ins[b] = {}
  BY DEF InputsUnique
<1>1. CASE a \in InFlight /\ b \in InFlight
  BY <1>1 DEF InputsExclusive
<1>2. CASE a \in ops /\ b \in ops
  BY <1>2 DEF InputsUnique
<1>3. CASE a \in InFlight /\ b \in ops
  BY <1>3 DEF Inputs
<1>4. CASE a \in ops /\ b \in InFlight
  BY <1>4 DEF Inputs
<1> QED BY <1>1, <1>2, <1>3, <1>4

\* A non-empty part of an admitted set is admitted: the conditions of the
\* concurrency scheduler are on pairs, and what is left out frees capacity.
LEMMA PartAdmitted ==
  ASSUME RegistrySound, Idle, NEW offer \in SUBSET Ready, SchedulerAdmits(offer, pending, segs),
         NEW ops \in SUBSET offer, ops # {}
  PROVE  SchedulerAdmits(ops, pending, segs)
<1> USE DEF RegistrySound
<1>1. offer \in SUBSET Op /\ ops \in SUBSET Op /\ pending \in SUBSET Op /\ segs \in SUBSET Op /\ InFlight = pending
  BY IdleInFlight DEF Ready, Known, TypeOK
<1>2. \/ Purifies(ops) = {}
      \/ Cardinality(Physical(ops)) = 1 /\ Physical(pending) = {}
  <2> SUFFICES ASSUME Purifies(ops) # {} PROVE Cardinality(Physical(ops)) = 1 /\ Physical(pending) = {}
    OBVIOUS
  <2>1. Purifies(offer) # {}
    BY DEF Purifies
  <2>2. Cardinality(Physical(offer)) = 1 /\ Physical(pending) = {}
    BY <2>1 DEF SchedulerAdmits
  <2>3. Physical(ops) \in SUBSET Physical(offer) /\ Physical(ops) # {} /\ Physical(offer) \in SUBSET Op
    BY <1>1 DEF Physical, Purifies
  <2>4. Cardinality(Physical(ops)) = 1
    BY <2>2, <2>3, OnePart
  <2> QED BY <2>2, <2>4
<1>3. \/ ConcurrentSwaps
      \/ Swaps(ops) = {}
      \/ Cardinality(Swaps(ops)) = 1 /\ Swaps(pending) = {}
  <2> SUFFICES ASSUME ~ConcurrentSwaps, Swaps(ops) # {}
               PROVE  Cardinality(Swaps(ops)) = 1 /\ Swaps(pending) = {}
    OBVIOUS
  <2>1. Swaps(ops) \in SUBSET Swaps(offer) /\ Swaps(offer) \in SUBSET Op
    BY <1>1 DEF Swaps
  <2>2. Cardinality(Swaps(offer)) = 1 /\ Swaps(pending) = {}
    BY <2>1 DEF SchedulerAdmits
  <2>3. Cardinality(Swaps(ops)) = 1
    BY <2>1, <2>2, OnePart
  <2> QED BY <2>2, <2>3
<1>4. \A a \in ops, b \in ops \cup pending : GenVersusSwap(a, b) => MixedConcurrency /\ ~Clash(a, b)
  BY DEF SchedulerAdmits
<1>5. SwapsApart(ops) /\ InputsUnique(ops) /\ Inputs(ops) \cap Inputs(pending) = {}
  BY DEF SchedulerAdmits, SwapsApart, Swaps, InputsUnique, Inputs
<1>6. WithinCapacity(segs, pending \cup ops)
  <2> SUFFICES ASSUME NEW r \in UNION {Hold[x] \cup Demand[x] : x \in segs \cup (pending \cup ops)}
               PROVE  /\ Usage(segs, pending \cup ops, r) <= Capacity[r]
                      /\ CompletionUsage(segs, pending \cup ops, r) <= Capacity[r]
    BY DEF WithinCapacity
  <2>1. Usage(segs, pending \cup offer, r) <= Capacity[r]
    BY DEF SchedulerAdmits, WithinCapacity
  <2>2. /\ Usage(segs, pending \cup ops, r) \in Nat /\ Usage(segs, pending \cup offer, r) \in Nat
        /\ Usage(segs, pending \cup ops, r) <= Usage(segs, pending \cup offer, r)
    BY <1>1, UsageMonotone
  <2>3. CompletionUsage(segs, pending \cup ops, r) <= Usage(segs, pending \cup ops, r)
    <3>1. InputsUnique(pending \cup ops)
      BY <1>1, <1>5, InputsStayUnique
    <3>2. \A o \in pending \cup ops : Hold[o] # {} => Ins[o] \subseteq segs
      BY <1>1, OutputsCovered
    <3> QED BY <1>1, <3>1, <3>2, CompletionWithin
  <2>4. CompletionUsage(segs, pending \cup ops, r) \in Nat
    BY <1>1, CompletionCounts
  <2>5. Capacity[r] \in Nat
    <3>1. r \in Resource
      BY <1>1, DemandNamesResources, HoldNamesResources
    <3> QED BY <3>1, CapacityNatural
  <2> QED BY <2>1, <2>2, <2>3, <2>4, <2>5
<1>7. /\ pending = {} \/ InterEpochLaunch
      /\ Purifies(pending) = {} \/ Physical(ops) = {}
  BY DEF SchedulerAdmits, Physical
<1> QED BY <1>2, <1>3, <1>4, <1>5, <1>6, <1>7 DEF SchedulerAdmits

-----------------------------------------------------------------------------
(* Whatever is offered may be launched: the three checks                   *)

\* A node serves one swap at a time, so two swaps that fit together are apart.
LEMMA SwapsNeedNodes ==
  ASSUME NEW S \in SUBSET Op, NEW A \in SUBSET Op, WithinCapacity(S, A),
         NEW a \in Swaps(A), NEW b \in Swaps(A), a # b
  PROVE  ~Clash(a, b)
<1> SUFFICES ASSUME NEW n \in Nodes[a] \cap Nodes[b] PROVE FALSE
  BY DEF Clash
<1> DEFINE r == <<"swapnode", n>>
           D == {o \in A : r \in Demand[o]}
           H == {s \in S : r \in Hold[s]}
<1>1. a \in A /\ b \in A /\ r \in Demand[a] /\ r \in Demand[b]
  BY DEF Swaps, Demand
<1>2. r \in Resource /\ Capacity[r] = 1
  <2>1. r \in Resource
    BY <1>1, DemandNamesResources
  <2> QED BY <2>1 DEF Capacity
<1>3. Usage(S, A, r) <= 1
  <2>1. r \in UNION {Hold[x] \cup Demand[x] : x \in S \cup A}
    BY <1>1
  <2> HIDE DEF r
  <2> QED BY <1>2, <2>1 DEF WithinCapacity
<1>4. a \in D /\ b \in D /\ D \in SUBSET Op /\ H \in SUBSET Op
  BY <1>1
<1>5. Usage(S, A, r) = Cardinality(H) + Cardinality(D)
  BY DEF Usage
<1> HIDE DEF r, D, H
<1>6. {a, b} \in SUBSET D /\ Cardinality({a, b}) = 2 /\ IsFiniteSet(D) /\ IsFiniteSet(H)
  <2>1. IsFiniteSet({a}) /\ Cardinality({a}) = 1
    BY FS_Singleton
  <2>2. b \notin {a} /\ {a} \cup {b} = {a, b}
    OBVIOUS
  <2>3. Cardinality({a} \cup {b}) = Cardinality({a}) + 1
    BY <2>1, <2>2, FS_AddElement
  <2>4. Cardinality({a, b}) = 2
    BY <2>1, <2>2, <2>3
  <2> QED BY <1>4, <2>4, FS_Subset, ParameterAssumption
<1>7. 2 <= Cardinality(D) /\ Cardinality(D) \in Nat /\ Cardinality(H) \in Nat
  BY <1>6, FS_Subset, FS_CardinalityType
<1> QED BY <1>3, <1>5, <1>7

\* What the scheduler admits the arbiter does not veto.
LEMMA ArbiterAgrees ==
  ASSUME RegistrySound, LaunchSound, Idle, NEW ops \in SUBSET Ready,
         SchedulerAdmits(ops, pending, segs)
  PROVE  ArbiterAdmits(ops, pending)
<1> USE DEF RegistrySound, LaunchSound
<1> DEFINE new  == Physical(ops)
           live == Physical(pending)
<1> SUFFICES ASSUME new # {} PROVE ArbiterAdmits(ops, pending)
  BY DEF ArbiterAdmits
<1>1. ops \in SUBSET Op /\ pending \in SUBSET Op /\ segs \in SUBSET Op /\ InFlight = pending /\ ops \cap pending = {}
  BY IdleInFlight DEF Ready, Known, TypeOK
<1>2. /\ new \in SUBSET ops /\ live \in SUBSET pending /\ new \cap live = {}
      /\ Swaps(new) = Swaps(ops) /\ Purifies(new) = Purifies(ops)
      /\ Swaps(live) = Swaps(pending) /\ Purifies(live) = Purifies(pending)
  BY <1>1 DEF Physical, Swaps, Purifies
<1>3. InputsUnique(new) /\ Inputs(new) \cap Inputs(live) = {}
  BY <1>2 DEF SchedulerAdmits, InputsUnique, Inputs
<1>4. /\ live = {} \/ InterEpochLaunch
      /\ Purifies(new) = {} \/ (Cardinality(new) = 1 /\ live = {})
      /\ Purifies(live) = {}
  BY <1>2 DEF SchedulerAdmits
<1>5. \/ ConcurrentSwaps
      \/ Swaps(new) = {}
      \/ Cardinality(Swaps(new)) = 1 /\ Swaps(live) = {}
  BY <1>2 DEF SchedulerAdmits
<1>6. ASSUME NEW a \in live \cup new, NEW b \in live \cup new, GenVersusSwap(a, b)
      PROVE  MixedConcurrency /\ ~Clash(a, b)
  <2>1. GenVersusSwap(b, a) /\ (Clash(a, b) <=> Clash(b, a)) /\ a # b
    BY <1>6 DEF GenVersusSwap, Clash
  <2>2. CASE a \in live /\ b \in live
    <3>1. a \in Physical(InFlight) /\ b \in Physical(InFlight)
      BY <1>1, <2>2
    <3>2. (Kind[a] = "GEN" /\ Kind[b] = "SWAP") \/ (Kind[a] = "SWAP" /\ Kind[b] = "GEN")
      BY <1>6 DEF GenVersusSwap
    <3> QED BY <2>1, <3>1, <3>2 DEF ProtocolIsolation, Clash
  <2>3. CASE a \in new
    BY <1>2, <1>6, <2>3 DEF SchedulerAdmits
  <2>4. CASE b \in new
    BY <1>2, <2>1, <2>4 DEF SchedulerAdmits
  <2> QED BY <2>2, <2>3, <2>4
<1>7. MixedConcurrency \/ (~Mixed(new) /\ ~Mixed(live \cup new))
  <2> SUFFICES ASSUME NEW S \in {new, live \cup new}, Mixed(S) PROVE MixedConcurrency
    OBVIOUS
  <2>1. PICK a, b \in S : Kind[a] = "GEN" /\ Kind[b] = "SWAP"
    BY DEF Mixed
  <2> QED BY <1>6, <2>1 DEF GenVersusSwap
<1>8. SwapsApart(live \cup new)
  <2> SUFFICES ASSUME NEW a \in Swaps(live \cup new), NEW b \in Swaps(live \cup new), a # b
               PROVE  ~Clash(a, b)
    BY DEF SwapsApart
  <2>1. WithinCapacity(segs, pending \cup ops) /\ pending \cup ops \in SUBSET Op
    BY <1>1 DEF SchedulerAdmits
  <2>2. a \in Swaps(pending \cup ops) /\ b \in Swaps(pending \cup ops)
    BY <1>2 DEF Swaps
  <2> QED BY <1>1, <2>1, <2>2, SwapsNeedNodes
<1>9. KindsApart(live \cup new)
  <2> SUFFICES ASSUME NEW a \in live \cup new, NEW b \in live \cup new, Kind[a] # Kind[b]
               PROVE  ~Clash(a, b)
    BY DEF KindsApart
  <2>1. a \in Op /\ b \in Op /\ Kind[a] # "RELEASE" /\ Kind[b] # "RELEASE"
    BY <1>1 DEF Physical
  <2>2. CASE Purifies(new) = {}
    <3>1. Kind[a] # "PURIFY" /\ Kind[b] # "PURIFY"
      BY <1>4, <2>2 DEF Purifies
    <3>2. Kind[a] \in OperationKind /\ Kind[b] \in OperationKind
      BY <2>1, OperationAssumption
    <3>3. GenVersusSwap(a, b)
      BY <2>1, <3>1, <3>2 DEF OperationKind, GenVersusSwap
    <3> QED BY <1>6, <3>3
  <2>3. CASE Cardinality(new) = 1 /\ live = {}
    <3>1. IsFiniteSet(new)
      BY <1>1, <1>2, FS_Subset, ParameterAssumption
    <3>2. PICK x : new = {x}
      BY <2>3, <3>1, FS_Singleton
    <3> QED BY <2>3, <3>2
  <2> QED BY <1>4, <2>2, <2>3
<1> QED BY <1>2, <1>3, <1>4, <1>5, <1>7, <1>8, <1>9 DEF ArbiterAdmits

\* Nor does the capacity oracle, and every output finds room by itself.
LEMMA OracleAgrees ==
  ASSUME NEW S \in SUBSET Op, NEW A \in SUBSET Op, NEW ops \in SUBSET A,
         InputsUnique(ops), WithinCapacity(S, A)
  PROVE  OracleAdmits(ops) /\ \A o \in ops : HoldFits(o)
<1>1. ASSUME NEW o \in ops, NEW r \in Hold[o] \cup Demand[o]
      PROVE  /\ Cardinality({p \in ops : r \in Demand[p]}) <= Capacity[r]
             /\ Cardinality({p \in ops : r \in Hold[p]}) <= Capacity[r]
             /\ Cardinality({p \in ops : r \in Hold[p]}) \in Nat /\ Capacity[r] \in Nat
  <2>1. Capacity[r] \in Nat
    BY HoldNamesResources, DemandNamesResources, CapacityNatural
  <2>2. Usage(S, A, r) <= Capacity[r] /\ CompletionUsage(S, A, r) <= Capacity[r]
    <3>1. r \in UNION {Hold[x] \cup Demand[x] : x \in S \cup A}
      OBVIOUS
    <3> QED BY <3>1 DEF WithinCapacity
  <2>3. /\ Usage({}, ops, r) = Cardinality({p \in ops : r \in Demand[p]})
        /\ Usage({}, ops, r) \in Nat /\ Usage(S, A, r) \in Nat /\ Usage({}, ops, r) <= Usage(S, A, r)
    <3>1. {s \in {} : r \in Hold[s]} = {}
      OBVIOUS
    <3>2. Cardinality({s \in {} : r \in Hold[s]}) = 0
      BY <3>1, FS_EmptySet
    <3>3. Usage({}, ops, r) = Cardinality({s \in {} : r \in Hold[s]}) + Cardinality({p \in ops : r \in Demand[p]})
      BY DEF Usage
    <3>4. Usage({}, ops, r) \in Nat /\ Usage(S, A, r) \in Nat /\ Usage({}, ops, r) <= Usage(S, A, r)
      BY UsageMonotone
    <3>5. Cardinality({p \in ops : r \in Demand[p]}) \in Nat
      <4>1. {p \in ops : r \in Demand[p]} \in SUBSET Op
        OBVIOUS
      <4> QED BY <4>1, FS_Subset, FS_CardinalityType, ParameterAssumption
    <3> QED BY <3>2, <3>3, <3>4, <3>5
  <2>4. /\ Cardinality({p \in ops : r \in Hold[p]}) \in Nat
        /\ Cardinality({p \in A : r \in Hold[p]}) \in Nat
        /\ Cardinality({p \in ops : r \in Hold[p]}) <= Cardinality({p \in A : r \in Hold[p]})
    <3> DEFINE part == {p \in ops : r \in Hold[p]}
               all  == {p \in A : r \in Hold[p]}
    <3>1. all \in SUBSET Op /\ part \in SUBSET all
      OBVIOUS
    <3> HIDE DEF part, all
    <3>2. IsFiniteSet(all)
      BY <3>1, FS_Subset, ParameterAssumption
    <3>3. /\ Cardinality(part) \in Nat /\ Cardinality(all) \in Nat
          /\ Cardinality(part) <= Cardinality(all)
      BY <3>1, <3>2, FS_Subset, FS_CardinalityType
    <3> QED BY <3>3 DEF part, all
  <2>5. Cardinality({p \in A : r \in Hold[p]}) <= CompletionUsage(S, A, r) /\ CompletionUsage(S, A, r) \in Nat
    BY CompletionCounts
  <2> HIDE DEF Usage
  <2> QED BY <2>1, <2>2, <2>3, <2>4, <2>5
<1>2. OracleAdmits(ops)
  BY <1>1 DEF OracleAdmits
<1>3. ASSUME NEW o \in ops, NEW r \in Hold[o] PROVE Capacity[r] >= 1
  <2> DEFINE holders == {p \in ops : r \in Hold[p]}
  <2>1. o \in holders /\ holders \in SUBSET Op
    OBVIOUS
  <2>2. Cardinality(holders) <= Capacity[r] /\ Cardinality(holders) \in Nat /\ Capacity[r] \in Nat
    BY <1>1
  <2> HIDE DEF holders
  <2>3. Cardinality(holders) # 0
    <3>1. IsFiniteSet(holders)
      BY <2>1, FS_Subset, ParameterAssumption
    <3> QED BY <2>1, <3>1, FS_EmptySet
  <2> QED BY <2>2, <2>3
<1> QED BY <1>2, <1>3 DEF HoldFits

-----------------------------------------------------------------------------
(* Whatever is offered may be launched: the generation lanes               *)

\* Among finitely many numbers, every count below their number is that of the
\* numbers smaller than one of them.
LEMMA PlaceInOrder ==
  ASSUME NEW F \in SUBSET Nat, IsFiniteSet(F), NEW k \in Nat, k < Cardinality(F)
  PROVE  \E l \in F : Cardinality({x \in F : x < l}) = k
<1> DEFINE Below(l) == {x \in F : x < l}
           Far == {l \in F : Cardinality(Below(l)) >= k}
<1>1. \A l \in F : Below(l) \in SUBSET F /\ IsFiniteSet(Below(l)) /\ Cardinality(Below(l)) \in Nat
  <2> SUFFICES ASSUME NEW l \in F
               PROVE  Below(l) \in SUBSET F /\ IsFiniteSet(Below(l)) /\ Cardinality(Below(l)) \in Nat
    OBVIOUS
  <2>1. Below(l) \in SUBSET F
    OBVIOUS
  <2> HIDE DEF Below
  <2> QED BY <2>1, FS_Subset, FS_CardinalityType
<1>2. ASSUME NEW G \in SUBSET F, G # {}
      PROVE  \E m \in G : /\ \A x \in G : x <= m
                          /\ Cardinality({x \in G : x < m}) = Cardinality(G) - 1
                          /\ Cardinality(G) \in Nat
  <2>1. IsFiniteSet(G) /\ G \in SUBSET Nat
    BY <1>2, FS_Subset
  <2>2. PICK m \in G : \A x \in G : x <= m
    BY <1>2, <2>1, GreatestNatural
  <2>3. {x \in G : x < m} = G \ {m}
    <3>1. \A x \in G : x < m <=> x # m
      BY <2>1, <2>2
    <3> QED BY <3>1
  <2>4. Cardinality(G \ {m}) = Cardinality(G) - 1
    BY <2>1, FS_RemoveElement
  <2> QED BY <2>1, <2>2, <2>3, <2>4, FS_CardinalityType
<1>3. Far # {}
  <2>1. F # {}
    BY FS_EmptySet
  <2>2. PICK m \in F : Cardinality(Below(m)) = Cardinality(F) - 1 /\ Cardinality(F) \in Nat
    BY <1>2, <2>1
  <2> HIDE DEF Below
  <2> QED BY <2>2
<1>4. PICK l \in Far : \A x \in Far : ~(x < l)
  <2>1. Far \subseteq Nat
    OBVIOUS
  <2> HIDE DEF Far
  <2>2. \E l \in Far : \A x \in Far : ~(<<x, l>> \in OpToRel(<, Nat))
    BY <1>3, <2>1, NatLessThanWellFounded, WFMin
  <2> QED BY <2>1, <2>2 DEF OpToRel
<1>5. ASSUME Cardinality(Below(l)) > k PROVE FALSE
  <2>1. Below(l) # {} /\ Below(l) \in SUBSET F
    <3>1. Cardinality(Below(l)) # 0
      BY <1>1, <1>5
    <3> HIDE DEF Below
    <3> QED BY <1>1, <3>1, FS_EmptySet
  <2>2. PICK m \in Below(l) : /\ Cardinality({x \in Below(l) : x < m}) = Cardinality(Below(l)) - 1
                              /\ Cardinality(Below(l)) \in Nat
    <3> HIDE DEF Below
    <3> QED BY <1>2, <2>1
  <2>3. {x \in Below(l) : x < m} = Below(m)
    <3>1. \A x \in F : x < m => x < l
      OBVIOUS
    <3> QED BY <3>1
  <2>4. Cardinality(Below(m)) >= k
    <3> HIDE DEF Below
    <3> QED BY <1>5, <2>2, <2>3
  <2> QED BY <1>4, <2>4
<1>6. Cardinality(Below(l)) = k
  <2> HIDE DEF Below
  <2> QED BY <1>1, <1>5
<1> QED BY <1>6

\* The lanes of an edge are a capacity like any other, so the generations that
\* were admitted on it find as many free lanes as they are.
LEMMA EnoughLanes ==
  ASSUME RegistrySound, LaunchSound, Idle, NEW ops \in SUBSET Ready,
         SchedulerAdmits(ops, pending, segs), NEW o \in Gens(ops)
  PROVE  /\ FreeLanes(Ends[o]) \in SUBSET Nat /\ IsFiniteSet(FreeLanes(Ends[o]))
         /\ IsFiniteSet(OnEdge(Gens(ops), Ends[o]))
         /\ Cardinality(OnEdge(Gens(ops), Ends[o])) <= Cardinality(FreeLanes(Ends[o]))
<1> USE DEF RegistrySound, LaunchSound
<1> DEFINE e == Ends[o]
           r == <<"genlane", e>>
           G == OnEdge(Gens(ops), e)
           L == OnEdge(Gens(pending), e)
           D == {p \in pending \cup ops : r \in Demand[p]}
           B == busyLanes[e]
           Lanes == 0 .. MaxWidth - 1
<1>1. /\ ops \in SUBSET Op /\ pending \in SUBSET Op /\ segs \in SUBSET Op
      /\ InFlight = pending /\ ops \cap pending = {}
  BY IdleInFlight DEF Ready, Known, TypeOK
<1>2. o \in ops /\ Kind[o] = "GEN" /\ e \in Edge
  BY <1>1, ShapeAssumption DEF WellShaped, Gens
<1>3. r \in Demand[o] /\ r \in Resource /\ Capacity[r] = MaxWidth
  <2>1. r \in Demand[o]
    BY <1>1, <1>2 DEF Demand
  <2>2. r \in Resource
    BY <1>1, <1>2, <2>1, DemandNamesResources
  <2> QED BY <2>1, <2>2 DEF Capacity
<1>4. Usage(segs, pending \cup ops, r) <= MaxWidth
  <2>1. r \in UNION {Hold[x] \cup Demand[x] : x \in segs \cup (pending \cup ops)}
    BY <1>2, <1>3
  <2> HIDE DEF r
  <2> QED BY <1>3, <2>1 DEF SchedulerAdmits, WithinCapacity
<1>5. /\ G \in SUBSET Op /\ L \in SUBSET Op /\ D \in SUBSET Op /\ G \cap L = {}
      /\ G \cup L \in SUBSET D
  <2>1. G \in SUBSET ops /\ L \in SUBSET pending
    BY DEF OnEdge, Gens
  <2>2. \A p \in G \cup L : r \in Demand[p]
    <3> SUFFICES ASSUME NEW p \in G \cup L PROVE r \in Demand[p]
      OBVIOUS
    <3>1. p \in Op /\ Kind[p] = "GEN" /\ Ends[p] = e
      BY <1>1 DEF OnEdge, Gens
    <3> QED BY <3>1 DEF Demand
  <2> QED BY <1>1, <2>1, <2>2
<1>6. B = {lane[p] : p \in L} /\ B \in SUBSET Lanes
  BY <1>1, <1>2 DEF LanesExact, TypeOK
<1>7. FreeLanes(e) = Lanes \ B
  BY <1>6 DEF FreeLanes
<1> HIDE DEF e, r, G, L, B
<1>8. /\ IsFiniteSet(G) /\ IsFiniteSet(L) /\ Cardinality(G) \in Nat /\ Cardinality(L) \in Nat
      /\ Cardinality(G) + Cardinality(L) <= MaxWidth
  <2>1. IsFiniteSet(G) /\ IsFiniteSet(L) /\ IsFiniteSet(D)
    <3> HIDE DEF D
    <3> QED BY <1>5, FS_Subset, ParameterAssumption
  <2>2. Cardinality(G \cup L) = Cardinality(G) + Cardinality(L)
    <3>1. Cardinality(G \cap L) = 0
      BY <1>5, FS_EmptySet
    <3>2. Cardinality(G \cup L) = Cardinality(G) + Cardinality(L) - Cardinality(G \cap L)
      BY <2>1, FS_Union
    <3>3. Cardinality(G) \in Nat /\ Cardinality(L) \in Nat
      BY <2>1, FS_CardinalityType
    <3> QED BY <3>1, <3>2, <3>3
  <2>3. Cardinality(G \cup L) <= Cardinality(D)
    <3> HIDE DEF D
    <3> QED BY <1>5, <2>1, FS_Subset
  <2>4. Cardinality(D) <= Usage(segs, pending \cup ops, r) /\ Usage(segs, pending \cup ops, r) \in Nat
    <3> DEFINE H == {s \in segs : r \in Hold[s]}
    <3>1. Usage(segs, pending \cup ops, r) = Cardinality(H) + Cardinality(D)
      BY DEF Usage
    <3>2. H \in SUBSET Op
      BY <1>1
    <3> HIDE DEF H, D
    <3>3. Cardinality(H) \in Nat /\ Cardinality(D) \in Nat
      BY <2>1, <3>2, FS_Subset, FS_CardinalityType, ParameterAssumption
    <3> QED BY <3>1, <3>3
  <2> HIDE DEF D
  <2>5. Cardinality(D) \in Nat /\ Cardinality(G) \in Nat /\ Cardinality(L) \in Nat
    BY <2>1, FS_CardinalityType
  <2> QED BY <1>4, <2>1, <2>2, <2>3, <2>4, <2>5, ParameterAssumption
<1>9. IsFiniteSet(B) /\ Cardinality(B) <= Cardinality(L) /\ Cardinality(B) \in Nat
  <2> DEFINE f == [p \in L |-> lane[p]]
  <2>1. f \in Surjection(L, B)
    BY <1>6 DEF Surjection
  <2> HIDE DEF f
  <2> QED BY <1>8, <2>1, FS_Surjection, FS_CardinalityType
<1>10. IsFiniteSet(Lanes) /\ Cardinality(Lanes) = MaxWidth
  BY FS_Interval, ParameterAssumption
<1>11. IsFiniteSet(Lanes \ B) /\ Cardinality(Lanes \ B) = MaxWidth - Cardinality(B) /\ Lanes \ B \in SUBSET Nat
  <2>1. Lanes \cap B = B /\ Lanes \ B \in SUBSET Nat
    BY <1>6
  <2> HIDE DEF Lanes
  <2> QED BY <1>10, <2>1, FS_Difference
<1>12. Cardinality(G) <= MaxWidth - Cardinality(B)
  BY <1>8, <1>9, ParameterAssumption
<1> QED BY <1>7, <1>8, <1>11, <1>12 DEF G, e

\* Every generation gets the lane its place in the canonical order calls for.
LEMMA LanesFound ==
  ASSUME RegistrySound, LaunchSound, Idle, NEW ops \in SUBSET Ready,
         SchedulerAdmits(ops, pending, segs)
  PROVE  LaneClaims(ops) # {}
<1> DEFINE Fits(o, l) == Cardinality({x \in FreeLanes(Ends[o]) : x < l}) = Cardinality(Before(o, ops))
           claim == [o \in Gens(ops) |-> CHOOSE l \in FreeLanes(Ends[o]) : Fits(o, l)]
<1>1. ASSUME NEW o \in Gens(ops) PROVE \E l \in FreeLanes(Ends[o]) : Fits(o, l)
  <2> DEFINE G == OnEdge(Gens(ops), Ends[o])
  <2>1. /\ FreeLanes(Ends[o]) \in SUBSET Nat /\ IsFiniteSet(FreeLanes(Ends[o]))
        /\ IsFiniteSet(G) /\ Cardinality(G) <= Cardinality(FreeLanes(Ends[o]))
    BY EnoughLanes
  <2>2. o \in G /\ Before(o, ops) \in SUBSET (G \ {o})
    <3>1. Rank[o] \in Nat
      BY OperationAssumption DEF Gens, Ready, Known, RegistrySound, TypeOK
    <3>2. ~(Rank[o] < Rank[o])
      BY <3>1
    <3> QED BY <3>2 DEF OnEdge, Before
  <2> HIDE DEF G
  <2>3. IsFiniteSet(G \ {o}) /\ Cardinality(G \ {o}) = Cardinality(G) - 1
    BY <2>1, <2>2, FS_RemoveElement
  <2>4. Cardinality(Before(o, ops)) <= Cardinality(G \ {o}) /\ Cardinality(Before(o, ops)) \in Nat
    BY <2>2, <2>3, FS_Subset, FS_CardinalityType
  <2>5. Cardinality(Before(o, ops)) < Cardinality(FreeLanes(Ends[o]))
    BY <2>1, <2>3, <2>4, FS_CardinalityType
  <2> QED BY <2>1, <2>4, <2>5, PlaceInOrder
<1>2. \A o \in Gens(ops) : claim[o] \in FreeLanes(Ends[o]) /\ Fits(o, claim[o])
  <2> HIDE DEF Fits
  <2> QED BY <1>1
<1>3. claim \in AnyClaims(ops)
  <2>1. \A o \in Gens(ops) : Ends[o] \in Edge
    BY ShapeAssumption DEF WellShaped, Gens, Ready, Known, RegistrySound, TypeOK
  <2>2. \A o \in Gens(ops) : claim[o] \in UNION {FreeLanes(e) : e \in Edge}
    <3> HIDE DEF claim
    <3> QED BY <1>2, <2>1
  <2> QED BY <2>2 DEF AnyClaims
<1> HIDE DEF claim
<1> QED BY <1>2, <1>3 DEF LaneClaims

-----------------------------------------------------------------------------
(* Whatever is offered may be launched                                     *)

\* Only compiled operations ever enter a DAG.
DagsCompiled == \A o \in Known : CompiledSoundly(o)

LEMMA CompiledStep == TypeOK /\ DagsCompiled /\ [Next]_vars => DagsCompiled'
<1> SUFFICES ASSUME TypeOK, DagsCompiled, [Next]_vars PROVE DagsCompiled'
  OBVIOUS
<1> DEFINE Sound(ops) == \A o \in ops : CompiledSoundly(o)
<1>1. ASSUME NEW r \in Request, NEW ops \in Plans[r] \cup Repairs[r],
             dags' = [dags EXCEPT ![r] = ops] \/ dags' = [dags EXCEPT ![r] = dags[r] \cup ops]
      PROVE  DagsCompiled'
  <2>1. Sound(ops)
    BY CompilerAssumption
  <2>2. \A q \in Request : Sound(dags[q])
    BY DEF DagsCompiled, Known
  <2>3. \A q \in Request : Sound(dags'[q])
    BY <1>1, <2>1, <2>2 DEF TypeOK
  <2> QED BY <2>3 DEF DagsCompiled, Known
<1>2. ASSUME NEW r \in Request, Unregister(r) PROVE DagsCompiled'
  <2>1. \A q \in Request : Sound(dags'[q])
    BY <1>2 DEF Unregister, DagsCompiled, Known, TypeOK
  <2> QED BY <2>1 DEF DagsCompiled, Known
<1>3. ASSUME UNCHANGED dags PROVE DagsCompiled'
  BY <1>3 DEF DagsCompiled, Known
<1>4. ASSUME NEW r \in Request, NEW ops \in Plans[r], Register(r, ops) PROVE DagsCompiled'
  BY <1>1, <1>4 DEF Register
<1>5. ASSUME NEW r \in Request, NEW ops \in Repairs[r], NEW supersede \in BOOLEAN,
             Repair(r, ops, supersede)
      PROVE  DagsCompiled'
  BY <1>1, <1>5 DEF Repair, Repaired
<1>6. CASE \/ \E s \in Op : ReleaseSegment(s)
           \/ \E r \in Request : ReleaseRequest(r)
           \/ \E ops \in SUBSET Ready : Launch(ops)
  BY <1>3, <1>6 DEF ReleaseSegment, ReleaseRequest, Launch, dagVars
<1>7. CASE \/ \E bound \in now .. Horizon : Advance(bound)
           \/ BeginTimeout
           \/ Settle
           \/ \E bound \in now .. Horizon : WaitUntil(bound)
           \/ Terminate
           \/ UNCHANGED vars
  BY <1>3, <1>7 DEF Advance, BeginTimeout, Settle, WaitUntil, Terminate, vars, dagVars
<1>8. CASE Finish
  BY <1>3, <1>8 DEF Finish, Release, Fail, Complete, Retire, dagVars
<1> QED BY <1>2, <1>4, <1>5, <1>6, <1>7, <1>8 DEF Next

\* Every registered operation is as the compilers make it: registration takes a
\* compiled plan, and a repair has the shape of the revision it was given.
LEMMA CompiledInvariant == Spec => []DagsCompiled
<1>1. Init => DagsCompiled
  <2> SUFFICES ASSUME Init, NEW r \in Request, NEW o \in dags[r] PROVE CompiledSoundly(o)
    BY DEF DagsCompiled, Known
  <2>1. dags[r] \in Plans[r]
    BY DEF Init
  <2> QED BY <2>1, CompilerAssumption
<1>2. Inductive => TypeOK
  BY DEF Inductive, RegistrySound
<1> QED BY <1>1, <1>2, CompiledStep, InductiveInvariant, PTL DEF Spec

\* Between calls what ready_operations returns, and any part of it, is launched
\* without an objection: the packing of the offer and the three checks of the
\* launch agree, on what coexists, on capacities, on lanes and on the pairs.
LEMMA OfferLaunches ==
  ASSUME Inductive, DagsCompiled, Idle, ~terminated,
         NEW ops \in SUBSET ReadyOperations(Op), ops # {}
  PROVE  LaunchAdmits(ops)
<1> USE DEF Inductive, RegistrySound, LaunchSound
<1> DEFINE alive == {s \in segs : Alive(s, now)}
           packed == MixFilter(SwapFilter(Ready \cap Op))
<1>1. alive = segs
  BY DEF NoPhysicalRejection
<1>2. /\ pending \in SUBSET Op /\ segs \in SUBSET Op /\ Ready \in SUBSET Op
      /\ InFlight = pending
  BY IdleInFlight DEF Ready, Known, TypeOK
<1>3. packed \in SUBSET Op
  BY <1>2 DEF MixFilter, SwapFilter, Gens
<1>4. ReadyOperations(Op) \in SUBSET Ready
  BY ReadyAllowed
<1>5. SchedulerAdmits(ReadyOperations(Op), pending, segs)
  <2>1. ReadyOperations(Op) = Pack(packed, pending, segs) /\ ReadyOperations(Op) # {}
    BY <1>1 DEF ReadyOperations
  <2> HIDE DEF packed
  <2> QED BY <1>3, <2>1, PackAdmitted
<1> DEFINE offer == ReadyOperations(Op)
<1> HIDE DEF offer
<1>6. SchedulerAdmits(ops, pending, segs) /\ ops \in SUBSET Ready /\ ops \in SUBSET Op
  <2>1. offer \in SUBSET Ready /\ SchedulerAdmits(offer, pending, segs) /\ ops \in SUBSET offer
    BY <1>4, <1>5 DEF offer
  <2> QED BY <1>2, <2>1, PartAdmitted
<1>7. ArbiterAdmits(ops, pending)
  BY <1>6, ArbiterAgrees
<1>8. OracleAdmits(ops) /\ \A o \in ops : HoldFits(o)
  BY <1>2, <1>6, OracleAgrees DEF SchedulerAdmits
<1>9. LaneClaims(ops) # {}
  BY <1>6, LanesFound
<1>10. ASSUME NEW o \in ops
       PROVE  /\ \A i \in Ins[o] : Owner[i] = Owner[o]
              /\ Joins(o)
  <2>1. o \in Known /\ Ins[o] \subseteq segs \ Inputs(pending)
    BY <1>6 DEF Ready, Available
  <2>2. CompiledSoundly(o)
    BY <2>1 DEF DagsCompiled
  <2>3. owned \subseteq Inputs(pending)
    BY <1>2 DEF RegistriesAgree, Joining, Inputs, Swaps, Purifies
  <2>4. Ins[o] \subseteq Pairs \ owned
    BY <2>1, <2>3 DEF RegistriesAgree
  <2> QED BY <2>2, <2>4 DEF CompiledSoundly, Joins
<1>11. ops \cap segs = {}
  BY <1>6 DEF Ready, SegmentProvenance
<1> QED BY <1>1, <1>6, <1>7, <1>8, <1>9, <1>10, <1>11 DEF LaunchAdmits

\* What ready_operations offers at the end of a call is launched as it stands:
\* every check of _validate_launch but those of fidelity accepts it.
THEOREM OffersLaunchable == Spec => []ReadyLaunchable
<1>1. Inductive /\ DagsCompiled => ReadyLaunchable
  BY OfferLaunches DEF ReadyLaunchable
<1> QED BY <1>1, InductiveInvariant, CompiledInvariant, PTL

=============================================================================
