--------------------- MODULE ConstructionExecutorProofs ---------------------
(***************************************************************************)
(* Proofs about ConstructionExecutor, for every network, every set of      *)
(* plans and repairs, every horizon and every choice of the backend flags: *)
(* its registries agree, no step rewrites the committed prefix of a DAG,   *)
(* and it implements the contract its callers rely on.                     *)
(***************************************************************************)
EXTENDS ConstructionExecutor, FiniteSetTheorems, TLAPS

-----------------------------------------------------------------------------
(* Lemmas about resources                                                  *)

\* Whatever a segment will hold is reserved while it is being produced: its
\* operation demands it, or one of the inputs it replaces holds it.
LEMMA HoldCovered ==
  ASSUME NEW o \in Op, NEW r \in Hold[o]
  PROVE  r \in Demand[o] \/ \E i \in Ins[o] : r \in Hold[i]
<1> USE OperationAssumption, ShapeAssumption DEF WellShaped
<1>1. CASE Kind[o] = "GEN"
  BY <1>1 DEF Hold, Demand
<1>2. CASE Kind[o] = "PURIFY"
  <2>1. PICK i \in Ins[o] : TRUE
    BY <1>2
  <2>2. i \in Op /\ Ends[i] = Ends[o] /\ Kind[i] \in {"GEN", "PURIFY"}
    BY <1>2, <2>1
  <2>3. Hold[i] = Hold[o]
    BY <1>2, <2>2 DEF Hold, Memories
  <2> QED BY <2>1, <2>3
<1>3. CASE Kind[o] = "SWAP"
  <2>1. PICK n \in Ends[o] : r = <<"memory", n>>
    BY <1>3 DEF Hold, Memories
  <2>2. PICK i \in Ins[o] : n \in Ends[i]
    BY <1>3, <2>1
  <2>3. i \in Op /\ Kind[i] \in {"GEN", "PURIFY", "SWAP"}
    BY <2>2 DEF OperationKind
  <2>4. <<"memory", n>> \in Memories(i)
    BY <2>2 DEF Memories
  <2>5. <<"memory", n>> \in Hold[i]
    BY <2>3, <2>4 DEF Hold
  <2> QED BY <2>1, <2>2, <2>5
<1>4. CASE Kind[o] = "RELEASE"
  BY <1>4 DEF Hold
<1> QED BY <1>1, <1>2, <1>3, <1>4 DEF OperationKind

\* Operations declare resources that exist.
LEMMA HoldNamesResources ==
  ASSUME NEW o \in Op
  PROVE  Hold[o] \subseteq Resource
<1> USE OperationAssumption, ShapeAssumption DEF WellShaped
<1>1. Memories(o) \subseteq Resource
  BY DEF Memories, Resource
<1>2. CASE Kind[o] \in {"GEN", "PURIFY"}
  <2>1. <<"link", Ends[o]>> \in Resource
    BY <1>2 DEF Resource
  <2> QED BY <1>1, <1>2, <2>1 DEF Hold
<1>3. CASE Kind[o] \in {"SWAP", "RELEASE"}
  BY <1>1, <1>3 DEF Hold
<1> QED BY <1>2, <1>3 DEF OperationKind

\* Every capacity is a natural number.
LEMMA CapacityNatural == \A r \in Resource : Capacity[r] \in Nat
<1> SUFFICES ASSUME NEW r \in Resource PROVE Capacity[r] \in Nat
  OBVIOUS
<1>1. \A n \in Node : MemorySize[n] \in Nat
  <2> SUFFICES ASSUME NEW n \in Node PROVE MemorySize[n] \in Nat
    OBVIOUS
  <2>1. Degree(n) \in Nat
    <3>1. {e \in Edge : n \in e} \in SUBSET Edge
      OBVIOUS
    <3>2. IsFiniteSet({e \in Edge : n \in e})
      BY <3>1, FS_Subset, ParameterAssumption
    <3> QED BY <3>2, FS_CardinalityType DEF Degree
  <2>2. Degree(n) * MemoryCapacity \in Nat
    BY <2>1, ParameterAssumption
  <2> QED BY <2>2, ParameterAssumption DEF MemorySize
<1>2. CASE r \in {"link", "genlane", "purify"} \X Edge
  BY <1>2, ParameterAssumption DEF Capacity
<1>3. CASE r \in {"bsm", "swapnode", "memory"} \X Node
  BY <1>1, <1>3, ParameterAssumption DEF Capacity
<1> QED BY <1>2, <1>3 DEF Resource

\* Sets of operations are finite, so every usage is a number, and it can only
\* shrink when segments or operations go away.
LEMMA UsageMonotone ==
  ASSUME NEW T \in SUBSET Op, NEW S \in SUBSET T,
         NEW B \in SUBSET Op, NEW A \in SUBSET B, NEW r
  PROVE  /\ Usage(S, A, r) \in Nat
         /\ Usage(T, B, r) \in Nat
         /\ Usage(S, A, r) <= Usage(T, B, r)
<1> DEFINE HT == {s \in T : r \in Hold[s]}
           HS == {s \in S : r \in Hold[s]}
           DB == {o \in B : r \in Demand[o]}
           DA == {o \in A : r \in Demand[o]}
<1>1. HT \in SUBSET Op /\ DB \in SUBSET Op /\ HS \in SUBSET HT /\ DA \in SUBSET DB
  OBVIOUS
<1>2. IsFiniteSet(HT) /\ IsFiniteSet(DB)
  BY <1>1, FS_Subset, ParameterAssumption
<1>3. IsFiniteSet(HS) /\ IsFiniteSet(DA)
  BY <1>1, <1>2, FS_Subset
<1>4. Cardinality(HS) <= Cardinality(HT) /\ Cardinality(DA) <= Cardinality(DB)
  BY <1>1, <1>2, FS_Subset
<1>5. /\ Cardinality(HT) \in Nat /\ Cardinality(DB) \in Nat
      /\ Cardinality(HS) \in Nat /\ Cardinality(DA) \in Nat
  BY <1>2, <1>3, FS_CardinalityType
<1> HIDE DEF HT, HS, DB, DA
<1>6. Usage(T, B, r) = Cardinality(HT) + Cardinality(DB)
  BY DEF Usage, HT, DB
<1>7. Usage(S, A, r) = Cardinality(HS) + Cardinality(DA)
  BY DEF Usage, HS, DA
<1> QED BY <1>4, <1>5, <1>6, <1>7

\* It does shrink when something that is charged for r goes away.
LEMMA UsageDrops ==
  ASSUME NEW T \in SUBSET Op, NEW S \in SUBSET T,
         NEW B \in SUBSET Op, NEW A \in SUBSET B, NEW r,
         \/ \E x \in T \ S : r \in Hold[x]
         \/ \E x \in B \ A : r \in Demand[x]
  PROVE  Usage(S, A, r) + 1 <= Usage(T, B, r)
<1> DEFINE HT == {s \in T : r \in Hold[s]}
           HS == {s \in S : r \in Hold[s]}
           DB == {o \in B : r \in Demand[o]}
           DA == {o \in A : r \in Demand[o]}
<1>1. HT \in SUBSET Op /\ DB \in SUBSET Op /\ HS \in SUBSET HT /\ DA \in SUBSET DB
  OBVIOUS
<1>2. HS # HT \/ DA # DB
  OBVIOUS
<1>3. IsFiniteSet(HT) /\ IsFiniteSet(DB)
  BY <1>1, FS_Subset, ParameterAssumption
<1>4. IsFiniteSet(HS) /\ IsFiniteSet(DA)
  BY <1>1, <1>3, FS_Subset
<1>5. /\ Cardinality(HS) <= Cardinality(HT) /\ (HS # HT => Cardinality(HS) # Cardinality(HT))
      /\ Cardinality(DA) <= Cardinality(DB) /\ (DA # DB => Cardinality(DA) # Cardinality(DB))
  BY <1>1, <1>3, FS_Subset
<1>6. /\ Cardinality(HT) \in Nat /\ Cardinality(DB) \in Nat
      /\ Cardinality(HS) \in Nat /\ Cardinality(DA) \in Nat
  BY <1>3, <1>4, FS_CardinalityType
<1> HIDE DEF HT, HS, DB, DA
<1>7. Usage(T, B, r) = Cardinality(HT) + Cardinality(DB)
  BY DEF Usage, HT, DB
<1>8. Usage(S, A, r) = Cardinality(HS) + Cardinality(DA)
  BY DEF Usage, HS, DA
<1> QED BY <1>2, <1>5, <1>6, <1>7, <1>8

\* Storing one more segment costs at most one unit of what it holds.
LEMMA UsageOfOutput ==
  ASSUME NEW S \in SUBSET Op, NEW A \in SUBSET Op, NEW o \in Op, NEW r
  PROVE  Usage(S \cup {o}, A, r) <= Usage(S, A, r) + (IF r \in Hold[o] THEN 1 ELSE 0)
<1> DEFINE HS == {s \in S : r \in Hold[s]}
           HO == {s \in S \cup {o} : r \in Hold[s]}
           DA == {a \in A : r \in Demand[a]}
<1>1. IsFiniteSet(HS) /\ IsFiniteSet(DA)
  <2>1. HS \in SUBSET Op /\ DA \in SUBSET Op
    OBVIOUS
  <2> QED BY <2>1, FS_Subset, ParameterAssumption
<1>2. Cardinality(HS) \in Nat /\ Cardinality(DA) \in Nat
  BY <1>1, FS_CardinalityType
<1>3. Cardinality(HS \cup {o}) \in Nat /\ Cardinality(HS \cup {o}) <= Cardinality(HS) + 1
  <2>1. Cardinality(HS \cup {o}) = IF o \in HS THEN Cardinality(HS) ELSE Cardinality(HS) + 1
    BY <1>1, FS_AddElement
  <2> QED BY <1>2, <2>1
<1>4. HO = IF r \in Hold[o] THEN HS \cup {o} ELSE HS
  OBVIOUS
<1> HIDE DEF HS, HO, DA
<1>5. Cardinality(HO) <= Cardinality(HS) + (IF r \in Hold[o] THEN 1 ELSE 0)
  BY <1>2, <1>3, <1>4
<1>6. Cardinality(HO) \in Nat
  BY <1>2, <1>3, <1>4
<1>7. Usage(S \cup {o}, A, r) = Cardinality(HO) + Cardinality(DA)
  BY DEF Usage, HO, DA
<1>8. Usage(S, A, r) = Cardinality(HS) + Cardinality(DA)
  BY DEF Usage, HS, DA
<1> QED BY <1>2, <1>5, <1>6, <1>7, <1>8

-----------------------------------------------------------------------------
(* Type correctness                                                        *)

\* The steps of Next, one named fact per action.
LEMMA TypeInit == Init => TypeOK
<1> SUFFICES ASSUME Init PROVE TypeOK
  OBVIOUS
<1> USE ExecutorAssumption, ParameterAssumption
<1>1. dags \in [Request -> SUBSET Op]
  BY DEF Init
<1>2. lane \in [Op -> 0 .. MaxWidth]
  BY DEF Init
<1>3. busyLanes \in [Edge -> SUBSET (0 .. MaxWidth - 1)] /\ version \in [Request -> Nat]
  BY DEF Init
<1>4. expiry \in [Op -> Nat] /\ startedAt \in [Op -> Nat] /\ endsAt \in [Op -> Nat]
  BY DEF Init
<1>5. now \in 0 .. Horizon /\ phase \in Phase
  BY DEF Init, Phase
<1>7. terminated \in BOOLEAN
  BY Zenon DEF Init
<1>6. /\ completed \subseteq Op /\ started \subseteq Op /\ dead \subseteq Op /\ segs \subseteq Op
      /\ expired \subseteq Op /\ owned \subseteq Op /\ pending \subseteq Op /\ todo \subseteq Op
  BY DEF Init
<1> QED BY <1>1, <1>2, <1>3, <1>4, <1>5, <1>6, <1>7 DEF TypeOK

LEMMA TypeStep == TypeOK /\ [Next]_vars => TypeOK'
<1> SUFFICES ASSUME TypeOK, [Next]_vars PROVE TypeOK'
  OBVIOUS
<1> USE ExecutorAssumption, ParameterAssumption, OperationAssumption DEF TypeOK
<1>1. ASSUME NEW r \in Request, NEW ops \in Plans[r], Register(r, ops) PROVE TypeOK'
  BY <1>1 DEF Register, markVars, pairVars, runVars, callVars
<1>2. ASSUME NEW r \in Request, Unregister(r) PROVE TypeOK'
  BY <1>2 DEF Unregister, Discard, runVars, callVars
<1>3. ASSUME NEW r \in Request, NEW ops \in Repairs[r], NEW supersede \in BOOLEAN,
             Repair(r, ops, supersede)
      PROVE TypeOK'
  <2>1. ops \in SUBSET Op
    OBVIOUS
  <2>2. dags' \in [Request -> SUBSET Op]
    BY <1>3, <2>1 DEF Repair, RepairAdmits, Repaired
  <2>3. version' \in [Request -> Nat]
    BY <1>3 DEF Repair, RepairAdmits
  <2>4. dead' \subseteq Op
    BY <1>3 DEF Repair, RepairAdmits, Obsolete
  <2> QED BY <1>3, <2>2, <2>3, <2>4 DEF Repair, RepairAdmits, Refresh, runVars, callVars
<1>4. ASSUME NEW s \in Op, ReleaseSegment(s) PROVE TypeOK'
  BY <1>4 DEF ReleaseSegment, Discard, dagVars, markVars, runVars, callVars
<1>5. ASSUME NEW r \in Request, ReleaseRequest(r) PROVE TypeOK'
  BY <1>5 DEF ReleaseRequest, Discard, dagVars, markVars, runVars, callVars
<1>6. ASSUME NEW ops \in SUBSET Ready, Launch(ops) PROVE TypeOK'
  <2>1. ops \in SUBSET Op
    BY DEF Ready, Known
  <2>2. owned' \subseteq Op
    BY <1>6, <2>1 DEF Launch, Inputs, Swaps, Purifies
  <2>3. endsAt' \in [Op -> Nat]
    BY <1>6 DEF Launch
  <2>4. PICK claim \in LaneClaims(ops) :
          /\ lane' = [o \in Op |-> IF o \in Gens(ops) THEN claim[o] ELSE lane[o]]
          /\ busyLanes' = [e \in Edge |-> busyLanes[e] \cup {claim[o] : o \in OnEdge(Gens(ops), e)}]
    BY <1>6 DEF Launch
  <2>5. \A o \in Gens(ops) : claim[o] \in 0 .. MaxWidth - 1
    BY <2>4 DEF LaneClaims, FreeLanes
  <2>6. \A e \in Edge : OnEdge(Gens(ops), e) \subseteq Gens(ops)
    BY DEF OnEdge
  <2>7. lane' \in [Op -> 0 .. MaxWidth] /\ busyLanes' \in [Edge -> SUBSET (0 .. MaxWidth - 1)]
    BY <2>4, <2>5, <2>6
  <2>8. /\ started' \subseteq Op /\ pending' \subseteq Op /\ startedAt' \in [Op -> Nat]
        /\ segs' \subseteq Op /\ expired' \subseteq Op /\ expiry' \in [Op -> Nat]
    BY <1>6, <2>1 DEF Launch, Refresh
  <2> QED BY <1>6, <2>2, <2>3, <2>7, <2>8 DEF Launch, dagVars, callVars
<1>7. ASSUME NEW bound \in now .. Horizon, Advance(bound) PROVE TypeOK'
  BY <1>7 DEF Advance, Due, Phase, dagVars, markVars, pairVars, runVars
<1>8. ASSUME NEW o \in Op, Retire(o) PROVE
      /\ dags' = dags /\ version' = version /\ now' = now /\ terminated' = terminated /\ phase' = phase
      /\ todo' \subseteq Op /\ pending' \subseteq Op /\ started' \subseteq Op /\ owned' \subseteq Op
      /\ startedAt' \in [Op -> Nat] /\ endsAt' \in [Op -> Nat] /\ lane' \in [Op -> 0 .. MaxWidth]
      /\ busyLanes' \in [Edge -> SUBSET (0 .. MaxWidth - 1)]
  BY <1>8 DEF Retire, dagVars
<1>9. ASSUME NEW o \in Op, Release(o) PROVE TypeOK'
  BY <1>8, <1>9 DEF Release, Expiries
<1>10. ASSUME NEW o \in Op, Fail(o) PROVE TypeOK'
  BY <1>8, <1>10 DEF Fail, Refresh, Expiries
<1>11. ASSUME NEW o \in Op, NEW life \in Lifetimes, Complete(o, life) PROVE TypeOK'
  <2>1. expiry' \in [Op -> Nat]
    BY <1>11 DEF Complete, Expiries
  <2> QED BY <1>8, <1>11, <2>1 DEF Complete
<1>12. CASE BeginTimeout
  BY <1>12 DEF BeginTimeout, Phase, dagVars, markVars, pairVars
<1>13. CASE Settle
  BY <1>13 DEF Settle, RefreshAndReport, Phase, dagVars, markVars, runVars
<1>14. ASSUME NEW bound \in now .. Horizon, WaitUntil(bound) PROVE TypeOK'
  BY <1>14 DEF WaitUntil, RefreshAndReport, dagVars, markVars, runVars, callVars
<1>15. CASE Terminate
  BY <1>15 DEF Terminate, dagVars, markVars, pairVars, runVars, callVars
<1>16. CASE UNCHANGED vars
  BY <1>16 DEF vars, dagVars, markVars, pairVars, runVars, callVars
<1> QED BY <1>1, <1>2, <1>3, <1>4, <1>5, <1>6, <1>7, <1>9, <1>10, <1>11,
           <1>12, <1>13, <1>14, <1>15, <1>16 DEF Next, Finish

-----------------------------------------------------------------------------
(* The registries                                                          *)

\* Between calls nothing but _pending is in flight.
LEMMA IdleInFlight ==
  ASSUME LoopShape, Idle
  PROVE  todo = {} /\ InFlight = pending
BY DEF LoopShape, Idle, InFlight

\* Dropping segments and operations in flight never breaks a capacity.
LEMMA CapacityShrinks ==
  ASSUME TypeOK, CapacityRespected, segs' \subseteq segs, InFlight' \subseteq InFlight
  PROVE  CapacityRespected'
<1> SUFFICES ASSUME NEW r \in Resource PROVE Usage(segs', InFlight', r) <= Capacity[r]
  BY DEF CapacityRespected
<1>1. segs \in SUBSET Op /\ InFlight \in SUBSET Op
  BY DEF TypeOK, InFlight
<1>2. /\ Usage(segs', InFlight', r) <= Usage(segs, InFlight, r)
      /\ Usage(segs', InFlight', r) \in Nat /\ Usage(segs, InFlight, r) \in Nat
  BY <1>1, UsageMonotone
<1>3. Usage(segs, InFlight, r) <= Capacity[r] /\ Capacity[r] \in Nat
  BY CapacityNatural DEF CapacityRespected
<1> QED BY <1>2, <1>3

\* Nothing is in flight and nothing is live at the start.
LEMMA RegistryInit == Init => RegistrySound
<1> SUFFICES ASSUME Init PROVE RegistrySound
  OBVIOUS
<1>1. TypeOK
  BY TypeInit
<1>2. DagsOwned
  BY PlanAssumption DEF Init, DagsOwned
<1>3. InFlight = {} /\ Joining = {}
  BY DEF Init, InFlight, Joining, Swaps, Purifies
<1>4. /\ LoopShape /\ InputsSettled /\ MarkersMatchExecution
      /\ SegmentProvenance /\ InputsExclusive
  BY <1>3 DEF Init, LoopShape, InputsSettled, MarkersMatchExecution, SegmentProvenance,
              InputsExclusive, Inputs
<1>5. RegistriesAgree
  BY <1>3 DEF Init, RegistriesAgree, Pairs, Inputs
<1>6. CapacityRespected
  <2> SUFFICES ASSUME NEW r \in Resource PROVE Usage({}, {}, r) <= Capacity[r]
    BY <1>3 DEF CapacityRespected, Init
  <2>1. Usage({}, {}, r) = Cardinality({}) + Cardinality({})
    <3>1. {s \in {} : r \in Hold[s]} = {} /\ {o \in {} : r \in Demand[o]} = {}
      OBVIOUS
    <3> QED BY <3>1 DEF Usage
  <2> QED BY <2>1, CapacityNatural, FS_EmptySet
<1> QED BY <1>1, <1>2, <1>4, <1>5, <1>6 DEF RegistrySound

\* A new DAG touches no marker, segment or operation in flight.
LEMMA RegisterStep ==
  ASSUME RegistrySound, TypeOK', NEW r \in Request, NEW ops \in Plans[r], Register(r, ops)
  PROVE  RegistrySound'
<1> USE DEF RegistrySound
<1>1. /\ UNCHANGED <<completed, started, dead, segs, expired, expiry, owned, pending, todo, phase>>
      /\ dags' = [dags EXCEPT ![r] = ops] /\ dags[r] = {}
  BY DEF Register, markVars, pairVars, runVars, callVars
<1>2. InFlight' = InFlight /\ Joining' = Joining
  BY <1>1 DEF InFlight, Joining
<1>3. DagsOwned'
  BY <1>1 DEF Register, WellFormed, DagsOwned, TypeOK
<1>4. Known \subseteq Known'
  BY <1>1 DEF Known, TypeOK
<1>5. MarkersMatchExecution'
  BY <1>1, <1>2, <1>4 DEF MarkersMatchExecution
<1>6. CapacityRespected'
  BY <1>1, <1>2, CapacityShrinks
<1>7. LoopShape' /\ InputsSettled' /\ SegmentProvenance' /\ InputsExclusive'
  BY <1>1, <1>2 DEF LoopShape, InputsSettled, SegmentProvenance, InputsExclusive
<1>8. RegistriesAgree'
  BY <1>1, <1>2 DEF RegistriesAgree, Pairs
<1> QED BY <1>3, <1>5, <1>6, <1>7, <1>8

\* Removing segments that no operation in flight consumes, with their pairs,
\* while the markers and the operations in flight stay.
LEMMA SegmentsRemoved ==
  ASSUME RegistrySound, TypeOK', NEW S \in SUBSET segs, S \cap owned = {},
         segs' = segs \ S,
         expiry' = [o \in Op |-> IF o \in S THEN 0 ELSE expiry[o]],
         UNCHANGED <<completed, started, dags, owned, pending, todo>>
  PROVE  /\ InFlight' = InFlight /\ Joining' = Joining
         /\ DagsOwned' /\ InputsSettled' /\ SegmentProvenance'
         /\ RegistriesAgree' /\ InputsExclusive' /\ CapacityRespected'
<1> USE DEF RegistrySound
<1>1. InFlight' = InFlight /\ Joining' = Joining
  BY DEF InFlight, Joining
<1>2. DagsOwned' /\ InputsSettled' /\ InputsExclusive'
  BY <1>1 DEF DagsOwned, InputsSettled, InputsExclusive
<1>3. SegmentProvenance'
  BY <1>1 DEF SegmentProvenance, RegistriesAgree
<1>4. RegistriesAgree'
  BY <1>1 DEF RegistriesAgree, Pairs, TypeOK
<1>5. CapacityRespected'
  BY <1>1, CapacityShrinks
<1> QED BY <1>1, <1>2, <1>3, <1>4, <1>5

\* What Refresh and RefreshAndReport remove is never owned by a protocol.
LEMMA RefreshRemoves ==
  ASSUME NEW t, \/ Refresh(segs, expired, expiry, t)
                \/ RefreshAndReport(t)
  PROVE  \E S \in SUBSET segs :
           /\ S \cap owned = {}
           /\ segs' = segs \ S
           /\ expiry' = [o \in Op |-> IF o \in S THEN 0 ELSE expiry[o]]
<1>1. CASE Refresh(segs, expired, expiry, t)
  BY <1>1 DEF Refresh
<1>2. CASE RefreshAndReport(t)
  BY <1>2 DEF RefreshAndReport, Alive
<1> QED BY <1>1, <1>2

\* Segments that nothing in flight consumes are given back between calls.
GivesBack ==
  /\ Idle
  /\ \E S \in SUBSET segs : S \cap Inputs(pending) = {} /\ Discard(S)
  /\ UNCHANGED <<dagVars, markVars, owned, runVars, now, terminated, callVars>>

LEMMA ReleaseGivesBack ==
  ASSUME \/ \E s \in Op : ReleaseSegment(s)
         \/ \E r \in Request : ReleaseRequest(r)
  PROVE  GivesBack
BY DEF ReleaseSegment, ReleaseRequest, OwnedBy, GivesBack

LEMMA GiveBackStep ==
  ASSUME RegistrySound, TypeOK', GivesBack
  PROVE  RegistrySound'
<1>1. /\ Idle
      /\ UNCHANGED <<completed, started, dead, dags, owned, pending, todo, phase>>
      /\ \E S \in SUBSET segs : S \cap Inputs(pending) = {} /\ Discard(S)
  BY DEF GivesBack, dagVars, markVars, runVars, callVars
<1>2. PICK S \in SUBSET segs : S \cap Inputs(pending) = {} /\ Discard(S)
  BY <1>1
<1>3. S \cap owned = {}
  BY <1>1, <1>2, IdleInFlight DEF RegistrySound, RegistriesAgree, Joining, Inputs, Swaps, Purifies
<1>4. /\ InFlight' = InFlight
      /\ DagsOwned' /\ InputsSettled' /\ SegmentProvenance'
      /\ RegistriesAgree' /\ InputsExclusive' /\ CapacityRespected'
  BY <1>1, <1>2, <1>3, SegmentsRemoved DEF Discard
<1>5. LoopShape' /\ MarkersMatchExecution'
  BY <1>1, <1>4 DEF RegistrySound, LoopShape, MarkersMatchExecution, Known
<1> QED BY <1>4, <1>5 DEF RegistrySound

\* Dropping a quiescent DAG: its markers and its segments go together, and the
\* inputs of every other operation belong to other requests.
LEMMA UnregisterStep ==
  ASSUME RegistrySound, TypeOK', NEW r \in Request, Unregister(r)
  PROVE  RegistrySound'
<1> USE DEF RegistrySound
<1> DEFINE S == OwnedBy(r, segs)
<1>1. /\ Idle /\ phase' = phase /\ todo' = todo /\ pending' = pending /\ owned' = owned
      /\ dags' = [dags EXCEPT ![r] = {}]
      /\ completed' = completed \ dags[r] /\ started' = started \ dags[r] /\ dead' = dead \ dags[r]
      /\ segs' = segs \ S
      /\ expiry' = [o \in Op |-> IF o \in S THEN 0 ELSE expiry[o]]
      /\ OwnedBy(r, pending) = {} /\ S \cap Inputs(pending) = {}
  BY DEF Unregister, Discard, runVars, callVars
<1>2. InFlight = pending /\ InFlight' = InFlight /\ Joining' = Joining
  BY <1>1, IdleInFlight DEF InFlight, Joining
<1>3. \A o \in dags[r] : Owner[o] = r /\ o \notin pending
  BY <1>1 DEF DagsOwned, OwnedBy
<1>4. started' = started
  BY <1>1, <1>2, <1>3 DEF MarkersMatchExecution
<1>5. \A o \in Known : Owner[o] = r => o \in dags[r]
  BY DEF Known, DagsOwned
<1>6. completed \cup started \subseteq Known
  BY DEF MarkersMatchExecution
<1>7. DagsOwned'
  BY <1>1 DEF DagsOwned, TypeOK
<1>8. InputsSettled'
  <2> SUFFICES ASSUME NEW o \in completed' \cup started', NEW i \in Ins[o]
               PROVE  i \in completed' /\ Owner[i] = Owner[o]
    BY DEF InputsSettled
  <2>1. o \in Known /\ o \notin dags[r]
    BY <1>1, <1>2, <1>3, <1>4, <1>6 DEF MarkersMatchExecution
  <2>2. Owner[o] # r
    BY <1>5, <2>1
  <2>3. i \in completed /\ Owner[i] = Owner[o]
    BY <1>1, <1>4 DEF InputsSettled
  <2> QED BY <1>1, <1>3, <2>2, <2>3
<1>9. Known \ dags[r] \subseteq Known'
  BY <1>1 DEF Known, TypeOK
<1>10. MarkersMatchExecution'
  BY <1>1, <1>2, <1>3, <1>4, <1>9 DEF MarkersMatchExecution
<1>11. S \cap owned = {}
  BY <1>1, <1>2 DEF RegistriesAgree, Joining, Inputs, Swaps, Purifies
<1>12. SegmentProvenance'
  <2>1. segs' \subseteq completed'
    BY <1>1, <1>3 DEF SegmentProvenance, OwnedBy
  <2>2. Inputs(completed') \subseteq Inputs(completed)
    BY <1>1 DEF Inputs
  <2>3. Inputs(Joining) \cap S = {}
    BY <1>11 DEF RegistriesAgree
  <2> QED BY <1>1, <1>2, <2>1, <2>2, <2>3 DEF SegmentProvenance
<1>13. RegistriesAgree'
  BY <1>1, <1>2 DEF RegistriesAgree, Pairs, TypeOK
<1>14. CapacityRespected'
  BY <1>1, <1>2, CapacityShrinks
<1>15. LoopShape' /\ InputsExclusive'
  BY <1>1, <1>2 DEF LoopShape, InputsExclusive
<1> QED BY <1>7, <1>8, <1>10, <1>12, <1>13, <1>14, <1>15

\* A repair adds operations and retires some that were never started.
LEMMA RepairStep ==
  ASSUME RegistrySound, TypeOK', NEW r \in Request, NEW ops \in Repairs[r],
         NEW supersede \in BOOLEAN, Repair(r, ops, supersede)
  PROVE  RegistrySound'
<1>1. /\ UNCHANGED <<completed, started, owned, pending, todo, phase>>
      /\ dags' = [dags EXCEPT ![r] = dags[r] \cup ops]
      /\ dead' = IF supersede THEN dead \cup Obsolete(r) ELSE dead
      /\ supersede => started \cap dags[r] = {}
      /\ Refresh(segs, expired, expiry, now)
  BY DEF Repair, RepairAdmits, Repaired, runVars, callVars
<1>2. Known \subseteq Known' /\ dags[r] \subseteq Known
  BY <1>1 DEF Known, RegistrySound, TypeOK
<1>3. PICK S \in SUBSET segs :
        /\ S \cap owned = {}
        /\ segs' = segs \ S
        /\ expiry' = [o \in Op |-> IF o \in S THEN 0 ELSE expiry[o]]
  BY <1>1, RefreshRemoves
<1>4. DagsOwned'
  BY <1>1 DEF Repair, RepairAdmits, WellFormed, DagsOwned, RegistrySound, TypeOK
<1>5. /\ InFlight' = InFlight /\ Joining' = Joining
  BY <1>1 DEF InFlight, Joining
<1>6. InputsSettled' /\ InputsExclusive'
  BY <1>1, <1>5 DEF RegistrySound, InputsSettled, InputsExclusive
<1>7. SegmentProvenance'
  BY <1>1, <1>3, <1>5 DEF RegistrySound, SegmentProvenance, RegistriesAgree
<1>8. RegistriesAgree'
  BY <1>1, <1>3, <1>5 DEF RegistrySound, RegistriesAgree, Pairs, TypeOK
<1>9. CapacityRespected'
  BY <1>3, <1>5, CapacityShrinks DEF RegistrySound
<1>10. MarkersMatchExecution'
  <2>1. dead' \subseteq Known' /\ dead' \cap completed = {} /\ dead' \cap started = {}
    BY <1>1, <1>2 DEF Obsolete, RegistrySound, MarkersMatchExecution
  <2> QED BY <1>1, <1>2, <1>5, <2>1 DEF RegistrySound, MarkersMatchExecution
<1>11. LoopShape'
  BY <1>1 DEF RegistrySound, LoopShape
<1> QED BY <1>4, <1>6, <1>7, <1>8, <1>9, <1>10, <1>11 DEF RegistrySound

\* The steps of a call that only look at the segments or move the clock.
LEMMA ClockSteps ==
  ASSUME RegistrySound, TypeOK',
         \/ Settle
         \/ \E bound \in now .. Horizon : WaitUntil(bound)
  PROVE  RegistrySound'
<1>1. /\ UNCHANGED <<completed, started, dead, dags, owned, pending, todo>>
      /\ phase' = "idle" /\ todo = {}
      /\ \E t : RefreshAndReport(t)
  BY DEF Settle, WaitUntil, Idle, dagVars, markVars, runVars, callVars, RegistrySound, LoopShape
<1>2. PICK S \in SUBSET segs :
        /\ S \cap owned = {}
        /\ segs' = segs \ S
        /\ expiry' = [o \in Op |-> IF o \in S THEN 0 ELSE expiry[o]]
  BY <1>1, RefreshRemoves
<1>3. /\ InFlight' = InFlight
      /\ DagsOwned' /\ InputsSettled' /\ SegmentProvenance'
      /\ RegistriesAgree' /\ InputsExclusive' /\ CapacityRespected'
  BY <1>1, <1>2, SegmentsRemoved
<1>4. LoopShape' /\ MarkersMatchExecution'
  BY <1>1, <1>3 DEF RegistrySound, LoopShape, MarkersMatchExecution, Known
<1> QED BY <1>3, <1>4 DEF RegistrySound

\* The steps that move operations between _pending and the loop's own list.
LEMMA LoopSteps ==
  ASSUME RegistrySound, TypeOK',
         \/ \E bound \in now .. Horizon : Advance(bound)
         \/ BeginTimeout
         \/ Terminate
         \/ UNCHANGED vars
  PROVE  RegistrySound'
<1>1. UNCHANGED <<completed, started, dead, dags, owned, segs, expiry>>
  BY DEF Advance, BeginTimeout, Terminate, vars, dagVars, markVars, pairVars
<1>2. /\ InFlight' = InFlight
      /\ LoopShape'
  <2>1. ASSUME NEW bound \in now .. Horizon, Advance(bound)
        PROVE  InFlight' = InFlight /\ LoopShape'
    BY <2>1, IdleInFlight DEF Advance, Due, runVars, InFlight, LoopShape, RegistrySound
  <2>2. CASE BeginTimeout
    BY <2>2 DEF BeginTimeout, InFlight, LoopShape
  <2>3. CASE Terminate \/ UNCHANGED vars
    BY <2>3 DEF Terminate, vars, runVars, callVars, InFlight, LoopShape, RegistrySound
  <2> QED BY <2>1, <2>2, <2>3
<1>3. Joining' = Joining
  BY <1>2 DEF Joining
<1>4. CapacityRespected'
  BY <1>1, <1>2, CapacityShrinks DEF RegistrySound
<1>5. /\ DagsOwned' /\ InputsSettled' /\ MarkersMatchExecution'
      /\ SegmentProvenance' /\ RegistriesAgree' /\ InputsExclusive'
  BY <1>1, <1>2, <1>3 DEF RegistrySound, DagsOwned, InputsSettled, MarkersMatchExecution,
        SegmentProvenance, RegistriesAgree, InputsExclusive, Known, Pairs
<1> QED BY <1>2, <1>4, <1>5 DEF RegistrySound

\* A resource nothing names is not used.
LEMMA UsageOfNothing ==
  ASSUME NEW S, NEW A, NEW r, \A x \in S \cup A : r \notin Hold[x] \cup Demand[x]
  PROVE  Usage(S, A, r) = 0
<1>1. {s \in S : r \in Hold[s]} = {} /\ {o \in A : r \in Demand[o]} = {}
  OBVIOUS
<1>2. Cardinality({}) = 0
  BY FS_EmptySet
<1> QED BY <1>1, <1>2 DEF Usage

\* A launch: the operations are new, ready, and admitted beside the others.
LEMMA LaunchStep ==
  ASSUME RegistrySound, TypeOK', NEW ops \in SUBSET Ready, Launch(ops)
  PROVE  RegistrySound'
<1> DEFINE joining == Swaps(ops) \cup Purifies(ops)
           alive   == {s \in segs : Alive(s, now)}
<1>1. /\ Idle /\ UNCHANGED <<dags, completed, dead, phase, todo>>
      /\ owned' = owned \cup Inputs(joining)
      /\ started' = started \cup ops /\ pending' = pending \cup ops
      /\ Refresh(segs, expired, expiry, now)
      /\ LaunchAdmits(ops)
  BY DEF Launch, dagVars, callVars
<1>2. todo = {} /\ InFlight = pending
  BY <1>1, IdleInFlight DEF RegistrySound
<1>3. InFlight' = InFlight \cup ops /\ todo' = {}
  BY <1>1, <1>2 DEF InFlight
<1>4. Joining' = Joining \cup joining
  BY <1>3 DEF Joining, Swaps, Purifies
<1>5. /\ ops \subseteq Known /\ ops \subseteq Op
      /\ ops \cap completed = {} /\ ops \cap dead = {} /\ ops \cap pending = {}
      /\ \A o \in ops : Ins[o] \subseteq alive \ Inputs(pending)
  BY DEF Ready, Available, Known, RegistrySound, TypeOK
<1>6. /\ segs' = alive
      /\ Pairs' = Pairs \ (segs \ alive)
  <2>1. segs \ alive = {s \in segs : s \notin owned /\ expiry[s] <= now}
    BY DEF Alive, RegistrySound, TypeOK
  <2> QED BY <1>1, <2>1 DEF Refresh, Pairs
<1> HIDE DEF joining
<1>7. alive \subseteq segs /\ segs \cap owned \subseteq alive
  BY DEF Alive
<1> HIDE DEF alive
<1>8. DagsOwned'
  BY <1>1 DEF DagsOwned, RegistrySound
<1>9. InputsSettled'
  <2>1. \A o \in ops : \A i \in Ins[o] : i \in completed /\ Owner[i] = Owner[o]
    BY <1>1, <1>5, <1>7 DEF LaunchAdmits, RegistrySound, SegmentProvenance
  <2> QED BY <1>1, <2>1 DEF InputsSettled, RegistrySound
<1>10. LoopShape'
  BY <1>1, <1>3 DEF LoopShape, Idle
<1>11. MarkersMatchExecution'
  BY <1>1, <1>2, <1>3, <1>5 DEF MarkersMatchExecution, Known, RegistrySound
<1>12. Inputs(joining) \subseteq alive
  BY <1>5 DEF joining, Inputs, Swaps, Purifies
<1>13. Inputs(Joining') = Inputs(Joining) \cup Inputs(joining)
  BY <1>4 DEF Inputs
<1>14. SegmentProvenance'
  BY <1>1, <1>6, <1>7, <1>12, <1>13 DEF SegmentProvenance, RegistriesAgree, RegistrySound
<1>15. RegistriesAgree'
  BY <1>1, <1>6, <1>7, <1>13 DEF RegistriesAgree, RegistrySound
<1>16. InputsExclusive'
  <2>1. \A a, b \in ops : a # b => Ins[a] \cap Ins[b] = {}
    BY <1>1 DEF LaunchAdmits, SchedulerAdmits, InputsUnique
  <2>2. \A a \in ops, b \in InFlight : Ins[a] \cap Ins[b] = {}
    BY <1>2, <1>5 DEF Inputs
  <2> QED BY <1>3, <2>1, <2>2 DEF InputsExclusive, RegistrySound
<1>17. CapacityRespected'
  <2>1. SUFFICES ASSUME NEW r \in Resource PROVE Usage(alive, pending \cup ops, r) <= Capacity[r]
    BY <1>2, <1>3, <1>6 DEF CapacityRespected
  <2>2. WithinCapacity(alive, pending \cup ops)
    BY <1>1 DEF LaunchAdmits, SchedulerAdmits, alive
  <2>3. CASE r \in UNION {Hold[x] \cup Demand[x] : x \in alive \cup (pending \cup ops)}
    BY <2>2, <2>3 DEF WithinCapacity
  <2>4. CASE r \notin UNION {Hold[x] \cup Demand[x] : x \in alive \cup (pending \cup ops)}
    <3>1. Usage(alive, pending \cup ops, r) = 0
      BY <2>4, UsageOfNothing
    <3> QED BY <3>1, CapacityNatural
  <2> QED BY <2>3, <2>4
<1> QED BY <1>8, <1>9, <1>10, <1>11, <1>14, <1>15, <1>16, <1>17 DEF RegistrySound

\* Settling one operation, as far as every outcome agrees: the operation is
\* not in flight any more, and only its own inputs stop being owned.
LEMMA RetireStep ==
  ASSUME RegistrySound, NEW o \in Op, Retire(o), phase # "idle"
  PROVE  /\ o \in InFlight /\ o \in started /\ o \notin completed /\ o \notin dead
         /\ InFlight' = InFlight \ {o}
         /\ started' = started \ {o}
         /\ dags' = dags
         /\ LoopShape' /\ DagsOwned' /\ InputsExclusive'
         /\ Inputs(Joining') = Inputs(Joining) \ Ins[o]
         /\ owned' = Inputs(Joining')
<1> USE DEF RegistrySound
<1>1. /\ o \in todo /\ todo' = todo \ {o} /\ pending' = pending \ {o}
      /\ started' = started \ {o} /\ owned' = owned \ Ins[o]
      /\ dags' = dags /\ phase' = phase
  BY DEF Retire, dagVars
<1>2. o \in InFlight /\ InFlight' = InFlight \ {o}
  BY <1>1 DEF InFlight
<1>3. o \in started /\ o \notin completed /\ o \notin dead
  BY <1>2 DEF MarkersMatchExecution
<1>4. LoopShape' /\ DagsOwned'
  BY <1>1 DEF LoopShape, DagsOwned
<1>5. InputsExclusive'
  BY <1>2 DEF InputsExclusive
<1>6. Joining' = Joining \ {o}
  BY <1>2 DEF Joining, Swaps, Purifies
<1>7. Inputs(Joining') = Inputs(Joining) \ Ins[o]
  <2>1. \A a \in Joining \ {o} : Ins[a] \cap Ins[o] = {}
    BY <1>2 DEF InputsExclusive, Joining, Swaps, Purifies
  <2> QED BY <1>6, <2>1 DEF Inputs
<1>8. owned' = Inputs(Joining')
  BY <1>1, <1>7 DEF RegistriesAgree
<1> QED BY <1>1, <1>2, <1>3, <1>4, <1>5, <1>7, <1>8

\* A settled operation leaves one marker, whichever it is.
LEMMA MarkersSettled ==
  ASSUME RegistrySound, NEW o \in Op, Retire(o), phase # "idle",
         \/ completed' = completed \cup {o} /\ dead' = dead
         \/ dead' = dead \cup {o} /\ completed' = completed
  PROVE  MarkersMatchExecution' /\ InputsSettled'
<1>1. /\ o \in started /\ o \notin completed /\ o \notin dead
      /\ InFlight' = InFlight \ {o} /\ started' = started \ {o} /\ dags' = dags
  BY RetireStep
<1>2. Known' = Known
  BY <1>1 DEF Known
<1>3. MarkersMatchExecution'
  BY <1>1, <1>2 DEF RegistrySound, MarkersMatchExecution
<1>4. InputsSettled'
  BY <1>1 DEF RegistrySound, InputsSettled
<1> QED BY <1>3, <1>4

\* A release frees its inputs.
LEMMA ReleaseStep ==
  ASSUME RegistrySound, TypeOK', NEW o \in Op, Release(o)
  PROVE  RegistrySound'
<1> USE DEF RegistrySound
<1>1. /\ Retire(o) /\ phase # "idle"
      /\ completed' = completed \cup {o} /\ dead' = dead
      /\ segs' = segs \ Ins[o] /\ expiry' = Expiries(o)
  BY DEF Release, Consumed
<1>2. /\ InFlight' = InFlight \ {o}
      /\ LoopShape' /\ DagsOwned' /\ InputsExclusive'
      /\ Inputs(Joining') = Inputs(Joining) \ Ins[o]
      /\ owned' = Inputs(Joining')
  BY <1>1, RetireStep
<1>3. MarkersMatchExecution' /\ InputsSettled'
  BY <1>1, MarkersSettled
<1>4. Inputs(completed') = Inputs(completed) \cup Ins[o]
  BY <1>1 DEF Inputs
<1>5. SegmentProvenance'
  BY <1>1, <1>2, <1>4 DEF SegmentProvenance
<1>6. RegistriesAgree'
  BY <1>1, <1>2 DEF RegistriesAgree, Pairs, Expiries, Consumed
<1>7. CapacityRespected'
  BY <1>1, <1>2, CapacityShrinks
<1> QED BY <1>2, <1>3, <1>5, <1>6, <1>7

\* A failure frees its inputs too, and whatever decohered meanwhile.
LEMMA FailStep ==
  ASSUME RegistrySound, TypeOK', NEW o \in Op, Fail(o)
  PROVE  RegistrySound'
<1> USE DEF RegistrySound
<1> DEFINE stale == {s \in segs \ Ins[o] : s \notin owned /\ Expiries(o)[s] <= now}
<1>1. /\ Retire(o) /\ phase # "idle"
      /\ dead' = dead \cup {o} /\ completed' = completed
      /\ segs' = (segs \ Ins[o]) \ stale
      /\ expiry' = [p \in Op |-> IF p \in stale THEN 0 ELSE Expiries(o)[p]]
  <2>1. phase # "idle"
    BY DEF Fail, Retire, LoopShape
  <2> QED BY <2>1 DEF Fail, Consumed, Refresh
<1>2. /\ InFlight' = InFlight \ {o}
      /\ LoopShape' /\ DagsOwned' /\ InputsExclusive'
      /\ Inputs(Joining') = Inputs(Joining) \ Ins[o]
      /\ owned' = Inputs(Joining')
  BY <1>1, RetireStep
<1>3. MarkersMatchExecution' /\ InputsSettled'
  BY <1>1, MarkersSettled
<1>4. stale \subseteq segs /\ stale \cap Inputs(Joining) = {}
  BY DEF RegistriesAgree
<1> HIDE DEF stale
<1>5. SegmentProvenance'
  BY <1>1, <1>2, <1>4 DEF SegmentProvenance
<1>6. RegistriesAgree'
  BY <1>1, <1>2 DEF RegistriesAgree, Pairs, Expiries, Consumed
<1>7. CapacityRespected'
  BY <1>1, <1>2, CapacityShrinks
<1> QED BY <1>2, <1>3, <1>5, <1>6, <1>7

\* A success replaces the inputs by the output, for which there is room.
LEMMA CompleteStep ==
  ASSUME RegistrySound, TypeOK', NEW o \in Op, NEW life \in Lifetimes, Complete(o, life)
  PROVE  RegistrySound'
<1> USE DEF RegistrySound
<1>1. /\ Retire(o) /\ phase = "completing" /\ OutputFits(o)
      /\ completed' = completed \cup {o} /\ dead' = dead
      /\ segs' = (segs \ Ins[o]) \cup {o}
      /\ expiry' = [Expiries(o) EXCEPT ![o] = now + life]
  BY DEF Complete, Consumed
<1>2. /\ InFlight' = InFlight \ {o} /\ o \in started /\ o \notin completed
      /\ LoopShape' /\ DagsOwned' /\ InputsExclusive'
      /\ Inputs(Joining') = Inputs(Joining) \ Ins[o]
      /\ owned' = Inputs(Joining')
  BY <1>1, RetireStep
<1>3. MarkersMatchExecution' /\ InputsSettled'
  BY <1>1, MarkersSettled
<1>4. SegmentProvenance'
  <2>1. Inputs(completed') = Inputs(completed) \cup Ins[o]
    BY <1>1 DEF Inputs
  <2>2. Inputs(completed) \cup Ins[o] \subseteq completed
    BY <1>2 DEF InputsSettled, Inputs
  <2> QED BY <1>1, <1>2, <2>1, <2>2 DEF SegmentProvenance
<1>5. RegistriesAgree'
  <2>1. now + life # 0 /\ Expiries(o) \in [Op -> Nat]
    BY ExecutorAssumption DEF TypeOK, Expiries
  <2>2. Pairs' = {p \in Op : Expiries(o)[p] # 0} \cup {o}
    BY <1>1, <2>1 DEF Pairs
  <2>3. {p \in Op : Expiries(o)[p] # 0} = Pairs \ Ins[o]
    BY DEF Pairs, Expiries, Consumed
  <2> QED BY <1>1, <1>2, <2>2, <2>3 DEF RegistriesAgree
<1>6. CapacityRespected'
  <2> DEFINE S == segs \ Ins[o]
             A == pending \ {o}
  <2>1. SUFFICES ASSUME NEW r \in Resource PROVE Usage(S \cup {o}, A, r) <= Capacity[r]
    BY <1>1, <1>2 DEF CapacityRespected, InFlight, LoopShape
  <2>2. /\ S \in SUBSET Op /\ A \in SUBSET Op /\ S \cup {o} \in SUBSET Op
        /\ segs \in SUBSET Op /\ InFlight \in SUBSET Op
        /\ S \in SUBSET segs /\ A \in SUBSET InFlight
    BY DEF TypeOK, InFlight
  <2>3. /\ Usage(S \cup {o}, A, r) \in Nat /\ Usage(S, A, r) \in Nat
        /\ Usage(segs, InFlight, r) \in Nat
        /\ Usage(S, A, r) <= Usage(segs, InFlight, r)
    BY <2>2, UsageMonotone
  <2>4. Usage(S \cup {o}, A, r) <= Usage(S, A, r) + (IF r \in Hold[o] THEN 1 ELSE 0)
    BY <2>2, UsageOfOutput
  <2>5. /\ Usage(segs, InFlight, r) <= Capacity[r] /\ Capacity[r] \in Nat
    BY CapacityNatural DEF CapacityRespected
  <2>6. r \in Hold[o] => Usage(S, A, r) + 1 <= Capacity[r]
    BY <1>1 DEF OutputFits, Consumed
  <2> QED BY <2>3, <2>4, <2>5, <2>6
<1> QED BY <1>2, <1>3, <1>4, <1>5, <1>6

-----------------------------------------------------------------------------
(* The theorems                                                            *)

\* Every step of the executor preserves the agreement of its registries.
LEMMA RegistryStep == RegistrySound /\ [Next]_vars => RegistrySound'
<1> SUFFICES ASSUME RegistrySound, [Next]_vars PROVE RegistrySound'
  OBVIOUS
<1>1. TypeOK'
  BY TypeStep DEF RegistrySound
<1>2. ASSUME NEW r \in Request, NEW ops \in Plans[r], Register(r, ops) PROVE RegistrySound'
  BY <1>1, <1>2, RegisterStep
<1>3. ASSUME NEW r \in Request, Unregister(r) PROVE RegistrySound'
  BY <1>1, <1>3, UnregisterStep
<1>4. ASSUME NEW r \in Request, NEW ops \in Repairs[r], NEW supersede \in BOOLEAN,
             Repair(r, ops, supersede)
      PROVE  RegistrySound'
  BY <1>1, <1>4, RepairStep
<1>5. CASE (\E s \in Op : ReleaseSegment(s)) \/ (\E r \in Request : ReleaseRequest(r))
  BY <1>1, <1>5, ReleaseGivesBack, GiveBackStep
<1>6. ASSUME NEW ops \in SUBSET Ready, Launch(ops) PROVE RegistrySound'
  BY <1>1, <1>6, LaunchStep
<1>7. CASE Settle \/ \E bound \in now .. Horizon : WaitUntil(bound)
  BY <1>1, <1>7, ClockSteps
<1>8. CASE \/ \E bound \in now .. Horizon : Advance(bound)
           \/ BeginTimeout \/ Terminate \/ UNCHANGED vars
  BY <1>1, <1>8, LoopSteps
<1>9. ASSUME NEW o \in Op, Release(o) PROVE RegistrySound'
  BY <1>1, <1>9, ReleaseStep
<1>10. ASSUME NEW o \in Op, Fail(o) PROVE RegistrySound'
  BY <1>1, <1>10, FailStep
<1>11. ASSUME NEW o \in Op, NEW life \in Lifetimes, Complete(o, life) PROVE RegistrySound'
  BY <1>1, <1>11, CompleteStep
<1> QED BY <1>2, <1>3, <1>4, <1>5, <1>6, <1>7, <1>8, <1>9, <1>10, <1>11 DEF Next, Finish

\* The markers, segments, pairs and capacities of the executor agree for ever.
THEOREM RegistryInvariant == Spec => []RegistrySound
<1>1. Init => RegistrySound
  BY RegistryInit
<1>2. RegistrySound /\ [Next]_vars => RegistrySound'
  BY RegistryStep
<1> QED BY <1>1, <1>2, PTL DEF Spec

\* Every variable keeps its type.
THEOREM TypeCorrect == Spec => []TypeOK
<1>1. RegistrySound => TypeOK
  BY DEF RegistrySound
<1> QED BY <1>1, RegistryInvariant, PTL

\* The DAG markers and the operations in flight never disagree.
THEOREM MarkersCorrect == Spec => []MarkersMatchExecution
<1>1. RegistrySound => MarkersMatchExecution
  BY DEF RegistrySound
<1> QED BY <1>1, RegistryInvariant, PTL

\* A segment is live only between its production and its consumption, and a
\* joining operation always has its inputs.
THEOREM ProvenanceCorrect == Spec => []SegmentProvenance
<1>1. RegistrySound => SegmentProvenance
  BY DEF RegistrySound
<1> QED BY <1>1, RegistryInvariant, PTL

\* No segment is consumed by two operations in flight.
THEOREM ExclusiveInputs == Spec => []InputsExclusive
<1>1. RegistrySound => InputsExclusive
  BY DEF RegistrySound
<1> QED BY <1>1, RegistryInvariant, PTL

\* The segment registry and the backend's pairs never disagree.
THEOREM RegistriesCorrect == Spec => []RegistriesAgree
<1>1. RegistrySound => RegistriesAgree
  BY DEF RegistrySound
<1> QED BY <1>1, RegistryInvariant, PTL

\* No capacity is ever exceeded, whatever succeeds, fails or expires.
THEOREM CapacityCorrect == Spec => []CapacityRespected
<1>1. RegistrySound => CapacityRespected
  BY DEF RegistrySound
<1> QED BY <1>1, RegistryInvariant, PTL

\* Admission at launch is enough: the output of an operation always finds room
\* when the operation ends, so the executor's second capacity check is dead code
\* for the resources the planners declare.
THEOREM NoLateCapacityCorrect == Spec => []NoLateCapacity
<1>1. RegistrySound => NoLateCapacity
  <2> SUFFICES ASSUME RegistrySound, phase = "completing", NEW o \in todo, NEW r \in Hold[o]
               PROVE  Usage(segs \ Ins[o], pending \ {o}, r) + 1 <= Capacity[r]
    BY DEF NoLateCapacity, OutputFits, Consumed
  <2> USE DEF RegistrySound
  <2>1. o \in pending /\ InFlight = pending /\ o \in Op /\ pending \in SUBSET Op /\ segs \in SUBSET Op
    BY DEF LoopShape, InFlight, TypeOK
  <2>2. Ins[o] \subseteq segs
    <3>1. Kind[o] \in {"GEN", "PURIFY", "SWAP"}
      BY <2>1, OperationAssumption DEF Hold, OperationKind
    <3>2. Kind[o] = "GEN" => Ins[o] = {}
      BY <2>1, ShapeAssumption DEF WellShaped
    <3>3. Kind[o] \in {"PURIFY", "SWAP"} => o \in Joining
      BY <2>1 DEF Joining, Swaps, Purifies
    <3> QED BY <3>1, <3>2, <3>3 DEF SegmentProvenance, Inputs
  <2>3. \/ \E x \in segs \ (segs \ Ins[o]) : r \in Hold[x]
        \/ \E x \in pending \ (pending \ {o}) : r \in Demand[x]
    BY <2>1, <2>2, HoldCovered
  <2>4. Usage(segs \ Ins[o], pending \ {o}, r) + 1 <= Usage(segs, pending, r)
    BY <2>1, <2>3, UsageDrops
  <2>5. /\ Usage(segs, pending, r) \in Nat
        /\ Usage(segs \ Ins[o], pending \ {o}, r) \in Nat
    BY <2>1, UsageMonotone
  <2>6. r \in Resource
    BY <2>1, HoldNamesResources
  <2>7. Usage(segs, pending, r) <= Capacity[r] /\ Capacity[r] \in Nat
    BY <2>1, <2>6, CapacityNatural DEF CapacityRespected
  <2> QED BY <2>4, <2>5, <2>7
<1> QED BY <1>1, RegistryInvariant, PTL

-----------------------------------------------------------------------------
(* The committed prefix                                                    *)

\* Steps that neither drop nor extend a DAG.
LEMMA MarkersOnly ==
  ASSUME TypeOK, UNCHANGED dagVars, completed \subseteq completed', dead \subseteq dead',
         started \subseteq started' \cup completed' \cup dead'
  PROVE  PrefixKept
BY DEF PrefixKept, dagVars, TypeOK

\* The operations of two DAGs are different operations.
LEMMA DagsApart ==
  ASSUME RegistrySound, NEW q \in Request, NEW r \in Request, q # r
  PROVE  dags[q] \cap dags[r] = {}
BY DEF RegistrySound, DagsOwned

LEMMA PrefixStep == RegistrySound /\ [Next]_vars => PrefixKept
<1> SUFFICES ASSUME RegistrySound, [Next]_vars PROVE PrefixKept
  OBVIOUS
<1> USE DEF RegistrySound
<1>1. ASSUME NEW r \in Request, NEW ops \in Plans[r], Register(r, ops) PROVE PrefixKept
  BY <1>1 DEF Register, markVars, PrefixKept, TypeOK
<1>2. ASSUME NEW r \in Request, Unregister(r) PROVE PrefixKept
  <2> SUFFICES ASSUME NEW q \in Request, dags'[q] # {}
               PROVE  /\ dags[q] \subseteq dags'[q] /\ version[q] <= version'[q]
                      /\ completed \cap dags[q] \subseteq completed'
                      /\ dead \cap dags[q] \subseteq dead'
                      /\ started \cap dags[q] \subseteq started' \cup completed' \cup dead'
    BY DEF PrefixKept
  <2>1. q # r
    BY <1>2 DEF Unregister, TypeOK
  <2>2. dags'[q] = dags[q] /\ version'[q] = version[q] /\ version[q] \in Nat
    BY <1>2, <2>1 DEF Unregister, TypeOK
  <2>3. dags[q] \cap dags[r] = {}
    BY <2>1, DagsApart
  <2> QED BY <1>2, <2>2, <2>3 DEF Unregister
<1>3. ASSUME NEW r \in Request, NEW ops \in Repairs[r], NEW supersede \in BOOLEAN,
             Repair(r, ops, supersede)
      PROVE  PrefixKept
  <2> SUFFICES ASSUME NEW q \in Request
               PROVE  dags[q] \subseteq dags'[q] /\ version[q] <= version'[q]
    BY <1>3 DEF Repair, PrefixKept
  <2>1. /\ dags' = [dags EXCEPT ![r] = dags[r] \cup ops]
        /\ version' = [version EXCEPT ![r] = version[r] + 1]
    BY <1>3 DEF Repair, Repaired
  <2> QED BY <2>1 DEF TypeOK
<1>4. ASSUME NEW ops \in SUBSET Ready, Launch(ops) PROVE PrefixKept
  BY <1>4, MarkersOnly DEF Launch
<1>5. CASE Finish
  <2>1. PICK o \in Op : Release(o) \/ Fail(o) \/ \E life \in Lifetimes : Complete(o, life)
    BY <1>5 DEF Finish
  <2>2. started' = started \ {o} /\ UNCHANGED dagVars
    BY <2>1 DEF Release, Fail, Complete, Retire
  <2>3. /\ completed \subseteq completed' /\ dead \subseteq dead'
        /\ o \in completed' \cup dead'
    BY <2>1 DEF Release, Fail, Complete
  <2> QED BY <2>2, <2>3, MarkersOnly
<1>6. CASE UNCHANGED dagVars /\ UNCHANGED markVars
  BY <1>6, MarkersOnly DEF markVars
<1> QED BY <1>1, <1>2, <1>3, <1>4, <1>5, <1>6
        DEF Next, ReleaseSegment, ReleaseRequest, Advance, BeginTimeout, Settle, WaitUntil, Terminate, vars

\* Repairs, reroutes, failures and the horizon never take an operation out of
\* a registered DAG, turn its version back or forget what was committed.
THEOREM PrefixImmutable == Spec => CommittedPrefixImmutable
<1>1. RegistrySound /\ [Next]_vars => [PrefixKept]_vars
  BY PrefixStep
<1> QED BY <1>1, RegistryInvariant, PTL DEF Spec, CommittedPrefixImmutable

-----------------------------------------------------------------------------
(* The contract                                                            *)

\* The status of an operation is the one marker it carries.
StatusTable ==
  \A o \in Op : /\ o \in completed <=> Status(o) = "done"
                /\ o \in dead <=> Status(o) = "dead"
                /\ o \in started <=> Status(o) = "running"
                /\ o \in Known \ (completed \cup started \cup dead) <=> Status(o) = "waiting"
                /\ o \notin Known <=> Status(o) = "absent"

LEMMA StatusOf == RegistrySound => StatusTable
<1> SUFFICES ASSUME RegistrySound, NEW o \in Op
             PROVE  /\ o \in completed <=> Status(o) = "done"
                    /\ o \in dead <=> Status(o) = "dead"
                    /\ o \in started <=> Status(o) = "running"
                    /\ o \in Known \ (completed \cup started \cup dead) <=> Status(o) = "waiting"
                    /\ o \notin Known <=> Status(o) = "absent"
  BY DEF StatusTable
<1>1. /\ completed \cup started \cup dead \subseteq Known
      /\ completed \cap dead = {} /\ started \cap (completed \cup dead) = {}
  BY DEF RegistrySound, MarkersMatchExecution
<1>2. CASE o \in completed
  BY <1>1, <1>2 DEF Status
<1>3. CASE o \in dead
  BY <1>1, <1>3 DEF Status
<1>4. CASE o \in started
  BY <1>1, <1>4 DEF Status
<1>5. CASE o \in Known \ (completed \cup started \cup dead)
  BY <1>1, <1>5 DEF Status
<1>6. CASE o \notin Known
  BY <1>1, <1>6 DEF Status
<1> QED BY <1>2, <1>3, <1>4, <1>5, <1>6

LEMMA StatusNext == RegistrySound' => StatusTable'
BY StatusOf, PTL

\* The contract charges the resources as the executor does.
LEMMA SameHold == Contract!Hold = Hold
BY DEF Contract!Hold, Hold, Contract!Memories, Memories

LEMMA SameDemand == Contract!Demand = Demand
BY DEF Contract!Demand, Demand, Contract!Memories, Memories,
       Contract!Nodes, Nodes, Contract!Middles, Middles

LEMMA SameCapacity == Contract!Resource = Resource /\ Contract!Capacity = Capacity
BY DEF Contract!Resource, Resource, Contract!Capacity, Capacity,
       Contract!MemorySize, MemorySize, Contract!Degree, Degree

\* So the sets of the contract are the sets of the executor, and its budget holds.
ContractSets ==
  /\ Contract!With("done") = completed
  /\ Contract!With("running") = InFlight
  /\ Contract!With("waiting") = Known \ (completed \cup started \cup dead)
  /\ Contract!With("absent") = Op \ Known
  /\ Contract!Reserved = Inputs(Joining)
  /\ Contract!WithinBudget

LEMMA StatusSets == RegistrySound => ContractSets
<1> SUFFICES ASSUME RegistrySound PROVE ContractSets
  OBVIOUS
<1>1. completed \subseteq Op /\ started \subseteq Op /\ Known \subseteq Op /\ started = InFlight
  BY DEF RegistrySound, TypeOK, MarkersMatchExecution, Known
<1>2. \A s : Contract!With(s) = {o \in Op : Status(o) = s}
  BY DEF Contract!With
<1>3. StatusTable
  BY StatusOf
<1>4. Contract!With("done") = completed /\ Contract!With("running") = InFlight
  BY <1>1, <1>2, <1>3 DEF StatusTable
<1>5. Contract!With("waiting") = Known \ (completed \cup started \cup dead)
  BY <1>1, <1>2, <1>3 DEF StatusTable
<1>6. Contract!With("absent") = Op \ Known
  BY <1>1, <1>2, <1>3 DEF StatusTable
<1>7. Contract!Reserved = Inputs(Joining)
  BY <1>4 DEF Contract!Reserved, Contract!Swaps, Contract!Purifies, Contract!Inputs,
             Joining, Swaps, Purifies, Inputs
<1>8. Contract!WithinBudget
  <2>1. CapacityRespected
    BY DEF RegistrySound
  <2>2. \A S : Contract!Cardinality(S) = Cardinality(S)
    BY Zenon DEF Contract!Cardinality, Cardinality
  <2>3. \A r \in Resource : Usage(segs, InFlight, r) <= Capacity[r]
    BY <2>1 DEF CapacityRespected
  <2>4. \A r \in Resource :
           Contract!Cardinality({s \in segs : r \in Hold[s]})
             + Contract!Cardinality({o \in InFlight : r \in Demand[o]}) <= Capacity[r]
    BY <2>2, <2>3 DEF Usage
  <2> QED BY <1>4, <2>4, SameHold, SameDemand, SameCapacity, Zenon DEF Contract!WithinBudget
<1> QED BY <1>4, <1>5, <1>6, <1>7, <1>8 DEF ContractSets

LEMMA StatusSetsNext == RegistrySound' => ContractSets'
BY StatusSets, PTL

\* Joining operations never lose an input.
LEMMA ReservedKept == RegistrySound' => Contract!Keeps
BY StatusSetsNext DEF ContractSets, Contract!Keeps, RegistrySound, SegmentProvenance

-----------------------------------------------------------------------------
(* Every action, as a step of the contract                                 *)

\* A step that only loses segments.
LEMMA LoseStep ==
  ASSUME RegistrySound', UNCHANGED <<dagVars, markVars>>, segs' \subseteq segs
  PROVE  Contract!Next
<1>1. [o \in Op |-> Status(o)]' = [o \in Op |-> Status(o)]
  BY DEF Status, Known, dagVars, markVars
<1>2. Contract!Lose
  BY <1>1, ReservedKept DEF Contract!Lose
<1> QED BY <1>2 DEF Contract!Next

\* Operations of one request appear, and some that waited are retired.
LEMMA EnterShape ==
  ASSUME RegistrySound, RegistrySound', segs' \subseteq segs,
         NEW r \in Request, NEW ops \in SUBSET Op, NEW retired \in {{}, Contract!Of(r, "waiting")},
         ops \cap Known = {}, \A o \in ops : Owner[o] = r,
         Known' = Known \cup ops,
         UNCHANGED <<completed, started>>, dead' = dead \cup retired
  PROVE  Contract!Next
<1> USE DEF RegistrySound
<1>1. /\ StatusTable /\ StatusTable' /\ ContractSets
      /\ completed \cup started \cup dead \subseteq Known
  BY StatusOf, StatusNext, StatusSets DEF MarkersMatchExecution
<1>2. retired \subseteq Known \ (completed \cup started \cup dead)
  BY <1>1 DEF ContractSets, Contract!Of
<1>3. \A o \in Op : Status(o)' = IF o \in retired THEN "dead"
                                ELSE IF o \in ops THEN "waiting" ELSE Status(o)
  <2> SUFFICES ASSUME NEW o \in Op
               PROVE  Status(o)' = IF o \in retired THEN "dead"
                                   ELSE IF o \in ops THEN "waiting" ELSE Status(o)
    OBVIOUS
  <2>1. CASE o \in retired
    BY <1>1, <1>2, <2>1 DEF StatusTable
  <2>2. CASE o \in ops
    BY <1>1, <1>2, <2>2 DEF StatusTable
  <2>3. CASE o \notin retired /\ o \notin ops
    BY <2>3 DEF Status
  <2> QED BY <1>2, <2>1, <2>2, <2>3
<1>4. [o \in Op |-> Status(o)]' =
        [o \in Op |-> IF o \in retired THEN "dead" ELSE Contract!Becomes(ops, "waiting")[o]]
  BY <1>3 DEF Contract!Becomes
<1>5. ops \in SUBSET Contract!Of(r, "absent")
  BY <1>1 DEF ContractSets, Contract!Of
<1>6. Contract!Enter(r, ops)
  BY <1>4, ReservedKept DEF Contract!Enter
<1> QED BY <1>5, <1>6 DEF Contract!Next

\* A DAG arrives.
LEMMA RegisterEnters ==
  ASSUME RegistrySound, RegistrySound', NEW r \in Request, NEW ops \in Plans[r], Register(r, ops)
  PROVE  Contract!Next
<1>1. dags' = [dags EXCEPT ![r] = ops] /\ dags[r] = {} /\ ops \in SUBSET Op
  BY ExecutorAssumption DEF Register
<1>2. Known' = Known \cup ops
  BY <1>1 DEF Known, RegistrySound, TypeOK
<1>3. /\ ops \cap Known = {} /\ \A o \in ops : Owner[o] = r
      /\ UNCHANGED <<completed, started>> /\ dead' = dead \cup {} /\ segs' \subseteq segs
  BY DEF Register, WellFormed, markVars, pairVars
<1> QED BY <1>1, <1>2, <1>3, EnterShape

\* A repair arrives; a reroute retires what has not started.
LEMMA RepairEnters ==
  ASSUME RegistrySound, RegistrySound', NEW r \in Request, NEW ops \in Repairs[r],
         NEW supersede \in BOOLEAN, Repair(r, ops, supersede)
  PROVE  Contract!Next
<1> DEFINE retired == IF supersede THEN Obsolete(r) ELSE {}
<1>1. /\ dags' = [dags EXCEPT ![r] = dags[r] \cup ops] /\ ops \in SUBSET Op
      /\ ops \cap Known = {} /\ \A o \in ops : Owner[o] = r
      /\ supersede => started \cap dags[r] = {}
      /\ UNCHANGED <<completed, started>>
      /\ dead' = dead \cup retired
      /\ segs' \subseteq segs
  BY ExecutorAssumption DEF Repair, RepairAdmits, WellFormed, Repaired, Refresh
<1>2. Known' = Known \cup ops
  BY <1>1 DEF Known, RegistrySound, TypeOK
<1>3. retired \in {{}, Contract!Of(r, "waiting")}
  <2>1. dags[r] = {o \in Known : Owner[o] = r}
    BY DEF Known, RegistrySound, DagsOwned
  <2> QED BY <1>1, <2>1, StatusSets DEF ContractSets, Contract!Of, Obsolete
<1> HIDE DEF retired
<1> QED BY <1>1, <1>2, <1>3, EnterShape

\* A DAG is dropped.
LEMMA LeaveStep ==
  ASSUME RegistrySound, RegistrySound', NEW r \in Request, Unregister(r)
  PROVE  Contract!Next
<1> USE DEF RegistrySound
<1>1. /\ dags' = [dags EXCEPT ![r] = {}]
      /\ completed' = completed \ dags[r] /\ started' = started \ dags[r] /\ dead' = dead \ dags[r]
      /\ segs' = {s \in segs : Owner[s] # r}
      /\ Idle /\ OwnedBy(r, pending) = {}
  BY DEF Unregister, Discard, OwnedBy
<1>2. dags[r] = {o \in Known : Owner[o] = r}
  BY DEF Known, DagsOwned
<1>3. Known' = Known \ dags[r]
  BY <1>1, DagsApart DEF Known, TypeOK
<1>4. StatusTable /\ StatusTable' /\ ContractSets
  BY StatusOf, StatusNext, StatusSets
<1>5. \A o \in Op : Status(o)' = IF Owner[o] = r THEN "absent" ELSE Status(o)
  <2> SUFFICES ASSUME NEW o \in Op
               PROVE  Status(o)' = IF Owner[o] = r THEN "absent" ELSE Status(o)
    OBVIOUS
  <2>1. CASE Owner[o] = r
    BY <1>2, <1>3, <1>4, <2>1 DEF StatusTable
  <2>2. CASE Owner[o] # r
    BY <1>1, <1>2, <1>3, <2>2 DEF Status
  <2> QED BY <2>1, <2>2
<1>6. [o \in Op |-> Status(o)]' = [o \in Op |-> IF Owner[o] = r THEN "absent" ELSE [p \in Op |-> Status(p)][o]]
  BY <1>5
<1>7. Contract!Of(r, "running") = {}
  <2>1. InFlight = pending
    BY <1>1, IdleInFlight
  <2> QED BY <1>1, <1>4, <2>1 DEF ContractSets, Contract!Of, OwnedBy
<1>8. Contract!Leave(r)
  BY <1>1, <1>6, <1>7 DEF Contract!Leave
<1> QED BY <1>8 DEF Contract!Next

\* A launch.
LEMMA StartStep ==
  ASSUME RegistrySound, RegistrySound', NEW ops \in SUBSET Ready, Launch(ops)
  PROVE  Contract!Next
<1> USE DEF RegistrySound
<1>1. /\ Idle /\ ops # {} /\ UNCHANGED <<dagVars, completed, dead>>
      /\ started' = started \cup ops /\ pending' = pending \cup ops /\ todo' = todo
      /\ segs' \subseteq segs
  BY DEF Launch, LaunchAdmits, Refresh, callVars
<1>2. InFlight = pending /\ InFlight' = pending \cup ops
  BY <1>1, IdleInFlight DEF InFlight
<1>3. /\ ops \subseteq Op /\ ops \subseteq Known \ (completed \cup started \cup dead)
      /\ \A o \in ops : Preds[o] \subseteq completed /\ Ins[o] \subseteq segs
  BY DEF Ready, Known, TypeOK, Available
<1>4. StatusTable /\ StatusTable' /\ ContractSets /\ ContractSets'
  BY StatusOf, StatusNext, StatusSets, StatusSetsNext
<1>5. \A o \in Op : Status(o)' = IF o \in ops THEN "running" ELSE Status(o)
  <2> SUFFICES ASSUME NEW o \in Op PROVE Status(o)' = IF o \in ops THEN "running" ELSE Status(o)
    OBVIOUS
  <2>1. CASE o \in ops
    BY <1>1, <1>4, <2>1 DEF StatusTable
  <2>2. CASE o \notin ops
    BY <1>1, <2>2 DEF Status, Known, dagVars
  <2> QED BY <2>1, <2>2
<1>6. [o \in Op |-> Status(o)]' = Contract!Becomes(ops, "running")
  BY <1>5 DEF Contract!Becomes
<1>7. ops \in SUBSET Contract!With("waiting")
  BY <1>3, <1>4 DEF ContractSets
<1>8. \A o \in ops : /\ Preds[o] \subseteq Contract!With("done")
                     /\ Ins[o] \subseteq segs
                     /\ \A p \in (ops \cup Contract!With("running")) \ {o} : Ins[o] \cap Ins[p] = {}
  BY <1>2, <1>3, <1>4 DEF ContractSets, InputsExclusive
<1>9. Contract!WithinBudget'
  BY <1>4 DEF ContractSets
<1>10. Contract!Start(ops)
  BY <1>1, <1>6, <1>8, <1>9, ReservedKept DEF Contract!Start
<1> QED BY <1>7, <1>10 DEF Contract!Next

\* An operation ends.
LEMMA EndStep ==
  ASSUME RegistrySound, RegistrySound', Finish
  PROVE  Contract!Next
<1> USE DEF RegistrySound
<1>1. PICK o \in Op : Release(o) \/ Fail(o) \/ \E life \in Lifetimes : Complete(o, life)
  BY DEF Finish
<1>2. Retire(o) /\ phase # "idle" /\ UNCHANGED dagVars
  BY <1>1 DEF Release, Fail, Complete, Retire, LoopShape
<1>3. o \in InFlight /\ started' = started \ {o}
  BY <1>2, RetireStep
<1>4. StatusTable' /\ ContractSets
  BY StatusNext, StatusSets
<1>5. o \in Contract!With("running")
  BY <1>3, <1>4 DEF ContractSets
<1>6. ASSUME NEW s,
             \/ s = "done" /\ completed' = completed \cup {o} /\ dead' = dead
             \/ s = "dead" /\ dead' = dead \cup {o} /\ completed' = completed
      PROVE  [a \in Op |-> Status(a)]' = Contract!Becomes({o}, s)
  <2>1. \A a \in Op : Status(a)' = IF a \in {o} THEN s ELSE Status(a)
    <3> SUFFICES ASSUME NEW a \in Op PROVE Status(a)' = IF a \in {o} THEN s ELSE Status(a)
      OBVIOUS
    <3>1. CASE a = o
      BY <1>4, <1>6, <3>1 DEF StatusTable
    <3>2. CASE a # o
      BY <1>2, <1>3, <1>6, <3>2 DEF Status, Known, dagVars
    <3> QED BY <3>1, <3>2
  <2> QED BY <2>1 DEF Contract!Becomes
<1>7. CASE Fail(o)
  <2>1. dead' = dead \cup {o} /\ completed' = completed /\ segs' \subseteq segs \ Ins[o]
    BY <1>7 DEF Fail, Refresh, Consumed
  <2>2. Contract!Break(o)
    BY <1>6, <2>1, ReservedKept DEF Contract!Break
  <2> QED BY <1>5, <2>2 DEF Contract!Next
<1>8. CASE Release(o) \/ \E life \in Lifetimes : Complete(o, life)
  <2>1. /\ completed' = completed \cup {o} /\ dead' = dead
        /\ segs' = (segs \ Ins[o]) \cup (IF Kind[o] = "RELEASE" THEN {} ELSE {o})
    BY <1>8 DEF Release, Complete, Consumed
  <2>2. Contract!Succeed(o)
    BY <1>6, <2>1, ReservedKept DEF Contract!Succeed
  <2> QED BY <1>5, <2>2 DEF Contract!Next
<1> QED BY <1>1, <1>7, <1>8

\* The methods between calls, the clock and the end of a call start and finish
\* nothing: the contract sees at most a loss.
LEMMA QuietLoses ==
  ASSUME RegistrySound',
         \/ GivesBack
         \/ \E bound \in now .. Horizon : Advance(bound) \/ WaitUntil(bound)
         \/ BeginTimeout \/ Settle \/ Terminate
         \/ UNCHANGED vars
  PROVE  Contract!Next
<1>1. UNCHANGED <<dagVars, markVars>> /\ segs' \subseteq segs
  BY DEF GivesBack, Discard, Advance, WaitUntil, RefreshAndReport,
         BeginTimeout, Settle, Terminate, vars, pairVars
<1> QED BY <1>1, LoseStep

LEMMA StepMapped == RegistrySound /\ RegistrySound' /\ [Next]_vars => Contract!Next
<1> SUFFICES ASSUME RegistrySound, RegistrySound', [Next]_vars PROVE Contract!Next
  OBVIOUS
<1>1. CASE \E r \in Request : \E ops \in Plans[r] : Register(r, ops)
  BY <1>1, RegisterEnters
<1>2. CASE \E r \in Request : Unregister(r)
  BY <1>2, LeaveStep
<1>3. CASE \E r \in Request : \E ops \in Repairs[r], supersede \in BOOLEAN : Repair(r, ops, supersede)
  BY <1>3, RepairEnters
<1>4. CASE \E ops \in SUBSET Ready : Launch(ops)
  BY <1>4, StartStep
<1>5. CASE Finish
  BY <1>5, EndStep
<1> QED BY <1>1, <1>2, <1>3, <1>4, <1>5, QuietLoses, ReleaseGivesBack DEF Next

LEMMA InitMapped == Init => Contract!Init
<1> SUFFICES ASSUME Init PROVE Contract!Init
  OBVIOUS
<1>1. \A o \in Op : Status(o) \in {"absent", "waiting"}
  BY DEF Init, Status
<1>2. [o \in Op |-> Status(o)] \in [Op -> {"absent", "waiting"}] /\ segs = {}
  BY <1>1 DEF Init
<1> QED BY <1>2 DEF Contract!Init

\* Every behaviour of the executor is one of its contract: it starts operations
\* only from finished predecessors and live inputs, keeps what it joins, stays
\* within the capacities and restarts nothing (launch, _finish_pending).
THEOREM ContractImplemented == Spec => ImplementsContract
<1>1. RegistrySound /\ RegistrySound' /\ [Next]_vars
        => [Contract!Next]_<<[o \in Op |-> Status(o)], segs>>
  BY StepMapped
<1> QED BY <1>1, InitMapped, RegistryInvariant, PTL DEF Spec, ImplementsContract, Contract!Spec

=============================================================================
