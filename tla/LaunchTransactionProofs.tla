----------------------- MODULE LaunchTransactionProofs -----------------------
(***************************************************************************)
(* Proofs about LaunchTransaction: an exception inside launch leaves no    *)
(* trace, and a launch that works step by step still implements the        *)
(* contract of the construction executor.                                  *)
(***************************************************************************)
EXTENDS LaunchTransaction, ExecutorLaunchProofs

\* The actions that touch nothing but launch's own records.
Inner ==
  \/ \E o \in batch : Mark(o) \/ Join(o) \/ Generate(o)
  \/ BeginGenerations \/ Raise \/ CancelWithin \/ Rollback \/ CancelHandles
  \/ UNCHANGED launchVars

\* What a step of launch before its commit leaves alone.
Frame ==
  /\ UNCHANGED <<dagVars, completed, dead, pairVars, runVars, now, terminated, callVars>>
  /\ StartedBefore' = StartedBefore
  /\ OwnedBefore' = OwnedBefore
  /\ stage' # "none" => stage # "none" /\ batch' = batch

\* Behind nothing hidden is the executor itself.
NothingHidden ==
  /\ StartedBefore = started
  /\ OwnedBefore = owned
  /\ HiddenSound <=> RegistrySound
  /\ [o \in Op |-> Hidden(o)] = [o \in Op |-> Status(o)]

NothingTaken == marked = {} /\ joined = {}

LEMMA Revealed == marked = {} /\ joined = {} => NothingHidden
<1> SUFFICES ASSUME marked = {}, joined = {} PROVE NothingHidden
  OBVIOUS
<1>1. StartedBefore = started /\ OwnedBefore = owned
  BY DEF StartedBefore, OwnedBefore, Inputs
<1>2. HiddenSound <=> RegistrySound
  BY <1>1 DEF HiddenSound, RegistrySound, InputsSettled, MarkersMatchExecution, RegistriesAgree
<1>3. \A o \in Op : Hidden(o) = Status(o)
  BY DEF Hidden
<1> QED BY <1>1, <1>2, <1>3 DEF NothingHidden

LEMMA RevealedNext == marked' = {} /\ joined' = {} => NothingHidden'
<1>1. NothingTaken => NothingHidden
  BY Revealed DEF NothingTaken
<1>2. NothingTaken' => NothingHidden'
  BY <1>1, PTL
<1> QED BY <1>2 DEF NothingTaken

\* Between launches the records of launch are empty.
LEMMA RecordsEmpty ==
  ASSUME Undoable, stage = "none"
  PROVE  marked = {} /\ joined = {} /\ claimed = {} /\ prepared = {} /\ spoiled = {}
BY DEF Undoable, Swaps, Purifies, Gens, Inputs

-----------------------------------------------------------------------------
(* What the handler undoes                                                 *)

LEMMA UndoableInit == TxnInit => Undoable
BY DEF TxnInit, Undoable, Stage, Inputs, Swaps, Purifies, Gens

\* A step that marks or protects something adds what was not there before.
LEMMA MarkUndoable ==
  ASSUME Undoable, NEW o \in batch, Mark(o)
  PROVE  Undoable' /\ Frame
<1>1. /\ stage = "marking" /\ o \in batch \ marked /\ o \notin started
      /\ started' = started \cup {o} /\ marked' = marked \cup {o}
      /\ stage' = IF marked' = batch THEN "joining" ELSE stage
      /\ UNCHANGED <<dagVars, completed, dead, pairVars, owned, runVars, now, terminated, callVars,
                     batch, joined, claimed, prepared, spoiled, before>>
  BY DEF Mark, First, Ready
<1>2. StartedBefore' = StartedBefore /\ OwnedBefore' = OwnedBefore
  BY <1>1 DEF StartedBefore, OwnedBefore, Undoable
<1>3. Frame
  BY <1>1, <1>2 DEF Frame
<1>4. Undoable'
  BY <1>1, <1>2 DEF Undoable, Stage
<1> QED BY <1>3, <1>4

LEMMA JoinUndoable ==
  ASSUME TypeOK, Undoable, NEW o \in batch, Join(o)
  PROVE  Undoable' /\ Frame
<1>1. /\ stage = "joining" /\ o \in Swaps(batch) \cup Purifies(batch)
      /\ Ins[o] \cap owned = {}
      /\ owned' = owned \cup Ins[o] /\ joined' = joined \cup {o}
      /\ spoiled' \subseteq spoiled \cup Ins[o]
      /\ UNCHANGED <<dagVars, markVars, pairVars, runVars, now, terminated, callVars,
                     stage, batch, marked, claimed, prepared, before>>
  BY DEF Join, First, NextJoin, Joins, Measured
<1>2. Inputs(joined') = Inputs(joined) \cup Ins[o]
  BY <1>1 DEF Inputs
<1>3. StartedBefore' = StartedBefore /\ OwnedBefore' = OwnedBefore
  BY <1>1, <1>2 DEF StartedBefore, OwnedBefore, Undoable, markVars
<1>4. Frame
  BY <1>1, <1>3 DEF Frame, markVars
<1>5. spoiled' \subseteq Inputs(batch)
  BY <1>1 DEF Undoable, Inputs
<1>6. started' = started
  BY <1>1 DEF markVars
<1>7. Undoable'
  BY <1>1, <1>2, <1>3, <1>5, <1>6 DEF Undoable, Stage
<1> QED BY <1>4, <1>7

\* A step that changes only the claims, the stage or what is spoiled.
LEMMA ClaimsUndoable ==
  ASSUME Undoable,
         \/ \E o \in batch : Generate(o)
         \/ BeginGenerations \/ Raise \/ CancelWithin
         \/ UNCHANGED launchVars
  PROVE  Undoable' /\ Frame
<1>1. UNCHANGED <<vars, batch, marked, joined, before>>
  BY DEF Generate, BeginGenerations, Raise, CancelWithin, launchVars, txnVars
<1>2. StartedBefore' = StartedBefore /\ OwnedBefore' = OwnedBefore /\ started' = started /\ owned' = owned
  BY <1>1 DEF StartedBefore, OwnedBefore, vars, markVars
<1>3. Frame
  <2>1. stage' # "none" => stage # "none"
    BY DEF Generate, BeginGenerations, Raise, CancelWithin, launchVars, txnVars
  <2> QED BY <1>1, <1>2, <2>1 DEF Frame, vars, markVars
<1>4. ASSUME NEW o \in batch, Generate(o) PROVE Undoable'
  BY <1>1, <1>2, <1>4 DEF Generate, First, Undoable, Stage
<1>5. CASE BeginGenerations
  BY <1>1, <1>2, <1>3, <1>5 DEF BeginGenerations, NextJoin, Undoable, Stage
<1>6. CASE Raise
  <2>1. UNION {Measured(o) : o \in {p \in NextJoin : First(p, NextJoin)}} \subseteq SUBSET Inputs(batch)
    BY DEF Measured, NextJoin, Inputs, Swaps, Purifies
  <2>2. spoiled' \subseteq Inputs(batch)
    BY <1>6, <2>1 DEF Raise, HalfMeasured, Undoable
  <2>3. /\ stage \in {"marking", "joining", "generating"}
        /\ stage' = IF stage = "generating" THEN Interrupted ELSE "undoing"
        /\ UNCHANGED <<claimed, prepared>>
    BY <1>6 DEF Raise
  <2> QED BY <1>1, <1>2, <1>3, <2>2, <2>3 DEF Interrupted, Undoable, Stage
<1>7. CASE CancelWithin
  BY <1>1, <1>2, <1>3, <1>7 DEF CancelWithin, Undoable, Stage
<1>8. CASE UNCHANGED launchVars
  BY <1>1, <1>2, <1>3, <1>8 DEF launchVars, txnVars, Undoable
<1> QED BY <1>3, <1>4, <1>5, <1>6, <1>7, <1>8

\* rollback_started and the cancelled protocols give back what was taken.
LEMMA RollbackUndoable ==
  ASSUME Undoable, Rollback
  PROVE  Undoable' /\ Frame
<1>1. /\ stage = "undoing" /\ started' = started \ marked /\ marked' = {}
      /\ UNCHANGED <<dagVars, completed, dead, pairVars, owned, runVars, now, terminated, callVars,
                     stage, batch, joined, claimed, prepared, spoiled, before>>
  BY DEF Rollback, Unmarked
<1>2. StartedBefore' = StartedBefore /\ OwnedBefore' = OwnedBefore
  BY <1>1 DEF StartedBefore, OwnedBefore
<1>3. Frame
  BY <1>1, <1>2 DEF Frame
<1> QED BY <1>1, <1>2, <1>3 DEF Undoable

LEMMA HandlesUndoable ==
  ASSUME Undoable, CancelHandles
  PROVE  /\ Undoable' /\ Frame
         /\ <<started', owned'>> = before /\ prepared' = {}
<1>1. /\ stage = "undoing" /\ marked = {} /\ joined = {} /\ spoiled = {}
      /\ prepared' = prepared \ Handles
      /\ stage' = "none" /\ batch' = {} /\ marked' = {} /\ joined' = {} /\ claimed' = {}
      /\ spoiled' = {}
      /\ UNCHANGED vars
  BY DEF CancelHandles, Leave
<1>2. NothingHidden /\ NothingHidden'
  BY <1>1, Revealed, RevealedNext
<1>3. started' = started /\ owned' = owned
  BY <1>1 DEF vars, markVars
<1>4. prepared' = {}
  BY <1>1 DEF Handles, Undoable
<1>5. before = <<started, owned>>
  BY <1>1, <1>2 DEF Undoable, NothingHidden
<1>6. Frame
  BY <1>1, <1>2, <1>3 DEF Frame, NothingHidden, vars, markVars
<1>7. Undoable'
  BY <1>1, <1>3, <1>4 DEF Undoable, Stage, Inputs, Swaps, Purifies, Gens
<1> QED BY <1>3, <1>4, <1>5, <1>6, <1>7

LEMMA InnerUndoable ==
  ASSUME TypeOK, Undoable, Inner
  PROVE  Undoable' /\ Frame
BY MarkUndoable, JoinUndoable, ClaimsUndoable, RollbackUndoable, HandlesUndoable DEF Inner

LEMMA UndoableStep == TypeOK /\ Undoable /\ [TxnNext]_launchVars => Undoable'
<1> SUFFICES ASSUME TypeOK, Undoable, [TxnNext]_launchVars PROVE Undoable'
  OBVIOUS
<1>1. CASE Inner
  BY <1>1, InnerUndoable
<1>2. ASSUME NEW ops \in SUBSET Ready, BeginLaunch(ops) PROVE Undoable'
  <2>1. /\ stage = "none" /\ stage' = "marking" /\ batch' = ops /\ before' = <<started, owned>>
        /\ UNCHANGED <<started, owned, marked, joined, claimed, prepared, spoiled>>
    BY <1>2 DEF BeginLaunch, markVars
  <2>2. marked = {} /\ joined = {} /\ claimed = {} /\ prepared = {} /\ spoiled = {}
    BY <2>1, RecordsEmpty
  <2>3. NothingHidden'
    BY <2>1, <2>2, RevealedNext
  <2> QED BY <2>1, <2>2, <2>3 DEF NothingHidden, Undoable, Stage, Inputs
<1>3. CASE Commit
  <2>1. /\ stage' = "none" /\ batch' = {} /\ marked' = {} /\ joined' = {} /\ claimed' = {}
        /\ spoiled' = {} /\ prepared' = {}
    BY <1>3 DEF Commit, Leave
  <2> QED BY <2>1 DEF Undoable, Stage, Inputs, Swaps, Purifies, Gens
<1>4. CASE CancelJoins
  <2>1. /\ stage = "undoing" /\ marked = {}
        /\ owned' = owned \ Inputs(joined) /\ joined' = {} /\ spoiled' = {}
        /\ UNCHANGED <<markVars, stage, batch, marked, claimed, prepared, before>>
    BY <1>4 DEF CancelJoins, Unprotected
  <2>2. StartedBefore' = StartedBefore /\ OwnedBefore' = OwnedBefore /\ started' = started
    BY <2>1 DEF StartedBefore, OwnedBefore, Inputs, markVars
  <2> QED BY <2>1, <2>2 DEF Undoable, Inputs
<1>5. CASE stage = "none" /\ Other /\ UNCHANGED txnVars
  <2>1. marked = {} /\ joined = {} /\ UNCHANGED <<stage, batch, marked, joined, claimed, prepared, spoiled>>
    BY <1>5, RecordsEmpty DEF txnVars
  <2> QED BY <1>5, <2>1 DEF Undoable, Inputs
<1> QED BY <1>1, <1>2, <1>3, <1>4, <1>5 DEF TxnNext, Inner

-----------------------------------------------------------------------------
(* The registries behind a launch                                          *)

\* The batch of a launch that goes on consists of operations.
LEMMA BatchOfOps ==
  ASSUME TypeOK, Undoable, StillAdmitted
  PROVE  /\ batch \subseteq Op /\ joined \subseteq Op /\ marked \subseteq Op
         /\ \A S \in SUBSET Op : Inputs(S) \subseteq Op
<1>1. Known \subseteq Op
  BY DEF Known, TypeOK
<1>2. batch \subseteq Op
  BY <1>1 DEF Undoable, StillAdmitted
<1>3. joined \subseteq Op /\ marked \subseteq Op
  BY <1>2 DEF Undoable, Swaps, Purifies
<1>4. \A S \in SUBSET Op : Inputs(S) \subseteq Op
  BY OperationAssumption DEF Inputs
<1> QED BY <1>2, <1>3, <1>4

\* A step that touches launch's own records keeps everything behind them.
LEMMA InnerHidden ==
  ASSUME TransactionSound, Inner
  PROVE  TransactionSound'
<1>1. /\ TypeOK /\ Undoable /\ StillAdmitted /\ HiddenSound /\ ClockRuns
  BY DEF TransactionSound, HiddenSound
<1>2. Undoable' /\ Frame
  BY <1>1, InnerUndoable
<1>3. /\ UNCHANGED <<dags, version, completed, dead, segs, expired, expiry, now, terminated, phase, todo,
                     pending, startedAt, endsAt, lane, busyLanes>>
      /\ StartedBefore' = StartedBefore /\ OwnedBefore' = OwnedBefore
      /\ stage' # "none" => stage # "none" /\ batch' = batch
  BY <1>2 DEF Frame, dagVars, pairVars, runVars, callVars
<1>4. InFlight' = InFlight /\ Joining' = Joining /\ Known' = Known /\ Pairs' = Pairs
  BY <1>3 DEF InFlight, Joining, Known, Pairs
<1>5. TypeOK'
  <2>1. batch' \subseteq Op
    BY <1>1, <1>2, <1>3, BatchOfOps DEF Undoable
  <2>2. marked' \subseteq Op /\ joined' \subseteq Op
    BY <1>2, <2>1 DEF Undoable, Swaps, Purifies
  <2>3. Inputs(joined') \subseteq Op
    BY <1>1, <2>2, BatchOfOps
  <2>4. started' \subseteq StartedBefore' \cup marked' /\ owned' \subseteq OwnedBefore' \cup Inputs(joined')
    BY DEF StartedBefore, OwnedBefore, Inputs
  <2>5. StartedBefore \subseteq Op /\ OwnedBefore \subseteq Op
    BY <1>1 DEF StartedBefore, OwnedBefore, TypeOK
  <2>6. started' \subseteq Op /\ owned' \subseteq Op
    BY <1>3, <2>2, <2>3, <2>4, <2>5
  <2> QED BY <1>1, <1>3, <2>6 DEF TypeOK
<1>6. LoopShape' /\ DagsOwned' /\ SegmentProvenance' /\ InputsExclusive' /\ CapacityRespected'
  BY <1>1, <1>3, <1>4 DEF HiddenSound, LoopShape, DagsOwned, SegmentProvenance, InputsExclusive,
                         CapacityRespected
<1>7. HiddenSound'
  BY <1>1, <1>3, <1>4, <1>5, <1>6 DEF HiddenSound
<1>8. ClockRuns'
  BY <1>1, <1>3 DEF ClockRuns
<1>9. StillAdmitted'
  BY <1>1, <1>3, <1>4 DEF StillAdmitted, Idle
<1> QED BY <1>2, <1>7, <1>8, <1>9 DEF TransactionSound

\* launch has validated its operations: what they need is there.
LEMMA BeginHidden ==
  ASSUME TransactionSound, Undoable', NEW ops \in SUBSET Ready, BeginLaunch(ops)
  PROVE  TransactionSound' /\ RegistrySound' /\ segs' \subseteq segs
<1> DEFINE alive == {s \in segs : Alive(s, now)}
<1>1. /\ stage = "none" /\ stage' = "marking" /\ batch' = ops
      /\ Idle /\ LaunchAdmits(ops) /\ Refresh(segs, expired, expiry, now)
      /\ UNCHANGED <<dags, version, completed, started, dead, owned, now, terminated, phase, todo,
                     pending, startedAt, endsAt, lane, busyLanes, marked, joined>>
  BY DEF BeginLaunch, dagVars, markVars, runVars, callVars
<1>2. marked = {} /\ joined = {}
  BY <1>1, RecordsEmpty DEF TransactionSound
<1>3. NothingHidden /\ NothingHidden'
  BY <1>1, <1>2, Revealed, RevealedNext
<1>4. RegistrySound /\ TypeOK
  BY <1>3 DEF NothingHidden, TransactionSound, HiddenSound
<1>5. TypeOK'
  BY <1>1, <1>4 DEF Refresh, TypeOK
<1>6. PICK S \in SUBSET segs :
        /\ S \cap owned = {} /\ segs' = segs \ S
        /\ expiry' = [o \in Op |-> IF o \in S THEN 0 ELSE expiry[o]]
  BY <1>1, RefreshRemoves
<1>7. /\ DagsOwned' /\ InputsSettled' /\ SegmentProvenance'
      /\ RegistriesAgree' /\ InputsExclusive' /\ CapacityRespected' /\ InFlight' = InFlight
  BY <1>1, <1>4, <1>5, <1>6, SegmentsRemoved
<1>8. LoopShape' /\ MarkersMatchExecution'
  BY <1>1, <1>4, <1>7 DEF RegistrySound, LoopShape, MarkersMatchExecution, Known
<1>9. RegistrySound'
  BY <1>5, <1>7, <1>8 DEF RegistrySound
<1>10. HiddenSound'
  BY <1>3, <1>9 DEF NothingHidden
<1>11. ClockRuns'
  BY <1>1, <1>6 DEF ClockRuns, TransactionSound
<1>12. segs' = alive
  BY <1>1, <1>4 DEF Refresh, Alive, TypeOK
<1>13. /\ ops \subseteq Known \ (completed \cup dead \cup started)
       /\ \A o \in ops : Preds[o] \subseteq completed /\ Ins[o] \subseteq alive \ Inputs(pending)
  BY DEF Ready, Available
<1>14. /\ ops # {} /\ InputsUnique(ops) /\ \A o \in ops : \A i \in Ins[o] : Owner[i] = Owner[o]
       /\ WithinCapacity(alive, pending \cup ops)
  BY <1>1 DEF LaunchAdmits, SchedulerAdmits
<1> HIDE DEF alive
<1>15. ASSUME NEW r \in Resource PROVE Usage(alive, pending \cup ops, r) <= Capacity[r]
  <2>1. CASE r \in UNION {Hold[x] \cup Demand[x] : x \in alive \cup (pending \cup ops)}
    BY <1>14, <2>1 DEF WithinCapacity
  <2>2. CASE r \notin UNION {Hold[x] \cup Demand[x] : x \in alive \cup (pending \cup ops)}
    <3>1. Usage(alive, pending \cup ops, r) = 0
      BY <2>2, UsageOfNothing
    <3> QED BY <3>1, CapacityNatural
  <2> QED BY <2>1, <2>2
<1>16. StartedBefore' = started /\ Known' = Known
  BY <1>1, <1>3 DEF NothingHidden, Known
<1>17. StillAdmitted'
  BY <1>1, <1>12, <1>13, <1>14, <1>15, <1>16 DEF StillAdmitted, Idle
<1> QED BY <1>6, <1>9, <1>10, <1>11, <1>17 DEF TransactionSound

\* The commit records what has been admitted: the registries agree again.
LEMMA CommitHidden ==
  ASSUME TransactionSound, Undoable', Commit
  PROVE  TransactionSound' /\ RegistrySound'
<1> DEFINE joining == Swaps(batch) \cup Purifies(batch)
<1> USE DEF TransactionSound, HiddenSound
<1>1. /\ stage = "generating" /\ pending' = pending \cup batch
      /\ stage' = "none" /\ marked' = {} /\ joined' = {}
      /\ UNCHANGED <<dags, version, completed, started, dead, segs, expired, expiry, owned,
                     now, terminated, phase, todo>>
  BY DEF Commit, Leave, dagVars, markVars, pairVars, callVars
<1>2. /\ Idle /\ batch \subseteq Known \ (completed \cup dead \cup StartedBefore)
      /\ \A o \in batch :
           /\ Ins[o] \subseteq segs \ Inputs(pending)
           /\ \A i \in Ins[o] : Owner[i] = Owner[o]
      /\ InputsUnique(batch)
      /\ \A r \in Resource : Usage(segs, pending \cup batch, r) <= Capacity[r]
  BY <1>1 DEF StillAdmitted
<1>3. /\ batch \subseteq Op /\ joined \subseteq Op
      /\ \A T \in SUBSET Op : Inputs(T) \subseteq Op
  BY BatchOfOps
<1>4. /\ started = StartedBefore \cup batch
      /\ owned = OwnedBefore \cup Inputs(joining)
  BY <1>1 DEF Undoable, StartedBefore, OwnedBefore
<1>5. todo = {} /\ InFlight = pending
  BY <1>2, IdleInFlight
<1>6. InFlight' = InFlight \cup batch /\ Joining' = Joining \cup joining
  BY <1>1, <1>5 DEF InFlight, Joining, Swaps, Purifies
<1>7. TypeOK'
  <2>1. endsAt' \in [Op -> Nat]
    <3> DEFINE running == joined \cup prepared
    <3>1. PICK length \in [running -> 1 .. Window] :
            endsAt' = [o \in Op |-> IF o \in running THEN now + length[o] ELSE endsAt[o]]
      BY DEF Commit
    <3> QED BY <3>1, ExecutorAssumption DEF TypeOK
  <2>2. PICK claim \in LaneClaims(batch) :
          /\ lane' = [o \in Op |-> IF o \in Gens(batch) THEN claim[o] ELSE lane[o]]
          /\ busyLanes' = [e \in Edge |-> busyLanes[e] \cup {claim[o] : o \in OnEdge(Gens(batch), e)}]
    BY DEF Commit
  <2>3. \A o \in Gens(batch) : claim[o] \in 0 .. MaxWidth - 1
    BY <2>2 DEF LaneClaims, FreeLanes
  <2>4. \A e \in Edge : OnEdge(Gens(batch), e) \subseteq Gens(batch)
    BY DEF OnEdge
  <2>5. lane' \in [Op -> 0 .. MaxWidth] /\ busyLanes' \in [Edge -> SUBSET (0 .. MaxWidth - 1)]
    BY <2>2, <2>3, <2>4, ParameterAssumption DEF TypeOK
  <2>6. pending' \subseteq Op /\ startedAt' \in [Op -> Nat]
    BY <1>1, <1>3, ExecutorAssumption DEF Commit, TypeOK
  <2> QED BY <1>1, <2>1, <2>5, <2>6 DEF TypeOK
<1> HIDE DEF joining
<1>8. DagsOwned' /\ LoopShape'
  BY <1>1, <1>2, <1>5 DEF DagsOwned, LoopShape, Idle
<1>9. InputsSettled'
  BY <1>1, <1>2, <1>4 DEF InputsSettled, SegmentProvenance
<1>10. MarkersMatchExecution'
  BY <1>1, <1>2, <1>4, <1>6 DEF MarkersMatchExecution, Known
<1>11. Inputs(Joining') = Inputs(Joining) \cup Inputs(joining)
  BY <1>6 DEF Inputs
<1>12. Inputs(joining) \subseteq segs
  BY <1>2 DEF joining, Inputs, Swaps, Purifies
<1>13. SegmentProvenance'
  BY <1>1, <1>11, <1>12 DEF SegmentProvenance
<1>14. RegistriesAgree'
  BY <1>1, <1>4, <1>11 DEF RegistriesAgree, Pairs
<1>15. InputsExclusive'
  <2>1. \A a, b \in batch : a # b => Ins[a] \cap Ins[b] = {}
    BY <1>2 DEF InputsUnique
  <2>2. \A a \in batch, b \in InFlight : Ins[a] \cap Ins[b] = {}
    BY <1>2, <1>5 DEF Inputs
  <2> QED BY <1>6, <2>1, <2>2 DEF InputsExclusive
<1>16. CapacityRespected'
  BY <1>1, <1>2, <1>5, <1>6 DEF CapacityRespected
<1>17. RegistrySound'
  BY <1>7, <1>8, <1>9, <1>10, <1>13, <1>14, <1>15, <1>16 DEF RegistrySound
<1>18. HiddenSound'
  BY <1>1, <1>17, RevealedNext DEF NothingHidden
<1>19. ClockRuns' /\ StillAdmitted'
  BY <1>1 DEF ClockRuns, StillAdmitted
<1> QED BY <1>17, <1>18, <1>19

\* Cancelling dates the measured pairs, which are all still registered.
LEMMA CancelHidden ==
  ASSUME TransactionSound, Undoable', CancelJoins
  PROVE  TransactionSound'
<1> USE DEF TransactionSound, HiddenSound
<1>1. /\ stage = "undoing"
      /\ owned' = owned \ Inputs(joined) /\ joined' = {}
      /\ expiry' = [p \in Op |-> IF p \in spoiled THEN now ELSE expiry[p]]
      /\ UNCHANGED <<dags, version, completed, started, dead, segs, expired, now, terminated, phase, todo,
                     pending, startedAt, endsAt, lane, busyLanes, stage, batch, marked>>
  BY DEF CancelJoins, Unprotected, dagVars, markVars, runVars, callVars
<1>2. StartedBefore' = StartedBefore /\ OwnedBefore' = OwnedBefore
  BY <1>1 DEF StartedBefore, OwnedBefore, Inputs
<1>3. InFlight' = InFlight /\ Joining' = Joining /\ Known' = Known
  BY <1>1 DEF InFlight, Joining, Known
<1>4. Pairs' = Pairs
  <2>1. \A p \in spoiled : p \in segs /\ now > 0
    BY <1>1 DEF Undoable, StillAdmitted, ClockRuns, Inputs
  <2> QED BY <1>1, <2>1 DEF Pairs, TypeOK
<1>5. TypeOK'
  <2>1. expiry' \in [Op -> Nat]
    BY <1>1 DEF TypeOK
  <2> QED BY <1>1, <2>1 DEF TypeOK
<1>6. LoopShape' /\ DagsOwned' /\ SegmentProvenance' /\ InputsExclusive' /\ CapacityRespected'
  BY <1>1, <1>3 DEF LoopShape, DagsOwned, SegmentProvenance, InputsExclusive, CapacityRespected
<1>7. HiddenSound'
  BY <1>1, <1>2, <1>3, <1>4, <1>5, <1>6
<1>8. ClockRuns' /\ StillAdmitted'
  BY <1>1, <1>2, <1>3 DEF ClockRuns, StillAdmitted, Idle
<1> QED BY <1>7, <1>8

\* Time has passed before an operation ends.
LEMMA ClockAdvances ==
  ASSUME TypeOK, ClockRuns, Next \/ ReportLost
  PROVE  ClockRuns'
<1> USE ExecutorAssumption DEF TypeOK, ClockRuns
<1>1. ASSUME NEW bound \in now .. Horizon, Advance(bound) PROVE ClockRuns'
  <2>1. PICK t \in now .. Horizon : now' = t /\ todo' = Due(t)
    BY <1>1 DEF Advance
  <2>2. \A o \in Due(t) : t > 0
    BY OperationAssumption DEF Due, Logical
  <2> QED BY <1>1, <2>1, <2>2 DEF Advance, pairVars
<1>2. CASE Finish
  BY <1>2 DEF Finish, Release, Fail, Complete, Retire, Refresh, Consumed
<1>3. CASE BeginTimeout
  BY <1>3 DEF BeginTimeout, TimeoutDue, pairVars
<1>4. CASE Settle \/ ReportLost \/ \E bound \in now .. Horizon : WaitUntil(bound)
  <2>1. segs' \subseteq segs /\ todo' = todo
    BY <1>4 DEF Settle, ReportLost, WaitUntil, RefreshAndReport, callVars
  <2>2. now' = now \/ now' \in now .. Horizon
    BY <1>4 DEF Settle, ReportLost, WaitUntil
  <2> QED BY <2>1, <2>2
<1>5. CASE \/ \E r \in Request : \E ops \in Plans[r] : Register(r, ops)
           \/ \E r \in Request : Unregister(r) \/ ReleaseRequest(r)
           \/ \E r \in Request : \E ops \in Repairs[r], supersede \in BOOLEAN : Repair(r, ops, supersede)
           \/ \E s \in Op : ReleaseSegment(s)
           \/ \E ops \in SUBSET Ready : Launch(ops)
           \/ Terminate
  BY <1>5 DEF Register, Unregister, ReleaseRequest, Repair, ReleaseSegment, Launch, Terminate,
              Discard, Refresh, pairVars, callVars
<1> QED BY <1>1, <1>2, <1>3, <1>4, <1>5 DEF Next

\* Between launches the other methods keep the registries, as in Next.
LEMMA OtherHidden ==
  ASSUME TransactionSound, Undoable', stage = "none", Other, UNCHANGED txnVars
  PROVE  TransactionSound' /\ RegistrySound /\ RegistrySound' /\ marked' = {}
<1>1. marked = {} /\ joined = {} /\ marked' = {} /\ joined' = {} /\ stage' = "none"
  BY RecordsEmpty DEF TransactionSound, txnVars
<1>2. NothingHidden /\ NothingHidden'
  BY <1>1, Revealed, RevealedNext
<1>3. RegistrySound /\ TypeOK
  BY <1>2 DEF NothingHidden, TransactionSound, HiddenSound
<1>4. Next \/ ReportLost
  BY DEF Other, Next
<1>6. ASSUME ReportLost PROVE RegistrySound'
  <2>1. UNCHANGED <<dags, version, completed, started, dead, owned, now, terminated, phase, todo,
                    pending, startedAt, endsAt, lane, busyLanes>>
    BY <1>6 DEF ReportLost, dagVars, markVars, runVars, callVars
  <2>2. TypeOK'
    BY <1>3, <1>6, <2>1 DEF ReportLost, RefreshAndReport, TypeOK
  <2>3. PICK S \in SUBSET segs :
          /\ S \cap owned = {} /\ segs' = segs \ S
          /\ expiry' = [o \in Op |-> IF o \in S THEN 0 ELSE expiry[o]]
    BY <1>6, RefreshRemoves DEF ReportLost
  <2>4. /\ DagsOwned' /\ InputsSettled' /\ SegmentProvenance'
        /\ RegistriesAgree' /\ InputsExclusive' /\ CapacityRespected' /\ InFlight' = InFlight
    BY <1>3, <2>1, <2>2, <2>3, SegmentsRemoved
  <2>5. LoopShape' /\ MarkersMatchExecution'
    BY <1>3, <2>1, <2>4 DEF RegistrySound, LoopShape, MarkersMatchExecution, Known
  <2> QED BY <2>2, <2>4, <2>5 DEF RegistrySound
<1>7. RegistrySound'
  <2>1. CASE Next
    BY <1>3, <2>1, RegistryStep
  <2> QED BY <1>4, <1>6, <2>1
<1>8. HiddenSound'
  BY <1>2, <1>7 DEF NothingHidden
<1>9. ClockRuns' /\ StillAdmitted'
  BY <1>1, <1>3, <1>4, ClockAdvances DEF TransactionSound, StillAdmitted
<1> QED BY <1>1, <1>3, <1>7, <1>8, <1>9 DEF TransactionSound

\* Every step of the transaction.
LEMMA TransactionStep == TransactionSound /\ [TxnNext]_launchVars => TransactionSound'
<1> SUFFICES ASSUME TransactionSound, [TxnNext]_launchVars PROVE TransactionSound'
  OBVIOUS
<1>1. Undoable'
  BY UndoableStep DEF TransactionSound, HiddenSound
<1> QED BY <1>1, InnerHidden, BeginHidden, CommitHidden, CancelHidden, OtherHidden DEF TxnNext, Inner

LEMMA TransactionInit == TxnInit => TransactionSound
<1> SUFFICES ASSUME TxnInit PROVE TransactionSound
  OBVIOUS
<1>1. Init /\ marked = {} /\ joined = {} /\ stage = "none"
  BY DEF TxnInit
<1>2. HiddenSound
  BY <1>1, Revealed, RegistryInit DEF NothingHidden
<1>3. ClockRuns
  BY <1>1 DEF Init, ClockRuns
<1> QED BY <1>1, <1>2, <1>3, UndoableInit DEF TransactionSound, StillAdmitted

-----------------------------------------------------------------------------
(* All or nothing                                                          *)

LeavesNoTrace ==
  stage = "undoing" /\ stage' = "none" => <<started', owned'>> = before /\ prepared' = {}

LEMMA NoTraceLeft == TransactionSound /\ [TxnNext]_launchVars => LeavesNoTrace
<1> SUFFICES ASSUME TransactionSound, [TxnNext]_launchVars, stage = "undoing", stage' = "none"
             PROVE  <<started', owned'>> = before /\ prepared' = {}
  BY DEF LeavesNoTrace
<1>1. CASE CancelHandles
  BY <1>1, HandlesUndoable DEF TransactionSound
<1> QED BY <1>1 DEF TxnNext, BeginLaunch, Mark, Join, Generate, BeginGenerations, Commit, Raise,
                    CancelWithin, Rollback, CancelJoins, launchVars, txnVars

\* The executor stays sound behind every launch, whether it is committed or
\* an exception unwinds it.
THEOREM TransactionInvariant == TxnSpec => []TransactionSound
BY TransactionInit, TransactionStep, PTL DEF TxnSpec

\* An exception leaves launch with the markers and the protected pairs of the
\* call, and with no protocol running (the handlers in launch, begin_swap,
\* begin_purification and begin_generation).
THEOREM AllOrNothing == TxnSpec => LaunchAllOrNothing
<1>1. TransactionSound /\ [TxnNext]_launchVars => [LeavesNoTrace]_launchVars
  BY NoTraceLeft
<1>2. LaunchAllOrNothing <=> [][LeavesNoTrace]_launchVars
  BY DEF LaunchAllOrNothing, LeavesNoTrace
<1> QED BY <1>1, <1>2, TransactionInvariant, PTL DEF TxnSpec

-----------------------------------------------------------------------------
(* The contract, with a launch hidden until its commit                     *)

\* What the markers say when those of an unfinished launch are left out.
Behind(o) ==
  CASE o \in completed     -> "done"
    [] o \in dead          -> "dead"
    [] o \in StartedBefore -> "running"
    [] o \in Known \ (completed \cup dead \cup StartedBefore) -> "waiting"
    [] OTHER               -> "absent"

HiddenTable == \A o \in Op : Hidden(o) = Behind(o)

LEMMA HiddenIs == TransactionSound => HiddenTable
<1> SUFFICES ASSUME TransactionSound, NEW o \in Op PROVE Hidden(o) = Behind(o)
  BY DEF HiddenTable
<1>1. marked \subseteq Known \ (completed \cup dead)
  <2>1. CASE stage = "none"
    BY <2>1, RecordsEmpty DEF TransactionSound
  <2>2. CASE stage # "none"
    BY <2>2 DEF TransactionSound, StillAdmitted, Undoable
  <2> QED BY <2>1, <2>2
<1>2. /\ completed \cap dead = {} /\ StartedBefore \cap (completed \cup dead) = {}
      /\ completed \cup StartedBefore \cup dead \subseteq Known
  BY DEF TransactionSound, HiddenSound
<1>3. CASE o \in marked
  <2>1. o \in Known \ (completed \cup dead \cup StartedBefore)
    BY <1>1, <1>3 DEF StartedBefore
  <2> QED BY <1>3, <2>1 DEF Hidden, Behind
<1>4. CASE o \notin marked
  <2>1. o \in StartedBefore <=> o \in started
    BY <1>4 DEF StartedBefore
  <2>2. CASE o \in completed
    BY <1>2, <1>4, <2>1, <2>2 DEF Hidden, Status, Behind
  <2>3. CASE o \in dead
    BY <1>2, <1>4, <2>1, <2>3 DEF Hidden, Status, Behind
  <2>4. CASE o \in started
    BY <1>2, <1>4, <2>1, <2>4 DEF Hidden, Status, Behind
  <2>5. CASE o \in Known \ (completed \cup dead \cup started)
    BY <1>2, <1>4, <2>1, <2>5 DEF Hidden, Status, Behind
  <2>6. CASE o \notin Known
    BY <1>2, <1>4, <2>1, <2>6 DEF Hidden, Status, Behind
  <2> QED BY <2>2, <2>3, <2>4, <2>5, <2>6
<1> QED BY <1>3, <1>4

LEMMA HiddenIsNext == TransactionSound' => HiddenTable'
BY HiddenIs, PTL

\* The contract of the transaction charges the resources as the executor does.
LEMMA AtomicHold == Atomic!Hold = Hold
BY DEF Atomic!Hold, Hold, Atomic!Memories, Memories

LEMMA AtomicDemand == Atomic!Demand = Demand
BY DEF Atomic!Demand, Demand, Atomic!Memories, Memories,
       Atomic!Nodes, Nodes, Atomic!Middles, Middles

LEMMA AtomicCapacity == Atomic!Resource = Resource /\ Atomic!Capacity = Capacity
BY DEF Atomic!Resource, Resource, Atomic!Capacity, Capacity,
       Atomic!MemorySize, MemorySize, Atomic!Degree, Degree

\* With nothing hidden the two contracts speak of the same sets.
AtomicAgrees ==
  /\ \A s : Atomic!With(s) = Contract!With(s)
  /\ \A r, s : Atomic!Of(r, s) = Contract!Of(r, s)
  /\ \A ops, s : Atomic!Becomes(ops, s) = Contract!Becomes(ops, s)
  /\ Atomic!Reserved = Contract!Reserved
  /\ Contract!WithinBudget => Atomic!WithinBudget

LEMMA Agreement == NothingHidden => AtomicAgrees
<1> SUFFICES ASSUME NothingHidden PROVE AtomicAgrees
  OBVIOUS
<1>1. [o \in Op |-> Hidden(o)] = [o \in Op |-> Status(o)]
  BY DEF NothingHidden
<1>2. \A s : Atomic!With(s) = Contract!With(s)
  BY <1>1 DEF Atomic!With, Contract!With
<1>3. \A r, s : Atomic!Of(r, s) = Contract!Of(r, s)
  BY <1>2 DEF Atomic!Of, Contract!Of
<1>4. \A ops, s : Atomic!Becomes(ops, s) = Contract!Becomes(ops, s)
  BY <1>1 DEF Atomic!Becomes, Contract!Becomes
<1>5. Atomic!Reserved = Contract!Reserved
  BY <1>2 DEF Atomic!Reserved, Contract!Reserved, Atomic!Swaps, Contract!Swaps,
              Atomic!Purifies, Contract!Purifies, Atomic!Inputs, Contract!Inputs
<1>6. Contract!WithinBudget => Atomic!WithinBudget
  <2>1. \A S : Atomic!Cardinality(S) = Contract!Cardinality(S)
    BY Zenon DEF Atomic!Cardinality, Contract!Cardinality
  <2>2. Contract!Hold = Hold /\ Contract!Demand = Demand
    BY SameHold, SameDemand
  <2>3. Contract!WithinBudget =>
          \A r \in Resource :
            Atomic!Cardinality({s \in segs : r \in Hold[s]})
              + Atomic!Cardinality({o \in Atomic!With("running") : r \in Demand[o]}) <= Capacity[r]
    BY <1>2, <2>1, <2>2, SameCapacity, Zenon DEF Contract!WithinBudget
  <2> QED BY <2>3, AtomicHold, AtomicDemand, AtomicCapacity, Zenon DEF Atomic!WithinBudget
<1> QED BY <1>2, <1>3, <1>4, <1>5, <1>6 DEF AtomicAgrees

LEMMA AgreementNext == NothingHidden' => AtomicAgrees'
BY Agreement, PTL

\* Then a step of the executor's contract is one of the transaction's.
LEMMA Transfer ==
  ASSUME NothingHidden, NothingHidden', Contract!Next
  PROVE  Atomic!Next
<1>1. AtomicAgrees /\ AtomicAgrees'
  BY Agreement, AgreementNext
<1>2. /\ [o \in Op |-> Hidden(o)] = [o \in Op |-> Status(o)]
      /\ [o \in Op |-> Hidden(o)]' = [o \in Op |-> Status(o)]'
  BY DEF NothingHidden
<1>3. Contract!Keeps => Atomic!Keeps
  BY <1>1 DEF AtomicAgrees, Contract!Keeps, Atomic!Keeps
<1>4. CASE \E r \in Request : \E ops \in SUBSET Contract!Of(r, "absent") : Contract!Enter(r, ops)
  <2> PICK r \in Request : \E ops \in SUBSET Contract!Of(r, "absent") : Contract!Enter(r, ops)
    BY <1>4
  <2>1. PICK ops \in SUBSET Contract!Of(r, "absent") : Contract!Enter(r, ops)
    OBVIOUS
  <2>2. Atomic!Enter(r, ops) /\ ops \in SUBSET Atomic!Of(r, "absent")
    BY <1>1, <1>2, <1>3, <2>1 DEF AtomicAgrees, Contract!Enter, Atomic!Enter
  <2> QED BY <2>2 DEF Atomic!Next
<1>5. CASE \E r \in Request : Contract!Leave(r)
  <2>1. PICK r \in Request : Contract!Leave(r)
    BY <1>5
  <2>2. Atomic!Leave(r)
    BY <1>1, <1>2, <2>1 DEF AtomicAgrees, Contract!Leave, Atomic!Leave
  <2> QED BY <2>2 DEF Atomic!Next
<1>6. CASE \E ops \in SUBSET Contract!With("waiting") : Contract!Start(ops)
  <2>1. PICK ops \in SUBSET Contract!With("waiting") : Contract!Start(ops)
    BY <1>6
  <2>2. Atomic!Start(ops) /\ ops \in SUBSET Atomic!With("waiting")
    BY <1>1, <1>2, <1>3, <2>1 DEF AtomicAgrees, Contract!Start, Atomic!Start
  <2> QED BY <2>2 DEF Atomic!Next
<1>7. CASE \E o \in Contract!With("running") : Contract!Succeed(o) \/ Contract!Break(o)
  <2>1. PICK o \in Contract!With("running") : Contract!Succeed(o) \/ Contract!Break(o)
    BY <1>7
  <2>2. Contract!Succeed(o) => Atomic!Succeed(o)
    BY <1>1, <1>2, <1>3 DEF AtomicAgrees, Contract!Succeed, Atomic!Succeed
  <2>3. Contract!Break(o) => Atomic!Break(o)
    BY <1>1, <1>2, <1>3 DEF AtomicAgrees, Contract!Break, Atomic!Break
  <2>4. o \in Atomic!With("running")
    BY <1>1, <2>1 DEF AtomicAgrees
  <2> QED BY <2>1, <2>2, <2>3, <2>4 DEF Atomic!Next
<1>8. CASE Contract!Lose
  <2>1. Atomic!Lose
    BY <1>2, <1>3, <1>8 DEF Contract!Lose, Atomic!Lose
  <2> QED BY <2>1 DEF Atomic!Next
<1> QED BY <1>4, <1>5, <1>6, <1>7, <1>8 DEF Contract!Next

Table == [o \in Op |-> Hidden(o)]

\* A step the contract does not see.
LEMMA Unseen ==
  ASSUME TransactionSound, TransactionSound',
         UNCHANGED <<dags, completed, dead, segs>>, StartedBefore' = StartedBefore
  PROVE  UNCHANGED <<Table, segs>>
<1>1. \A o \in Op : Hidden(o) = Behind(o) /\ Hidden(o)' = Behind(o)'
  BY HiddenIs, HiddenIsNext DEF HiddenTable
<1>2. \A o \in Op : Behind(o)' = Behind(o)
  BY DEF Behind, Known
<1> QED BY <1>1, <1>2 DEF Table

\* The commit is where the contract sees the launch.
LEMMA CommitStarts ==
  ASSUME TransactionSound, TransactionSound', Commit
  PROVE  Atomic!Next
<1>1. /\ stage = "generating" /\ pending' = pending \cup batch
      /\ stage' = "none" /\ marked' = {} /\ joined' = {}
      /\ UNCHANGED <<dags, completed, started, dead, segs>>
  BY DEF Commit, Leave, dagVars, markVars, pairVars
<1>2. RegistrySound' /\ NothingHidden' /\ AtomicAgrees'
  BY <1>1, CommitHidden, RevealedNext, AgreementNext DEF TransactionSound
<1>3. /\ marked = batch /\ batch # {} /\ batch \subseteq Op
      /\ batch \subseteq Known \ (completed \cup dead \cup StartedBefore)
      /\ started = StartedBefore \cup batch /\ InFlight = pending
      /\ \A o \in batch : Preds[o] \subseteq completed /\ Ins[o] \subseteq segs \ Inputs(pending)
      /\ InputsUnique(batch)
  BY <1>1, BatchOfOps, IdleInFlight DEF TransactionSound, HiddenSound, Undoable, StillAdmitted, StartedBefore
<1>4. /\ completed \cap dead = {} /\ StartedBefore \cap (completed \cup dead) = {}
      /\ completed \subseteq Op /\ StartedBefore = InFlight /\ StartedBefore \subseteq Op
  BY DEF TransactionSound, HiddenSound, TypeOK, StartedBefore
<1>5. \A o \in Op : Hidden(o) = Behind(o) /\ Hidden(o)' = Behind(o)'
  BY HiddenIs, HiddenIsNext DEF HiddenTable
<1>6. StartedBefore' = StartedBefore \cup batch
  BY <1>1, <1>2, <1>3 DEF NothingHidden
<1>7. \A o \in Op : Hidden(o)' = IF o \in batch THEN "running" ELSE Hidden(o)
  <2> SUFFICES ASSUME NEW o \in Op PROVE Behind(o)' = IF o \in batch THEN "running" ELSE Behind(o)
    BY <1>5
  <2>1. CASE o \in batch
    BY <1>1, <1>3, <1>6, <2>1 DEF Behind, Known
  <2>2. CASE o \notin batch
    BY <1>1, <1>6, <2>2 DEF Behind, Known
  <2> QED BY <2>1, <2>2
<1>8. [o \in Op |-> Hidden(o)]' = Atomic!Becomes(batch, "running")
  BY <1>7 DEF Atomic!Becomes
<1>9. /\ Atomic!With("done") = completed
      /\ Atomic!With("running") = InFlight
      /\ batch \subseteq Atomic!With("waiting")
  <2>1. \A s : Atomic!With(s) = {o \in Op : Behind(o) = s}
    BY <1>5 DEF Atomic!With
  <2>2. \A o \in Op : /\ Behind(o) = "done" <=> o \in completed
                      /\ Behind(o) = "running" <=> o \in StartedBefore
                      /\ o \in batch => Behind(o) = "waiting"
    BY <1>3, <1>4 DEF Behind
  <2>3. Atomic!With("done") = completed
    BY <1>4, <2>1, <2>2
  <2>4. Atomic!With("running") = InFlight
    BY <1>4, <2>1, <2>2
  <2>5. batch \subseteq Atomic!With("waiting")
    BY <1>3, <2>1, <2>2
  <2> QED BY <2>3, <2>4, <2>5
<1>10. \A o \in batch : /\ Preds[o] \subseteq Atomic!With("done")
                        /\ Ins[o] \subseteq segs
                        /\ \A p \in (batch \cup Atomic!With("running")) \ {o} : Ins[o] \cap Ins[p] = {}
  <2> SUFFICES ASSUME NEW o \in batch
               PROVE  /\ Preds[o] \subseteq completed /\ Ins[o] \subseteq segs
                      /\ \A p \in (batch \cup pending) \ {o} : Ins[o] \cap Ins[p] = {}
    BY <1>3, <1>9
  <2>1. \A p \in pending : Ins[o] \cap Ins[p] = {}
    BY <1>3 DEF Inputs
  <2>2. \A p \in batch \ {o} : Ins[o] \cap Ins[p] = {}
    BY <1>3 DEF InputsUnique
  <2> QED BY <1>3, <2>1, <2>2
<1>11. Atomic!WithinBudget' /\ Atomic!Keeps
  <2>1. ContractSets' /\ Contract!Keeps
    BY <1>2, StatusSetsNext, ReservedKept
  <2>2. Atomic!WithinBudget'
    BY <1>2, <2>1 DEF ContractSets, AtomicAgrees
  <2>3. Atomic!Keeps
    BY <1>2, <2>1 DEF AtomicAgrees, Contract!Keeps, Atomic!Keeps
  <2> QED BY <2>2, <2>3
<1>12. Atomic!Start(batch)
  BY <1>1, <1>3, <1>8, <1>10, <1>11 DEF Atomic!Start
<1> QED BY <1>9, <1>12 DEF Atomic!Next

\* Before that, the contract sees at most the segments a launch found lost.
LEMMA BeginLoses ==
  ASSUME TransactionSound, TransactionSound', NEW ops \in SUBSET Ready, BeginLaunch(ops)
  PROVE  Atomic!Next
<1>1. /\ stage = "none" /\ UNCHANGED <<dagVars, markVars, marked, joined>>
  BY DEF BeginLaunch
<1>2. marked = {} /\ joined = {}
  BY <1>1, RecordsEmpty DEF TransactionSound
<1>3. NothingHidden /\ NothingHidden'
  BY <1>1, <1>2, Revealed, RevealedNext
<1>4. RegistrySound' /\ segs' \subseteq segs
  BY BeginHidden DEF TransactionSound
<1>5. Contract!Next
  BY <1>1, <1>4, LoseStep
<1> QED BY <1>3, <1>5, Transfer

\* Between launches the transaction is the executor.
LEMMA OtherMapped ==
  ASSUME TransactionSound, TransactionSound', stage = "none", Other, UNCHANGED txnVars
  PROVE  Atomic!Next
<1>1. /\ RegistrySound /\ RegistrySound'
      /\ marked = {} /\ joined = {} /\ marked' = {} /\ joined' = {}
  BY OtherHidden, RecordsEmpty DEF TransactionSound, txnVars
<1>2. NothingHidden /\ NothingHidden'
  BY <1>1, Revealed, RevealedNext
<1>3. Next \/ ReportLost
  BY DEF Other, Next
<1>4. ASSUME ReportLost PROVE Contract!Next
  BY <1>1, <1>4, LoseStep DEF ReportLost, RefreshAndReport
<1>5. Contract!Next
  BY <1>1, <1>3, <1>4, StepMapped
<1> QED BY <1>2, <1>5, Transfer

LEMMA TransactionMapped ==
  TransactionSound /\ TransactionSound' /\ [TxnNext]_launchVars
    => Atomic!Next \/ UNCHANGED <<Table, segs>>
<1> SUFFICES ASSUME TransactionSound, TransactionSound', [TxnNext]_launchVars
             PROVE  Atomic!Next \/ UNCHANGED <<Table, segs>>
  OBVIOUS
<1>1. CASE Inner
  <2>1. Frame
    BY <1>1, InnerUndoable DEF TransactionSound, HiddenSound
  <2> QED BY <2>1, Unseen DEF Frame, dagVars, pairVars
<1>2. CASE CancelJoins
  <2>1. UNCHANGED <<dags, completed, started, dead, segs, marked>>
    BY <1>2 DEF CancelJoins, dagVars, markVars
  <2> QED BY <2>1, Unseen DEF StartedBefore
<1>3. CASE \E ops \in SUBSET Ready : BeginLaunch(ops)
  BY <1>3, BeginLoses
<1>4. CASE Commit
  BY <1>4, CommitStarts
<1>5. CASE stage = "none" /\ Other /\ UNCHANGED txnVars
  BY <1>5, OtherMapped
<1> QED BY <1>1, <1>2, <1>3, <1>4, <1>5 DEF TxnNext, Inner

LEMMA TransactionStarts == TxnInit => Atomic!Init
<1> SUFFICES ASSUME TxnInit PROVE Atomic!Init
  OBVIOUS
<1>1. NothingHidden /\ Contract!Init
  BY Revealed, InitMapped DEF TxnInit
<1> QED BY <1>1 DEF NothingHidden, Contract!Init, Atomic!Init

\* A launch that marks, protects and starts one thing after the other, and may
\* fail at any point, still implements the contract of an executor whose
\* launches are atomic (launch and its handlers).
THEOREM TransactionImplementsContract == TxnSpec => LaunchImplementsContract
<1>1. TransactionSound /\ TransactionSound' /\ [TxnNext]_launchVars
        => [Atomic!Next]_<<[o \in Op |-> Hidden(o)], segs>>
  BY TransactionMapped DEF Table
<1> QED BY <1>1, TransactionStarts, TransactionInvariant, PTL
        DEF TxnSpec, LaunchImplementsContract, Atomic!Spec

=============================================================================
