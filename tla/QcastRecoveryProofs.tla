------------------------- MODULE QcastRecoveryProofs -------------------------
(***************************************************************************)
(* Proofs about QcastRecovery: the controller with the recovery policy is  *)
(* one of the behaviours of the controller under any policy, so everything *)
(* proved of that one holds here, and the policy's table names exactly the *)
(* running plans.                                                          *)
(***************************************************************************)
EXTENDS QcastRecovery, OnlineControllerProofs

\* Every answer of the policy is one the scheduler may receive.
LEMMA PolicyReplies ==
  ASSUME TypeOK, PolicyStep
  PROVE  Reply
<1>1. PICK r \in Request : \/ NoResponse(r) \/ KeepWaiting(r) \/ KeepMajor(r) \/ GiveUp(r)
                           \/ AcceptDirect(r) \/ Reroute(r)
                           \/ RerouteRelease(r) \/ RerouteApply(r)
  BY DEF PolicyStep
<1>2. \A S : OwnedBy(r, segs) \cap S \subseteq Op
  BY DEF OwnedBy, TypeOK
<1>3. \A used : Spare(r, used) \subseteq Op
  BY <1>2 DEF Spare, Live
<1>4. CASE NoResponse(r) \/ GiveUp(r)
  BY <1>4 DEF NoResponse, GiveUp, Reply
<1>5. CASE KeepWaiting(r)
  BY <1>5 DEF KeepWaiting, Reply
<1>6. CASE KeepMajor(r)
  BY <1>3, <1>6 DEF KeepMajor, Reply
<1>7. CASE AcceptDirect(r)
  <2>1. PICK s : Accept(r, s)
    BY <1>7 DEF AcceptDirect
  <2>2. s \in Op
    BY <1>2, <2>1 DEF Accept
  <2> QED BY <2>1, <2>2 DEF Reply
<1>8. CASE Reroute(r)
  BY <1>8 DEF Reroute, Reply
<1>9. CASE RerouteRelease(r)
  BY <1>3, <1>9 DEF RerouteRelease, Reply
<1>10. CASE RerouteApply(r)
  BY <1>10 DEF RerouteApply, Reply
<1> QED BY <1>1, <1>4, <1>5, <1>6, <1>7, <1>8, <1>9, <1>10

\* So every step of the recovering controller is a step of the controller.
LEMMA DrivesController ==
  ASSUME TypeOK, [RecoveryNext]_recoveryVars
  PROVE  [OnlineNext]_onlineVars
<1>1. CASE Decide \/ BeginAdvance \/ Finalize \/ Settled \/ SubmitAllocation \/ ProcessOutcomes
  BY <1>1 DEF SubmitAllocation, ProcessOutcomes, OnlineNext
<1>2. CASE WorkStep
  BY <1>2 DEF WorkStep, Advancing, AdvanceStep, Step, OnlineNext
<1>3. CASE PolicyStep
  <2>1. Reply
    BY <1>3, PolicyReplies
  <2>2. AdvanceStep
    BY <1>3, <2>1 DEF PolicyStep, Advancing, AdvanceStep, Step
  <2> QED BY <2>2 DEF OnlineNext
<1>4. CASE UNCHANGED recoveryVars
  BY <1>4 DEF recoveryVars
<1> QED BY <1>1, <1>2, <1>3, <1>4 DEF RecoveryNext

-----------------------------------------------------------------------------
(* The table of the policy                                                 *)

LEMMA PolicyInit == RecoveryInit => PolicySound
BY DEF RecoveryInit, OnlineInit, PolicySound

\* Registering an allocation, and forgetting those that have ended.
LEMMA PolicyTable ==
  ASSUME ControllerSound, PolicySound, [RecoveryNext]_recoveryVars
  PROVE  PolicySound'
<1> USE DEF PolicySound
<1>1. CASE UNCHANGED <<running, allocation>>
  BY <1>1 DEF IsRunning
<1>2. CASE SubmitAllocation
  <2>1. PICK v \in chosen : running' = running \cup {v}
    BY <1>2 DEF SubmitAllocation, SubmitChosen
  <2>2. v.request \in Request /\ \A u \in running : u.request # v.request
    BY DEF ControllerSound, ChosenNow, IsRunning
  <2>3. allocation' = [allocation EXCEPT ![v.request] = v.ops]
    BY <1>2, <2>1 DEF SubmitAllocation
  <2>4. \A r : IsRunning(r)' <=> (IsRunning(r) \/ r = v.request)
    BY <2>1 DEF IsRunning
  <2>5. \A u \in running : u.request \in Request
    BY DEF ControllerSound, RunningNow
  <2> QED BY <2>1, <2>2, <2>3, <2>4, <2>5
<1>3. CASE ProcessOutcomes
  <2>1. /\ running' = {v \in running : ~Reported(v.request)}
        /\ allocation' = [r \in Request |-> IF r \in Forgotten THEN {} ELSE allocation[r]]
    BY <1>3 DEF ProcessOutcomes, ProcessUpdate
  <2>2. \A r \in Request : IsRunning(r)' <=> (IsRunning(r) /\ r \notin Forgotten)
    BY <2>1 DEF IsRunning, Forgotten
  <2>3. \A v \in running' : v.request \in Request /\ v.request \notin Forgotten
    BY <2>1 DEF Forgotten, ControllerSound, RunningNow
  <2> QED BY <2>1, <2>2, <2>3
<1> QED
  BY <1>1, <1>2, <1>3
     DEF RecoveryNext, Decide, BeginAdvance, Finalize, Settled, WorkStep, PolicyStep,
         recoveryVars, policyVars, onlineVars, ctrlVars, tableVars

\* What the controller is about to submit can be registered with the policy.
Registrables == \A v \in chosen : Registrable(v)

LEMMA ChosenRegistrable == ControllerSound /\ PolicySound => Registrables
BY DEF ControllerSound, ChosenNow, PolicySound, Registrables, Registrable

\* The controller with the recovery policy is a controller with some policy,
\* and the policy's table is kept in step with the running plans.
THEOREM RecoveryImplementsController == RecoverySpec => OnlineSpec /\ []PolicySound
<1>1. RecoveryInit => OnlineInit
  BY DEF RecoveryInit
<1>2. TypeOK /\ [RecoveryNext]_recoveryVars => [OnlineNext]_onlineVars
  BY DrivesController
<1>3. ControllerSound /\ PolicySound /\ [RecoveryNext]_recoveryVars => PolicySound'
  BY PolicyTable
<1>4. Inductive => TypeOK
  BY DEF Inductive, RegistrySound
<1>5. OnlineInit => TypeOK /\ Inductive /\ ScheduleSound /\ ControllerSound
  BY ControllerInit, SoundInit, RegistryInit, LaunchInit, TypeInit DEF OnlineInit, SchedInit, Inductive
<1>6. Inductive /\ ScheduleSound /\ ControllerSound /\ [OnlineNext]_onlineVars
        => Inductive' /\ ScheduleSound' /\ ControllerSound'
  <2>1. ControllerSound /\ [OnlineNext]_onlineVars => [SchedNext]_schedVars
    BY DrivesScheduler DEF ControllerSound
  <2>2. ScheduleSound /\ Inductive => LoopInv /\ TypeOK
    BY SoundPlace DEF Inductive, RegistrySound
  <2> QED BY <2>1, <2>2, SoundStep, DrivesExecutor, InductiveStep, ControllerStep
<1> QED BY <1>1, <1>2, <1>3, <1>4, <1>5, <1>6, PolicyInit, PTL DEF RecoverySpec, OnlineSpec

\* Whenever new plans are chosen, the policy has an allocation of every running
\* plan and of no other request (register, forget, _process_outcomes).
THEOREM PolicyInvariant == RecoverySpec => []PolicyAgrees
<1>1. PolicySound => PolicyAgrees
  BY DEF PolicySound, PolicyAgrees
<1> QED BY <1>1, RecoveryImplementsController, PTL

\* So register() never finds an allocation that is still active: its check
\* refuses no plan the controller submits (QCASTRecoveryPolicy.register).
THEOREM NeverRegisteredTwice == RecoverySpec => []Registrables
BY RecoveryImplementsController, ControllerImplementsScheduler, ChosenRegistrable, PTL

\* Under the recovery policy too every plan has its record, no request is
\* served late, and the executor keeps its contract.
THEOREM RecoveryKeepsSchedule ==
  RecoverySpec => [](RecordsSettled /\ DeadlinesHeld /\ AttemptsAccounted) /\ ImplementsContract
<1>1. RecoverySpec => SchedSpec
  BY RecoveryImplementsController, ControllerImplementsScheduler, PTL
<1> QED BY <1>1, RecoveryImplementsController, ControllerRecords, ControllerKeepsSchedule,
           ScheduleImplementsContract, PTL

=============================================================================
