----------------------- MODULE OnlineControllerProofs -----------------------
(***************************************************************************)
(* Proofs about OnlineController: whatever the planner chooses, the        *)
(* controller only ever submits what the scheduler accepts, its table of   *)
(* running plans names the attempts of the scheduler, and at the end its   *)
(* records say what became of every plan.                                  *)
(***************************************************************************)
EXTENDS OnlineController, PersistentSchedulerProofs

LOCAL INSTANCE FiniteSetsExt
LOCAL INSTANCE Sequences

\* A chosen variable that is submitted has a start inside the horizon.
LEMMA SubmitStarts ==
  ASSUME NEW r \in Request, NEW ops \in Plans[r], NEW start \in Nat, Submit(r, ops, start)
  PROVE  start \in 0 .. HorizonSlots
<1> USE ScheduleAssumption
<1>1. WellScheduled(ops) /\ Offset \in [Op -> Nat] /\ Deadline \in [Request -> Nat] /\ HorizonSlots \in Nat
  OBVIOUS
<1>2. PICK t \in Terminals(ops) : t \in ops
  BY <1>1 DEF WellScheduled, Terminals
<1>3. t \in Op /\ Offset[t] \in Nat
  BY <1>1, <1>2, ExecutorAssumption
<1>4. start + Offset[t] < Limit(r)
  BY <1>2 DEF Submit, InTime
<1>5. Limit(r) \in Nat /\ Limit(r) <= HorizonSlots
  BY <1>1 DEF Limit
<1> QED BY <1>1, <1>3, <1>4, <1>5

\* Every step of the controller is a step of the scheduler or none.
LEMMA DrivesScheduler ==
  ASSUME ChosenNow, [OnlineNext]_onlineVars
  PROVE  [SchedNext]_schedVars
<1>1. CASE Decide \/ BeginAdvance \/ ProcessUpdate \/ Finalize \/ Settled \/ UNCHANGED onlineVars
  BY <1>1 DEF Decide, BeginAdvance, ProcessUpdate, Finalize, Settled, onlineVars
<1>2. CASE SubmitChosen
  <2>1. PICK v \in chosen : Submit(v.request, v.ops, v.start)
    BY <1>2 DEF SubmitChosen
  <2>2. v.request \in Request /\ v.ops \in Plans[v.request] /\ v.start \in Nat
    BY DEF ChosenNow
  <2>3. v.start \in 0 .. HorizonSlots
    BY <2>1, <2>2, SubmitStarts
  <2> QED BY <2>1, <2>2, <2>3 DEF SchedNext
<1>3. CASE AdvanceStep
  BY <1>3 DEF AdvanceStep, SchedNext
<1> QED BY <1>1, <1>2, <1>3 DEF OnlineNext

\* What a variable offered to the planner is.
LEMMA VariablesShape ==
  ASSUME slot \in Nat, NEW w, NEW reserved, NEW v \in Variables(w, reserved)
  PROVE  /\ v.request \in Eligible /\ v.ops \in Plans[v.request] /\ v.start \in Nat
BY DEF Variables

\* Between two slots the scheduler can only start the next one.
LEMMA BoundaryStep ==
  ASSUME LoopPlace, RepliesOpen, Step, at = "boundary"
  PROVE  StartSlot
<1>1. toAnswer = {} /\ revision = {}
  BY DEF LoopPlace, RepliesOpen
<1>2. ~(LaunchDue \/ RejectDue \/ AdvanceOnce \/ WaitOnce \/ ExecutorStep \/ ExecutorReturns \/ CloseSlot)
  BY DEF LaunchDue, RejectDue, AdvanceOnce, WaitOnce, ExecutorStep, ExecutorReturns, CloseSlot, Running
<1>3. ~(EndProcessing \/ EndSweep \/ EndSlot) /\ \A r : ~(ProcessDoom(r) \/ SweepBusy(r) \/ SweepQuiet(r))
  BY DEF EndProcessing, EndSweep, EndSlot, ProcessDoom, SweepBusy, SweepQuiet, Processing, Sweeping
<1>4. \A o : ~(ProcessSuccess(o) \/ ProcessFailure(o))
  BY DEF ProcessSuccess, ProcessFailure, Processing
<1>5. \A r, o, ops : ~(Decline(r) \/ Continue(r) \/ Accept(r, o) \/ Revise(r, ops) \/ ReviseInfeasible(r, ops))
  BY DEF Decline, Continue, Accept, Revise, ReviseInfeasible, Fresh, Asking
<1>6. \A r, s, start : ~(ContinueRelease(s) \/ ReviseRelease(s) \/ ApplyRevision(r, start))
  BY <1>1 DEF ContinueRelease, ReviseRelease, ApplyRevision, Asking
<1> QED BY <1>2, <1>3, <1>4, <1>5, <1>6 DEF Step, Work, Reply

\* While the scheduler runs, attempts only end, and only an attempt is served.
LEMMA StepTables ==
  ASSUME Inductive, ScheduleSound, Step
  PROVE  /\ attempts' = attempts
         /\ active' \subseteq active
         /\ \A r \in Request : finishedAt'[r] = finishedAt[r] \/ (r \in active /\ finishedAt'[r] = now)
<1>1. /\ TableStep /\ LoopPlace /\ RepliesOpen
      /\ ScheduleTypeOK
  BY TableSteps DEF ScheduleSound, SchedNext
<1>2. CASE \E r \in Request : \E ops \in Plans[r], start \in 0 .. HorizonSlots : Submit(r, ops, start)
  <2>1. at = "boundary" /\ active' # active
    BY <1>2 DEF Submit, CanSubmit
  <2> QED BY <1>1, <2>1, BoundaryStep DEF StartSlot
<1>3. CASE StartSlot \/ LaunchDue \/ TablesKept
  BY <1>3 DEF StartSlot, LaunchDue, TablesKept, planVars
<1>4. CASE \E r \in Request : SweepQuiet(r) \/ \E start \in 0 .. HorizonSlots : ApplyRevision(r, start)
  BY <1>4 DEF SweepQuiet, ApplyRevision
<1>5. CASE \E r \in Request : Answering(r)
  <2>1. PICK r \in Request : Answering(r)
    BY <1>5
  <2>2. CASE \E success : FinishAttempt(r, success)
    BY <1>1, <2>2 DEF FinishAttempt, ScheduleTypeOK
  <2>3. CASE \E s : Adding(r, s)
    BY <2>3 DEF Adding
  <2> QED BY <2>1, <2>2, <2>3 DEF Answering, Ending, Serving
<1> QED BY <1>1, <1>2, <1>3, <1>4, <1>5 DEF TableStep

\* Two records in a row.
LEMMA AppendRecord ==
  ASSUME NEW R, NEW s \in Seq(R), NEW e \in R
  PROVE  /\ Append(s, e) \in Seq(R)
         /\ Len(Append(s, e)) = Len(s) + 1
         /\ \A k \in 1 .. Len(s) : Append(s, e)[k] = s[k]
         /\ Append(s, e)[Len(s) + 1] = e
OBVIOUS

-----------------------------------------------------------------------------
(* The invariant of the controller                                         *)

LEMMA ControllerInit == OnlineInit => ControllerSound
<1> SUFFICES ASSUME OnlineInit PROVE ControllerSound
  OBVIOUS
<1> USE DEF OnlineInit, SchedInit
<1>1. RunningNow /\ ChosenNow
  BY DEF RunningNow, ChosenNow
<1>2. Completed = {}
  BY DEF Completed
<1>3. RecordsNow
  <2>1. \A r \in Request : records[r] = <<>> /\ attempts[r] = 0
    OBVIOUS
  <2>2. \A r \in Request : Latest(r) = 0
    BY <2>1 DEF Latest
  <2>3. records \in [Request -> Seq([decided : Nat, result : {"open", "success", "failure"}])]
    OBVIOUS
  <2>4. \A r : ~IsRunning(r)
    BY DEF IsRunning
  <2> QED BY <1>2, <2>1, <2>2, <2>3, <2>4 DEF RecordsNow
<1>4. TablesAgree /\ RecordsSettled
  BY <1>2 DEF TablesAgree, RecordsSettled
<1> QED BY <1>1, <1>3, <1>4 DEF ControllerSound

\* The planner chooses among the requests that wait for a plan.
LEMMA DecideStep ==
  ASSUME ScheduleSound, ControllerSound, Decide
  PROVE  ControllerSound'
<1> USE DEF ControllerSound
<1>1. /\ turn = "decide" /\ turn' = "submit"
      /\ UNCHANGED <<schedVars, running, records, settledAt>>
      /\ withdrawn' = withdrawn \cup Expiring(slot)
  BY DEF Decide
<1>2. UNCHANGED <<at, active, finishedAt, attempts, slot>>
  BY <1>1 DEF schedVars, planVars, loopVars
<1>3. \A r : IsRunning(r)' <=> IsRunning(r)
  BY <1>1 DEF IsRunning
<1>4. Completed' = Completed
  BY <1>2 DEF Completed
<1>5. RunningNow'
  BY <1>1, <1>2 DEF RunningNow
<1>6. ASSUME NEW v \in chosen'
      PROVE  /\ v.request \in Eligible /\ v.ops \in Plans[v.request] /\ v.start \in Nat
             /\ \A w \in chosen' : v # w => v.request # w.request
  <2>1. slot \in Nat
    BY ScheduleAssumption DEF ScheduleSound, LoopPlace
  <2>2. PICK reserved : /\ chosen' \subseteq Variables(NextDecision, reserved)
                        /\ SelectionFits(chosen', reserved)
    BY DEF Decide
  <2> QED BY <1>6, <2>1, <2>2, VariablesShape DEF SelectionFits
<1>7. ASSUME NEW r \in Eligible
      PROVE  r \in Request /\ r \notin withdrawn' /\ ~IsRunning(r) /\ r \notin Completed
  <2>1. slot \in Nat /\ Deadline[r] \in Nat /\ Deadline[r] > slot
    BY ScheduleAssumption DEF Eligible, ScheduleSound, LoopPlace
  <2> QED BY <1>1, <2>1 DEF Eligible, Expiring, CanSubmit, Completed
<1>8. ChosenNow'
  BY <1>3, <1>4, <1>6, <1>7 DEF ChosenNow
<1>9. RecordsNow'
  <2>1. \A r : Latest(r)' = Latest(r) /\ LatestResult(r)' = LatestResult(r)
    BY <1>1, <1>3, <1>4 DEF Latest, LatestResult
  <2> QED BY <1>1, <1>2, <1>3, <1>4, <2>1 DEF RecordsNow
<1>10. TablesAgree'
  <2>1. \A r \in Expiring(slot) : r \notin active /\ r \notin Completed
    BY <1>1 DEF Expiring, IsRunning, TablesAgree
  <2> QED BY <1>1, <1>2, <1>4, <2>1 DEF TablesAgree
<1>11. RecordsSettled'
  BY <1>1 DEF RecordsSettled
<1> QED BY <1>5, <1>8, <1>9, <1>10, <1>11

\* A submission opens a record, and the records before it are of failures.
LEMMA SubmitStep ==
  ASSUME ScheduleSound, ControllerSound, SubmitChosen
  PROVE  ControllerSound'
<1> USE DEF ControllerSound
<1> DEFINE Entries == [decided : Nat, result : {"open", "success", "failure"}]
           entry == [decided |-> slot, result |-> "open"]
<1>1. PICK v \in chosen :
        /\ Submit(v.request, v.ops, v.start)
        /\ chosen' = chosen \ {v}
        /\ running' = running \cup {v}
        /\ records' = [records EXCEPT ![v.request] = Append(records[v.request], entry)]
  BY DEF SubmitChosen
<1> DEFINE q == v.request
<1>2. /\ q \in Request /\ q \notin withdrawn /\ ~IsRunning(q) /\ q \notin Completed
      /\ \A w \in chosen \ {v} : w.request # q
  BY DEF ChosenNow
<1>3. /\ turn = "submit" /\ turn' = turn /\ withdrawn' = withdrawn
      /\ at' = at /\ active' = active \cup {q} /\ finishedAt' = finishedAt
      /\ attempts' = [attempts EXCEPT ![q] = attempts[q] + 1]
  BY <1>1 DEF SubmitChosen, Submit, loopVars
<1>4. Completed' = Completed /\ \A r : IsRunning(r)' <=> (IsRunning(r) \/ r = q)
  BY <1>1, <1>3 DEF Completed, IsRunning
<1>5. RunningNow'
  BY <1>1, <1>2, <1>3 DEF RunningNow
<1>6. ChosenNow'
  BY <1>1, <1>2, <1>3, <1>4 DEF ChosenNow
<1>7. /\ records[q] \in Seq(Entries) /\ entry \in Entries /\ slot \in Nat /\ attempts \in [Request -> Nat]
      /\ records \in [Request -> Seq(Entries)]
  <2>1. slot \in Nat
    BY ScheduleAssumption DEF ScheduleSound, LoopPlace
  <2> QED BY <1>2, <2>1 DEF RecordsNow, ScheduleSound, ScheduleTypeOK
<1> HIDE DEF Entries, entry, q
<1>8. /\ records'[q] \in Seq(Entries) /\ Len(records'[q]) = Len(records[q]) + 1
      /\ \A k \in 1 .. Len(records[q]) : records'[q][k] = records[q][k]
      /\ records'[q][Len(records[q]) + 1] = entry
      /\ \A r \in Request \ {q} : records'[r] = records[r]
      /\ records' \in [Request -> Seq(Entries)]
  BY <1>1, <1>2, <1>7, AppendRecord DEF q
<1>9. RecordsNow'
  <2>1. ASSUME NEW r \in Request
        PROVE  /\ Len(records'[r]) = attempts'[r]
               /\ (IsRunning(r)' \/ r \in Completed => attempts'[r] > 0) /\ (r \in Completed => finishedAt[r] <= Horizon)
               /\ \A k \in 1 .. Len(records'[r]) :
                    records'[r][k].result = IF k < Len(records'[r]) THEN "failure" ELSE LatestResult(r)'
    <3>1. /\ Len(records[r]) = attempts[r] /\ attempts[r] \in Nat
          /\ (IsRunning(r) \/ r \in Completed => attempts[r] > 0) /\ (r \in Completed => finishedAt[r] <= Horizon)
          /\ \A k \in 1 .. Len(records[r]) :
               records[r][k].result = IF k < Len(records[r]) THEN "failure" ELSE LatestResult(r)
      BY <1>3, <1>7 DEF RecordsNow, Latest
    <3>2. CASE r = q
      <4>1. LatestResult(r) = "failure" /\ LatestResult(r)' = "open"
        BY <1>2, <1>4, <3>2 DEF LatestResult
      <4>2. entry.result = "open"
        BY DEF entry
      <4>3. \A k \in 1 .. Len(records[q]) : records[q][k].result = "failure"
        BY <3>1, <3>2, <4>1
      <4>4. attempts'[r] = attempts[r] + 1
        BY <1>2, <1>3, <1>7, <3>2 DEF q
      <4>5. \A k \in 1 .. Len(records'[r]) :
              records'[r][k].result = IF k < Len(records'[r]) THEN "failure" ELSE "open"
        <5> SUFFICES ASSUME NEW k \in 1 .. Len(records[q]) + 1
                     PROVE  records'[q][k].result = IF k < Len(records[q]) + 1 THEN "failure" ELSE "open"
          BY <1>8, <3>2
        <5>1. CASE k = Len(records[q]) + 1
          BY <1>8, <3>1, <3>2, <4>2, <5>1
        <5>2. CASE k \in 1 .. Len(records[q])
          BY <1>8, <3>1, <3>2, <4>3, <5>2
        <5> QED BY <3>1, <3>2, <5>1, <5>2
      <4> QED BY <1>2, <1>8, <3>1, <3>2, <4>1, <4>4, <4>5
    <3>3. CASE r # q
      <4>1. LatestResult(r)' = LatestResult(r)
        BY <1>4, <3>3 DEF LatestResult
      <4>2. IsRunning(r)' <=> IsRunning(r)
        BY <1>4, <3>3
      <4>3. records'[r] = records[r] /\ attempts'[r] = attempts[r]
        BY <1>3, <1>7, <1>8, <3>3 DEF q
      <4> QED BY <3>1, <4>1, <4>2, <4>3
    <3> QED BY <3>2, <3>3
  <2> QED BY <1>3, <1>4, <1>8, <2>1 DEF RecordsNow, Latest, Entries
<1>10. TablesAgree' /\ RecordsSettled'
  BY <1>2, <1>3, <1>4 DEF TablesAgree, RecordsSettled, q
<1> QED BY <1>5, <1>6, <1>9, <1>10

\* The program counter moves on, or nothing happens.
LEMMA BeginStep ==
  ASSUME ControllerSound, BeginAdvance \/ Settled \/ UNCHANGED onlineVars
  PROVE  ControllerSound'
<1> USE DEF ControllerSound
<1>1. /\ UNCHANGED <<schedVars, chosen, running, withdrawn, records, settledAt>>
      /\ turn' = turn \/ (turn = "submit" /\ chosen = {} /\ turn' = "advance")
  BY DEF BeginAdvance, Settled, onlineVars, ctrlVars, tableVars
<1>2. UNCHANGED <<at, active, finishedAt, attempts>>
  BY <1>1 DEF schedVars, planVars, loopVars
<1>3. /\ Completed' = Completed /\ \A r : IsRunning(r)' <=> IsRunning(r)
      /\ \A r : Latest(r)' = Latest(r) /\ LatestResult(r)' = LatestResult(r)
  BY <1>1, <1>2 DEF Completed, IsRunning, Latest, LatestResult
<1>4. RunningNow' /\ ChosenNow'
  BY <1>1, <1>2, <1>3 DEF RunningNow, ChosenNow
<1>5. TablesAgree' /\ RecordsSettled'
  BY <1>1, <1>2, <1>3 DEF TablesAgree, RecordsSettled
<1>6. RecordsNow'
  BY <1>1, <1>2, <1>3 DEF RecordsNow
<1> QED BY <1>4, <1>5, <1>6

\* The scheduler ends attempts, and serves requests that are running.
LEMMA RunStep ==
  ASSUME Inductive, ScheduleSound, ControllerSound, AdvanceStep
  PROVE  ControllerSound'
<1> USE DEF ControllerSound
<1>1. /\ turn = "advance" /\ UNCHANGED <<turn, chosen, running, withdrawn, records, settledAt>>
      /\ Step
  BY DEF AdvanceStep, ctrlVars, tableVars
<1>2. /\ attempts' = attempts /\ active' \subseteq active /\ active \subseteq Request
      /\ \A r \in Request : finishedAt'[r] = finishedAt[r] \/ (r \in active /\ finishedAt'[r] = now)
      /\ now \in 0 .. Horizon /\ Horizon \in Nat
  BY <1>1, StepTables, ExecutorAssumption
     DEF Inductive, RegistrySound, TypeOK, ScheduleSound, ScheduleTypeOK
<1>3. Completed \subseteq Completed' /\ Completed' \subseteq Completed \cup active
  BY <1>2 DEF Completed, Never, ScheduleSound, AttemptsAccounted
<1>4. \A r : (IsRunning(r)' <=> IsRunning(r)) /\ Latest(r)' = Latest(r)
  BY <1>1 DEF IsRunning, Latest
<1>5. \A r \in active : IsRunning(r) /\ attempts[r] > 0
  <2>1. \A r \in active : attempts[r] = outcomes[r] + 1 /\ outcomes[r] \in Nat
    BY <1>2, OpenAttempt DEF ScheduleSound
  <2>2. \A r \in active : IsRunning(r)
    BY DEF RunningNow, IsRunning
  <2> QED BY <2>1, <2>2
<1>6. RunningNow' /\ ChosenNow'
  BY <1>1, <1>2 DEF RunningNow, ChosenNow
<1>7. TablesAgree' /\ RecordsSettled'
  BY <1>1, <1>2, <1>3 DEF TablesAgree, RecordsSettled
<1>8. \A r \in Request : LatestResult(r)' = LatestResult(r)
  BY <1>3, <1>4, <1>5 DEF LatestResult
<1>9. \A r \in Completed' : attempts[r] > 0 /\ finishedAt'[r] <= Horizon
  BY <1>2, <1>3, <1>5 DEF RecordsNow, Completed
<1>10. RecordsNow'
  BY <1>1, <1>2, <1>4, <1>8, <1>9 DEF RecordsNow
<1> QED BY <1>6, <1>7, <1>10

\* Closing a record rewrites the last one only.
LEMMA ClosedRecord ==
  ASSUME RecordsNow, NEW r \in Request, Latest(r) > 0, NEW result \in {"success", "failure"}
  PROVE  /\ Closed(r, result) \in Seq([decided : Nat, result : {"open", "success", "failure"}])
         /\ Len(Closed(r, result)) = Len(records[r])
         /\ \A k \in 1 .. Len(records[r]) :
              Closed(r, result)[k].result = IF k = Len(records[r]) THEN result ELSE records[r][k].result
<1> DEFINE Entries == [decided : Nat, result : {"open", "success", "failure"}]
           s == records[r]
           n == Len(s)
           last == [s[n] EXCEPT !.result = result]
<1>1. s \in Seq(Entries) /\ n \in Nat /\ n > 0 /\ n \in 1 .. n
  BY DEF RecordsNow, Latest
<1>2. s[n] \in Entries
  <2>1. \A k \in 1 .. n : s[k] \in Entries
    <3> HIDE DEF Entries, s
    <3> QED BY <1>1 DEF n
  <2> QED BY <1>1, <2>1
<1>3. last \in Entries /\ last.result = result
  BY <1>2
<1>4. Closed(r, result) = [s EXCEPT ![n] = last]
  BY DEF Closed, Latest
<1> HIDE DEF Entries, s, last
<1>5. [s EXCEPT ![n] = last] \in Seq(Entries) /\ Len([s EXCEPT ![n] = last]) = Len(s)
  BY <1>1, <1>3 DEF n
<1>6. \A k \in 1 .. n : [s EXCEPT ![n] = last][k] = IF k = n THEN last ELSE s[k]
  BY <1>1
<1> QED BY <1>3, <1>4, <1>5, <1>6 DEF Entries, s, n

\* What the update between two decisions reports is what has ended.
LEMMA UpdateStep ==
  ASSUME ScheduleSound, ControllerSound, ProcessUpdate
  PROVE  ControllerSound'
<1> USE DEF ControllerSound
<1>1. /\ turn = "advance" /\ turn' = "decide" /\ at = "boundary"
      /\ UNCHANGED <<schedVars, chosen, withdrawn>>
      /\ running' = {v \in running : ~Reported(v.request)}
      /\ records' = [r \in Request |->
           IF IsRunning(r) /\ Reported(r)
           THEN Closed(r, IF finishedAt[r] # Never THEN "success" ELSE "failure")
           ELSE records[r]]
  BY DEF ProcessUpdate, Reached
<1>2. UNCHANGED <<at, active, finishedAt, attempts>> /\ Completed' = Completed
  BY <1>1 DEF schedVars, planVars, loopVars, Completed
<1>3. \A r \in Request : Reported(r) <=> r \notin active
  BY OpenAttempt DEF ScheduleSound, Reported
<1>4. /\ active \subseteq Request
      /\ \A v \in running : v.request \in Request => (Reported(v.request) <=> v.request \notin active)
  BY <1>3 DEF ScheduleSound, ScheduleTypeOK
<1>5. {v.request : v \in running'} = active
  <2>1. \A v \in running : v.request \in Request
    BY DEF RunningNow
  <2> QED BY <1>1, <1>4, <2>1 DEF RunningNow
<1>6. \A r \in Request : IsRunning(r)' <=> (IsRunning(r) /\ ~Reported(r))
  BY <1>1 DEF IsRunning
<1>7. RunningNow'
  BY <1>1, <1>2, <1>5 DEF RunningNow
<1>8. ChosenNow' /\ TablesAgree' /\ RecordsSettled'
  BY <1>1, <1>2, <1>5 DEF ChosenNow, RunningNow, TablesAgree, RecordsSettled
<1>9. ASSUME NEW r \in Request
      PROVE  /\ records'[r] \in Seq([decided : Nat, result : {"open", "success", "failure"}])
             /\ Len(records'[r]) = attempts[r]
             /\ \A k \in 1 .. Len(records'[r]) :
                  records'[r][k].result = IF k < Len(records'[r]) THEN "failure" ELSE LatestResult(r)'
  <2>1. /\ records[r] \in Seq([decided : Nat, result : {"open", "success", "failure"}])
        /\ Len(records[r]) = attempts[r] /\ attempts[r] \in Nat /\ Latest(r) = Len(records[r])
        /\ \A k \in 1 .. Len(records[r]) :
             records[r][k].result = IF k < Len(records[r]) THEN "failure" ELSE LatestResult(r)
    BY <1>1 DEF RecordsNow, Latest, ScheduleSound, ScheduleTypeOK
  <2>2. CASE ~(IsRunning(r) /\ Reported(r))
    <3>1. LatestResult(r)' = LatestResult(r)
      BY <1>2, <1>6, <2>2 DEF LatestResult
    <3> QED BY <1>1, <2>1, <2>2, <3>1
  <2>3. CASE IsRunning(r) /\ Reported(r)
    <3> DEFINE result == IF finishedAt[r] # Never THEN "success" ELSE "failure"
    <3>1. records'[r] = Closed(r, result) /\ LatestResult(r)' = result /\ result \in {"success", "failure"}
      BY <1>1, <1>2, <1>6, <2>3 DEF LatestResult, Completed
    <3> HIDE DEF result
    <3>2. CASE Latest(r) > 0
      <4>1. /\ Closed(r, result) \in Seq([decided : Nat, result : {"open", "success", "failure"}])
            /\ Len(Closed(r, result)) = Len(records[r])
            /\ \A k \in 1 .. Len(records[r]) :
                 Closed(r, result)[k].result = IF k = Len(records[r]) THEN result ELSE records[r][k].result
        BY <3>1, <3>2, ClosedRecord
      <4> QED BY <2>1, <3>1, <4>1
    <3>3. CASE ~(Latest(r) > 0)
      <4>1. FALSE
        BY <2>1, <2>3, <3>3 DEF RecordsNow
      <4> QED BY <4>1
    <3> QED BY <3>2, <3>3
  <2> QED BY <2>2, <2>3
<1>10. RecordsNow'
  <2>1. \A r \in Request : /\ IsRunning(r)' \/ r \in Completed => attempts[r] > 0
                          /\ r \in Completed => finishedAt[r] <= Horizon
    BY <1>6 DEF RecordsNow
  <2>2. records' \in [Request -> Seq([decided : Nat, result : {"open", "success", "failure"}])]
    BY <1>1, <1>9
  <2> QED BY <1>1, <1>2, <1>6, <1>9, <2>1, <2>2 DEF RecordsNow, Latest
<1> QED BY <1>7, <1>8, <1>10

LEMMA LesserOfTwo ==
  ASSUME NEW a \in Nat, NEW b \in Nat
  PROVE  Min({a, b}) = IF a < b THEN a ELSE b
<1> DEFINE m == IF a < b THEN a ELSE b
           Least(x) == x \in {a, b} /\ \A y \in {a, b} : x <= y
<1>1. Least(m) /\ \A x \in {a, b} : Least(x) => x = m
  OBVIOUS
<1>2. Min({a, b}) = CHOOSE x \in {a, b} : \A y \in {a, b} : x <= y
  BY DEF Min
<1> QED BY <1>1, <1>2

\* A request is settled when it was served, or at its limit.
LEMMA SettledInTime ==
  ASSUME ScheduleSound, RecordsNow, slot = HorizonSlots, at = "boundary", NEW r \in Request
  PROVE  SettlementTime(r) <= Limit(r) * SlotLength
<1>1. /\ Deadline[r] \in Nat /\ HorizonSlots \in Nat /\ SlotLength \in Nat
      /\ Horizon = HorizonSlots * SlotLength
  BY ScheduleAssumption
<1>2. CASE r \in Completed
  <2>1. finishedAt[r] <= Deadline[r] * SlotLength /\ finishedAt[r] <= HorizonSlots * SlotLength
    BY <1>1, <1>2 DEF ScheduleSound, DeadlinesWatched, RecordsNow, Completed
  <2> QED BY <1>2, <2>1 DEF SettlementTime, Limit
<1>3. CASE r \notin Completed
  <2>1. SettlementTime(r) = Limit(r) * SlotLength
    BY <1>1, <1>3, LesserOfTwo DEF SettlementTime, Limit
  <2>2. Limit(r) * SlotLength \in Nat
    BY <1>1 DEF Limit
  <2> QED BY <2>1, <2>2
<1> QED BY <1>2, <1>3

\* The end of the run closes the records of what is still running.
LEMMA FinalizeStep ==
  ASSUME ScheduleSound, ControllerSound, Finalize
  PROVE  ControllerSound'
<1> USE DEF ControllerSound
<1>1. /\ turn = "decide" /\ turn' = "settled" /\ slot = HorizonSlots /\ at = "boundary"
      /\ UNCHANGED <<schedVars, chosen, running>>
      /\ withdrawn' = withdrawn \cup Expiring(HorizonSlots)
      /\ records' = [r \in Request |-> IF IsRunning(r) THEN Closed(r, "failure") ELSE records[r]]
      /\ settledAt' = [r \in Request |-> SettlementTime(r)]
  BY DEF Finalize, RunningNow
<1>2. UNCHANGED <<at, active, finishedAt, attempts>> /\ Completed' = Completed
  BY <1>1 DEF schedVars, planVars, loopVars, Completed
<1>3. (\A r : IsRunning(r)' <=> IsRunning(r)) /\ chosen = {}
  BY <1>1 DEF IsRunning, RunningNow
<1>4. RunningNow' /\ ChosenNow'
  BY <1>1, <1>2, <1>3 DEF RunningNow, ChosenNow
<1>5. \A r : IsRunning(r) => r \in active /\ r \notin Completed
  BY <1>1 DEF RunningNow, IsRunning, ScheduleSound, AttemptsAccounted, Completed
<1>6. TablesAgree'
  <2>1. \A r \in Expiring(HorizonSlots) : r \notin active /\ r \notin Completed
    BY <1>1 DEF Expiring, IsRunning, RunningNow
  <2> QED BY <1>1, <1>2, <2>1 DEF TablesAgree
<1>7. ASSUME NEW r \in Request
      PROVE  /\ records'[r] \in Seq([decided : Nat, result : {"open", "success", "failure"}])
             /\ Len(records'[r]) = attempts[r] /\ attempts[r] \in Nat
             /\ \A k \in 1 .. Len(records'[r]) :
                  records'[r][k].result = IF k = attempts[r] /\ r \in Completed THEN "success" ELSE "failure"
  <2>1. /\ records[r] \in Seq([decided : Nat, result : {"open", "success", "failure"}])
        /\ Len(records[r]) = attempts[r] /\ attempts[r] \in Nat /\ Latest(r) = Len(records[r])
        /\ IsRunning(r) => attempts[r] > 0
        /\ \A k \in 1 .. Len(records[r]) :
             records[r][k].result = IF k < Len(records[r]) THEN "failure" ELSE LatestResult(r)
    BY <1>1 DEF RecordsNow, Latest, ScheduleSound, ScheduleTypeOK
  <2>2. CASE ~IsRunning(r)
    <3>1. /\ records'[r] = records[r]
          /\ LatestResult(r) = IF r \in Completed THEN "success" ELSE "failure"
      BY <1>1, <2>2 DEF LatestResult
    <3>2. \A k \in 1 .. Len(records[r]) : k < Len(records[r]) \/ k = attempts[r]
      BY <2>1
    <3> QED BY <2>1, <3>1, <3>2
  <2>3. CASE IsRunning(r)
    <3>1. records'[r] = Closed(r, "failure") /\ r \notin Completed /\ Latest(r) > 0
      BY <1>1, <1>5, <2>1, <2>3
    <3>2. /\ Closed(r, "failure") \in Seq([decided : Nat, result : {"open", "success", "failure"}])
          /\ Len(Closed(r, "failure")) = Len(records[r])
          /\ \A k \in 1 .. Len(records[r]) :
               Closed(r, "failure")[k].result = IF k = Len(records[r]) THEN "failure" ELSE records[r][k].result
      BY <3>1, ClosedRecord
    <3>3. \A k \in 1 .. Len(records[r]) : k < Len(records[r]) \/ k = Len(records[r])
      BY <2>1
    <3> QED BY <2>1, <3>1, <3>2, <3>3
  <2> QED BY <2>2, <2>3
<1>8. RecordsNow'
  <2>1. records' \in [Request -> Seq([decided : Nat, result : {"open", "success", "failure"}])]
    BY <1>1, <1>7
  <2>2. \A r \in Request : /\ IsRunning(r) \/ r \in Completed => attempts[r] > 0
                          /\ r \in Completed => finishedAt[r] <= Horizon
    BY DEF RecordsNow
  <2> QED BY <1>1, <1>2, <1>3, <1>7, <2>1, <2>2 DEF RecordsNow, Latest
<1>9. RecordsSettled'
  <2>1. \A r \in Request : settledAt'[r] <= Limit(r) * SlotLength
    BY <1>1, SettledInTime
  <2>2. \A r \in Request : Latest(r)' = attempts[r]
    BY <1>7 DEF Latest
  <2>3. \A r \in Request : \A k \in 1 .. attempts[r] :
          /\ records'[r][k].result # "open"
          /\ records'[r][k].result = "success" <=> k = attempts[r] /\ r \in Completed
    BY <1>7
  <2> QED BY <1>2, <2>1, <2>2, <2>3 DEF RecordsSettled
<1> QED BY <1>4, <1>6, <1>8, <1>9

LEMMA ControllerStep == Inductive /\ ScheduleSound /\ ControllerSound /\ [OnlineNext]_onlineVars => ControllerSound'
BY DecideStep, SubmitStep, BeginStep, RunStep, UpdateStep, FinalizeStep DEF OnlineNext

\* Under any planner that keeps to the reservations the controller only calls
\* submit and advance_to_slot, and only when the scheduler accepts the call.
THEOREM ControllerImplementsScheduler == OnlineSpec => SchedSpec /\ []ControllerSound
<1>1. OnlineInit => SchedInit /\ ControllerSound /\ Inductive /\ ScheduleSound
  BY ControllerInit, SoundInit, RegistryInit, LaunchInit DEF OnlineInit, SchedInit, Inductive
<1>2. ControllerSound /\ [OnlineNext]_onlineVars => [SchedNext]_schedVars
  BY DrivesScheduler DEF ControllerSound
<1>3. Inductive /\ ScheduleSound /\ [SchedNext]_schedVars => Inductive' /\ ScheduleSound'
  <2>1. ScheduleSound /\ Inductive => LoopInv /\ TypeOK
    BY SoundPlace DEF Inductive, RegistrySound
  <2> QED BY <2>1, SoundStep, DrivesExecutor, InductiveStep
<1> QED BY <1>1, <1>2, <1>3, ControllerStep, PTL DEF OnlineSpec, SchedSpec

\* When the planner is asked, _running_variables and the scheduler name the
\* same requests, and a withdrawn request is never served.
THEOREM ControllerTables == OnlineSpec => []TablesAgree
<1>1. ControllerSound => TablesAgree
  BY DEF ControllerSound
<1> QED BY <1>1, ControllerImplementsScheduler, PTL

\* The records of a settled run account for every plan and every request.
THEOREM ControllerRecords == OnlineSpec => []RecordsSettled
<1>1. ControllerSound => RecordsSettled
  BY DEF ControllerSound
<1> QED BY <1>1, ControllerImplementsScheduler, PTL

\* Deadlines hold and attempts are accounted for in the controlled system too.
THEOREM ControllerKeepsSchedule == OnlineSpec => [](AttemptsAccounted /\ DeadlinesHeld)
BY ControllerImplementsScheduler, AttemptsInvariant, DeadlinesInvariant, PTL

=============================================================================
