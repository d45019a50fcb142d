---------------------- MODULE PersistentSchedulerProofs ----------------------
(***************************************************************************)
(* Proofs about PersistentScheduler: it only ever uses the executor        *)
(* lawfully, its tables account for every attempt, for every operation     *)
(* that is due and for every delivered pair, it holds no memory of an      *)
(* attempt that ended, and deadlines are kept, for every plan, revision    *)
(* and answer of the event policy.                                         *)
(***************************************************************************)
EXTENDS PersistentScheduler, ExecutorLaunchProofs

\* Where the scheduler is and what it is about to install.
LoopInv ==
  /\ slot \in Nat
  /\ at # "boundary" => slot < HorizonSlots
  /\ revision # {} => \E r \in Request : revision \in Repairs[r] /\ \A o \in revision : Owner[o] = r

\* The slot being run ends at the horizon or before.
LEMMA SlotInside ==
  ASSUME LoopInv, at # "boundary"
  PROVE  SlotEnd \in Nat /\ SlotEnd <= Horizon
<1> USE ScheduleAssumption, ExecutorAssumption
<1>1. slot + 1 \in Nat /\ slot + 1 <= HorizonSlots /\ HorizonSlots \in Nat /\ SlotLength \in Nat
  BY DEF LoopInv
<1>2. \A a, b, c \in Nat : a <= b => a * c \in Nat /\ a * c <= b * c
  OBVIOUS
<1> QED BY <1>1, <1>2 DEF SlotEnd

-----------------------------------------------------------------------------
(* Steps that are a step of the executor                                   *)

LEMMA FinishAttemptStep ==
  ASSUME NEW r \in Request, NEW success, FinishAttempt(r, success)
  PROVE  Next
BY DEF FinishAttempt, GiveBack, Next

LEMMA DeliverStep ==
  ASSUME NEW r \in Request, NEW s, Deliver(r, s)
  PROVE  Next \/ UNCHANGED vars
BY FinishAttemptStep DEF Deliver

LEMMA LateStep ==
  ASSUME NEW r \in Request, ReleaseLate(r)
  PROVE  Next \/ UNCHANGED vars
BY DEF ReleaseLate, Next

\* The calls of the slot's loop.
LEMMA CallStep ==
  ASSUME LoopInv, TypeOK,
         LaunchDue \/ AdvanceOnce \/ WaitOnce \/ ExecutorStep \/ ExecutorReturns
  PROVE  Next
<1>1. CASE LaunchDue
  <2>1. Launch(ReadyDue) /\ ReadyDue \subseteq Ready
    BY <1>1 DEF LaunchDue, Launch, LaunchAdmits
  <2> QED BY <2>1 DEF Next
<1>2. CASE AdvanceOnce
  <2>1. SlotEnd \in now .. Horizon
    BY <1>2, SlotInside DEF AdvanceOnce, Running, TypeOK
  <2> QED BY <1>2, <2>1 DEF AdvanceOnce, Next
<1>3. CASE WaitOnce
  <2>1. SlotEnd \in now .. Horizon
    BY <1>3, SlotInside DEF WaitOnce, Running, TypeOK
  <2> QED BY <1>3, <2>1 DEF WaitOnce, Next
<1>4. CASE ExecutorStep
  BY <1>4 DEF ExecutorStep, Finish, Next
<1>5. CASE ExecutorReturns
  BY <1>5 DEF ExecutorReturns, Next
<1> QED BY <1>1, <1>2, <1>3, <1>4, <1>5

\* The events of a batch.
LEMMA EventStep ==
  ASSUME NEW o \in Op, ProcessSuccess(o) \/ ProcessFailure(o)
  PROVE  Next \/ UNCHANGED vars
<1>1. Owner[o] \in Request
  BY OperationAssumption
<1>2. CASE ProcessSuccess(o)
  BY <1>1, <1>2, LateStep, DeliverStep DEF ProcessSuccess
<1>3. CASE ProcessFailure(o)
  BY <1>1, <1>3, LateStep, FinishAttemptStep DEF ProcessFailure
<1> QED BY <1>2, <1>3

\* A revision repairs the DAG with what the policy proposed.
LEMMA ApplyStep ==
  ASSUME LoopInv, NEW r \in Request, NEW start, ApplyRevision(r, start)
  PROVE  Next
<1>1. revision \in Repairs[r]
  BY DEF ApplyRevision, LoopInv
<1>2. Repair(r, revision, TRUE)
  BY DEF ApplyRevision
<1> QED BY <1>1, <1>2 DEF Next

\* Every step of the scheduler is a step of the executor or leaves it alone.
LEMMA DrivesExecutor == LoopInv /\ TypeOK /\ [SchedNext]_schedVars => [Next]_vars
<1> SUFFICES ASSUME LoopInv, TypeOK, [SchedNext]_schedVars
             PROVE  Next \/ UNCHANGED vars
  OBVIOUS
<1>1. ASSUME NEW r \in Request, NEW ops \in Plans[r], NEW start \in 0 .. HorizonSlots,
             Submit(r, ops, start)
      PROVE  Next
  BY <1>1 DEF Submit, Next
<1>2. CASE StartSlot \/ RejectDue \/ CloseSlot
  BY <1>2 DEF StartSlot, RejectDue, CloseSlot
<1>3. CASE EndProcessing \/ EndSweep \/ EndSlot
  BY <1>3 DEF EndProcessing, EndSweep, EndSlot
<1>4. CASE LaunchDue \/ AdvanceOnce \/ WaitOnce \/ ExecutorStep \/ ExecutorReturns
  BY <1>4, CallStep
<1>5. ASSUME NEW r \in Request, ProcessDoom(r)
      PROVE  Next
  BY <1>5, FinishAttemptStep DEF ProcessDoom
<1>6. ASSUME NEW r \in Request, SweepBusy(r) \/ SweepQuiet(r)
      PROVE  Next
  BY <1>6 DEF SweepBusy, SweepQuiet, Next
<1>7. CASE Over \/ UNCHANGED schedVars
  BY <1>7 DEF Over, schedVars
<1>8. ASSUME NEW r \in Request, Decline(r) \/ Continue(r)
      PROVE  Next \/ UNCHANGED vars
  BY <1>8, FinishAttemptStep DEF Decline, Continue
<1>9. ASSUME NEW s \in Op, ContinueRelease(s) \/ ReviseRelease(s)
      PROVE  Next
  BY <1>9 DEF ContinueRelease, ReviseRelease, Next
<1>10. ASSUME NEW r \in Request, \E ops \in Repairs[r] : Revise(r, ops) \/ ReviseInfeasible(r, ops)
       PROVE  Next \/ UNCHANGED vars
  BY <1>10, FinishAttemptStep DEF Revise, ReviseInfeasible
<1>11. ASSUME NEW r \in Request, NEW s \in Op, Accept(r, s)
       PROVE  Next \/ UNCHANGED vars
  BY <1>11, DeliverStep DEF Accept
<1> QED BY <1>1, <1>2, <1>3, <1>4, <1>5, <1>6, <1>7, <1>8, <1>9, <1>10, <1>11,
           EventStep, ApplyStep DEF SchedNext, Step, Work, Reply

-----------------------------------------------------------------------------
(* The loop invariant                                                      *)

LEMMA LoopInit == SchedInit => LoopInv
BY DEF SchedInit, LoopInv

LEMMA LoopStep == LoopInv /\ [SchedNext]_schedVars => LoopInv'
<1> SUFFICES ASSUME LoopInv, [SchedNext]_schedVars
             PROVE  LoopInv'
  OBVIOUS
<1> USE DEF LoopInv
<1>1. ASSUME NEW r \in Request, NEW ops \in Plans[r], NEW start \in 0 .. HorizonSlots,
             Submit(r, ops, start)
      PROVE  LoopInv'
  BY <1>1 DEF Submit, replyVars, loopVars
<1>2. CASE StartSlot
  BY <1>2 DEF StartSlot, replyVars
<1>3. CASE LaunchDue \/ ExecutorStep
  BY <1>3 DEF LaunchDue, ExecutorStep, replyVars, loopVars
<1>4. CASE RejectDue \/ AdvanceOnce \/ CloseSlot
  BY <1>4 DEF RejectDue, AdvanceOnce, CloseSlot, Running, replyVars
<1>5. CASE WaitOnce \/ ExecutorReturns
  BY <1>5 DEF WaitOnce, ExecutorReturns, Running, Receive
<1>6. ASSUME NEW o \in Op, ProcessSuccess(o) \/ ProcessFailure(o)
      PROVE  LoopInv'
  BY <1>6 DEF ProcessSuccess, ProcessFailure, replyVars, loopVars
<1>7. ASSUME NEW r \in Request, ProcessDoom(r)
      PROVE  LoopInv'
  BY <1>7 DEF ProcessDoom, replyVars, loopVars
<1>8. CASE EndProcessing \/ EndSweep
  BY <1>8 DEF EndProcessing, EndSweep, Processing, replyVars
<1>9. CASE EndSlot
  BY <1>9 DEF EndSlot, replyVars
<1>10. ASSUME NEW r \in Request, Decline(r) \/ Continue(r)
       PROVE  LoopInv'
  BY <1>10 DEF Decline, Continue, loopVars
<1>11. ASSUME NEW s \in Op, ContinueRelease(s) \/ ReviseRelease(s)
       PROVE  LoopInv'
  BY <1>11 DEF ContinueRelease, ReviseRelease, loopVars
<1>12. ASSUME NEW r \in Request, NEW s \in Op, Accept(r, s)
       PROVE  LoopInv'
  BY <1>12 DEF Accept, loopVars
<1>13. ASSUME NEW r \in Request, NEW ops \in Repairs[r], Revise(r, ops)
       PROVE  LoopInv'
  <2>1. \A o \in ops : Owner[o] = r
    BY <1>13 DEF Revise, RepairAdmits, WellFormed
  <2> QED BY <1>13, <2>1 DEF Revise, loopVars
<1>14. ASSUME NEW r \in Request, NEW ops \in Repairs[r], ReviseInfeasible(r, ops)
       PROVE  LoopInv'
  BY <1>14 DEF ReviseInfeasible, loopVars
<1>15. ASSUME NEW r \in Request, NEW start, ApplyRevision(r, start)
       PROVE  LoopInv'
  BY <1>15 DEF ApplyRevision, loopVars
<1>16. ASSUME NEW r \in Request, SweepBusy(r) \/ SweepQuiet(r)
       PROVE  LoopInv'
  BY <1>16 DEF SweepBusy, SweepQuiet, replyVars
<1>17. CASE Over \/ UNCHANGED schedVars
  BY <1>17 DEF Over, schedVars, replyVars, loopVars
<1> QED BY <1>1, <1>2, <1>3, <1>4, <1>5, <1>6, <1>7, <1>8, <1>9, <1>10, <1>11, <1>12, <1>13,
           <1>14, <1>15, <1>16, <1>17 DEF SchedNext, Step, Work, Reply

-----------------------------------------------------------------------------

\* The scheduled system implements the executor's specification: nothing it
\* does reaches the executor but a legal call of one of its methods.
THEOREM ScheduleImplementsExecutor == SchedSpec => Spec
<1>1. SchedInit => Init /\ LoopInv /\ TypeOK
  BY LoopInit, TypeInit DEF SchedInit
<1>2. LoopInv /\ TypeOK /\ [SchedNext]_schedVars => LoopInv' /\ TypeOK' /\ [Next]_vars
  BY LoopStep, DrivesExecutor, TypeStep
<1> QED BY <1>1, <1>2, PTL DEF SchedSpec, Spec

\* So the executor's invariant holds under every schedule and every policy.
THEOREM ScheduleKeepsInductive == SchedSpec => []Inductive
BY ScheduleImplementsExecutor, InductiveInvariant, PTL

-----------------------------------------------------------------------------
(* What a step does to the scheduler's tables                              *)

Marked == completed \cup started \cup dead

\* An attempt of r ends, ends with its last pair s, or gets one of its pairs.
Ending(r) == FinishAttempt(r, FALSE) /\ UNCHANGED delivered

Serving(r, s) ==
  /\ now <= Deadline[r] * SlotLength
  /\ delivered' = [delivered EXCEPT ![r] = @ \cup {s}]
  /\ Enough(r, delivered'[r])
  /\ FinishAttempt(r, TRUE)

Adding(r, s) ==
  /\ now <= Deadline[r] * SlotLength
  /\ delivered' = [delivered EXCEPT ![r] = @ \cup {s}]
  /\ ~Enough(r, delivered'[r])
  /\ UNCHANGED <<vars, active, cleanup, finishedAt, terminals, slotOf, due, attempts, outcomes>>

LEMMA DeliverShape ==
  ASSUME NEW r, NEW s, Deliver(r, s)
  PROVE  Ending(r) \/ Serving(r, s) \/ Adding(r, s)
BY DEF Deliver, Ending, Serving, Adding

\* The tables stay, and so do the DAGs, what is marked and what is reached.
TablesKept ==
  /\ UNCHANGED <<planVars, dagVars>>
  /\ Marked' = Marked
  /\ \A o \in Op : SlotReached(o)' <=> SlotReached(o)

\* An event or an answer is worked off.
Answering(r) ==
  /\ UNCHANGED loopVars
  /\ \/ Ending(r)
     \/ \E s \in Op : /\ r \in active /\ Owner[s] = r /\ s \in completed
                      /\ Serving(r, s) \/ Adding(r, s)

LEMMA EventTables ==
  ASSUME SegmentProvenance, DeliveriesNow, RepliesOpen,
         \/ \E o \in Op : ProcessSuccess(o) \/ ProcessFailure(o)
         \/ \E r \in Request : ProcessDoom(r) \/ Decline(r) \/ Continue(r)
         \/ \E r \in Request, s \in Op : Accept(r, s)
         \/ \E r \in Request : \E ops \in Repairs[r] : Revise(r, ops) \/ ReviseInfeasible(r, ops)
  PROVE  TablesKept \/ \E r \in Request : Answering(r)
<1>1. ASSUME UNCHANGED <<planVars, loopVars>>, UNCHANGED vars \/ \E r \in Request : ReleaseRequest(r)
      PROVE  TablesKept
  BY <1>1 DEF TablesKept, Marked, SlotReached, ReleaseRequest, vars, markVars, planVars, loopVars
<1>2. ASSUME NEW r \in Request, ReleaseLate(r), UNCHANGED loopVars
      PROVE  TablesKept
  BY <1>1, <1>2 DEF ReleaseLate
<1>3. ASSUME NEW r \in Request, NEW s \in Op, r \in active, s \in completed, Owner[s] = r, Deliver(r, s),
             UNCHANGED loopVars
      PROVE  Answering(r)
  <2>1. Ending(r) \/ Serving(r, s) \/ Adding(r, s)
    BY <1>3, DeliverShape
  <2> QED BY <1>3, <2>1 DEF Answering
<1>4. ASSUME NEW r \in Request, FinishAttempt(r, FALSE), UNCHANGED <<delivered, loopVars>>
      PROVE  Answering(r)
  BY <1>4 DEF Answering, Ending
<1>5. ASSUME NEW o \in Op, ProcessSuccess(o)
      PROVE  TablesKept \/ Answering(Owner[o])
  <2>1. Owner[o] \in Request /\ o \in completed
    BY <1>5, OperationAssumption DEF ProcessSuccess, DeliveriesNow
  <2> QED BY <1>1, <1>2, <1>3, <1>5, <2>1 DEF ProcessSuccess
<1>6. ASSUME NEW o \in Op, ProcessFailure(o)
      PROVE  TablesKept \/ Answering(Owner[o])
  <2>1. Owner[o] \in Request
    BY OperationAssumption
  <2> QED BY <1>1, <1>2, <1>4, <1>6, <2>1 DEF ProcessFailure
<1>7. ASSUME NEW r \in Request, ProcessDoom(r) \/ Decline(r) \/ Continue(r)
      PROVE  TablesKept \/ Answering(r)
  BY <1>1, <1>4, <1>7 DEF ProcessDoom, Decline, Continue
<1>8. ASSUME NEW r \in Request, NEW s \in Op, Accept(r, s)
      PROVE  Answering(r)
  <2>1. s \in completed /\ Owner[s] = r /\ r \in active
    BY <1>8 DEF Accept, Fresh, Asking, OwnedBy, SegmentProvenance, RepliesOpen
  <2> QED BY <1>3, <1>8, <2>1 DEF Accept
<1>9. ASSUME NEW r \in Request, NEW ops \in Repairs[r], Revise(r, ops) \/ ReviseInfeasible(r, ops)
      PROVE  TablesKept \/ Answering(r)
  BY <1>1, <1>4, <1>9 DEF Revise, ReviseInfeasible
<1> QED BY <1>5, <1>6, <1>7, <1>8, <1>9, OperationAssumption

\* The other steps that leave the tables alone.
LEMMA CallTables ==
  ASSUME MarkersMatchExecution, TypeOK, LoopShape, LoopPlace, ScheduleTypeOK,
         \/ RejectDue \/ AdvanceOnce \/ WaitOnce \/ ExecutorStep \/ ExecutorReturns \/ CloseSlot
         \/ EndProcessing \/ \E r \in Request : SweepBusy(r)
         \/ EndSweep \/ EndSlot
         \/ \E s \in Op : ContinueRelease(s) \/ ReviseRelease(s)
         \/ Over \/ UNCHANGED schedVars
  PROVE  TablesKept
<1>1. ASSUME UNCHANGED <<planVars, dagVars>>, Marked' = Marked, slot' = slot,
             at = at' \/ (at # "boundary" /\ at' # "boundary")
      PROVE  TablesKept
  BY <1>1 DEF TablesKept, SlotReached, planVars
<1>2. CASE RejectDue \/ CloseSlot
  BY <1>1, <1>2 DEF RejectDue, CloseSlot, Running, Marked, vars, markVars
<1>3. CASE AdvanceOnce \/ WaitOnce
  BY <1>1, <1>3 DEF AdvanceOnce, WaitOnce, Running, Receive, Advance, WaitUntil, Marked, markVars
<1>4. CASE ExecutorReturns
  BY <1>1, <1>4 DEF ExecutorReturns, Receive, Settle, Marked, markVars
<1>5. CASE ExecutorStep
  <2>1. CASE BeginTimeout
    BY <1>1, <1>5, <2>1 DEF ExecutorStep, BeginTimeout, Marked, markVars, loopVars
  <2>2. CASE \E o \in Op : Release(o) \/ Fail(o) \/ \E life \in Lifetimes : Complete(o, life)
    <3>1. PICK o \in Op : Release(o) \/ Fail(o) \/ \E life \in Lifetimes : Complete(o, life)
      BY <2>2
    <3>2. UNCHANGED dagVars /\ started' = started \ {o} /\ o \in started
      <4>1. Retire(o)
        BY <3>1 DEF Release, Fail, Complete
      <4>2. o \in InFlight
        BY <4>1 DEF Retire, InFlight
      <4> QED BY <4>1, <4>2 DEF Retire, MarkersMatchExecution
    <3>3. \/ completed' = completed \cup {o} /\ dead' = dead
          \/ dead' = dead \cup {o} /\ completed' = completed
      BY <3>1 DEF Release, Fail, Complete
    <3>4. Marked' = Marked
      BY <3>2, <3>3 DEF Marked
    <3> QED BY <1>1, <1>5, <3>2, <3>4 DEF ExecutorStep, loopVars
  <2> QED BY <1>5, <2>1, <2>2 DEF ExecutorStep
<1>6. CASE EndProcessing \/ EndSweep
  BY <1>1, <1>6 DEF EndProcessing, EndSweep, Processing, LoopPlace, Marked, vars, markVars
<1>7. ASSUME NEW r \in Request, SweepBusy(r) PROVE TablesKept
  BY <1>1, <1>7 DEF SweepBusy, ReleaseRequest, Marked, markVars
<1>8. CASE EndSlot
  <2>1. \A o \in Op : SlotReached(o)' <=> SlotReached(o)
    <3>1. slotOf' = slotOf /\ slot \in Nat /\ slot' = slot + 1 /\ at = "ending" /\ at' = "boundary"
      BY <1>8, ScheduleAssumption DEF EndSlot, LoopPlace, planVars
    <3> QED BY <3>1 DEF SlotReached, ScheduleTypeOK
  <2> QED BY <1>8, <2>1 DEF EndSlot, TablesKept, Marked, vars, markVars
<1>9. ASSUME NEW s \in Op, ContinueRelease(s) \/ ReviseRelease(s) PROVE TablesKept
  BY <1>1, <1>9 DEF ContinueRelease, ReviseRelease, ReleaseSegment, Marked, markVars, loopVars
<1>10. CASE Over \/ UNCHANGED schedVars
  BY <1>1, <1>10 DEF Over, schedVars, vars, loopVars, Marked, markVars
<1> QED BY <1>2, <1>3, <1>4, <1>5, <1>6, <1>7, <1>8, <1>9, <1>10

\* The steps of the scheduler, as the tables see them.
TableStep ==
  \/ \E r \in Request : \E ops \in Plans[r], start \in 0 .. HorizonSlots : Submit(r, ops, start)
  \/ StartSlot
  \/ LaunchDue
  \/ \E r \in Request, start \in 0 .. HorizonSlots : ApplyRevision(r, start)
  \/ \E r \in Request : SweepQuiet(r)
  \/ \E r \in Request : Answering(r)
  \/ TablesKept

LEMMA TableSteps == Inductive /\ ScheduleSound /\ [SchedNext]_schedVars => TableStep
<1> SUFFICES ASSUME Inductive, ScheduleSound, [SchedNext]_schedVars PROVE TableStep
  OBVIOUS
<1>1. /\ SegmentProvenance /\ MarkersMatchExecution /\ TypeOK /\ LoopShape
      /\ LoopPlace /\ ScheduleTypeOK /\ DeliveriesNow /\ RepliesOpen
  BY DEF Inductive, RegistrySound, ScheduleSound
<1>2. CASE \/ \E o \in Op : ProcessSuccess(o) \/ ProcessFailure(o)
           \/ \E r \in Request : ProcessDoom(r) \/ Decline(r) \/ Continue(r)
           \/ \E r \in Request, s \in Op : Accept(r, s)
           \/ \E r \in Request : \E ops \in Repairs[r] : Revise(r, ops) \/ ReviseInfeasible(r, ops)
  BY <1>1, <1>2, EventTables DEF TableStep
<1>3. CASE \/ RejectDue \/ AdvanceOnce \/ WaitOnce \/ ExecutorStep \/ ExecutorReturns \/ CloseSlot
           \/ EndProcessing \/ \E r \in Request : SweepBusy(r)
           \/ EndSweep \/ EndSlot
           \/ \E s \in Op : ContinueRelease(s) \/ ReviseRelease(s)
           \/ Over \/ UNCHANGED schedVars
  BY <1>1, <1>3, CallTables DEF TableStep
<1> QED BY <1>2, <1>3 DEF TableStep, SchedNext, Step, Work, Reply

-----------------------------------------------------------------------------
(* The parts of the invariant that are about the tables                    *)

LEMMA SlotOfTime ==
  ASSUME TypeOK, LoopPlace, SlotClock
  PROVE  CurrentSlot \in Nat /\ CurrentSlot >= slot
<1>1. SlotLength \in Nat /\ SlotLength > 0 /\ slot \in Nat /\ now \in Nat /\ slot * SlotLength <= now
  BY ScheduleAssumption, ExecutorAssumption DEF TypeOK, LoopPlace, SlotClock
<1>2. \A a, b, c \in Nat : c > 0 /\ a * c <= b => b \div c \in Nat /\ b \div c >= a
  OBVIOUS
<1> QED BY <1>1, <1>2 DEF CurrentSlot

LEMMA TypeKept ==
  ASSUME Inductive, ScheduleSound, TableStep
  PROVE  /\ active' \subseteq Request /\ cleanup' \subseteq Request
         /\ finishedAt' \in [Request -> Nat]
         /\ terminals' \in [Request -> SUBSET Op] /\ delivered' \in [Request -> SUBSET Op]
         /\ slotOf' \in [Op -> Nat] /\ due' \subseteq Op
         /\ attempts' \in [Request -> Nat] /\ outcomes' \in [Request -> Nat]
<1> USE DEF ScheduleTypeOK
<1>1. ScheduleTypeOK /\ TypeOK /\ now \in Nat
  BY ExecutorAssumption DEF Inductive, RegistrySound, ScheduleSound, TypeOK
<1>2. ASSUME NEW r \in Request, NEW ops \in Plans[r], NEW start \in 0 .. HorizonSlots, Submit(r, ops, start)
      PROVE  /\ active' \subseteq Request /\ cleanup' = cleanup /\ finishedAt' = finishedAt
             /\ terminals' \in [Request -> SUBSET Op] /\ delivered' \in [Request -> SUBSET Op]
             /\ slotOf' \in [Op -> Nat] /\ due' = due
             /\ attempts' \in [Request -> Nat] /\ outcomes' = outcomes
  <2>1. ops \subseteq Op /\ start \in Nat /\ Offset \in [Op -> Nat]
    BY ExecutorAssumption, ScheduleAssumption
  <2> QED BY <1>1, <1>2, <2>1 DEF Submit, Terminals
<1>3. CASE StartSlot \/ LaunchDue
  BY <1>1, <1>3 DEF StartSlot, LaunchDue, OfActive
<1>4. ASSUME NEW r \in Request, NEW start \in 0 .. HorizonSlots, ApplyRevision(r, start)
      PROVE  /\ UNCHANGED <<active, cleanup, finishedAt, delivered, attempts, outcomes>>
             /\ terminals' \in [Request -> SUBSET Op]
             /\ slotOf' \in [Op -> Nat] /\ due' \subseteq due
  <2>1. PICK q \in toAnswer : revision \in Repairs[q] /\ q \in Request
    BY <1>1, <1>4 DEF ApplyRevision, ScheduleSound, RepliesOpen
  <2>2. revision \subseteq Op /\ start \in Nat /\ Offset \in [Op -> Nat] /\ Unplanned \in Nat
    BY <2>1, ExecutorAssumption, ScheduleAssumption DEF Unplanned
  <2>3. \A o \in Op : slotOf'[o] \in Nat
    BY <1>1, <1>4, <2>2 DEF ApplyRevision
  <2>4. slotOf' = [o \in Op |-> slotOf'[o]]
    BY <1>4 DEF ApplyRevision
  <2> QED BY <1>1, <1>4, <2>2, <2>3, <2>4 DEF ApplyRevision, Terminals
<1>5. ASSUME NEW r \in Request, SweepQuiet(r)
      PROVE  /\ UNCHANGED <<active, finishedAt, due, attempts, outcomes>> /\ cleanup' \subseteq cleanup
             /\ terminals' \in [Request -> SUBSET Op] /\ delivered' \in [Request -> SUBSET Op]
             /\ slotOf' \in [Op -> Nat]
  BY <1>1, <1>5, ScheduleAssumption DEF SweepQuiet, Unplanned
<1>6. ASSUME NEW r \in Request, Answering(r)
      PROVE  /\ active' \subseteq active /\ cleanup' \subseteq cleanup \cup {r}
             /\ finishedAt' \in [Request -> Nat] /\ delivered' \in [Request -> SUBSET Op]
             /\ UNCHANGED <<terminals, slotOf, attempts>> /\ due' \subseteq due
             /\ outcomes' \in [Request -> Nat]
  <2>1. CASE Ending(r)
    BY <1>1, <2>1 DEF Ending, FinishAttempt
  <2>2. ASSUME NEW s \in Op, Serving(r, s) \/ Adding(r, s)
        PROVE  /\ active' \subseteq active /\ cleanup' \subseteq cleanup \cup {r}
               /\ finishedAt' \in [Request -> Nat] /\ delivered' \in [Request -> SUBSET Op]
               /\ UNCHANGED <<terminals, slotOf, attempts>> /\ due' \subseteq due
               /\ outcomes' \in [Request -> Nat]
    BY <1>1, <2>2 DEF Serving, Adding, FinishAttempt
  <2> QED BY <1>6, <2>1, <2>2 DEF Answering
<1>7. CASE TablesKept
  BY <1>1, <1>7 DEF TablesKept, planVars
<1> QED BY <1>1, <1>2, <1>3, <1>4, <1>5, <1>6, <1>7 DEF TableStep

\* What the executor does to the DAGs when it registers, repairs or drops one.
LEMMA KnownAfter ==
  ASSUME RegistrySound, NEW r \in Request
  PROVE  /\ \A ops \in Plans[r] : Register(r, ops) =>
              /\ ops \subseteq Op /\ ops \cap Known = {} /\ \A o \in ops : Owner[o] = r
              /\ Known' = Known \cup ops /\ Registered' = Registered \cup {r} /\ r \notin Registered
         /\ \A ops \in SUBSET Op : Repair(r, ops, TRUE) =>
              /\ ops \cap Known = {} /\ \A o \in ops : Owner[o] = r
              /\ Known' = Known \cup ops /\ Registered' = Registered
              /\ dags[r] = {o \in Known : Owner[o] = r}
         /\ Unregister(r) =>
              /\ Known' = {o \in Known : Owner[o] # r}
              /\ Registered' = Registered \ {r} /\ r \in Registered
              /\ dags[r] = {o \in Known : Owner[o] = r}
<1> USE DEF RegistrySound
<1>1. dags[r] = {o \in Known : Owner[o] = r} /\ dags \in [Request -> SUBSET Op]
  BY DEF DagsOwned, Known, TypeOK
<1>2. ASSUME NEW ops \in Plans[r], Register(r, ops)
      PROVE  /\ ops \subseteq Op /\ ops \cap Known = {} /\ \A o \in ops : Owner[o] = r
             /\ Known' = Known \cup ops /\ Registered' = Registered \cup {r} /\ r \notin Registered
  <2>1. ops \subseteq Op /\ ops # {} /\ dags[r] = {} /\ dags' = [dags EXCEPT ![r] = ops]
    BY <1>2, ExecutorAssumption DEF Register, WellFormed
  <2>2. ops \cap Known = {} /\ \A o \in ops : Owner[o] = r
    BY <1>2 DEF Register, WellFormed
  <2>3. Known' = Known \cup ops
    BY <1>1, <2>1 DEF Known
  <2>4. Registered' = Registered \cup {r} /\ r \notin Registered
    BY <1>1, <2>1 DEF Registered
  <2> QED BY <2>1, <2>2, <2>3, <2>4
<1>3. ASSUME NEW ops \in SUBSET Op, Repair(r, ops, TRUE)
      PROVE  /\ ops \cap Known = {} /\ \A o \in ops : Owner[o] = r
             /\ Known' = Known \cup ops /\ Registered' = Registered
  <2>1. dags' = [dags EXCEPT ![r] = dags[r] \cup ops] /\ dags[r] # {}
    BY <1>3 DEF Repair, RepairAdmits, Repaired
  <2>2. ops \cap Known = {} /\ \A o \in ops : Owner[o] = r
    BY <1>3 DEF Repair, RepairAdmits, WellFormed
  <2>3. Known' = Known \cup ops
    BY <1>1, <2>1 DEF Known
  <2>4. Registered' = Registered
    BY <1>1, <2>1 DEF Registered
  <2> QED BY <2>2, <2>3, <2>4
<1>4. ASSUME Unregister(r)
      PROVE  /\ Known' = {o \in Known : Owner[o] # r}
             /\ Registered' = Registered \ {r} /\ r \in Registered
  <2>1. dags' = [dags EXCEPT ![r] = {}] /\ dags[r] # {}
    BY <1>4 DEF Unregister
  <2>2. Known' = {o \in Known : Owner[o] # r}
    BY <1>1, <2>1 DEF Known, DagsOwned
  <2>3. Registered' = Registered \ {r} /\ r \in Registered
    BY <1>1, <2>1 DEF Registered
  <2> QED BY <2>2, <2>3
<1> QED BY <1>1, <1>2, <1>3, <1>4

LEMMA OneOrNone ==
  ASSUME NEW r, NEW S
  PROVE  Cardinality(S \cap {r}) = IF r \in S THEN 1 ELSE 0
<1>1. CASE r \in S
  <2>1. S \cap {r} = {r}
    BY <1>1
  <2> QED BY <1>1, <2>1, FS_Singleton
<1>2. CASE r \notin S
  <2>1. S \cap {r} = {}
    BY <1>2
  <2> QED BY <1>2, <2>1, FS_EmptySet
<1> QED BY <1>1, <1>2

\* A live attempt has no outcome yet.
LEMMA OpenAttempt ==
  ASSUME ScheduleTypeOK, AttemptsAccounted
  PROVE  \A r \in Request : /\ outcomes[r] \in Nat
                            /\ attempts[r] = outcomes[r] + (IF r \in active THEN 1 ELSE 0)
<1> SUFFICES ASSUME NEW r \in Request
             PROVE  outcomes[r] \in Nat /\ attempts[r] = outcomes[r] + (IF r \in active THEN 1 ELSE 0)
  OBVIOUS
<1>1. attempts[r] = outcomes[r] + Cardinality(active \cap {r})
  BY DEF AttemptsAccounted
<1> QED BY <1>1, OneOrNone DEF ScheduleTypeOK

\* Requests, plans and outcomes.
LEMMA AttemptsStep ==
  ASSUME Inductive, ScheduleSound, TableStep
  PROVE  AttemptsAccounted'
<1>1. /\ RegistrySound /\ ScheduleTypeOK /\ LoopPlace /\ RepliesOpen
      /\ Registered = active \cup cleanup
      /\ active \cap cleanup = {}
      /\ {o \in Op : slotOf[o] # Unplanned} \subseteq Known
      /\ \A r \in Request : attempts[r] = outcomes[r] + (IF r \in active THEN 1 ELSE 0)
      /\ \A r \in active : finishedAt[r] = Never
  BY OneOrNone DEF Inductive, ScheduleSound, AttemptsAccounted
<1> USE DEF ScheduleTypeOK
<1> SUFFICES /\ Registered' = active' \cup cleanup'
             /\ active' \cap cleanup' = {}
             /\ {o \in Op : slotOf'[o] # Unplanned} \subseteq Known'
             /\ \A r \in Request : attempts'[r] = outcomes'[r] + (IF r \in active' THEN 1 ELSE 0)
             /\ \A r \in active' : finishedAt'[r] = Never
  BY OneOrNone DEF AttemptsAccounted, Unplanned, Never
<1> DEFINE Goal == /\ Registered' = active' \cup cleanup'
                   /\ active' \cap cleanup' = {}
                   /\ {o \in Op : slotOf'[o] # Unplanned} \subseteq Known'
                   /\ \A r \in Request : attempts'[r] = outcomes'[r] + (IF r \in active' THEN 1 ELSE 0)
                   /\ \A r \in active' : finishedAt'[r] = Never
<1>2. ASSUME NEW r \in Request, NEW ops \in Plans[r], NEW start \in 0 .. HorizonSlots, Submit(r, ops, start)
      PROVE  Goal
  <2>1. /\ active' = active \cup {r} /\ r \notin active \cup cleanup /\ finishedAt[r] = Never
        /\ UNCHANGED <<cleanup, finishedAt, outcomes>>
        /\ attempts' = [attempts EXCEPT ![r] = @ + 1]
        /\ \A o \in Op \ ops : slotOf'[o] = slotOf[o]
    BY <1>2 DEF Submit, CanSubmit
  <2>2. Known' = Known \cup ops /\ Registered' = Registered \cup {r}
    BY <1>1, <1>2, KnownAfter DEF Submit
  <2>3. \A q \in Request : attempts'[q] = outcomes'[q] + (IF q \in active' THEN 1 ELSE 0)
    BY <1>1, <2>1
  <2> QED BY <1>1, <2>1, <2>2, <2>3
<1>3. CASE TablesKept \/ StartSlot \/ LaunchDue
  <2>1. UNCHANGED <<active, cleanup, finishedAt, slotOf, attempts, outcomes, dags>>
    BY <1>3 DEF TablesKept, StartSlot, LaunchDue, Launch, planVars, dagVars, vars
  <2> QED BY <1>1, <2>1 DEF Registered, Known
<1>4. ASSUME NEW r \in Request, NEW start \in 0 .. HorizonSlots, ApplyRevision(r, start)
      PROVE  Goal
  <2>1. PICK q \in toAnswer : revision \in Repairs[q] /\ q \in Request
    BY <1>1, <1>4 DEF ApplyRevision, RepliesOpen
  <2>2. revision \in SUBSET Op
    BY <2>1, ExecutorAssumption
  <2>3. Known' = Known \cup revision /\ Registered' = Registered
    BY <1>1, <1>4, <2>2, KnownAfter DEF ApplyRevision
  <2>4. \A o \in Op : slotOf'[o] # Unplanned => o \in revision \/ slotOf[o] # Unplanned
    BY <1>4 DEF ApplyRevision
  <2> QED BY <1>1, <1>4, <2>3, <2>4 DEF ApplyRevision
<1>5. ASSUME NEW r \in Request, SweepQuiet(r)
      PROVE  Goal
  <2>1. r \in cleanup
    BY <1>1, <1>5 DEF SweepQuiet, LoopPlace
  <2>2. Known' = {o \in Known : Owner[o] # r} /\ Registered' = Registered \ {r}
    BY <1>1, <1>5, KnownAfter DEF SweepQuiet
  <2>3. /\ UNCHANGED <<active, finishedAt, attempts, outcomes>> /\ cleanup' = cleanup \ {r}
        /\ \A o \in Op : slotOf'[o] = IF Owner[o] = r THEN Unplanned ELSE slotOf[o]
    BY <1>5 DEF SweepQuiet
  <2> QED BY <1>1, <2>1, <2>2, <2>3
<1>6. ASSUME NEW r \in Request, Answering(r)
      PROVE  Goal
  <2>1. ASSUME NEW success, FinishAttempt(r, success)
        PROVE  Goal
    <3>1. /\ r \in active /\ active' = active \ {r} /\ cleanup' = cleanup \cup {r}
          /\ outcomes' = [outcomes EXCEPT ![r] = @ + 1]
          /\ UNCHANGED <<slotOf, attempts, dags>>
          /\ \A q \in Request \ {r} : finishedAt'[q] = finishedAt[q]
      BY <1>1, <2>1 DEF FinishAttempt, GiveBack, ReleaseRequest, dagVars
    <3>2. \A q \in Request : attempts'[q] = outcomes'[q] + (IF q \in active' THEN 1 ELSE 0)
      BY <1>1, <3>1
    <3> QED BY <1>1, <3>1, <3>2 DEF Registered, Known
  <2>2. ASSUME NEW s \in Op, Adding(r, s)
        PROVE  Goal
    BY <1>1, <2>2 DEF Adding, Registered, Known, vars, dagVars
  <2> QED BY <1>6, <2>1, <2>2 DEF Answering, Ending, Serving
<1> QED BY <1>2, <1>3, <1>4, <1>5, <1>6 DEF TableStep

\* Only what is due is launched.
LEMMA DueReady ==
  ASSUME TypeOK
  PROVE  ReadyDue \subseteq due /\ ReadyDue \subseteq Ready
<1>1. \A s : ReadyOperations(DueIn(s)) \subseteq Ready \cap DueIn(s)
  BY ReadyAllowed
<1>2. \A s : DueIn(s) \subseteq due
  BY DEF DueIn
<1> QED BY <1>1, <1>2 DEF ReadyDue

\* What is due, and what was launched.
LEMMA DueStep ==
  ASSUME Inductive, ScheduleSound, TableStep
  PROVE  DueNow'
<1>1. /\ RegistrySound /\ TypeOK /\ ScheduleTypeOK /\ LoopPlace /\ AttemptsAccounted
      /\ due = {o \in OfActive(Known) \ Marked : SlotReached(o)}
      /\ \A o \in Marked : slotOf[o] # Unplanned => SlotReached(o)
      /\ Marked \subseteq Known /\ Known \subseteq Op
      /\ CurrentSlot \in Nat /\ CurrentSlot >= slot
  BY SlotOfTime
     DEF Inductive, RegistrySound, ScheduleSound, DueNow, Marked, MarkersMatchExecution, Known, TypeOK
<1>2. slot \in Nat /\ HorizonSlots \in Nat /\ Offset \in [Op -> Nat] /\ Unplanned = HorizonSlots
  BY <1>1, ScheduleAssumption DEF LoopPlace, Unplanned
<1> DEFINE Goal == /\ due' = {o \in OfActive(Known)' \ Marked' : SlotReached(o)'}
                   /\ \A o \in Marked' : slotOf'[o] # Unplanned => SlotReached(o)'
<1> SUFFICES Goal
  BY DEF DueNow, Marked, Unplanned
<1>3. ASSUME NEW r \in Request, NEW ops \in Plans[r], NEW start \in 0 .. HorizonSlots, Submit(r, ops, start)
      PROVE  Goal
  <2>1. /\ ops \subseteq Op /\ ops \cap Known = {} /\ \A o \in ops : Owner[o] = r
        /\ Known' = Known \cup ops
    BY <1>1, <1>3, KnownAfter DEF Submit
  <2>2. /\ active' = active \cup {r} /\ r \notin active \cup cleanup
        /\ due' = due /\ slot' = slot /\ at' = at /\ at = "boundary" /\ start >= CurrentSlot
        /\ \A o \in Op : slotOf'[o] = IF o \in ops THEN start + Offset[o] ELSE slotOf[o]
        /\ Marked' = Marked
    BY <1>3 DEF Submit, CanSubmit, Register, markVars, Marked, loopVars
  <2>3. \A o \in ops : ~SlotReached(o)'
    BY <1>1, <1>2, <2>1, <2>2 DEF SlotReached
  <2>4. \A o \in Op \ ops : SlotReached(o)' <=> SlotReached(o)
    BY <2>2 DEF SlotReached
  <2>5. \A o \in Known : Owner[o] # r
    <3>1. r \notin Registered /\ \A q \in Request : \A o \in dags[q] : Owner[o] = q
      BY <1>1, <2>2 DEF AttemptsAccounted, RegistrySound, DagsOwned
    <3> QED BY <3>1 DEF Known, Registered
  <2>6. OfActive(Known)' = OfActive(Known) \cup ops
    BY <2>1, <2>2, <2>5 DEF OfActive
  <2> QED BY <1>1, <1>2, <2>1, <2>2, <2>3, <2>4, <2>6 DEF OfActive
<1>4. CASE StartSlot
  <2>1. /\ UNCHANGED <<active, slotOf>> /\ Known' = Known /\ Marked' = Marked /\ slot' = slot
        /\ at = "boundary" /\ at' = "running" /\ slot < HorizonSlots
        /\ due' = due \cup OfActive({o \in Op : slotOf[o] = slot})
    BY <1>4 DEF StartSlot, vars, dagVars, markVars, Known, Marked
  <2>2. \A o \in Op : SlotReached(o)' <=> SlotReached(o) \/ slotOf[o] = slot
    BY <2>1 DEF SlotReached
  <2>3. \A o \in Op : slotOf[o] = slot => o \in Known /\ o \notin Marked
    BY <1>1, <1>2, <2>1 DEF AttemptsAccounted, SlotReached, Unplanned
  <2> QED BY <1>1, <2>1, <2>2, <2>3 DEF OfActive
<1>5. CASE LaunchDue
  <2>1. /\ UNCHANGED <<active, slotOf, slot, at>> /\ Known' = Known
        /\ Marked' = Marked \cup ReadyDue /\ due' = due \ ReadyDue
    BY <1>5 DEF LaunchDue, Launch, loopVars, dagVars, Known, Marked
  <2>2. \A o \in Op : SlotReached(o)' <=> SlotReached(o)
    BY <2>1 DEF SlotReached
  <2>3. ReadyDue \subseteq due
    BY <1>1, DueReady
  <2> QED BY <1>1, <2>1, <2>2, <2>3 DEF OfActive
<1>6. ASSUME NEW r \in Request, NEW start \in 0 .. HorizonSlots, ApplyRevision(r, start)
      PROVE  Goal
  <2>1. PICK q \in toAnswer : revision \in Repairs[q] /\ q \in Request
    BY <1>1, <1>6 DEF ApplyRevision, ScheduleSound, RepliesOpen, ScheduleTypeOK
  <2>2. revision \in SUBSET Op
    BY <2>1, ExecutorAssumption
  <2>3. /\ revision \cap Known = {} /\ Known' = Known \cup revision
        /\ dags[r] = {o \in Known : Owner[o] = r}
    BY <1>1, <1>6, <2>2, KnownAfter DEF ApplyRevision
  <2>4. /\ UNCHANGED <<active, slot, at>>
        /\ due' = due \ Dropped(r)
        /\ \A o \in Op : slotOf'[o] = IF o \in revision THEN start + Offset[o]
                                      ELSE IF o \in Dropped(r) THEN Unplanned ELSE slotOf[o]
        /\ start \in RevisionStarts(r, revision)
    <3>1. \A o \in Dropped(r) : o \notin revision
      BY <2>3 DEF Dropped, Superseded
    <3> QED BY <1>6, <3>1 DEF ApplyRevision, IsLeast, loopVars
  <2>5. start > slot /\ start \in Nat
    BY <1>1, <1>2, <2>4 DEF RevisionStarts, NextSlot
  <2>6. Marked' = Marked \cup Dropped(r)
    <3>1. /\ completed' = completed /\ started' = started /\ dead' = dead \cup Obsolete(r)
          /\ started \cap dags[r] = {}
      BY <1>6 DEF ApplyRevision, Repair, RepairAdmits
    <3> QED BY <3>1 DEF Marked, Dropped, Superseded, Obsolete
  <2>7. \A o \in revision : ~SlotReached(o)'
    BY <1>2, <2>2, <2>4, <2>5 DEF SlotReached
  <2>8. \A o \in Op \ (revision \cup Dropped(r)) : SlotReached(o)' <=> SlotReached(o)
    BY <2>4 DEF SlotReached
  <2>9. \A o \in Dropped(r) : slotOf'[o] = Unplanned
    BY <1>1, <2>3, <2>4 DEF Dropped, Superseded
  <2> QED BY <1>1, <2>2, <2>3, <2>4, <2>6, <2>7, <2>8, <2>9 DEF OfActive
<1>7. ASSUME NEW r \in Request, SweepQuiet(r)
      PROVE  Goal
  <2>1. r \in cleanup /\ r \notin active
    BY <1>1, <1>7 DEF SweepQuiet, LoopPlace, AttemptsAccounted
  <2>2. /\ Known' = {o \in Known : Owner[o] # r}
        /\ dags[r] = {o \in Known : Owner[o] = r}
    BY <1>1, <1>7, KnownAfter DEF SweepQuiet
  <2>3. /\ UNCHANGED <<active, due, slot, at>> /\ Marked' = Marked \ dags[r]
        /\ \A o \in Op : slotOf'[o] = IF Owner[o] = r THEN Unplanned ELSE slotOf[o]
    BY <1>7 DEF SweepQuiet, Unregister, Marked
  <2>4. \A o \in Op : Owner[o] # r => (SlotReached(o)' <=> SlotReached(o))
    BY <2>3 DEF SlotReached
  <2> QED BY <1>1, <2>1, <2>2, <2>3, <2>4 DEF OfActive
<1>8. ASSUME NEW r \in Request, Answering(r)
      PROVE  Goal
  <2>1. ASSUME NEW success, FinishAttempt(r, success), UNCHANGED loopVars
        PROVE  Goal
    <3>1. /\ active' = active \ {r} /\ UNCHANGED <<slotOf, slot, at>> /\ Known' = Known /\ Marked' = Marked
          /\ due' = {o \in due : Owner[o] # r}
      BY <2>1 DEF FinishAttempt, GiveBack, ReleaseRequest, dagVars, markVars, loopVars, Known, Marked
    <3>2. \A o \in Op : SlotReached(o)' <=> SlotReached(o)
      BY <3>1 DEF SlotReached
    <3> QED BY <1>1, <3>1, <3>2 DEF OfActive
  <2>2. ASSUME NEW s \in Op, Adding(r, s), UNCHANGED loopVars
        PROVE  Goal
    <3>1. UNCHANGED <<active, slotOf, due, slot, at>> /\ Known' = Known /\ Marked' = Marked
      BY <2>2 DEF Adding, vars, dagVars, markVars, loopVars, Known, Marked
    <3> QED BY <1>1, <3>1 DEF OfActive, SlotReached
  <2> QED BY <1>8, <2>1, <2>2 DEF Answering, Ending, Serving
<1>9. CASE TablesKept
  <2>1. UNCHANGED <<active, slotOf, due>> /\ Known' = Known
    BY <1>9 DEF TablesKept, planVars, dagVars, Known
  <2> QED BY <1>1, <1>9, <2>1 DEF OfActive, TablesKept
<1> QED BY <1>3, <1>4, <1>5, <1>6, <1>7, <1>8, <1>9 DEF TableStep

\* Where the completed operations and the successes still to be processed change.
LEMMA SuccessesKept ==
  ASSUME LoopPlace, [SchedNext]_schedVars
  PROVE  \/ UNCHANGED <<completed, succeeded>>
         \/ ExecutorStep
         \/ \E o \in Op : ProcessSuccess(o)
         \/ \E r \in Request : SweepQuiet(r)
<1> DEFINE Kept == UNCHANGED <<completed, succeeded>>
<1> USE DEF batchVars, vars, markVars
<1>1. ASSUME NEW r \in Request, NEW ops \in Plans[r], NEW start, Submit(r, ops, start) PROVE Kept
  BY <1>1 DEF Submit, Register
<1>2. CASE StartSlot \/ RejectDue \/ CloseSlot
  BY <1>2 DEF StartSlot, RejectDue, CloseSlot
<1>3. CASE LaunchDue
  BY <1>3 DEF LaunchDue, Launch
<1>4. CASE AdvanceOnce \/ WaitOnce
  BY <1>4 DEF AdvanceOnce, WaitOnce, Advance, WaitUntil
<1>5. CASE ExecutorReturns
  BY <1>5 DEF ExecutorReturns, Settle
<1>6. CASE EndProcessing \/ EndSweep \/ EndSlot \/ Over \/ UNCHANGED schedVars
  BY <1>6 DEF EndProcessing, EndSweep, EndSlot, Over, schedVars
<1>7. ASSUME NEW r \in Request, NEW success, FinishAttempt(r, success) PROVE UNCHANGED completed
  BY <1>7 DEF FinishAttempt, GiveBack, ReleaseRequest
<1>8. ASSUME NEW o \in Op, ProcessFailure(o) PROVE Kept
  BY <1>7, <1>8, OperationAssumption DEF ProcessFailure, ReleaseLate, ReleaseRequest
<1>9. ASSUME NEW r \in Request, ProcessDoom(r) \/ Decline(r) \/ Continue(r) PROVE Kept
  BY <1>7, <1>9 DEF ProcessDoom, Decline, Continue
<1>10. ASSUME NEW r \in Request, SweepBusy(r) PROVE Kept
  BY <1>10 DEF SweepBusy, ReleaseRequest
<1>11. ASSUME NEW s \in Op, ContinueRelease(s) \/ ReviseRelease(s) PROVE Kept
  BY <1>11 DEF ContinueRelease, ReviseRelease, ReleaseSegment
<1>12. ASSUME NEW r \in Request, NEW s \in Op, Accept(r, s) PROVE Kept
  BY <1>7, <1>12 DEF Accept, Deliver
<1>13. ASSUME NEW r \in Request, NEW ops \in Repairs[r], Revise(r, ops) \/ ReviseInfeasible(r, ops)
       PROVE  Kept
  BY <1>7, <1>13 DEF Revise, ReviseInfeasible
<1>14. ASSUME NEW r \in Request, NEW start, ApplyRevision(r, start) PROVE Kept
  BY <1>14 DEF ApplyRevision, Repair
<1> QED BY <1>1, <1>2, <1>3, <1>4, <1>5, <1>6, <1>8, <1>9, <1>10, <1>11, <1>12, <1>13, <1>14
        DEF SchedNext, Step, Work, Reply

\* Terminal pairs are counted once they are processed.
LEMMA DeliveriesStep ==
  ASSUME Inductive, ScheduleSound, TableStep, [SchedNext]_schedVars
  PROVE  DeliveriesNow'
<1>1. /\ RegistrySound /\ TypeOK /\ ScheduleTypeOK /\ LoopPlace /\ DeliveriesNow
      /\ \A r \in active : finishedAt[r] = Never
      /\ active \cap cleanup = {}
      /\ completed \subseteq Known
  BY DEF Inductive, RegistrySound, ScheduleSound, AttemptsAccounted, MarkersMatchExecution
<1> USE DEF ScheduleTypeOK
<1> DEFINE Met(r) == Cardinality(delivered[r]) >= DemandPairs[r]
           MetNext(r) == Cardinality(delivered'[r]) >= DemandPairs[r]
           Goal == /\ succeeded' \subseteq completed'
                   /\ \A r \in Request : \A o \in terminals'[r] \cup delivered'[r] : Owner[o] = r
                   /\ \A r \in active' \cup cleanup' : delivered'[r] \subseteq completed'
                   /\ \A r \in active' : /\ terminals'[r] \cap completed' \subseteq delivered'[r] \cup succeeded'
                                         /\ ~MetNext(r)
                   /\ \A r \in cleanup' : finishedAt'[r] # Never => MetNext(r)
<1> SUFFICES Goal
  BY DEF DeliveriesNow, Never
<1>2. /\ succeeded \subseteq completed
      /\ \A r \in Request : \A o \in terminals[r] \cup delivered[r] : Owner[o] = r
      /\ \A r \in active \cup cleanup : delivered[r] \subseteq completed
      /\ \A r \in active : /\ terminals[r] \cap completed \subseteq delivered[r] \cup succeeded
                           /\ ~Met(r)
      /\ \A r \in cleanup : finishedAt[r] # Never => Met(r)
  BY <1>1 DEF DeliveriesNow
<1>3. ASSUME UNCHANGED <<active, cleanup, finishedAt, terminals, delivered>>,
             UNCHANGED <<completed, succeeded>>
             \/ \E o \in Op : completed' = completed \cup {o} /\ succeeded' = succeeded \cup {o}
      PROVE  Goal
  <2>1. \A r \in Request : MetNext(r) <=> Met(r)
    BY <1>3
  <2> HIDE DEF Met, MetNext
  <2> QED BY <1>1, <1>2, <1>3, <2>1
<1>4. CASE ExecutorStep
  BY <1>3, <1>4 DEF ExecutorStep, Release, Complete, Fail, BeginTimeout, markVars, planVars
<1>5. ASSUME NEW r \in Request, NEW ops \in Plans[r], NEW start \in 0 .. HorizonSlots, Submit(r, ops, start)
      PROVE  Goal
  <2>1. /\ ops \subseteq Op /\ ops \cap completed = {} /\ \A o \in Terminals(ops) : Owner[o] = r
        /\ Terminals(ops) \subseteq ops
    BY <1>1, <1>5, KnownAfter DEF Submit, Terminals
  <2>2. /\ active' = active \cup {r} /\ r \notin active \cup cleanup
        /\ UNCHANGED <<cleanup, finishedAt, completed, succeeded>>
        /\ terminals' = [terminals EXCEPT ![r] = Terminals(ops)]
        /\ delivered' = [delivered EXCEPT ![r] = {}]
    BY <1>5 DEF Submit, CanSubmit, Register, markVars, batchVars
  <2>3. ~MetNext(r)
    <3>1. delivered'[r] = {}
      BY <1>1, <2>2
    <3> QED BY <3>1, FS_EmptySet, ScheduleAssumption
  <2>4. \A q \in Request \ {r} : terminals'[q] = terminals[q] /\ delivered'[q] = delivered[q]
                                 /\ (MetNext(q) <=> Met(q))
    BY <1>1, <2>2
  <2>5. terminals'[r] = Terminals(ops) /\ delivered'[r] = {}
    BY <1>1, <2>2
  <2> HIDE DEF Met, MetNext
  <2> QED BY <1>1, <1>2, <2>1, <2>2, <2>3, <2>4, <2>5
<1>6. ASSUME NEW r \in Request, NEW start \in 0 .. HorizonSlots, ApplyRevision(r, start),
             UNCHANGED <<completed, succeeded>>
      PROVE  Goal
  <2>1. PICK q \in toAnswer : revision \in Repairs[q] /\ q \in Request
    BY <1>1, <1>6 DEF ApplyRevision, ScheduleSound, RepliesOpen
  <2>2. revision \in SUBSET Op
    BY <2>1, ExecutorAssumption
  <2>3. revision \cap completed = {} /\ \A o \in Terminals(revision) : Owner[o] = r /\ o \in revision
    BY <1>1, <1>6, <2>2, KnownAfter DEF ApplyRevision, Terminals
  <2>4. /\ UNCHANGED <<active, cleanup, finishedAt, delivered>>
        /\ terminals' = [terminals EXCEPT ![r] = Terminals(revision)]
    BY <1>6 DEF ApplyRevision
  <2>5. \A p \in Request : MetNext(p) <=> Met(p)
    BY <2>4
  <2> HIDE DEF Met, MetNext
  <2> QED BY <1>1, <1>2, <1>6, <2>3, <2>4, <2>5
<1>7. ASSUME NEW r \in Request, SweepQuiet(r)
      PROVE  Goal
  <2>1. r \in cleanup /\ r \notin active /\ succeeded = {} /\ succeeded' = succeeded
    BY <1>1, <1>7 DEF SweepQuiet, Sweeping, LoopPlace, batchVars
  <2>2. completed' = completed \ dags[r] /\ dags[r] = {o \in Known : Owner[o] = r}
    BY <1>1, <1>7, KnownAfter DEF SweepQuiet, Unregister
  <2>3. /\ UNCHANGED <<active, finishedAt>> /\ cleanup' = cleanup \ {r}
        /\ terminals' = [terminals EXCEPT ![r] = {}] /\ delivered' = [delivered EXCEPT ![r] = {}]
    BY <1>7 DEF SweepQuiet
  <2>4. \A q \in Request \ {r} : /\ terminals'[q] = terminals[q] /\ delivered'[q] = delivered[q]
                                 /\ MetNext(q) <=> Met(q)
    BY <1>1, <2>3
  <2>5. terminals'[r] = {} /\ delivered'[r] = {}
    BY <1>1, <2>3
  <2> HIDE DEF Met, MetNext
  <2> QED BY <1>1, <1>2, <2>1, <2>2, <2>3, <2>4, <2>5
<1>8. ASSUME NEW r \in Request, NEW success,
             FinishAttempt(r, success), success => MetNext(r), success \in BOOLEAN,
             \/ UNCHANGED delivered
             \/ \E s \in completed : Owner[s] = r /\ delivered' = [delivered EXCEPT ![r] = @ \cup {s}],
             completed' = completed, succeeded' \subseteq succeeded,
             \A o \in succeeded \ succeeded' : Owner[o] = r
      PROVE  Goal
  <2>1. /\ r \in active /\ active' = active \ {r} /\ cleanup' = cleanup \cup {r}
        /\ terminals' = terminals
        /\ finishedAt' = IF success THEN [finishedAt EXCEPT ![r] = now] ELSE finishedAt
    BY <1>8 DEF FinishAttempt
  <2>2. \A q \in Request \ {r} : /\ delivered'[q] = delivered[q] /\ finishedAt'[q] = finishedAt[q]
                                 /\ MetNext(q) <=> Met(q)
    BY <1>1, <1>8, <2>1
  <2>3. delivered'[r] \subseteq completed /\ \A o \in delivered'[r] : Owner[o] = r
    BY <1>1, <1>2, <1>8, <2>1
  <2>4. finishedAt'[r] # Never => success
    BY <1>1, <2>1
  <2> HIDE DEF Met, MetNext
  <2> QED BY <1>1, <1>2, <1>8, <2>1, <2>2, <2>3, <2>4
<1>9. ASSUME NEW r \in active, NEW s \in completed, Owner[s] = r, Adding(r, s),
             completed' = completed, succeeded' = succeeded \/ succeeded' = succeeded \ {s}
      PROVE  Goal
  <2>1. /\ UNCHANGED <<active, cleanup, finishedAt, terminals>> /\ ~MetNext(r)
        /\ delivered' = [delivered EXCEPT ![r] = @ \cup {s}]
    BY <1>9 DEF Adding, Enough
  <2>2. \A q \in Request \ {r} : delivered'[q] = delivered[q] /\ (MetNext(q) <=> Met(q))
    BY <1>1, <2>1
  <2>3. delivered'[r] = delivered[r] \cup {s}
    BY <1>1, <2>1
  <2>4. s \notin UNION {terminals[q] : q \in Request \ {r}}
    BY <1>2, <1>9
  <2> HIDE DEF Met, MetNext
  <2> QED BY <1>1, <1>2, <1>9, <2>1, <2>2, <2>3, <2>4
<1>10. ASSUME NEW o \in Op, ProcessSuccess(o)
       PROVE  Goal
  <2>1. /\ Owner[o] \in Request /\ o \in completed /\ o \in succeeded /\ succeeded' = succeeded \ {o}
    BY <1>2, <1>10, OperationAssumption DEF ProcessSuccess
  <2>2. CASE /\ Owner[o] \notin active \/ o \notin terminals[Owner[o]]
             /\ UNCHANGED <<completed, planVars>>
    <3>1. \A r \in active : o \notin terminals[r]
      BY <1>1, <1>2, <2>2
    <3>2. \A r \in Request : MetNext(r) <=> Met(r)
      BY <2>2 DEF planVars
    <3> HIDE DEF Met, MetNext
    <3> QED BY <1>1, <1>2, <2>1, <2>2, <3>1, <3>2 DEF planVars
  <2>3. CASE Owner[o] \in active /\ Deliver(Owner[o], o)
    <3>1. completed' = completed
      BY <2>3 DEF Deliver, FinishAttempt, GiveBack, ReleaseRequest, vars, markVars
    <3>2. Ending(Owner[o]) \/ Serving(Owner[o], o) \/ Adding(Owner[o], o)
      BY <2>3, DeliverShape
    <3> HIDE DEF Goal
    <3> QED BY <1>8, <1>9, <2>1, <2>3, <3>1, <3>2 DEF Ending, Serving, Enough
  <2>4. UNCHANGED completed
    BY <1>10 DEF ProcessSuccess, ReleaseLate, Deliver, FinishAttempt, GiveBack, ReleaseRequest, vars, markVars
  <2> QED BY <1>10, <2>2, <2>3, <2>4 DEF ProcessSuccess, ReleaseLate
<1>11. ASSUME NEW r \in Request, Answering(r), UNCHANGED <<completed, succeeded>>
       PROVE  Goal
  <2> HIDE DEF Goal
  <2>1. CASE Ending(r)
    BY <1>8, <1>11, <2>1 DEF Ending
  <2>2. ASSUME NEW s \in Op, r \in active, Owner[s] = r, s \in completed, Serving(r, s)
        PROVE  Goal
    BY <1>8, <1>11, <2>2 DEF Serving, Enough
  <2>3. ASSUME NEW s \in Op, r \in active, Owner[s] = r, s \in completed, Adding(r, s)
        PROVE  Goal
    BY <1>9, <1>11, <2>3
  <2> QED BY <1>11, <2>1, <2>2, <2>3 DEF Answering
<1>12. CASE (TablesKept \/ StartSlot \/ LaunchDue) /\ UNCHANGED <<completed, succeeded>>
  <2> HIDE DEF Goal
  <2> QED BY <1>3, <1>12 DEF TablesKept, StartSlot, LaunchDue, planVars
<1> HIDE DEF Goal
<1>13. CASE UNCHANGED <<completed, succeeded>>
  BY <1>5, <1>6, <1>7, <1>11, <1>12, <1>13 DEF TableStep
<1> QED BY <1>1, <1>4, <1>7, <1>10, <1>13, SuccessesKept

\* Only the end of an operation adds a segment or takes one out of flight.
LEMMA SegmentsShrink ==
  ASSUME RegistrySound, [Next]_vars
  PROVE  Finish \/ (segs' \subseteq segs /\ InFlight \subseteq InFlight')
<1> DEFINE Shrinks == segs' \subseteq segs /\ InFlight \subseteq InFlight'
<1> USE DEF InFlight
<1>1. CASE \/ \E r \in Request : \E ops \in Plans[r] : Register(r, ops)
           \/ \E r \in Request : Unregister(r)
           \/ \E r \in Request : \E ops \in Repairs[r], supersede \in BOOLEAN : Repair(r, ops, supersede)
  BY <1>1 DEF Register, Unregister, Repair, Discard, Refresh, pairVars, runVars, callVars
<1>2. CASE (\E s \in Op : ReleaseSegment(s)) \/ \E r \in Request : ReleaseRequest(r)
  BY <1>2 DEF ReleaseSegment, ReleaseRequest, Discard, runVars, callVars
<1>3. CASE \E ops \in SUBSET Ready : Launch(ops)
  BY <1>3 DEF Launch, Refresh, callVars
<1>4. CASE \E bound \in now .. Horizon : Advance(bound) \/ WaitUntil(bound)
  <2>1. Idle => todo = {}
    BY DEF RegistrySound, LoopShape, Idle
  <2> QED BY <1>4, <2>1 DEF Advance, WaitUntil, RefreshAndReport, pairVars, runVars, callVars
<1>5. CASE BeginTimeout \/ Settle \/ Terminate \/ UNCHANGED vars
  BY <1>5 DEF BeginTimeout, Settle, Terminate, RefreshAndReport, pairVars, runVars, callVars, vars
<1> QED BY <1>1, <1>2, <1>3, <1>4, <1>5 DEF Next

\* Inside a call of the executor the scheduler takes no step of its own.
LEMMA InsideCall ==
  ASSUME [SchedNext]_schedVars, ~Idle, LoopPlace
  PROVE  ExecutorStep \/ ExecutorReturns \/ UNCHANGED vars
<1>1. at = "calling"
  BY DEF LoopPlace
<1>2. ASSUME NEW r, NEW success, FinishAttempt(r, success) PROVE FALSE
  BY <1>2 DEF FinishAttempt, GiveBack, ReleaseRequest
<1>3. ASSUME NEW r \in Request, NEW ops \in Plans[r], NEW start, Submit(r, ops, start) PROVE FALSE
  BY <1>1, <1>3 DEF Submit
<1>4. ~StartSlot /\ ~LaunchDue /\ ~RejectDue /\ ~AdvanceOnce /\ ~WaitOnce /\ ~CloseSlot
      /\ ~EndProcessing /\ ~EndSweep /\ ~EndSlot
  BY <1>1 DEF StartSlot, LaunchDue, RejectDue, AdvanceOnce, WaitOnce, CloseSlot, Running,
             EndProcessing, Processing, EndSweep, EndSlot
<1>5. ASSUME NEW o \in Op, ProcessSuccess(o) \/ ProcessFailure(o) PROVE FALSE
  BY <1>1, <1>5 DEF ProcessSuccess, ProcessFailure, Processing
<1>6. ASSUME NEW r \in Request, ProcessDoom(r) \/ SweepBusy(r) \/ SweepQuiet(r) PROVE FALSE
  BY <1>1, <1>6 DEF ProcessDoom, Processing, SweepBusy, SweepQuiet, Sweeping
<1>7. ASSUME NEW r \in Request, Decline(r) \/ Continue(r) PROVE FALSE
  BY <1>1, <1>7 DEF Decline, Continue, Fresh, Asking
<1>8. ASSUME NEW s \in Op, ContinueRelease(s) \/ ReviseRelease(s) PROVE FALSE
  BY <1>8 DEF ContinueRelease, ReviseRelease, ReleaseSegment
<1>9. ASSUME NEW r \in Request, NEW s \in Op, Accept(r, s) PROVE FALSE
  BY <1>1, <1>9 DEF Accept, Fresh, Asking
<1>10. ASSUME NEW r \in Request, NEW ops, Revise(r, ops) \/ ReviseInfeasible(r, ops) PROVE FALSE
  BY <1>1, <1>10 DEF Revise, ReviseInfeasible, Fresh, Asking
<1>11. ASSUME NEW r \in Request, NEW start, ApplyRevision(r, start) PROVE FALSE
  BY <1>11 DEF ApplyRevision, Repair, RepairAdmits
<1>12. CASE Over \/ UNCHANGED schedVars
  BY <1>12 DEF Over, schedVars
<1> QED BY <1>3, <1>4, <1>5, <1>6, <1>7, <1>8, <1>9, <1>10, <1>11, <1>12
        DEF SchedNext, Step, Work, Reply

LEMMA SoundPlace == ScheduleSound => LoopInv
BY ScheduleAssumption DEF ScheduleSound, LoopPlace, RepliesOpen, ScheduleTypeOK, LoopInv

\* Releasing a request leaves what is in use.
LEMMA ReleasedRest ==
  ASSUME RegistrySound, NEW r \in Request, ReleaseRequest(r)
  PROVE  OwnedBy(r, segs') \subseteq Inputs(InFlight') /\ segs' \subseteq segs /\ InFlight' = InFlight
<1>1. /\ Idle /\ segs' = segs \ (OwnedBy(r, segs) \ Inputs(pending))
      /\ UNCHANGED <<pending, todo>>
  BY DEF ReleaseRequest, Discard, runVars, callVars
<1>2. InFlight = pending
  BY <1>1, IdleInFlight DEF RegistrySound
<1> QED BY <1>1, <1>2 DEF OwnedBy, InFlight

\* The end of an operation settles its inputs.
LEMMA InputsLeave ==
  ASSUME RegistrySound, NEW o \in Op, Release(o) \/ Fail(o) \/ \E life \in Lifetimes : Complete(o, life)
  PROVE  /\ InFlight \ {o} \subseteq InFlight'
         /\ \/ segs' \subseteq segs \ Ins[o]
            \/ segs' = (segs \ Ins[o]) \cup {o} /\ \E life \in Lifetimes : Complete(o, life)
<1>1. Retire(o)
  BY DEF Release, Fail, Complete
<1>2. InFlight \ {o} \subseteq InFlight'
  BY <1>1 DEF Retire, InFlight
<1>3. CASE Release(o)
  BY <1>2, <1>3 DEF Release, Consumed
<1>4. CASE Fail(o)
  BY <1>2, <1>4 DEF Fail, Refresh, Consumed
<1>5. CASE \E life \in Lifetimes : Complete(o, life)
  BY <1>2, <1>5 DEF Complete, Consumed
<1> QED BY <1>3, <1>4, <1>5

\* An ended attempt keeps only what is in use.
LEMMA OutputsStep ==
  ASSUME Inductive, ScheduleSound, TableStep, [SchedNext]_schedVars, [Next]_vars
  PROVE  OutputsNow'
<1>1. /\ RegistrySound /\ LoopPlace /\ OutputsNow /\ LoopShape
      /\ active \cap cleanup = {} /\ cleanup \subseteq Request
      /\ active \subseteq Request
  BY DEF Inductive, RegistrySound, ScheduleSound, AttemptsAccounted, ScheduleTypeOK
<1> DEFINE Goal == \A r \in cleanup' : \/ OwnedBy(r, segs') \subseteq Inputs(InFlight')
                                       \/ \E o \in succeeded' : Owner[o] = r
<1> SUFFICES Goal
  BY DEF OutputsNow, OwnedBy, Inputs, InFlight
<1>2. \A r \in cleanup : \/ OwnedBy(r, segs) \subseteq Inputs(InFlight)
                         \/ \E o \in succeeded : Owner[o] = r
  BY <1>1 DEF OutputsNow
<1>3. ASSUME cleanup' \subseteq cleanup, succeeded' = succeeded,
             segs' \subseteq segs, InFlight \subseteq InFlight'
      PROVE  Goal
  BY <1>2, <1>3 DEF OwnedBy, Inputs
<1>4. ASSUME NEW r \in Request, NEW success, FinishAttempt(r, success), succeeded' \subseteq succeeded,
             \A o \in succeeded \ succeeded' : Owner[o] = r
      PROVE  Goal
  <2>1. cleanup' = cleanup \cup {r} /\ ReleaseRequest(r)
    BY <1>4 DEF FinishAttempt, GiveBack
  <2>2. OwnedBy(r, segs') \subseteq Inputs(InFlight') /\ segs' \subseteq segs /\ InFlight' = InFlight
    BY <1>1, <2>1, ReleasedRest
  <2> QED BY <1>2, <1>4, <2>1, <2>2 DEF OwnedBy
<1>5. CASE ExecutorStep
  <2>1. cleanup' = cleanup
    BY <1>5 DEF ExecutorStep, planVars
  <2>2. CASE BeginTimeout /\ UNCHANGED succeeded
    BY <1>3, <2>1, <2>2 DEF BeginTimeout, InFlight, pairVars
  <2>3. ASSUME NEW o \in Op, (Release(o) \/ \E life \in Lifetimes : Complete(o, life)),
               succeeded' = succeeded \cup {o}
        PROVE  Goal
    BY <1>1, <1>2, <2>1, <2>3, InputsLeave DEF OwnedBy, Inputs
  <2>4. ASSUME NEW o \in Op, Fail(o), UNCHANGED succeeded
        PROVE  Goal
    <3>1. segs' \subseteq segs \ Ins[o] /\ InFlight \ {o} \subseteq InFlight'
      BY <1>1, <2>4, InputsLeave DEF Fail, Refresh, Consumed
    <3> QED BY <1>2, <2>1, <2>4, <3>1 DEF OwnedBy, Inputs
  <2> HIDE DEF Goal
  <2> QED BY <1>5, <2>2, <2>3, <2>4 DEF ExecutorStep
<1>6. ASSUME NEW o \in Op, ProcessSuccess(o)
      PROVE  Goal
  <2>1. Owner[o] \in Request /\ succeeded' = succeeded \ {o}
    BY <1>6, OperationAssumption DEF ProcessSuccess
  <2>2. CASE ReleaseRequest(Owner[o]) /\ UNCHANGED cleanup
    BY <1>1, <1>2, <2>1, <2>2, ReleasedRest DEF OwnedBy
  <2>3. CASE Owner[o] \notin cleanup /\ UNCHANGED <<cleanup, segs, pending, todo>>
    BY <1>2, <2>1, <2>3 DEF OwnedBy, InFlight
  <2>4. CASE Owner[o] \in active /\ Deliver(Owner[o], o)
    <3>1. CASE \E success : FinishAttempt(Owner[o], success)
      <4> HIDE DEF Goal
      <4> QED BY <1>4, <2>1, <3>1
    <3>2. CASE Adding(Owner[o], o)
      BY <1>1, <2>3, <2>4, <3>2 DEF Adding, vars, pairVars, runVars, callVars
    <3> QED BY <2>4, <3>1, <3>2, DeliverShape DEF Ending, Serving
  <2> HIDE DEF Goal
  <2> QED BY <1>1, <1>6, <2>2, <2>3, <2>4
          DEF ProcessSuccess, ReleaseLate, planVars, vars, pairVars, runVars, callVars
<1>7. CASE UNCHANGED succeeded /\ ~ExecutorStep
  <2>1. segs' \subseteq segs /\ InFlight \subseteq InFlight'
    <3>1. CASE Finish
      <4>1. PICK o \in Op : Retire(o) /\ o \in todo
        BY <3>1 DEF Finish, Release, Fail, Complete, Retire
      <4>2. ~Idle /\ todo' # todo
        BY <1>1, <4>1 DEF LoopShape, Idle, Retire
      <4>3. ExecutorReturns \/ UNCHANGED vars
        BY <1>1, <1>7, <4>2, InsideCall
      <4> QED BY <4>1, <4>2, <4>3 DEF ExecutorReturns, Settle, vars, callVars
    <3> QED BY <1>1, <3>1, SegmentsShrink
  <2>2. CASE cleanup' \subseteq cleanup
    BY <1>3, <1>7, <2>1, <2>2
  <2>3. ASSUME NEW r \in Request, Answering(r)
        PROVE  Goal
    <3>1. (\E success : FinishAttempt(r, success)) \/ cleanup' = cleanup
      BY <2>3 DEF Answering, Ending, Serving, Adding
    <3> HIDE DEF Goal
    <3> QED BY <1>4, <1>7, <2>2, <2>3, <3>1
  <2>4. cleanup' \subseteq cleanup \/ \E r \in Request : Answering(r)
    BY DEF TableStep, Submit, StartSlot, LaunchDue, ApplyRevision, SweepQuiet, TablesKept, planVars
  <2> QED BY <2>2, <2>3, <2>4
<1>8. CASE \E r \in Request : SweepQuiet(r)
  <2>1. UNCHANGED succeeded /\ ~ExecutorStep
    BY <1>8 DEF SweepQuiet, Sweeping, ExecutorStep, batchVars
  <2> QED BY <1>7, <2>1
<1> HIDE DEF Goal
<1> QED BY <1>1, <1>5, <1>6, <1>7, <1>8, SuccessesKept

-----------------------------------------------------------------------------
(* The parts of the invariant that are about the loop and the clock        *)

\* A step that stays where it is: between slots, in the loop of the slot, or
\* within the processing of a batch.
Staying ==
  /\ UNCHANGED <<slot, at, back, moved, now, phase>>
  /\ sweep' \subseteq sweep
  /\ sweep \cap cleanup \subseteq cleanup' \cup (sweep \ sweep')
  /\ at = "processing" \/ UNCHANGED <<batchVars, toAnswer>>
  /\ at = "boundary" \/ active' \ doomed' \subseteq active \ doomed

Moving ==
  \/ StartSlot \/ AdvanceOnce \/ WaitOnce \/ ExecutorReturns \/ RejectDue
  \/ CloseSlot \/ EndProcessing \/ EndSweep \/ EndSlot \/ ExecutorStep

LEMMA Movements ==
  ASSUME LoopPlace, RepliesOpen, [SchedNext]_schedVars
  PROVE  Moving \/ Staying
<1> USE DEF loopVars, callVars, batchVars, replyVars
<1>1. ASSUME NEW r \in Request, NEW ops \in Plans[r], NEW start, Submit(r, ops, start) PROVE Staying
  BY <1>1 DEF Submit, Register, Staying
<1>2. CASE LaunchDue
  BY <1>2 DEF LaunchDue, Launch, Staying
<1>3. ASSUME NEW r \in Request, SweepBusy(r) \/ SweepQuiet(r) PROVE Staying
  BY <1>3 DEF SweepBusy, SweepQuiet, ReleaseRequest, Unregister, planVars, Staying
<1>4. ASSUME NEW r, NEW success, FinishAttempt(r, success)
      PROVE  /\ UNCHANGED <<now, phase>> /\ active' = active \ {r} /\ cleanup \subseteq cleanup'
  BY <1>4 DEF FinishAttempt, GiveBack, ReleaseRequest
<1>5. ASSUME NEW r, NEW s, Deliver(r, s)
      PROVE  /\ UNCHANGED <<now, phase>> /\ active' \subseteq active /\ cleanup \subseteq cleanup'
  BY <1>4, <1>5 DEF Deliver, vars
<1>6. ASSUME NEW r, ReleaseLate(r)
      PROVE  /\ UNCHANGED <<now, phase>> /\ active' \subseteq active /\ cleanup \subseteq cleanup'
  BY <1>6 DEF ReleaseLate, ReleaseRequest, vars, planVars
<1>7. ASSUME NEW o \in Op, ProcessSuccess(o) \/ ProcessFailure(o) PROVE Staying
  BY <1>4, <1>5, <1>6, <1>7 DEF ProcessSuccess, ProcessFailure, Processing, vars, planVars, Staying
<1>8. ASSUME NEW r \in Request, ProcessDoom(r) PROVE Staying
  BY <1>4, <1>8 DEF ProcessDoom, Processing, Staying
<1>9. ASSUME NEW r \in Request, Decline(r) \/ Continue(r) PROVE Staying
  BY <1>4, <1>9 DEF Decline, Continue, Fresh, Asking, vars, planVars, Staying
<1>10. ASSUME NEW s \in Op, ContinueRelease(s) PROVE Staying
  BY <1>10 DEF ContinueRelease, Asking, ReleaseSegment, planVars, Staying
<1>11. ASSUME revision # {} PROVE at = "processing"
  BY <1>11 DEF RepliesOpen, LoopPlace
<1>12. ASSUME NEW s \in Op, ReviseRelease(s) PROVE Staying
  BY <1>11, <1>12 DEF ReviseRelease, ReleaseSegment, planVars, Staying
<1>13. ASSUME NEW r \in Request, NEW s \in Op, Accept(r, s) PROVE Staying
  BY <1>5, <1>13 DEF Accept, Fresh, Asking, Staying
<1>14. ASSUME NEW r \in Request, NEW ops \in Repairs[r], Revise(r, ops) \/ ReviseInfeasible(r, ops)
       PROVE  Staying
  BY <1>4, <1>14 DEF Revise, ReviseInfeasible, Fresh, Asking, vars, planVars, Staying
<1>15. ASSUME NEW r \in Request, NEW start, ApplyRevision(r, start) PROVE Staying
  BY <1>11, <1>15 DEF ApplyRevision, Repair, Staying
<1>16. CASE Over \/ UNCHANGED schedVars
  BY <1>16 DEF Over, schedVars, vars, planVars, Staying
<1> QED BY <1>1, <1>2, <1>3, <1>7, <1>8, <1>9, <1>10, <1>12, <1>13, <1>14, <1>15, <1>16
        DEF SchedNext, Step, Work, Reply, Moving

LEMMA PlaceStep ==
  ASSUME ScheduleSound, [SchedNext]_schedVars
  PROVE  LoopPlace'
<1>1. LoopPlace /\ RepliesOpen /\ CallsProgress /\ HorizonSlots \in Nat
  BY ScheduleAssumption DEF ScheduleSound
<1> USE DEF LoopPlace, Sweeping, Idle
<1>2. CASE Staying
  BY <1>1, <1>2 DEF Staying, batchVars
<1>3. CASE StartSlot \/ RejectDue \/ CloseSlot \/ EndSweep
  BY <1>1, <1>3 DEF StartSlot, RejectDue, CloseSlot, EndSweep, Running, CallsProgress,
                    vars, callVars, planVars, batchVars, replyVars
<1>4. CASE EndProcessing
  BY <1>1, <1>4 DEF EndProcessing, Processing, vars, callVars, planVars, batchVars
<1>5. CASE EndSlot
  BY <1>1, <1>5 DEF EndSlot, vars, callVars, planVars, batchVars, replyVars
<1>6. CASE AdvanceOnce \/ WaitOnce
  BY <1>1, <1>6 DEF AdvanceOnce, WaitOnce, Running, Receive, Advance, WaitUntil, callVars,
                    planVars, batchVars, replyVars
<1>7. CASE ExecutorStep
  <2>1. phase' # "idle"
    BY <1>1, <1>7 DEF ExecutorStep, Release, Complete, Fail, Retire, BeginTimeout
  <2> QED BY <1>1, <1>7, <2>1 DEF ExecutorStep, planVars, replyVars, loopVars
<1>8. CASE ExecutorReturns
  BY <1>1, <1>8 DEF ExecutorReturns, Receive, Settle, CallsProgress
<1> QED BY <1>1, <1>2, <1>3, <1>4, <1>5, <1>6, <1>7, <1>8, Movements DEF Moving

LEMMA RepliesStep ==
  ASSUME ScheduleSound, [SchedNext]_schedVars
  PROVE  RepliesOpen'
<1>1. LoopPlace /\ RepliesOpen
  BY DEF ScheduleSound
<1> USE DEF RepliesOpen
<1>2. ASSUME UNCHANGED <<toAnswer, revision>>, active \subseteq active'
      PROVE  RepliesOpen'
  BY <1>1, <1>2
<1>3. ASSUME toAnswer = {} \/ UNCHANGED toAnswer, toAnswer' \subseteq active, active' = active, UNCHANGED revision
      PROVE  RepliesOpen'
  BY <1>1, <1>3
<1>4. ASSUME NEW r \in Request, revision = {}, active' \subseteq active, active \ {r} \subseteq active',
             toAnswer' = toAnswer \ {r}, UNCHANGED revision
      PROVE  RepliesOpen'
  BY <1>1, <1>4
<1>5. ASSUME NEW r, NEW success, FinishAttempt(r, success) PROVE active' = active \ {r}
  BY <1>5 DEF FinishAttempt
<1>6. ASSUME NEW r, NEW s, Deliver(r, s) PROVE active' \subseteq active /\ active \ {r} \subseteq active'
  BY <1>5, <1>6 DEF Deliver
<1>7. CASE \/ \E r \in Request : \E ops \in Plans[r], start \in 0 .. HorizonSlots : Submit(r, ops, start)
           \/ StartSlot \/ LaunchDue \/ RejectDue \/ AdvanceOnce \/ ExecutorStep \/ CloseSlot
           \/ EndProcessing \/ EndSweep \/ EndSlot \/ Over \/ UNCHANGED schedVars
           \/ \E r \in Request : SweepBusy(r) \/ SweepQuiet(r)
           \/ \E s \in Op : ContinueRelease(s) \/ ReviseRelease(s)
  BY <1>2, <1>7 DEF Submit, StartSlot, LaunchDue, RejectDue, AdvanceOnce, ExecutorStep, CloseSlot,
                    EndProcessing, EndSweep, EndSlot, Over, schedVars, SweepBusy, SweepQuiet,
                    ContinueRelease, ReviseRelease, planVars, replyVars
<1>8. CASE WaitOnce \/ ExecutorReturns
  <2>1. toAnswer = {}
    BY <1>1, <1>8 DEF LoopPlace, WaitOnce, Running, ExecutorReturns
  <2>2. toAnswer' \subseteq active
    BY <1>8 DEF WaitOnce, ExecutorReturns, Receive, Asked
  <2> QED BY <1>3, <1>8, <2>1, <2>2 DEF WaitOnce, ExecutorReturns, planVars
<1>9. ASSUME NEW o \in Op, ProcessSuccess(o) \/ ProcessFailure(o)
      PROVE  RepliesOpen'
  BY <1>1, <1>9 DEF ProcessSuccess, ProcessFailure, Processing, replyVars
<1>10. ASSUME NEW r \in Request, ProcessDoom(r)
       PROVE  RepliesOpen'
  BY <1>1, <1>10 DEF ProcessDoom, Processing, replyVars
<1>11. ASSUME NEW r \in Request, Decline(r) \/ Continue(r)
       PROVE  RepliesOpen'
  BY <1>4, <1>5, <1>11 DEF Decline, Continue, Fresh, Asking, planVars
<1>12. ASSUME NEW r \in Request, NEW s \in Op, Accept(r, s)
       PROVE  RepliesOpen'
  BY <1>4, <1>6, <1>12 DEF Accept, Fresh, Asking
<1>13. ASSUME NEW r \in Request, NEW ops \in Repairs[r], Revise(r, ops)
       PROVE  RepliesOpen'
  <2>1. toAnswer' = toAnswer /\ active' = active /\ r \in toAnswer /\ revision' = ops
    BY <1>13 DEF Revise, Fresh, Asking, planVars
  <2>2. \A o \in ops : Owner[o] = r
    BY <1>13 DEF Revise, RepairAdmits, WellFormed
  <2> QED BY <1>1, <2>1, <2>2
<1>14. ASSUME NEW r \in Request, NEW ops \in Repairs[r], ReviseInfeasible(r, ops)
       PROVE  RepliesOpen'
  BY <1>4, <1>5, <1>14 DEF ReviseInfeasible, Fresh, Asking
<1>15. ASSUME NEW r \in Request, NEW start, ApplyRevision(r, start)
       PROVE  RepliesOpen'
  BY <1>1, <1>15 DEF ApplyRevision
<1> QED BY <1>7, <1>8, <1>9, <1>10, <1>11, <1>12, <1>13, <1>14, <1>15 DEF SchedNext, Step, Work, Reply

\* The end of the slot lies ahead, and not past the horizon.
LEMMA EndAhead ==
  ASSUME TypeOK, LoopPlace
  PROVE  /\ slot \in Nat /\ SlotEnd \in Nat /\ now \in Nat
         /\ SlotEnd = slot * SlotLength + SlotLength
         /\ slot * SlotLength \in Nat /\ SlotLength \in Nat /\ SlotLength > 0
         /\ at # "boundary" => SlotEnd <= Horizon
<1>1. slot \in Nat /\ HorizonSlots \in Nat /\ SlotLength \in Nat /\ SlotLength > 0 /\ now \in Nat
      /\ Horizon = HorizonSlots * SlotLength
  BY ScheduleAssumption, ExecutorAssumption DEF LoopPlace, TypeOK
<1>2. \A a, c \in Nat : (a + 1) * c = a * c + c /\ a * c \in Nat
  OBVIOUS
<1>3. ASSUME at # "boundary" PROVE SlotEnd <= Horizon
  <2>1. slot + 1 <= HorizonSlots /\ slot + 1 \in Nat
    BY <1>1, <1>3 DEF LoopPlace
  <2>2. \A a, b, c \in Nat : a <= b => a * c <= b * c
    OBVIOUS
  <2> QED BY <1>1, <2>1, <2>2 DEF SlotEnd
<1> QED BY <1>1, <1>2, <1>3 DEF SlotEnd

\* What a step that stays does inside a call: nothing.
LEMMA StayingInCall ==
  ASSUME LoopPlace, Staying, at = "calling", ~ExecutorStep, [SchedNext]_schedVars
  PROVE  UNCHANGED <<succeeded, failed, todo, pending>>
<1>1. ExecutorReturns \/ UNCHANGED vars
  BY InsideCall DEF LoopPlace
<1>2. ~ExecutorReturns
  BY DEF ExecutorReturns, Receive, Staying
<1> QED BY <1>1, <1>2 DEF Staying, batchVars, vars, callVars, runVars

LEMMA CallsStep ==
  ASSUME Inductive, ScheduleSound, [SchedNext]_schedVars
  PROVE  CallsProgress'
<1>1. /\ TypeOK /\ LoopShape /\ LoopPlace /\ RepliesOpen /\ CallsProgress /\ SlotClock /\ WindowsHeld
  BY DEF Inductive, RegistrySound, ScheduleSound, ScheduleTypeOK
<1>2. CASE Staying /\ ~ExecutorStep
  BY <1>1, <1>2, StayingInCall DEF CallsProgress, Staying
<1>3. CASE ExecutorStep
  <2>1. UNCHANGED <<at, back, moved>> /\ at = "calling"
    BY <1>3 DEF ExecutorStep, loopVars
  <2>2. CASE BeginTimeout
    <3>1. todo' # {}
      BY <2>2 DEF BeginTimeout, TimeoutDue
    <3> QED BY <1>1, <2>1, <3>1 DEF CallsProgress
  <2>3. CASE ~BeginTimeout
    <3>1. succeeded' \cup failed' # {}
      BY <1>3, <2>3 DEF ExecutorStep
    <3> QED BY <1>1, <2>1, <3>1 DEF CallsProgress
  <2> QED BY <2>2, <2>3
<1>4. CASE AdvanceOnce
  <2>1. SlotEnd \in Nat /\ SlotEnd > now /\ SlotEnd <= Horizon /\ Advance(SlotEnd)
    BY <1>1, <1>4, EndAhead DEF AdvanceOnce, Running
  <2>2. now' > now \/ todo' # {}
    BY <1>1, <2>1, AdvanceProgress
  <2>3. moved' = (now' > now) /\ at' = "calling" /\ back' = "sweeping"
    BY <1>4 DEF AdvanceOnce
  <2>4. moved' \/ todo' # {}
    BY <2>2, <2>3, Zenon
  <2> QED BY <2>3, <2>4 DEF CallsProgress
<1>5. CASE WaitOnce
  <2>1. SlotEnd \in Nat /\ SlotEnd > now /\ WaitUntil(SlotEnd) /\ now \in Nat
    BY <1>1, <1>5, EndAhead DEF WaitOnce, Running
  <2>2. now' \in {SlotEnd} \cup NextExpiries
    BY <2>1 DEF WaitUntil, IsLeast
  <2>3. now' > now
    BY <2>1, <2>2 DEF NextExpiries
  <2>4. Receive(now' > now)
    BY <1>5 DEF WaitOnce
  <2>5. moved' = (now' > now \/ succeeded \cup failed \cup lapsed' # {}) /\ at' = "processing"
    BY <2>4 DEF Receive
  <2>6. moved' = TRUE
    BY <2>3, <2>5, Zenon
  <2> QED BY <2>5, <2>6 DEF CallsProgress
<1>6. CASE ExecutorReturns
  <2>1. moved \/ succeeded \cup failed # {}
    BY <1>1, <1>6 DEF ExecutorReturns, Settle, CallsProgress
  <2> QED BY <1>6, <2>1 DEF ExecutorReturns, Receive, CallsProgress
<1>7. CASE StartSlot \/ RejectDue \/ CloseSlot
  BY <1>1, <1>7 DEF StartSlot, RejectDue, CloseSlot, CallsProgress
<1>8. CASE EndProcessing \/ EndSweep \/ EndSlot
  BY <1>1, <1>8 DEF EndProcessing, Processing, EndSweep, EndSlot, CallsProgress, LoopPlace
<1> QED BY <1>1, <1>2, <1>3, <1>4, <1>5, <1>6, <1>7, <1>8, Movements DEF Moving

LEMMA ClockStep ==
  ASSUME Inductive, ScheduleSound, [SchedNext]_schedVars
  PROVE  SlotClock'
<1>1. /\ TypeOK /\ LoopPlace /\ RepliesOpen /\ CallsProgress /\ SlotClock
      /\ slot \in Nat /\ SlotEnd \in Nat /\ now \in Nat
      /\ SlotEnd = slot * SlotLength + SlotLength
      /\ slot * SlotLength \in Nat /\ SlotLength \in Nat /\ SlotLength > 0
      /\ at # "boundary" => SlotEnd <= Horizon
  BY EndAhead DEF Inductive, RegistrySound, ScheduleSound
<1> USE DEF SlotClock, Closing
<1>2. ASSUME slot' = slot PROVE SlotEnd' = SlotEnd
  BY <1>2 DEF SlotEnd
<1>3. CASE Staying
  BY <1>1, <1>2, <1>3 DEF Staying
<1>4. CASE StartSlot \/ RejectDue \/ ExecutorReturns
  BY <1>1, <1>2, <1>4 DEF StartSlot, RejectDue, Running, ExecutorReturns, Receive, Settle, vars,
                          CallsProgress
<1>5. CASE ExecutorStep
  <2>1. now' = now
    BY <1>5 DEF ExecutorStep, Release, Complete, Fail, Retire, BeginTimeout
  <2> QED BY <1>1, <1>2, <1>5, <2>1 DEF ExecutorStep, loopVars
<1>6. CASE AdvanceOnce
  <2>1. /\ at = "running" /\ at' = "calling" /\ slot' = slot /\ Advance(SlotEnd)
    BY <1>6 DEF AdvanceOnce, Running
  <2>2. now' \in now .. SlotEnd
    BY <1>1, <2>1, CallWithin
  <2> QED BY <1>1, <1>2, <2>1, <2>2
<1>7. CASE WaitOnce
  <2>1. at = "running" /\ at' = "processing" /\ back' = "sweeping" /\ slot' = slot /\ WaitUntil(SlotEnd)
    BY <1>7 DEF WaitOnce, Running, Receive
  <2>2. now' \in now .. SlotEnd
    BY <1>1, <2>1, CallWithin
  <2> QED BY <1>1, <1>2, <2>1, <2>2
<1>8. CASE CloseSlot
  <2>1. at = "running" /\ now >= SlotEnd /\ now' = now /\ slot' = slot /\ at' = "processing"
    BY <1>1, <1>8 DEF CloseSlot, CallsProgress, vars
  <2> QED BY <1>1, <1>2, <2>1
<1>9. CASE EndProcessing \/ EndSweep
  BY <1>1, <1>2, <1>9 DEF EndProcessing, Processing, EndSweep, vars, LoopPlace
<1>10. CASE EndSlot
  <2>1. at = "ending" /\ at' = "boundary" /\ slot' = slot + 1 /\ now' = now
    BY <1>10 DEF EndSlot, vars
  <2>2. now' = slot' * SlotLength
    BY <1>1, <2>1 DEF SlotEnd
  <2> QED BY <1>1, <2>1, <2>2
<1> QED BY <1>1, <1>3, <1>4, <1>5, <1>6, <1>7, <1>8, <1>9, <1>10, Movements DEF Moving

\* A plan that is accepted, and a deadline that CloseSlot does not end, leave
\* time: the deadline lies beyond the slot.
LEMMA DeadlinesStep ==
  ASSUME Inductive, ScheduleSound, TableStep, [SchedNext]_schedVars
  PROVE  DeadlinesWatched'
<1>1. /\ TypeOK /\ LoopPlace /\ RepliesOpen /\ CallsProgress /\ SlotClock /\ DeadlinesWatched
      /\ ScheduleTypeOK
      /\ slot \in Nat /\ SlotEnd \in Nat /\ now \in Nat /\ SlotLength \in Nat
      /\ Deadline \in [Request -> Nat]
  BY EndAhead, ScheduleAssumption DEF Inductive, RegistrySound, ScheduleSound
<1>2. \A r \in Request : finishedAt'[r] # Never => finishedAt'[r] <= Deadline[r] * SlotLength
  <2>1. \A r \in Request : finishedAt[r] # Never => finishedAt[r] <= Deadline[r] * SlotLength
    BY <1>1 DEF DeadlinesWatched
  <2>2. CASE finishedAt' = finishedAt
    BY <2>1, <2>2
  <2>3. ASSUME NEW r \in Request, NEW s \in Op, Serving(r, s)
        PROVE  \A q \in Request : finishedAt'[q] # Never => finishedAt'[q] <= Deadline[q] * SlotLength
    <3>1. finishedAt' = [finishedAt EXCEPT ![r] = now] /\ now <= Deadline[r] * SlotLength
      BY <2>3 DEF Serving, FinishAttempt
    <3> QED BY <1>1, <2>1, <3>1 DEF ScheduleTypeOK
  <2>4. finishedAt' = finishedAt \/ \E r \in Request, s \in Op : Serving(r, s)
    BY DEF TableStep, Submit, StartSlot, LaunchDue, ApplyRevision, SweepQuiet, TablesKept, planVars,
           Answering, Ending, Adding, FinishAttempt
  <2> QED BY <2>2, <2>3, <2>4
<1> SUFFICES /\ at' = "boundary" => \A r \in active' : Deadline[r] > slot'
             /\ Closing' => \A r \in active' \ doomed' : Deadline[r] > slot' + 1
  BY <1>2 DEF DeadlinesWatched, Never
<1>3. /\ at = "boundary" => \A r \in active : Deadline[r] > slot
      /\ Closing => \A r \in active \ doomed : Deadline[r] > slot + 1
  BY <1>1 DEF DeadlinesWatched
<1> USE DEF Closing
<1>4. ASSUME NEW r \in Request, NEW ops \in Plans[r], NEW start \in 0 .. HorizonSlots, Submit(r, ops, start)
      PROVE  active' = active \cup {r} /\ at' = at /\ at = "boundary" /\ slot' = slot /\ Deadline[r] > slot
  <2>1. active' = active \cup {r} /\ at' = at /\ at = "boundary" /\ slot' = slot
    BY <1>4 DEF Submit, loopVars
  <2>2. PICK o \in Terminals(ops) : o \in Op /\ start + Offset[o] < Limit(r)
    <3>1. Terminals(ops) # {} /\ Terminals(ops) \subseteq Op
      BY ScheduleAssumption DEF WellScheduled, Terminals
    <3> QED BY <1>4, <3>1 DEF Submit, InTime
  <2>3. start \in Nat /\ start >= CurrentSlot /\ CurrentSlot \in Nat /\ CurrentSlot >= slot
    BY <1>1, <1>4, SlotOfTime, ScheduleAssumption DEF Submit
  <2>4. Offset[o] \in Nat /\ Limit(r) \in Nat /\ Limit(r) <= Deadline[r]
    BY <2>2, ScheduleAssumption DEF Limit
  <2> QED BY <1>1, <2>1, <2>2, <2>3, <2>4
<1>5. CASE \E r \in Request : \E ops \in Plans[r], start \in 0 .. HorizonSlots : Submit(r, ops, start)
  BY <1>3, <1>4, <1>5
<1>6. CASE Staying /\ active' \subseteq active
  BY <1>3, <1>6 DEF Staying
<1>7. CASE CloseSlot
  <2>1. /\ doomed' = AtDeadline /\ active' = active /\ slot' = slot /\ at' = "processing"
    BY <1>7 DEF CloseSlot, planVars
  <2>2. ASSUME NEW r \in active, r \notin doomed' PROVE Deadline[r] > slot + 1
    <3>1. r \in Request /\ Deadline[r] \in Nat
      BY <1>1 DEF ScheduleTypeOK
    <3>2. ~(Deadline[r] * SlotLength <= SlotEnd)
      BY <2>1, <2>2 DEF AtDeadline
    <3>3. \A a, b, c \in Nat : a <= b => a * c <= b * c
      OBVIOUS
    <3> QED BY <1>1, <3>1, <3>2, <3>3 DEF SlotEnd
  <2> QED BY <2>1, <2>2
<1>8. CASE EndProcessing
  BY <1>1, <1>3, <1>8 DEF EndProcessing, Processing, planVars, batchVars, LoopPlace
<1>9. CASE EndSlot
  <2>1. at = "ending" /\ doomed = {} /\ slot' = slot + 1 /\ active' = active /\ at' = "boundary"
    BY <1>1, <1>9 DEF EndSlot, planVars, LoopPlace
  <2> QED BY <1>3, <2>1
<1>10. CASE \/ StartSlot \/ AdvanceOnce \/ WaitOnce \/ ExecutorReturns \/ RejectDue
            \/ EndSweep \/ ExecutorStep
  BY <1>1, <1>10 DEF StartSlot, AdvanceOnce, WaitOnce, ExecutorReturns, Receive, RejectDue, EndSweep,
                     ExecutorStep, CallsProgress, loopVars
<1>11. active' \subseteq active \/ \E r \in Request : \E ops \in Plans[r], start \in 0 .. HorizonSlots : Submit(r, ops, start)
  BY DEF TableStep, StartSlot, LaunchDue, ApplyRevision, SweepQuiet, TablesKept, planVars,
         Answering, Ending, Serving, Adding, FinishAttempt
<1> QED BY <1>1, <1>5, <1>6, <1>7, <1>8, <1>9, <1>10, <1>11, Movements DEF Moving

-----------------------------------------------------------------------------
(* The invariant                                                           *)

LEMMA SoundInit == SchedInit => ScheduleSound
<1> SUFFICES ASSUME SchedInit PROVE ScheduleSound
  OBVIOUS
<1> USE DEF SchedInit
<1>1. Init /\ Known = {} /\ now = 0 /\ SlotLength \in Nat /\ HorizonSlots \in Nat /\ Horizon \in Nat
  BY ScheduleAssumption, ExecutorAssumption DEF Init, Registered, Known
<1>2. ScheduleTypeOK
  BY <1>1 DEF ScheduleTypeOK, Never, Unplanned
<1>3. LoopPlace
  BY <1>1 DEF LoopPlace, Sweeping, Idle, Init
<1>4. RepliesOpen /\ CallsProgress
  BY DEF RepliesOpen, CallsProgress
<1>5. SlotClock
  BY <1>1 DEF SlotClock, Closing
<1>6. DeadlinesWatched
  BY DEF DeadlinesWatched, Closing
<1>7. AttemptsAccounted
  <2>1. \A r \in Request : Cardinality(active \cap {r}) = 0
    BY FS_EmptySet
  <2> QED BY <2>1 DEF AttemptsAccounted, Unplanned
<1>8. DueNow
  BY <1>1 DEF DueNow, OfActive, Init
<1>9. DeliveriesNow /\ OutputsNow
  BY <1>1 DEF DeliveriesNow, OutputsNow, Init
<1>10. WindowsHeld
  BY <1>1 DEF WindowsHeld, InFlight, Init, Physical
<1> QED BY <1>2, <1>3, <1>4, <1>5, <1>6, <1>7, <1>8, <1>9, <1>10 DEF ScheduleSound

LEMMA SoundStep == Inductive /\ ScheduleSound /\ [SchedNext]_schedVars => ScheduleSound'
<1> SUFFICES ASSUME Inductive, ScheduleSound, [SchedNext]_schedVars PROVE ScheduleSound'
  OBVIOUS
<1>1. TableStep
  BY TableSteps
<1>2. [Next]_vars
  BY SoundPlace, DrivesExecutor DEF Inductive, RegistrySound
<1>3. ScheduleTypeOK'
  BY <1>1, TypeKept DEF ScheduleTypeOK
<1>4. AttemptsAccounted' /\ DeliveriesNow' /\ DueNow' /\ OutputsNow'
  BY <1>1, <1>2, AttemptsStep, DeliveriesStep, DueStep, OutputsStep
<1>5. LoopPlace' /\ RepliesOpen' /\ CallsProgress' /\ SlotClock' /\ DeadlinesWatched'
  BY <1>1, PlaceStep, RepliesStep, CallsStep, ClockStep, DeadlinesStep
<1>6. WindowsHeld'
  BY <1>2, WindowsStep DEF ScheduleSound
<1> QED BY <1>3, <1>4, <1>5, <1>6 DEF ScheduleSound

-----------------------------------------------------------------------------
(* Theorems                                                                *)

\* The scheduler's own invariant: where _run_slot is, what its tables hold
\* and how far the clock may be, at every step of every episode.
THEOREM ScheduleInvariant == SchedSpec => [](Inductive /\ ScheduleSound)
<1>1. SchedInit => ScheduleSound
  BY SoundInit
<1>2. Inductive /\ ScheduleSound /\ [SchedNext]_schedVars => ScheduleSound'
  BY SoundStep
<1> QED BY <1>1, <1>2, ScheduleKeepsInductive, PTL DEF SchedSpec

\* submit, _finish_attempt and _cleanup_finished_requests keep one registered
\* DAG per attempt and one outcome per attempt that ended.
THEOREM AttemptsInvariant == SchedSpec => []AttemptsAccounted
<1>1. Inductive /\ ScheduleSound => AttemptsAccounted
  BY DEF ScheduleSound
<1> QED BY <1>1, ScheduleInvariant, PTL

\* _expire_deadlines ends every attempt in time, no pair is counted after the
\* deadline, and the clock is at a slot boundary between slots.
THEOREM DeadlinesInvariant == SchedSpec => []DeadlinesHeld
<1>1. Inductive /\ ScheduleSound => DeadlinesHeld
  BY DEF ScheduleSound, DeadlinesHeld, SlotClock, DeadlinesWatched
<1> QED BY <1>1, ScheduleInvariant, PTL

\* Between slots _due is exactly the work that is late, whatever was rejected,
\* revised, cancelled or failed before.
THEOREM DueInvariant == SchedSpec => []DueExact
<1>1. Inductive /\ ScheduleSound => DueExact
  <2> SUFFICES ASSUME ScheduleSound, at = "boundary"
               PROVE  due = {o \in OfActive(Known) \ (completed \cup started \cup dead) : slotOf[o] < slot}
    BY DEF DueExact
  <2>1. due = {o \in OfActive(Known) \ (completed \cup started \cup dead) : SlotReached(o)}
    BY DEF ScheduleSound, DueNow
  <2>2. \A o : SlotReached(o) <=> slotOf[o] < slot
    BY DEF SlotReached
  <2> QED BY <2>1, <2>2
<1> QED BY <1>1, ScheduleInvariant, PTL

\* Every terminal pair the executor completes for a live attempt is counted
\* once, and a request is served exactly when it has the pairs it demands.
THEOREM DeliveriesInvariant == SchedSpec => []DeliveriesCounted
<1>1. Inductive /\ ScheduleSound => DeliveriesCounted
  BY DEF ScheduleSound, DeliveriesNow, DeliveriesCounted, LoopPlace, AtRest
<1> QED BY <1>1, ScheduleInvariant, PTL

\* A finished attempt gives back every memory that is not in use: those it
\* holds when it ends, and those of outputs that complete afterwards.
THEOREM OutputsInvariant == SchedSpec => []LateOutputsReleased
<1>1. Inductive /\ ScheduleSound => LateOutputsReleased
  <2> SUFFICES ASSUME Inductive, ScheduleSound, AtRest, NEW r \in cleanup
               PROVE  OwnedBy(r, segs) \subseteq Inputs(pending)
    BY DEF LateOutputsReleased
  <2>1. succeeded = {} /\ Idle
    BY DEF ScheduleSound, LoopPlace, AtRest
  <2>2. InFlight = pending
    BY <2>1, IdleInFlight DEF Inductive, RegistrySound
  <2> QED BY <2>1, <2>2 DEF ScheduleSound, OutputsNow
<1> QED BY <1>1, ScheduleInvariant, PTL

\* The scheduled system keeps the executor's contract with its callers.
THEOREM ScheduleImplementsContract == SchedSpec => ImplementsContract
BY ScheduleImplementsExecutor, ContractImplemented, PTL

=============================================================================
