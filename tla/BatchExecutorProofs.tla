------------------------- MODULE BatchExecutorProofs -------------------------
(***************************************************************************)
(* Proofs about BatchExecutor: the batch run uses the executor lawfully,   *)
(* settles every request once, in time and on pairs that were really       *)
(* built, holds no memory of a settled request, and reports the work that  *)
(* a delay has pushed past its slot.                                       *)
(***************************************************************************)
EXTENDS BatchExecutor, ExecutorLaunchProofs

-----------------------------------------------------------------------------
(* Time                                                                    *)

\* The slots divide the horizon.
LEMMA SlotTimes ==
  ASSUME TypeOK, BatchPlace
  PROVE  /\ slot \in Nat /\ now \in 0 .. Horizon /\ Horizon \in Nat
         /\ SlotLength \in Nat /\ SlotLength > 0 /\ HorizonSlots \in Nat
         /\ slot * SlotLength \in Nat
         /\ SlotEnd \in Nat /\ SlotEnd = slot * SlotLength + SlotLength
         /\ slot < HorizonSlots => SlotEnd <= Horizon
         /\ slot = HorizonSlots => slot * SlotLength = Horizon
<1>1. slot \in Nat /\ HorizonSlots \in Nat /\ SlotLength \in Nat /\ SlotLength > 0 /\ now \in 0 .. Horizon
      /\ Horizon = HorizonSlots * SlotLength /\ Horizon \in Nat
  BY BatchAssumption, ExecutorAssumption DEF BatchPlace, TypeOK
<1>2. \A a, c \in Nat : (a + 1) * c = a * c + c /\ a * c \in Nat
  OBVIOUS
<1>3. ASSUME slot < HorizonSlots PROVE SlotEnd <= Horizon
  <2>1. slot + 1 <= HorizonSlots /\ slot + 1 \in Nat
    BY <1>1, <1>3
  <2>2. \A a, b, c \in Nat : a <= b => a * c <= b * c
    OBVIOUS
  <2> QED BY <1>1, <2>1, <2>2 DEF SlotEnd
<1> QED BY <1>1, <1>2, <1>3 DEF SlotEnd

\* A request arrives within the horizon.
LEMMA ArrivalInside ==
  ASSUME NEW r \in Request
  PROVE  /\ Arrival[r] \in Nat /\ ArrivalTime(r) \in Nat /\ ArrivalTime(r) <= Horizon
         /\ Deadline[r] * SlotLength \in Nat
<1>1. /\ SlotLength \in Nat /\ HorizonSlots \in Nat /\ Horizon = HorizonSlots * SlotLength
      /\ Arrival[r] \in Nat /\ Arrival[r] <= HorizonSlots /\ Deadline[r] \in Nat
  BY BatchAssumption
<1>2. \A a, b, c \in Nat : a * c \in Nat /\ (a <= b => a * c <= b * c)
  OBVIOUS
<1> QED BY <1>1, <1>2 DEF ArrivalTime

\* A settlement neither before the arrival nor after the deadline or horizon.
Timely(r, t) ==
  /\ t \in Nat
  /\ ArrivalTime(r) <= t
  /\ t <= Least2(Horizon, Greatest2(ArrivalTime(r), Deadline[r] * SlotLength))

LEMMA TimelyIsATime ==
  ASSUME NEW r \in Request, NEW t, Timely(r, t)
  PROVE  t # Never
<1>1. ArrivalTime(r) \in Nat /\ Deadline[r] * SlotLength \in Nat /\ Horizon \in Nat
  BY ArrivalInside, ExecutorAssumption
<1> QED BY <1>1 DEF Timely, Least2, Greatest2, Never

LEMMA FailuresAreTimely ==
  ASSUME NEW r \in Request, NEW t \in 0 .. Horizon
  PROVE  Timely(r, FailureTime(r, t))
<1>1. /\ ArrivalTime(r) \in Nat /\ ArrivalTime(r) <= Horizon /\ Deadline[r] * SlotLength \in Nat
      /\ Horizon \in Nat
  BY ArrivalInside, ExecutorAssumption
<1> QED BY <1>1 DEF Timely, FailureTime, Least2, Greatest2

-----------------------------------------------------------------------------
(* The executor under the run                                              *)

LEMMA FailuresGiveBack ==
  ASSUME NEW R, NEW t, Idle, SettleFailures(R, t)
  PROVE  GivesBack
<1>1. /\ Discard({s \in segs : Owner[s] \in R \ Settled} \ Inputs(pending))
      /\ UNCHANGED <<dagVars, markVars, owned, runVars, now, terminated, callVars>>
  BY DEF SettleFailures, GiveBack
<1> QED BY <1>1 DEF GivesBack

\* Every step of the run is a call of the executor, or gives back segments
\* that nothing in flight consumes.
LEMMA RunDrivesExecutor == TypeOK /\ BatchPlace /\ [BatchNext]_batchVars => [Next]_vars \/ GivesBack
<1> SUFFICES ASSUME TypeOK, BatchPlace, [BatchNext]_batchVars
             PROVE  Next \/ GivesBack \/ UNCHANGED vars
  OBVIOUS
<1>1. CASE OpenSlot \/ CloseSlot \/ Over \/ UNCHANGED batchVars
  BY <1>1 DEF OpenSlot, CloseSlot, Over, batchVars
<1>2. CASE LaunchDue
  BY <1>2 DEF LaunchDue, LaunchAdmits, Launch, Next
<1>3. CASE AdvanceOnce \/ WaitOnce
  <2>1. SlotEnd \in now .. Horizon
    BY <1>3, SlotTimes DEF AdvanceOnce, WaitOnce, Running, BatchPlace
  <2> QED BY <1>3, <2>1 DEF AdvanceOnce, WaitOnce, Next
<1>4. CASE RejectDue
  BY <1>4, FailuresGiveBack DEF RejectDue, Running, BatchPlace
<1>5. CASE ExecutorStep \/ ExecutorReturns
  BY <1>5 DEF ExecutorStep, ExecutorReturns, Next, Finish
<1>6. ASSUME NEW o \in Op, ProcessSuccess(o)
      PROVE  Next \/ GivesBack \/ UNCHANGED vars
  <2>1. Idle /\ Owner[o] \in Request
    BY <1>6, OperationAssumption DEF ProcessSuccess, BatchPlace
  <2>2. CASE Deliver(o)
    BY <2>1, <2>2 DEF Deliver, Next
  <2>3. CASE SettleFailures({Owner[o]}, now)
    BY <2>1, <2>3, FailuresGiveBack
  <2> QED BY <1>6, <2>2, <2>3 DEF ProcessSuccess
<1>7. ASSUME NEW o \in Op, ProcessFailure(o)
      PROVE  GivesBack
  BY <1>7, FailuresGiveBack DEF ProcessFailure, BatchPlace
<1>8. CASE EndProcessing \/ Conclude
  <2>1. Idle /\ \E R : GiveBack(R)
    BY <1>8 DEF EndProcessing, Conclude, BatchPlace
  <2>2. PICK R : GiveBack(R)
    BY <2>1
  <2>3. Discard({s \in segs : Owner[s] \in R} \ Inputs(pending))
    BY <2>2 DEF GiveBack
  <2> QED BY <1>8, <2>1, <2>3 DEF EndProcessing, Conclude, GivesBack
<1> QED BY <1>1, <1>2, <1>3, <1>4, <1>5, <1>6, <1>7, <1>8 DEF BatchNext, Step

-----------------------------------------------------------------------------
(* Settlements                                                             *)

\* What holds while the run goes on.
RunSound == Inductive /\ BatchSound

LEMMA RunParts ==
  ASSUME RunSound
  PROVE  /\ TypeOK /\ LoopShape /\ DagsOwned /\ MarkersMatchExecution /\ SegmentProvenance
         /\ BatchTypeOK /\ BatchPlace /\ BatchProgress /\ BatchClock /\ NothingEarly
         /\ WorkAccounted /\ PairsAccounted /\ WindowsHeld
         /\ SettlementsSound /\ SettledIsQuiet /\ DelaysReported
BY DEF RunSound, Inductive, RegistrySound, BatchSound

\* The DAG of a registered request is a plan that fits its arrival and deadline.
LEMMA PlansFit ==
  ASSUME RunSound, NEW r \in Request, dags[r] # {}
  PROVE  /\ Schedulable(r, dags[r]) /\ dags[r] \subseteq Op /\ dags[r] \subseteq Known
         /\ \A o \in dags[r] : Owner[o] = r /\ PlannedSlot[o] \in Nat /\ PlannedSlot[o] < HorizonSlots
<1>1. dags[r] \in Plans[r] /\ dags[r] \subseteq Op /\ \A o \in dags[r] : Owner[o] = r
  BY RunParts DEF NothingEarly, TypeOK, DagsOwned
<1>2. Schedulable(r, dags[r])
  BY <1>1, BatchAssumption
<1>3. ASSUME NEW o \in dags[r] PROVE PlannedSlot[o] \in Nat /\ PlannedSlot[o] < HorizonSlots
  <2>1. PICK t \in dags[r] \cap Terminal : PlannedSlot[o] <= PlannedSlot[t] /\ PlannedSlot[t] < HorizonSlots
    BY <1>2 DEF Schedulable
  <2>2. PlannedSlot[o] \in Nat /\ PlannedSlot[t] \in Nat /\ HorizonSlots \in Nat
    BY <1>1, BatchAssumption
  <2> QED BY <2>1, <2>2
<1> QED BY <1>1, <1>2, <1>3 DEF Known

\* The operations of a request are those of its DAG.
LEMMA KnownOwned ==
  ASSUME RunSound, NEW o \in Known
  PROVE  o \in Op /\ Owner[o] \in Request /\ o \in dags[Owner[o]]
<1>1. PICK r \in Request : o \in dags[r]
  BY DEF Known
<1> QED BY <1>1, RunParts DEF DagsOwned, TypeOK

\* When the last slot is over, every request is settled or has work left that
\* is due: what is neither due nor in flight was completed, and its terminal
\* pairs were delivered.
LEMMA NothingLeftOpen ==
  ASSUME RunSound, at = "opening", slot = HorizonSlots, NEW r \in Request \ Settled
  PROVE  \E o \in due : Owner[o] = r
<1> SUFFICES ASSUME \A o \in due : Owner[o] # r PROVE FALSE
  OBVIOUS
<1>1. dags[r] # {} /\ r \in Request
  BY RunParts DEF WorkAccounted, Registered
<1>2. pending = {} /\ started = {} /\ failed = {} /\ succeeded = {}
  <2>1. Idle /\ now >= Horizon
    BY RunParts, SlotTimes DEF BatchClock, BatchPlace
  <2>2. pending = {} /\ failed = {} /\ succeeded = {}
    BY <2>1, RunParts DEF BatchClock, BatchPlace
  <2>3. InFlight = pending
    BY <2>1, RunParts, IdleInFlight
  <2> QED BY <2>2, <2>3, RunParts DEF MarkersMatchExecution
<1>3. ASSUME NEW o \in dags[r] \cap Terminal PROVE o \in OwnedBy(r, delivered)
  <2>1. /\ o \in Known /\ Owner[o] = r /\ Owner[o] \notin Settled
        /\ PlannedSlot[o] \in Nat /\ PlannedSlot[o] < slot /\ slot \in Nat
    BY <1>1, PlansFit, RunParts, SlotTimes
  <2>2. o \notin due
    BY <2>1
  <2>3. o \in delivered
    BY <1>2, <2>1, <2>2, RunParts DEF WorkAccounted
  <2> QED BY <2>1, <2>3 DEF OwnedBy
<1>4. /\ Cardinality(dags[r] \cap Terminal) <= Cardinality(OwnedBy(r, delivered))
      /\ Cardinality(dags[r] \cap Terminal) \in Nat /\ Cardinality(OwnedBy(r, delivered)) \in Nat
  <2>1. IsFiniteSet(OwnedBy(r, delivered))
    <3>1. OwnedBy(r, delivered) \subseteq Op
      BY RunParts DEF OwnedBy, PairsAccounted, TypeOK
    <3> QED BY <3>1, FS_Subset, ParameterAssumption
  <2>2. IsFiniteSet(dags[r] \cap Terminal)
    BY <1>3, <2>1, FS_Subset
  <2> QED BY <1>3, <2>1, <2>2, FS_Subset, FS_CardinalityType
<1>5. Cardinality(dags[r] \cap Terminal) = DemandPairs[r]
  BY <1>1, PlansFit DEF Schedulable
<1>6. ~Enough(r, delivered)
  BY RunParts DEF PairsAccounted
<1> QED BY <1>4, <1>5, <1>6 DEF Enough

\* A delivery comes after the arrival: nothing is launched before its slot.
LEMMA DeliveryTimely ==
  ASSUME RunSound, NEW o \in succeeded, o \in Op, now <= Deadline[Owner[o]] * SlotLength
  PROVE  Timely(Owner[o], now)
<1> DEFINE r == Owner[o]
<1>1. o \in Known /\ r \in Request /\ o \in dags[r] /\ PlannedSlot[o] <= slot
  <2>1. o \in completed /\ o \in Known
    BY RunParts DEF PairsAccounted, MarkersMatchExecution
  <2> QED BY <2>1, KnownOwned, RunParts DEF NothingEarly
<1>2. Arrival[r] <= PlannedSlot[o] /\ PlannedSlot[o] \in Nat
  BY <1>1, PlansFit DEF Schedulable
<1>3. /\ slot \in Nat /\ now \in 0 .. Horizon /\ Horizon \in Nat /\ slot * SlotLength <= now
      /\ SlotLength \in Nat /\ slot * SlotLength \in Nat
  BY RunParts, SlotTimes DEF BatchClock
<1>4. /\ Arrival[r] \in Nat /\ ArrivalTime(r) \in Nat /\ Deadline[r] * SlotLength \in Nat
  BY <1>1, ArrivalInside
<1>5. Arrival[r] * SlotLength <= slot * SlotLength
  <2>1. \A a, b, c \in Nat : a <= b => a * c <= b * c
    OBVIOUS
  <2>2. Arrival[r] <= slot
    BY <1>1, <1>2, <1>3, <1>4
  <2> QED BY <1>3, <1>4, <2>1, <2>2
<1>6. ArrivalTime(r) <= now
  BY <1>3, <1>4, <1>5 DEF ArrivalTime
<1> QED BY <1>3, <1>4, <1>6 DEF Timely, Least2, Greatest2

\* The settlements of a step: only open requests, and in time.
Settling ==
  /\ settledAt' \in [Request -> Nat]
  /\ \A r \in Request : \/ settledAt'[r] = settledAt[r]
                        \/ r \notin Settled /\ Timely(r, settledAt'[r])

LEMMA FailuresSettle ==
  ASSUME RunSound, NEW R, NEW t \in 0 .. Horizon, settledAt' = FailedBy(R, t)
  PROVE  Settling /\ \A r \in R \cap Request : settledAt'[r] # Never
<1>1. \A r \in Request : Timely(r, FailureTime(r, t)) /\ FailureTime(r, t) # Never /\ FailureTime(r, t) \in Nat
  BY FailuresAreTimely, TimelyIsATime DEF Timely
<1>2. settledAt \in [Request -> Nat]
  BY RunParts DEF BatchTypeOK
<1>3. settledAt' = [r \in Request |-> IF r \in R \ Settled THEN FailureTime(r, t) ELSE settledAt[r]]
  BY DEF FailedBy
<1>4. settledAt' \in [Request -> Nat]
  BY <1>1, <1>2, <1>3
<1>5. ASSUME NEW r \in Request
      PROVE  \/ settledAt'[r] = settledAt[r]
             \/ r \notin Settled /\ Timely(r, settledAt'[r])
  BY <1>1, <1>3
<1>6. ASSUME NEW r \in R \cap Request PROVE settledAt'[r] # Never
  BY <1>1, <1>3 DEF Settled
<1> QED BY <1>4, <1>5, <1>6 DEF Settling

\* What a step does to the settlements: nothing, it fails some requests, or it
\* delivers a pair to an open request.
Failing ==
  /\ \E R : \E t \in 0 .. Horizon : settledAt' = FailedBy(R, t)
  /\ UNCHANGED <<served, delivered>>

Delivering(o) ==
  LET r == Owner[o]
  IN  /\ o \in succeeded /\ o \in Terminal /\ r \notin Settled
      /\ at = "processing"
      /\ now <= Deadline[r] * SlotLength
      /\ delivered' = delivered \cup {o}
      /\ \/ /\ Enough(r, delivered')
            /\ settledAt' = [settledAt EXCEPT ![r] = now]
            /\ served' = served \cup {r}
         \/ ~Enough(r, delivered') /\ UNCHANGED <<settledAt, served>>

TableStep ==
  \/ UNCHANGED <<settledAt, served, delivered>>
  \/ Failing
  \/ \E o \in Op : Delivering(o)

\* At the horizon nothing is left but failures.
LEMMA ConcludeFails ==
  ASSUME RunSound, Conclude
  PROVE  settledAt' = FailedBy({Owner[o] : o \in due}, Horizon) /\ \A r \in Request : settledAt'[r] # Never
<1> DEFINE late == {Owner[o] : o \in due}
           F == FailedBy(late, Horizon)
<1>1. Horizon \in 0 .. Horizon /\ at = "opening" /\ slot = HorizonSlots
  BY ExecutorAssumption DEF Conclude
<1>2. \A r \in Request : FailureTime(r, Horizon) # Never
  BY <1>1, FailuresAreTimely, TimelyIsATime
<1>3. \A r \in Request : r \in late \/ r \in Settled
  BY <1>1, NothingLeftOpen
<1>4. \A r \in Request : F[r] # Never
  BY <1>2, <1>3 DEF FailedBy, Settled
<1>5. settledAt' = [r \in Request |-> IF F[r] = Never THEN Horizon ELSE F[r]]
  BY DEF Conclude
<1>6. F = [r \in Request |-> F[r]]
  BY DEF FailedBy
<1> HIDE DEF F
<1>7. settledAt' = F
  BY <1>4, <1>5, <1>6
<1> QED BY <1>4, <1>7 DEF F

LEMMA RunTables == RunSound /\ [BatchNext]_batchVars => TableStep
<1> SUFFICES ASSUME RunSound, [BatchNext]_batchVars PROVE TableStep
  OBVIOUS
<1> USE DEF TableStep
<1>1. now \in 0 .. Horizon
  BY RunParts, SlotTimes
<1>2. CASE OpenSlot \/ LaunchDue \/ AdvanceOnce \/ WaitOnce
  BY <1>2 DEF OpenSlot, LaunchDue, AdvanceOnce, WaitOnce
<1>3. CASE ExecutorStep \/ ExecutorReturns \/ EndProcessing \/ CloseSlot \/ Over \/ UNCHANGED batchVars
  BY <1>3 DEF ExecutorStep, ExecutorReturns, EndProcessing, CloseSlot, Over, batchVars, tableVars
<1>4. CASE RejectDue
  BY <1>1, <1>4 DEF RejectDue, SettleFailures, Failing
<1>5. ASSUME NEW o \in Op, ProcessSuccess(o) PROVE TableStep
  <2>1. CASE Deliver(o) /\ Owner[o] \notin Settled /\ o \in Terminal
    BY <1>5, <2>1 DEF ProcessSuccess, Deliver, Delivering
  <2>2. CASE SettleFailures({Owner[o]}, now) /\ UNCHANGED delivered
    BY <1>1, <2>2 DEF SettleFailures, Failing
  <2> QED BY <1>5, <2>1, <2>2 DEF ProcessSuccess
<1>6. ASSUME NEW o \in Op, ProcessFailure(o) PROVE TableStep
  BY <1>1, <1>6 DEF ProcessFailure, SettleFailures, Failing
<1>7. CASE Conclude
  <2>1. Horizon \in 0 .. Horizon
    BY ExecutorAssumption
  <2> QED BY <1>7, <2>1, ConcludeFails DEF Conclude, Failing
<1> QED BY <1>2, <1>3, <1>4, <1>5, <1>6, <1>7 DEF BatchNext, Step

LEMMA RunSettles ==
  ASSUME RunSound, TableStep
  PROVE  Settling
<1>1. CASE UNCHANGED settledAt
  BY <1>1, RunParts DEF Settling, BatchTypeOK
<1>2. CASE Failing
  BY <1>2, FailuresSettle DEF Failing
<1>3. ASSUME NEW o \in Op, Delivering(o) PROVE Settling
  <2>1. CASE settledAt' = [settledAt EXCEPT ![Owner[o]] = now]
    <3>1. Timely(Owner[o], now) /\ Owner[o] \notin Settled
      BY <1>3, DeliveryTimely DEF Delivering
    <3>2. now \in Nat /\ settledAt \in [Request -> Nat]
      BY RunParts, SlotTimes DEF BatchTypeOK
    <3> QED BY <2>1, <3>1, <3>2 DEF Settling
  <2> QED BY <1>1, <1>3, <2>1 DEF Delivering
<1> QED BY <1>1, <1>2, <1>3 DEF TableStep

LEMMA SettledGrows ==
  ASSUME Settling, NEW r \in Settled
  PROVE  r \in Settled' /\ settledAt'[r] = settledAt[r]
<1>1. settledAt'[r] = settledAt[r] /\ r \in Request
  BY DEF Settling, Settled
<1> QED BY <1>1 DEF Settled, Never

\* A settled request keeps its settlement, and its verdict.
SettlementKept == \A r \in Settled : settledAt'[r] = settledAt[r] /\ (r \in served') = (r \in served)

LEMMA SettlementsKept ==
  ASSUME RunSound, TableStep
  PROVE  SettlementKept
<1>1. \A r \in Settled : settledAt'[r] = settledAt[r]
  BY RunSettles, SettledGrows
<1>2. CASE UNCHANGED served
  BY <1>1, <1>2 DEF SettlementKept
<1>3. ASSUME NEW o \in Op, served' = served \cup {Owner[o]}, Owner[o] \notin Settled PROVE SettlementKept
  BY <1>1, <1>3 DEF SettlementKept
<1> QED BY <1>2, <1>3 DEF TableStep, Failing, Delivering

-----------------------------------------------------------------------------
(* Plans, work and deliveries                                              *)

\* Outside a call the run leaves markers and operations in flight alone, but
\* for a launch.
Between == UNCHANGED <<dags, completed, started, dead, pending, todo, phase>>

LEMMA GivingBackBetween == GivesBack \/ UNCHANGED vars => Between
BY DEF Between, GivesBack, vars, dagVars, markVars, runVars, callVars

LEMMA StepsBetween ==
  ASSUME RunSound,
         \/ OpenSlot \/ RejectDue \/ EndProcessing \/ CloseSlot \/ Conclude \/ Over
         \/ \E o \in Op : ProcessSuccess(o) \/ ProcessFailure(o)
         \/ UNCHANGED batchVars
  PROVE  Between
<1>1. CASE OpenSlot \/ CloseSlot \/ Over \/ UNCHANGED batchVars
  BY <1>1, GivingBackBetween DEF OpenSlot, CloseSlot, Over, batchVars
<1>2. CASE RejectDue
  BY <1>2 DEF RejectDue, SettleFailures, Between, dagVars, markVars, runVars, callVars
<1>3. CASE EndProcessing \/ Conclude
  BY <1>3 DEF EndProcessing, Conclude, Between, dagVars, markVars, runVars, callVars
<1>4. ASSUME NEW o \in Op, ProcessSuccess(o) PROVE Between
  <2>1. CASE ReleaseRequest(Owner[o]) \/ UNCHANGED vars
    BY <2>1 DEF ReleaseRequest, Between, vars, dagVars, markVars, runVars, callVars
  <2>2. CASE SettleFailures({Owner[o]}, now)
    BY <2>2 DEF SettleFailures, Between, dagVars, markVars, runVars, callVars
  <2> QED BY <1>4, <2>1, <2>2 DEF ProcessSuccess, Deliver
<1>5. ASSUME NEW o \in Op, ProcessFailure(o) PROVE Between
  BY <1>5 DEF ProcessFailure, SettleFailures, Between, dagVars, markVars, runVars, callVars
<1> QED BY <1>1, <1>2, <1>3, <1>4, <1>5

\* What a launch puts in flight was due, and open.
LEMMA LaunchedWasDue ==
  ASSUME RunSound, LaunchDue
  PROVE  /\ ReadyBatch \subseteq LiveDue
         /\ UNCHANGED <<dags, completed, dead, todo, phase, now, terminated>>
         /\ started' = started \cup ReadyBatch /\ pending' = pending \cup ReadyBatch
         /\ segs' = segs
<1>1. ReadyBatch \subseteq LiveDue
  BY RunParts, ReadyAllowed DEF ReadyBatch
<1>2. /\ Idle /\ Refresh(segs, expired, expiry, now)
      /\ UNCHANGED <<dags, completed, dead, todo, phase, now, terminated>>
      /\ started' = started \cup ReadyBatch /\ pending' = pending \cup ReadyBatch
  BY DEF LaunchDue, Launch, dagVars, callVars
<1>3. owned \subseteq owned'
  BY DEF LaunchDue, Launch
<1>4. segs' = segs
  BY <1>2, NothingStale DEF RunSound, Inductive
<1> QED BY <1>1, <1>2, <1>4

\* What a call does to the markers.
LEMMA CallsMark ==
  ASSUME RunSound, AdvanceOnce \/ WaitOnce \/ ExecutorReturns
  PROVE  UNCHANGED <<dags, completed, started, dead, pending>>
BY DEF AdvanceOnce, WaitOnce, ExecutorReturns, Advance, WaitUntil, Settle, dagVars, markVars, runVars

LEMMA ExecutorMarks ==
  ASSUME RunSound, ExecutorStep
  PROVE  /\ dags' = dags /\ now' = now /\ terminated' = terminated
         /\ \/ \E o \in started : /\ started' = started \ {o}
                                  /\ \/ /\ completed' = completed \cup {o}
                                        /\ succeeded' = succeeded \cup {o}
                                        /\ UNCHANGED failed
                                     \/ /\ failed' = failed \cup {o}
                                        /\ UNCHANGED <<completed, succeeded>>
                                  /\ phase' = phase
            \/ /\ BeginTimeout
               /\ UNCHANGED <<completed, started, succeeded, failed>>
<1>1. CASE BeginTimeout /\ UNCHANGED <<succeeded, failed>>
  BY <1>1 DEF BeginTimeout, dagVars, markVars
<1>2. ASSUME NEW o \in Op, Retire(o) PROVE o \in started
  BY <1>2, RunParts DEF Retire, MarkersMatchExecution, InFlight
<1>3. ASSUME NEW o \in Op, Release(o) \/ \E life \in Lifetimes : Complete(o, life)
      PROVE  /\ o \in started /\ started' = started \ {o} /\ completed' = completed \cup {o}
             /\ UNCHANGED <<dags, now, terminated, phase>>
  BY <1>2, <1>3 DEF Release, Complete, Retire, dagVars
<1>4. ASSUME NEW o \in Op, Fail(o)
      PROVE  /\ o \in started /\ started' = started \ {o} /\ completed' = completed
             /\ UNCHANGED <<dags, now, terminated, phase>>
  BY <1>2, <1>4 DEF Fail, Retire, dagVars
<1> QED BY <1>1, <1>3, <1>4 DEF ExecutorStep

\* DAGs stay, completions stay, and a success is a completion.
LEMMA CompletionsKept ==
  ASSUME RunSound, [BatchNext]_batchVars
  PROVE  dags' = dags /\ Known' = Known /\ completed \subseteq completed' /\ succeeded' \subseteq completed'
<1>1. succeeded \subseteq completed
  BY RunParts DEF PairsAccounted
<1>2. CASE \/ OpenSlot \/ RejectDue \/ EndProcessing \/ CloseSlot \/ Conclude \/ Over
           \/ \E o \in Op : ProcessSuccess(o) \/ ProcessFailure(o)
           \/ UNCHANGED batchVars
  <2>1. succeeded' \subseteq succeeded
    BY <1>2 DEF OpenSlot, RejectDue, EndProcessing, CloseSlot, Conclude, Over, ProcessSuccess, ProcessFailure,
                batchVars, eventVars
  <2> QED BY <1>1, <1>2, <2>1, StepsBetween DEF Between, Known
<1>3. CASE LaunchDue
  BY <1>1, <1>3, LaunchedWasDue DEF LaunchDue, eventVars, Known
<1>4. CASE AdvanceOnce \/ WaitOnce \/ ExecutorReturns
  BY <1>1, <1>4, CallsMark DEF AdvanceOnce, WaitOnce, ExecutorReturns, eventVars, Known
<1>5. CASE ExecutorStep
  BY <1>1, <1>5, ExecutorMarks DEF Known
<1> QED BY <1>2, <1>3, <1>4, <1>5 DEF BatchNext, Step

\* Every delivered pair was completed; a request is served exactly by enough.
LEMMA PairsStep ==
  ASSUME RunSound, TableStep, [BatchNext]_batchVars
  PROVE  PairsAccounted'
<1>1. /\ succeeded \cup delivered \subseteq completed /\ delivered \subseteq Terminal
      /\ \A r \in Request : r \in served => r \in Settled /\ Enough(r, delivered)
      /\ \A r \in Request \ Settled : ~Enough(r, delivered)
  BY RunParts DEF PairsAccounted
<1>2. completed \subseteq completed' /\ succeeded' \subseteq completed'
  BY CompletionsKept
<1>3. \A r \in Settled : r \in Settled' /\ r \in Request
  BY RunSettles, SettledGrows DEF Settled
<1> SUFFICES /\ delivered' \subseteq completed' /\ delivered' \subseteq Terminal
             /\ \A r \in Request : r \in served' => r \in Settled' /\ Enough(r, delivered')
             /\ \A r \in Request \ Settled' : ~Enough(r, delivered')
  BY <1>2 DEF PairsAccounted, Enough
<1>4. CASE UNCHANGED <<served, delivered>>
  BY <1>1, <1>2, <1>3, <1>4
<1>5. ASSUME NEW o \in Op, Delivering(o)
      PROVE  /\ delivered' \subseteq completed' /\ delivered' \subseteq Terminal
             /\ \A r \in Request : r \in served' => r \in Settled' /\ Enough(r, delivered')
             /\ \A r \in Request \ Settled' : ~Enough(r, delivered')
  <2>1. delivered' \subseteq completed' /\ delivered' \subseteq Terminal
    BY <1>1, <1>2, <1>5 DEF Delivering
  <2>2. \A r \in Request : r # Owner[o] => (Enough(r, delivered') <=> Enough(r, delivered))
    <3>1. \A r \in Request : r # Owner[o] => OwnedBy(r, delivered') = OwnedBy(r, delivered)
      BY <1>5 DEF Delivering, OwnedBy
    <3> QED BY <3>1 DEF Enough
  <2>3. Owner[o] \notin served
    BY <1>1, <1>5, OperationAssumption DEF Delivering
  <2>4. CASE Enough(Owner[o], delivered') /\ settledAt' = [settledAt EXCEPT ![Owner[o]] = now]
             /\ served' = served \cup {Owner[o]}
    <3>1. Owner[o] \in Settled'
      <4>1. settledAt'[Owner[o]] = now /\ Timely(Owner[o], now) /\ Owner[o] \in Request
        BY <1>5, <2>4, DeliveryTimely, RunParts, OperationAssumption DEF Delivering, BatchTypeOK
      <4> QED BY <4>1, TimelyIsATime DEF Settled, Never
    <3> QED BY <1>1, <1>3, <2>1, <2>2, <2>4, <3>1
  <2>5. CASE ~Enough(Owner[o], delivered') /\ UNCHANGED <<settledAt, served>>
    BY <1>1, <1>3, <2>1, <2>2, <2>3, <2>5
  <2> QED BY <1>5, <2>4, <2>5 DEF Delivering
<1> QED BY <1>4, <1>5 DEF TableStep, Failing

\* A settlement is timely when it is made and never changes; a served request
\* was delivered the terminal pairs of its plan, which are those it demanded.
LEMMA SettlementsStep ==
  ASSUME RunSound, TableStep, [BatchNext]_batchVars
  PROVE  SettlementsSound'
<1> DEFINE Bounded(t, r) == /\ t >= ArrivalTime(r)
                            /\ t <= Least2(Horizon, Greatest2(ArrivalTime(r), Deadline[r] * SlotLength))
<1> SUFFICES ASSUME NEW r \in Settled'
             PROVE  /\ Bounded(settledAt'[r], r)
                    /\ r \in served' =>
                         Cardinality(OwnedBy(r, delivered' \cap completed')) = DemandPairs[r]
  BY DEF SettlementsSound, ArrivalTime, Least2, Greatest2, OwnedBy
<1>1. r \in Request /\ ArrivalTime(r) \in Nat
  BY ArrivalInside DEF Settled
<1>2. ASSUME settledAt'[r] = settledAt[r] PROVE Bounded(settledAt'[r], r)
  <2>1. r \in Settled /\ settledAt[r] \in Nat
    BY <1>1, <1>2, RunParts DEF Settled, BatchTypeOK, Never
  <2> QED BY <1>2, <2>1, RunParts DEF SettlementsSound
<1>3. ASSUME Timely(r, settledAt'[r]) PROVE Bounded(settledAt'[r], r)
  BY <1>1, <1>3 DEF Timely
<1>4. ASSUME r \in served' PROVE Cardinality(OwnedBy(r, delivered' \cap completed')) = DemandPairs[r]
  <2> DEFINE D == OwnedBy(r, delivered')
  <2>1. /\ delivered' \subseteq completed' /\ delivered' \subseteq Terminal /\ Enough(r, delivered')
    BY <1>1, <1>4, PairsStep DEF PairsAccounted, Enough
  <2>2. D \subseteq dags[r] \cap Terminal
    <3>1. RegistrySound'
      BY RunParts, RunDrivesExecutor, InductiveStep, InductiveGiven DEF RunSound, Inductive
    <3>2. D \subseteq Known' /\ \A o \in D : Owner[o] = r
      BY <2>1, <3>1 DEF RegistrySound, MarkersMatchExecution, OwnedBy
    <3>3. Known' = Known
      BY CompletionsKept
    <3> QED BY <2>1, <3>2, <3>3, KnownOwned DEF OwnedBy
  <2>3. /\ IsFiniteSet(D) /\ Cardinality(D) \in Nat /\ IsFiniteSet(dags[r] \cap Terminal)
        /\ Cardinality(D) <= Cardinality(dags[r] \cap Terminal)
        /\ Cardinality(dags[r] \cap Terminal) \in Nat
    <3>1. dags[r] \cap Terminal \subseteq Op
      BY <1>1, RunParts DEF TypeOK
    <3>2. IsFiniteSet(dags[r] \cap Terminal)
      BY <3>1, FS_Subset, ParameterAssumption
    <3> QED BY <2>2, <3>2, FS_Subset, FS_CardinalityType
  <2>4. Cardinality(D) >= DemandPairs[r] /\ DemandPairs[r] \in Nat /\ DemandPairs[r] > 0
    BY <1>1, <2>1, BatchAssumption DEF Enough
  <2>5. dags[r] # {}
    <3>1. D # {}
      BY <2>4, FS_EmptySet
    <3> QED BY <2>2, <3>1
  <2>6. Cardinality(dags[r] \cap Terminal) = DemandPairs[r]
    BY <1>1, <2>5, PlansFit DEF Schedulable
  <2>7. OwnedBy(r, delivered' \cap completed') = D
    BY <2>1 DEF OwnedBy
  <2> QED BY <2>3, <2>4, <2>6, <2>7
<1>5. Settling
  BY RunSettles
<1> HIDE DEF Bounded
<1> QED BY <1>1, <1>2, <1>3, <1>4, <1>5 DEF Settling

\* The plans stay, and work is due, launched or done only once its slot has come.
LEMMA EarlyStep ==
  ASSUME RunSound, [BatchNext]_batchVars
  PROVE  NothingEarly'
<1>1. dags' = dags /\ Known' = Known
  BY CompletionsKept
<1>2. /\ \A r \in Request : dags[r] \in Plans[r] \cup {{}}
      /\ due \subseteq Known
      /\ \A o \in due \cup completed \cup started : PlannedSlot[o] <= slot
  BY RunParts DEF NothingEarly
<1>3. slot \in Nat
  BY RunParts, SlotTimes
<1> SUFFICES /\ due' \subseteq Known
             /\ \A o \in due' \cup completed' \cup started' : PlannedSlot[o] <= slot'
  BY <1>1, <1>2 DEF NothingEarly
<1>4. CASE OpenSlot
  <2>1. Between /\ slot' = slot /\ due' = due \cup {o \in Known : PlannedSlot[o] = slot /\ Owner[o] \notin Settled}
    BY <1>4, StepsBetween DEF OpenSlot
  <2> QED BY <1>2, <1>3, <2>1 DEF Between
<1>5. CASE LaunchDue
  <2>1. /\ due' = LiveDue \ ReadyBatch /\ completed' = completed /\ slot' = slot
        /\ started' = started \cup ReadyBatch /\ ReadyBatch \subseteq LiveDue
    BY <1>5, LaunchedWasDue DEF LaunchDue
  <2> QED BY <1>2, <2>1 DEF LiveDue
<1>6. CASE AdvanceOnce \/ WaitOnce \/ ExecutorReturns
  <2>1. due' \subseteq due /\ UNCHANGED <<completed, started, slot>>
    BY <1>6, CallsMark DEF AdvanceOnce, WaitOnce, ExecutorReturns, LiveDue, tableVars
  <2> QED BY <1>2, <2>1
<1>7. CASE ExecutorStep
  <2>1. due' = due /\ slot' = slot
    BY <1>7 DEF ExecutorStep, tableVars
  <2>2. completed' \cup started' \subseteq completed \cup started
    BY <1>7, ExecutorMarks
  <2> QED BY <1>2, <2>1, <2>2
<1>8. CASE RejectDue \/ EndProcessing \/ Conclude \/ Over \/ UNCHANGED batchVars
  <2>1. due' \subseteq due /\ slot' = slot /\ Between
    BY <1>8, StepsBetween DEF RejectDue, EndProcessing, Conclude, Over, LiveDue, batchVars, tableVars
  <2> QED BY <1>2, <2>1 DEF Between
<1>9. ASSUME NEW o \in Op, ProcessSuccess(o) \/ ProcessFailure(o)
      PROVE  /\ due' \subseteq Known
             /\ \A p \in due' \cup completed' \cup started' : PlannedSlot[p] <= slot'
  <2>1. due' = due /\ slot' = slot /\ Between
    BY <1>9, StepsBetween DEF ProcessSuccess, ProcessFailure
  <2> QED BY <1>2, <2>1 DEF Between
<1>10. CASE CloseSlot
  <2>1. due' = due /\ slot' = slot + 1 /\ Between
    BY <1>10, StepsBetween DEF CloseSlot
  <2>2. \A o \in due \cup completed \cup started : PlannedSlot[o] \in Nat
    BY <1>2, KnownOwned, RunParts, BatchAssumption DEF MarkersMatchExecution
  <2> QED BY <1>2, <1>3, <2>1, <2>2 DEF Between
<1> QED BY <1>4, <1>5, <1>6, <1>7, <1>8, <1>9, <1>10 DEF BatchNext, Step

\* No operation of an open request is lost from sight: it waits for its slot,
\* is due or in flight, or its outcome waits to be processed or was processed.
LEMMA WorkStep ==
  ASSUME RunSound, TableStep, [BatchNext]_batchVars
  PROVE  WorkAccounted'
<1> DEFINE Placed(o) ==
             \/ PlannedSlot[o] > slot
             \/ PlannedSlot[o] = slot /\ at = "opening"
             \/ o \in due \cup started \cup failed
             \/ o \in completed /\ (o \in Terminal => o \in succeeded \cup delivered)
<1>1. dags' = dags /\ Known' = Known /\ Registered' = Registered
  BY CompletionsKept DEF Registered
<1>2. \A r \in Request \ Settled' : r \in Request \ Settled
  BY RunSettles, SettledGrows
<1> SUFFICES ASSUME NEW o \in Known, Owner[o] \notin Settled'
             PROVE  Placed(o)'
  BY <1>1, <1>2, RunParts DEF WorkAccounted
<1>3. o \in Op /\ Owner[o] \in Request /\ Owner[o] \notin Settled /\ Placed(o)
  BY <1>2, KnownOwned, RunParts DEF WorkAccounted
<1>4. slot \in Nat /\ PlannedSlot[o] \in Nat /\ now \in 0 .. Horizon
  BY <1>3, BatchAssumption, RunParts, SlotTimes
<1>5. ASSUME NEW R, NEW t \in 0 .. Horizon, settledAt' = FailedBy(R, t) PROVE Owner[o] \notin R
  <2>1. \A r \in R \cap Request : settledAt'[r] # Never
    BY <1>5, FailuresSettle
  <2> QED BY <1>3, <2>1 DEF Settled, Never
<1>6. CASE OpenSlot
  <2>1. Between /\ UNCHANGED <<slot, failed, succeeded, delivered>>
        /\ due' = due \cup {p \in Known : PlannedSlot[p] = slot /\ Owner[p] \notin Settled}
    BY <1>6, StepsBetween DEF OpenSlot, eventVars
  <2> QED BY <1>3, <1>4, <2>1 DEF Between
<1>7. CASE LaunchDue
  <2>1. /\ due' = LiveDue \ ReadyBatch /\ started' = started \cup ReadyBatch
        /\ UNCHANGED <<completed, slot, at, failed, succeeded, delivered>>
    BY <1>7, LaunchedWasDue DEF LaunchDue, eventVars
  <2> QED BY <1>3, <2>1 DEF LiveDue
<1>8. CASE AdvanceOnce
  <2>1. due' = LiveDue /\ UNCHANGED <<completed, started, slot, failed, succeeded, delivered>> /\ at = "running"
    BY <1>8, CallsMark DEF AdvanceOnce, Running, eventVars
  <2> QED BY <1>3, <2>1 DEF LiveDue
<1>9. CASE WaitOnce \/ ExecutorReturns
  <2>1. UNCHANGED <<completed, started, slot, failed, succeeded, delivered>> /\ at # "opening"
        /\ LiveDue \subseteq due'
    BY <1>9, CallsMark DEF WaitOnce, ExecutorReturns, Running, LiveDue, tableVars
  <2> QED BY <1>3, <2>1 DEF LiveDue
<1>10. CASE ExecutorStep
  <2>1. UNCHANGED <<due, delivered, slot, at>>
    BY <1>10 DEF ExecutorStep, tableVars
  <2>2. started \ started' \subseteq (completed' \cap succeeded') \cup failed'
        /\ completed \subseteq completed' /\ succeeded \subseteq succeeded' /\ failed \subseteq failed'
    BY <1>10, ExecutorMarks
  <2> QED BY <1>3, <2>1, <2>2
<1>11. CASE RejectDue
  <2>1. settledAt' = FailedBy({Owner[p] : p \in LiveDue}, now) /\ at = "running"
    BY <1>11 DEF RejectDue, SettleFailures, Running
  <2>2. o \notin due
    BY <1>3, <1>4, <1>5, <2>1 DEF LiveDue
  <2>3. Between /\ UNCHANGED <<slot, at, failed, succeeded, delivered>>
    BY <1>11, StepsBetween DEF RejectDue, eventVars
  <2> QED BY <1>3, <2>1, <2>2, <2>3 DEF Between
<1>12. ASSUME NEW p \in Op, ProcessSuccess(p) PROVE Placed(o)'
  <2>1. Between /\ UNCHANGED <<due, slot, at, failed>> /\ succeeded' = succeeded \ {p}
    BY <1>12, StepsBetween DEF ProcessSuccess
  <2>2. o # p \/ o \notin Terminal \/ o \in delivered'
    <3>1. CASE SettleFailures({Owner[p]}, now)
      BY <1>4, <1>5, <3>1 DEF SettleFailures
    <3> QED BY <1>3, <1>12, <3>1 DEF ProcessSuccess, Deliver
  <2>3. delivered \subseteq delivered'
    BY <1>12 DEF ProcessSuccess, Deliver
  <2> QED BY <1>3, <2>1, <2>2, <2>3 DEF Between
<1>13. ASSUME NEW p \in Op, ProcessFailure(p) PROVE Placed(o)'
  <2>1. Between /\ UNCHANGED <<due, slot, at, succeeded, delivered>> /\ failed \ {p} \subseteq failed'
    BY <1>13, StepsBetween DEF ProcessFailure
  <2>2. Owner[o] # Owner[p]
    BY <1>4, <1>5, <1>13 DEF ProcessFailure, SettleFailures
  <2> QED BY <1>3, <2>1, <2>2 DEF Between
<1>14. CASE CloseSlot
  <2>1. Between /\ UNCHANGED <<due, failed, succeeded, delivered>> /\ slot' = slot + 1 /\ at' = "opening"
        /\ at # "opening"
    BY <1>14, StepsBetween DEF CloseSlot, eventVars
  <2> QED BY <1>3, <1>4, <2>1 DEF Between
<1>15. CASE Conclude
  BY <1>3, <1>15, ConcludeFails DEF Settled, Never
<1>16. CASE EndProcessing \/ Over \/ UNCHANGED batchVars
  <2>1. Between /\ UNCHANGED <<due, slot, failed, succeeded, delivered>> /\ (at = "opening" => at' = "opening")
    BY <1>16, StepsBetween DEF EndProcessing, Over, batchVars, tableVars, eventVars
  <2> QED BY <1>3, <2>1 DEF Between
<1> QED BY <1>6, <1>7, <1>8, <1>9, <1>10, <1>11, <1>12, <1>13, <1>14, <1>15, <1>16 DEF BatchNext, Step

-----------------------------------------------------------------------------
(* Memory and reports                                                      *)

\* When the next launch is chosen, the segments of every settled request have
\* been given back, but for the inputs of running protocols; at the end all.
LEMMA QuietStep ==
  ASSUME RunSound, TableStep, [BatchNext]_batchVars
  PROVE  SettledIsQuiet'
<1> DEFINE Quiet == \A s \in segs : Owner[s] \in Settled => s \in Inputs(pending)
<1>1. /\ at \in {"opening", "running", "done"} => Quiet
      /\ at = "done" => segs = {} /\ pending = {}
  BY RunParts DEF SettledIsQuiet
<1>2. ASSUME NEW R, NEW t \in 0 .. Horizon, settledAt' = FailedBy(R, t) PROVE Settled' \subseteq Settled \cup R
  BY <1>2 DEF Settled, FailedBy, Never
<1>3. at # "closing" /\ now \in 0 .. Horizon /\ Horizon \in 0 .. Horizon
  BY RunParts, SlotTimes, ExecutorAssumption DEF BatchPlace
<1> SUFFICES /\ at' \in {"opening", "running", "done"} => Quiet'
             /\ at' = "done" => segs' = {} /\ pending' = {}
  BY DEF SettledIsQuiet
<1>4. CASE OpenSlot \/ CloseSlot
  <2>1. UNCHANGED <<segs, pending, settledAt>> /\ at \in {"opening", "running"} /\ at' # "done"
    BY <1>3, <1>4 DEF OpenSlot, CloseSlot, vars, pairVars, runVars
  <2> QED BY <1>1, <2>1 DEF Settled, Never
<1>5. CASE LaunchDue
  <2>1. UNCHANGED <<segs, settledAt, at>> /\ pending \subseteq pending' /\ at = "running"
    BY <1>5, LaunchedWasDue DEF LaunchDue, Running
  <2> QED BY <1>1, <2>1 DEF Settled, Never, Inputs
<1>6. CASE AdvanceOnce \/ WaitOnce \/ ExecutorStep \/ ExecutorReturns
  BY <1>6 DEF AdvanceOnce, WaitOnce, ExecutorStep, ExecutorReturns, Receive
<1>7. CASE RejectDue
  <2> DEFINE R == {Owner[o] : o \in LiveDue}
  <2>1. /\ settledAt' = FailedBy(R, now) /\ at' = at /\ at = "running" /\ pending' = pending
        /\ segs' = segs \ ({s \in segs : Owner[s] \in R \ Settled} \ Inputs(pending))
    BY <1>7 DEF RejectDue, Running, SettleFailures, GiveBack, Discard, runVars
  <2>2. Settled' \subseteq Settled \cup R
    BY <1>2, <1>3, <2>1
  <2> HIDE DEF R
  <2> QED BY <1>1, <2>1, <2>2
<1>8. ASSUME NEW o \in Op, ProcessSuccess(o) \/ ProcessFailure(o)
      PROVE  at' \notin {"opening", "running", "done"}
  BY <1>8 DEF ProcessSuccess, ProcessFailure
<1>9. CASE EndProcessing
  <2>1. /\ segs' = segs \ ({s \in segs : Owner[s] \in Settled} \ Inputs(pending))
        /\ UNCHANGED <<pending, settledAt>> /\ at' # "done"
    BY <1>9 DEF EndProcessing, GiveBack, Leaving, Discard, runVars, tableVars
  <2> QED BY <2>1 DEF Settled, Never
<1>10. CASE Conclude
  <2> DEFINE late == {Owner[o] : o \in due}
  <2>1. /\ at = "opening" /\ slot = HorizonSlots /\ pending' = pending
        /\ segs' = segs \ ({s \in segs : Owner[s] \in late \ Settled} \ Inputs(pending))
    BY <1>10 DEF Conclude, GiveBack, Discard, runVars
  <2>2. pending = {} /\ Inputs(pending) = {}
    <3>1. Idle /\ now >= Horizon
      BY <2>1, RunParts, SlotTimes DEF BatchClock, BatchPlace
    <3> QED BY <3>1, RunParts DEF BatchClock, Inputs
  <2>3. \A s \in segs : Owner[s] \notin Settled => Owner[s] \in late
    <3>1. \A s \in segs : Owner[s] \in Request
      BY RunParts, KnownOwned DEF SegmentProvenance, MarkersMatchExecution
    <3> QED BY <2>1, <3>1, NothingLeftOpen
  <2>4. segs' = {}
    <3> HIDE DEF late
    <3> QED BY <1>1, <2>1, <2>2, <2>3
  <2> QED BY <2>1, <2>2, <2>4
<1>11. CASE Over \/ UNCHANGED batchVars
  <2>1. UNCHANGED <<segs, pending, settledAt, at>>
    BY <1>11 DEF Over, batchVars, vars, pairVars, runVars, tableVars
  <2> QED BY <1>1, <2>1 DEF Settled, Never
<1> QED BY <1>4, <1>5, <1>6, <1>7, <1>8, <1>9, <1>10, <1>11 DEF BatchNext, Step

\* A slot is closed at its very end: no call stalls before it.
LEMMA ClosedAtTheEnd ==
  ASSUME RunSound, CloseSlot
  PROVE  now = SlotEnd /\ at = "running" /\ slot' = slot + 1 /\ UNCHANGED vars
<1>1. at = "running" /\ ~Running /\ slot < HorizonSlots /\ slot' = slot + 1 /\ UNCHANGED vars
  BY RunParts DEF CloseSlot, BatchPlace
<1>2. now <= SlotEnd /\ SlotEnd <= Horizon /\ now \in Nat /\ SlotEnd \in Nat /\ Horizon \in Nat
      /\ (terminated => now >= Horizon)
  BY <1>1, RunParts, SlotTimes DEF BatchClock
<1> QED BY <1>1, <1>2 DEF Running

LEMMA DelaysStep ==
  ASSUME RunSound, TableStep, [BatchNext]_batchVars
  PROVE  DelaysReported'
<1> SUFFICES ASSUME at' = "opening" PROVE DelaysReported'
  BY DEF DelaysReported
<1>1. Known' = Known /\ completed \subseteq completed'
  BY CompletionsKept
<1>2. \A o : Below(o)' = Below(o)
  BY <1>1 DEF Below, Dependencies
<1>3. CASE CloseSlot
  <2>1. /\ now = SlotEnd /\ at = "running" /\ slot' = slot + 1
        /\ UNCHANGED <<now, pending, completed, settledAt>>
    BY <1>3, ClosedAtTheEnd DEF CloseSlot, vars, runVars, markVars
  <2>2. now' = slot' * SlotLength
    BY <2>1 DEF SlotEnd
  <2>3. slot \in Nat /\ InFlight = pending /\ succeeded = {} /\ failed = {}
    BY <2>1, RunParts, SlotTimes, IdleInFlight DEF BatchPlace
  <2> SUFFICES ASSUME NEW o \in Known, PlannedSlot[o] < slot', Owner[o] \notin Settled, o \notin completed
               PROVE  \/ \E code \in {"slot_launch_overrun", "slot_completion_overrun"} : <<code, o>> \in violations'
                      \/ \E p \in Below(o) \cap pending : <<"slot_completion_overrun", p>> \in violations'
    BY <1>1, <1>2, <2>1, <2>2 DEF DelaysReported, Settled, Never
  <2>4. \A p \in pending : <<"slot_completion_overrun", p>> \in violations'
    <3>1. \A p \in pending : PlannedSlot[p] <= slot
      BY <2>3, RunParts DEF NothingEarly, MarkersMatchExecution
    <3> QED BY <1>3, <3>1 DEF CloseSlot
  <2>5. o \in due \/ o \in pending
    <3>1. PlannedSlot[o] \in Nat /\ PlannedSlot[o] <= slot
      BY <2>1, <2>3, KnownOwned, BatchAssumption
    <3> QED BY <2>1, <2>3, <3>1, RunParts DEF WorkAccounted, MarkersMatchExecution
  <2>6. CASE o \in due
    <3>1. CASE DependencyBlocked(o)
      BY <2>4, <3>1 DEF DependencyBlocked
    <3>2. CASE ~DependencyBlocked(o)
      BY <1>3, <2>6, <3>2 DEF CloseSlot
    <3> QED BY <3>1, <3>2
  <2> QED BY <2>4, <2>5, <2>6
<1>4. CASE Over \/ UNCHANGED batchVars
  <2>1. UNCHANGED <<at, now, slot, pending, completed, settledAt, violations>>
    BY <1>4 DEF Over, batchVars, vars, markVars, runVars, tableVars
  <2> QED BY <1>1, <1>2, <2>1, RunParts DEF DelaysReported, Settled, Never
<1>5. CASE OpenSlot \/ LaunchDue \/ AdvanceOnce \/ RejectDue \/ WaitOnce
  BY <1>5 DEF OpenSlot, LaunchDue, AdvanceOnce, RejectDue, WaitOnce, Running, Receive
<1>6. CASE ExecutorStep \/ ExecutorReturns \/ EndProcessing \/ Conclude
  BY <1>6 DEF ExecutorStep, ExecutorReturns, EndProcessing, Conclude, Receive
<1>7. ASSUME NEW o \in Op, ProcessSuccess(o) \/ ProcessFailure(o) PROVE FALSE
  BY <1>7 DEF ProcessSuccess, ProcessFailure
<1> QED BY <1>3, <1>4, <1>5, <1>6, <1>7 DEF BatchNext, Step

-----------------------------------------------------------------------------
(* The loop                                                                *)

LEMMA RunTypeStep ==
  ASSUME RunSound, TableStep, [BatchNext]_batchVars
  PROVE  BatchTypeOK'
<1>1. settledAt' \in [Request -> Nat]
  BY RunSettles DEF Settling
<1>2. served' \subseteq Request
  BY RunParts, OperationAssumption DEF TableStep, Failing, Delivering, BatchTypeOK
<1>3. due' \subseteq Op
  BY EarlyStep, CompletionsKept, KnownOwned DEF NothingEarly
<1> SUFFICES failed' \subseteq Op /\ lapsed' \subseteq Op
  BY <1>1, <1>2, <1>3 DEF BatchTypeOK
<1>4. failed \subseteq Op /\ lapsed \subseteq Op /\ expired \subseteq Op /\ segs \subseteq Op /\ started \subseteq Op
  BY RunParts DEF BatchTypeOK, TypeOK
<1>5. CASE ExecutorStep
  BY <1>4, <1>5, ExecutorMarks DEF ExecutorStep
<1>6. CASE WaitOnce \/ ExecutorReturns
  BY <1>4, <1>6 DEF WaitOnce, ExecutorReturns, Receive
<1>7. CASE OpenSlot \/ LaunchDue \/ AdvanceOnce \/ RejectDue \/ EndProcessing \/ CloseSlot \/ Conclude
  BY <1>4, <1>7 DEF OpenSlot, LaunchDue, AdvanceOnce, RejectDue, EndProcessing, CloseSlot, Conclude, eventVars
<1>8. ASSUME NEW o \in Op, ProcessSuccess(o) \/ ProcessFailure(o) PROVE failed' \subseteq Op /\ lapsed' \subseteq Op
  BY <1>4, <1>8 DEF ProcessSuccess, ProcessFailure
<1>9. CASE Over \/ UNCHANGED batchVars
  BY <1>4, <1>9 DEF Over, batchVars, eventVars
<1> QED BY <1>5, <1>6, <1>7, <1>8, <1>9 DEF BatchNext, Step

LEMMA RunPlaceStep ==
  ASSUME RunSound, [BatchNext]_batchVars
  PROVE  BatchPlace'
<1>1. /\ slot \in 0 .. HorizonSlots /\ HorizonSlots \in Nat
      /\ at \in {"opening", "running", "calling", "processing", "done"}
      /\ at \in {"running", "calling", "processing"} => slot < HorizonSlots
      /\ at = "calling" <=> phase # "idle"
      /\ at \notin {"calling", "processing"} => succeeded \cup failed \cup lapsed = {}
  BY RunParts, BatchAssumption DEF BatchPlace, Idle
<1> USE DEF BatchPlace, Idle
<1>2. CASE \/ OpenSlot \/ RejectDue \/ EndProcessing \/ CloseSlot \/ Conclude \/ Over
           \/ UNCHANGED batchVars
  <2>1. phase' = phase
    BY <1>2, StepsBetween DEF Between
  <2>2. CASE OpenSlot \/ RejectDue \/ Conclude
    BY <1>1, <2>1, <2>2 DEF OpenSlot, RejectDue, Running, Conclude, eventVars
  <2>3. CASE EndProcessing
    BY <1>1, <2>1, <2>3, RunParts DEF EndProcessing, BatchProgress, eventVars
  <2>4. CASE CloseSlot
    BY <1>1, <2>1, <2>4 DEF CloseSlot, eventVars
  <2>5. CASE Over \/ UNCHANGED batchVars
    BY <1>1, <2>1, <2>5 DEF Over, batchVars, eventVars
  <2> QED BY <1>2, <2>2, <2>3, <2>4, <2>5
<1>3. ASSUME NEW o \in Op, ProcessSuccess(o) \/ ProcessFailure(o) PROVE BatchPlace'
  <2>1. phase' = phase
    BY <1>3, StepsBetween DEF Between
  <2> QED BY <1>1, <1>3, <2>1 DEF ProcessSuccess, ProcessFailure
<1>4. CASE LaunchDue
  BY <1>1, <1>4, LaunchedWasDue DEF LaunchDue, eventVars
<1>5. CASE AdvanceOnce
  BY <1>1, <1>5 DEF AdvanceOnce, Running, Advance, eventVars
<1>6. CASE WaitOnce
  BY <1>1, <1>6 DEF WaitOnce, Running, WaitUntil, Receive, callVars
<1>7. CASE ExecutorReturns
  BY <1>1, <1>7 DEF ExecutorReturns, Settle, Receive
<1>8. CASE ExecutorStep
  <2>1. phase' # "idle"
    BY <1>1, <1>8, ExecutorMarks DEF ExecutorStep, BeginTimeout
  <2> QED BY <1>1, <1>8, <2>1 DEF ExecutorStep
<1> QED BY <1>2, <1>3, <1>4, <1>5, <1>6, <1>7, <1>8 DEF BatchNext, Step

LEMMA RunProgressStep ==
  ASSUME RunSound, [BatchNext]_batchVars
  PROVE  BatchProgress'
<1>1. /\ at = "calling" => moved \/ succeeded \cup failed \cup todo # {}
      /\ at = "processing" => moved
  BY RunParts DEF BatchProgress
<1> USE DEF BatchProgress
<1>2. CASE ExecutorStep
  <2>1. UNCHANGED <<at, moved>> /\ at = "calling"
    BY <1>2 DEF ExecutorStep
  <2>2. CASE BeginTimeout
    <3>1. todo' # {}
      BY <2>2 DEF BeginTimeout, TimeoutDue
    <3> QED BY <2>1, <3>1
  <2>3. CASE ~BeginTimeout
    <3>1. succeeded' \cup failed' # {}
      BY <1>2, <2>3 DEF ExecutorStep
    <3> QED BY <2>1, <3>1
  <2> QED BY <2>2, <2>3
<1>3. CASE AdvanceOnce
  <2>1. SlotEnd \in Nat /\ SlotEnd > now /\ SlotEnd <= Horizon /\ Advance(SlotEnd)
    BY <1>3, RunParts, SlotTimes DEF AdvanceOnce, Running, BatchPlace
  <2>2. now' > now \/ todo' # {}
    BY <2>1, RunParts, AdvanceProgress
  <2>3. moved' = (now' > now) /\ at' = "calling"
    BY <1>3 DEF AdvanceOnce
  <2>4. moved' \/ todo' # {}
    BY <2>2, <2>3, Zenon
  <2> QED BY <2>3, <2>4
<1>4. CASE WaitOnce
  <2>1. SlotEnd \in Nat /\ SlotEnd > now /\ WaitUntil(SlotEnd) /\ now \in Nat
    BY <1>4, RunParts, SlotTimes DEF WaitOnce, Running
  <2>2. now' \in {SlotEnd} \cup NextExpiries
    BY <2>1 DEF WaitUntil, IsLeast
  <2>3. now' > now
    BY <2>1, <2>2 DEF NextExpiries
  <2>4. Receive(now' > now)
    BY <1>4 DEF WaitOnce
  <2>5. moved' = (now' > now \/ succeeded \cup failed \cup lapsed' # {}) /\ at' = "processing"
    BY <2>4 DEF Receive
  <2>6. moved' = TRUE
    BY <2>3, <2>5, Zenon
  <2> QED BY <2>5, <2>6
<1>5. CASE ExecutorReturns
  <2>1. moved \/ succeeded \cup failed # {}
    BY <1>1, <1>5 DEF ExecutorReturns, Settle
  <2>2. moved' = (moved \/ succeeded \cup failed \cup lapsed' # {}) /\ at' = "processing"
    BY <1>5 DEF ExecutorReturns, Receive
  <2> QED BY <2>1, <2>2
<1>6. ASSUME NEW o \in Op, ProcessSuccess(o) \/ ProcessFailure(o) PROVE BatchProgress'
  BY <1>1, <1>6 DEF ProcessSuccess, ProcessFailure
<1>7. CASE OpenSlot \/ LaunchDue \/ RejectDue \/ EndProcessing \/ CloseSlot \/ Conclude
  BY <1>7 DEF OpenSlot, LaunchDue, RejectDue, Running, EndProcessing, CloseSlot, Conclude
<1>8. CASE Over \/ UNCHANGED batchVars
  BY <1>1, <1>8 DEF Over, batchVars, vars, callVars, eventVars
<1> QED BY <1>2, <1>3, <1>4, <1>5, <1>6, <1>7, <1>8 DEF BatchNext, Step

\* The clock stays inside the slot, and no call ends at the horizon with
\* anything in flight.
LEMMA RunClockStep ==
  ASSUME RunSound, [BatchNext]_batchVars
  PROVE  BatchClock'
<1>1. /\ slot \in Nat /\ now \in Nat /\ now <= Horizon /\ Horizon \in Nat /\ HorizonSlots \in Nat
      /\ SlotLength \in Nat /\ slot * SlotLength \in Nat /\ SlotEnd \in Nat
      /\ SlotEnd = slot * SlotLength + SlotLength
      /\ slot < HorizonSlots => SlotEnd <= Horizon
      /\ slot * SlotLength <= now
      /\ at \in {"opening", "done"} => now = slot * SlotLength
      /\ at \notin {"opening", "done"} => now <= SlotEnd
      /\ terminated => now >= Horizon
      /\ Idle /\ now >= Horizon => pending = {}
  BY RunParts, SlotTimes DEF BatchClock
<1>2. /\ at \in {"running", "calling", "processing"} => slot < HorizonSlots
      /\ at \in {"opening", "running", "calling", "processing", "done"}
      /\ at = "calling" <=> ~Idle
  BY RunParts DEF BatchPlace
<1>3. ASSUME slot' = slot PROVE SlotEnd' = SlotEnd
  BY <1>3 DEF SlotEnd
<1>4. ASSUME GivesBack \/ UNCHANGED vars PROVE UNCHANGED <<now, terminated, pending, phase>>
  BY <1>4 DEF GivesBack, vars, runVars, callVars
<1>5. CASE OpenSlot \/ RejectDue \/ EndProcessing \/ Over \/ UNCHANGED batchVars
  <2>1. UNCHANGED <<now, terminated, pending, phase, slot>>
    BY <1>5 DEF OpenSlot, RejectDue, SettleFailures, EndProcessing, Over, batchVars, vars, runVars, callVars
  <2>2. /\ at' \in {"opening", "done"} => at = at'
        /\ at = "opening" => at' \in {"opening", "running"}
    BY <1>2, <1>5, RunParts DEF OpenSlot, RejectDue, Running, EndProcessing, BatchProgress, Over, batchVars
  <2>3. at \in {"opening", "done"} /\ at' \notin {"opening", "done"} => now <= SlotEnd
    BY <1>1
  <2> QED BY <1>1, <1>2, <1>3, <2>1, <2>2, <2>3 DEF BatchClock, Idle
<1>6. ASSUME NEW o \in Op, ProcessSuccess(o) \/ ProcessFailure(o) PROVE BatchClock'
  <2>1. UNCHANGED <<now, terminated, pending, phase>>
    <3>1. CASE UNCHANGED vars
      BY <1>4, <3>1
    <3>2. CASE ReleaseRequest(Owner[o]) \/ SettleFailures({Owner[o]}, now)
      BY <3>2 DEF ReleaseRequest, SettleFailures, runVars, callVars
    <3> QED BY <1>6, <3>1, <3>2 DEF ProcessSuccess, ProcessFailure, Deliver
  <2>2. UNCHANGED <<slot, at>>
    BY <1>6 DEF ProcessSuccess, ProcessFailure
  <2> QED BY <1>1, <1>3, <2>1, <2>2 DEF BatchClock, Idle
<1>7. CASE LaunchDue
  <2>1. UNCHANGED <<now, terminated, phase, slot, at>> /\ at = "running" /\ now < SlotEnd
    BY <1>7, LaunchedWasDue DEF LaunchDue, Running
  <2> QED BY <1>1, <1>2, <1>3, <2>1 DEF BatchClock, Idle
<1>8. CASE AdvanceOnce
  <2>1. /\ at = "running" /\ at' = "calling" /\ slot' = slot /\ Advance(SlotEnd)
        /\ terminated' = terminated /\ ~terminated /\ phase' = "completing"
    BY <1>8 DEF AdvanceOnce, Running, Advance
  <2>2. now' \in now .. SlotEnd
    BY <1>1, <2>1, CallWithin
  <2> QED BY <1>1, <1>3, <2>1, <2>2 DEF BatchClock, Idle
<1>9. CASE WaitOnce
  <2>1. /\ at = "running" /\ at' = "processing" /\ slot' = slot /\ WaitUntil(SlotEnd)
        /\ pending' = pending /\ pending = {} /\ terminated' = (now' >= Horizon)
    BY <1>9 DEF WaitOnce, Running, Receive, WaitUntil, runVars
  <2>2. now' \in now .. SlotEnd
    BY <1>1, <2>1, CallWithin
  <2>3. terminated' => now' >= Horizon
    BY <2>1, Zenon
  <2> QED BY <1>1, <1>3, <2>1, <2>2, <2>3 DEF BatchClock, Idle
<1>10. CASE ExecutorStep
  <2>1. UNCHANGED <<now, terminated, slot, at>> /\ at = "calling"
    BY <1>10, ExecutorMarks DEF ExecutorStep
  <2>2. ~Idle'
    BY <2>1, <1>10, RunPlaceStep DEF BatchPlace
  <2> QED BY <1>1, <1>3, <2>1, <2>2 DEF BatchClock
<1>11. CASE ExecutorReturns
  <2>1. /\ at = "calling" /\ at' = "processing" /\ UNCHANGED <<slot, now, pending>>
        /\ terminated' = (now >= Horizon) /\ ~TimeoutDue /\ ~Idle
    BY <1>11 DEF ExecutorReturns, Receive, Settle, runVars
  <2>2. terminated' => now' >= Horizon
    BY <2>1, Zenon
  <2>3. now >= Horizon => pending = {}
    <3>1. phase \in {"completing", "timing_out"}
      BY <2>1, RunParts DEF TypeOK, Phase, Idle
    <3> QED BY <2>1, <3>1, RunParts DEF TimeoutDue, LoopShape
  <2> QED BY <1>1, <1>3, <2>1, <2>2, <2>3 DEF BatchClock
<1>12. CASE CloseSlot
  <2>1. now = SlotEnd /\ slot' = slot + 1 /\ UNCHANGED vars /\ at' = "opening"
    BY <1>12, ClosedAtTheEnd DEF CloseSlot
  <2>2. now' = slot' * SlotLength
    BY <2>1 DEF SlotEnd, vars
  <2> QED BY <1>1, <1>4, <2>1, <2>2 DEF BatchClock, Idle
<1>13. CASE Conclude
  <2>1. UNCHANGED <<now, terminated, pending, phase, slot>> /\ at = "opening" /\ at' = "done"
    BY <1>13 DEF Conclude, runVars, callVars
  <2> QED BY <1>1, <2>1 DEF BatchClock, Idle
<1> QED BY <1>5, <1>6, <1>7, <1>8, <1>9, <1>10, <1>11, <1>12, <1>13 DEF BatchNext, Step

LEMMA RunWindowsStep ==
  ASSUME RunSound, [BatchNext]_batchVars
  PROVE  WindowsHeld'
<1>1. CASE [Next]_vars
  BY <1>1, RunParts, WindowsStep DEF RunSound
<1>2. CASE GivesBack
  <2>1. InFlight' = InFlight /\ UNCHANGED <<startedAt, endsAt>>
    BY <1>2 DEF GivesBack, InFlight, runVars, callVars
  <2> QED BY <2>1, RunParts DEF WindowsHeld
<1> QED BY <1>1, <1>2, RunParts, RunDrivesExecutor

-----------------------------------------------------------------------------
(* The invariant                                                           *)

LEMMA RunInit == BatchInit => RunSound
<1> SUFFICES ASSUME BatchInit PROVE RunSound
  OBVIOUS
<1> USE DEF BatchInit
<1>1. Inductive /\ TypeOK
  BY RegistryInit, LaunchInit, TypeInit DEF Inductive
<1>2. /\ phase = "idle" /\ todo = {} /\ pending = {} /\ started = {} /\ completed = {} /\ segs = {}
      /\ now = 0 /\ terminated = FALSE /\ InFlight = {}
      /\ HorizonSlots \in Nat /\ HorizonSlots > 0 /\ SlotLength \in Nat /\ Horizon \in Nat /\ Horizon > 0
  BY BatchAssumption, ExecutorAssumption DEF Init, InFlight
<1>3. slot = 0 /\ at \in {"opening", "done"} /\ slot * SlotLength = 0
  BY <1>2
<1>4. \A r \in Request : /\ ArrivalTime(r) \in Nat /\ ArrivalTime(r) <= Horizon
                         /\ Deadline[r] * SlotLength \in Nat
  BY ArrivalInside
<1>5. \A r \in Request : /\ settledAt[r] = (IF dags[r] = {} THEN ArrivalTime(r) ELSE Never)
                         /\ settledAt[r] \in Nat
  BY <1>2, <1>4 DEF Never
<1>6. \A r \in Settled : dags[r] = {} /\ settledAt[r] = ArrivalTime(r) /\ r \in Request
  BY <1>5 DEF Settled
<1>7. \A r \in Request \ Settled : dags[r] # {}
  BY <1>2, <1>4, <1>5 DEF Settled, Never
<1>8. BatchTypeOK
  BY <1>2, <1>4 DEF BatchTypeOK, Never
<1>9. BatchPlace /\ BatchProgress
  BY <1>2, <1>3 DEF BatchPlace, BatchProgress, Idle
<1>10. BatchClock
  BY <1>2, <1>3 DEF BatchClock
<1>11. NothingEarly
  BY <1>2 DEF NothingEarly, Init
<1>12. WorkAccounted
  <2>1. ASSUME NEW o \in Known PROVE PlannedSlot[o] \in Nat /\ at = "opening"
    <3>1. o \in Op /\ Registered # {}
      BY <1>1 DEF Known, Registered, TypeOK
    <3> QED BY <3>1, BatchAssumption
  <2>2. \A o \in Known : PlannedSlot[o] > slot \/ (PlannedSlot[o] = slot /\ at = "opening")
    BY <1>3, <2>1
  <2>3. Request \ Settled \subseteq Registered
    BY <1>7 DEF Registered
  <2> QED BY <2>2, <2>3 DEF WorkAccounted
<1>13. PairsAccounted
  <2>1. \A r \in Request : OwnedBy(r, {}) = {} /\ DemandPairs[r] \in Nat /\ DemandPairs[r] > 0
    BY BatchAssumption DEF OwnedBy
  <2>2. \A r \in Request : ~Enough(r, {})
    BY <2>1, FS_EmptySet DEF Enough
  <2> QED BY <1>2, <2>2 DEF PairsAccounted
<1>14. WindowsHeld
  BY <1>2 DEF WindowsHeld, Init, Physical
<1>15. SettlementsSound
  BY <1>2, <1>4, <1>6 DEF SettlementsSound, Least2, Greatest2
<1>16. SettledIsQuiet
  BY <1>2 DEF SettledIsQuiet
<1>17. DelaysReported
  <2>1. \A o \in Known : PlannedSlot[o] \in Nat
    BY <1>1, BatchAssumption DEF Known, TypeOK
  <2> QED BY <1>2, <1>3, <2>1 DEF DelaysReported
<1> QED BY <1>1, <1>8, <1>9, <1>10, <1>11, <1>12, <1>13, <1>14, <1>15, <1>16, <1>17 DEF RunSound, BatchSound

LEMMA RunStep == RunSound /\ [BatchNext]_batchVars => RunSound' /\ TableStep
<1> SUFFICES ASSUME RunSound, [BatchNext]_batchVars PROVE RunSound' /\ TableStep
  OBVIOUS
<1>1. TableStep
  BY RunTables
<1>2. Inductive'
  BY RunParts, RunDrivesExecutor, InductiveStep, InductiveGiven DEF RunSound
<1>3. BatchTypeOK' /\ BatchPlace' /\ BatchProgress' /\ BatchClock' /\ WindowsHeld'
  BY <1>1, RunTypeStep, RunPlaceStep, RunProgressStep, RunClockStep, RunWindowsStep
<1>4. NothingEarly' /\ WorkAccounted' /\ PairsAccounted'
  BY <1>1, EarlyStep, WorkStep, PairsStep
<1>5. SettlementsSound' /\ SettledIsQuiet' /\ DelaysReported'
  BY <1>1, SettlementsStep, QuietStep, DelaysStep
<1> QED BY <1>1, <1>2, <1>3, <1>4, <1>5 DEF RunSound, BatchSound

-----------------------------------------------------------------------------
(* Theorems                                                                *)

\* The invariant of the batch run: whatever is launched, fails, expires,
\* overruns or is rejected, the executor's registries agree, no request's work
\* is lost from sight and every call makes progress
\* (run_scheduled_construction_plan).
THEOREM BatchInvariant == BatchSpec => [](Inductive /\ BatchSound)
<1>1. RunSound /\ [BatchNext]_batchVars => RunSound'
  BY RunStep
<1>2. BatchSpec => []RunSound
  BY <1>1, RunInit, PTL DEF BatchSpec
<1> QED BY <1>2, PTL DEF RunSound

LEMMA RunSoundAlways == BatchSpec => []RunSound
BY BatchInvariant, PTL DEF RunSound

\* Every settlement lies between the arrival and the deadline or the horizon,
\* and a request is served by exactly the pairs it demands, really built
\* (process_events, settle_failure).
THEOREM SettlementsInvariant == BatchSpec => []SettlementsSound
<1>1. RunSound => SettlementsSound
  BY RunParts
<1> QED BY <1>1, RunSoundAlways, PTL

\* A settled request holds no memory when the next launch is chosen, and none
\* at the end (release_request after every batch of events).
THEOREM QuietInvariant == BatchSpec => []SettledIsQuiet
<1>1. RunSound => SettledIsQuiet
  BY RunParts
<1> QED BY <1>1, RunSoundAlways, PTL

\* Work that a delay pushes past its slot is reported, itself or through the
\* running work it waits for (_in_flight_dependency_blocked_operation_ids).
THEOREM DelaysInvariant == BatchSpec => []DelaysReported
<1>1. RunSound => DelaysReported
  BY RunParts
<1> QED BY <1>1, RunSoundAlways, PTL

\* A settlement is final: no later event, rejection or horizon changes it
\* (settle_failure, process_events).
THEOREM SettlementsStay == BatchSpec => SettlementFinal
<1>1. RunSound /\ [BatchNext]_batchVars => [SettlementKept]_batchVars
  BY RunStep, SettlementsKept
<1>2. SettlementFinal <=> [][SettlementKept]_batchVars
  BY DEF SettlementFinal, SettlementKept
<1> QED BY <1>1, <1>2, RunSoundAlways, PTL DEF BatchSpec

\* What the end of the batch settles: the requests with work still due.
LateFail ==
  Conclude => /\ settledAt' = FailedBy({Owner[o] : o \in due}, Horizon)
              /\ \A r \in Request : settledAt'[r] # Never

\* When the batch is over every request is settled, and those that the end
\* settles failed with work still due: the rule that settles whatever is left
\* at the horizon, whatever its deadline, is never needed.
THEOREM NothingSettledByDefault == BatchSpec => [][LateFail]_batchVars
<1>1. RunSound /\ [BatchNext]_batchVars => [LateFail]_batchVars
  BY ConcludeFails DEF LateFail
<1> QED BY <1>1, RunSoundAlways, PTL DEF BatchSpec

\* Seen through the markers and the segments, the whole run is a behaviour of
\* the contract, although it gives back the segments of several requests in
\* one step of its own.
THEOREM BatchImplementsContract == BatchSpec => ImplementsContract
<1>1. RunSound /\ [BatchNext]_batchVars /\ RunSound'
        => [Contract!Next]_<<[o \in Op |-> Status(o)], segs>>
  <2> SUFFICES ASSUME RunSound, [BatchNext]_batchVars, RunSound' PROVE Contract!Next
    OBVIOUS
  <2>1. RegistrySound /\ RegistrySound'
    BY DEF RunSound, Inductive
  <2>2. [Next]_vars \/ GivesBack
    BY RunParts, RunDrivesExecutor
  <2> QED BY <2>1, <2>2, StepMapped, QuietLoses
<1>2. BatchInit => Contract!Init
  BY InitMapped DEF BatchInit
<1> QED BY <1>1, <1>2, RunSoundAlways, PTL DEF BatchSpec, ImplementsContract, Contract!Spec

=============================================================================
