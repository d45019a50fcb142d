---------------------------- MODULE BatchExecutor ----------------------------
(***************************************************************************)
(* run_scheduled_construction_plan: one fixed batch of plans is executed   *)
(* slot by slot on the executor.  All DAGs are registered from the start;  *)
(* nothing is planned again.  A physical delay is recorded as a violation  *)
(* of the schedule and execution goes on, until every request is settled.  *)
(*                                                                         *)
(*   opening --OpenSlot--> running --the executor--> calling               *)
(*   calling --it returns--> processing --> running or closing             *)
(*   closing --CloseSlot--> opening; after the last slot --Conclude--> done*)
(***************************************************************************)
EXTENDS ConstructionExecutor

CONSTANTS
  HorizonSlots,  \* spec.horizon
  SlotLength,    \* physical.slot_duration_ps, in ticks
  PlannedSlot,   \* planned slot of an operation
  Arrival,       \* slot a request arrives in
  Deadline,      \* deadline of a request in slots; past the horizon: none
  Terminal,      \* operations whose outputs are the terminal segments
  DemandPairs    \* demand_pairs of a request

\* What ScheduledRequestPlan and _validate_request_plan_against_episode check:
\* dependencies lie in earlier slots, the plan starts after the arrival, ends
\* by the deadline and the horizon, and has as many terminal pairs as demanded.
Schedulable(r, ops) ==
  /\ Cardinality(ops \cap Terminal) = DemandPairs[r]
  /\ \A t \in ops \cap Terminal : Kind[t] # "RELEASE" /\ PlannedSlot[t] < HorizonSlots /\ PlannedSlot[t] < Deadline[r]
  /\ \A o \in ops : /\ Arrival[r] <= PlannedSlot[o]
                    /\ \E t \in ops \cap Terminal : PlannedSlot[o] <= PlannedSlot[t]
                    /\ \A d \in (Preds[o] \cup Ins[o]) \cap ops : PlannedSlot[d] < PlannedSlot[o]

ASSUME BatchAssumption ==
  /\ SlotLength \in Nat \ {0}
  /\ HorizonSlots \in Nat \ {0}
  /\ Horizon = HorizonSlots * SlotLength
  /\ PlannedSlot \in [Op -> Nat]
  /\ Arrival \in [Request -> 0 .. HorizonSlots - 1]
  /\ Deadline \in [Request -> Nat]
  /\ Terminal \subseteq Op
  /\ DemandPairs \in [Request -> Nat \ {0}]
  /\ \A r \in Request : \A ops \in Plans[r] : Schedulable(r, ops)

VARIABLES
  slot,        \* slot being run
  at,          \* where the run is
  due,         \* operations whose slot has come, not yet launched
  settledAt,   \* settlement time of a request, Never while it has none
  served,      \* requests settled with success
  delivered,   \* terminal segments delivered
  violations,  \* <<code, operation>>
  succeeded, failed, lapsed,  \* events of the batch being processed
  moved        \* whether the last call made progress

tableVars == <<due, settledAt, served, delivered, violations>>
eventVars == <<succeeded, failed, lapsed>>
batchVars == <<vars, tableVars, eventVars, slot, at, moved>>

Never    == Horizon + 1
SlotEnd  == (slot + 1) * SlotLength
Settled  == {r \in Request : settledAt[r] # Never}
ArrivalTime(r) == Arrival[r] * SlotLength

BatchInit ==
  /\ Init
  /\ settledAt = [r \in Request |-> IF dags[r] = {} THEN ArrivalTime(r) ELSE Never]
  /\ served = {} /\ delivered = {} /\ due = {} /\ violations = {}
  /\ succeeded = {} /\ failed = {} /\ lapsed = {}
  /\ slot = 0 /\ moved = FALSE
  /\ at = IF Registered = {} THEN "done" ELSE "opening"

-----------------------------------------------------------------------------
(* Settlement                                                              *)

Least2(a, b)    == IF a <= b THEN a ELSE b
Greatest2(a, b) == IF a >= b THEN a ELSE b

\* Mutant: a failure noticed after the deadline is settled when it is noticed.
NoticedAt(r, t) == Greatest2(ArrivalTime(r), t)

FailureTime(r, t) == Greatest2(ArrivalTime(r), Least2(t, Deadline[r] * SlotLength))

\* Mutant: a rejection leaves the request open.
LeftOpen(R, t) == settledAt

\* Mutant: the last failure of a request settles it.
LastFailure(R, t) == [r \in Request |-> IF r \in R THEN FailureTime(r, t) ELSE settledAt[r]]

\* settle_failure for every request of R that has no settlement yet.
FailedBy(R, t) == [r \in Request |-> IF r \in R \ Settled THEN FailureTime(r, t) ELSE settledAt[r]]

\* release_request for every request of R.
GiveBack(R) == Discard({s \in segs : Owner[s] \in R} \ Inputs(pending))

SettleFailures(R, t) ==
  /\ settledAt' = FailedBy(R, t)
  /\ GiveBack(R \ Settled)
  /\ UNCHANGED <<dagVars, markVars, owned, runVars, now, terminated, callVars, served>>

-----------------------------------------------------------------------------
(* The loop of a slot                                                      *)

LiveDue == {o \in due : Owner[o] \notin Settled}

OpenSlot ==
  /\ at = "opening"
  /\ slot < HorizonSlots
  /\ due' = due \cup {o \in Known : PlannedSlot[o] = slot /\ Owner[o] \notin Settled}
  /\ at' = "running"
  /\ UNCHANGED <<vars, settledAt, served, delivered, violations, eventVars, slot, moved>>

Running == at = "running" /\ now < SlotEnd /\ ~terminated

ReadyBatch == ReadyOperations(LiveDue)

\* The executor may also refuse a purification for the fidelities left out here.
MayRefuse == ~LaunchAdmits(ReadyBatch) \/ Purifies(ReadyBatch) # {}

NoLaunch == ReadyBatch = {} \/ MayRefuse

LaunchDue ==
  /\ Running
  /\ ReadyBatch # {}
  /\ Launch(ReadyBatch)
  /\ due' = LiveDue \ ReadyBatch
  /\ UNCHANGED <<settledAt, served, delivered, violations, eventVars, slot, at, moved>>

AdvanceOnce ==
  /\ Running
  /\ NoLaunch
  /\ Advance(SlotEnd)
  /\ due' = LiveDue
  /\ moved' = (now' > now)
  /\ at' = "calling"
  /\ UNCHANGED <<settledAt, served, delivered, violations, eventVars, slot>>

\* Nothing is in flight and nothing could be launched: whoever has due work fails.
RejectDue ==
  /\ Running
  /\ NoLaunch
  /\ pending = {}
  /\ LiveDue # {}
  /\ violations' = violations \cup {<<"launch_rejected", o>> : o \in LiveDue}
  /\ SettleFailures({Owner[o] : o \in LiveDue}, now)
  /\ due' = {o \in LiveDue : settledAt'[Owner[o]] = Never}
  /\ UNCHANGED <<delivered, eventVars, slot, at, moved>>

\* The executor returns: its expirations complete the batch of events.
Receive(progress) ==
  /\ lapsed' = expired \cup (segs \ segs')
  /\ moved' = (progress \/ succeeded \cup failed \cup lapsed' # {})
  /\ at' = "processing"

WaitOnce ==
  /\ Running
  /\ LiveDue = {}
  /\ WaitUntil(SlotEnd)
  /\ Receive(now' > now)
  /\ due' = {}
  /\ UNCHANGED <<settledAt, served, delivered, violations, succeeded, failed, slot>>

ExecutorStep ==
  /\ at = "calling"
  /\ \/ \E o \in Op :
          \/ /\ Release(o) \/ \E life \in Lifetimes : Complete(o, life)
             /\ succeeded' = succeeded \cup {o}
             /\ UNCHANGED failed
          \/ /\ Fail(o)
             /\ failed' = failed \cup {o}
             /\ UNCHANGED succeeded
     \/ /\ BeginTimeout
        /\ UNCHANGED <<succeeded, failed>>
  /\ UNCHANGED <<tableVars, lapsed, slot, at, moved>>

ExecutorReturns ==
  /\ at = "calling"
  /\ Settle
  /\ Receive(moved)
  /\ UNCHANGED <<tableVars, succeeded, failed, slot>>

-----------------------------------------------------------------------------
(* process_events                                                          *)

\* Mutant: a request is served by its first pair.
FirstPair(r, pairs) == pairs # {}

Enough(r, pairs) == Cardinality(OwnedBy(r, pairs)) >= DemandPairs[r]

\* A terminal pair that is good enough and in time.
Deliver(o) ==
  LET r == Owner[o]
  IN  /\ now <= Deadline[r] * SlotLength
      /\ delivered' = delivered \cup {o}
      /\ \/ /\ Enough(r, delivered')
            /\ settledAt' = [settledAt EXCEPT ![r] = now]
            /\ served' = served \cup {r}
            /\ ReleaseRequest(r)
         \/ /\ ~Enough(r, delivered')
            /\ UNCHANGED <<vars, settledAt, served>>

\* A success is ignored, a fidelity or deadline reject, or a delivery.
ProcessSuccess(o) ==
  LET r == Owner[o]
  IN  /\ at = "processing"
      /\ o \in succeeded
      /\ succeeded' = succeeded \ {o}
      /\ \/ /\ r \in Settled \/ o \notin Terminal
            /\ UNCHANGED <<vars, settledAt, served, delivered>>
         \/ /\ r \notin Settled /\ o \in Terminal
            /\ \/ Deliver(o)
               \/ SettleFailures({r}, now) /\ UNCHANGED delivered
      /\ UNCHANGED <<due, violations, failed, lapsed, slot, at, moved>>

\* The expirations come last in a batch.
ProcessFailure(o) ==
  /\ at = "processing"
  /\ \/ o \in failed /\ failed' = failed \ {o} /\ UNCHANGED lapsed
     \/ o \in lapsed /\ lapsed' = lapsed \ {o} /\ succeeded = {} /\ failed = {} /\ UNCHANGED failed
  /\ SettleFailures({Owner[o]}, now)
  /\ UNCHANGED <<due, delivered, violations, succeeded, slot, at, moved>>

\* Mutant: what a settled request completes later stays.
NoOne == {}

\* Late outputs of settled requests are given back after every batch.
Leaving == Settled

EndProcessing ==
  /\ at = "processing"
  /\ succeeded \cup failed \cup lapsed = {}
  /\ GiveBack(Leaving)
  /\ at' = IF moved THEN "running" ELSE "closing"
  /\ UNCHANGED <<dagVars, markVars, owned, runVars, now, terminated, callVars, tableVars, eventVars, slot, moved>>

-----------------------------------------------------------------------------
(* The end of a slot, and of the batch                                     *)

Dependencies(o) == (Preds[o] \cup Ins[o]) \cap Known

\* What lies at most n dependencies below o.
Below(o) ==
  LET reach[n \in 0 .. Cardinality(Known)] ==
        IF n = 0 THEN Dependencies(o)
        ELSE reach[n - 1] \cup UNION {Dependencies(d) : d \in reach[n - 1]}
  IN  reach[Cardinality(Known)]

\* Mutant: any operation in flight excuses the work that is late.
AnyInFlight(o) == pending # {}

\* _in_flight_dependency_blocked_operation_ids
DependencyBlocked(o) == Below(o) \cap pending # {}

CloseSlot ==
  /\ at = "closing" \/ (at = "running" /\ ~Running)
  /\ slot < HorizonSlots
  /\ violations' = violations
       \cup {<<"slot_launch_overrun", o>> : o \in {d \in due : ~DependencyBlocked(d)}}
       \cup {<<"slot_completion_overrun", o>> : o \in {p \in pending : PlannedSlot[p] <= slot}}
  /\ slot' = slot + 1
  /\ at' = "opening"
  /\ UNCHANGED <<vars, due, settledAt, served, delivered, eventVars, moved>>

\* What is still due fails at the horizon; a request that is not settled even
\* then is settled at the horizon whatever its deadline.
Conclude ==
  /\ at = "opening"
  /\ slot = HorizonSlots
  /\ violations' = violations \cup {<<"horizon_unlaunched", o>> : o \in due}
  /\ LET late == {Owner[o] : o \in due}
     IN  /\ settledAt' = [r \in Request |-> IF FailedBy(late, Horizon)[r] = Never THEN Horizon
                                            ELSE FailedBy(late, Horizon)[r]]
         /\ GiveBack(late \ Settled)
  /\ at' = "done"
  /\ UNCHANGED <<dagVars, markVars, owned, runVars, now, terminated, callVars,
                 due, served, delivered, eventVars, slot, moved>>

Over == at = "done" /\ UNCHANGED batchVars

Step ==
  \/ OpenSlot \/ LaunchDue \/ AdvanceOnce \/ RejectDue \/ WaitOnce
  \/ ExecutorStep \/ ExecutorReturns
  \/ \E o \in Op : ProcessSuccess(o) \/ ProcessFailure(o)
  \/ EndProcessing \/ CloseSlot \/ Conclude

BatchNext == Step \/ Over

BatchSpec == BatchInit /\ [][BatchNext]_batchVars

\* One call of sequential code that runs to its end.
FairBatchSpec == BatchSpec /\ WF_batchVars(Step)

-----------------------------------------------------------------------------
(* Properties                                                              *)

\* A request is settled between its arrival and its deadline or the horizon,
\* and with success only when the pairs it demands were really built.
SettlementsSound ==
  \A r \in Settled :
    /\ settledAt[r] >= ArrivalTime(r)
    /\ settledAt[r] <= Least2(Horizon, Greatest2(ArrivalTime(r), Deadline[r] * SlotLength))
    /\ r \in served => Cardinality(OwnedBy(r, delivered \cap completed)) = DemandPairs[r]

\* A settled request neither launches again nor holds memory when the next
\* launch is chosen, beyond what a running protocol is consuming.
SettledIsQuiet ==
  /\ at \in {"opening", "running", "done"} =>
       \A s \in segs : Owner[s] \in Settled => s \in Inputs(pending)
  /\ at = "done" => segs = {} /\ pending = {}

\* A settlement is final: no later event, rejection or horizon changes it
\* (process_events, settle_failure).
SettlementFinal ==
  [][\A r \in Settled : settledAt'[r] = settledAt[r] /\ (r \in served') = (r \in served)]_batchVars

\* "Such serialization is considered schedule-preserving only when every
\* operation still finishes before the slot boundary; otherwise a violation is
\* recorded": work of a past slot whose request is still open has completed, or
\* it has been reported itself, or it waits for running work that has been.
\* The clock is at the boundary then, so the loops that would catch up with it
\* have nothing to do.
DelaysReported ==
  at = "opening" =>
    /\ now = slot * SlotLength
    /\ \A o \in Known : PlannedSlot[o] < slot /\ Owner[o] \notin Settled =>
         \/ o \in completed
         \/ \E code \in {"slot_launch_overrun", "slot_completion_overrun"} : <<code, o>> \in violations
         \/ \E p \in Below(o) \cap pending : <<"slot_completion_overrun", p>> \in violations

\* "Operation is not physically ready", says the record of a rejected launch:
\* no operation that the executor would launch by itself is rejected so.
RejectedNotReady ==
  [][\A o \in LiveDue : <<"launch_rejected", o>> \in violations' \ violations => ~LaunchAdmits({o})]_batchVars

\* Whatever fails, overruns or is rejected, the run ends with every request settled.
BatchEnds == <>(at = "done" /\ Settled = Request)

\* What makes the properties above inductive: where the run is, ...
BatchPlace ==
  /\ slot \in 0 .. HorizonSlots
  /\ at \in {"opening", "running", "calling", "processing", "done"}
  /\ at \in {"running", "calling", "processing"} => slot < HorizonSlots
  /\ at = "calling" <=> ~Idle
  /\ at \notin {"calling", "processing"} => succeeded \cup failed \cup lapsed = {}

\* ... that every call of the executor makes progress, so that no slot is
\* closed before its end, ...
BatchProgress ==
  /\ at = "calling" => moved \/ succeeded \cup failed \cup todo # {}
  /\ at = "processing" => moved

\* ... that the clock stays inside the slot and cuts off what is in flight, ...
BatchClock ==
  /\ slot * SlotLength <= now
  /\ at \in {"opening", "done"} => now = slot * SlotLength
  /\ at \notin {"opening", "done"} => now <= SlotEnd
  /\ terminated => now >= Horizon
  /\ Idle /\ now >= Horizon => pending = {}

\* ... that nothing is launched before its slot, ...
NothingEarly ==
  /\ \A r \in Request : dags[r] \in Plans[r] \cup {{}}
  /\ due \subseteq Known
  /\ \A o \in due \cup completed \cup started : PlannedSlot[o] <= slot

\* ... where every operation of an open request is, ...
WorkAccounted ==
  /\ Request \ Settled \subseteq Registered
  /\ \A o \in Known : Owner[o] \notin Settled =>
       \/ PlannedSlot[o] > slot
       \/ PlannedSlot[o] = slot /\ at = "opening"
       \/ o \in due \cup started \cup failed
       \/ o \in completed /\ (o \in Terminal => o \in succeeded \cup delivered)

\* ... and what the deliveries account for.
PairsAccounted ==
  /\ succeeded \cup delivered \subseteq completed
  /\ delivered \subseteq Terminal
  /\ \A r \in Request : r \in served => r \in Settled /\ Enough(r, delivered)
  /\ \A r \in Request \ Settled : ~Enough(r, delivered)

\* The type of the run's own tables.
BatchTypeOK ==
  /\ settledAt \in [Request -> Nat]
  /\ served \subseteq Request
  /\ due \subseteq Op
  /\ failed \subseteq Op /\ lapsed \subseteq Op

\* The inductive invariant of the batch run.
BatchSound ==
  /\ BatchTypeOK
  /\ BatchPlace
  /\ BatchProgress
  /\ BatchClock
  /\ NothingEarly
  /\ WorkAccounted
  /\ PairsAccounted
  /\ WindowsHeld
  /\ SettlementsSound
  /\ SettledIsQuiet
  /\ DelaysReported

=============================================================================
