------------------------- MODULE PersistentScheduler -------------------------
(***************************************************************************)
(* PersistentConstructionScheduler: submitted plans are executed slot by   *)
(* slot on the executor; attempts that end are cleaned up so that their    *)
(* requests can be planned again.                                          *)
(*                                                                         *)
(* _run_slot is one sequential program.  Its steps are actions, at says    *)
(* where it is, and every step that calls the executor contains the action *)
(* of the method it calls.  Between slots the planner may submit plans.    *)
(*   boundary   --StartSlot-->  running   --call the executor-->  calling  *)
(*   calling    --it returns-->  processing  (_process_events)             *)
(*   processing -->  sweeping (_cleanup_finished_requests)  -->  running   *)
(*   running    --CloseSlot-->  processing  -->  ending  -->  boundary     *)
(* A rejected launch goes from running to processing and back.             *)
(***************************************************************************)
EXTENDS ConstructionExecutor

CONSTANTS
  HorizonSlots,  \* spec.horizon
  SlotLength,    \* physical.slot_duration_ps, in ticks
  Offset,        \* slot of an operation, relative to its plan or revision
  Arrival,       \* slot a request arrives in
  Deadline,      \* deadline of a request in slots; past the horizon: none
  Terminal,      \* operations whose outputs are the terminal segments
  DemandPairs,   \* demand_pairs of a request
  EventPolicy,   \* whether the scheduler was given an event policy
  MaxAttempts    \* bound on the plans submitted for one request

Terminals(ops) == ops \cap Terminal

\* What ScheduledRequestPlan checks of a plan, _revision_absolute_slots and
\* ScheduledPlanRevision of a revision: it has terminal segments, and every
\* operation lies in a later slot than the ones it depends on.  A pair that is
\* not the last one demanded is a terminal segment too, and is released next.
WellScheduled(ops) ==
  /\ Terminals(ops) # {}
  /\ \A t \in Terminals(ops) : Kind[t] # "RELEASE" /\ \A o \in Terminals(ops) : Ends[o] = Ends[t]
  /\ \A o \in ops : \A d \in (Preds[o] \cup Ins[o]) \cap ops : Offset[d] < Offset[o]
  /\ \A o \in ops : \E t \in Terminals(ops) : Offset[o] <= Offset[t]

ASSUME ScheduleAssumption ==
  /\ SlotLength \in Nat \ {0}
  /\ HorizonSlots \in Nat
  /\ Horizon = HorizonSlots * SlotLength
  /\ Offset \in [Op -> Nat]
  /\ Arrival \in [Request -> Nat]
  /\ Deadline \in [Request -> Nat]
  /\ Terminal \subseteq Op
  /\ DemandPairs \in [Request -> Nat \ {0}]
  /\ EventPolicy \in BOOLEAN
  /\ MaxAttempts \in Nat
  /\ \A r \in Request : \A ops \in Plans[r] \cup Repairs[r] : WellScheduled(ops)

VARIABLES
  active,      \* requests in _active_plans
  cleanup,     \* _cleanup_requests
  finishedAt,  \* _completed_times, Never for a request not completed
  terminals,   \* _terminal_segments
  delivered,   \* _delivered_segments
  slotOf,      \* _planned_slot_by_operation, Unplanned when absent
  due,         \* _due
  attempts,    \* plans submitted, per request
  outcomes,    \* outcomes recorded, per request
  succeeded,   \* events of the batch being processed: successes,
  failed,      \*   failures,
  lapsed,      \*   and expirations
  doomed,      \* requests whose deadline or rejection event is being processed
  toAnswer,    \* requests the event policy is being asked about
  answered,    \* requests it answered with CONTINUE, REVISE or COMPLETE
  revision,    \* the revision being applied
  slot,        \* slot being run, or the next one
  at,          \* where the scheduler is
  back,        \* where it goes once the events are processed
  moved,       \* whether the last call made progress
  sweep        \* requests the cleanup loop still has to look at

planVars  == <<active, cleanup, finishedAt, terminals, delivered, slotOf, due, attempts, outcomes>>
batchVars == <<succeeded, failed, lapsed, doomed>>
replyVars == <<toAnswer, answered, revision>>
loopVars  == <<slot, at, back, moved, sweep>>
schedVars == <<vars, planVars, batchVars, replyVars, loopVars>>

Unplanned    == HorizonSlots
Never        == Horizon + 1

CurrentSlot == now \div SlotLength
SlotEnd     == (slot + 1) * SlotLength

SchedInit ==
  /\ Init
  /\ Registered = {}
  /\ active = {} /\ cleanup = {}
  /\ finishedAt = [r \in Request |-> Never]
  /\ terminals = [r \in Request |-> {}]
  /\ delivered = [r \in Request |-> {}]
  /\ slotOf = [o \in Op |-> Unplanned]
  /\ due = {}
  /\ attempts = [r \in Request |-> 0]
  /\ outcomes = [r \in Request |-> 0]
  /\ succeeded = {} /\ failed = {} /\ lapsed = {} /\ doomed = {}
  /\ toAnswer = {} /\ answered = {} /\ revision = {}
  /\ slot = 0 /\ at = "boundary" /\ back = "boundary" /\ moved = FALSE /\ sweep = {}

-----------------------------------------------------------------------------
(* Submission                                                              *)

\* The last slot boundary an attempt of r may complete at.
Limit(r) == IF Deadline[r] < HorizonSlots THEN Deadline[r] ELSE HorizonSlots

InTime(r, ops, start) == \A o \in Terminals(ops) : start + Offset[o] < Limit(r)

\* Mutant: a served request may be planned again once it is cleaned up.
NotPlanned(r) == r \notin active \cup cleanup /\ now < Horizon

CanSubmit(r) ==
  /\ r \notin active \cup cleanup
  /\ finishedAt[r] = Never
  /\ now < Horizon

Submit(r, ops, start) ==
  /\ at = "boundary"
  /\ attempts[r] < MaxAttempts
  /\ now % SlotLength = 0
  /\ CanSubmit(r)
  /\ Arrival[r] <= CurrentSlot
  /\ start >= CurrentSlot
  /\ InTime(r, ops, start)
  /\ Cardinality(Terminals(ops)) = DemandPairs[r]
  /\ Register(r, ops)
  /\ active' = active \cup {r}
  /\ terminals' = [terminals EXCEPT ![r] = Terminals(ops)]
  /\ delivered' = [delivered EXCEPT ![r] = {}]
  /\ slotOf' = [o \in Op |-> IF o \in ops THEN start + Offset[o] ELSE slotOf[o]]
  /\ attempts' = [attempts EXCEPT ![r] = @ + 1]
  /\ UNCHANGED <<cleanup, finishedAt, due, outcomes, batchVars, replyVars, loopVars>>

-----------------------------------------------------------------------------
(* The loop of _run_slot                                                   *)

OfActive(S) == {o \in S : Owner[o] \in active}

StartSlot ==
  /\ at = "boundary"
  /\ slot < HorizonSlots
  /\ now % SlotLength = 0
  /\ due' = due \cup OfActive({o \in Op : slotOf[o] = slot})
  /\ at' = "running"
  /\ UNCHANGED <<vars, active, cleanup, finishedAt, terminals, delivered, slotOf, attempts,
                 outcomes, batchVars, replyVars, slot, back, moved, sweep>>

DueIn(s) == {o \in due : slotOf[o] = s}

\* _ready_due_operations: the ready work of the first slot that has any.
ReadyDue ==
  UNION {ReadyOperations(DueIn(s)) : s \in {t \in 0 .. slot :
           \A u \in 0 .. t - 1 : ReadyOperations(DueIn(u)) = {}}}

Running == at = "running" /\ now < SlotEnd

LaunchDue ==
  /\ Running
  /\ ReadyDue # {}
  /\ Launch(ReadyDue)
  /\ due' = due \ ReadyDue
  /\ UNCHANGED <<active, cleanup, finishedAt, terminals, delivered, slotOf, attempts,
                 outcomes, batchVars, replyVars, loopVars>>

\* Mutant: a rejected launch is tried again, unchanged.
Nobody(ops) == {}

TakingPart(ops) == {Owner[o] : o \in ops}

\* A rejected launch ends the attempt of every request that took part in it.
\* The executor may reject a purification for the fidelities left out here.
RejectDue ==
  /\ Running
  /\ ReadyDue # {}
  /\ ~LaunchAdmits(ReadyDue) \/ Purifies(ReadyDue) # {}
  /\ doomed' = TakingPart(ReadyDue)
  /\ at' = "processing"
  /\ back' = "running"
  /\ UNCHANGED <<vars, planVars, succeeded, failed, lapsed, replyVars, slot, moved, sweep>>

\* The requests with an event in the batch, which the policy may answer.
Asked(events) == IF EventPolicy THEN active \cap {Owner[o] : o \in events} ELSE {}

\* The executor returns: its expirations complete the batch.
Receive(progress) ==
  /\ lapsed' = expired \cup (segs \ segs')
  /\ toAnswer' = Asked(succeeded \cup failed \cup lapsed')
  /\ moved' = (progress \/ succeeded \cup failed \cup lapsed' # {})
  /\ at' = "processing"

AdvanceOnce ==
  /\ Running
  /\ ReadyDue = {}
  /\ Advance(SlotEnd)
  /\ moved' = (now' > now)
  /\ at' = "calling"
  /\ back' = "sweeping"
  /\ UNCHANGED <<planVars, batchVars, replyVars, slot, sweep>>

WaitOnce ==
  /\ Running
  /\ ReadyDue = {}
  /\ WaitUntil(SlotEnd)
  /\ Receive(now' > now)
  /\ back' = "sweeping"
  /\ UNCHANGED <<planVars, succeeded, failed, doomed, answered, revision, slot, sweep>>

\* The executor's own loop.
ExecutorStep ==
  /\ at = "calling"
  /\ \/ \E o \in Op :
          \/ /\ Release(o) \/ \E life \in Lifetimes : Complete(o, life)
             /\ succeeded' = succeeded \cup {o}
             /\ UNCHANGED failed
          \/ /\ Fail(o)
             /\ failed' = failed \cup {o}
             /\ UNCHANGED succeeded
     \/ /\ BeginTimeout
        /\ UNCHANGED <<succeeded, failed>>
  /\ UNCHANGED <<planVars, lapsed, doomed, replyVars, loopVars>>

ExecutorReturns ==
  /\ at = "calling"
  /\ Settle
  /\ Receive(moved)
  /\ UNCHANGED <<planVars, succeeded, failed, doomed, answered, revision, slot, back, sweep>>

\* Mutant: a deadline at the very end of the slot is left for the next one.
PastDeadline == {r \in active : Deadline[r] * SlotLength < SlotEnd}

AtDeadline == {r \in active : Deadline[r] * SlotLength <= SlotEnd}

\* _expire_deadlines, once the clock is at the end of the slot.
CloseSlot ==
  /\ at = "closing" \/ (at = "running" /\ now >= SlotEnd)
  /\ doomed' = AtDeadline
  /\ at' = "processing"
  /\ back' = "ending"
  /\ UNCHANGED <<vars, planVars, succeeded, failed, lapsed, replyVars, slot, moved, sweep>>

-----------------------------------------------------------------------------
(* Attempts                                                                *)

\* Mutant: the segments of a finished attempt stay until the next cleanup.
KeepSegments(r) == dags[r] # {} /\ UNCHANGED vars

GiveBack(r) == ReleaseRequest(r)

\* _finish_attempt, for an active request.
FinishAttempt(r, success) ==
  /\ r \in active
  /\ active' = active \ {r}
  /\ cleanup' = cleanup \cup {r}
  /\ finishedAt' = IF success THEN [finishedAt EXCEPT ![r] = now] ELSE finishedAt
  /\ due' = {o \in due : Owner[o] # r}
  /\ outcomes' = [outcomes EXCEPT ![r] = @ + 1]
  /\ GiveBack(r)
  /\ UNCHANGED <<terminals, slotOf, attempts>>

\* Mutant: one pair is enough whatever the request demands.
FirstPair(r, pairs) == pairs # {}

Enough(r, pairs) == Cardinality(pairs) >= DemandPairs[r]

\* A terminal segment s of r: too poor or too late, or delivered.
Deliver(r, s) ==
  \/ FinishAttempt(r, FALSE) /\ UNCHANGED delivered
  \/ /\ now <= Deadline[r] * SlotLength
     /\ delivered' = [delivered EXCEPT ![r] = @ \cup {s}]
     /\ \/ Enough(r, delivered'[r]) /\ FinishAttempt(r, TRUE)
        \/ /\ ~Enough(r, delivered'[r])
           /\ UNCHANGED <<vars, active, cleanup, finishedAt, terminals, slotOf, due, attempts, outcomes>>

\* An event of a request that is not active: late segments are released.
ReleaseLate(r) ==
  /\ \/ r \in cleanup /\ ReleaseRequest(r)
     \/ r \notin cleanup /\ UNCHANGED vars
  /\ UNCHANGED planVars

-----------------------------------------------------------------------------
(* _process_events, once the policy has answered                           *)

Processing == at = "processing" /\ toAnswer = {}

ProcessSuccess(o) ==
  LET r == Owner[o]
  IN  /\ Processing
      /\ o \in succeeded
      /\ succeeded' = succeeded \ {o}
      /\ \/ r \notin active /\ ReleaseLate(r)
         \/ r \in active /\ o \notin terminals[r] /\ UNCHANGED <<vars, planVars>>
         \/ r \in active /\ o \in terminals[r] /\ Deliver(r, o)
      /\ UNCHANGED <<failed, lapsed, doomed, replyVars, loopVars>>

\* The expirations come last in a batch.
ProcessFailure(o) ==
  LET r == Owner[o]
  IN  /\ Processing
      /\ \/ o \in failed /\ failed' = failed \ {o} /\ UNCHANGED lapsed
         \/ o \in lapsed /\ lapsed' = lapsed \ {o} /\ succeeded = {} /\ failed = {} /\ UNCHANGED failed
      /\ \/ r \notin active /\ ReleaseLate(r)
         \/ r \in active \cap answered /\ UNCHANGED <<vars, planVars>>
         \/ r \in active \ answered /\ FinishAttempt(r, FALSE) /\ UNCHANGED delivered
      /\ UNCHANGED <<succeeded, doomed, replyVars, loopVars>>

\* The event of a deadline or of a rejected launch, which no policy answers.
ProcessDoom(r) ==
  /\ Processing
  /\ r \in doomed
  /\ doomed' = doomed \ {r}
  /\ FinishAttempt(r, FALSE)
  /\ UNCHANGED <<delivered, succeeded, failed, lapsed, replyVars, loopVars>>

EndProcessing ==
  /\ Processing
  /\ succeeded \cup failed \cup lapsed = {} /\ doomed = {}
  /\ at' = back
  /\ sweep' = IF back = "running" THEN {} ELSE cleanup
  /\ answered' = {}
  /\ UNCHANGED <<vars, planVars, batchVars, toAnswer, revision, slot, back, moved>>

-----------------------------------------------------------------------------
(* The answers of the event policy                                         *)

Asking(r) == at = "processing" /\ r \in toAnswer /\ revision = {}
Fresh(r)  == Asking(r) /\ r \notin answered

\* No response, or a response that ends the attempt.
Decline(r) ==
  /\ Fresh(r)
  /\ toAnswer' = toAnswer \ {r}
  /\ \/ UNCHANGED <<vars, planVars>>
     \/ FinishAttempt(r, FALSE) /\ UNCHANGED delivered
  /\ UNCHANGED <<answered, revision, batchVars, loopVars>>

\* CONTINUE, after releasing some of the segments of the request.
ContinueRelease(s) ==
  /\ Asking(Owner[s])
  /\ ReleaseSegment(s)
  /\ answered' = answered \cup {Owner[s]}
  /\ UNCHANGED <<toAnswer, revision, planVars, batchVars, loopVars>>

Continue(r) ==
  /\ Asking(r)
  /\ answered' = answered \cup {r}
  /\ toAnswer' = toAnswer \ {r}
  /\ UNCHANGED <<vars, revision, planVars, batchVars, loopVars>>

\* COMPLETE: _complete_from_live_segment.
Accept(r, s) ==
  /\ Fresh(r)
  /\ s \in OwnedBy(r, segs)
  /\ \E t \in terminals[r] : Ends[s] = Ends[t]
  /\ Deliver(r, s)
  /\ answered' = answered \cup {r}
  /\ toAnswer' = toAnswer \ {r}
  /\ UNCHANGED <<revision, batchVars, loopVars>>

\* What a revision of r supersedes.
Superseded(r) == dags[r] \ (completed \cup started \cup dead)

Planned(s, r, S) == {o \in S : slotOf[o] = s /\ r \in Demand[o]}

\* Mutant: a revision may start in the slot that is already running.
ThisSlot == CurrentSlot

NextSlot == CurrentSlot + 1

\* _revision_absolute_slots: the starts with room for the whole suffix.
RevisionStarts(r, ops) ==
  {start \in NextSlot .. HorizonSlots - 1 :
     /\ InTime(r, ops, start)
     /\ \A o \in ops : \A x \in Demand[o] :
          Cardinality({p \in ops : Offset[p] = Offset[o] /\ x \in Demand[p]})
            + Cardinality(Planned(start + Offset[o], x, Op \ Superseded(r))) <= Capacity[x]}

\* REVISE: there is room for the suffix, which the executor will accept ...
Revise(r, ops) ==
  /\ Fresh(r)
  /\ RepairAdmits(r, ops, TRUE)
  /\ RevisionStarts(r, ops) # {}
  /\ revision' = ops
  /\ UNCHANGED <<vars, toAnswer, answered, planVars, batchVars, loopVars>>

\* ... or there is none.
ReviseInfeasible(r, ops) ==
  /\ Fresh(r)
  /\ RepairAdmits(r, ops, TRUE)
  /\ RevisionStarts(r, ops) = {}
  /\ FinishAttempt(r, FALSE)
  /\ toAnswer' = toAnswer \ {r}
  /\ answered' = answered \cup {r}
  /\ UNCHANGED <<revision, delivered, batchVars, loopVars>>

\* It releases what it does not use ...
ReviseRelease(s) ==
  /\ \E o \in revision : Owner[o] = Owner[s]
  /\ s \notin Inputs(revision)
  /\ ReleaseSegment(s)
  /\ UNCHANGED <<toAnswer, answered, revision, planVars, batchVars, loopVars>>

Dropped(r) == Superseded(r)

\* ... and replaces the uncommitted operations, in the DAG and in the table.
ApplyRevision(r, start) ==
  /\ \E o \in revision : Owner[o] = r
  /\ IsLeast(start, RevisionStarts(r, revision))
  /\ Repair(r, revision, TRUE)
  /\ due' = due \ Dropped(r)
  /\ slotOf' = [o \in Op |-> CASE o \in revision -> start + Offset[o]
                               [] o \in Dropped(r) -> Unplanned
                               [] OTHER -> slotOf[o]]
  /\ terminals' = [terminals EXCEPT ![r] = Terminals(revision)]
  /\ revision' = {}
  /\ answered' = answered \cup {r}
  /\ toAnswer' = toAnswer \ {r}
  /\ UNCHANGED <<active, cleanup, finishedAt, delivered, attempts, outcomes, batchVars, loopVars>>

-----------------------------------------------------------------------------
(* _cleanup_finished_requests                                              *)

\* Mutant: the cleanup waits for operations that will never complete.
AllCompleted(r) == dags[r] \subseteq completed

Quiet(r) == OwnedBy(r, pending) = {}

Sweeping == at \in {"sweeping", "ending"}

\* Something is still in flight: only release what is free.
SweepBusy(r) ==
  /\ Sweeping
  /\ r \in sweep
  /\ ~Quiet(r)
  /\ ReleaseRequest(r)
  /\ sweep' = sweep \ {r}
  /\ UNCHANGED <<planVars, batchVars, replyVars, slot, at, back, moved>>

SweepQuiet(r) ==
  /\ Sweeping
  /\ r \in sweep
  /\ Quiet(r)
  /\ Unregister(r)
  /\ sweep' = sweep \ {r}
  /\ cleanup' = cleanup \ {r}
  /\ terminals' = [terminals EXCEPT ![r] = {}]
  /\ delivered' = [delivered EXCEPT ![r] = {}]
  /\ slotOf' = [o \in Op |-> IF Owner[o] = r THEN Unplanned ELSE slotOf[o]]
  /\ UNCHANGED <<active, finishedAt, due, attempts, outcomes, batchVars, replyVars, slot, at, back, moved>>

\* A call that made no progress ends the loop of the slot.
EndSweep ==
  /\ at = "sweeping"
  /\ sweep = {}
  /\ at' = IF moved THEN "running" ELSE "closing"
  /\ UNCHANGED <<vars, planVars, batchVars, replyVars, slot, back, moved, sweep>>

EndSlot ==
  /\ at = "ending"
  /\ sweep = {}
  /\ at' = "boundary"
  /\ slot' = slot + 1
  /\ UNCHANGED <<vars, planVars, batchVars, replyVars, back, moved, sweep>>

\* The episode is over.
Over ==
  /\ at = "boundary" /\ slot = HorizonSlots
  /\ UNCHANGED schedVars

-----------------------------------------------------------------------------

\* The scheduler's own work ...
Work ==
  \/ StartSlot \/ LaunchDue \/ RejectDue \/ AdvanceOnce \/ WaitOnce
  \/ ExecutorStep \/ ExecutorReturns \/ CloseSlot
  \/ \E o \in Op : ProcessSuccess(o) \/ ProcessFailure(o)
  \/ \E r \in Request : ProcessDoom(r)
  \/ EndProcessing
  \/ \E r \in Request : SweepBusy(r) \/ SweepQuiet(r)
  \/ EndSweep \/ EndSlot

\* ... and what it does with an answer of the policy, whatever the policy is.
Reply ==
  \/ \E r \in Request : Decline(r) \/ Continue(r)
  \/ \E s \in Op : ContinueRelease(s) \/ ReviseRelease(s)
  \/ \E r \in Request, s \in Op : Accept(r, s)
  \/ \E r \in Request : \E ops \in Repairs[r] : Revise(r, ops) \/ ReviseInfeasible(r, ops)
  \/ \E r \in Request, start \in 0 .. HorizonSlots : ApplyRevision(r, start)

\* One step of advance_to_slot.
Step == Work \/ Reply

SchedNext ==
  \/ \E r \in Request : \E ops \in Plans[r], start \in 0 .. HorizonSlots : Submit(r, ops, start)
  \/ Step
  \/ Over

SchedSpec == SchedInit /\ [][SchedNext]_schedVars

\* Once advance_to_slot has been called it runs to its end, and the controller
\* calls it until the horizon.
FairSchedSpec == SchedSpec /\ WF_schedVars(Step)

-----------------------------------------------------------------------------
(* Properties                                                              *)

AtRest == at \in {"boundary", "running"}

\* The scheduler's tables and the executor's registry name the same requests:
\* an ended attempt keeps its DAG and its slots until it is cleaned up, every
\* plan has exactly one outcome once it has ended, and no request is planned
\* again after it has completed (submit, _finish_attempt, _cleanup_finished_requests).
AttemptsAccounted ==
  /\ Registered = active \cup cleanup
  /\ active \cap cleanup = {}
  /\ {o \in Op : slotOf[o] # Unplanned} \subseteq Known
  /\ \A r \in Request : attempts[r] = outcomes[r] + Cardinality(active \cap {r})
  /\ \A r \in active : finishedAt[r] = Never

\* _due holds exactly the work that is late: the operations of live attempts
\* that a past slot was to launch and that are neither launched nor superseded.
\* None is forgotten by a revision, a rejection or a failed attempt.
DueExact ==
  at = "boundary" =>
    due = {o \in OfActive(Known) \ (completed \cup started \cup dead) : slotOf[o] < slot}

\* At rest no completed terminal pair of a live attempt is uncounted, a live
\* attempt still lacks a pair, and a request counts as served only when the
\* executor really completed the number of pairs it demands (_process_events).
DeliveriesCounted ==
  /\ \A r \in active \cup cleanup : delivered[r] \subseteq completed
  /\ AtRest => \A r \in active : /\ terminals[r] \cap completed \subseteq delivered[r]
                                 /\ ~(Cardinality(delivered[r]) >= DemandPairs[r])
  /\ \A r \in cleanup : finishedAt[r] # Never => Cardinality(delivered[r]) >= DemandPairs[r]

\* A finished attempt holds no memory it could give back when the scheduler
\* next chooses what to launch, even after a rejected launch, which no cleanup
\* follows; what completes late is released as well.
LateOutputsReleased ==
  AtRest => \A r \in cleanup : OwnedBy(r, segs) \subseteq Inputs(pending)

\* No attempt is active once its deadline has passed, and no request is served
\* after its deadline (_expire_deadlines, _process_events).  The slot tells the
\* time: the executor never stalls inside one, so that the second loop of
\* _run_slot has nothing to drain and no next call is refused.
DeadlinesHeld ==
  /\ at = "boundary" => now = slot * SlotLength /\ \A r \in active : Deadline[r] > slot
  /\ \A r \in Request : finishedAt[r] # Never => finishedAt[r] <= Deadline[r] * SlotLength

\* "Return ready work without letting later plans overtake older slots": no
\* step launches an operation of a slot while one of an older slot that is
\* ready is left behind (_ready_due_operations).
NoOvertaking ==
  [][\A o \in pending' \ pending : \A d \in due' \cap Ready : slotOf[d] >= slotOf[o]]_schedVars

\* A request whose attempt has ended is cleaned up, so it can be planned again.
CleanupEnds == \A r \in Request : r \in cleanup ~> r \notin cleanup

\* The episode reaches its horizon: no slot loops for ever, whatever fails,
\* is rejected, expires or is revised in it.
EpisodeEnds == <>(at = "boundary" /\ slot = HorizonSlots)

\* What makes the properties above inductive: where _run_slot is, ...
LoopPlace ==
  /\ slot \in 0 .. HorizonSlots
  /\ at # "boundary" => slot < HorizonSlots
  /\ at = "calling" <=> ~Idle
  /\ at \notin {"calling", "processing"} => succeeded \cup failed \cup lapsed = {}
  /\ at # "processing" => doomed = {} /\ toAnswer = {}
  /\ at = "processing" => back \in {"running", "sweeping", "ending"}
  /\ Sweeping => sweep \subseteq cleanup

\* ... which requests the policy is asked about and which one it revises, ...
RepliesOpen ==
  /\ toAnswer \subseteq active
  /\ revision # {} =>
       \E r \in toAnswer : revision \in Repairs[r] /\ \A o \in revision : Owner[o] = r

\* ... that every call of the executor makes progress, ...
CallsProgress ==
  /\ at = "calling" => back = "sweeping" /\ (moved \/ succeeded \cup failed \cup todo # {})
  /\ at = "sweeping" \/ (at = "processing" /\ back = "sweeping") => moved
  /\ at # "closing"

Closing == at = "ending" \/ (at = "processing" /\ back = "ending")

\* ... that the clock stays inside the slot, ...
SlotClock ==
  /\ slot * SlotLength <= now
  /\ at = "boundary" => now = slot * SlotLength
  /\ at # "boundary" => now <= SlotEnd
  /\ Closing => now = SlotEnd

DeadlinesWatched ==
  /\ at = "boundary" => \A r \in active : Deadline[r] > slot
  /\ Closing => \A r \in active \ doomed : Deadline[r] > slot + 1
  /\ \A r \in Request : finishedAt[r] # Never => finishedAt[r] <= Deadline[r] * SlotLength

\* ... what is due, and that nothing is launched before its slot, ...
SlotReached(o) == slotOf[o] < slot \/ (at # "boundary" /\ slotOf[o] = slot)

DueNow ==
  /\ due = {o \in OfActive(Known) \ (completed \cup started \cup dead) : SlotReached(o)}
  /\ \A o \in completed \cup started \cup dead : slotOf[o] # Unplanned => SlotReached(o)

\* ... what the events still to be processed account for.
DeliveriesNow ==
  /\ succeeded \subseteq completed
  /\ \A r \in Request : \A o \in terminals[r] \cup delivered[r] : Owner[o] = r
  /\ \A r \in active \cup cleanup : delivered[r] \subseteq completed
  /\ \A r \in active : /\ terminals[r] \cap completed \subseteq delivered[r] \cup succeeded
                       /\ ~(Cardinality(delivered[r]) >= DemandPairs[r])
  /\ \A r \in cleanup : finishedAt[r] # Never => Cardinality(delivered[r]) >= DemandPairs[r]

OutputsNow ==
  \A r \in cleanup : \/ OwnedBy(r, segs) \subseteq Inputs(InFlight)
                     \/ \E o \in succeeded : Owner[o] = r

\* The type of the scheduler's own tables.
ScheduleTypeOK ==
  /\ active \subseteq Request /\ cleanup \subseteq Request
  /\ finishedAt \in [Request -> Nat]
  /\ terminals \in [Request -> SUBSET Op] /\ delivered \in [Request -> SUBSET Op]
  /\ slotOf \in [Op -> Nat]
  /\ due \subseteq Op
  /\ attempts \in [Request -> Nat] /\ outcomes \in [Request -> Nat]

\* The inductive invariant of the scheduler.
ScheduleSound ==
  /\ ScheduleTypeOK
  /\ LoopPlace
  /\ RepliesOpen
  /\ CallsProgress
  /\ SlotClock
  /\ DeadlinesWatched
  /\ AttemptsAccounted
  /\ DueNow
  /\ DeliveriesNow
  /\ OutputsNow
  /\ WindowsHeld

=============================================================================
