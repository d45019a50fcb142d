-------------------------- MODULE OnlineController --------------------------
(***************************************************************************)
(* OnlineExecutionController: at every decision slot it withdraws the      *)
(* requests whose deadline has passed, offers the others to a planner, who *)
(* chooses plans that fit beside what is reserved, submits them, and lets  *)
(* the persistent scheduler run to the next decision slot.                 *)
(*   decide --> submit --> advance --> decide ... --> settled              *)
(* The planner is any one that respects the reservations: it may choose    *)
(* every selection the greedy projection can return.                       *)
(***************************************************************************)
EXTENDS PersistentScheduler, TimeExpansion

LOCAL INSTANCE FiniteSetsExt
LOCAL INSTANCE Sequences
LOCAL INSTANCE TLC

CONSTANT Interval  \* decision_interval

\* A plan is placed as build_nominal_schedule lays out its candidate.
ASSUME ControllerAssumption ==
  /\ Interval \in Nat \ {0}
  /\ Candidate = UNION {Plans[r] : r \in Request}
  /\ \A r \in Request : \A ops \in Plans[r] :
       Expandable(ops, Terminals(ops)) /\ \A o \in ops : Offset[o] = NominalRounds[ops][o]

VARIABLES
  turn,       \* where run() is
  target,     \* slot the scheduler advances to
  chosen,     \* selected variables that are still to be submitted
  running,    \* _running_variables
  withdrawn,  \* requests in _expired_times
  records,    \* _attempts of a request: the slot of the decision and the result
  settledAt   \* settlement time of a request, Never before the end

tableVars == <<running, withdrawn, records, settledAt>>
ctrlVars  == <<turn, target, chosen, tableVars>>
onlineVars == <<schedVars, ctrlVars>>

Slots == 0 .. HorizonSlots - 1

OnlineInit ==
  /\ SchedInit
  /\ turn = "decide"
  /\ target = 0
  /\ chosen = {} /\ running = {} /\ withdrawn = {}
  /\ records = [r \in Request |-> <<>>]
  /\ settledAt = [r \in Request |-> Never]

IsRunning(r) == \E v \in running : v.request = r

Completed == {r \in Request : finishedAt[r] # Never}

-----------------------------------------------------------------------------
(* physical_reservations_by_request, at a decision slot                    *)

Units(S) == Cardinality(S)

\* Live segments and operations in flight, in the current slot.
HeldNow(q, r) == Usage(OwnedBy(q, segs), OwnedBy(q, pending), r)

\* The last slot an operation in flight is predicted to need.
FinalSlot(o) == IF Nominal(o) > now THEN (Nominal(o) - 1) \div SlotLength ELSE slot

\* In a later slot: the operations predicted to be still in flight, each with
\* the segments it consumes.
HeldLater(q, r, s) ==
  LET late == {o \in OwnedBy(q, pending) : s <= FinalSlot(o)}
  IN  Units({o \in late : r \in Demand[o]}) + Units({i \in Inputs(late) \cap segs : r \in Hold[i]})

\* Work of an earlier slot that is not launched, or not finished.
Lagging(q) == OwnedBy(q, OfActive(due \cup {o \in pending : slotOf[o] < slot}))

\* What an operation needs at the most while it is launched and settled.
Envelope(o, r) ==
  Max({Units({d \in {o} : r \in Demand[d]}) + Units({i \in Ins[o] : r \in Hold[i]}),
       Units({d \in {o} : r \in Hold[d]})})

LagEnvelope(q, r) == Min({Capacity[r], MapThenSumSet(LAMBDA o : Envelope(o, r), Lagging(q))})

\* The operations of the latest revision of q, and what they will use.
Suffix(q) == IF q \notin active THEN {} ELSE {o \in dags[q] : version[q] > 0 /\ Version[o] = version[q]}

HeldBySuffix(i, q, s) ==
  \E c \in Consumers(i, Suffix(q)) : s <= slotOf[c] /\ (i \in Suffix(q) => slotOf[i] < s)

Adaptive(q, r, s) ==
  Min({Capacity[r], Units({o \in Suffix(q) : slotOf[o] = s /\ r \in Demand[o]})
                      + Units({i \in dags[q] : r \in Hold[i] /\ HeldBySuffix(i, q, s)})})

PhysicalReservation(q, r, s) ==
  Max({IF s = slot THEN HeldNow(q, r) ELSE HeldLater(q, r, s), LagEnvelope(q, r), Adaptive(q, r, s)})

-----------------------------------------------------------------------------
(* _decision                                                               *)

\* Usage of the plan that q is running, in slot s.
PlannedUsage(q, r, s) == SelectionUsage({v \in running : v.request = q}, <<r, s>>)

RequestUsage(q, r, s) == Max({PlannedUsage(q, r, s), PhysicalReservation(q, r, s)})

\* _reserved_usage (@@ has TLC compute the table once).
Reserved ==
  <<>> @@ [x \in Resource \X (slot .. HorizonSlots - 1) |->
     Min({Capacity[x[1]], MapThenSumSet(LAMBDA q : RequestUsage(q, x[1], x[2]), Request)})]

\* _expire_waiting_requests.
Expiring(s) == {r \in Request : r \notin Completed /\ ~IsRunning(r) /\ Deadline[r] <= s}

\* _eligible_requests, once the waiting requests have expired.
Eligible ==
  {r \in Request : /\ Arrival[r] <= slot
                   /\ Deadline[r] > slot
                   /\ ~IsRunning(r)
                   /\ r \notin withdrawn
                   /\ CanSubmit(r)}

\* expand_construction_candidates: the variables that start before w.
Variables(w, reserved) ==
  {v \in UNION {[request : {r}, ops : Plans[r], start : slot .. w - 1] : r \in Eligible} :
     /\ v.start \in StartRange(slot, w, Limit(v.request), DurationRounds(v.ops, Terminals(v.ops)))
     /\ Room(v, reserved)}

\* Mutant: the last decision looks past the horizon.
PastHorizon == slot + Interval

NextDecision == Min({HorizonSlots, slot + Interval})

Decide ==
  /\ turn = "decide"
  /\ slot < HorizonSlots
  /\ withdrawn' = withdrawn \cup Expiring(slot)
  /\ \E reserved \in {Reserved} :
       \E S \in SUBSET {v \in Variables(NextDecision, reserved) : attempts[v.request] < MaxAttempts} :
         /\ SelectionFits(S, reserved)
         /\ chosen' = S
  /\ target' = NextDecision
  /\ turn' = "submit"
  /\ UNCHANGED <<schedVars, running, records, settledAt>>

\* The plans of one decision are submitted together, in order of request.
SubmitChosen ==
  /\ turn = "submit"
  /\ \E v \in chosen :
       /\ Submit(v.request, v.ops, v.start)
       /\ chosen' = chosen \ {v}
       /\ running' = running \cup {v}
       /\ records' = [records EXCEPT ![v.request] = Append(@, [decided |-> slot, result |-> "open"])]
  /\ UNCHANGED <<turn, target, withdrawn, settledAt>>

BeginAdvance ==
  /\ turn = "submit"
  /\ chosen = {}
  /\ turn' = "advance"
  /\ UNCHANGED <<schedVars, target, chosen, tableVars>>

\* advance_to_slot(target).
Reached == at = "boundary" /\ slot = target

AdvanceStep ==
  /\ turn = "advance"
  /\ ~Reached
  /\ Step
  /\ UNCHANGED ctrlVars

\* Mutant: only a successful outcome ends a running attempt.
Successful(r) == outcomes[r] = attempts[r] /\ finishedAt[r] # Never

\* The scheduler has reported an outcome of the latest attempt of r.
Reported(r) == outcomes[r] = attempts[r]

Latest(r) == Len(records[r])

Closed(r, result) == [records[r] EXCEPT ![Latest(r)].result = result]

ProcessUpdate ==
  /\ turn = "advance"
  /\ Reached
  /\ running' = {v \in running : ~Reported(v.request)}
  /\ records' = [r \in Request |->
       IF IsRunning(r) /\ Reported(r)
       THEN Closed(r, IF finishedAt[r] # Never THEN "success" ELSE "failure")
       ELSE records[r]]
  /\ turn' = "decide"
  /\ UNCHANGED <<schedVars, target, chosen, withdrawn, settledAt>>

\* Mutant: a request without a deadline in the horizon is settled after it.
AtItsDeadline(r) == IF r \in Completed THEN finishedAt[r] ELSE Deadline[r] * SlotLength

SettlementTime(r) ==
  IF r \in Completed THEN finishedAt[r]
  ELSE Min({Deadline[r], HorizonSlots}) * SlotLength

\* The end of run(): what is still running has failed with the horizon.
Finalize ==
  /\ turn = "decide"
  /\ slot = HorizonSlots
  /\ withdrawn' = withdrawn \cup Expiring(HorizonSlots)
  /\ records' = [r \in Request |-> IF IsRunning(r) THEN Closed(r, "failure") ELSE records[r]]
  /\ settledAt' = [r \in Request |-> SettlementTime(r)]
  /\ turn' = "settled"
  /\ UNCHANGED <<schedVars, target, chosen, running>>

Settled == turn = "settled" /\ UNCHANGED onlineVars

OnlineNext ==
  Decide \/ SubmitChosen \/ BeginAdvance \/ AdvanceStep \/ ProcessUpdate \/ Finalize \/ Settled

OnlineSpec == OnlineInit /\ [][OnlineNext]_onlineVars

\* run() is one sequential program.
FairOnlineSpec == OnlineSpec /\ WF_onlineVars(OnlineNext)

-----------------------------------------------------------------------------
(* Properties                                                              *)

\* Two tables kept by different objects name the same requests whenever the
\* planner is asked: a request is running for the controller exactly while the
\* scheduler has an attempt of it, also when the attempt ended between two
\* decisions, and a withdrawn request is neither running nor ever served
\* (_process_update, _expire_waiting_requests).
TablesAgree ==
  /\ turn = "decide" => {v.request : v \in running} = active
  /\ withdrawn \cap (active \cup Completed) = {}

\* When protocols fit into their slot, every operation of a live attempt is
\* launched in the slot it was planned for: the plans admitted one after the
\* other, each beside what was reserved at its decision, never compete.
AdmittedOnTime == at = "boundary" => OfActive(due) = {}

\* At the end the records of a request tell what happened: one per plan
\* submitted, a success exactly when it was served, nothing after a success,
\* none left open, and it is settled when it was served or at its limit.
RecordsSettled ==
  turn = "settled" => \A r \in Request :
    /\ Latest(r) = attempts[r]
    /\ \A k \in 1 .. Latest(r) :
         /\ records[r][k].result # "open"
         /\ records[r][k].result = "success" <=> k = attempts[r] /\ r \in Completed
    /\ settledAt[r] <= Limit(r) * SlotLength

\* Every request is settled at last, whatever fails, lags or expires: the
\* controller's decisions and the scheduler's slots both come to an end.
AllSettled == <>(turn = "settled")

\* "so a new plan cannot seize resources already promised to the fixed running
\* plan": what is ready and late is never kept from its resources by an
\* attempt submitted later (physical_reservations_by_request).
DecidedAt(o) == records[Owner[o]][Latest(Owner[o])].decided

Newer(d) == {o \in Known : DecidedAt(o) > DecidedAt(d)}

NothingSeized ==
  Running => \A d \in OfActive(due \cap Ready) :
    WithinCapacity(segs \ Newer(d), (pending \ Newer(d)) \cup {d}) => WithinCapacity(segs, pending \cup {d})

\* What makes TablesAgree and RecordsSettled inductive: who is running, ...
RunningNow ==
  /\ turn \in {"decide", "submit", "advance", "settled"}
  /\ turn # "submit" => chosen = {}
  /\ turn # "advance" => at = "boundary" /\ {v.request : v \in running} = active
  /\ active \subseteq {v.request : v \in running}
  /\ \A v \in running : v.request \in Request

\* ... what may still be submitted, ...
ChosenNow ==
  \A v \in chosen :
    /\ v.request \in Request /\ v.ops \in Plans[v.request] /\ v.start \in Nat
    /\ v.request \notin withdrawn /\ ~IsRunning(v.request) /\ v.request \notin Completed
    /\ \A w \in chosen : v # w => v.request # w.request

\* ... and what the records say before the end.
LatestResult(r) ==
  IF IsRunning(r) THEN "open" ELSE IF r \in Completed THEN "success" ELSE "failure"

RecordsNow ==
  /\ records \in [Request -> Seq([decided : Nat, result : {"open", "success", "failure"}])]
  /\ \A r \in Request :
       /\ Latest(r) = attempts[r]
       /\ IsRunning(r) \/ r \in Completed => attempts[r] > 0
       /\ r \in Completed => finishedAt[r] <= Horizon
       /\ turn # "settled" => \A k \in 1 .. Latest(r) :
            records[r][k].result = IF k < Latest(r) THEN "failure" ELSE LatestResult(r)

\* The inductive invariant of the controller.
ControllerSound ==
  /\ RunningNow
  /\ ChosenNow
  /\ RecordsNow
  /\ TablesAgree
  /\ RecordsSettled

=============================================================================
