-------------------------- MODULE LaunchTransaction --------------------------
(***************************************************************************)
(* SequenceConstructionExecutor.launch step by step.  ConstructionExecutor *)
(* takes a launch to be atomic; here it marks the operations in the DAGs,  *)
(* starts the protocols one after the other and commits, and an exception  *)
(* may be raised at any point, in which case everything is taken back and  *)
(* the exception reaches the caller, who may go on using the executor.     *)
(*                                                                         *)
(* A swap measures its inputs when it starts, so cancelling it returns     *)
(* them to the registry but not always to life; a purification saves the   *)
(* states of its inputs and puts them back.                                *)
(***************************************************************************)
EXTENDS ConstructionExecutor

VARIABLES
  stage,     \* "none" outside launch, else where it is
  batch,     \* the operations being launched
  marked,    \* marked_started
  joined,    \* prepared_swaps and prepared_purifications
  claimed,   \* generation claims begin_generation has dealt with
  prepared,  \* those it has started protocols for
  spoiled,   \* inputs of started swaps whose memories were measured
  before     \* markers and protected pairs when launch was called, while it works

txnVars == <<stage, batch, marked, joined, claimed, prepared, spoiled, before>>
launchVars == <<vars, txnVars>>

Stage == {"none", "marking", "joining", "generating", "cancelling", "undoing"}

TxnInit ==
  /\ Init
  /\ stage = "none"
  /\ batch = {} /\ marked = {} /\ joined = {} /\ claimed = {} /\ prepared = {}
  /\ spoiled = {} /\ before = <<{}, {}>>

Leave ==
  /\ stage' = "none"
  /\ batch' = {} /\ marked' = {} /\ joined' = {} /\ claimed' = {}
  /\ spoiled' = {} /\ before' = <<{}, {}>>

\* The least of S in canonical order.
First(o, S) == o \in S /\ \A p \in S : Rank[o] <= Rank[p]

\* _validate_launch has accepted the operations.
BeginLaunch(ops) ==
  /\ stage = "none"
  /\ Idle
  /\ LaunchAdmits(ops)
  /\ stage' = "marking"
  /\ batch' = ops
  /\ before' = <<started, owned>>
  /\ Refresh(segs, expired, expiry, now)
  /\ UNCHANGED <<dagVars, markVars, owned, runVars, now, terminated, callVars,
                 marked, joined, claimed, prepared, spoiled>>

\* mark_started checks readiness again.
Mark(o) ==
  /\ stage = "marking"
  /\ First(o, batch \ marked)
  /\ o \in Ready
  /\ started' = started \cup {o}
  /\ marked' = marked \cup {o}
  /\ stage' = IF marked' = batch THEN "joining" ELSE stage
  /\ UNCHANGED <<dagVars, completed, dead, pairVars, owned, runVars, now, terminated, callVars,
                 batch, joined, claimed, prepared, spoiled, before>>

\* Purifications first, then swaps.
NextJoin == IF Purifies(batch) \ joined # {} THEN Purifies(batch) \ joined ELSE Swaps(batch) \ joined

\* Starting a swap may measure its inputs at once.
Measured(o) == IF Kind[o] = "SWAP" THEN {{}, Ins[o]} ELSE {{}}

\* begin_purification and begin_swap protect the inputs and start a protocol.
Join(o) ==
  /\ stage = "joining"
  /\ First(o, NextJoin)
  /\ Joins(o)
  /\ owned' = owned \cup Ins[o]
  /\ joined' = joined \cup {o}
  /\ spoiled' \in {spoiled \cup m : m \in Measured(o)}
  /\ UNCHANGED <<dagVars, markVars, pairVars, runVars, now, terminated, callVars,
                 stage, batch, marked, claimed, prepared, before>>

BeginGenerations ==
  /\ stage = "joining"
  /\ NextJoin = {}
  /\ stage' = "generating"
  /\ UNCHANGED <<vars, batch, marked, joined, claimed, prepared, spoiled, before>>

\* One claim of begin_generation: refused, or its protocols are started.
Generate(o) ==
  /\ stage = "generating"
  /\ First(o, Gens(batch) \ claimed)
  /\ claimed' = claimed \cup {o}
  /\ prepared' = IF MemoryFree(o, prepared) THEN prepared \cup {o} ELSE prepared
  /\ UNCHANGED <<vars, stage, batch, marked, joined, spoiled, before>>

\* Every protocol runs: the launch is recorded.
Commit ==
  /\ stage = "generating"
  /\ claimed = Gens(batch)
  /\ LET running == joined \cup prepared
     IN  \E length \in [running -> 1 .. Window] :
           endsAt' = [o \in Op |-> IF o \in running THEN now + length[o] ELSE endsAt[o]]
  /\ pending' = pending \cup batch
  /\ startedAt' = [o \in Op |-> IF o \in batch THEN now ELSE startedAt[o]]
  /\ \E claim \in LaneClaims(batch) :
       /\ lane' = [o \in Op |-> IF o \in Gens(batch) THEN claim[o] ELSE lane[o]]
       /\ busyLanes' = [e \in Edge |-> busyLanes[e] \cup {claim[o] : o \in OnEdge(Gens(batch), e)}]
  /\ Leave
  /\ prepared' = {}
  /\ UNCHANGED <<dagVars, markVars, pairVars, owned, now, terminated, callVars>>

-----------------------------------------------------------------------------
(* The exception                                                           *)

\* Mutant: launch cancels the handles it has, and it has none yet.
TrustLaunch == "undoing"

\* begin_generation cancels what it has started itself: its caller has not
\* received the handles yet.
Interrupted == IF claimed \notin {{}, Gens(batch)} THEN "cancelling" ELSE "undoing"

\* begin_swap may raise after it has measured; it drops the protection it has
\* taken, not the measurement.
HalfMeasured ==
  {{}} \cup (IF stage = "joining" THEN UNION {Measured(o) : o \in {p \in NextJoin : First(p, NextJoin)}} ELSE {})

Raise ==
  /\ stage \in {"marking", "joining", "generating"}
  /\ stage' = IF stage = "generating" THEN Interrupted ELSE "undoing"
  /\ spoiled' \in {spoiled \cup m : m \in HalfMeasured}
  /\ UNCHANGED <<vars, batch, marked, joined, claimed, prepared, before>>

CancelWithin ==
  /\ stage = "cancelling"
  /\ prepared' = {}
  /\ claimed' = {}
  /\ stage' = "undoing"
  /\ UNCHANGED <<vars, batch, marked, joined, spoiled, before>>

Unmarked == marked

\* Mutant: the operations of a failed launch are dead.
Abandon ==
  /\ stage = "undoing"
  /\ marked # {}
  /\ started' = started \ marked
  /\ dead' = dead \cup marked
  /\ marked' = {}
  /\ UNCHANGED <<dagVars, completed, pairVars, owned, runVars, now, terminated, callVars,
                 stage, batch, joined, claimed, prepared, spoiled, before>>

\* rollback_started
Rollback ==
  /\ stage = "undoing"
  /\ marked # {}
  /\ started' = started \ Unmarked
  /\ marked' = {}
  /\ UNCHANGED <<dagVars, completed, dead, pairVars, owned, runVars, now, terminated, callVars,
                 stage, batch, joined, claimed, prepared, spoiled, before>>

Unprotected == Inputs(joined)

\* cancel_swap and cancel_purification: a measured pair is dead, the next
\* refresh will notice it.
CancelJoins ==
  /\ stage = "undoing"
  /\ marked = {}
  /\ joined \cup spoiled # {}
  /\ owned' = owned \ Unprotected
  /\ expiry' = [p \in Op |-> IF p \in spoiled THEN now ELSE expiry[p]]
  /\ joined' = {}
  /\ spoiled' = {}
  /\ UNCHANGED <<dagVars, markVars, segs, expired, runVars, now, terminated, callVars,
                 stage, batch, marked, claimed, prepared, before>>

\* The handles launch has: all of them or none.
Handles == IF claimed = Gens(batch) THEN prepared ELSE {}

CancelHandles ==
  /\ stage = "undoing"
  /\ marked = {} /\ joined \cup spoiled = {}
  /\ prepared' = prepared \ Handles
  /\ Leave
  /\ UNCHANGED vars

-----------------------------------------------------------------------------
(* The other methods, between launches                                     *)

\* advance_to_next_event returns at once when a segment is gone.
ReportLost ==
  /\ Idle
  /\ ~terminated
  /\ expired # {} \/ \E s \in segs : ~Alive(s, now)
  /\ RefreshAndReport(now)
  /\ UNCHANGED <<dagVars, markVars, owned, runVars, now, terminated, callVars>>

Other ==
  \/ \E r \in Request : \E ops \in Plans[r] : Register(r, ops)
  \/ \E r \in Request : Unregister(r) \/ ReleaseRequest(r)
  \/ \E r \in Request : \E ops \in Repairs[r], supersede \in BOOLEAN : Repair(r, ops, supersede)
  \/ \E s \in Op : ReleaseSegment(s)
  \/ \E bound \in now .. Horizon : Advance(bound) \/ WaitUntil(bound)
  \/ Finish \/ BeginTimeout \/ Settle \/ ReportLost

TxnNext ==
  \/ \E ops \in SUBSET Ready : BeginLaunch(ops)
  \/ \E o \in batch : Mark(o) \/ Join(o) \/ Generate(o)
  \/ BeginGenerations \/ Commit
  \/ Raise \/ CancelWithin \/ Rollback \/ CancelJoins \/ CancelHandles
  \/ stage = "none" /\ Other /\ UNCHANGED txnVars

TxnSpec == TxnInit /\ [][TxnNext]_launchVars

-----------------------------------------------------------------------------
(* Properties                                                              *)

\* An exception leaves no trace: when launch has raised, the markers and the
\* protected pairs are those of the call, and no generation protocol is left
\* running without an operation in flight (the handlers in launch, begin_swap,
\* begin_purification and begin_generation).
LaunchAllOrNothing ==
  [][stage = "undoing" /\ stage' = "none" =>
       <<started', owned'>> = before /\ prepared' = {}]_launchVars

\* Hidden until the commit, a launch is one step of the contract: either all
\* operations start or, when it fails, at most some free segments are lost.
Hidden(o) == IF o \in marked THEN "waiting" ELSE Status(o)

Atomic == INSTANCE ConstructionContract
            WITH status <- [o \in Op |-> Hidden(o)], live <- segs

LaunchImplementsContract == Atomic!Spec

\* What makes the properties above inductive: behind the markers and the
\* protections that launch has not committed yet, the executor's registries
\* agree as they do between two calls ...
StartedBefore == started \ marked
OwnedBefore   == owned \ Inputs(joined)

HiddenSound ==
  /\ TypeOK
  /\ LoopShape
  /\ DagsOwned
  /\ \A o \in completed \cup StartedBefore : \A i \in Ins[o] : i \in completed /\ Owner[i] = Owner[o]
  /\ StartedBefore = InFlight
  /\ completed \cap dead = {} /\ StartedBefore \cap (completed \cup dead) = {}
  /\ completed \cup StartedBefore \cup dead \subseteq Known
  /\ SegmentProvenance
  /\ Pairs = segs
  /\ OwnedBefore = Inputs(Joining)
  /\ InputsExclusive
  /\ CapacityRespected

\* ... a measured pair can be dated now, for no operation ends at time 0 ...
ClockRuns == segs # {} \/ todo # {} => now > 0

\* ... the handler finds in launch's own records what launch has done ...
Undoable ==
  /\ stage \in Stage
  /\ stage = "none" => batch = {}
  /\ stage # "none" => before = <<StartedBefore, OwnedBefore>>
  /\ marked \subseteq batch \cap started
  /\ joined \subseteq Swaps(batch) \cup Purifies(batch)
  /\ Inputs(joined) \subseteq owned
  /\ spoiled \subseteq Inputs(batch)
  /\ prepared \subseteq claimed /\ claimed \subseteq Gens(batch)
  /\ stage \in {"marking", "joining"} => claimed = {}
  /\ stage \in {"joining", "generating"} => marked = batch
  /\ stage = "generating" => joined = Swaps(batch) \cup Purifies(batch)
  /\ stage = "undoing" => claimed = Gens(batch) \/ prepared = {}

\* ... and what _validate_launch admitted is admitted until the commit.
StillAdmitted ==
  stage # "none" =>
    /\ Idle
    /\ batch # {}
    /\ batch \subseteq Known \ (completed \cup dead \cup StartedBefore)
    /\ \A o \in batch :
         /\ Preds[o] \subseteq completed
         /\ Ins[o] \subseteq segs \ Inputs(pending)
         /\ \A i \in Ins[o] : Owner[i] = Owner[o]
    /\ InputsUnique(batch)
    /\ \A r \in Resource : Usage(segs, pending \cup batch, r) <= Capacity[r]

TransactionSound == HiddenSound /\ ClockRuns /\ Undoable /\ StillAdmitted

=============================================================================
