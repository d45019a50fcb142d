---------------------------- MODULE TimeExpansion ----------------------------
(***************************************************************************)
(* Nominal resource-time expansion of construction candidates and packing  *)
(* (time_expansion.py, packing.py): a candidate DAG is laid out in rounds, *)
(* one operation per round, every feasible start shifts that layout into   *)
(* the horizon, and a selection takes at most one start per request within *)
(* the capacities the reservations leave.                                  *)
(*                                                                         *)
(* A candidate is the set of its operations; a variable, one choice of the *)
(* planner, is a record of a request, a candidate and a start slot.        *)
(***************************************************************************)
EXTENDS ConstructionOperations, FiniteSetsExt

CONSTANT Candidate  \* the candidates the planner is given

Dependencies(o, ops) == (Preds[o] \cup Ins[o]) \cap ops

\* The round of an operation that has none yet.
Unplaced == -1

Placed(round) == {o \in DOMAIN round : round[o] # Unplaced}

\* The operations the topological order may take next, and the one it takes.
Placeable(round, ops) == {o \in ops \ Placed(round) : Dependencies(o, ops) \subseteq Placed(round)}

NextInOrder(round, ops) ==
  CHOOSE o \in Placeable(round, ops) : \A p \in Placeable(round, ops) : Rank[o] <= Rank[p]

EarliestRound(o, round, ops) ==
  IF Dependencies(o, ops) = {} THEN 0 ELSE 1 + Max({round[d] : d \in Dependencies(o, ops)})

\* A swap waits for a round in which no earlier one uses any of its nodes.
RoundOf(o, round, ops) ==
  LET earliest == EarliestRound(o, round, ops)
      Taken(t) == \E p \in Swaps(Placed(round)) : round[p] = t /\ Nodes[p] \cap Nodes[o] # {}
  IN  IF Kind[o] # "SWAP" THEN earliest
      ELSE Min({t \in earliest .. earliest + Cardinality(ops) : ~Taken(t)})

\* When none is ready the rest depends on itself and stays without a round.
PlaceNext(round, ops) ==
  LET o == NextInOrder(round, ops)
  IN  IF Placeable(round, ops) = {} THEN round ELSE [round EXCEPT ![o] = RoundOf(o, round, ops)]

\* operation_slots of the nominal schedule.
Layout(ops) ==
  LET layout[n \in 0 .. Cardinality(ops)] ==
        IF n = 0 THEN [o \in ops |-> Unplaced] ELSE PlaceNext(layout[n - 1], ops)
  IN  layout[Cardinality(ops)]

NominalRounds == [ops \in Candidate |-> Layout(ops)]

Consumers(o, ops) == {c \in ops : o \in Ins[c]}

\* Mutant: an output is charged only until the round before its consumer.
HeldBefore(o, t, round, ops) == \E c \in Consumers(o, ops) : round[o] < t /\ t < round[c]

\* The output of o is held in round t; a terminal output is not charged.
HeldIn(o, t, round, ops) == \E c \in Consumers(o, ops) : round[o] < t /\ t <= round[c]

\* Units of r that operations laid out like this use in round t.
UsageIn(round, r, t) ==
  Cardinality({o \in DOMAIN round : round[o] = t /\ r \in Demand[o]})
    + Cardinality({o \in DOMAIN round : r \in Hold[o] /\ HeldIn(o, t, round, DOMAIN round)})

NominalUsage(ops, r, t) == UsageIn(NominalRounds[ops], r, t)

\* duration_slots: the round after the last terminal segment is produced.
DurationRounds(ops, ends) == 1 + Max({NominalRounds[ops][o] : o \in ends})

\* What build_nominal_schedule asks of a candidate, a finite set of operations:
\* every operation has a round, so that no dependency is circular, and none
\* comes after the last terminal one.
Expandable(ops, ends) ==
  \E round \in {NominalRounds[ops]} :
    /\ IsFiniteSet(ops) /\ ends # {} /\ ends \subseteq ops
    /\ \A o \in ops : Cardinality(Consumers(o, ops)) <= 1
    /\ \A o \in ops : \E e \in ends : round[o] \in 0 .. round[e]

-----------------------------------------------------------------------------
(* Start slots and selections.  reserved[r, s] is what others hold of r in *)
(* slot s; use maps a variable to its duration and its usage per round.    *)

\* Starts in the window whose completion lies before the limit.
StartRange(first, last, limit, duration) == first .. Min({last - 1, limit - duration})

\* A variable fits beside the reservations.
Room(v, reserved) ==
  \A x \in DOMAIN reserved :
    x[2] >= v.start => NominalUsage(v.ops, x[1], x[2] - v.start) + reserved[x] <= Capacity[x[1]]

\* Units of x[1] the variables of S use in slot x[2].
SelectionUsage(S, x) ==
  MapThenSumSet(LAMBDA v : IF x[2] < v.start THEN 0 ELSE NominalUsage(v.ops, x[1], x[2] - v.start), S)

\* validate_packing_selection, and what the greedy projection keeps to: its
\* result is some feasible selection, and each is its result for some scores.
SelectionFits(S, reserved) ==
  /\ \A v, w \in S : v # w => v.request # w.request
  /\ \A x \in DOMAIN reserved : SelectionUsage(S, x) + reserved[x] <= Capacity[x[1]]

=============================================================================
