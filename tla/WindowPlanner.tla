---------------------------- MODULE WindowPlanner ----------------------------
(***************************************************************************)
(* Planning one window of start slots, by one of the planners.             *)
(*                                                                         *)
(* Q-CAST (online_planner.py) goes through the slots of the window: it     *)
(* picks major paths on what is left of the network, then recovery paths,  *)
(* compiles them, and commits what the time expansion accepts.             *)
(*   open --> major --> recovery --> open ... --> done                     *)
(* The baselines (baselines/planner.py) compile a catalogue of candidates, *)
(* expand it, and try the variables one by one in the order of the method. *)
(*   open --> select --> done                                              *)
(* A candidate that the expansion cannot lay out ends both (refused).      *)
(* A plan is a candidate with its usage per round; a variable is a plan of *)
(* a request with its start.                                               *)
(***************************************************************************)
EXTENDS PlanCompiler, QcastRoutes

CONSTANTS
  Node, Edge, Request, MemoryCapacity, MaxWidth, NodeMemoryCapacity,
  Ends,         \* source and destination of a request, a sequence
  Arrival,      \* arrival slot of a request
  Deadline,     \* slot by which a request has to be completed
  Pairs,        \* demand_pairs of a request, for the baselines
  PlainReach,   \* hops up to which a request needs no purification
  PureReach,    \* hops up to which purification is enough for it
  Methods,      \* the planners
  Reservations, \* what others may hold: functions from (resource, slot) to units
  WindowStart,  \* the first start slot
  WindowEnd,    \* the slot after the last start slot
  LastSlot,     \* completion_end_slot
  SpanLimit,    \* recovery_span_limit
  MaxHops,      \* max_search_hops
  PathCount,    \* path_candidate_count
  TreeCount,    \* swap_tree_count
  CostLimit,    \* average path cost of best_fifo's history, in pairs
  MaxLinks      \* links up to which swap trees are compared

ASSUME PlannerAssumption ==
  /\ IsFiniteSet(Request)
  /\ IsFiniteSet(Node)
  /\ Edge \subseteq {{a, b} : a, b \in Node}
  /\ MemoryCapacity \in Nat /\ MaxWidth \in Nat /\ NodeMemoryCapacity \in Nat
  /\ \A r \in Request : Arrival[r] \in Nat /\ Deadline[r] \in Nat
  /\ WindowStart \in Nat /\ WindowEnd \in Nat /\ LastSlot \in Nat
  /\ WindowStart < WindowEnd /\ WindowEnd <= LastSlot

\* The operations of a DAG, laid out and charged as TimeExpansion says.
Plan(dag) == INSTANCE TimeExpansion WITH
  Op <- DOMAIN dag,
  Kind <- [o \in DOMAIN dag |-> dag[o].kind],
  Owner <- [o \in DOMAIN dag |-> CHOOSE r \in Request : TRUE],
  Preds <- [o \in DOMAIN dag |-> dag[o].preds],
  Ins <- [o \in DOMAIN dag |-> dag[o].ins],
  Ends <- [o \in DOMAIN dag |-> dag[o].ends],
  Version <- [o \in DOMAIN dag |-> 0],
  Rank <- [o \in DOMAIN dag |-> dag[o].rank],
  Duration <- [o \in DOMAIN dag |-> 1],
  Candidate <- {DOMAIN dag}

Resource == Plan(<<>>)!Resource
Capacity == Plan(<<>>)!Capacity
Slots == 0 .. LastSlot - 1

\* normalize_reserved_usage raises a ValueError for anything else.
ASSUME ReservationAssumption ==
  \A held \in Reservations :
    /\ held \in [Resource \X Slots -> Nat]
    /\ \A x \in DOMAIN held : held[x] <= Capacity[x[1]]

VARIABLES
  method,    \* the planner of this window
  asked,     \* the requests it is called for
  reserved,  \* reserved_usage, what others hold
  phase,     \* where the planner is
  slot,      \* start slot of the round
  usage,     \* committed_usage, or the usage of the selection
  residual,  \* remaining of _ResidualResources
  majors,    \* major paths picked in this round that are not compiled yet
  spare,     \* recovery paths picked for the first of them
  interval,  \* next interval of major edges to look for a recovery path
  considered, \* the variables a baseline considers
  open,      \* those it has not tried yet
  chosen     \* selected variables

roundVars  == <<slot, residual, majors, spare, interval>>
choiceVars == <<usage, considered, open, chosen>>
plannerVars == <<method, asked, reserved, phase, roundVars, choiceVars>>

\* Q-CAST takes requests for one pair only, the baselines none that has yet
\* to arrive.
Callable(S) ==
  IF method = "qcast" THEN \A r \in S : Pairs[r] = 1 ELSE \A r \in S : Arrival[r] <= WindowStart

PlannerInit ==
  /\ method \in Methods
  /\ asked \in {S \in SUBSET Request : S # {} /\ Callable(S)}
  /\ reserved \in Reservations
  /\ phase = "open"
  /\ slot = WindowStart
  /\ usage = reserved
  /\ residual = Capacity
  /\ majors = <<>> /\ spare = <<>> /\ interval = <<1, 0>>
  /\ considered = {} /\ open = {} /\ chosen = {}

Served == {v.request : v \in chosen}

-----------------------------------------------------------------------------
(* Plans and variables                                                     *)

\* For any other candidate the expansion raises a ValueError, which ends the
\* planner.
Accepted(c) == Plan(c.dag)!Expandable(DOMAIN c.dag, c.terminals)

\* The layout of a candidate, and what it uses in each of its rounds.
Expanded(c) ==
  LET round == Plan(c.dag)!Layout(DOMAIN c.dag)
      last  == Max({round[o] : o \in DOMAIN round})
      use   == [x \in Resource \X (0 .. last) |-> Plan(c.dag)!UsageIn(round, x[1], x[2])]
      busy  == {x \in DOMAIN use : use[x] > 0}
  IN  [route |-> c.route, kind |-> c.kind, dag |-> c.dag, terminals |-> c.terminals,
       duration |-> 1 + Max({round[o] : o \in c.terminals}), use |-> [x \in busy |-> use[x]]]

Units(v, x) == LET y == <<x[1], x[2] - v.start>> IN IF y \in DOMAIN v.plan.use THEN v.plan.use[y] ELSE 0

Fits(v, held) ==
  \A y \in DOMAIN v.plan.use : v.plan.use[y] + held[<<y[1], y[2] + v.start>>] <= Capacity[y[1]]

\* Mutant: only what the first round uses is committed.
WithFirstRound(v, held) == [x \in DOMAIN held |-> held[x] + IF x[2] = v.start THEN Units(v, x) ELSE 0]

With(v, held) == [x \in DOMAIN held |-> held[x] + Units(v, x)]

Limit(r) == Min({LastSlot, Deadline[r]})

\* Fidelity: too long for the request, or purified where it need not be.
Acceptable(r, c) ==
  IF c.kind.purified THEN Links(c.route) \in PlainReach[r] + 1 .. PureReach[r]
                     ELSE Links(c.route) <= PlainReach[r]

\* The variables of a plan that start in first .. last - 1.
VariablesOf(r, plan, first, last, held) ==
  {v \in [request : {r}, plan : {p \in {plan} : Acceptable(r, p)},
          start : Max({Arrival[r], first}) .. Min({last - 1, Limit(r) - plan.duration})] : Fits(v, held)}

-----------------------------------------------------------------------------
(* Q-CAST                                                                  *)

\* _path_demand; a node inside the route is charged twice.
PathDemand(route) ==
  [x \in Resource |->
     Cardinality({k \in Hops(route) :
       \/ x[1] \in {"link", "genlane"} /\ x[2] = Hop(route, k)
       \/ x[1] = "memory" /\ x[2] \in Hop(route, k)})]

\* Mutant: a node inside the route is charged once.
NodesOnce(route) == [x \in Resource |-> Min({1, PathDemand(route)[x]})]

Charged(route) == PathDemand(route)

CanReserve(route) == \A x \in Resource : Charged(route)[x] <= residual[x]

Reserve(route) == [x \in Resource |-> residual[x] - Charged(route)[x]]

\* _residual_graph, as its links.
NodeOpen(n, a, b) == residual[<<"memory", n>>] >= IF n \in {a, b} THEN 1 ELSE 2

ResidualLinks(a, b) ==
  {e \in Edge : /\ residual[<<"link", e>>] >= 1 /\ residual[<<"genlane", e>>] >= 1
                /\ \A n \in e : NodeOpen(n, a, b)}

\* _best_residual_path, with a positive score; any shortest path.
BestPaths(a, b) ==
  {p \in ShortestRoutes(ResidualLinks(a, b), a, b) : Len(p) - 1 <= MaxHops /\ CanReserve(p)}

Eligible(s) == {r \in asked \ Served : Arrival[r] <= s /\ s < Deadline[r]}

Rounds == method = "qcast" /\ slot < WindowEnd

OpenRound ==
  /\ Rounds
  /\ phase = "open"
  /\ IF Eligible(slot) = {}
     THEN slot' = slot + 1 /\ UNCHANGED <<phase, residual>>
     ELSE /\ residual' = [x \in Resource |-> Capacity[x] - usage[<<x, slot>>]]
          /\ phase' = "major"
          /\ UNCHANGED slot
  /\ UNCHANGED <<method, asked, reserved, majors, spare, interval, choiceVars>>

Searching == Eligible(slot) \ {majors[k].request : k \in DOMAIN majors}

Majors == {[request |-> r, route |-> p] : r \in Searching, p \in UNION {BestPaths(Ends[q][1], Ends[q][2]) : q \in Searching}}

Reachable(m) == m.route \in BestPaths(Ends[m.request][1], Ends[m.request][2])

\* The score falls with the hops; then the request id decides.
Preferred(m, S) ==
  \A n \in S : \/ Len(m.route) < Len(n.route)
               \/ Len(m.route) = Len(n.route) /\ m.request <= n.request

PickMajor ==
  /\ phase = "major"
  /\ \E m \in Majors :
       /\ Reachable(m)
       /\ Preferred(m, {n \in Majors : Reachable(n)})
       /\ residual' = Reserve(m.route)
       /\ majors' = Append(majors, m)
  /\ UNCHANGED <<method, asked, reserved, phase, slot, spare, interval, choiceVars>>

EndMajors ==
  /\ phase = "major"
  /\ {m \in Majors : Reachable(m)} = {}
  /\ IF majors = <<>> THEN phase' = "open" /\ slot' = slot + 1
                      ELSE phase' = "recovery" /\ UNCHANGED slot
  /\ UNCHANGED <<method, asked, reserved, residual, majors, spare, interval, choiceVars>>

\* Intervals by span, then by start.
Span == interval[1]
Start == interval[2]
MajorRoute == Head(majors).route
MoreIntervals == Span <= Min({SpanLimit, Len(MajorRoute) - 1})
NextInterval == IF Start + Span + 1 < Len(MajorRoute) THEN <<Span, Start + 1>> ELSE <<Span + 1, 0>>

PickRecovery ==
  /\ phase = "recovery"
  /\ MoreIntervals
  /\ LET paths == BestPaths(MajorRoute[Start + 1], MajorRoute[Start + Span + 1])
     IN  \/ /\ paths = {}
            /\ UNCHANGED <<residual, spare>>
         \/ \E p \in paths :
              /\ residual' = Reserve(p)
              /\ spare' = Append(spare, [from |-> Start, to |-> Start + Span, route |-> p])
  /\ interval' = NextInterval
  /\ UNCHANGED <<method, asked, reserved, phase, slot, majors, choiceVars>>

\* _compile_allocation: the left-deep DAG of the major path, and a generation
\* for every link of a recovery path, named by its position and its path.
RecoveryGens(paths) ==
  [o \in UNION {{<<"recovery", k - 1, k, n>> : k \in Hops(paths[n].route)} : n \in DOMAIN paths} |->
     [Generation(paths[o[4]].route, o) EXCEPT !.rank = 100 * o[4] + @]]

Allocation(m, paths) ==
  LET base == LeftDeepDag(m.route)
      gens == RecoveryGens(paths)
  IN  [route |-> m.route, kind |-> [tree |-> "left_deep", index |-> 0, purified |-> FALSE],
       dag |-> [o \in DOMAIN base \cup DOMAIN gens |-> IF o \in DOMAIN base THEN base[o] ELSE gens[o]],
       terminals |-> {Terminal(base, {m.route[1], m.route[Len(m.route)]})}]

NextMajor ==
  /\ majors' = Tail(majors)
  /\ spare' = <<>>
  /\ interval' = <<1, 0>>
  /\ IF Len(majors) = 1 THEN phase' = "open" /\ slot' = slot + 1 ELSE UNCHANGED <<phase, slot>>

\* A major path whose DAG does not fit stays reserved for the round, and its
\* request is looked at again in the next one.
Commit ==
  /\ phase = "recovery"
  /\ ~MoreIntervals
  /\ \E c \in {Allocation(Head(majors), spare)} :
       IF Accepted(c)
       THEN \E plan \in {Expanded(c)} :
              LET vars == VariablesOf(Head(majors).request, plan, slot, slot + 1, usage)
              IN  /\ \/ vars = {} /\ UNCHANGED <<usage, chosen>>
                     \/ \E v \in vars : usage' = With(v, usage) /\ chosen' = chosen \cup {v}
                  /\ NextMajor
       ELSE phase' = "refused" /\ UNCHANGED <<slot, majors, spare, interval, usage, chosen>>
  /\ UNCHANGED <<method, asked, reserved, residual, considered, open>>

-----------------------------------------------------------------------------
(* The baselines                                                           *)

Baseline == method # "qcast"

\* The catalogue a method is offered.
PathLimit == IF method \in {"greedy", "construction_only"} THEN 1 ELSE PathCount
Trees     == IF method \in {"greedy", "construction_only"} THEN {"balanced"} ELSE {"left_deep"}
TreeLimit == IF method = "construction_only" THEN TreeCount ELSE 0
Purifying == IF method \in {"qpath", "qleap"} THEN {FALSE, TRUE} ELSE {FALSE}

Catalogue(r, routes) ==
  UNION {{Compiled(p, k, Pairs[r]) : k \in KindsFor(p, Trees, TreeLimit, Purifying)} : p \in routes}

Above(dag) ==
  LET above[o \in DOMAIN dag] ==
        LET direct == dag[o].preds \cup dag[o].ins IN direct \cup UNION {above[p] : p \in direct}
  IN  above

\* _candidate_dag_semantics: no dependency that another one implies.
Reduced(dag) ==
  [o \in DOMAIN dag |->
     LET direct == dag[o].preds \cup dag[o].ins
     IN  [dag[o] EXCEPT !.preds = {p \in direct : \A q \in direct : p \notin Above(dag)[q]}]]

Equivalent(p, q) ==
  p.route = q.route /\ p.kind.purified = q.kind.purified /\ p.use = q.use /\ Reduced(p.dag) = Reduced(q.dag)

\* One of all candidates that induce the same operations and schedule.
Canonical(plans) == {CHOOSE p \in plans : Equivalent(p, q) : q \in plans}

\* The paths the catalogue of a request may be built from.
RouteChoices(r) == RouteSets(Between(Edge, Ends[r][1], Ends[r][2]), PathLimit)

BuildProblem ==
  /\ Baseline
  /\ phase = "open"
  /\ \E routes \in [asked -> UNION {RouteChoices(r) : r \in asked}] :
       /\ \A r \in asked : routes[r] \in RouteChoices(r)
       /\ IF \A r \in asked : \A c \in Catalogue(r, routes[r]) : Accepted(c)
          THEN /\ considered' =
                    UNION {UNION {VariablesOf(r, p, WindowStart, WindowEnd, reserved) :
                             p \in Canonical({Expanded(c) : c \in Catalogue(r, routes[r])})} : r \in asked}
               /\ open' = considered'
               /\ phase' = "select"
          ELSE phase' = "refused" /\ UNCHANGED <<considered, open>>
  /\ UNCHANGED <<method, asked, reserved, roundVars, usage, chosen>>

Hopcount(v)    == Len(v.plan.route) - 1
Completion(v)  == v.start + v.plan.duration
PairCount(v)   == Cardinality({o \in DOMAIN v.plan.dag : v.plan.dag[o].kind = "GEN"})
Overhead(v)    == IF PairCount(v) > Hopcount(v) THEN PairCount(v) - Hopcount(v) ELSE 0
ResourceTime(v) == MapThenSumSet(LAMBDA x : v.plan.use[x], DOMAIN v.plan.use)

\* Least purification any variable of the request needs.
LeastOverhead(r, S) == Min({Overhead(v) : v \in {w \in S : w.request = r}})

\* The order a method tries the variables in, a request at a time or all
\* together.  On equal links the expected cost rises with the pairs generated,
\* and the fidelity falls with the hops; the id, which decides last, is left
\* open.
Turn(v) == <<Arrival[v.request], v.request>>

Key(v) ==
  CASE method = "greedy"            -> Turn(v) \o <<Hopcount(v), v.start, Completion(v), ResourceTime(v)>>
    [] method = "construction_only" -> Turn(v) \o <<Completion(v), v.start, ResourceTime(v)>>
    [] method = "strict_fifo"       -> Turn(v) \o <<PairCount(v), v.start, Completion(v)>>
    [] method = "best_fifo"         -> <<IF PairCount(v) <= CostLimit THEN 0 ELSE 1>> \o Turn(v)
                                         \o <<PairCount(v), v.start, Completion(v)>>
    [] method = "qpass"             -> <<Hopcount(v), v.start, Completion(v)>>
    [] method = "qpath"             -> <<PairCount(v), v.start, Completion(v)>>
    [] OTHER                        -> <<LeastOverhead(v.request, considered)>> \o Turn(v)
                                         \o <<Hopcount(v), Overhead(v), v.start, Completion(v)>>

CanAdd(v) == v.request \notin Served /\ Fits(v, usage)

\* Mutant: what has not been tried for a request is dropped with its first.
FirstOnly(v) == {w \in open : w.request # v.request}

Untried(v) == open \ {v}

TryNext ==
  /\ phase = "select"
  /\ \E v \in open :
       /\ \A w \in open : ~Smaller(Key(w), Key(v))
       /\ open' = Untried(v)
       /\ \/ CanAdd(v) /\ usage' = With(v, usage) /\ chosen' = chosen \cup {v}
          \/ ~CanAdd(v) /\ UNCHANGED <<usage, chosen>>
  /\ UNCHANGED <<method, asked, reserved, phase, roundVars, considered>>

-----------------------------------------------------------------------------

Finish ==
  /\ \/ method = "qcast" /\ phase = "open" /\ slot = WindowEnd
     \/ phase = "select" /\ open = {}
  /\ phase' = "done"
  /\ UNCHANGED <<method, asked, reserved, roundVars, choiceVars>>

Finished == phase \in {"done", "refused"} /\ UNCHANGED plannerVars

PlannerNext ==
  \/ OpenRound \/ PickMajor \/ EndMajors \/ PickRecovery \/ Commit
  \/ BuildProblem \/ TryNext
  \/ Finish \/ Finished

PlannerSpec == PlannerInit /\ [][PlannerNext]_plannerVars

-----------------------------------------------------------------------------
(* Properties                                                              *)

\* Units of x that the selected variables use.
Taken(x, S) == MapThenSumSet(LAMBDA v : Units(v, x), S)

\* What a planner returns fits: at most one variable per request, each within
\* its request's time, all of them together beside what others hold.  The
\* planners check this at the end and raise a RuntimeError otherwise
\* (plan_qcast_window, _solution).
SelectionFeasible ==
  phase = "done" =>
    /\ \A v, w \in chosen : v.request = w.request => v = w
    /\ \A v \in chosen : Arrival[v.request] <= v.start /\ Completion(v) <= Limit(v.request)
    /\ \A x \in DOMAIN reserved : reserved[x] + Taken(x, chosen) <= Capacity[x[1]]

\* The two accounts of Q-CAST agree: its search never offers what a committed
\* plan uses in the slot, reserving never goes below zero, and what the links
\* and nodes of the residual graph promise can indeed be reserved
\* (_ResidualResources against the expansion's usage).
ResidualSound ==
  phase \in {"major", "recovery"} =>
    /\ \A x \in Resource : 0 <= residual[x] /\ residual[x] <= Capacity[x] - usage[<<x, slot>>]
    /\ \A a, b \in Node : a # b =>
         \A p \in ShortestRoutes(ResidualLinks(a, b), a, b) : CanReserve(p)

\* Every plan a planner works with is one the executor and the expansion
\* accept: its operations have the shape the executor relies on, no segment is
\* used twice, a pair is delivered between the request's ends and is consumed
\* by nothing but its release, and no two pairs of it are held at a time.
Delivered(dag, o) == \A p \in DOMAIN dag : o \in dag[p].ins => dag[p].kind = "RELEASE"

PlansExecutable ==
  /\ phase # "refused"
  /\ \A v \in open \cup chosen :
      LET dag == v.plan.dag
          ends == v.plan.terminals
      IN  /\ \A o \in DOMAIN dag : Plan(dag)!WellShaped(o) /\ Plan(dag)!CompiledSoundly(o)
          /\ \A o \in ends : /\ dag[o].ends = {Ends[v.request][1], Ends[v.request][2]}
                             /\ Delivered(dag, o)
          /\ Cardinality({o \in ends : \A p \in DOMAIN dag : o \notin dag[p].ins}) = 1
          /\ \A o, p \in ends : o[4] < p[4] =>
               \A q \in DOMAIN dag : q[4] = p[4] =>
                 \E x \in Above(dag)[q] : dag[x].kind = "RELEASE" /\ o \in dag[x].ins

\* No variable that would fit is left out by a baseline, although each of them
\* is tried once, at a time when less was taken (_SelectionState).
NothingLeftOut ==
  phase = "done" /\ Baseline => \A v \in considered : ~CanAdd(v)

PrunedExactly ==
  \A links \in 1 .. MaxLinks :
    LET all == OrderedTrees(links, 0)
    IN  \A k \in 1 .. Cardinality(all) :
          OrderedTrees(links, k) = {t \in all : Place(t, all, <<0, links>>, links) < k}

\* On routes of at most MaxLinks links pruning loses nothing, whatever the
\* limit: the trees kept interval by interval are the best of all trees of the
\* route, so that a kind swap_tree_<index>, compiled with a limit of its own,
\* is the tree with that index in the order of all trees (ordered_swap_trees,
\* swap_tree_path_dag).  Nothing is claimed of longer routes.
BestTrees == phase = "done" /\ method = "construction_only" => PrunedExactly

=============================================================================
