----------------------------- MODULE QcastRoutes -----------------------------
(***************************************************************************)
(* Paths of Q-CAST: shortest routes, and the cover of the broken edges of  *)
(* a major path by recovery paths (recovery.py, online_planner.py).        *)
(*                                                                         *)
(* A route is a sequence of nodes.  Major edge i joins the nodes i + 1 and *)
(* i + 2 of the major route.  A recovery path is a record of its interval  *)
(* of major edges, from .. to - 1, its route, its segs, and its id.        *)
(***************************************************************************)
EXTENDS Integers, FiniteSets, SequencesExt

Hop(route, k) == {route[k], route[k + 1]}
Hops(route)   == 1 .. Len(route) - 1

LinksOf(route) == {Hop(route, k) : k \in Hops(route)}

\* Every simple route from a to b over these links.
Between(links, a, b) ==
  LET nodes == UNION links
      walk[n \in 1 .. Cardinality(nodes)] ==
        IF n = 1 THEN {<<a>>}
        ELSE UNION {{Append(p, v) : v \in {w \in nodes \ Range(p) : {Last(p), w} \in links}} : p \in walk[n - 1]}
  IN  {p \in UNION {walk[n] : n \in DOMAIN walk} : Len(p) > 1 /\ Last(p) = b}

\* What nx.shortest_path may return on the graph with these links.
ShortestRoutes(links, a, b) ==
  LET open == Between(links, a, b)
  IN  {p \in open : \A q \in open : Len(p) <= Len(q)}

-----------------------------------------------------------------------------
(* _select_recovery_paths                                                  *)

Covered(p) == p.from .. p.to - 1

Covering(e, S) == {p \in S : e \in Covered(p)}

Precedes(p, q) ==
  \/ p.from < q.from
  \/ p.from = q.from /\ p.to < q.to
  \/ p.from = q.from /\ p.to = q.to /\ Len(p.route) < Len(q.route)
  \/ p.from = q.from /\ p.to = q.to /\ Len(p.route) = Len(q.route) /\ p.id < q.id

First(S) == CHOOSE p \in S : \A q \in S \ {p} : Precedes(p, q)

Claimed(S, broken) == broken \cap UNION {Covered(p) : p \in S}

NoCover == {[id |-> -1, from |-> 0, to |-> 0, route |-> <<>>, segs |-> <<>>]}

\* Mutant: a path is taken whatever else it covers.
ExtendAnyway(S, e, broken, available) ==
  LET open == Covering(e, available \ S) IN IF open # {} THEN S \cup {First(open)} ELSE NoCover

\* The path tried for broken edge e: the first that covers it.  The index the
\* loop moves before it looks at the overlap leaves no other to try, because
\* every path that covers e starts before the first one ends.
Extend(S, e, broken, available) ==
  LET open == Covering(e, available \ S)
      p    == First(open)
  IN  IF open # {} /\ Claimed({p}, broken) \cap Claimed(S, broken) = {} THEN S \cup {p} ELSE NoCover

Selection(broken, available) ==
  FoldLeft(LAMBDA S, e : IF S = NoCover \/ e \in Claimed(S, broken) THEN S
                         ELSE Extend(S, e, broken, available),
           {}, SetToSortSeq(broken, <))

=============================================================================
