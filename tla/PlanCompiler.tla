---------------------------- MODULE PlanCompiler ----------------------------
(***************************************************************************)
(* From a route to a construction DAG (construction_plans.py,              *)
(* construction_catalog.py): swap trees, the operations of a tree,         *)
(* purification of every link, and several pairs one after the other.      *)
(*                                                                         *)
(* A DAG is a function from operation ids to operations, a segment is      *)
(* named by the operation that produces it.  The id <<class, i, j, n>> is  *)
(* that of an operation whose output joins the positions i and j of the    *)
(* route, in copy n.  A swap tree is the set of its swaps: <<i, m, j>>     *)
(* joins the intervals i .. m and m .. j of positions.                     *)
(***************************************************************************)
EXTENDS Integers, FiniteSets, Sequences

LOCAL INSTANCE FiniteSetsExt
LOCAL INSTANCE TLC

-----------------------------------------------------------------------------
(* Swap trees over the links of a route                                    *)

LeftDeepTree(links) == {<<0, m, m + 1>> : m \in 1 .. links - 1}

\* Level by level, neighbours are merged in pairs; the last of an odd number
\* goes to the next level as it is.
BalancedTree(links) ==
  LET pairs == {p \in (0 .. links - 1) \X {2^d : d \in 0 .. links - 1} :
                  p[1] % (2 * p[2]) = 0 /\ p[1] + p[2] < links}
  IN  {<<p[1], p[1] + p[2], Min({p[1] + 2 * p[2], links})>> : p \in pairs}

RootOf(x, tree) == CHOOSE t \in tree : t[1] = x[1] /\ t[3] = x[2]

\* The height of each interval of a tree: links are ready in round 0.
Heights(tree, links) ==
  LET height[x \in (0 .. links) \X (0 .. links)] ==
        IF x[2] - x[1] = 1 THEN 0
        ELSE LET t == RootOf(x, tree)
             IN  1 + Max({height[<<t[1], t[2]>>], height[<<t[2], t[3]>>]})
  IN  height

Waits(t, height) ==
  {<<side, height[<<t[1], t[3]>>] - height[side]>> : side \in {<<t[1], t[2]>>, <<t[2], t[3]>>}}

\* Rounds the inputs of the swaps wait.
HeldRounds(tree, height) ==
  MapThenSumSet(LAMBDA t : MapThenSumSet(LAMBDA w : w[2], Waits(t, height)), tree)

Imbalance(tree, height) ==
  MapThenSumSet(LAMBDA t : Max({w[2] : w \in Waits(t, height)}) - Min({w[2] : w \in Waits(t, height)}), tree)

\* _swap_tree_rank of a tree over the interval x.  The signature, a preorder
\* walk that lists a leaf before an inner node, orders trees as the number of
\* inner nodes that begin at each position.
TreeRank(tree, x, links) ==
  LET height == Heights(tree, links)
  IN  <<height[x], HeldRounds(tree, height), Imbalance(tree, height)>>
        \o [k \in 1 .. x[2] - x[1] |-> Cardinality({t \in tree : t[1] = x[1] + k - 1})]

Smaller(a, b) == \E k \in DOMAIN a : a[k] < b[k] /\ \A l \in 1 .. k - 1 : a[l] = b[l]

\* How many trees of a set come before one.
Place(tree, S, x, links) == Cardinality({u \in S : Smaller(TreeRank(u, x, links), TreeRank(tree, x, links))})

Joined(x, m, left, right) == {<<x[1], m, x[2]>>} \cup left \cup right

\* Mutant: only the best tree of a part is kept.
BestOfParts(all, limit, x, links) ==
  {t \in all : limit = 0 \/ Place(t, all, x, links) < IF x = <<0, links>> THEN limit ELSE 1}

\* The first limit trees (0: no limit).
Kept(all, limit, x, links) == {t \in all : limit = 0 \/ Place(t, all, x, links) < limit}

\* ordered_swap_trees: interval by interval, the first limit trees that can be
\* put together from the first limit trees of two parts.
OrderedTrees(links, limit) ==
  LET best[x \in (0 .. links) \X (0 .. links)] ==
        IF x[2] - x[1] = 1 THEN {{}}
        ELSE LET all == UNION {{Joined(x, m, l, r) : l \in best[<<x[1], m>>], r \in best[<<m, x[2]>>]} :
                                 m \in x[1] + 1 .. x[2] - 1}
             IN  Kept(all, limit, x, links)
  IN  best[<<0, links>>]

\* The tree a kind swap_tree_<index> is compiled from.
TreeOf(links, index) ==
  LET trees == OrderedTrees(links, index + 1)
  IN  CHOOSE t \in trees : Place(t, trees, <<0, links>>, links) = index

\* swap_tree_kinds, as the set of the indices.
TreeKinds(links, count) == 0 .. Cardinality(OrderedTrees(links, count)) - 1

-----------------------------------------------------------------------------
(* The operations of a route                                               *)

PathId(i, j) == <<"path", i, j, 0>>

Links(route) == Len(route) - 1

Generation(route, o) ==
  [kind |-> "GEN", preds |-> {}, ins |-> {}, ends |-> {route[o[2] + 1], route[o[3] + 1]}, rank |-> o[2]]

Swap(route, t, preds, rank) ==
  [kind |-> "SWAP", preds |-> preds, ins |-> {PathId(t[1], t[2]), PathId(t[2], t[3])},
   ends |-> {route[t[1] + 1], route[t[3] + 1]}, rank |-> rank]

\* Children are compiled before their parent, from left to right.
PostOrder(s, t) == s[3] < t[3] \/ (s[3] = t[3] /\ s[1] > t[1])

\* A level of the balanced tree is compiled before the next one.
LevelOrder(s, t) == s[2] - s[1] < t[2] - t[1] \/ (s[2] - s[1] = t[2] - t[1] /\ s[1] < t[1])

LinkIds(route) == {PathId(k, k + 1) : k \in 0 .. Links(route) - 1}

Generations(route) == [o \in LinkIds(route) |-> Generation(route, o)]

\* swap_tree_path_dag and, for the left-deep tree, left_deep_path_dag.
TreeDag(route, tree) ==
  [o \in LinkIds(route) \cup {PathId(t[1], t[3]) : t \in tree} |->
     IF o \in LinkIds(route) THEN Generation(route, o)
     ELSE LET t == RootOf(<<o[2], o[3]>>, tree)
          IN  Swap(route, t, {PathId(t[1], t[2]), PathId(t[2], t[3])},
                   Links(route) + Cardinality({s \in tree : PostOrder(s, t)}))]

LeftDeepDag(route) == TreeDag(route, LeftDeepTree(Links(route)))

\* balanced_path_dag: a swap also names the first and last link below it.
BalancedDag(route) ==
  LET tree == BalancedTree(Links(route))
  IN  Generations(route) @@
      [o \in {PathId(t[1], t[3]) : t \in tree} |->
         LET t == RootOf(<<o[2], o[3]>>, tree)
         IN  Swap(route, t, {PathId(t[1], t[1] + 1), PathId(t[3] - 1, t[3]),
                             PathId(t[1], t[2]), PathId(t[2], t[3])},
                  Links(route) + Cardinality({s \in tree : LevelOrder(s, t)}))]

\* elementary_purification_dag: the purification takes the id of the
\* generation it replaces, so that the swaps need not know of it.
As(class, o) == <<class, o[2], o[3], o[4]>>

Purified(dag) ==
  LET gens == {o \in DOMAIN dag : dag[o].kind = "GEN"}
      Source(o) == CHOOSE g \in gens : As(g[1], o) = g
  IN  [o \in DOMAIN dag |->
         IF o \notin gens THEN [dag[o] EXCEPT !.rank = 3 * @]
         ELSE [dag[o] EXCEPT !.kind = "PURIFY", !.rank = 3 * @ + 2,
                             !.preds = {As("keep", o), As("measure", o)},
                             !.ins = {As("keep", o), As("measure", o)}]]
      @@ [o \in {As("keep", g) : g \in gens} |-> [dag[Source(o)] EXCEPT !.rank = 3 * @]]
      @@ [o \in {As("measure", g) : g \in gens} |->
            [dag[Source(o)] EXCEPT !.rank = 3 * @ + 1, !.preds = {As("keep", o)}]]

-----------------------------------------------------------------------------
(* Candidates of the catalogue                                             *)

\* Mutant: the first operation between the ends, not the last.
FirstBetween(dag, ends) ==
  CHOOSE o \in DOMAIN dag : dag[o].ends = ends /\ \A p \in DOMAIN dag : dag[p].ends = ends => dag[o].rank <= dag[p].rank

\* The operation that delivers the pair: the last one between the ends.
Terminal(dag, ends) ==
  CHOOSE o \in DOMAIN dag : dag[o].ends = ends /\ \A p \in DOMAIN dag : dag[p].ends = ends => dag[p].rank <= dag[o].rank

Copy(o, n) == [o EXCEPT ![4] = n]

Copies(S, n) == {Copy(o, n) : o \in S}

Release(n) == <<"release", 0, 0, n>>

\* _repeat_demand_dag: copy n waits for the release of the pair before it.
Repeated(dag, last, pairs) ==
  LET width == 2 + Max({dag[o].rank : o \in DOMAIN dag})
      Base(o) == Copy(o, 0)
  IN  [o \in UNION {Copies(DOMAIN dag, n) : n \in 0 .. pairs - 1} |->
         [dag[Base(o)] EXCEPT
            !.preds = IF @ = {} /\ o[4] > 0 THEN {Release(o[4] - 1)} ELSE Copies(@, o[4]),
            !.ins = Copies(@, o[4]),
            !.rank = o[4] * width + @]]
      @@ [o \in {Release(n) : n \in 0 .. pairs - 2} |->
            [kind |-> "RELEASE", preds |-> {Copy(last, o[4])}, ins |-> {Copy(last, o[4])},
             ends |-> {}, rank |-> (o[4] + 1) * width - 1]]

\* _dag_for_kind.
DagOf(route, kind) ==
  CASE kind.tree = "left_deep" -> LeftDeepDag(route)
    [] kind.tree = "balanced"  -> BalancedDag(route)
    [] OTHER                   -> TreeDag(route, TreeOf(Links(route), kind.index))

\* One candidate of build_route_construction_catalogue, and its terminals.
Compiled(route, kind, pairs) ==
  LET dag  == IF kind.purified THEN Purified(DagOf(route, kind)) ELSE DagOf(route, kind)
      last == Terminal(dag, {route[1], route[Len(route)]})
  IN  [route |-> route, kind |-> kind, dag |-> Repeated(dag, last, pairs),
       terminals |-> {Copy(last, n) : n \in 0 .. pairs - 1}]

\* The kinds a route is compiled in.
KindsFor(route, trees, treeCount, purifications) ==
  [tree : trees, index : {0}, purified : purifications]
    \cup IF treeCount = 0 THEN {}
         ELSE [tree : {"swap_tree"}, index : TreeKinds(Links(route), treeCount), purified : purifications]

\* shortest_simple_paths, cut off after count: any such set of routes.
RouteSets(routes, count) ==
  {R \in kSubset(Min({count, Cardinality(routes)}), routes) :
     \A p \in R, q \in routes \ R : Len(p) <= Len(q)}

=============================================================================
