------------------------------ MODULE CallSearch ------------------------------
(***************************************************************************)
(* internal/tools/get_impact.go and get_call_chain.go: searches of the     *)
(* call graph by recursive SQL.  d stands for what one SELECT reads: the   *)
(* tables as the last committed transaction left them.                     *)
(*                                                                         *)
(* Both searches go from the near end of an edge to its far end: against   *)
(* the calls for callers, along them for callees.                          *)
(***************************************************************************)
EXTENDS Resolver, Sequences

CONSTANTS
  MaxNodes,   \* maxImpactNodes, 1000 in the code
  TestFiles,  \* the files that isTestFile recognises by their names
  NamePlace   \* the place of a function's name in the order of names

ASSUME SearchAssumption == MaxNodes \in Nat \ {0}

-----------------------------------------------------------------------------
(* Lists of rows.                                                          *)

(* ORDER BY depth, name.                                                   *)
ByDepthAndName(x, y) ==
  \/ x.depth < y.depth
  \/ x.depth = y.depth /\ NamePlace[x.name] < NamePlace[y.name]

(* Equal rows come in any one order.                                       *)
FirstRow(T) == CHOOSE x \in T : \A y \in T : ~ByDepthAndName(y, x)

(* The first n rows.                                                       *)
Limited(rows, n) ==
  LET first[T \in SUBSET rows] ==
        IF T = {} \/ Cardinality(T) + n <= Cardinality(rows) THEN {}
        ELSE {FirstRow(T)} \cup first[T \ {FirstRow(T)}]
  IN  first[rows]

(* All rows in their order, of those with equal key fields only the first. *)
Ordered(rows, key) ==
  LET from[T \in SUBSET rows] ==
        IF T = {} THEN <<>> ELSE <<FirstRow(T)>> \o from[{x \in T : \E f \in key : x[f] # FirstRow(T)[f]}]
  IN  from[rows]

(* A cap on a list: its first n entries.                                   *)
AtMost(s, n) == IF Len(s) <= n THEN s ELSE SubSeq(s, 1, n)

(* The entries of s at the positions in I: a loop that skips the others.   *)
Picked(s, I) ==
  LET upTo[k \in 0..Len(s)] ==
        IF k = 0 THEN <<>>
        ELSE IF k \in I THEN Append(upTo[k - 1], s[k]) ELSE upTo[k - 1]
  IN  upTo[Len(s)]

-----------------------------------------------------------------------------
(* Edges.                                                                  *)

(* resolutionRank: the markers in ascending order of confidence.           *)
resolutionRank ==
  <<"name-global", "interface-dispatch", "receiver-typed", "same-package", "same-file">>

(* None or an unknown level yields no marker.                              *)
edgeMarkersAtOrAbove(level) ==
  {resolutionRank[i] : i \in {j \in 1..5 : \E k \in 1..j : resolutionRank[k] = level}}

edgeFilter(c, level) ==
  LET markers == edgeMarkersAtOrAbove(level)
  IN  IF markers = {} THEN c.marker # "interface-dispatch" ELSE c.marker \in markers

Near(c, dir) == IF dir = "callers" THEN c.callee ELSE c.caller
Far(c, dir)  == IF dir = "callers" THEN c.caller ELSE c.callee

RowIds(d) == {Id(x) : x \in d.funcs}
RowOf(d, id) == CHOOSE x \in d.funcs : Id(x) = id

-----------------------------------------------------------------------------
(* get_impact.                                                             *)

(* Edges that the walk may take: both ends exist, and it is no self-call.  *)
ImpactEdges(d, dir, level) ==
  {c \in d.calls : /\ edgeFilter(c, level)
                   /\ Far(c, dir) \in RowIds(d)
                   /\ Far(c, dir) # Near(c, dir)}

(* Walks of n edges, each going on where the one before it ended.          *)
WalksOf(n, edges, ids, dir) ==
  {w \in [1..n -> edges] : /\ Near(w[1], dir) \in ids
                           /\ \A i \in 1..n - 1 : Near(w[i + 1], dir) = Far(w[i], dir)}

(* Mutant of walks: one step too many.                                     *)
walksTooDeep(d, seeds, depth, dir, level) ==
  UNION {WalksOf(n, ImpactEdges(d, dir, level), seeds \cap RowIds(d), dir) : n \in 1..depth + 1}

(* The rows of the recursive SELECT below its base case: UNION ALL yields  *)
(* one for every walk of at most depth edges, however often it meets the   *)
(* same function.                                                          *)
walks(d, seeds, depth, dir, level) ==
  UNION {WalksOf(n, ImpactEdges(d, dir, level), seeds \cap RowIds(d), dir) : n \in 1..depth}

(* A node, with the changed function where its walk began (via).           *)
impactedNode(d, w, dir) ==
  LET x == RowOf(d, Far(w[Len(w)], dir))
  IN  [id |-> Id(x), name |-> x.name, file |-> x.file, depth |-> Len(w),
       via |-> RowOf(d, Near(w[1], dir)).name, walk |-> w]

(* collect: ORDER BY depth, name and LIMIT on the rows; only then are test *)
(* files skipped and later rows of the same function dropped.              *)
collect(d, seeds, depth, dir, level, tests) ==
  LET rows == {impactedNode(d, w, dir) : w \in walks(d, seeds, depth, dir, level)}
      wanted == {n \in Limited(rows, MaxNodes + 1) : tests \/ n.file \notin TestFiles}
  IN  Ordered(wanted, {"id"})

(* One direction is reported as it is; of both, callers come first, and    *)
(* the first of each file and name remains.                                *)
Combined(up, down, dir) ==
  LET all == up \o down
      same(m, n) == m.file = n.file /\ m.name = n.name
  IN  Picked(all, {i \in DOMAIN all : dir = "both" => \A j \in 1..i - 1 : ~same(all[j], all[i])})

Capped(nodes) == AtMost(nodes, MaxNodes)

-----------------------------------------------------------------------------
(* get_call_chain.                                                         *)

callChainNode(d, c, dir, depth) ==
  LET there == Far(c, dir) \in RowIds(d)
      x == RowOf(d, Far(c, dir))
  IN  [name |-> IF there THEN x.name ELSE c.name,
       file |-> IF there THEN x.file ELSE "(external)",
       line |-> IF there THEN x.pos ELSE 0,
       depth |-> depth, resolution |-> c.marker]

(* A row is what its last edge and its depth make it, and SELECT DISTINCT  *)
(* drops equal rows: the walk keeps, for each depth, the ids it has        *)
(* reached.  A callee that is not in the index is a row of its own, from   *)
(* which no edge leads on.                                                 *)
queryCallChain(d, name, depth, dir, level) ==
  LET edges == {c \in d.calls : edgeFilter(c, level)}
      from(ids) == {c \in edges : Near(c, dir) \in ids}
      reached[n \in 0..depth] ==
        IF n = 0 THEN {Id(x) : x \in {y \in d.funcs : y.name = name}}
        ELSE {Far(c, dir) : c \in from(reached[n - 1])} \ {NoId}
      rows == UNION {{callChainNode(d, c, dir, n) : c \in from(reached[n - 1])} : n \in 1..depth}
  IN  Ordered(rows, {"name", "file", "line", "depth", "resolution"})

(* Mutant of capNodes: the last nodes are kept.                            *)
capNodesAtEnd(nodes, limit) ==
  [kept |-> IF Len(nodes) <= limit THEN nodes
            ELSE SubSeq(nodes, Len(nodes) - limit + 1, Len(nodes)),
   total |-> Len(nodes)]

capNodes(nodes, limit) == [kept |-> AtMost(nodes, limit), total |-> Len(nodes)]

-----------------------------------------------------------------------------
(* What the searches are to find: functions by the number of calls that    *)
(* separate them from the seeds.                                           *)

Step(edges, dir, ids) == {Far(c, dir) : c \in {e \in edges : Near(e, dir) \in ids}}

(* The functions that some walk of exactly n edges ends in.                *)
Layer(edges, dir, ids, n) ==
  LET layer[k \in 0..n] == IF k = 0 THEN ids ELSE Step(edges, dir, layer[k - 1])
  IN  layer[n]

(* The nodes are impacted functions, each at its distance, nearest first;  *)
(* a function that is missing is no nearer than any that is listed, and    *)
(* only the limit on rows can be the reason.                               *)
NearestFirst(d, seeds, depth, dir, level, tests, nodes) ==
  LET edges == ImpactEdges(d, dir, level)
      start == seeds \cap RowIds(d)
      within(n) == {id \in UNION {Layer(edges, dir, start, k) : k \in 1..n} :
                      tests \/ id[2] \notin TestFiles}
      listed == {nodes[i].id : i \in DOMAIN nodes}
  IN  /\ \A i, j \in DOMAIN nodes : i < j => /\ nodes[i].id # nodes[j].id
                                             /\ nodes[i].depth <= nodes[j].depth
      /\ \A i \in DOMAIN nodes :
           /\ nodes[i].depth \in 1..depth
           /\ nodes[i].id \in within(nodes[i].depth) \ within(nodes[i].depth - 1)
           /\ within(nodes[i].depth - 1) \subseteq listed
      /\ within(depth) \subseteq listed
           \/ Cardinality(walks(d, seeds, depth, dir, level)) > MaxNodes + 1

(* The functions that call name, or that it calls, within depth steps, as  *)
(* name, file and line; what is not in the index by its name alone.        *)
ChainTargets(d, name, depth, dir, level) ==
  LET edges == {c \in d.calls : edgeFilter(c, level)}
      start == {Id(x) : x \in {y \in d.funcs : y.name = name}}
      before(n) == Layer(edges, dir, start, n - 1) \cap RowIds(d)
  IN  UNION {{[name |-> r.name, file |-> r.file, line |-> r.line] :
                r \in {callChainNode(d, c, dir, n) :
                         c \in {e \in edges : Near(e, dir) \in before(n)}}} : n \in 1..depth}

(* A chain that is not capped names every function within reach; a capped  *)
(* one has limit nodes and leaves out none that is nearer than one it has. *)
ChainComplete(d, name, depth, dir, level, limit, chain) ==
  LET listed(n) == {[name |-> chain.kept[i].name, file |-> chain.kept[i].file, line |-> chain.kept[i].line] :
                      i \in {j \in DOMAIN chain.kept : chain.kept[j].depth <= n}}
      deepest == IF chain.total > Len(chain.kept)
                 THEN chain.kept[Len(chain.kept)].depth - 1 ELSE depth
  IN  /\ listed(deepest) = ChainTargets(d, name, deepest, dir, level)
      /\ chain.total > Len(chain.kept) => Len(chain.kept) = limit
=============================================================================
