-------------------------- MODULE LogicalTraversal --------------------------
(***************************************************************************)
(* LogicalTraversal: the facade of a WarpGraph over GraphTraversal.  Every *)
(* method checks its options and its start nodes, then runs the engine on  *)
(* the current adjacency, without a bound on the nodes.                    *)
(*                                                                         *)
(* A graph is [nodes, edges]; options are [dir, filtered, labels,          *)
(* maxDepth], where filtered says whether there is a label filter at all.  *)
(* An answer is [err, ok]; err is the code of the error thrown, or "".     *)
(***************************************************************************)
EXTENDS DagSearch

assertDirection(dir) ==
    IF dir = "undefined" THEN "out"
    ELSE IF dir \in {"out", "in", "both"} THEN dir ELSE "INVALID_DIRECTION"

\* a mutant: a filter with no label in it is no filter
filterByLabelsIfAny(E, opts) ==
    IF opts.filtered /\ opts.labels # {} THEN {e \in E : e[3] \in opts.labels} ELSE E

\* normalizeLabelFilter and the provider's filterByLabels: an empty list of
\* labels lets no edge through
filterByLabels(E, opts) ==
    IF opts.filtered THEN {e \in E : e[3] \in opts.labels} ELSE E

_prepareEngine(G, opts) ==
    [err |-> IF assertDirection(opts.dir) = "INVALID_DIRECTION"
             THEN "INVALID_DIRECTION" ELSE "",
     edges |-> filterByLabels(G.edges, opts),
     direction |-> assertDirection(opts.dir),
     depthLimit |-> opts.maxDepth]

\* the methods that take start nodes look each of them up
_prepare(G, starts, opts) ==
    LET p == _prepareEngine(G, opts)
    IN  IF p.err = "" /\ ~(starts \subseteq G.nodes)
        THEN [p EXCEPT !.err = "NODE_NOT_FOUND"] ELSE p

answer(p, value) == IF p.err = "" THEN [err |-> "", ok |-> value] ELSE [err |-> p.err]

----------------------------------------------------------------------------

logicalBfs(G, start, opts) ==
    LET p == _prepare(G, {start}, opts)
    IN  answer(p, bfs(p.edges, start, p.direction, p.depthLimit, Infinity))

logicalDfs(G, start, opts) ==
    LET p == _prepare(G, {start}, opts)
    IN  answer(p, dfs(p.edges, start, p.direction, p.depthLimit, Infinity))

logicalComponent(G, start, opts) == logicalBfs(G, start, [opts EXCEPT !.dir = "both"])

logicalShortestPath(G, from, to, opts) ==
    LET p == _prepare(G, {from}, opts)
    IN  answer(p, shortestPath(p.edges, from, to, p.direction, p.depthLimit, Infinity))

\* isReachable looks up neither end
logicalIsReachable(G, from, to, opts) ==
    LET p == _prepareEngine(G, opts)
    IN  answer(p, isReachable(p.edges, from, to, p.direction, p.depthLimit, Infinity))

\* the weighted searches; a search that finds no path throws
orNoPath(p, r) == IF p.err = "" /\ r = NoPath THEN [err |-> "NO_PATH"] ELSE answer(p, r)

logicalWeightedShortestPath(G, W, from, to, opts) ==
    LET p == _prepare(G, {from}, opts)
    IN  orNoPath(p, weightedShortestPath(p.edges, G.nodes, W, from, to, p.direction, Infinity))

logicalAStarSearch(G, W, from, to, h, opts) ==
    LET p == _prepare(G, {from}, opts)
    IN  orNoPath(p, aStarSearch(p.edges, G.nodes, W, from, to, p.direction, h, Infinity))

\* always along the edges, whatever direction is asked for
logicalBidirectionalAStar(G, W, from, to, fh, bh, opts) ==
    LET p == _prepare(G, {from}, opts)
    IN  orNoPath(p, bidirectionalAStar(p.edges, G.nodes, W, from, to, fh, bh, Infinity))

\* a graph with a cycle has no longest path: the engine throws
logicalWeightedLongestPath(G, W, from, to, opts) ==
    LET p == _prepare(G, {from}, opts)
        r == weightedLongestPath(p.edges, W, from, to, p.direction, Infinity)
    IN  IF p.err = "" /\ r.totalCost = -1 THEN [err |-> "ERR_GRAPH_HAS_CYCLES"]
        ELSE orNoPath(p, r)

logicalTopologicalSort(G, starts, throwOnCycle, opts) ==
    LET p == _prepare(G, starts, opts)
        r == topologicalSort(p.edges, starts, p.direction, Infinity)
    IN  IF p.err = "" /\ throwOnCycle /\ r.hasCycle THEN [err |-> "ERR_GRAPH_HAS_CYCLES"]
        ELSE answer(p, r)

logicalCommonAncestors(G, nodes, maxResults, opts) ==
    LET p == _prepare(G, ToSet(nodes), opts)
    IN  answer(p, commonAncestors(p.edges, nodes, p.depthLimit, maxResults))

logicalLevels(G, starts, opts) ==
    LET p == _prepare(G, starts, opts)
        hasCycle == topologicalSort(p.edges, starts, p.direction, Infinity).hasCycle
    IN  IF p.err = "" /\ hasCycle THEN [err |-> "ERR_GRAPH_HAS_CYCLES"]
        ELSE answer(p, levels(p.edges, starts, p.direction, Infinity))

logicalTransitiveReduction(G, starts, opts) ==
    LET p == _prepare(G, starts, opts)
        hasCycle == topologicalSort(p.edges, starts, p.direction, Infinity).hasCycle
    IN  IF p.err = "" /\ hasCycle THEN [err |-> "ERR_GRAPH_HAS_CYCLES"]
        ELSE answer(p, transitiveReduction(p.edges, starts, p.direction, Infinity))

logicalTransitiveClosure(G, starts, maxEdges, opts) ==
    LET p == _prepare(G, starts, opts)
        r == transitiveClosure(p.edges, starts, p.direction, Infinity, maxEdges)
    IN  IF p.err = "" /\ ~r.ok THEN [err |-> "E_MAX_EDGES_EXCEEDED"]
        ELSE answer(p, r.edges)

logicalRootAncestors(G, start, opts) ==
    LET p == _prepare(G, {start}, opts)
    IN  answer(p, rootAncestors(p.edges, start, p.depthLimit, Infinity))
=============================================================================
