------------------------------ MODULE Traversal ------------------------------
(***************************************************************************)
(* GraphTraversal: the read algorithms over a materialized graph, written  *)
(* as the code runs them (frontiers, heaps, predecessor maps), so that     *)
(* module GraphReads can compare them with what a path, a distance or an   *)
(* ancestor is.                                                            *)
(*                                                                         *)
(* A graph is a set of edges <<from, to, label>>; node ids and labels are  *)
(* numbers and their order stands for the code point order of strings.     *)
(* Statistics, hooks and abort signals are left out.                       *)
(***************************************************************************)
EXTENDS Integers, Sequences, FiniteSets, TLC, SequencesExt

\* above every cost that occurs
Infinity == 1000000

\* the answer of a search that throws NO_PATH
NoPath == [path |-> << >>, totalCost |-> Infinity]

\* nodeId < nodeId, or equal and label < label
edgeCmp(a, b) == a[1] < b[1] \/ (a[1] = b[1] /\ a[2] < b[2])

\* the elements of S in the order of before
sortSet(S, before(_, _)) ==
    LET sort[T \in SUBSET S] ==
          IF T = {} THEN << >>
          ELSE LET m == CHOOSE x \in T : \A y \in T \ {x} : before(x, y)
               IN  <<m>> \o sort[T \ {m}]
    IN  sort[S]

ascending(S) == sortSet(S, <)

setMin(S) == CHOOSE x \in S : \A y \in S : x <= y

\* a Map with one more entry
mapSet(f, k, v) == (k :> v) @@ f

mapGet(f, k, default) == IF k \in DOMAIN f THEN f[k] ELSE default

----------------------------------------------------------------------------
(* Neighbours.                                                             *)

\* getNeighbors: pairs <<neighborId, label>>, sorted; for "both" the union
\* of the two sides without duplicates
getNeighbors(E, n, direction) ==
    LET out == {<<e[2], e[3]>> : e \in {f \in E : f[1] = n}}
        in  == {<<e[1], e[3]>> : e \in {f \in E : f[2] = n}}
    IN  sortSet(CASE direction = "out" -> out
                  [] direction = "in" -> in
                  [] OTHER -> out \cup in, edgeCmp)

neighborIds(E, n, direction) == {p[1] : p \in ToSet(getNeighbors(E, n, direction))}

----------------------------------------------------------------------------
(* MinHeap: an array of entries <<priority, item>>; entry i has its parent *)
(* at i \div 2.  tie says whether equal priorities are ordered by item.    *)

heapBefore(a, b, tie) == a[1] < b[1] \/ (a[1] = b[1] /\ tie /\ a[2] < b[2])

swap(h, i, j) == [h EXCEPT ![i] = h[j], ![j] = h[i]]

RECURSIVE _bubbleUp(_, _, _)
_bubbleUp(h, i, tie) ==
    IF i > 1 /\ heapBefore(h[i], h[i \div 2], tie)
    THEN _bubbleUp(swap(h, i, i \div 2), i \div 2, tie)
    ELSE h

RECURSIVE _bubbleDown(_, _, _)
_bubbleDown(h, i, tie) ==
    LET left == IF 2 * i <= Len(h) /\ heapBefore(h[2 * i], h[i], tie)
                THEN 2 * i ELSE i
        smallest == IF 2 * i + 1 <= Len(h) /\ heapBefore(h[2 * i + 1], h[left], tie)
                    THEN 2 * i + 1 ELSE left
    IN  IF smallest = i THEN h ELSE _bubbleDown(swap(h, i, smallest), smallest, tie)

heapInsert(h, priority, item, tie) ==
    _bubbleUp(Append(h, <<priority, item>>), Len(h) + 1, tie)

\* the heap without its least entry, which is h[1]
heapExtractMin(h, tie) ==
    IF Len(h) = 1 THEN << >>
    ELSE _bubbleDown([Front(h) EXCEPT ![1] = Last(h)], 1, tie)

peekPriority(h) == IF h = << >> THEN Infinity ELSE h[1][1]

----------------------------------------------------------------------------
(* Breadth and depth first.                                                *)

\* One level of bfs: the nodes not seen before, in order, as many as
\* maxNodes allows; the neighbours of those visited make the next level.
RECURSIVE bfsLevel(_, _, _, _, _, _, _)
bfsLevel(E, direction, level, depth, maxDepth, maxNodes, result) ==
    IF level = {} \/ Len(result) >= maxNodes \/ depth > maxDepth THEN result
    ELSE LET fresh == ascending(level \ ToSet(result))
             visit == SubSeq(fresh, 1, setMin({Len(fresh), maxNodes - Len(result)}))
             next  == IF depth < maxDepth
                      THEN UNION {neighborIds(E, n, direction) : n \in ToSet(visit)}
                      ELSE {}
         IN  bfsLevel(E, direction, next \ ToSet(result \o visit), depth + 1,
                      maxDepth, maxNodes, result \o visit)

bfs(E, start, direction, maxDepth, maxNodes) ==
    bfsLevel(E, direction, {start}, 0, maxDepth, maxNodes, << >>)

RECURSIVE dfsStack(_, _, _, _, _, _)
dfsStack(E, direction, stack, maxDepth, maxNodes, result) ==
    IF stack = << >> \/ Len(result) >= maxNodes THEN result
    ELSE LET n == Last(stack)[1]
             depth == Last(stack)[2]
             ids == SelectSeq([i \in DOMAIN getNeighbors(E, n, direction) |->
                                 getNeighbors(E, n, direction)[i][1]],
                              LAMBDA m : m \notin ToSet(result) \cup {n})
             push == [i \in DOMAIN ids |-> <<ids[Len(ids) + 1 - i], depth + 1>>]
         IN  IF n \in ToSet(result) \/ depth > maxDepth
             THEN dfsStack(E, direction, Front(stack), maxDepth, maxNodes, result)
             ELSE dfsStack(E, direction,
                           Front(stack) \o IF depth < maxDepth THEN push ELSE << >>,
                           maxDepth, maxNodes, Append(result, n))

\* dfs: neighbours are pushed in reverse, so the least is popped first
dfs(E, start, direction, maxDepth, maxNodes) ==
    dfsStack(E, direction, <<<<start, 0>>>>, maxDepth, maxNodes, << >>)

connectedComponent(E, start, maxDepth, maxNodes) ==
    bfs(E, start, "both", maxDepth, maxNodes)

RECURSIVE reachLevel(_, _, _, _, _, _, _)
reachLevel(E, direction, goal, frontier, visited, maxDepth, maxNodes) ==
    LET ids == UNION {neighborIds(E, n, direction) : n \in frontier}
    IN  /\ frontier # {} /\ maxDepth > 0 /\ Cardinality(visited) < maxNodes
        /\ \/ goal \in ids
           \/ reachLevel(E, direction, goal, ids \ visited, visited \cup ids,
                         maxDepth - 1, maxNodes)

\* isReachable: breadth first, the goal is recognised when it is discovered
isReachable(E, start, goal, direction, maxDepth, maxNodes) ==
    \/ start = goal
    \/ reachLevel(E, direction, goal, {start}, {start}, maxDepth, maxNodes)

----------------------------------------------------------------------------
(* Paths.                                                                  *)

RECURSIVE walkBack(_, _, _)
walkBack(predMap, start, path) ==
    IF Head(path) = start \/ Head(path) \notin DOMAIN predMap THEN path
    ELSE walkBack(predMap, start, <<predMap[Head(path)]>> \o path)

_reconstructPath(predMap, start, goal) == walkBack(predMap, start, <<goal>>)

RECURSIVE walkOn(_, _, _)
walkOn(nextMap, goal, path) ==
    IF Last(path) = goal \/ Last(path) \notin DOMAIN nextMap THEN path
    ELSE walkOn(nextMap, goal, Append(path, nextMap[Last(path)]))

_reconstructBiPath(fwdPrev, bwdNext, start, goal, meeting) ==
    walkOn(bwdNext, goal, _reconstructPath(fwdPrev, start, meeting))

\* one neighbour of shortestPath's loop; nothing happens once the goal is met
discover(s, from, to, goal) ==
    IF to \in s.visited \/ goal \in s.visited THEN s
    ELSE [visited |-> s.visited \cup {to},
          parent |-> mapSet(s.parent, to, from),
          next |-> s.next \cup {to}]

RECURSIVE pathLevel(_, _, _, _, _, _, _)
pathLevel(E, direction, goal, s, depth, maxDepth, maxNodes) ==
    LET step(t, from) == FoldLeft(LAMBDA u, p : discover(u, from, p[1], goal), t,
                                  getNeighbors(E, from, direction))
        done == FoldLeft(step, [s EXCEPT !.next = {}], ascending(s.next))
    IN  IF s.next = {} \/ Cardinality(s.visited) >= maxNodes \/ depth >= maxDepth
        THEN s
        ELSE IF goal \in done.visited THEN done
        ELSE pathLevel(E, direction, goal, done, depth + 1, maxDepth, maxNodes)

\* shortestPath: << >> stands for found = false
shortestPath(E, start, goal, direction, maxDepth, maxNodes) ==
    LET s == pathLevel(E, direction, goal,
                       [visited |-> {start}, parent |-> << >>, next |-> {start}],
                       0, maxDepth, maxNodes)
    IN  IF start = goal THEN <<start>>
        ELSE IF goal \in s.visited THEN _reconstructPath(s.parent, start, goal)
        ELSE << >>

_shouldUpdatePredecessor(predMap, n, candidate) ==
    n \notin DOMAIN predMap \/ candidate < predMap[n]

\* _resolveWeightFn: either a weight for the edge (here: for its label) or
\* the cost of entering a node
edgeCost(W, to, label) == IF W.kind = "node" THEN W.of[to] ELSE W.of[label]

\* the neighbours of n as pairs <<neighborId, cost of the edge>>; backward
\* searches pay for the edge in its own direction
costs(E, n, direction, W, backward) ==
    LET ns == getNeighbors(E, n, direction)
    IN  [i \in DOMAIN ns |->
           <<ns[i][1], edgeCost(W, IF backward THEN n ELSE ns[i][1], ns[i][2])>>]

\* One side of a search: its heap, the scores g, the predecessors and the
\* visited nodes.  tie is the lexicographic tie break of GraphTraversal.
side(from, h, tie) ==
    [heap |-> heapInsert(<< >>, h[from], from, tie), g |-> from :> 0,
     prev |-> << >>, visited |-> {}]

improves(s, current, to, tentG, tie) ==
    LET best == mapGet(s.g, to, Infinity)
    IN  tentG < best \/ (tie /\ tentG = best
                             /\ _shouldUpdatePredecessor(s.prev, to, current))

relax(s, current, to, tentG, priority, tie) ==
    [s EXCEPT !.g = mapSet(s.g, to, tentG),
              !.prev = mapSet(s.prev, to, current),
              !.heap = heapInsert(s.heap, priority, to, tie)]

\* the least entry of the heap is taken out and visited
enter(s, tie) ==
    [s EXCEPT !.heap = heapExtractMin(s.heap, tie), !.visited = @ \cup {s.heap[1][2]}]

\* The loop of weightedShortestPath and aStarSearch; adj[n] are the costs of
\* n's neighbours.  A visited node is never opened again.  eps is 1 where
\* equal f prefers the larger g (the EPSILON of DagPathFinding), else 0.
RECURSIVE bestFirst(_, _, _, _, _, _, _)
bestFirst(adj, s, goal, h, tie, eps, maxNodes) ==
    LET current == s.heap[1][2]
        visit(t, p) ==
          LET tentG == t.g[current] + p[2]
          IN  IF p[1] \in t.visited \/ ~improves(t, current, p[1], tentG, tie) THEN t
              ELSE relax(t, current, p[1], tentG,
                         1000 * (tentG + h[p[1]]) - eps * tentG, tie)
    IN  IF s.heap = << >> \/ Cardinality(s.visited) >= maxNodes THEN s
        ELSE IF current \in s.visited
        THEN bestFirst(adj, enter(s, tie), goal, h, tie, eps, maxNodes)
        ELSE IF current = goal THEN enter(s, tie)
        ELSE bestFirst(adj, FoldLeft(visit, enter(s, tie), adj[current]),
                       goal, h, tie, eps, maxNodes)

pathOf(s, start, goal) ==
    IF goal \in s.visited
    THEN [path |-> _reconstructPath(s.prev, start, goal), totalCost |-> s.g[goal]]
    ELSE NoPath

aStarSearch(E, Node, W, start, goal, direction, h, maxNodes) ==
    pathOf(bestFirst([n \in Node |-> costs(E, n, direction, W, FALSE)],
                     side(start, h, TRUE), goal, h, TRUE, 0, maxNodes), start, goal)

\* weightedShortestPath: the same loop without a heuristic
weightedShortestPath(E, Node, W, start, goal, direction, maxNodes) ==
    aStarSearch(E, Node, W, start, goal, direction, [n \in Node |-> 0], maxNodes)

\* a meeting point is better if it is cheaper, or as cheap and smaller
offer(m, cost, n, tie) ==
    IF \/ cost < m.mu
       \/ tie /\ cost = m.mu /\ (m.meeting = 0 \/ n < m.meeting)
    THEN [mu |-> cost, meeting |-> n] ELSE m

\* _biAStarExpand: one side visits its least node and offers meeting points
\* with the other side; m is the best so far (meeting 0: none)
_biAStarExpand(adj, s, other, m, h, tie) ==
    LET current == s.heap[1][2]
        entered == enter(s, tie)
        met == IF current \in other.visited
               THEN offer(m, s.g[current] + other.g[current], current, tie) ELSE m
        visit(t, p) ==
          LET tentG == t.s.g[current] + p[2]
          IN  IF \/ p[1] \in t.s.visited
                 \/ ~improves(t.s, current, p[1], tentG, tie) THEN t
              ELSE [s |-> relax(t.s, current, p[1], tentG, tentG + h[p[1]], tie),
                    m |-> IF p[1] \in DOMAIN other.g
                          THEN offer(t.m, tentG + other.g[p[1]], p[1], tie) ELSE t.m]
    IN  IF current \in s.visited THEN [s |-> entered, m |-> m]
        ELSE FoldLeft(visit, [s |-> entered, m |-> met], adj[current])

\* a mutant: stop as soon as the sides have met
biStopEager(f, b, m) == m.mu < Infinity

\* both heaps promise nothing better than mu
biStop(f, b, m) == setMin({peekPriority(f.heap), peekPriority(b.heap)}) >= m.mu

RECURSIVE biSearch(_, _, _, _, _, _, _, _, _)
biSearch(fwdAdj, bwdAdj, f, b, m, fh, bh, tie, maxNodes) ==
    IF \/ f.heap = << >> /\ b.heap = << >>
       \/ Cardinality(f.visited) + Cardinality(b.visited) >= maxNodes
       \/ biStop(f, b, m)
    THEN [f |-> f, b |-> b, m |-> m]
    ELSE IF peekPriority(f.heap) <= peekPriority(b.heap)
    THEN LET r == _biAStarExpand(fwdAdj, f, b, m, fh, tie)
         IN  biSearch(fwdAdj, bwdAdj, r.s, b, r.m, fh, bh, tie, maxNodes)
    ELSE LET r == _biAStarExpand(bwdAdj, b, f, m, bh, tie)
         IN  biSearch(fwdAdj, bwdAdj, f, r.s, r.m, fh, bh, tie, maxNodes)

bidirectionalAStar(E, Node, W, start, goal, fh, bh, maxNodes) ==
    LET r == biSearch([n \in Node |-> costs(E, n, "out", W, FALSE)],
                      [n \in Node |-> costs(E, n, "in", W, TRUE)],
                      side(start, fh, TRUE), side(goal, bh, TRUE),
                      [mu |-> Infinity, meeting |-> 0], fh, bh, TRUE, maxNodes)
    IN  IF start = goal THEN [path |-> <<start>>, totalCost |-> 0]
        ELSE IF r.m.meeting = 0 THEN NoPath
        ELSE [path |-> _reconstructBiPath(r.f.prev, r.b.prev, start, goal, r.m.meeting),
              totalCost |-> r.m.mu]

----------------------------------------------------------------------------
(* Order, ancestors, reduction and closure.                                *)

\* what a queue discovers from some nodes, in the order of discovery
RECURSIVE discoverQueue(_, _, _, _)
discoverQueue(E, direction, queue, i) ==
    IF i > Len(queue) THEN queue
    ELSE LET ns == getNeighbors(E, queue[i], direction)
             add(q, p) == IF p[1] \in ToSet(q) THEN q ELSE Append(q, p[1])
         IN  discoverQueue(E, direction, FoldLeft(add, queue, ns), i + 1)

\* the edges from u that enter v, parallel ones counted
parallel(E, u, v, direction) ==
    Cardinality({p \in ToSet(getNeighbors(E, u, direction)) : p[1] = v})

\* Kahn: take the least ready node, lower the degrees of its neighbours
RECURSIVE kahn(_, _, _, _, _, _)
kahn(E, direction, ready, inDegree, sorted, maxNodes) ==
    IF ready = {} \/ Len(sorted) >= maxNodes THEN [sorted |-> sorted, ready |-> ready]
    ELSE LET n == setMin(ready)
             deg == [v \in DOMAIN inDegree |-> inDegree[v] - parallel(E, n, v, direction)]
             freed == {v \in DOMAIN deg : deg[v] = 0 /\ inDegree[v] > 0}
         IN  kahn(E, direction, (ready \ {n}) \cup freed, deg, Append(sorted, n), maxNodes)

computeTopoHasCycle(sortedLength, discovered, maxNodes, readyRemaining) ==
    /\ ~(sortedLength >= maxNodes /\ readyRemaining)
    /\ sortedLength < discovered

\* how many edges enter each of the nodes from one of them
inDegrees(E, found, direction) ==
    [v \in found |-> Cardinality({<<u, k>> \in found \X (1..Cardinality(E)) :
                                    k <= parallel(E, u, v, direction)})]

topoResult(taken, discovered, maxNodes) ==
    [sorted |-> taken.sorted,
     hasCycle |-> computeTopoHasCycle(Len(taken.sorted), discovered, maxNodes, taken.ready # {})]

kahnFrom(E, inDegree, direction, maxNodes) ==
    topoResult(kahn(E, direction, {v \in DOMAIN inDegree : inDegree[v] = 0}, inDegree, << >>,
                    maxNodes),
               Cardinality(DOMAIN inDegree), maxNodes)

\* topologicalSort with throwOnCycle = false
topologicalSort(E, starts, direction, maxNodes) ==
    kahnFrom(E, inDegrees(E, ToSet(discoverQueue(E, direction, ascending(starts), 1)), direction),
             direction, maxNodes)

\* the least edge within left from the first node of found that has one
edgeWithin(E, found, left, direction) ==
    LET from == SelectSeq(found, LAMBDA n :
                  n \in left /\ neighborIds(E, n, direction) \cap left # {})
    IN  IF from = << >> THEN << >>
        ELSE <<Head(from), setMin(neighborIds(E, Head(from), direction) \cap left)>>

\* an edge between two nodes that Kahn's algorithm left over
_findTopoCycleWitness(E, starts, direction) ==
    LET found == discoverQueue(E, direction, ascending(starts), 1)
    IN  edgeWithin(E, found,
                   ToSet(found) \ ToSet(topologicalSort(E, starts, direction, Infinity).sorted),
                   direction)

\* commonAncestors: the nodes that all the backward searches visit
commonAncestors(E, nodes, maxDepth, maxResults) ==
    LET visits(a) == {i \in DOMAIN nodes :
                        a \in ToSet(bfs(E, nodes[i], "in", maxDepth, Infinity))}
        seen == UNION {ToSet(bfs(E, nodes[i], "in", maxDepth, Infinity)) : i \in DOMAIN nodes}
        common == ascending({a \in seen : visits(a) = DOMAIN nodes})
    IN  SubSeq(common, 1, setMin({maxResults, Len(common)}))

\* weightedLongestPath: dynamic programming along the topological order
longestAlong(E, W, start, direction, sorted) ==
    LET visit(n, t, p) ==
          LET alt == t.g[n] + p[2]
              best == mapGet(t.g, p[1], -1)
          IN  IF alt > best \/ (alt = best /\ _shouldUpdatePredecessor(t.prev, p[1], n))
              THEN [g |-> mapSet(t.g, p[1], alt), prev |-> mapSet(t.prev, p[1], n)]
              ELSE t
        step(t, n) ==
          IF n \notin DOMAIN t.g THEN t
          ELSE FoldLeft(LAMBDA u, p : visit(n, u, p), t, costs(E, n, direction, W, FALSE))
    IN  FoldLeft(step, [g |-> start :> 0, prev |-> << >>], sorted)

pathFound(r, start, goal) ==
    IF goal \notin DOMAIN r.g THEN NoPath
    ELSE [path |-> _reconstructPath(r.prev, start, goal), totalCost |-> r.g[goal]]

\* a graph with a cycle has no answer
weightedLongestPath(E, W, start, goal, direction, maxNodes) ==
    LET topo == topologicalSort(E, {start}, direction, maxNodes)
    IN  IF topo.hasCycle THEN [path |-> << >>, totalCost |-> -1]
        ELSE pathFound(longestAlong(E, W, start, direction, topo.sorted), start, goal)

\* levels: longest distance from a root, along the topological order; << >>
\* if there is a cycle
levels(E, starts, direction, maxNodes) ==
    LET topo == topologicalSort(E, starts, direction, maxNodes)
        raise(lv, from, to) == IF lv[from] + 1 > mapGet(lv, to, 0) THEN mapSet(lv, to, lv[from] + 1) ELSE lv
        step(lv, n) == FoldLeft(LAMBDA u, p : raise(u, n, p[1]), lv, getNeighbors(E, n, direction))
    IN  IF topo.hasCycle THEN << >>
        ELSE FoldLeft(step, [n \in ToSet(topo.sorted) |-> 0], topo.sorted)

rootAncestors(E, start, maxDepth, maxNodes) ==
    ascending({n \in ToSet(bfs(E, start, "in", maxDepth, maxNodes)) :
                 getNeighbors(E, n, "in") = << >>})

\* a mutant: one level only
floodOnce(E, direction, visited) ==
    visited \cup UNION {neighborIds(E, n, direction) : n \in visited}

\* everything some nodes reach, themselves included
RECURSIVE flood(_, _, _)
flood(E, direction, visited) ==
    LET more == UNION {neighborIds(E, n, direction) : n \in visited} \ visited
    IN  IF more = {} THEN visited ELSE flood(E, direction, visited \cup more)

\* transitiveReduction: an edge is redundant if its end is also reached from
\* a neighbour of a neighbour; answers the edges kept, as <<from, to, label>>
transitiveReduction(E, starts, direction, maxNodes) ==
    LET topo == topologicalSort(E, starts, direction, maxNodes)
        redundant(u) ==
          LET direct == neighborIds(E, u, direction)
              grandchildren == UNION {neighborIds(E, v, direction) : v \in direct}
          IN  IF Len(getNeighbors(E, u, direction)) <= 1 THEN {}
              ELSE direct \cap flood(E, direction, grandchildren)
    IN  IF topo.hasCycle THEN {}
        ELSE UNION {{<<u, p[1], p[2]>> :
                       p \in {q \in ToSet(getNeighbors(E, u, direction)) :
                                q[1] \notin redundant(u)}} : u \in ToSet(topo.sorted)}

\* _prepareTransitiveClosure: discovery that stops to expand at maxNodes
RECURSIVE closureQueue(_, _, _, _, _)
closureQueue(E, direction, queue, i, maxNodes) ==
    IF i > Len(queue) \/ Len(queue) >= maxNodes THEN ToSet(queue)
    ELSE LET add(q, p) == IF p[1] \in ToSet(q) THEN q ELSE Append(q, p[1])
         IN  closureQueue(E, direction,
                          FoldLeft(add, queue, getNeighbors(E, queue[i], direction)),
                          i + 1, maxNodes)

\* _streamTransitiveClosureEdges: every node with all that it reaches but
\* itself
closureEdges(E, nodeList, direction) ==
    UNION {{<<u, v>> : v \in flood(E, direction, {u}) \ {u}} : u \in nodeList}

\* transitiveClosure: {} with an error if there are more than maxEdges edges
transitiveClosure(E, starts, direction, maxNodes, maxEdges) ==
    LET edges == closureEdges(E, closureQueue(E, direction, ascending(starts), 1, maxNodes),
                              direction)
    IN  [ok |-> Cardinality(edges) <= maxEdges,
         edges |-> IF Cardinality(edges) <= maxEdges THEN edges ELSE {}]
=============================================================================
