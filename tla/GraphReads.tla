----------------------------- MODULE GraphReads -----------------------------
(***************************************************************************)
(* The graph that the read algorithms see, and what their answers mean.    *)
(* Every materialization builds the adjacency of the visible edges anew;   *)
(* here edges come and the algorithms answer on every graph on the way.    *)
(* The properties compare each answer with a definition that knows nothing *)
(* of queues and heaps: hops and costs are minima over simple paths.       *)
(***************************************************************************)
EXTENDS LogicalTraversal

CONSTANTS
    Node,       \* the visible nodes
    Possible,   \* the edges that may appear
    MaxEdges,   \* bound on the edges of a graph
    EdgeWeight, \* EdgeWeight[l]: what weightFn answers for label l
    NodeWeight  \* NodeWeight[n]: what nodeWeightFn answers for n

ASSUME NodeAssumption == Node \subseteq Nat \ {0} /\ IsFiniteSet(Node)
ASSUME PossibleAssumption == \A e \in Possible : e[1] \in Node /\ e[2] \in Node

VARIABLE edges   \* the visible edges

ReadsInit == edges = {}

\* another state is materialized, with one edge more
appear ==
    /\ Cardinality(edges) < MaxEdges
    /\ \E e \in Possible \ edges : edges' = edges \cup {e}

----------------------------------------------------------------------------
(* What is true of a graph.                                                *)

Direction == {"out", "in", "both"}

Weights == {[kind |-> "edge", of |-> EdgeWeight], [kind |-> "node", of |-> NodeWeight]}

\* the pairs a step may go along
arcs(direction) ==
    LET out == {<<e[1], e[2]>> : e \in edges}
        in  == {<<e[2], e[1]>> : e \in edges}
    IN  CASE direction = "out" -> out [] direction = "in" -> in [] OTHER -> out \cup in

isPath(p, R) == \A i \in 1..(Len(p) - 1) : <<p[i], p[i + 1]>> \in R

\* the cheapest edge from u to v
arcCost(W, u, v) ==
    setMin({edgeCost(W, v, e[3]) : e \in {f \in edges : f[1] = u /\ f[2] = v}})

\* all paths without a repeated node that start at u
simplePaths(u, R) ==
    LET grow[k \in 0..(Cardinality(Node) - 1)] ==
          IF k = 0 THEN {<<u>>}
          ELSE grow[k - 1] \cup
               UNION {{Append(p, v) : v \in {w \in Node : /\ w \notin ToSet(p)
                                                          /\ <<Last(p), w>> \in R}} :
                      p \in {q \in grow[k - 1] : Len(q) = k}}
    IN  grow[Cardinality(Node) - 1]

pathCost(W, p) ==
    FoldLeft(+, 0, [i \in 1..(Len(p) - 1) |-> arcCost(W, p[i], p[i + 1])])

leastOr(S, default) == IF S = {} THEN default ELSE setMin(S)

\* hops[v]: how far v is from u
hops(u, R) ==
    LET P == simplePaths(u, R)
    IN  [v \in Node |-> leastOr({Len(p) - 1 : p \in {q \in P : Last(q) = v}}, Infinity)]

reached(u, R) == {Last(p) : p \in simplePaths(u, R)}

\* the cheapest way from u to each node, along the edges
cheapest(u, W) ==
    LET P == simplePaths(u, arcs("out"))
    IN  [v \in Node |-> leastOr({pathCost(W, p) : p \in {q \in P : Last(q) = v}}, Infinity)]

cyclic(S, R) == \E u, v \in S : <<u, v>> \in R /\ u \in reached(v, R)

----------------------------------------------------------------------------
(* What the answers mean, method by method.                                *)

\* bfs visits exactly the nodes within maxDepth hops, nearest first and in
\* order of ids at equal distance, and maxNodes only cuts its list off; dfs
\* visits all that is reachable; isReachable agrees with the distance at
\* every depth limit (GraphTraversal.bfs, dfs, isReachable, DagTraversal)
traversalsReachTheirNodes ==
    \A s \in Node, dir \in Direction :
      LET d == hops(s, arcs(dir))
          all == bfs(edges, s, dir, Infinity, Infinity)
          order(a, b) == d[a] < d[b] \/ (d[a] = d[b] /\ a < b)
      IN  /\ all = sortSet({n \in Node : d[n] < Infinity}, order)
          /\ \A k \in 0..Cardinality(Node) :
                /\ ToSet(bfs(edges, s, dir, k, Infinity)) = {n \in Node : d[n] <= k}
                /\ bfs(edges, s, dir, Infinity, k) = SubSeq(all, 1, setMin({k, Len(all)}))
                /\ \A goal \in Node :
                     isReachable(edges, s, goal, dir, k, Infinity) <=> d[goal] <= k
          /\ ToSet(dfs(edges, s, dir, Infinity, Infinity)) = ToSet(all)
          /\ dir = "both" => connectedComponent(edges, s, Infinity, Infinity) = all
          /\ dir # "both" =>
                LET walk == dagBfs(arcs("out"), s, IF dir = "out" THEN "forward" ELSE "reverse",
                                   Infinity, Infinity)
                IN  /\ ToSet(shasOfWalk(walk)) = ToSet(all)
                    /\ \A i \in DOMAIN walk : walk[i].depth = d[walk[i].sha]

\* shortestPath, from one end or from both, returns a path of the least
\* number of hops, and finds none only if there is none (GraphTraversal and
\* DagPathFinding.shortestPath); findPath finds a path whenever there is one
shortestPathsAreShortest ==
    \A s, goal \in Node :
      LET R == arcs("out")
          d == hops(s, R)[goal]
          right(p) == IF d = Infinity THEN p = << >>
                      ELSE Len(p) = d + 1 /\ p[1] = s /\ Last(p) = goal /\ isPath(p, R)
          f == findPath(R, s, goal, Infinity, Infinity)
      IN  /\ right(shortestPath(edges, s, goal, "out", Infinity, Infinity))
          /\ right(dagShortestPath(R, s, goal, Infinity))
          /\ d = Infinity <=> f = << >>
          /\ f # << >> => f[1] = s /\ Last(f) = goal /\ isPath(f, R)

\* Dijkstra, A* and bidirectional A* all return a path of the least cost, with
\* edge weights or node weights, whether they are guided by nothing or by the
\* true remaining cost (GraphTraversal, DagPathFinding): in particular
\* bidirectional A* does not stop at the first meeting point
cheapestPathsAreCheapest ==
    \A W \in Weights :
      LET cost == [u \in Node |-> cheapest(u, W)]
          pairCost == [p \in arcs("out") |-> arcCost(W, p[1], p[2])]
          zero == [n \in Node |-> 0]
      IN  \A s, goal \in Node :
            LET toGoal == [n \in Node |-> cost[n][goal]]
                fromStart == [n \in Node |-> cost[s][n]]
                right(r) ==
                  /\ r.totalCost = cost[s][goal]
                  /\ r.path # << >> =>
                       /\ r.path[1] = s /\ Last(r.path) = goal
                       /\ isPath(r.path, arcs("out"))
                       /\ pathCost(W, r.path) = r.totalCost
            IN  /\ right(weightedShortestPath(edges, Node, W, s, goal, "out", Infinity))
                /\ right(bidirectionalAStar(edges, Node, W, s, goal, zero, zero, Infinity))
                /\ right(dagWeightedShortestPath(arcs("out"), Node, pairCost, s, goal, "forward"))
                /\ right(dagBidirectionalAStar(arcs("out"), Node, pairCost, s, goal, zero, zero))
                /\ cost[s][goal] < Infinity =>
                     /\ right(aStarSearch(edges, Node, W, s, goal, "out", toGoal, Infinity))
                     /\ right(bidirectionalAStar(edges, Node, W, s, goal, toGoal, fromStart,
                                                 Infinity))
                     /\ right(dagAStarSearch(arcs("out"), Node, pairCost, s, goal, "forward",
                                             toGoal, 1))

\* q names the nodes in the order of the edges R
ordered(q, R) == \A i, j \in DOMAIN q : <<q[i], q[j]>> \in R => i < j

largestOf(S) == CHOOSE k \in S : \A j \in S : j <= k

cycleIsReported(s, S, R, t, dag, cycle) ==
    /\ t.hasCycle <=> cycle
    /\ dag.cycleDetected <=> cycle
    /\ ordered(t.sorted, R) /\ ordered(dag.sorted, R)
    /\ cycle \/ ToSet(t.sorted) = S
    /\ \A k \in 1..Cardinality(S) : topologicalSort(edges, {s}, "out", k).hasCycle => cycle
    /\ cycle => \E w \in {_findTopoCycleWitness(edges, {s}, "out")} :
                   w \in R /\ w[1] \in S \ ToSet(t.sorted)

longestPathsAreLongest(s, P, R, long) ==
    \A v \in DOMAIN long :
      /\ long[v] = largestOf({Len(p) - 1 : p \in {q \in P : Last(q) = v}})
      /\ \A W \in {X \in Weights : X.kind = "node"} :
           \E r \in {weightedLongestPath(edges, W, s, v, "out", Infinity)} :
             /\ r.totalCost = largestOf({pathCost(W, p) : p \in {q \in P : Last(q) = v}})
             /\ isPath(r.path, R) /\ pathCost(W, r.path) = r.totalCost

orderIsSound(s, P, S, R) ==
    /\ cycleIsReported(s, S, R, topologicalSort(edges, {s}, "out", Infinity),
                       dagTopologicalSort(R, s, "forward", Infinity), cyclic(S, R))
    /\ ~cyclic(S, R) =>
         \E long \in {levels(edges, {s}, "out", Infinity)} :
           DOMAIN long = S /\ longestPathsAreLongest(s, P, R, long)

\* topologicalSort orders every edge, says there is a cycle exactly if there is
\* one (a list cut off by maxNodes is none) and its witness lies on what could
\* not be ordered; levels are longest distances; the longest path is the
\* longest (GraphTraversal, DagTopology)
topologicalOrderIsSound ==
    \A s \in Node :
      orderIsSound(s, simplePaths(s, arcs("out")), reached(s, arcs("out")), arcs("out"))

reachedPairs(S, R) == {p \in S \X S : p[1] # p[2] /\ p[2] \in reached(p[1], R)}

reductionIsRight(R, S, K) ==
    ~cyclic(S, R) =>
      /\ \A u \in S : reached(u, K) = reached(u, R)
      /\ \A p \in K : p[2] \notin reached(p[1], K \ {p})

ancestorsAreRight(s, R) ==
    /\ rootAncestors(edges, s, Infinity, Infinity)
         = ascending({n \in Node : s \in reached(n, R) /\ \A m \in Node : <<m, n>> \notin R})
    /\ \A v \in Node :
         \E common \in {{a \in Node : {s, v} \subseteq reached(a, R)}} :
           /\ commonAncestors(edges, <<s, v>>, Infinity, 100) = ascending(common)
           /\ ToSet(dagCommonAncestors(R, <<s, v>>, Infinity, 100)) = common

\* the reduction of a DAG keeps reachability and no edge whose end is reached
\* without it; the closure is reachability; common ancestors are the nodes that
\* reach all the given ones (GraphTraversal, DagTopology)
reductionAndClosureAgree ==
    \A s \in Node :
      /\ reductionIsRight(arcs("out"), reached(s, arcs("out")),
            {<<e[1], e[2]>> : e \in transitiveReduction(edges, {s}, "out", Infinity)})
      /\ transitiveClosure(edges, {s}, "out", Infinity, Infinity).edges
           = reachedPairs(reached(s, arcs("out")), arcs("out"))
      /\ ancestorsAreRight(s, arcs("out"))

filteredWalksAreRight(G, opts, s, R, S, W) ==
    /\ ToSet(logicalBfs(G, s, opts).ok) = S
    /\ ToSet(logicalDfs(G, s, opts).ok) = S
    /\ {logicalTopologicalSort(G, {s}, TRUE, opts).err,
        logicalLevels(G, {s}, opts).err,
        logicalTransitiveReduction(G, {s}, opts).err,
        logicalWeightedLongestPath(G, W, s, s, opts).err}
         = {IF cyclic(S, R) THEN "ERR_GRAPH_HAS_CYCLES" ELSE ""}
    /\ \E pairs \in {reachedPairs(S, R)} :
         /\ logicalTransitiveClosure(G, {s}, Cardinality(pairs), opts).ok = pairs
         /\ pairs # {} => logicalTransitiveClosure(G, {s}, Cardinality(pairs) - 1, opts).err # ""
    /\ ToSet(logicalRootAncestors(G, s, opts).ok)
         = {n \in Node : s \in reached(n, R) /\ \A m \in Node : <<m, n>> \notin R}
    /\ ToSet(logicalCommonAncestors(G, <<s, 1>>, 100, opts).ok)
         = {a \in Node : {s, 1} \subseteq reached(a, R)}

filteredPathsAreRight(G, opts, s, R, S, W, d, zero) ==
    \A goal \in Node :
      /\ logicalIsReachable(G, s, goal, opts).ok <=> goal \in S
      /\ Len(logicalShortestPath(G, s, goal, opts).ok) = IF goal \in S THEN d[goal] + 1 ELSE 0
      /\ \A r \in {logicalWeightedShortestPath(G, W, s, goal, opts),
                   logicalAStarSearch(G, W, s, goal, zero, opts),
                   logicalBidirectionalAStar(G, W, s, goal, zero, zero, opts)} :
           /\ r.err = IF goal \in S THEN "" ELSE "NO_PATH"
           /\ goal \in S => isPath(r.ok.path, R)

filteredAnswersAreRight(G, opts, R, W) ==
    LET ghost == 0
    IN  /\ \A s \in Node :
             /\ filteredWalksAreRight(G, opts, s, R, reached(s, R), W)
             /\ filteredPathsAreRight(G, opts, s, R, reached(s, R), W, hops(s, R),
                                      [n \in Node |-> 0])
        /\ {logicalBfs(G, ghost, opts).err, logicalComponent(G, ghost, opts).err,
            logicalTopologicalSort(G, {1, ghost}, FALSE, opts).err,
            logicalCommonAncestors(G, <<1, ghost>>, 100, opts).err}
             = {"NODE_NOT_FOUND"}
        /\ \A goal \in Node : ~logicalIsReachable(G, ghost, goal, opts).ok

\* with a label filter every method of the facade answers as if the other
\* edges were not there (an empty filter leaves no edge), reports a cycle only
\* if those edges make one, finds no path only if there is none, and refuses
\* a closure of more than maxEdges pairs; an unknown start node is refused by
\* every method but isReachable (LogicalTraversal)
filteredAnswersUseTheirLabels ==
    \A L \in SUBSET {e[3] : e \in Possible} :
      filteredAnswersAreRight(
        [nodes |-> Node, edges |-> edges],
        [dir |-> "undefined", filtered |-> TRUE, labels |-> L, maxDepth |-> Infinity],
        {<<e[1], e[2]>> : e \in {f \in edges : f[3] \in L}},
        CHOOSE X \in Weights : X.kind = "node")

----------------------------------------------------------------------------
(* Properties, in three groups, of graphs with at least one edge.          *)

\* Searches visit exactly the nodes at the distances they were asked for, in
\* a fixed order, in every direction and through the facade with any label
\* filter, which also refuses what it must (GraphTraversal.bfs, dfs,
\* isReachable, connectedComponent; DagTraversal; LogicalTraversal)
SearchesReachTheirNodes ==
    edges # {} => traversalsReachTheirNodes /\ filteredAnswersUseTheirLabels

\* Every path algorithm, from one end or from both, guided or not, returns a
\* path of the least length or cost, and none only if there is none
\* (GraphTraversal, DagPathFinding)
PathsAreBest == edges # {} => shortestPathsAreShortest /\ cheapestPathsAreCheapest

\* Orders, levels, longest paths, reductions, closures and ancestors are those
\* of the graph, and a cycle is reported exactly if there is one
\* (GraphTraversal, DagTopology)
OrdersFollowTheEdges == edges # {} => topologicalOrderIsSound /\ reductionAndClosureAgree
=============================================================================
