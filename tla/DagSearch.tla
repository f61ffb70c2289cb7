------------------------------ MODULE DagSearch ------------------------------
(***************************************************************************)
(* The services over the commit DAG: DagTraversal, DagPathFinding and      *)
(* DagTopology, behind the facade CommitDagTraversalService.  They read    *)
(* parents and children from the bitmap index, which answers in ascending  *)
(* order of the ids it gave to the commits.                                *)
(*                                                                         *)
(* A DAG is a set D of pairs <<parent, child>>; commits are numbers, their *)
(* order is that of their ids in the index.  Nothing below relies on D     *)
(* being acyclic.                                                          *)
(***************************************************************************)
EXTENDS Traversal

getChildren(D, n) == ascending({p[2] : p \in {q \in D : q[1] = n}})

getParents(D, n) == ascending({p[1] : p \in {q \in D : q[2] = n}})

dagNeighbors(D, n, direction) ==
    IF direction = "forward" THEN getChildren(D, n) ELSE getParents(D, n)

\* Take the next entry of a queue or a stack, skip it if it was visited or is
\* too deep, else yield it and add its unvisited neighbours.
RECURSIVE dagWalk(_, _, _, _, _, _, _)
dagWalk(D, direction, todo, lifo, maxDepth, maxNodes, yielded) ==
    LET at == IF lifo THEN Last(todo) ELSE Head(todo)
        rest == IF lifo THEN Front(todo) ELSE Tail(todo)
        seen == {yielded[i].sha : i \in DOMAIN yielded}
        new == SelectSeq(dagNeighbors(D, at.sha, direction),
                         LAMBDA m : m \notin seen \cup {at.sha})
        entries == [i \in DOMAIN new |->
                      [sha |-> new[i], depth |-> at.depth + 1, parent |-> at.sha]]
        more == IF at.depth >= maxDepth THEN << >>
                ELSE IF lifo THEN Reverse(entries) ELSE entries
    IN  IF todo = << >> \/ Len(yielded) >= maxNodes THEN yielded
        ELSE IF at.sha \in seen \/ at.depth > maxDepth
        THEN dagWalk(D, direction, rest, lifo, maxDepth, maxNodes, yielded)
        ELSE dagWalk(D, direction, rest \o more, lifo, maxDepth, maxNodes, Append(yielded, at))

startAt(n) == <<[sha |-> n, depth |-> 0, parent |-> 0]>>

dagBfs(D, start, direction, maxDepth, maxNodes) ==
    dagWalk(D, direction, startAt(start), FALSE, maxDepth, maxNodes, << >>)

dagDfs(D, start, direction, maxDepth, maxNodes) ==
    dagWalk(D, direction, startAt(start), TRUE, maxDepth, maxNodes, << >>)

ancestors(D, sha, maxDepth, maxNodes) == dagBfs(D, sha, "reverse", maxDepth, maxNodes)

descendants(D, sha, maxDepth, maxNodes) == dagBfs(D, sha, "forward", maxDepth, maxNodes)

----------------------------------------------------------------------------
(* DagPathFinding.                                                         *)

RECURSIVE findPathLoop(_, _, _, _, _, _, _, _)
findPathLoop(D, from, to, queue, parentMap, visited, maxDepth, maxNodes) ==
    LET at == Head(queue)
        new == SelectSeq(getChildren(D, at[1]), LAMBDA c : c \notin visited \cup {at[1]})
    IN  IF queue = << >> \/ Cardinality(visited) >= maxNodes THEN << >>
        ELSE IF at[2] > maxDepth \/ at[1] \in visited
        THEN findPathLoop(D, from, to, Tail(queue), parentMap, visited, maxDepth, maxNodes)
        ELSE IF at[1] = to THEN walkBack(parentMap, from, <<to>>)
        ELSE findPathLoop(D, from, to,
                 Tail(queue) \o [i \in DOMAIN new |-> <<new[i], at[2] + 1>>],
                 FoldLeft(LAMBDA m, c : mapSet(m, c, at[1]), parentMap, new),
                 visited \cup {at[1]}, maxDepth, maxNodes)

\* findPath: every discovery of a child that is not visited yet overwrites
\* its parent; << >> stands for found = false
findPath(D, from, to, maxDepth, maxNodes) ==
    IF from = to THEN <<from>>
    ELSE findPathLoop(D, from, to, <<<<from, 0>>>>, << >>, {}, maxDepth, maxNodes)

\* isReachable delegates to findPath, which the facade sets
dagIsReachable(D, from, to, maxDepth) == findPath(D, from, to, maxDepth, Infinity) # << >>

\* One neighbour in shortestPath: if the other side knows it, the search has
\* met; else it joins the next frontier if it is new.  s.met is the meeting
\* point, 0 while there is none.
meetOrPush(s, other, from, n) ==
    IF s.met # 0 THEN s
    ELSE IF n \in other.visited THEN [s EXCEPT !.met = n, !.parent = mapSet(@, n, from)]
    ELSE IF n \in s.visited THEN s
    ELSE [s EXCEPT !.visited = @ \cup {n}, !.parent = mapSet(@, n, from),
                   !.next = Append(@, n)]

\* a side expands its whole frontier
expandSide(D, direction, s, other) ==
    LET step(t, n) == FoldLeft(LAMBDA u, m : meetOrPush(u, other, n, m), t,
                               dagNeighbors(D, n, direction))
    IN  FoldLeft(step, [s EXCEPT !.next = << >>], s.next)

\* forward half up to the meeting point, then backward half from it
_reconstructBidirectionalPath(fwdParent, bwdParent, from, to, meeting) ==
    walkOn(bwdParent, to, walkBack(fwdParent, from, <<meeting>>))

RECURSIVE biBfs(_, _, _, _, _, _)
biBfs(D, from, to, f, b, maxDepth) ==
    LET f2 == expandSide(D, "forward", f, b)
        b2 == expandSide(D, "reverse", b, f2)
    IN  IF maxDepth = 0 \/ (f.next = << >> /\ b.next = << >>) THEN << >>
        ELSE IF f2.met # 0
        THEN _reconstructBidirectionalPath(f2.parent, b.parent, from, to, f2.met)
        ELSE IF b2.met # 0
        THEN _reconstructBidirectionalPath(f2.parent, b2.parent, from, to, b2.met)
        ELSE biBfs(D, from, to, f2, b2, maxDepth - 1)

frontierAt(n) == [visited |-> {n}, parent |-> << >>, next |-> <<n>>, met |-> 0]

\* shortestPath: breadth first from both ends, a level of each in turn
dagShortestPath(D, from, to, maxDepth) ==
    IF from = to THEN <<from>>
    ELSE biBfs(D, from, to, frontierAt(from), frontierAt(to), maxDepth)

\* weightProvider(from, to) as a function; backward searches pay for the edge
\* in its own direction
dagCosts(D, n, direction, weight, backward) ==
    LET ns == dagNeighbors(D, n, direction)
    IN  [i \in DOMAIN ns |->
           <<ns[i], IF backward THEN weight[ns[i], n] ELSE weight[n, ns[i]]>>]

\* the heap has no tie break here, and no limit on the nodes
dagAStarSearch(D, Node, weight, from, to, direction, h, eps) ==
    pathOf(bestFirst([n \in Node |-> dagCosts(D, n, direction, weight, FALSE)],
                     side(from, h, FALSE), to, h, FALSE, eps, Infinity), from, to)

dagWeightedShortestPath(D, Node, weight, from, to, direction) ==
    dagAStarSearch(D, Node, weight, from, to, direction, [n \in Node |-> 0], 0)

\* _walkPredecessors to the start, then _walkSuccessors to the goal
_reconstructBidirectionalAStarPath(fwdPrev, bwdNext, from, to, meeting) ==
    walkOn(bwdNext, to, walkBack(fwdPrev, from, <<meeting>>))

\* _expandForward and _expandBackward are _biAStarExpand without the tie break
dagBidirectionalAStar(D, Node, weight, from, to, fh, bh) ==
    LET r == biSearch([n \in Node |-> dagCosts(D, n, "forward", weight, FALSE)],
                      [n \in Node |-> dagCosts(D, n, "reverse", weight, TRUE)],
                      side(from, fh, FALSE), side(to, bh, FALSE),
                      [mu |-> Infinity, meeting |-> 0], fh, bh, FALSE, Infinity)
    IN  IF from = to THEN [path |-> <<from>>, totalCost |-> 0]
        ELSE IF r.m.meeting = 0 THEN NoPath
        ELSE [path |-> _reconstructBidirectionalAStarPath(r.f.prev, r.b.prev, from, to,
                                                      r.m.meeting),
              totalCost |-> r.m.mu]

----------------------------------------------------------------------------
(* DagTopology.                                                            *)

RECURSIVE dagDiscover(_, _, _, _)
dagDiscover(D, direction, queue, i) ==
    IF i > Len(queue) THEN queue
    ELSE dagDiscover(D, direction,
           queue \o SelectSeq(dagNeighbors(D, queue[i], direction),
                              LAMBDA n : n \notin ToSet(queue)), i + 1)

RECURSIVE dagKahn(_, _, _, _, _, _)
dagKahn(D, direction, ready, inDegree, yielded, maxNodes) ==
    IF ready = << >> \/ Len(yielded) >= maxNodes THEN yielded
    ELSE LET ns == dagNeighbors(D, Head(ready), direction)
             deg == [v \in DOMAIN inDegree |->
                       IF v \in ToSet(ns) THEN inDegree[v] - 1 ELSE inDegree[v]]
         IN  dagKahn(D, direction,
                     Tail(ready) \o SelectSeq(ns, LAMBDA v : deg[v] = 0),
                     deg, Append(yielded, Head(ready)), maxNodes)

\* topologicalSort: ready nodes leave in the order they became ready; fewer
\* nodes yielded than found counts as a cycle, also when maxNodes cut the
\* list short
dagTopologicalSort(D, start, direction, maxNodes) ==
    LET found == dagDiscover(D, direction, <<start>>, 1)
        inDegree == [v \in ToSet(found) |->
                       Cardinality({u \in ToSet(found) :
                                      v \in ToSet(dagNeighbors(D, u, direction))})]
        yielded == dagKahn(D, direction, SelectSeq(found, LAMBDA v : inDegree[v] = 0),
                           inDegree, << >>, maxNodes)
    IN  [sorted |-> yielded, cycleDetected |-> Len(yielded) < Len(found)]

shasOfWalk(walk) == [i \in DOMAIN walk |-> walk[i].sha]

\* commonAncestors: in the order of their discovery
dagCommonAncestors(D, shas, maxDepth, maxResults) ==
    LET seen == [i \in DOMAIN shas |-> shasOfWalk(ancestors(D, shas[i], maxDepth, Infinity))]
        inAll(a) == \A i \in DOMAIN shas : a \in ToSet(seen[i])
        common == SelectSeq(seen[1], inAll)
    IN  IF shas = << >> THEN << >>
        ELSE IF Len(shas) = 1 THEN shasOfWalk(ancestors(D, shas[1], maxDepth, maxResults))
        ELSE SubSeq(common, 1, setMin({maxResults, Len(common)}))
=============================================================================
