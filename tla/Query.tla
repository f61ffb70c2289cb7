------------------------------- MODULE Query -------------------------------
(***************************************************************************)
(* Queries and observers: QueryBuilder.run() in the steps between its      *)
(* awaits, the view of an ObserverView, and the cost of translating one    *)
(* view into another.  Commits and materializations change the graph       *)
(* between the steps of a query.                                           *)
(*                                                                         *)
(* An id is a sequence of letters, for the globs.  Answers are sets: the   *)
(* code sorts them by id after every operation.                            *)
(***************************************************************************)
EXTENDS Integers, Sequences, FiniteSets
LOCAL INSTANCE FiniteSetsExt

CONSTANTS
    NodeId,       \* sequences of letters
    EdgeId,       \* <<from, to, label>>
    PropKey, PropValue,
    Absent,       \* no value: the register was never written
    QueryMenu,    \* the chains of calls that callers make on a query()
    ConfigMenu,   \* observer configurations: [match, expose, redact]
    StartGraphs,  \* the states that may be cached when queries begin
    MaxChanges    \* bound on the changes of the graph afterwards

\* a number is <<"number", n>>: other values take no part in an aggregate
ASSUME QueryAssumption ==
    /\ \A e \in EdgeId : e[1] \in NodeId /\ e[2] \in NodeId
    /\ Absent \notin PropValue /\ \A v \in PropValue : v[1] = "number" => v[2] \in Int

VARIABLES
    graph,     \* the cached state: [nodes, edges, props]
    changes,   \* how often it changed
    query      \* the query that runs, or << >>

queryVars == <<graph, changes, query>>

everything == [match |-> {<<"*">>}, expose |-> {}, redact |-> {}]

----------------------------------------------------------------------------
(* Globs.                                                                  *)

\* ".*" of a regular expression: any letters but line breaks
newline == "\n"

\* match[i, j]: the pattern from its i-th letter on matches s from its j-th
globTable(pattern, s) ==
    LET match[i \in 1..(Len(pattern) + 1), j \in 1..(Len(s) + 1)] ==
          IF i > Len(pattern) THEN j > Len(s)
          ELSE IF pattern[i] = "*"
               THEN match[i + 1, j] \/ (j <= Len(s) /\ s[j] # newline /\ match[i, j + 1])
               ELSE j <= Len(s) /\ s[j] = pattern[i] /\ match[i + 1, j + 1]
    IN  match[1, 1]

\* a pattern "*" alone is tested before a regular expression is made
matchGlob(patterns, s) ==
    \E p \in patterns : p = <<"*">> \/ globTable(p, s)

----------------------------------------------------------------------------
(* Reads of the cached state.                                              *)

visibleEdges(g) == {e \in g.edges : e[1] \in g.nodes /\ e[2] \in g.nodes}

\* getNodeProps: null for a node that is not alive, or the written keys
nodeProps(g, n) ==
    IF n \notin g.nodes THEN [k \in PropKey |-> Absent] ELSE g.props[n]

filterProps(props, c) ==
    [k \in PropKey |->
       IF k \in c.redact \/ (c.expose # {} /\ k \notin c.expose) THEN Absent ELSE props[k]]

----------------------------------------------------------------------------
(* ObserverView: what its query and its reads see of the graph.            *)

observedNodes(g, c) == {n \in g.nodes : matchGlob(c.match, n)}

observedProps(g, c, n) ==
    filterProps(IF matchGlob(c.match, n) THEN nodeProps(g, n)
                ELSE [k \in PropKey |-> Absent], c)

observedEdges(g, c) ==
    {e \in visibleEdges(g) : matchGlob(c.match, e[1]) /\ matchGlob(c.match, e[2])}

\* without an index
buildAdjacencyFromEdges(g, c) ==
    [outgoing |-> [n \in NodeId |-> {e \in observedEdges(g, c) : e[1] = n}],
     incoming |-> [n \in NodeId |-> {e \in observedEdges(g, c) : e[2] = n}]]

\* with one: the outgoing edges of each visible node, and the incoming ones
\* collected from them
buildAdjacencyViaProvider(g, c) ==
    LET visible == observedNodes(g, c)
        out == [n \in NodeId |-> IF n \in visible
                                 THEN {e \in visibleEdges(g) : e[1] = n /\ e[2] \in visible}
                                 ELSE {}]
    IN  [outgoing |-> out,
         incoming |-> [n \in NodeId |-> {e \in UNION {out[m] : m \in NodeId} : e[2] = n}]]

----------------------------------------------------------------------------
(* The operations of a query.                                              *)

labelled(E, label) == {e \in E : label # "" => e[3] = label}

neighborsOf(adjacency, op, n) ==
    IF op.type = "outgoing" THEN {e[2] : e \in labelled(adjacency.outgoing[n], op.label)}
    ELSE {e[1] : e \in labelled(adjacency.incoming[n], op.label)}

applyHop(adjacency, op, S) == UNION {neighborsOf(adjacency, op, n) : n \in S}

\* mutant: only the previous level counts as visited
multiHopRevisiting(adjacency, op, S) ==
    LET level[hop \in 0..op.depth[2]] ==
          IF hop = 0 THEN S ELSE applyHop(adjacency, op, level[hop - 1]) \ level[hop - 1]
    IN  UNION {level[hop] : hop \in op.depth[1]..op.depth[2]}

\* a search that visits no node twice, the starting nodes included
applyMultiHop(adjacency, op, S) ==
    LET level[hop \in 0..op.depth[2]] ==
          IF hop = 0 THEN [at |-> S, visited |-> S]
          ELSE LET next == applyHop(adjacency, op, level[hop - 1].at) \ level[hop - 1].visited
               IN  [at |-> next, visited |-> level[hop - 1].visited \cup next]
    IN  UNION {level[hop].at : hop \in op.depth[1]..op.depth[2]}

\* the shorthand where({key: value})
objectToPredicate(op, props) == \A k \in DOMAIN op.object : props[k] = op.object[k]

createNodeSnapshot(adjacency, memo, n) ==
    [props |-> memo[n], edgesOut |-> adjacency.outgoing[n], edgesIn |-> adjacency.incoming[n]]

\* a function given to where(): the node has this many edges
predicate(op, snapshot) ==
    IF op.type = "where" THEN objectToPredicate(op, snapshot.props)
    ELSE Cardinality(snapshot.edgesOut) + Cardinality(snapshot.edgesIn) >= op.least

numbers(memo, S, key) == {n \in S : memo[n][key] # Absent /\ memo[n][key][1] = "number"}

\* avg is the sum over the number of values, kept as a pair
_runAggregate(key, memo, S) ==
    LET N == numbers(memo, S, key)
        val(n) == memo[n][key][2]
        sum == MapThenSumSet(val, N)
    IN  [count |-> Cardinality(S), sum |-> sum,
         avg |-> IF N = {} THEN <<0, 1>> ELSE <<sum, Cardinality(N)>>,
         min |-> IF N = {} THEN 0 ELSE Min({val(n) : n \in N}),
         max |-> IF N = {} THEN 0 ELSE Max({val(n) : n \in N})]

----------------------------------------------------------------------------
(* The builder: a query is a sequence of calls on it.                      *)

emptyQuery == [match |-> {<<"*">>}, ops |-> << >>, select |-> {},
               aggregate |-> "none", refused |-> FALSE]

\* none, a number, or [min, max]; the call throws if min > max
normalizeDepth(depth) ==
    IF depth = << >> THEN <<1, 1>> ELSE IF Len(depth) = 1 THEN <<depth[1], depth[1]>> ELSE depth

\* aggregate() is terminal for all but where() and match()
builderCall(b, call) ==
    CASE call.type = "match" -> [b EXCEPT !.match = call.patterns]
      [] call.type \in {"where", "degree"} -> [b EXCEPT !.ops = Append(@, call)]
      [] call.type \in {"outgoing", "incoming"} ->
           LET d == normalizeDepth(call.depth)
           IN  IF b.aggregate # "none" \/ d[1] > d[2] THEN [b EXCEPT !.refused = TRUE]
               ELSE [b EXCEPT !.ops = Append(@, [call EXCEPT !.depth = d])]
      [] call.type = "select" ->
           IF b.aggregate # "none" THEN [b EXCEPT !.refused = TRUE]
           ELSE [b EXCEPT !.select = call.fields]
      [] call.type = "aggregate" -> [b EXCEPT !.aggregate = call.key]

\* a refused call throws, and there is no query to run
built(calls) ==
    LET b[i \in 0..Len(calls)] == IF i = 0 THEN emptyQuery ELSE builderCall(b[i - 1], calls[i])
    IN  b[Len(calls)]

----------------------------------------------------------------------------
(* run(), an action per stretch between two awaits.                        *)

QueryInit ==
    /\ graph \in StartGraphs
    /\ changes = 0
    /\ query = << >>

\* a commit, a sync or another materialization installs another state
changeGraph ==
    /\ changes < MaxChanges /\ changes' = changes + 1
    /\ \/ \E n \in NodeId \ graph.nodes : graph' = [graph EXCEPT !.nodes = @ \cup {n}]
       \/ \E n \in graph.nodes : graph' = [graph EXCEPT !.nodes = @ \ {n}]
       \/ \E e \in EdgeId \ graph.edges : graph' = [graph EXCEPT !.edges = @ \cup {e}]
       \/ \E n \in graph.nodes, k \in PropKey, v \in PropValue :
            graph.props[n][k] # v /\ graph' = [graph EXCEPT !.props[n][k] = v]
    /\ query' = IF query = << >> THEN query ELSE <<[query[1] EXCEPT !.overlapped = TRUE]>>

\* _materializeGraph of the graph or of an observer, with an index or not;
\* hash stands for stateHash, the name of the state that was materialized
beginQuery ==
    /\ query = << >>
    /\ \E calls \in QueryMenu, c \in ConfigMenu, indexed \in BOOLEAN :
         /\ ~built(calls).refused
         /\ query' = <<[pc |-> "nodes", q |-> built(calls), config |-> c, hash |-> graph,
                        adjacency |-> IF indexed THEN buildAdjacencyViaProvider(graph, c)
                                      ELSE buildAdjacencyFromEdges(graph, c),
                        set |-> {}, memo |-> << >>, step |-> 1,
                        answer |-> << >>, overlapped |-> FALSE]>>
    /\ UNCHANGED <<graph, changes>>

listNodes ==
    /\ query # << >> /\ query[1].pc = "nodes"
    /\ LET r == query[1]
       IN  query' = <<[r EXCEPT !.pc = "ops",
                         !.set = {n \in observedNodes(graph, r.config) : matchGlob(r.q.match, n)}]>>
    /\ UNCHANGED <<graph, changes>>

\* properties are read once per node and run
remembered(r) ==
    [n \in DOMAIN r.memo \cup r.set |->
       IF n \in DOMAIN r.memo THEN r.memo[n] ELSE observedProps(graph, r.config, n)]

oneOperation ==
    /\ query # << >> /\ query[1].pc = "ops" /\ query[1].step <= Len(query[1].q.ops)
    /\ LET r == query[1]
           op == r.q.ops[r.step]
           next == [r EXCEPT !.step = @ + 1]
           memo == remembered(r)
       IN  query' =
             <<IF op.type \in {"where", "degree"}
               THEN [next EXCEPT !.memo = memo,
                       !.set = {n \in @ : predicate(op, createNodeSnapshot(r.adjacency, memo, n))}]
               ELSE [next EXCEPT
                       !.set = IF op.depth = <<1, 1>> THEN applyHop(r.adjacency, op, @)
                               ELSE applyMultiHop(r.adjacency, op, @)]>>
    /\ UNCHANGED <<graph, changes>>

\* a field that is not selected is left out
selectedEntry(q, memo, n) ==
    [id |-> IF q.select = {} \/ "id" \in q.select THEN n ELSE Absent,
     props |-> IF q.select = {} \/ "props" \in q.select THEN memo[n]
               ELSE [k \in PropKey |-> Absent]]

finishQuery ==
    /\ query # << >> /\ query[1].pc = "ops" /\ query[1].step > Len(query[1].q.ops)
    /\ LET r == query[1]
           memo == remembered(r)
       IN  query' =
             <<[r EXCEPT !.pc = "done", !.memo = << >>,
                  !.answer = IF r.q.aggregate # "none"
                             THEN <<_runAggregate(r.q.aggregate, memo, r.set)>>
                             ELSE <<[n \in r.set |-> selectedEntry(r.q, memo, n)]>>]>>
    /\ UNCHANGED <<graph, changes>>

\* the caller takes the answer
takeAnswer ==
    /\ query # << >> /\ query[1].pc = "done"
    /\ query' = << >> /\ UNCHANGED <<graph, changes>>

QueryNext ==
    changeGraph \/ beginQuery \/ listNodes \/ oneOperation \/ finishQuery \/ takeAnswer

----------------------------------------------------------------------------
(* TranslationCost.                                                        *)

visiblePropKeys(props, c) == {k \in PropKey : filterProps(props, c)[k] # Absent}

\* [lost, of] for the nodes, the edges and the properties of A
nodeLoss(g, A, B) ==
    [lost |-> Cardinality(observedNodes(g, A) \ observedNodes(g, B)),
     of |-> Cardinality(observedNodes(g, A))]

computeEdgeLoss(g, A, B) ==
    [lost |-> Cardinality(observedEdges(g, A) \ observedEdges(g, B)),
     of |-> Cardinality(observedEdges(g, A))]

computePropLoss(g, A, B) ==
    LET ofA(n) == visiblePropKeys(g.props[n], A)
        lost(n) == Cardinality(IF n \in observedNodes(g, B)
                               THEN ofA(n) \ visiblePropKeys(g.props[n], B) ELSE ofA(n))
        all(n) == Cardinality(ofA(n))
    IN  [lost |-> MapThenSumSet(lost, observedNodes(g, A)),
         of |-> MapThenSumSet(all, observedNodes(g, A))]

\* the cost as a fraction: tenths 5, 3 and 2 for nodes, edges, properties
computeTranslationCost(g, A, B) ==
    LET nodes == nodeLoss(g, A, B)
        edges == computeEdgeLoss(g, A, B)
        props == computePropLoss(g, A, B)
        atLeast1(n) == IF n = 0 THEN 1 ELSE n
        den == atLeast1(nodes.of) * atLeast1(edges.of) * atLeast1(props.of)
    IN  IF nodes.of = 0 THEN <<0, 1>>
        ELSE <<(5 * nodes.lost * den) \div atLeast1(nodes.of)
                 + (3 * edges.lost * den) \div atLeast1(edges.of)
                 + (2 * props.lost * den) \div atLeast1(props.of), 10 * den>>

----------------------------------------------------------------------------
(* Properties.                                                             *)

\* the graph that an observer is meant to see
projection(g, c) ==
    LET nodes == {n \in g.nodes : matchGlob(c.match, n)}
    IN  [nodes |-> nodes,
         edges |-> {e \in g.edges : e[1] \in nodes /\ e[2] \in nodes},
         props |-> [n \in nodes |-> [k \in PropKey |->
                      IF k \in c.redact \/ (c.expose # {} /\ k \notin c.expose) THEN Absent
                      ELSE g.props[n][k]]]]

\* where walks of exactly k edges lead from S
walksTo(g, op, S, k) ==
    LET arcs == {IF op.type = "outgoing" THEN <<e[1], e[2]>> ELSE <<e[2], e[1]>> :
                   e \in {f \in g.edges : op.label \in {"", f[3]}}}
        w[i \in 0..k] == IF i = 0 THEN S ELSE {a[2] : a \in {b \in arcs : b[1] \in w[i - 1]}}
    IN  w[k]

meaningOf(g, op, S) ==
    CASE op.type = "where" -> {n \in S : \A k \in DOMAIN op.object : g.props[n][k] = op.object[k]}
      [] op.type = "degree" ->
           {n \in S : Cardinality({e \in g.edges : e[1] = n})
                         + Cardinality({e \in g.edges : e[2] = n}) >= op.least}
      [] OTHER ->
           IF op.depth = <<1, 1>> THEN walksTo(g, op, S, 1)
           ELSE {n \in g.nodes : \E k \in op.depth[1]..op.depth[2] :
                   n \in walksTo(g, op, S, k) /\ \A j \in 0..(k - 1) : n \notin walksTo(g, op, S, j)}

meaning(g, q) ==
    LET s[i \in 0..Len(q.ops)] ==
          IF i = 0 THEN {n \in g.nodes : matchGlob(q.match, n)} ELSE meaningOf(g, q.ops[i], s[i - 1])
    IN  s[Len(q.ops)]

\* the answer of a query that no change overlapped is what the query means on
\* the graph projected to its observer: every operation, a search over
\* several hops included, sees only visible nodes, edges and properties, with
\* and without an index (QueryBuilder.run, ObserverView._materializeGraph)
queryAnswersAreExact ==
    query # << >> =>
      LET r == query[1]
          g == projection(r.hash, r.config)
          S == meaning(g, r.q)
      IN  r.pc = "done" /\ ~r.overlapped =>
            IF r.q.aggregate = "none"
            THEN r.answer[1] = [n \in S |-> selectedEntry(r.q, g.props, n)]
            ELSE r.answer[1] = _runAggregate(r.q.aggregate, g.props, S)

\* translating an observer's view into that of B costs nothing exactly if B
\* shows all of it, and never more than 1 (TranslationCost.js, "normalized to
\* [0, 1]"); looked at when the observer begins a query
freeTranslationsLoseNothing ==
    query # << >> /\ query[1].pc = "nodes" =>
      \A B \in ConfigMenu :
        LET g == query[1].hash
            a == projection(g, query[1].config)
            b == projection(g, B)
            cost == computeTranslationCost(g, query[1].config, B)
        IN  /\ cost[1] <= cost[2]
            /\ cost[1] = 0 <=> /\ a.nodes \subseteq b.nodes /\ a.edges \subseteq b.edges
                               /\ \A n \in a.nodes, k \in PropKey :
                                     a.props[n][k] # Absent => b.props[n][k] = a.props[n][k]

\* What an observer's queries answer, and what it costs to translate its view
\* into another's, both follow from the graph projected to the observer
\* (ObserverView, QueryBuilder.run, computeTranslationCost)
ObserversSeeTheirProjection == queryAnswersAreExact /\ freeTranslationsLoseNothing
=============================================================================
