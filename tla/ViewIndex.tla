----------------------------- MODULE ViewIndex -----------------------------
(***************************************************************************)
(* The materialized view: the bitmap index of the visible graph, built in  *)
(* full (LogicalIndexBuildService) or updated from a patch diff            *)
(* (IncrementalIndexUpdater), the diffs themselves (JoinReducer,           *)
(* PatchDiff, StateDiff), and the queries that read the index or scan the  *)
(* state (query.methods).                                                  *)
(*                                                                         *)
(* Indexes are the ones of module IndexTree, with a node for its id;       *)
(* module ShardedIndex adds the ids and the shards.                        *)
(***************************************************************************)
EXTENDS PatchBuilder, IndexTree
LOCAL INSTANCE SequencesExt

aliveNodes(state) == orsetElements(state.nodeAlive)
aliveEdges(state) == orsetElements(state.edgeAlive)

\* edgeVisibleV5: the edge and both its ends are alive
visibleEdges(state) ==
    {e \in aliveEdges(state) : {e[1], e[2]} \subseteq aliveNodes(state)}

----------------------------------------------------------------------------
(* The diff of a patch: what an operation changed, judged by the state     *)
(* before and after it.                                                    *)

createEmptyDiff ==
    [nodesAdded |-> {}, nodesRemoved |-> {}, edgesAdded |-> {}, edgesRemoved |-> {},
     propsChanged |-> {}]

\* a later entry for the same owner and key replaces an earlier one
changeProp(props, owner, key, value) ==
    {p \in props : p[1] # owner \/ p[2] # key} \cup {<<owner, key, value>>}

\* aliveElementsForDots, less what is alive afterwards
removedBy(before, after, dots) ==
    {p[1] : p \in {q \in before.entries : q[2] \in dots \ before.tombstones}}
        \ orsetElements(after)

\* snapshotBeforeOp and accumulateOpDiff
accumulateOpDiff(diff, s, t, op) ==
    LET owner == IF op.type = "EdgePropSet" THEN op.edge ELSE op.node
        value(st) == IF st.prop[<<owner, op.key>>] = None THEN None
                     ELSE st.prop[<<owner, op.key>>].value
    IN  CASE op.type = "NodeAdd" ->
               [diff EXCEPT !.nodesAdded = @ \cup (({op.node} \cap aliveNodes(t)) \ aliveNodes(s))]
          [] op.type = "NodeRemove" ->
               [diff EXCEPT !.nodesRemoved = @ \cup removedBy(s.nodeAlive, t.nodeAlive, op.observedDots)]
          [] op.type = "EdgeAdd" ->
               [diff EXCEPT !.edgesAdded = @ \cup (({op.edge} \cap aliveEdges(t)) \ aliveEdges(s))]
          [] op.type = "EdgeRemove" ->
               [diff EXCEPT !.edgesRemoved = @ \cup removedBy(s.edgeAlive, t.edgeAlive, op.observedDots)]
          [] op.type \in {"NodePropSet", "EdgePropSet"} /\ value(t) # value(s) ->
               [diff EXCEPT !.propsChanged = changeProp(@, owner, op.key, value(t))]
          [] OTHER -> diff

applyWithDiff(state, patch) ==
    LET step(acc, i) ==
          LET op == normalizeRawOp(patch.ops[i])
              next == applyOpV2(acc.state, op, eventOf(patch, i))
          IN  [state |-> next, diff |-> accumulateOpDiff(acc.diff, acc.state, next, op)]
        all == FoldLeft(step, [state |-> state, diff |-> createEmptyDiff],
                        [i \in 1..Len(patch.ops) |-> i])
    IN  [all EXCEPT !.state = updateFrontierFromPatch(@, patch)]

\* mergeDiffs: an add and a remove of the same thing cancel, in either order
mergeDiffs(a, b) ==
    LET added == a.nodesAdded \cup b.nodesAdded
        removed == a.nodesRemoved \cup b.nodesRemoved
        eAdded == a.edgesAdded \cup b.edgesAdded
        eRemoved == a.edgesRemoved \cup b.edgesRemoved
    IN  [nodesAdded |-> added \ removed, nodesRemoved |-> removed \ added,
         edgesAdded |-> eAdded \ eRemoved, edgesRemoved |-> eRemoved \ eAdded,
         propsChanged |-> {p \in a.propsChanged : \A q \in b.propsChanged :
                             p[1] # q[1] \/ p[2] # q[2]} \cup b.propsChanged]

\* reduceV5 with trackDiff; the state alone is what it answers without
reduceV5(patches, initial) ==
    LET step(acc, patch) ==
          LET r == applyWithDiff(acc.state, patch)
          IN  [state |-> r.state, diff |-> mergeDiffs(acc.diff, r.diff)]
    IN  FoldLeft(step, [state |-> initial, diff |-> createEmptyDiff], patches)

----------------------------------------------------------------------------
(* The index, built from a state.                                          *)

build_index(state) ==
    LET E == visibleEdges(state)
    IN  [known |-> aliveNodes(state), alive |-> aliveNodes(state),
         labels |-> {e[3] : e \in E},
         fwd |-> UNION {rows(e[1], e[3], e[2]) : e \in E},
         rev |-> UNION {rows(e[2], e[3], e[1]) : e \in E},
         props |-> {<<p[1], p[2], state.prop[p].value>> :
                      p \in {q \in aliveNodes(state) \X Key : state.prop[q] # None}}]

\* computeDirtyShards for the state that the diff leads to
updateIndex(t, diff, state) ==
    computeDirtyShards(t, diff, aliveNodes(state), aliveEdges(state))

----------------------------------------------------------------------------
(* Reading.                                                                *)

_indexedNeighbors(index, n) ==
    {<<p[1], p[2], "outgoing">> : p \in indexEdges(index, n, "out")}
      \cup {<<p[1], p[2], "incoming">> : p \in indexEdges(index, n, "in")}

\* the scan does not ask whether n itself is alive
_linearNeighbors(state, n) ==
    {<<e[2], e[3], "outgoing">> : e \in {f \in aliveEdges(state) :
                                           f[1] = n /\ f[2] \in aliveNodes(state)}}
      \cup {<<e[1], e[3], "incoming">> : e \in {f \in aliveEdges(state) :
                                           f[2] = n /\ f[1] \in aliveNodes(state)}}

linearNodeProps(state, n) ==
    {<<k, state.prop[<<n, k>>].value>> : k \in {j \in Key : state.prop[<<n, j>>] # None}}

\* neighbors and getNodeProps: the index answers for a node that it knows to
\* be alive (and, for properties, has a record of), else the state is scanned
neighbors(state, index, hasProvider, n) ==
    IF hasProvider /\ index # None /\ isAlive(index, n)
    THEN _indexedNeighbors(index, n) ELSE _linearNeighbors(state, n)

getNodeProps(state, index, n) ==
    LET record == {<<p[2], p[3]>> : p \in {q \in index.props : q[1] = n}}
    IN  IF index # None /\ isAlive(index, n) /\ record # {} THEN record
        ELSE linearNodeProps(state, n)

\* verifyIndex at sample rate 1: the alive nodes whose rows are not the
\* visible edges
verifyIndex(state, index) ==
    {n \in aliveNodes(state) :
       \/ ~isAlive(index, n)
       \/ indexEdges(index, n, "out") # {<<e[2], e[3]>> : e \in {f \in visibleEdges(state) : f[1] = n}}
       \/ indexEdges(index, n, "in") # {<<e[1], e[3]>> : e \in {f \in visibleEdges(state) : f[2] = n}}}

----------------------------------------------------------------------------
(* What subscribers are told (StateDiff).                                  *)

emptyView == [nodes |-> {}, edges |-> {}, props |-> {}]

\* the part of a state that diffStates compares; edge properties are not
viewOf(state) ==
    IF state = None THEN emptyView
    ELSE [nodes |-> aliveNodes(state), edges |-> visibleEdges(state),
          props |-> {<<p[1], p[2], state.prop[p].value>> :
                       p \in {q \in Node \X Key : state.prop[q] # None}}]

\* a mutant: an edge counts as long as it is alive itself
diffAliveEdges(before, after) ==
    LET b == IF before = None THEN {} ELSE aliveEdges(before)
    IN  [nodesAdded |-> viewOf(after).nodes \ viewOf(before).nodes,
         nodesRemoved |-> viewOf(before).nodes \ viewOf(after).nodes,
         edgesAdded |-> aliveEdges(after) \ b, edgesRemoved |-> b \ aliveEdges(after),
         propsSet |-> viewOf(after).props \ viewOf(before).props, propsRemoved |-> {}]

diffStates(before, after) ==
    LET b == viewOf(before)
        a == viewOf(after)
    IN  [nodesAdded |-> a.nodes \ b.nodes, nodesRemoved |-> b.nodes \ a.nodes,
         edgesAdded |-> a.edges \ b.edges, edgesRemoved |-> b.edges \ a.edges,
         propsSet |-> a.props \ b.props,
         propsRemoved |-> {<<p[1], p[2]>> : p \in b.props} \ {<<p[1], p[2]>> : p \in a.props}]

\* computeStateHashV5 covers the visible nodes, edges and node properties
stateHash(state) ==
    [viewOf(state) EXCEPT !.props = {p \in @ : p[1] \in aliveNodes(state)}]

isEmptyDiff(d) == \A f \in DOMAIN d : d[f] = {}
=============================================================================
