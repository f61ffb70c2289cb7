---------------------------- MODULE PatchBuilder ----------------------------
(***************************************************************************)
(* The fluent builder of a patch (src/domain/services/PatchBuilderV2.js):  *)
(* it numbers every add with a fresh dot of its private version vector,    *)
(* reads the dots that a remove observes from a snapshot of the graph's    *)
(* state, and refuses what that snapshot does not support.                 *)
(*                                                                         *)
(* An operator that a builder method can refuse comes with a predicate     *)
(* can..., the negation of the method's throw.  The argument current is    *)
(* the graph's cached state, which _getCurrentState returns.               *)
(***************************************************************************)
EXTENDS JoinReducer, FiniteSets

CONSTANT onDeleteWithData   \* "reject", "cascade" or "warn"

ASSUME PolicyAssumption == onDeleteWithData \in {"reject", "cascade", "warn"}

ASSUME NoneIsNoSnapshot == None \notin State

ASSUME FiniteGraph == IsFiniteSet(Node) /\ IsFiniteSet(Label)

\* basis is a history field: the patches in the cached state when the
\* builder was created.
Builder == [writer : Writer, lamport : Nat \ {0}, vv : VersionVector,
            snapshot : State \cup {None}, ops : Seq(CanonicalOp),
            basis : SUBSET Nat]

newBuilder(writer, lamport, vv, basis) ==
    [writer |-> writer, lamport |-> lamport, vv |-> vv, snapshot |-> None,
     ops |-> << >>, basis |-> basis]

\* the dot that vvIncrement hands to the next add
nextDot(b) == <<b.writer, b.vv[b.writer] + 1>>

\* captured when it is first needed, and kept
_getSnapshotState(b, current) ==
    IF b.snapshot = None THEN current ELSE b.snapshot

withSnapshot(b, current) ==
    [b EXCEPT !.snapshot = _getSnapshotState(b, current)]

\* a mutant: only the edges that are visible, with both endpoints alive
attachedEdgesVisible(state, n) ==
    {e \in orsetElements(state.edgeAlive) :
        /\ e[1] = n \/ e[2] = n
        /\ {e[1], e[2]} \subseteq orsetElements(state.nodeAlive)}

\* edges and properties attached to a node in a state
attachedEdges(state, n) ==
    {e \in orsetElements(state.edgeAlive) : e[1] = n \/ e[2] = n}

hasAttachedProps(state, n) ==
    \E k \in Key : state.prop[<<n, k>>] # None

findAttachedData(state, n) ==
    attachedEdges(state, n) # {} \/ hasAttachedProps(state, n)

----------------------------------------------------------------------------
addNode(b, n) ==
    [b EXCEPT !.vv  = vvIncrement(@, b.writer),
              !.ops = Append(@, [type |-> "NodeAdd", node |-> n,
                                 dot |-> nextDot(b)])]

addEdge(b, e) ==
    [b EXCEPT !.vv  = vvIncrement(@, b.writer),
              !.ops = Append(@, [type |-> "EdgeAdd", edge |-> e,
                                 dot |-> nextDot(b)])]

removeEdgeOp(state, e) ==
    [type |-> "EdgeRemove", edge |-> e,
     observedDots |-> orsetGetDots(state.edgeAlive, e)]

removeNodeOp(state, n) ==
    [type |-> "NodeRemove", node |-> n,
     observedDots |-> orsetGetDots(state.nodeAlive, n)]

canRemoveNode(b, current, n) ==
    onDeleteWithData = "reject" => ~findAttachedData(_getSnapshotState(b, current), n)

\* the orders in which a removed node's edges may be visited
cascadeOrders(b, current, n) ==
    LET E == IF onDeleteWithData = "cascade"
             THEN attachedEdges(_getSnapshotState(b, current), n) ELSE {}
    IN  {f \in [1..Cardinality(E) -> E] :
            \A i, j \in 1..Cardinality(E) : f[i] = f[j] => i = j}

\* cascaded edge removes come before the node remove
removeNode(b, current, n, order) ==
    LET s == _getSnapshotState(b, current)
    IN  [withSnapshot(b, current) EXCEPT
            !.ops = @ \o [i \in 1..Len(order) |-> removeEdgeOp(s, order[i])]
                      \o << removeNodeOp(s, n) >>]

removeEdge(b, current, e) ==
    [withSnapshot(b, current) EXCEPT
        !.ops = Append(@, removeEdgeOp(_getSnapshotState(b, current), e))]

setProperty(b, n, k, v) ==
    [b EXCEPT !.ops = Append(@, [type |-> "NodePropSet", node |-> n,
                                 key |-> k, value |-> v])]

\* the edge was added by this patch
addsEdge(b, e) ==
    \E i \in 1..Len(b.ops) : b.ops[i].type = "EdgeAdd" /\ b.ops[i].edge = e

canSetEdgeProperty(b, current, e) ==
    \/ addsEdge(b, e)
    \/ orsetContains(_getSnapshotState(b, current).edgeAlive, e)

setEdgeProperty(b, current, e, k, v) ==
    [(IF addsEdge(b, e) THEN b ELSE withSnapshot(b, current)) EXCEPT
        !.ops = Append(@, [type |-> "EdgePropSet", edge |-> e,
                           key |-> k, value |-> v])]

\* the patch that commit() persists, at the lamport and SHA it has settled on
build(b, lamport, sha) ==
    [sha |-> sha, writer |-> b.writer, lamport |-> lamport, context |-> b.vv,
     ops |-> [i \in 1..Len(b.ops) |-> lowerCanonicalOp(b.ops[i])]]

=============================================================================
