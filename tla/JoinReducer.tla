----------------------------- MODULE JoinReducer -----------------------------
(***************************************************************************)
(* The reducer that turns patches into a graph state                       *)
(* (src/domain/services/JoinReducer.js): the state record, the effect of   *)
(* one operation, the outcome its receipt reports, the frontier update     *)
(* that ends every patch, and the join of two states.                      *)
(*                                                                         *)
(* The loop over a patch's operations is not an operator of this module:   *)
(* the modules that apply patches take one step per operation, as the      *)
(* loops of applyFast and applyWithReceipt do.                             *)
(***************************************************************************)
EXTENDS Crdt, Sequences

CONSTANTS
    Node,     \* node ids
    Label,    \* edge labels
    Key       \* property keys

\* An edge key encodes the triple (from, to, label) injectively.
Edge == Node \X Node \X Label

\* The node field of a persisted property operation on an edge: the edge key
\* behind a reserved prefix, which no node id starts with.
encodeLegacyEdgePropNode(edge) == <<"edge-property", edge>>

LegacyEdgePropNode == {encodeLegacyEdgePropNode(e) : e \in Edge}

ASSUME PrefixIsReserved == Node \cap LegacyEdgePropNode = {}

\* encodePropKey and encodeEdgePropKey: the owner of a property and its key
PropKey == (Node \cup Edge) \X Key

ASSUME NodesAreNotEdges == Node \cap Edge = {}

----------------------------------------------------------------------------
(* Operations.  Builders and the reducer use the canonical form; a patch   *)
(* on disk holds the raw form.                                             *)

NodeAddOp     == [type : {"NodeAdd"}, node : Node, dot : Dot]
NodeRemoveOp  == [type : {"NodeRemove"}, node : Node, observedDots : SUBSET Dot]
EdgeAddOp     == [type : {"EdgeAdd"}, edge : Edge, dot : Dot]
EdgeRemoveOp  == [type : {"EdgeRemove"}, edge : Edge, observedDots : SUBSET Dot]
NodePropSetOp == [type : {"NodePropSet"}, node : Node, key : Key, value : Value]
EdgePropSetOp == [type : {"EdgePropSet"}, edge : Edge, key : Key, value : Value]
RawPropSetOp  == [type : {"PropSet"}, node : Node \cup LegacyEdgePropNode,
                  key : Key, value : Value]
\* content blobs, and types this version does not know
InertOp       == [type : {"BlobValue"}]

RawOp == NodeAddOp \cup NodeRemoveOp \cup EdgeAddOp \cup EdgeRemoveOp
            \cup RawPropSetOp \cup InertOp

CanonicalOp == NodeAddOp \cup NodeRemoveOp \cup EdgeAddOp \cup EdgeRemoveOp
                  \cup NodePropSetOp \cup EdgePropSetOp \cup InertOp

\* canonical to raw, when a patch is persisted
lowerCanonicalOp(op) ==
    CASE op.type = "NodePropSet" ->
            [type |-> "PropSet", node |-> op.node, key |-> op.key, value |-> op.value]
      [] op.type = "EdgePropSet" ->
            [type |-> "PropSet", node |-> encodeLegacyEdgePropNode(op.edge),
             key |-> op.key, value |-> op.value]
      [] OTHER -> op

\* raw to canonical, before an operation is applied
normalizeRawOp(op) ==
    CASE op.type = "PropSet" /\ op.node \in LegacyEdgePropNode ->
            [type |-> "EdgePropSet", edge |-> op.node[2], key |-> op.key,
             value |-> op.value]
      [] op.type = "PropSet" /\ op.node \notin LegacyEdgePropNode ->
            [type |-> "NodePropSet", node |-> op.node, key |-> op.key,
             value |-> op.value]
      [] OTHER -> op

----------------------------------------------------------------------------
(* Patches and states.                                                     *)

Patch == [sha : Nat, writer : Writer, lamport : Nat \ {0},
          context : VersionVector, ops : Seq(RawOp)]

State == [nodeAlive        : ORSet(Node),
          edgeAlive        : ORSet(Edge),
          prop             : [PropKey -> Register \cup {None}],
          observedFrontier : VersionVector,
          edgeBirthEvent   : [Edge -> EventId \cup {None}]]

createEmptyStateV5 ==
    [nodeAlive        |-> createORSet,
     edgeAlive        |-> createORSet,
     prop             |-> [k \in PropKey |-> None],
     observedFrontier |-> createVersionVector,
     edgeBirthEvent   |-> [e \in Edge |-> None]]

\* the event id of the i-th operation of a patch (the code counts from 0)
eventOf(patch, i) == createEventId(patch.lamport, patch.writer, patch.sha, i - 1)

\* the effect of one operation; a raw "PropSet" on a plain node that was not
\* normalized counts as a node property, on an edge it is refused
applyOpV2(state, op, eventId) ==
    CASE op.type = "NodeAdd" ->
            [state EXCEPT !.nodeAlive = orsetAdd(@, op.node, op.dot)]
      [] op.type = "NodeRemove" ->
            [state EXCEPT !.nodeAlive = orsetRemove(@, op.observedDots)]
      [] op.type = "EdgeAdd" ->
            [state EXCEPT !.edgeAlive = orsetAdd(@, op.edge, op.dot),
                          !.edgeBirthEvent[op.edge] = eventMax(@, eventId)]
      [] op.type = "EdgeRemove" ->
            [state EXCEPT !.edgeAlive = orsetRemove(@, op.observedDots)]
      [] op.type \in {"NodePropSet", "PropSet"} ->
            [state EXCEPT !.prop[<<op.node, op.key>>] =
                lwwMax(@, lwwSet(eventId, op.value))]
      [] op.type = "EdgePropSet" ->
            [state EXCEPT !.prop[<<op.edge, op.key>>] =
                lwwMax(@, lwwSet(eventId, op.value))]
      [] OTHER -> state

\* foldPatchDot: the lamport of a patch counts as a tick of its writer
foldPatchDot(frontier, writer, lamport) ==
    [frontier EXCEPT ![writer] = maxOf(@, lamport)]

\* a mutant: the context is ignored
updateFrontierWithoutContext(state, patch) ==
    [state EXCEPT !.observedFrontier =
        foldPatchDot(@, patch.writer, patch.lamport)]

updateFrontierFromPatch(state, patch) ==
    [state EXCEPT !.observedFrontier =
        foldPatchDot(vvMerge(@, patch.context), patch.writer, patch.lamport)]

----------------------------------------------------------------------------
(* The join of two states.                                                 *)

mergeProps(a, b) == [k \in PropKey |-> lwwMax(a[k], b[k])]

\* a mutant: the other state's birth event replaces the own one
mergeEdgeBirthEventTheirs(a, b) == [e \in Edge |-> IF b[e] = None THEN a[e] ELSE b[e]]

mergeEdgeBirthEvent(a, b) == [e \in Edge |-> eventMax(a[e], b[e])]

joinStates(a, b) ==
    [nodeAlive        |-> orsetJoin(a.nodeAlive, b.nodeAlive),
     edgeAlive        |-> orsetJoin(a.edgeAlive, b.edgeAlive),
     prop             |-> mergeProps(a.prop, b.prop),
     observedFrontier |-> vvMerge(a.observedFrontier, b.observedFrontier),
     edgeBirthEvent   |-> mergeEdgeBirthEvent(a.edgeBirthEvent, b.edgeBirthEvent)]

----------------------------------------------------------------------------
(* Receipts: what applyWithReceipt reports of an operation, computed from  *)
(* the state before the operation is applied.                              *)

\* a mutant: an element that was ever added is not added again
addOutcomeByElement(set, element, dot) ==
    IF \E p \in set.entries : p[1] = element THEN "redundant" ELSE "applied"

addOutcome(set, element, dot) ==
    IF <<element, dot>> \in set.entries THEN "redundant" ELSE "applied"

removeOutcome(set, observedDots) ==
    IF \E p \in set.entries : p[2] \in observedDots \ set.tombstones
    THEN "applied" ELSE "redundant"

propOutcomeForKey(prop, key, eventId) ==
    CASE prop[key] = None                        -> "applied"
      [] prop[key] # None /\ isGreater(eventId, prop[key].eventId) -> "applied"
      [] prop[key] # None /\ isGreater(prop[key].eventId, eventId) -> "superseded"
      [] OTHER                                   -> "redundant"

opOutcome(state, op, eventId) ==
    CASE op.type = "NodeAdd"     -> addOutcome(state.nodeAlive, op.node, op.dot)
      [] op.type = "NodeRemove"  -> removeOutcome(state.nodeAlive, op.observedDots)
      [] op.type = "EdgeAdd"     -> addOutcome(state.edgeAlive, op.edge, op.dot)
      [] op.type = "EdgeRemove"  -> removeOutcome(state.edgeAlive, op.observedDots)
      [] op.type = "NodePropSet" ->
            propOutcomeForKey(state.prop, <<op.node, op.key>>, eventId)
      [] op.type = "EdgePropSet" ->
            propOutcomeForKey(state.prop, <<op.edge, op.key>>, eventId)
      [] OTHER                   -> "applied"

=============================================================================
