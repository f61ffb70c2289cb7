-------------------------- MODULE ReplicationProofs --------------------------
(***************************************************************************)
(* Proofs about Replication, for any writers, nodes, labels, keys, values, *)
(* commit ids and menus: what a replica holds is determined by the set of  *)
(* the operations it has applied, dots are never given twice, writes       *)
(* respect causality, and a removed node leaves no known edge behind.      *)
(***************************************************************************)
EXTENDS Replication, FiniteSetTheorems, SequenceTheorems, TLAPS

----------------------------------------------------------------------------
(* Event ids.                                                              *)

\* Event ids are ordered: none is greater than itself or than a greater one.
LEMMA EventOrder ==
    ASSUME NEW a \in EventId, NEW b \in EventId, NEW c \in EventId
    PROVE  /\ ~isGreater(a, a)
           /\ isGreater(a, b) => ~isGreater(b, a)
           /\ isGreater(a, b) /\ ~isGreater(c, b) => ~isGreater(c, a)
           /\ ~isGreater(a, b) /\ ~isGreater(b, c) => ~isGreater(a, c)
  <1>1. \A x \in EventId : x.lamport \in Nat /\ x.writer \in Nat /\ x.sha \in Nat /\ x.op \in Nat
    BY WriterAssumption DEF EventId
  <1>2. /\ a.lamport \in Int /\ a.writer \in Int /\ a.sha \in Int /\ a.op \in Int
        /\ b.lamport \in Int /\ b.writer \in Int /\ b.sha \in Int /\ b.op \in Int
        /\ c.lamport \in Int /\ c.writer \in Int /\ c.sha \in Int /\ c.op \in Int
    BY <1>1
  <1>3. ~isGreater(a, a) /\ (isGreater(a, b) => ~isGreater(b, a))
    BY <1>2 DEF isGreater
  <1>4. isGreater(a, b) /\ ~isGreater(c, b) => ~isGreater(c, a)
    BY <1>2 DEF isGreater
  <1>5. ~isGreater(a, b) /\ ~isGreater(b, c) => ~isGreater(a, c)
    BY <1>2 DEF isGreater
  <1> QED
    BY <1>3, <1>4, <1>5

\* Of two different event ids one is greater.
LEMMA EventTotal ==
    ASSUME NEW a \in EventId, NEW b \in EventId, ~isGreater(a, b), ~isGreater(b, a)
    PROVE  a = b
  <1>1. \A x \in EventId : x.lamport \in Nat /\ x.writer \in Nat /\ x.sha \in Nat /\ x.op \in Nat
    BY WriterAssumption DEF EventId
  <1>2. /\ a.lamport \in Int /\ a.writer \in Int /\ a.sha \in Int /\ a.op \in Int
        /\ b.lamport \in Int /\ b.writer \in Int /\ b.sha \in Int /\ b.op \in Int
    BY <1>1
  <1>3. a.lamport = b.lamport /\ a.writer = b.writer /\ a.sha = b.sha /\ a.op = b.op
    BY <1>2 DEF isGreater
  <1> QED
    BY <1>3 DEF EventId

\* The events of a patch are event ids, and tell the patch's id and the place.
LEMMA EventsOfPatch ==
    ASSUME NEW p \in Patch, NEW i \in 1..Len(p.ops)
    PROVE  /\ eventOf(p, i) \in EventId
           /\ eventOf(p, i).sha = p.sha
           /\ eventOf(p, i).op = i - 1
  BY DEF eventOf, createEventId, EventId, Patch

\* The greater of two events, either of which may be absent.
LEMMA EventMax ==
    ASSUME NEW a \in EventId \cup {None}, NEW b \in EventId \cup {None}
    PROVE  /\ eventMax(a, b) \in EventId \cup {None}
           /\ eventMax(a, b) \in {a, b}
           /\ notOlder(a, eventMax(a, b))
           /\ notOlder(b, eventMax(a, b))
           /\ eventMax(a, b) = None <=> a = None /\ b = None
  BY NoneIsNoEvent, EventOrder DEF eventMax, notOlder

\* The winner of two registers, either of which may be absent.
LEMMA LwwMax ==
    ASSUME NEW a \in Register \cup {None}, NEW b \in Register \cup {None}
    PROVE  /\ lwwMax(a, b) \in Register \cup {None}
           /\ lwwMax(a, b) \in {a, b}
           /\ notOlder(eventIdOf(a), eventIdOf(lwwMax(a, b)))
           /\ notOlder(eventIdOf(b), eventIdOf(lwwMax(a, b)))
           /\ lwwMax(a, b) = None <=> a = None /\ b = None
  <1>1. \A x \in Register : x.eventId \in EventId /\ x # None /\ x.eventId # None
    BY NoneIsNoEvent, NoneIsNoRegister DEF Register
  <1> QED
    BY <1>1, EventOrder DEF lwwMax, notOlder, eventIdOf

----------------------------------------------------------------------------
(* Operations, and what applying one does to each part of a state.         *)

\* Only edge-property owners carry the reserved prefix.
LEMMA LegacyOwner ==
    ASSUME NEW x \in LegacyEdgePropNode
    PROVE  x[2] \in Edge /\ x = encodeLegacyEdgePropNode(x[2])
  BY DEF LegacyEdgePropNode, encodeLegacyEdgePropNode

\* What the reducer gets from a stored operation is canonical, and what is
\* not a property write is stored as it is.
LEMMA NormalizedOp ==
    ASSUME NEW op \in RawOp
    PROVE  /\ normalizeRawOp(op) \in CanonicalOp
           /\ op.type # "PropSet" => normalizeRawOp(op) = op
           /\ op.type = "PropSet" => normalizeRawOp(op).type \in {"NodePropSet", "EdgePropSet"}
  <1>1. CASE op.type # "PropSet"
    <2>1. normalizeRawOp(op) = op
      BY <1>1 DEF normalizeRawOp
    <2>2. op \notin RawPropSetOp
      BY <1>1 DEF RawPropSetOp
    <2> QED
      BY <1>1, <2>1, <2>2 DEF RawOp, CanonicalOp
  <1>2. CASE op.type = "PropSet"
    <2>1. op \in RawPropSetOp
      BY <1>2 DEF RawOp, NodeAddOp, NodeRemoveOp, EdgeAddOp, EdgeRemoveOp, InertOp
    <2>2. CASE op.node \in LegacyEdgePropNode
      <3>1. normalizeRawOp(op) = [type |-> "EdgePropSet", edge |-> op.node[2], key |-> op.key,
                                  value |-> op.value]
        BY <1>2, <2>2 DEF normalizeRawOp
      <3>2. op.node[2] \in Edge /\ op.key \in Key /\ op.value \in Value
        BY <2>1, <2>2, LegacyOwner DEF RawPropSetOp
      <3>3. normalizeRawOp(op) \in EdgePropSetOp
        BY <3>1, <3>2 DEF EdgePropSetOp
      <3> QED
        BY <1>2, <3>1, <3>3 DEF CanonicalOp
    <2>3. CASE op.node \notin LegacyEdgePropNode
      <3>1. normalizeRawOp(op) = [type |-> "NodePropSet", node |-> op.node, key |-> op.key,
                                  value |-> op.value]
        BY <1>2, <2>3 DEF normalizeRawOp
      <3>2. op.node \in Node /\ op.key \in Key /\ op.value \in Value
        BY <2>1, <2>3 DEF RawPropSetOp
      <3>3. normalizeRawOp(op) \in NodePropSetOp
        BY <3>1, <3>2 DEF NodePropSetOp
      <3> QED
        BY <1>2, <3>1, <3>3 DEF CanonicalOp
    <2> QED
      BY <2>2, <2>3
  <1> QED
    BY <1>1, <1>2

\* What a builder stores: adds and removes as they are, property writes in
\* the one raw form.
LEMMA LoweredOp ==
    ASSUME NEW op \in CanonicalOp
    PROVE  /\ lowerCanonicalOp(op) \in RawOp
           /\ op.type \notin {"NodePropSet", "EdgePropSet"} => lowerCanonicalOp(op) = op
           /\ op.type \in {"NodePropSet", "EdgePropSet"} => lowerCanonicalOp(op).type = "PropSet"
  <1>1. CASE op.type \notin {"NodePropSet", "EdgePropSet"}
    <2>1. lowerCanonicalOp(op) = op
      BY <1>1 DEF lowerCanonicalOp
    <2>2. op \notin NodePropSetOp /\ op \notin EdgePropSetOp
      BY <1>1 DEF NodePropSetOp, EdgePropSetOp
    <2> QED
      BY <1>1, <2>1, <2>2 DEF RawOp, CanonicalOp
  <1>2. CASE op.type = "NodePropSet"
    <2>1. op \in NodePropSetOp
      BY <1>2 DEF CanonicalOp, NodeAddOp, NodeRemoveOp, EdgeAddOp, EdgeRemoveOp, InertOp, EdgePropSetOp
    <2>2. lowerCanonicalOp(op) = [type |-> "PropSet", node |-> op.node, key |-> op.key, value |-> op.value]
      BY <1>2 DEF lowerCanonicalOp
    <2>3. lowerCanonicalOp(op) \in RawPropSetOp
      BY <2>1, <2>2 DEF RawPropSetOp, NodePropSetOp
    <2> QED
      BY <1>2, <2>2, <2>3 DEF RawOp
  <1>3. CASE op.type = "EdgePropSet"
    <2>1. op \in EdgePropSetOp
      BY <1>3 DEF CanonicalOp, NodeAddOp, NodeRemoveOp, EdgeAddOp, EdgeRemoveOp, InertOp, NodePropSetOp
    <2>2. lowerCanonicalOp(op) = [type |-> "PropSet", node |-> encodeLegacyEdgePropNode(op.edge),
                                  key |-> op.key, value |-> op.value]
      BY <1>3 DEF lowerCanonicalOp
    <2>3. encodeLegacyEdgePropNode(op.edge) \in LegacyEdgePropNode
      BY <2>1 DEF LegacyEdgePropNode, EdgePropSetOp
    <2>4. lowerCanonicalOp(op) \in RawPropSetOp
      BY <2>1, <2>2, <2>3 DEF RawPropSetOp, EdgePropSetOp
    <2> QED
      BY <1>3, <2>2, <2>4 DEF RawOp
  <1> QED
    BY <1>1, <1>2, <1>3

\* Canonical operations by type.
LEMMA OpsByType ==
    ASSUME NEW op \in CanonicalOp
    PROVE  /\ op.type \in {"NodeAdd", "NodeRemove", "EdgeAdd", "EdgeRemove", "NodePropSet",
                           "EdgePropSet", "BlobValue"}
           /\ op.type = "NodeAdd" => op \in NodeAddOp
           /\ op.type = "NodeRemove" => op \in NodeRemoveOp
           /\ op.type = "EdgeAdd" => op \in EdgeAddOp
           /\ op.type = "EdgeRemove" => op \in EdgeRemoveOp
           /\ op.type = "NodePropSet" => op \in NodePropSetOp
           /\ op.type = "EdgePropSet" => op \in EdgePropSetOp
  BY DEF CanonicalOp, NodeAddOp, NodeRemoveOp, EdgeAddOp, EdgeRemoveOp, NodePropSetOp,
         EdgePropSetOp, InertOp

\* the operation writes the property k
writesKey(op, k) ==
    \/ op.type = "NodePropSet" /\ <<op.node, op.key>> = k
    \/ op.type = "EdgePropSet" /\ <<op.edge, op.key>> = k

\* the parts of the state after an operation
nodeEntriesAfter(s, op) ==
    s.nodeAlive.entries \cup (IF op.type = "NodeAdd" THEN {<<op.node, op.dot>>} ELSE {})
nodeTombstonesAfter(s, op) ==
    s.nodeAlive.tombstones \cup (IF op.type = "NodeRemove" THEN op.observedDots ELSE {})
edgeEntriesAfter(s, op) ==
    s.edgeAlive.entries \cup (IF op.type = "EdgeAdd" THEN {<<op.edge, op.dot>>} ELSE {})
edgeTombstonesAfter(s, op) ==
    s.edgeAlive.tombstones \cup (IF op.type = "EdgeRemove" THEN op.observedDots ELSE {})
propAfter(s, op, id) ==
    [k \in PropKey |-> IF writesKey(op, k) THEN lwwMax(s.prop[k], lwwSet(id, op.value)) ELSE s.prop[k]]
birthAfter(s, op, id) ==
    [e \in Edge |-> IF op.type = "EdgeAdd" /\ op.edge = e THEN eventMax(s.edgeBirthEvent[e], id)
                    ELSE s.edgeBirthEvent[e]]

after(s, op, id) ==
    [nodeAlive        |-> [entries |-> nodeEntriesAfter(s, op), tombstones |-> nodeTombstonesAfter(s, op)],
     edgeAlive        |-> [entries |-> edgeEntriesAfter(s, op), tombstones |-> edgeTombstonesAfter(s, op)],
     prop             |-> propAfter(s, op, id),
     observedFrontier |-> s.observedFrontier,
     edgeBirthEvent   |-> birthAfter(s, op, id)]

\* A state is the record of its parts.
LEMMA StateParts ==
    ASSUME NEW s \in State
    PROVE  /\ s = [nodeAlive        |-> [entries |-> s.nodeAlive.entries, tombstones |-> s.nodeAlive.tombstones],
                   edgeAlive        |-> [entries |-> s.edgeAlive.entries, tombstones |-> s.edgeAlive.tombstones],
                   prop             |-> s.prop,
                   observedFrontier |-> s.observedFrontier,
                   edgeBirthEvent   |-> s.edgeBirthEvent]
           /\ s.nodeAlive.entries \in SUBSET (Node \X Dot)
           /\ s.nodeAlive.tombstones \in SUBSET Dot
           /\ s.edgeAlive.entries \in SUBSET (Edge \X Dot)
           /\ s.edgeAlive.tombstones \in SUBSET Dot
           /\ s.prop \in [PropKey -> Register \cup {None}]
           /\ s.observedFrontier \in VersionVector
           /\ s.edgeBirthEvent \in [Edge -> EventId \cup {None}]
           /\ s.nodeAlive = [entries |-> s.nodeAlive.entries, tombstones |-> s.nodeAlive.tombstones]
           /\ s.edgeAlive = [entries |-> s.edgeAlive.entries, tombstones |-> s.edgeAlive.tombstones]
  <1>1. /\ s.nodeAlive \in ORSet(Node) /\ s.edgeAlive \in ORSet(Edge)
        /\ s = [nodeAlive |-> s.nodeAlive, edgeAlive |-> s.edgeAlive, prop |-> s.prop,
                observedFrontier |-> s.observedFrontier, edgeBirthEvent |-> s.edgeBirthEvent]
        /\ s.prop \in [PropKey -> Register \cup {None}]
        /\ s.observedFrontier \in VersionVector
        /\ s.edgeBirthEvent \in [Edge -> EventId \cup {None}]
    BY DEF State
  <1>2. \A E : \A x \in ORSet(E) : /\ x = [entries |-> x.entries, tombstones |-> x.tombstones]
                                   /\ x.entries \in SUBSET (E \X Dot)
                                   /\ x.tombstones \in SUBSET Dot
    BY DEF ORSet
  <1>3. /\ s.nodeAlive = [entries |-> s.nodeAlive.entries, tombstones |-> s.nodeAlive.tombstones]
        /\ s.edgeAlive = [entries |-> s.edgeAlive.entries, tombstones |-> s.edgeAlive.tombstones]
        /\ s.nodeAlive.entries \in SUBSET (Node \X Dot) /\ s.nodeAlive.tombstones \in SUBSET Dot
        /\ s.edgeAlive.entries \in SUBSET (Edge \X Dot) /\ s.edgeAlive.tombstones \in SUBSET Dot
    BY <1>1, <1>2
  <1> QED
    BY <1>1, <1>3

\* The state that applyOpV2 returns, part by part.
LEMMA AppliedOp ==
    ASSUME NEW s \in State, NEW op \in CanonicalOp, NEW id \in EventId
    PROVE  applyOpV2(s, op, id) = after(s, op, id)
  <1> DEFINE rec(na, ea, pr, eb) == [nodeAlive |-> na, edgeAlive |-> ea, prop |-> pr,
                                     observedFrontier |-> s.observedFrontier, edgeBirthEvent |-> eb]
  <1>1. /\ s = rec(s.nodeAlive, s.edgeAlive, s.prop, s.edgeBirthEvent)
        /\ s.nodeAlive = [entries |-> s.nodeAlive.entries, tombstones |-> s.nodeAlive.tombstones]
        /\ s.edgeAlive = [entries |-> s.edgeAlive.entries, tombstones |-> s.edgeAlive.tombstones]
        /\ s.prop \in [PropKey -> Register \cup {None}]
        /\ s.edgeBirthEvent \in [Edge -> EventId \cup {None}]
    BY StateParts
  <1>2. after(s, op, id) = rec([entries |-> nodeEntriesAfter(s, op), tombstones |-> nodeTombstonesAfter(s, op)],
                               [entries |-> edgeEntriesAfter(s, op), tombstones |-> edgeTombstonesAfter(s, op)],
                               propAfter(s, op, id), birthAfter(s, op, id))
    BY DEF after
  <1>3. (\A k \in PropKey : ~writesKey(op, k)) => propAfter(s, op, id) = s.prop
    BY <1>1 DEF propAfter
  <1>4. op.type # "EdgeAdd" => birthAfter(s, op, id) = s.edgeBirthEvent
    BY <1>1 DEF birthAfter
  <1>5. op.type \notin {"NodePropSet", "EdgePropSet"} => \A k \in PropKey : ~writesKey(op, k)
    BY DEF writesKey
  <1>6. CASE op.type = "NodeAdd"
    <2>1. applyOpV2(s, op, id) = [s EXCEPT !.nodeAlive = orsetAdd(@, op.node, op.dot)]
      BY <1>6 DEF applyOpV2
    <2>2. orsetAdd(s.nodeAlive, op.node, op.dot)
            = [entries |-> nodeEntriesAfter(s, op), tombstones |-> nodeTombstonesAfter(s, op)]
      BY <1>1, <1>6 DEF orsetAdd, nodeEntriesAfter, nodeTombstonesAfter
    <2>3. s.edgeAlive = [entries |-> edgeEntriesAfter(s, op), tombstones |-> edgeTombstonesAfter(s, op)]
      BY <1>1, <1>6 DEF edgeEntriesAfter, edgeTombstonesAfter
    <2>4. propAfter(s, op, id) = s.prop /\ birthAfter(s, op, id) = s.edgeBirthEvent
      BY <1>3, <1>4, <1>5, <1>6
    <2> QED
      BY <1>1, <1>2, <2>1, <2>2, <2>3, <2>4
  <1>7. CASE op.type = "NodeRemove"
    <2>1. applyOpV2(s, op, id) = [s EXCEPT !.nodeAlive = orsetRemove(@, op.observedDots)]
      BY <1>7 DEF applyOpV2
    <2>2. orsetRemove(s.nodeAlive, op.observedDots)
            = [entries |-> nodeEntriesAfter(s, op), tombstones |-> nodeTombstonesAfter(s, op)]
      <3>1. nodeEntriesAfter(s, op) = s.nodeAlive.entries
        BY <1>7 DEF nodeEntriesAfter
      <3>2. nodeTombstonesAfter(s, op) = s.nodeAlive.tombstones \cup op.observedDots
        BY <1>7 DEF nodeTombstonesAfter
      <3> QED
        BY <1>1, <3>1, <3>2 DEF orsetRemove
    <2>3. s.edgeAlive = [entries |-> edgeEntriesAfter(s, op), tombstones |-> edgeTombstonesAfter(s, op)]
      BY <1>1, <1>7 DEF edgeEntriesAfter, edgeTombstonesAfter
    <2>4. propAfter(s, op, id) = s.prop /\ birthAfter(s, op, id) = s.edgeBirthEvent
      BY <1>3, <1>4, <1>5, <1>7
    <2> QED
      BY <1>1, <1>2, <2>1, <2>2, <2>3, <2>4
  <1>8. CASE op.type = "EdgeAdd"
    <2>1. applyOpV2(s, op, id) = [s EXCEPT !.edgeAlive = orsetAdd(@, op.edge, op.dot),
                                           !.edgeBirthEvent[op.edge] = eventMax(@, id)]
      BY <1>8 DEF applyOpV2
    <2>2. orsetAdd(s.edgeAlive, op.edge, op.dot)
            = [entries |-> edgeEntriesAfter(s, op), tombstones |-> edgeTombstonesAfter(s, op)]
      BY <1>1, <1>8 DEF orsetAdd, edgeEntriesAfter, edgeTombstonesAfter
    <2>3. s.nodeAlive = [entries |-> nodeEntriesAfter(s, op), tombstones |-> nodeTombstonesAfter(s, op)]
      BY <1>1, <1>8 DEF nodeEntriesAfter, nodeTombstonesAfter
    <2>4. propAfter(s, op, id) = s.prop
      BY <1>3, <1>5, <1>8
    <2>5. op.edge \in Edge
      BY <1>8, OpsByType DEF EdgeAddOp
    <2>6. [s.edgeBirthEvent EXCEPT ![op.edge] = eventMax(@, id)] = birthAfter(s, op, id)
      BY <1>1, <1>8, <2>5 DEF birthAfter
    <2>7. applyOpV2(s, op, id) = rec(s.nodeAlive, orsetAdd(s.edgeAlive, op.edge, op.dot), s.prop,
                                     [s.edgeBirthEvent EXCEPT ![op.edge] = eventMax(@, id)])
      BY <1>1, <2>1
    <2> QED
      BY <1>2, <2>2, <2>3, <2>4, <2>6, <2>7
  <1>9. CASE op.type = "EdgeRemove"
    <2>1. applyOpV2(s, op, id) = [s EXCEPT !.edgeAlive = orsetRemove(@, op.observedDots)]
      BY <1>9 DEF applyOpV2
    <2>2. orsetRemove(s.edgeAlive, op.observedDots)
            = [entries |-> edgeEntriesAfter(s, op), tombstones |-> edgeTombstonesAfter(s, op)]
      BY <1>1, <1>9 DEF orsetRemove, edgeEntriesAfter, edgeTombstonesAfter
    <2>3. s.nodeAlive = [entries |-> nodeEntriesAfter(s, op), tombstones |-> nodeTombstonesAfter(s, op)]
      BY <1>1, <1>9 DEF nodeEntriesAfter, nodeTombstonesAfter
    <2>4. propAfter(s, op, id) = s.prop /\ birthAfter(s, op, id) = s.edgeBirthEvent
      BY <1>3, <1>4, <1>5, <1>9
    <2> QED
      BY <1>1, <1>2, <2>1, <2>2, <2>3, <2>4
  <1>10. ASSUME op.type \notin {"NodeAdd", "NodeRemove", "EdgeAdd", "EdgeRemove"}
         PROVE  /\ s.nodeAlive = [entries |-> nodeEntriesAfter(s, op), tombstones |-> nodeTombstonesAfter(s, op)]
                /\ s.edgeAlive = [entries |-> edgeEntriesAfter(s, op), tombstones |-> edgeTombstonesAfter(s, op)]
                /\ birthAfter(s, op, id) = s.edgeBirthEvent
    BY <1>1, <1>4, <1>10 DEF nodeEntriesAfter, nodeTombstonesAfter, edgeEntriesAfter, edgeTombstonesAfter
  <1>11. CASE op.type = "NodePropSet"
    <2>1. applyOpV2(s, op, id) = [s EXCEPT !.prop[<<op.node, op.key>>] = lwwMax(@, lwwSet(id, op.value))]
      BY <1>11 DEF applyOpV2
    <2>2. <<op.node, op.key>> \in PropKey
      BY <1>11, OpsByType DEF NodePropSetOp, PropKey
    <2>3. [s.prop EXCEPT ![<<op.node, op.key>>] = lwwMax(@, lwwSet(id, op.value))] = propAfter(s, op, id)
      BY <1>1, <1>11, <2>2 DEF propAfter, writesKey
    <2>4. applyOpV2(s, op, id) = rec(s.nodeAlive, s.edgeAlive,
             [s.prop EXCEPT ![<<op.node, op.key>>] = lwwMax(@, lwwSet(id, op.value))], s.edgeBirthEvent)
      BY <1>1, <2>1
    <2> QED
      BY <1>2, <1>10, <1>11, <2>3, <2>4
  <1>12. CASE op.type = "EdgePropSet"
    <2>1. applyOpV2(s, op, id) = [s EXCEPT !.prop[<<op.edge, op.key>>] = lwwMax(@, lwwSet(id, op.value))]
      BY <1>12 DEF applyOpV2
    <2>2. <<op.edge, op.key>> \in PropKey
      BY <1>12, OpsByType DEF EdgePropSetOp, PropKey
    <2>3. [s.prop EXCEPT ![<<op.edge, op.key>>] = lwwMax(@, lwwSet(id, op.value))] = propAfter(s, op, id)
      BY <1>1, <1>12, <2>2 DEF propAfter, writesKey
    <2>4. applyOpV2(s, op, id) = rec(s.nodeAlive, s.edgeAlive,
             [s.prop EXCEPT ![<<op.edge, op.key>>] = lwwMax(@, lwwSet(id, op.value))], s.edgeBirthEvent)
      BY <1>1, <2>1
    <2> QED
      BY <1>2, <1>10, <1>12, <2>3, <2>4
  <1>13. CASE op.type = "BlobValue"
    <2>1. applyOpV2(s, op, id) = s
      BY <1>13 DEF applyOpV2
    <2> QED
      BY <1>1, <1>2, <1>3, <1>5, <1>10, <1>13, <2>1
  <1> QED
    BY <1>6, <1>7, <1>8, <1>9, <1>11, <1>12, <1>13, OpsByType

\* Applying an operation makes a state.
LEMMA AfterType ==
    ASSUME NEW s \in State, NEW op \in CanonicalOp, NEW id \in EventId
    PROVE  after(s, op, id) \in State
  <1>0. /\ s.nodeAlive.entries \in SUBSET (Node \X Dot) /\ s.nodeAlive.tombstones \in SUBSET Dot
        /\ s.edgeAlive.entries \in SUBSET (Edge \X Dot) /\ s.edgeAlive.tombstones \in SUBSET Dot
        /\ \A e \in Edge : s.edgeBirthEvent[e] \in EventId \cup {None}
    BY StateParts
  <1>1. nodeEntriesAfter(s, op) \in SUBSET (Node \X Dot)
    <2>1. op.type = "NodeAdd" => op.node \in Node /\ op.dot \in Dot
      BY OpsByType DEF NodeAddOp
    <2> QED
      BY <1>0, <2>1 DEF nodeEntriesAfter
  <1>2. nodeTombstonesAfter(s, op) \in SUBSET Dot
    <2>1. op.type = "NodeRemove" => op.observedDots \in SUBSET Dot
      BY OpsByType DEF NodeRemoveOp
    <2> QED
      BY <1>0, <2>1 DEF nodeTombstonesAfter
  <1>3. edgeEntriesAfter(s, op) \in SUBSET (Edge \X Dot)
    <2>1. op.type = "EdgeAdd" => op.edge \in Edge /\ op.dot \in Dot
      BY OpsByType DEF EdgeAddOp
    <2> QED
      BY <1>0, <2>1 DEF edgeEntriesAfter
  <1>4. edgeTombstonesAfter(s, op) \in SUBSET Dot
    <2>1. op.type = "EdgeRemove" => op.observedDots \in SUBSET Dot
      BY OpsByType DEF EdgeRemoveOp
    <2> QED
      BY <1>0, <2>1 DEF edgeTombstonesAfter
  <1>5. \A k \in PropKey : s.prop[k] \in Register \cup {None}
    BY StateParts
  <1>6. \A k \in PropKey : writesKey(op, k) => lwwSet(id, op.value) \in Register
    BY OpsByType DEF writesKey, NodePropSetOp, EdgePropSetOp, lwwSet, Register
  <1>7. propAfter(s, op, id) \in [PropKey -> Register \cup {None}]
    BY <1>5, <1>6, LwwMax DEF propAfter
  <1>8. birthAfter(s, op, id) \in [Edge -> EventId \cup {None}]
    <2>1. \A e \in Edge : eventMax(s.edgeBirthEvent[e], id) \in EventId \cup {None}
      BY <1>0, EventMax
    <2> QED
      BY <1>0, <2>1 DEF birthAfter
  <1>9. /\ [entries |-> nodeEntriesAfter(s, op), tombstones |-> nodeTombstonesAfter(s, op)] \in ORSet(Node)
        /\ [entries |-> edgeEntriesAfter(s, op), tombstones |-> edgeTombstonesAfter(s, op)] \in ORSet(Edge)
    BY <1>1, <1>2, <1>3, <1>4 DEF ORSet
  <1>10. s.observedFrontier \in VersionVector
    BY StateParts
  <1> QED
    BY <1>7, <1>8, <1>9, <1>10 DEF after, State

\* Joining states makes a state.
LEMMA JoinType ==
    ASSUME NEW s \in State, NEW t \in State
    PROVE  joinStates(s, t) \in State
  <1>1. orsetJoin(s.nodeAlive, t.nodeAlive) \in ORSet(Node) /\ orsetJoin(s.edgeAlive, t.edgeAlive) \in ORSet(Edge)
    <2>1. /\ s.nodeAlive.entries \in SUBSET (Node \X Dot) /\ s.nodeAlive.tombstones \in SUBSET Dot
          /\ s.edgeAlive.entries \in SUBSET (Edge \X Dot) /\ s.edgeAlive.tombstones \in SUBSET Dot
          /\ t.nodeAlive.entries \in SUBSET (Node \X Dot) /\ t.nodeAlive.tombstones \in SUBSET Dot
          /\ t.edgeAlive.entries \in SUBSET (Edge \X Dot) /\ t.edgeAlive.tombstones \in SUBSET Dot
      BY StateParts
    <2> QED
      BY <2>1 DEF orsetJoin, ORSet
  <1>2. mergeProps(s.prop, t.prop) \in [PropKey -> Register \cup {None}]
    <2>1. \A k \in PropKey : s.prop[k] \in Register \cup {None} /\ t.prop[k] \in Register \cup {None}
      BY StateParts
    <2>2. \A k \in PropKey : lwwMax(s.prop[k], t.prop[k]) \in Register \cup {None}
      BY <2>1, LwwMax
    <2> QED
      BY <2>2 DEF mergeProps
  <1>3. mergeEdgeBirthEvent(s.edgeBirthEvent, t.edgeBirthEvent) \in [Edge -> EventId \cup {None}]
    <2>1. \A e \in Edge : s.edgeBirthEvent[e] \in EventId \cup {None} /\ t.edgeBirthEvent[e] \in EventId \cup {None}
      BY StateParts
    <2>2. \A e \in Edge : eventMax(s.edgeBirthEvent[e], t.edgeBirthEvent[e]) \in EventId \cup {None}
      BY <2>1, EventMax
    <2> QED
      BY <2>2 DEF mergeEdgeBirthEvent
  <1>4. vvMerge(s.observedFrontier, t.observedFrontier) \in VersionVector
    <2>1. s.observedFrontier \in VersionVector /\ t.observedFrontier \in VersionVector
      BY StateParts
    <2> QED
      BY <2>1 DEF vvMerge, VersionVector, maxOf
  <1> QED
    BY <1>1, <1>2, <1>3, <1>4 DEF joinStates, State

\* The frontier after a patch, and nothing else changed.
LEMMA FrontierUpdate ==
    ASSUME NEW s \in State, NEW p \in Patch
    PROVE  LET t == updateFrontierFromPatch(s, p)
           IN  /\ t \in State
               /\ t.nodeAlive = s.nodeAlive /\ t.edgeAlive = s.edgeAlive
               /\ t.prop = s.prop /\ t.edgeBirthEvent = s.edgeBirthEvent
               /\ \A w \in Writer :
                    t.observedFrontier[w] =
                      IF w = p.writer THEN maxOf(maxOf(s.observedFrontier[w], p.context[w]), p.lamport)
                      ELSE maxOf(s.observedFrontier[w], p.context[w])
  <1> DEFINE f == foldPatchDot(vvMerge(s.observedFrontier, p.context), p.writer, p.lamport)
             t == updateFrontierFromPatch(s, p)
  <1>1. p.context \in VersionVector /\ p.writer \in Writer /\ p.lamport \in Nat
    BY DEF Patch
  <1>2. s.observedFrontier \in VersionVector
    BY StateParts
  <1>3. vvMerge(s.observedFrontier, p.context) \in VersionVector
    BY <1>1, <1>2 DEF vvMerge, VersionVector, maxOf
  <1>4. f \in VersionVector
    BY <1>1, <1>3 DEF foldPatchDot, VersionVector, maxOf
  <1>5. t = [s EXCEPT !.observedFrontier = f]
    BY DEF updateFrontierFromPatch
  <1>6. \A w \in Writer : f[w] = IF w = p.writer THEN maxOf(maxOf(s.observedFrontier[w], p.context[w]), p.lamport)
                                 ELSE maxOf(s.observedFrontier[w], p.context[w])
    BY <1>1, <1>3 DEF foldPatchDot, VersionVector, vvMerge
  <1> HIDE DEF f
  <1>7. /\ t \in State /\ t.observedFrontier = f
        /\ t.nodeAlive = s.nodeAlive /\ t.edgeAlive = s.edgeAlive
        /\ t.prop = s.prop /\ t.edgeBirthEvent = s.edgeBirthEvent
    BY <1>4, <1>5 DEF State
  <1> QED
    BY <1>6, <1>7

----------------------------------------------------------------------------
(* A state that reflects a set of operations, after one more and joined.   *)

OpDone == [op : CanonicalOp, id : EventId]

\* The greater of the greatest of two sets is the greatest of both.
LEMMA GreatestOfBoth ==
    ASSUME NEW I \in SUBSET EventId, NEW J \in SUBSET EventId, NEW a, NEW b,
           isGreatest(a, I), isGreatest(b, J)
    PROVE  isGreatest(eventMax(a, b), I \cup J)
  <1>1. CASE a = None \/ b = None
    <2>1. \A S \in SUBSET EventId : isGreatest(None, S) => S = {}
      BY NoneIsNoEvent DEF isGreatest
    <2> QED
      BY <1>1, <2>1 DEF isGreatest, eventMax
  <1>2. CASE a # None /\ b # None
    <2>1. a \in I /\ b \in J /\ (\A y \in I : ~isGreater(y, a)) /\ (\A y \in J : ~isGreater(y, b))
      BY <1>2 DEF isGreatest
    <2>2. CASE isGreater(b, a)
      <3>1. \A y \in I : ~isGreater(y, b)
        BY <2>1, <2>2, EventOrder
      <3> QED
        BY <1>2, <2>1, <2>2, <3>1 DEF isGreatest, eventMax
    <2>3. CASE ~isGreater(b, a)
      <3>1. \A y \in J : ~isGreater(y, a)
        BY <2>1, <2>3, EventOrder
      <3> QED
        BY <1>2, <2>1, <2>3, <3>1 DEF isGreatest, eventMax
    <2> QED
      BY <2>2, <2>3
  <1> QED
    BY <1>1, <1>2

\* a set of writes to one property
isWrites(W) == \A o \in W : o.id \in EventId /\ lwwSet(o.id, o.op.value) \in Register

\* The winner of the winners of two sets of writes is the winner of both.
LEMMA WinnerOfBoth ==
    ASSUME NEW W, NEW V, isWrites(W), isWrites(V), NEW a, NEW b,
           isWinner(a, W), isWinner(b, V)
    PROVE  isWinner(lwwMax(a, b), W \cup V)
  <1>1. CASE a = None \/ b = None
    <2>1. ASSUME NEW S, isWrites(S), isWinner(None, S)
          PROVE  S = {}
      BY <2>1, NoneIsNoRegister DEF isWinner, isWrites
    <2> QED
      BY <1>1, <2>1 DEF isWinner, lwwMax
  <1>2. CASE a # None /\ b # None
    <2>1. PICK x \in W : a = lwwSet(x.id, x.op.value) /\ \A u \in W : ~isGreater(u.id, x.id)
      BY <1>2 DEF isWinner
    <2>2. PICK y \in V : b = lwwSet(y.id, y.op.value) /\ \A u \in V : ~isGreater(u.id, y.id)
      BY <1>2 DEF isWinner
    <2>3. a.eventId = x.id /\ b.eventId = y.id
      BY <2>1, <2>2 DEF lwwSet
    <2>4. /\ x.id \in EventId /\ y.id \in EventId
          /\ \A u \in W \cup V : u.id \in EventId
      BY DEF isWrites
    <2>5. CASE isGreater(b.eventId, a.eventId)
      <3>1. \A u \in W : ~isGreater(u.id, y.id)
        BY <2>1, <2>3, <2>4, <2>5, EventOrder
      <3>2. lwwMax(a, b) = lwwSet(y.id, y.op.value)
        BY <1>2, <2>2, <2>5 DEF lwwMax
      <3> QED
        BY <2>2, <3>1, <3>2 DEF isWinner
    <2>6. CASE ~isGreater(b.eventId, a.eventId)
      <3>1. \A u \in V : ~isGreater(u.id, x.id)
        BY <2>2, <2>3, <2>4, <2>6, EventOrder
      <3>2. lwwMax(a, b) = lwwSet(x.id, x.op.value)
        BY <1>2, <2>1, <2>6 DEF lwwMax
      <3> QED
        BY <2>1, <3>1, <3>2 DEF isWinner
    <2> QED
      BY <2>5, <2>6
  <1> QED
    BY <1>1, <1>2

\* What is written to a property of a set of operations.
LEMMA WritesOf ==
    ASSUME NEW O \in SUBSET OpDone, NEW k
    PROVE  /\ writesTo(O, k) = {o \in O : writesKey(o.op, k)}
           /\ isWrites(writesTo(O, k))
  <1>1. writesTo(O, k) = {o \in O : writesKey(o.op, k)}
    BY DEF writesTo, writesKey, ofType
  <1>2. ASSUME NEW o \in O, writesKey(o.op, k)
        PROVE  o.id \in EventId /\ lwwSet(o.id, o.op.value) \in Register
    <2>1. o.id \in EventId /\ o.op \in CanonicalOp
      BY DEF OpDone
    <2>2. o.op.value \in Value
      BY <1>2, <2>1, OpsByType DEF writesKey, NodePropSetOp, EdgePropSetOp
    <2> QED
      BY <2>1, <2>2 DEF lwwSet, Register
  <1> QED
    BY <1>1, <1>2 DEF isWrites

\* what operations add and remove, and their ids
addedNodes(A) == {<<o.op.node, o.op.dot>> : o \in A}
addedEdges(A) == {<<o.op.edge, o.op.dot>> : o \in A}
removedDots(A) == UNION {o.op.observedDots : o \in A}
idsOf(A) == {o.id : o \in A}
addsOfEdge(O, e) == {u \in ofType(O, "EdgeAdd") : u.op.edge = e}

\* What the operations of two sets add and remove, and their ids.
LEMMA AddedNodesOfBoth == \A A, B : addedNodes(A \cup B) = addedNodes(A) \cup addedNodes(B)
  BY Zenon DEF addedNodes

LEMMA AddedEdgesOfBoth == \A A, B : addedEdges(A \cup B) = addedEdges(A) \cup addedEdges(B)
  BY Zenon DEF addedEdges

LEMMA RemovedDotsOfBoth == \A A, B : removedDots(A \cup B) = removedDots(A) \cup removedDots(B)
  BY Zenon DEF removedDots

LEMMA IdsOfBoth == \A A, B : idsOf(A \cup B) = idsOf(A) \cup idsOf(B)
  BY Zenon DEF idsOf

\* Of none, and of one.
LEMMA ImagesOfOne ==
    ASSUME NEW x
    PROVE  /\ addedNodes({}) = {} /\ addedNodes({x}) = {<<x.op.node, x.op.dot>>}
           /\ addedEdges({}) = {} /\ addedEdges({x}) = {<<x.op.edge, x.op.dot>>}
           /\ removedDots({}) = {} /\ removedDots({x}) = x.op.observedDots
           /\ idsOf({}) = {} /\ idsOf({x}) = {x.id}
  BY DEF addedNodes, addedEdges, removedDots, idsOf

\* The event ids of the adds of an edge.
LEMMA BirthsOf ==
    ASSUME NEW O \in SUBSET OpDone, NEW e
    PROVE  idsOf(addsOfEdge(O, e)) \in SUBSET EventId
  BY DEF OpDone, ofType, idsOf, addsOfEdge

\* reflects, in these terms.
LEMMA ReflectsParts ==
    ASSUME NEW s, NEW O
    PROVE  reflects(s, O) <=>
             /\ s.nodeAlive.entries = addedNodes(ofType(O, "NodeAdd"))
             /\ s.nodeAlive.tombstones = removedDots(ofType(O, "NodeRemove"))
             /\ s.edgeAlive.entries = addedEdges(ofType(O, "EdgeAdd"))
             /\ s.edgeAlive.tombstones = removedDots(ofType(O, "EdgeRemove"))
             /\ \A k \in PropKey : isWinner(s.prop[k], writesTo(O, k))
             /\ \A e \in Edge : isGreatest(s.edgeBirthEvent[e], idsOf(addsOfEdge(O, e)))
  BY Zenon DEF reflects, addedNodes, addedEdges, removedDots, idsOf, addsOfEdge

\* One operation more.
LEMMA ReflectsOneMore ==
    ASSUME NEW s \in State, NEW O \in SUBSET OpDone, NEW op \in CanonicalOp, NEW id \in EventId,
           reflects(s, O)
    PROVE  reflects(after(s, op, id), O \cup {[op |-> op, id |-> id]})
  <1> DEFINE x == [op |-> op, id |-> id]
             t == after(s, op, id)
  <1>1. x \in OpDone /\ x.op = op /\ x.id = id
    BY DEF OpDone
  <1>2. /\ t.nodeAlive.entries = nodeEntriesAfter(s, op)
        /\ t.nodeAlive.tombstones = nodeTombstonesAfter(s, op)
        /\ t.edgeAlive.entries = edgeEntriesAfter(s, op)
        /\ t.edgeAlive.tombstones = edgeTombstonesAfter(s, op)
        /\ t.prop = propAfter(s, op, id)
        /\ t.edgeBirthEvent = birthAfter(s, op, id)
    BY DEF after
  <1> HIDE DEF x, t
  <1>0. /\ s.nodeAlive.entries = addedNodes(ofType(O, "NodeAdd"))
        /\ s.nodeAlive.tombstones = removedDots(ofType(O, "NodeRemove"))
        /\ s.edgeAlive.entries = addedEdges(ofType(O, "EdgeAdd"))
        /\ s.edgeAlive.tombstones = removedDots(ofType(O, "EdgeRemove"))
        /\ \A k \in PropKey : isWinner(s.prop[k], writesTo(O, k))
        /\ \A e \in Edge : isGreatest(s.edgeBirthEvent[e], idsOf(addsOfEdge(O, e)))
    BY ReflectsParts
  <1>3. \A type : ofType(O \cup {x}, type) = ofType(O, type) \cup (IF op.type = type THEN {x} ELSE {})
    BY <1>1 DEF ofType
  <1>4. t.nodeAlive.entries = addedNodes(ofType(O \cup {x}, "NodeAdd"))
    <2>1. CASE op.type = "NodeAdd"
      <3>1. ofType(O \cup {x}, "NodeAdd") = ofType(O, "NodeAdd") \cup {x}
        BY <1>3, <2>1
      <3>2. addedNodes(ofType(O \cup {x}, "NodeAdd")) = addedNodes(ofType(O, "NodeAdd")) \cup addedNodes({x})
        BY <3>1, AddedNodesOfBoth
      <3> QED
        BY <1>0, <1>1, <1>2, <2>1, <3>2, ImagesOfOne DEF nodeEntriesAfter
    <2>2. CASE op.type # "NodeAdd"
      <3>1. ofType(O \cup {x}, "NodeAdd") = ofType(O, "NodeAdd")
        BY <1>3, <2>2
      <3> QED
        BY <1>0, <1>2, <2>2, <3>1 DEF nodeEntriesAfter
    <2> QED
      BY <2>1, <2>2
  <1>5. t.nodeAlive.tombstones = removedDots(ofType(O \cup {x}, "NodeRemove"))
    <2>1. CASE op.type = "NodeRemove"
      <3>1. ofType(O \cup {x}, "NodeRemove") = ofType(O, "NodeRemove") \cup {x}
        BY <1>3, <2>1
      <3>2. removedDots(ofType(O \cup {x}, "NodeRemove")) = removedDots(ofType(O, "NodeRemove")) \cup removedDots({x})
        BY <3>1, RemovedDotsOfBoth
      <3> QED
        BY <1>0, <1>1, <1>2, <2>1, <3>2, ImagesOfOne DEF nodeTombstonesAfter
    <2>2. CASE op.type # "NodeRemove"
      <3>1. ofType(O \cup {x}, "NodeRemove") = ofType(O, "NodeRemove")
        BY <1>3, <2>2
      <3> QED
        BY <1>0, <1>2, <2>2, <3>1 DEF nodeTombstonesAfter
    <2> QED
      BY <2>1, <2>2
  <1>6. t.edgeAlive.entries = addedEdges(ofType(O \cup {x}, "EdgeAdd"))
    <2>1. CASE op.type = "EdgeAdd"
      <3>1. ofType(O \cup {x}, "EdgeAdd") = ofType(O, "EdgeAdd") \cup {x}
        BY <1>3, <2>1
      <3>2. addedEdges(ofType(O \cup {x}, "EdgeAdd")) = addedEdges(ofType(O, "EdgeAdd")) \cup addedEdges({x})
        BY <3>1, AddedEdgesOfBoth
      <3> QED
        BY <1>0, <1>1, <1>2, <2>1, <3>2, ImagesOfOne DEF edgeEntriesAfter
    <2>2. CASE op.type # "EdgeAdd"
      <3>1. ofType(O \cup {x}, "EdgeAdd") = ofType(O, "EdgeAdd")
        BY <1>3, <2>2
      <3> QED
        BY <1>0, <1>2, <2>2, <3>1 DEF edgeEntriesAfter
    <2> QED
      BY <2>1, <2>2
  <1>7. t.edgeAlive.tombstones = removedDots(ofType(O \cup {x}, "EdgeRemove"))
    <2>1. CASE op.type = "EdgeRemove"
      <3>1. ofType(O \cup {x}, "EdgeRemove") = ofType(O, "EdgeRemove") \cup {x}
        BY <1>3, <2>1
      <3>2. removedDots(ofType(O \cup {x}, "EdgeRemove")) = removedDots(ofType(O, "EdgeRemove")) \cup removedDots({x})
        BY <3>1, RemovedDotsOfBoth
      <3> QED
        BY <1>0, <1>1, <1>2, <2>1, <3>2, ImagesOfOne DEF edgeTombstonesAfter
    <2>2. CASE op.type # "EdgeRemove"
      <3>1. ofType(O \cup {x}, "EdgeRemove") = ofType(O, "EdgeRemove")
        BY <1>3, <2>2
      <3> QED
        BY <1>0, <1>2, <2>2, <3>1 DEF edgeTombstonesAfter
    <2> QED
      BY <2>1, <2>2
  <1>8. ASSUME NEW k \in PropKey
        PROVE  isWinner(t.prop[k], writesTo(O \cup {x}, k))
    <2>1. isWinner(s.prop[k], writesTo(O, k)) /\ isWrites(writesTo(O, k))
      BY <1>0, WritesOf
    <2>2. writesTo(O \cup {x}, k) = writesTo(O, k) \cup {o \in {x} : writesKey(o.op, k)}
      BY <1>1, WritesOf
    <2>3. CASE writesKey(op, k)
      <3>1. isWrites({x})
        <4>1. {x} \in SUBSET OpDone /\ writesTo({x}, k) = {x}
          BY <1>1, <2>3, WritesOf
        <4> QED
          BY <4>1, WritesOf
      <3>2. isWinner(lwwSet(id, op.value), {x})
        BY <1>1, EventOrder DEF isWinner
      <3>3. isWinner(lwwMax(s.prop[k], lwwSet(id, op.value)), writesTo(O, k) \cup {x})
        BY <2>1, <3>1, <3>2, WinnerOfBoth
      <3>4. t.prop[k] = lwwMax(s.prop[k], lwwSet(id, op.value))
        BY <1>2, <2>3 DEF propAfter
      <3>5. writesTo(O \cup {x}, k) = writesTo(O, k) \cup {x}
        BY <1>1, <2>2, <2>3
      <3> QED
        BY <3>3, <3>4, <3>5
    <2>4. CASE ~writesKey(op, k)
      <3>1. t.prop[k] = s.prop[k]
        BY <1>2, <2>4 DEF propAfter
      <3>2. writesTo(O \cup {x}, k) = writesTo(O, k)
        BY <1>1, <2>2, <2>4
      <3> QED
        BY <2>1, <3>1, <3>2
    <2> QED
      BY <2>3, <2>4
  <1>9. ASSUME NEW e \in Edge
        PROVE  isGreatest(t.edgeBirthEvent[e], idsOf(addsOfEdge(O \cup {x}, e)))
    <2> DEFINE I == idsOf(addsOfEdge(O, e))
    <2>1. isGreatest(s.edgeBirthEvent[e], I) /\ I \in SUBSET EventId
      BY <1>0, BirthsOf
    <2> HIDE DEF I
    <2>2. CASE op.type = "EdgeAdd" /\ op.edge = e
      <3>1. isGreatest(id, {id})
        BY EventOrder DEF isGreatest
      <3>2. isGreatest(eventMax(s.edgeBirthEvent[e], id), I \cup {id})
        BY <2>1, <3>1, GreatestOfBoth
      <3>3. idsOf(addsOfEdge(O \cup {x}, e)) = I \cup {id}
        <4>1. addsOfEdge(O \cup {x}, e) = addsOfEdge(O, e) \cup {x}
          BY <1>1, <1>3, <2>2 DEF addsOfEdge
        <4>2. idsOf(addsOfEdge(O, e) \cup {x}) = idsOf(addsOfEdge(O, e)) \cup idsOf({x})
          BY IdsOfBoth
        <4>3. idsOf({x}) = {id}
          BY <1>1, ImagesOfOne
        <4> QED
          BY <4>1, <4>2, <4>3 DEF I
      <3>4. t.edgeBirthEvent[e] = eventMax(s.edgeBirthEvent[e], id)
        BY <1>2, <2>2 DEF birthAfter
      <3> QED
        BY <3>2, <3>3, <3>4
    <2>3. CASE ~(op.type = "EdgeAdd" /\ op.edge = e)
      <3>1. idsOf(addsOfEdge(O \cup {x}, e)) = I
        <4>1. addsOfEdge(O \cup {x}, e) = addsOfEdge(O, e)
          BY <1>1, <1>3, <2>3 DEF addsOfEdge
        <4> QED
          BY <4>1 DEF I
      <3>2. t.edgeBirthEvent[e] = s.edgeBirthEvent[e]
        BY <1>2, <2>3 DEF birthAfter
      <3> QED
        BY <2>1, <3>1, <3>2
    <2> QED
      BY <2>2, <2>3
  <1>10. reflects(t, O \cup {x})
    BY <1>4, <1>5, <1>6, <1>7, <1>8, <1>9, ReflectsParts
  <1> QED
    BY <1>10 DEF x, t

\* The join reflects the operations of both.
LEMMA ReflectsJoined ==
    ASSUME NEW s \in State, NEW t \in State, NEW O \in SUBSET OpDone, NEW Q \in SUBSET OpDone,
           reflects(s, O), reflects(t, Q)
    PROVE  reflects(joinStates(s, t), O \cup Q)
  <1> DEFINE j == joinStates(s, t)
  <1>1. /\ j.nodeAlive.entries = s.nodeAlive.entries \cup t.nodeAlive.entries
        /\ j.nodeAlive.tombstones = s.nodeAlive.tombstones \cup t.nodeAlive.tombstones
        /\ j.edgeAlive.entries = s.edgeAlive.entries \cup t.edgeAlive.entries
        /\ j.edgeAlive.tombstones = s.edgeAlive.tombstones \cup t.edgeAlive.tombstones
        /\ \A k \in PropKey : j.prop[k] = lwwMax(s.prop[k], t.prop[k])
        /\ \A e \in Edge : j.edgeBirthEvent[e] = eventMax(s.edgeBirthEvent[e], t.edgeBirthEvent[e])
    BY DEF joinStates, orsetJoin, mergeProps, mergeEdgeBirthEvent
  <1> HIDE DEF j
  <1>2. \A type : ofType(O \cup Q, type) = ofType(O, type) \cup ofType(Q, type)
    BY DEF ofType
  <1>3. /\ s.nodeAlive.entries = addedNodes(ofType(O, "NodeAdd"))
        /\ s.nodeAlive.tombstones = removedDots(ofType(O, "NodeRemove"))
        /\ s.edgeAlive.entries = addedEdges(ofType(O, "EdgeAdd"))
        /\ s.edgeAlive.tombstones = removedDots(ofType(O, "EdgeRemove"))
        /\ \A k \in PropKey : isWinner(s.prop[k], writesTo(O, k))
        /\ \A e \in Edge : isGreatest(s.edgeBirthEvent[e], idsOf(addsOfEdge(O, e)))
        /\ t.nodeAlive.entries = addedNodes(ofType(Q, "NodeAdd"))
        /\ t.nodeAlive.tombstones = removedDots(ofType(Q, "NodeRemove"))
        /\ t.edgeAlive.entries = addedEdges(ofType(Q, "EdgeAdd"))
        /\ t.edgeAlive.tombstones = removedDots(ofType(Q, "EdgeRemove"))
        /\ \A k \in PropKey : isWinner(t.prop[k], writesTo(Q, k))
        /\ \A e \in Edge : isGreatest(t.edgeBirthEvent[e], idsOf(addsOfEdge(Q, e)))
    BY ReflectsParts
  <1>4. /\ j.nodeAlive.entries = addedNodes(ofType(O \cup Q, "NodeAdd"))
        /\ j.nodeAlive.tombstones = removedDots(ofType(O \cup Q, "NodeRemove"))
        /\ j.edgeAlive.entries = addedEdges(ofType(O \cup Q, "EdgeAdd"))
        /\ j.edgeAlive.tombstones = removedDots(ofType(O \cup Q, "EdgeRemove"))
    <2>1. addedNodes(ofType(O \cup Q, "NodeAdd"))
            = addedNodes(ofType(O, "NodeAdd")) \cup addedNodes(ofType(Q, "NodeAdd"))
      BY <1>2, AddedNodesOfBoth
    <2>2. removedDots(ofType(O \cup Q, "NodeRemove"))
            = removedDots(ofType(O, "NodeRemove")) \cup removedDots(ofType(Q, "NodeRemove"))
      BY <1>2, RemovedDotsOfBoth
    <2>3. addedEdges(ofType(O \cup Q, "EdgeAdd"))
            = addedEdges(ofType(O, "EdgeAdd")) \cup addedEdges(ofType(Q, "EdgeAdd"))
      BY <1>2, AddedEdgesOfBoth
    <2>4. removedDots(ofType(O \cup Q, "EdgeRemove"))
            = removedDots(ofType(O, "EdgeRemove")) \cup removedDots(ofType(Q, "EdgeRemove"))
      BY <1>2, RemovedDotsOfBoth
    <2> QED
      BY <1>1, <1>3, <2>1, <2>2, <2>3, <2>4
  <1>5. ASSUME NEW k \in PropKey
        PROVE  isWinner(j.prop[k], writesTo(O \cup Q, k))
    <2>1. writesTo(O \cup Q, k) = writesTo(O, k) \cup writesTo(Q, k)
      BY WritesOf
    <2>2. /\ isWinner(s.prop[k], writesTo(O, k)) /\ isWrites(writesTo(O, k))
          /\ isWinner(t.prop[k], writesTo(Q, k)) /\ isWrites(writesTo(Q, k))
      BY <1>3, WritesOf
    <2> QED
      BY <1>1, <2>1, <2>2, WinnerOfBoth
  <1>6. ASSUME NEW e \in Edge
        PROVE  isGreatest(j.edgeBirthEvent[e], idsOf(addsOfEdge(O \cup Q, e)))
    <2> DEFINE I == idsOf(addsOfEdge(O, e))
               J == idsOf(addsOfEdge(Q, e))
    <2>1. idsOf(addsOfEdge(O \cup Q, e)) = I \cup J
      <3>1. addsOfEdge(O \cup Q, e) = addsOfEdge(O, e) \cup addsOfEdge(Q, e)
        BY <1>2 DEF addsOfEdge
      <3> QED
        BY <3>1, IdsOfBoth DEF I, J
    <2>2. /\ isGreatest(s.edgeBirthEvent[e], I) /\ I \in SUBSET EventId
          /\ isGreatest(t.edgeBirthEvent[e], J) /\ J \in SUBSET EventId
      BY <1>3, BirthsOf
    <2> HIDE DEF I, J
    <2>3. isGreatest(eventMax(s.edgeBirthEvent[e], t.edgeBirthEvent[e]), I \cup J)
      BY <2>2, GreatestOfBoth
    <2> QED
      BY <1>1, <2>1, <2>3
  <1>7. reflects(j, O \cup Q)
    BY <1>4, <1>5, <1>6, ReflectsParts
  <1> QED
    BY <1>7 DEF j

----------------------------------------------------------------------------
(* The builder: what each of its methods leaves and what it adds.          *)

\* the operations that take a dot
AddTypes == {"NodeAdd", "EdgeAdd"}

\* c is b with operations appended
extendsBuilder(b, c) ==
    /\ c.writer = b.writer /\ c.lamport = b.lamport /\ c.basis = b.basis
    /\ Len(c.ops) >= Len(b.ops)
    /\ \A i \in 1..Len(b.ops) : c.ops[i] = b.ops[i]

\* none of them an add
addsNone(b, c) ==
    /\ c.vv = b.vv
    /\ \A i \in 1..Len(c.ops) : i > Len(b.ops) => c.ops[i].type \notin AddTypes

\* one of them, an add with the next dot
addsOne(b, c) ==
    /\ c.vv = [b.vv EXCEPT ![b.writer] = @ + 1]
    /\ Len(c.ops) = Len(b.ops) + 1
    /\ c.ops[Len(c.ops)].type \in AddTypes
    /\ c.ops[Len(c.ops)].dot = nextDot(b)

\* the edge's dots in the snapshot are removed by an operation of the builder
removesEdge(c, e) ==
    \E m \in 1..Len(c.ops) :
        /\ c.ops[m].type = "EdgeRemove"
        /\ c.ops[m].observedDots = orsetGetDots(c.snapshot.edgeAlive, e)

\* the node removes among the operations appended come after the removes of
\* the node's edges
cascades(b, c) ==
    \A i \in 1..Len(c.ops) :
        i > Len(b.ops) /\ c.ops[i].type = "NodeRemove" /\ onDeleteWithData = "cascade" =>
            /\ c.snapshot # None
            /\ \A e \in attachedEdges(c.snapshot, c.ops[i].node) : removesEdge(c, e)

\* what a method makes of the builder b while the cached state is s
builtFrom(b, s, c) ==
    /\ c \in Builder
    /\ extendsBuilder(b, c)
    /\ addsNone(b, c) \/ addsOne(b, c)
    /\ c.snapshot \in {b.snapshot, _getSnapshotState(b, s)}
    /\ cascades(b, c)

\* The fields of a builder.
LEMMA BuilderFields ==
    ASSUME NEW b \in Builder
    PROVE  /\ b.writer \in Writer /\ b.lamport \in Nat \ {0} /\ b.vv \in VersionVector
           /\ b.snapshot \in State \cup {None} /\ b.ops \in Seq(CanonicalOp) /\ b.basis \in SUBSET Nat
           /\ b = [writer |-> b.writer, lamport |-> b.lamport, vv |-> b.vv, snapshot |-> b.snapshot,
                   ops |-> b.ops, basis |-> b.basis]
  BY DEF Builder

\* A method that appends one operation that is no add and no node remove.
LEMMA BuiltByAppend ==
    ASSUME NEW b \in Builder, NEW s \in State, NEW op \in CanonicalOp,
           NEW snap \in {b.snapshot, _getSnapshotState(b, s)},
           op.type \notin AddTypes, op.type # "NodeRemove",
           NEW c, c = [b EXCEPT !.snapshot = snap, !.ops = Append(b.ops, op)]
    PROVE  builtFrom(b, s, c)
  <1>1. /\ c.writer = b.writer /\ c.lamport = b.lamport /\ c.basis = b.basis /\ c.vv = b.vv
        /\ c.snapshot = snap /\ c.ops = Append(b.ops, op)
    BY DEF Builder
  <1>2. snap \in State \cup {None}
    BY BuilderFields DEF _getSnapshotState
  <1>3. /\ Append(b.ops, op) \in Seq(CanonicalOp)
        /\ Len(Append(b.ops, op)) = Len(b.ops) + 1
        /\ \A i \in 1..Len(b.ops) : Append(b.ops, op)[i] = b.ops[i]
        /\ Append(b.ops, op)[Len(b.ops) + 1] = op
        /\ Len(b.ops) \in Nat
    BY BuilderFields, AppendProperties, LenProperties
  <1>4. c \in Builder
    BY <1>2, <1>3 DEF Builder
  <1>5. \A i \in 1..Len(c.ops) : i > Len(b.ops) => c.ops[i] = op
    BY <1>1, <1>3
  <1>6. extendsBuilder(b, c)
    BY <1>1, <1>3 DEF extendsBuilder
  <1>7. addsNone(b, c)
    BY <1>1, <1>5 DEF addsNone
  <1>8. cascades(b, c)
    BY <1>5 DEF cascades
  <1> QED
    BY <1>1, <1>4, <1>6, <1>7, <1>8 DEF builtFrom

\* A method that appends an add.
LEMMA BuiltByAdd ==
    ASSUME NEW b \in Builder, NEW s \in State, NEW op \in CanonicalOp,
           op.type \in AddTypes, op.dot = nextDot(b),
           NEW c, c = [b EXCEPT !.vv = vvIncrement(@, b.writer), !.ops = Append(@, op)]
    PROVE  builtFrom(b, s, c)
  <1>1. /\ c.writer = b.writer /\ c.lamport = b.lamport /\ c.basis = b.basis
        /\ c.vv = vvIncrement(b.vv, b.writer)
        /\ c.snapshot = b.snapshot /\ c.ops = Append(b.ops, op)
    BY DEF Builder
  <1>2. vvIncrement(b.vv, b.writer) \in VersionVector
    BY BuilderFields DEF vvIncrement, VersionVector
  <1>3. /\ Append(b.ops, op) \in Seq(CanonicalOp)
        /\ Len(Append(b.ops, op)) = Len(b.ops) + 1
        /\ \A i \in 1..Len(b.ops) : Append(b.ops, op)[i] = b.ops[i]
        /\ Append(b.ops, op)[Len(b.ops) + 1] = op
        /\ Len(b.ops) \in Nat
    BY BuilderFields, AppendProperties, LenProperties
  <1>4. c \in Builder
    BY <1>2, <1>3 DEF Builder
  <1>5. \A i \in 1..Len(c.ops) : i > Len(b.ops) => c.ops[i] = op
    BY <1>1, <1>3
  <1>6. extendsBuilder(b, c)
    BY <1>1, <1>3 DEF extendsBuilder
  <1>7. addsOne(b, c)
    <2>1. c.ops[Len(c.ops)] = op /\ Len(c.ops) = Len(b.ops) + 1
      BY <1>1, <1>3
    <2> QED
      BY <1>1, <2>1 DEF addsOne, vvIncrement
  <1>8. cascades(b, c)
    BY <1>5 DEF cascades, AddTypes
  <1> QED
    BY <1>1, <1>4, <1>6, <1>7, <1>8 DEF builtFrom

\* The dot of the next add is a dot.
LEMMA NextDotType ==
    ASSUME NEW b \in Builder
    PROVE  nextDot(b) \in Dot
  BY BuilderFields DEF nextDot, Dot, VersionVector

LEMMA BuiltByAddNode ==
    ASSUME NEW b \in Builder, NEW s \in State, NEW n \in Node
    PROVE  builtFrom(b, s, addNode(b, n))
  <1> DEFINE op == [type |-> "NodeAdd", node |-> n, dot |-> nextDot(b)]
  <1>1. op \in CanonicalOp /\ op.type \in AddTypes /\ op.dot = nextDot(b)
    BY NextDotType DEF CanonicalOp, NodeAddOp, AddTypes
  <1>2. addNode(b, n) = [b EXCEPT !.vv = vvIncrement(@, b.writer), !.ops = Append(@, op)]
    BY DEF addNode
  <1> HIDE DEF op
  <1> QED
    BY <1>1, <1>2, BuiltByAdd

LEMMA BuiltByAddEdge ==
    ASSUME NEW b \in Builder, NEW s \in State, NEW e \in Edge
    PROVE  builtFrom(b, s, addEdge(b, e))
  <1> DEFINE op == [type |-> "EdgeAdd", edge |-> e, dot |-> nextDot(b)]
  <1>1. op \in CanonicalOp /\ op.type \in AddTypes /\ op.dot = nextDot(b)
    BY NextDotType DEF CanonicalOp, EdgeAddOp, AddTypes
  <1>2. addEdge(b, e) = [b EXCEPT !.vv = vvIncrement(@, b.writer), !.ops = Append(@, op)]
    BY DEF addEdge
  <1> HIDE DEF op
  <1> QED
    BY <1>1, <1>2, BuiltByAdd

LEMMA BuiltBySetProperty ==
    ASSUME NEW b \in Builder, NEW s \in State, NEW n \in Node, NEW k \in Key, NEW v \in Value
    PROVE  builtFrom(b, s, setProperty(b, n, k, v))
  <1> DEFINE op == [type |-> "NodePropSet", node |-> n, key |-> k, value |-> v]
  <1>1. op \in CanonicalOp /\ op.type \notin AddTypes /\ op.type # "NodeRemove"
    BY DEF CanonicalOp, NodePropSetOp, AddTypes
  <1>2. setProperty(b, n, k, v) = [b EXCEPT !.snapshot = b.snapshot, !.ops = Append(b.ops, op)]
    BY DEF setProperty, Builder
  <1> HIDE DEF op
  <1> QED
    BY <1>1, <1>2, BuiltByAppend

LEMMA BuiltBySetEdgeProperty ==
    ASSUME NEW b \in Builder, NEW s \in State, NEW e \in Edge, NEW k \in Key, NEW v \in Value
    PROVE  builtFrom(b, s, setEdgeProperty(b, s, e, k, v))
  <1> DEFINE op == [type |-> "EdgePropSet", edge |-> e, key |-> k, value |-> v]
             snap == IF addsEdge(b, e) THEN b.snapshot ELSE _getSnapshotState(b, s)
  <1>1. op \in CanonicalOp /\ op.type \notin AddTypes /\ op.type # "NodeRemove"
    BY DEF CanonicalOp, EdgePropSetOp, AddTypes
  <1>2. setEdgeProperty(b, s, e, k, v) = [b EXCEPT !.snapshot = snap, !.ops = Append(b.ops, op)]
    BY DEF setEdgeProperty, withSnapshot, Builder
  <1>3. snap \in {b.snapshot, _getSnapshotState(b, s)}
    OBVIOUS
  <1> HIDE DEF op, snap
  <1> QED
    BY <1>1, <1>2, <1>3, BuiltByAppend

\* What a remove observes are dots.
LEMMA EdgeRemoveType ==
    ASSUME NEW s \in State, NEW e \in Edge
    PROVE  /\ removeEdgeOp(s, e) \in CanonicalOp /\ removeEdgeOp(s, e).type = "EdgeRemove"
           /\ removeEdgeOp(s, e).observedDots = orsetGetDots(s.edgeAlive, e)
  <1>1. s.edgeAlive.entries \in SUBSET (Edge \X Dot)
    BY StateParts
  <1>2. orsetGetDots(s.edgeAlive, e) \in SUBSET Dot
    BY <1>1 DEF orsetGetDots
  <1> QED
    BY <1>2 DEF removeEdgeOp, CanonicalOp, EdgeRemoveOp

LEMMA NodeRemoveType ==
    ASSUME NEW s \in State, NEW n \in Node
    PROVE  /\ removeNodeOp(s, n) \in CanonicalOp /\ removeNodeOp(s, n).type = "NodeRemove"
           /\ removeNodeOp(s, n).node = n
  <1>1. s.nodeAlive.entries \in SUBSET (Node \X Dot)
    BY StateParts
  <1>2. orsetGetDots(s.nodeAlive, n) \in SUBSET Dot
    BY <1>1 DEF orsetGetDots
  <1> QED
    BY <1>2 DEF removeNodeOp, CanonicalOp, NodeRemoveOp

\* A sequence with two others appended.
LEMMA TwoAppended ==
    ASSUME NEW S, NEW a \in Seq(S), NEW b \in Seq(S), NEW x \in S, NEW c, c = a \o b \o <<x>>
    PROVE  /\ c \in Seq(S)
           /\ Len(a) \in Nat /\ Len(b) \in Nat
           /\ Len(c) = Len(a) + Len(b) + 1
           /\ \A i \in 1..Len(a) : c[i] = a[i]
           /\ \A i \in 1..Len(b) : c[Len(a) + i] = b[i]
           /\ c[Len(a) + Len(b) + 1] = x
  <1> DEFINE ab == a \o b
  <1>1. Len(a) \in Nat /\ Len(b) \in Nat
    BY LenProperties
  <1>2. /\ ab \in Seq(S) /\ Len(ab) = Len(a) + Len(b)
        /\ \A i \in 1..Len(a) + Len(b) : ab[i] = IF i <= Len(a) THEN a[i] ELSE b[i - Len(a)]
    BY ConcatProperties
  <1>3. c = Append(ab, x)
    BY <1>2, AppendIsConcat
  <1> HIDE DEF ab
  <1>4. /\ c \in Seq(S) /\ Len(c) = Len(ab) + 1
        /\ \A i \in 1..Len(ab) : c[i] = ab[i]
        /\ c[Len(ab) + 1] = x
    BY <1>2, <1>3, AppendProperties
  <1>5. \A i \in 1..Len(a) : c[i] = a[i]
    BY <1>1, <1>2, <1>4
  <1>6. ASSUME NEW i \in 1..Len(b)
        PROVE  c[Len(a) + i] = b[i]
    <2>1. Len(a) + i \in 1..Len(ab) /\ ~(Len(a) + i <= Len(a)) /\ (Len(a) + i) - Len(a) = i
      BY <1>1, <1>2
    <2> QED
      BY <1>2, <1>4, <2>1
  <1> QED
    BY <1>1, <1>2, <1>4, <1>5, <1>6

LEMMA BuiltByRemoveEdge ==
    ASSUME NEW b \in Builder, NEW s \in State, NEW e \in Edge
    PROVE  builtFrom(b, s, removeEdge(b, s, e))
  <1> DEFINE snap == _getSnapshotState(b, s)
             op == removeEdgeOp(snap, e)
  <1>1. snap \in State
    BY BuilderFields DEF _getSnapshotState
  <1>2. op \in CanonicalOp /\ op.type \notin AddTypes /\ op.type # "NodeRemove"
    BY <1>1, EdgeRemoveType DEF AddTypes
  <1>3. removeEdge(b, s, e) = [b EXCEPT !.snapshot = snap, !.ops = Append(b.ops, op)]
    BY DEF removeEdge, withSnapshot, Builder
  <1> HIDE DEF op
  <1> QED
    BY <1>2, <1>3, BuiltByAppend

\* A graph has finitely many possible edges.
LEMMA FiniteEdges == IsFiniteSet(Edge)
  <1> DEFINE P == (Node \X Node) \X Label
             f == [e \in Edge |-> <<<<e[1], e[2]>>, e[3]>>]
  <1>1. IsFiniteSet(Node \X Node)
    BY FiniteGraph, FS_Product
  <1>2. IsFiniteSet(P)
    BY <1>1, FiniteGraph, FS_Product
  <1>3. f \in Injection(Edge, P)
    <2>1. f \in [Edge -> P]
      BY DEF Edge
    <2>2. ASSUME NEW a \in Edge, NEW b \in Edge, f[a] = f[b]
          PROVE  a = b
      BY <2>2 DEF Edge
    <2> QED
      BY <2>1, <2>2 DEF Injection, IsInjective
  <1> QED
    BY <1>2, <1>3, FS_Injection

\* Every order of a removed node's edges visits all of them.
LEMMA OrdersVisitAll ==
    ASSUME NEW E \in SUBSET Edge, NEW f \in [1..Cardinality(E) -> E],
           \A i, j \in 1..Cardinality(E) : f[i] = f[j] => i = j
    PROVE  /\ Cardinality(E) \in Nat
           /\ f \in Seq(E) /\ Len(f) = Cardinality(E)
           /\ \A e \in E : \E i \in 1..Len(f) : f[i] = e
  <1> DEFINE n == Cardinality(E)
  <1>1. IsFiniteSet(E) /\ n \in Nat
    BY FiniteEdges, FS_Subset, FS_CardinalityType
  <1>2. Cardinality(1..n) = n /\ IsFiniteSet(1..n)
    BY <1>1, FS_Interval
  <1>3. f \in Injection(1..n, E)
    BY DEF Injection, IsInjective
  <1>4. f \in Surjection(1..n, E)
    BY <1>1, <1>2, <1>3, FS_Injection
  <1>5. f \in Seq(E)
    BY <1>1, SeqDef
  <1>6. Len(f) = n
    <2>1. DOMAIN f = 1..n /\ DOMAIN f = 1..Len(f) /\ Len(f) \in Nat
      BY <1>5, LenProperties
    <2> QED
      BY <1>1, <2>1
  <1> QED
    BY <1>1, <1>4, <1>5, <1>6 DEF Surjection

LEMMA BuiltByRemoveNode ==
    ASSUME NEW b \in Builder, NEW s \in State, NEW n \in Node,
           NEW order \in cascadeOrders(b, s, n)
    PROVE  builtFrom(b, s, removeNode(b, s, n, order))
  <1> DEFINE snap == _getSnapshotState(b, s)
             E == IF onDeleteWithData = "cascade" THEN attachedEdges(snap, n) ELSE {}
             R == [i \in 1..Len(order) |-> removeEdgeOp(snap, order[i])]
             c == removeNode(b, s, n, order)
  <1>1. snap \in State
    BY BuilderFields DEF _getSnapshotState
  <1>2. E \in SUBSET Edge
    <2>1. snap.edgeAlive.entries \in SUBSET (Edge \X Dot)
      BY <1>1, StateParts
    <2> QED
      BY <2>1 DEF attachedEdges, orsetElements
  <1>3. /\ order \in [1..Cardinality(E) -> E]
        /\ \A i, j \in 1..Cardinality(E) : order[i] = order[j] => i = j
    BY DEF cascadeOrders
  <1> HIDE DEF E
  <1>4. /\ order \in Seq(E) /\ Len(order) \in Nat
        /\ \A e \in E : \E i \in 1..Len(order) : order[i] = e
    BY <1>2, <1>3, OrdersVisitAll
  <1>5. \A i \in 1..Len(order) : order[i] \in Edge
    BY <1>2, <1>4, ElementOfSeq
  <1> HIDE DEF snap
  <1>6. \A i \in 1..Len(order) : /\ removeEdgeOp(snap, order[i]) \in CanonicalOp
                                 /\ removeEdgeOp(snap, order[i]).type = "EdgeRemove"
                                 /\ removeEdgeOp(snap, order[i]).observedDots = orsetGetDots(snap.edgeAlive, order[i])
    BY <1>1, <1>5, EdgeRemoveType
  <1>7. R \in Seq(CanonicalOp) /\ Len(R) = Len(order)
    <2>1. R \in [1..Len(order) -> CanonicalOp]
      BY <1>6
    <2>2. R \in Seq(CanonicalOp)
      BY <1>4, <2>1, SeqDef
    <2>3. DOMAIN R = 1..Len(R) /\ Len(R) \in Nat
      BY <2>2, LenProperties
    <2> QED
      BY <1>4, <2>2, <2>3
  <1>8. \A i \in 1..Len(order) : R[i] = removeEdgeOp(snap, order[i])
    OBVIOUS
  <1>9. /\ removeNodeOp(snap, n) \in CanonicalOp /\ removeNodeOp(snap, n).type = "NodeRemove"
        /\ removeNodeOp(snap, n).node = n
    BY <1>1, NodeRemoveType
  <1>11. b.ops \in Seq(CanonicalOp) /\ Len(b.ops) \in Nat
    BY BuilderFields, LenProperties
  <1>12. /\ c.writer = b.writer /\ c.lamport = b.lamport /\ c.basis = b.basis /\ c.vv = b.vv
         /\ c.snapshot = snap /\ c.ops = b.ops \o R \o << removeNodeOp(snap, n) >>
         /\ c = [b EXCEPT !.snapshot = snap, !.ops = b.ops \o R \o << removeNodeOp(snap, n) >>]
    BY DEF removeNode, withSnapshot, Builder, snap
  <1> HIDE DEF R, c
  <1>14. /\ c.ops \in Seq(CanonicalOp) /\ Len(c.ops) = Len(b.ops) + Len(order) + 1
         /\ \A i \in 1..Len(b.ops) : c.ops[i] = b.ops[i]
         /\ \A i \in 1..Len(order) : c.ops[Len(b.ops) + i] = R[i]
         /\ c.ops[Len(b.ops) + Len(order) + 1] = removeNodeOp(snap, n)
    <2> DEFINE x == removeNodeOp(snap, n)
               d == c.ops
               o == b.ops
    <2>1. d = o \o R \o <<x>> /\ o \in Seq(CanonicalOp) /\ R \in Seq(CanonicalOp)
      BY <1>7, <1>11, <1>12
    <2>2. x \in CanonicalOp
      BY <1>9
    <2> HIDE DEF x, d, o
    <2>3. /\ d \in Seq(CanonicalOp) /\ Len(d) = Len(o) + Len(R) + 1
          /\ \A i \in 1..Len(o) : d[i] = o[i]
          /\ \A i \in 1..Len(R) : d[Len(o) + i] = R[i]
          /\ d[Len(o) + Len(R) + 1] = x
      BY <2>1, <2>2, TwoAppended
    <2> QED
      BY <1>7, <2>3 DEF x, d, o
  <1>15. \A i \in 1..Len(order) : Len(b.ops) + i \in 1..Len(c.ops)
    <2>1. Len(c.ops) = Len(b.ops) + Len(order) + 1 /\ Len(order) \in Nat /\ Len(b.ops) \in Nat
      BY <1>4, <1>11, <1>14
    <2> QED
      BY <2>1
  <1>16. \A i \in 1..Len(order) : c.ops[Len(b.ops) + i] = removeEdgeOp(snap, order[i])
    BY <1>8, <1>14
  <1>17. c.ops[Len(b.ops) + Len(order) + 1] = removeNodeOp(snap, n)
    BY <1>14
  <1>18. ASSUME NEW i \in 1..Len(c.ops), i > Len(b.ops)
         PROVE  \/ \E m \in 1..Len(order) : c.ops[i] = removeEdgeOp(snap, order[m])
                \/ c.ops[i] = removeNodeOp(snap, n)
    <2>1. CASE i <= Len(b.ops) + Len(order)
      <3>1. i - Len(b.ops) \in 1..Len(order) /\ i = Len(b.ops) + (i - Len(b.ops))
        BY <1>4, <1>11, <1>14, <1>18, <2>1
      <3> QED
        BY <1>16, <3>1
    <2>2. CASE ~(i <= Len(b.ops) + Len(order))
      <3>1. i = Len(b.ops) + Len(order) + 1
        BY <1>4, <1>11, <1>14, <2>2
      <3> QED
        BY <1>17, <3>1
    <2> QED
      BY <2>1, <2>2
  <1>19. c \in Builder
    <2>1. b.ops \o R \o << removeNodeOp(snap, n) >> \in Seq(CanonicalOp)
      BY <1>12, <1>14
    <2> QED
      BY <1>1, <1>12, <2>1 DEF Builder
  <1>20. extendsBuilder(b, c)
    BY <1>4, <1>11, <1>12, <1>14 DEF extendsBuilder
  <1>21. addsNone(b, c)
    BY <1>6, <1>9, <1>12, <1>18 DEF addsNone, AddTypes
  <1>22. cascades(b, c)
    <2> SUFFICES ASSUME NEW i \in 1..Len(c.ops), i > Len(b.ops), c.ops[i].type = "NodeRemove",
                        onDeleteWithData = "cascade"
                 PROVE  /\ c.snapshot # None
                        /\ \A e \in attachedEdges(c.snapshot, c.ops[i].node) : removesEdge(c, e)
      BY DEF cascades
    <2>1. c.ops[i].node = n
      BY <1>6, <1>9, <1>18
    <2>2. attachedEdges(c.snapshot, c.ops[i].node) = E
      BY <1>12, <2>1 DEF E
    <2>3. ASSUME NEW e \in E
          PROVE  removesEdge(c, e)
      <3>1. PICK j \in 1..Len(order) : order[j] = e
        BY <1>4
      <3>2. Len(b.ops) + j \in 1..Len(c.ops)
        BY <1>15
      <3> QED
        BY <1>6, <1>12, <1>16, <3>1, <3>2 DEF removesEdge
    <2>4. c.snapshot # None
      BY <1>1, <1>12, NoneIsNoSnapshot
    <2> QED
      BY <2>2, <2>3, <2>4
  <1>23. builtFrom(b, s, c)
    BY <1>12, <1>19, <1>20, <1>21, <1>22 DEF builtFrom, snap
  <1> QED
    BY <1>23 DEF c

----------------------------------------------------------------------------
(* The kinds of steps, and type correctness.                               *)

\* a method of the builder is called
BuildStep(r) ==
    /\ AllIdle
    /\ builder[r] # None
    /\ \E c : builtFrom(builder[r], state[r], c) /\ Build(r, c)

\* a patch begins to be applied
ReceiveStep(r, p) ==
    /\ AllIdle
    /\ p \in log
    /\ cur' = [cur EXCEPT ![r] = [patch |-> p, next |-> 1]]
    /\ \/ maxObserved' = [maxObserved EXCEPT ![r] = maxOf(@, p.lamport)]
       \/ "sync" \in menu.via /\ maxObserved' = maxObserved
    /\ UNCHANGED <<menu, log, tip, hb, state, applied, builder>>

\* a patch is committed
CommitStep(r, p) ==
    /\ AllIdle
    /\ builder[r] # None
    /\ p = build(builder[r], maxOf(builder[r].lamport, tip[r] + 1), p.sha)
    /\ p.sha \in menu.shas \ shasOf(log)
    /\ log' = log \cup {p}
    /\ hb' = hb \cup (builder[r].basis \X {p.sha})
    /\ cur' = [cur EXCEPT ![r] = [patch |-> p, next |-> 1]]
    /\ tip' = [tip EXCEPT ![r] = p.lamport]
    /\ maxObserved' = [maxObserved EXCEPT ![r] = maxOf(@, p.lamport)]
    /\ builder' = [builder EXCEPT ![r] = None]
    /\ UNCHANGED <<menu, state, applied>>

\* What a replica has is of its type.
LEMMA ReplicaTypes ==
    ASSUME TypeOK, NEW r \in Replica
    PROVE  /\ r \in Writer /\ r \in Nat
           /\ state[r] \in State /\ applied[r] \in SUBSET Patch
           /\ cur[r] # None => cur[r] \in Loop /\ cur[r].patch \in Patch /\ cur[r].next \in Nat \ {0}
           /\ builder[r] # None => builder[r] \in Builder
           /\ tip[r] \in Nat /\ maxObserved[r] \in Nat
  BY WriterAssumption DEF TypeOK, Replica, Loop

LEMMA BuildSteps ==
    ASSUME TypeOK, NEW r \in Replica,
           BuildAddNode(r) \/ BuildRemoveNode(r) \/ BuildAddEdge(r) \/ BuildRemoveEdge(r)
             \/ BuildSetProperty(r) \/ BuildSetEdgeProperty(r)
    PROVE  BuildStep(r)
  <1>1. AllIdle /\ builder[r] # None
    BY DEF BuildAddNode, BuildRemoveNode, BuildAddEdge, BuildRemoveEdge, BuildSetProperty,
           BuildSetEdgeProperty, CanBuild
  <1>2. builder[r] \in Builder /\ state[r] \in State
    BY <1>1, ReplicaTypes
  <1>3. CASE BuildAddNode(r)
    BY <1>1, <1>2, <1>3, BuiltByAddNode DEF BuildAddNode, BuildStep
  <1>4. CASE BuildRemoveNode(r)
    BY <1>1, <1>2, <1>4, BuiltByRemoveNode DEF BuildRemoveNode, BuildStep
  <1>5. CASE BuildAddEdge(r)
    BY <1>1, <1>2, <1>5, BuiltByAddEdge DEF BuildAddEdge, BuildStep
  <1>6. CASE BuildRemoveEdge(r)
    BY <1>1, <1>2, <1>6, BuiltByRemoveEdge DEF BuildRemoveEdge, BuildStep
  <1>7. CASE BuildSetProperty(r)
    BY <1>1, <1>2, <1>7, BuiltBySetProperty DEF BuildSetProperty, BuildStep
  <1>8. CASE BuildSetEdgeProperty(r)
    BY <1>1, <1>2, <1>8, BuiltBySetEdgeProperty DEF BuildSetEdgeProperty, BuildStep
  <1> QED
    BY <1>3, <1>4, <1>5, <1>6, <1>7, <1>8

LEMMA ReceiveSteps ==
    ASSUME NEW r \in Replica, ReceiveByMaterialize(r) \/ ReceiveBySync(r)
    PROVE  \E p \in log : ReceiveStep(r, p)
  <1>1. CASE ReceiveByMaterialize(r)
    BY <1>1 DEF ReceiveByMaterialize, receive, Apply, ReceiveStep
  <1>2. CASE ReceiveBySync(r)
    BY <1>2 DEF ReceiveBySync, receive, Apply, ReceiveStep
  <1> QED
    BY <1>1, <1>2

LEMMA CommitSteps ==
    ASSUME NEW r \in Replica, commit(r)
    PROVE  \E p : CommitStep(r, p)
  <1> DEFINE lamport == maxOf(builder[r].lamport, tip[r] + 1)
  <1>1. PICK sha \in freshShas :
          /\ log' = log \cup {build(builder[r], lamport, sha)}
          /\ hb' = hb \cup (builder[r].basis \X {sha})
          /\ cur' = [cur EXCEPT ![r] = [patch |-> build(builder[r], lamport, sha), next |-> 1]]
    BY DEF commit, Apply
  <1> DEFINE p == build(builder[r], lamport, sha)
  <1>2. p.sha = sha /\ p.lamport = lamport
    BY DEF build
  <1>3. sha \in menu.shas \ shasOf(log)
    BY DEF freshShas
  <1>4. /\ AllIdle /\ builder[r] # None
        /\ tip' = [tip EXCEPT ![r] = lamport]
        /\ maxObserved' = [maxObserved EXCEPT ![r] = maxOf(@, lamport)]
        /\ builder' = [builder EXCEPT ![r] = None]
        /\ UNCHANGED <<menu, state, applied>>
    BY DEF commit
  <1> HIDE DEF lamport
  <1>5. p = build(builder[r], lamport, p.sha)
    BY <1>2
  <1> HIDE DEF p
  <1>6. CommitStep(r, p)
    BY <1>1, <1>2, <1>3, <1>4, <1>5 DEF CommitStep, p, lamport
  <1> QED
    BY <1>6

\* The patch that is committed.
LEMMA CommittedPatch ==
    ASSUME TypeOK, NEW r \in Replica, NEW p, CommitStep(r, p)
    PROVE  /\ p \in Patch
           /\ p.writer = builder[r].writer /\ p.context = builder[r].vv
           /\ Len(p.ops) = Len(builder[r].ops) /\ Len(p.ops) \in Nat
           /\ \A i \in 1..Len(p.ops) : p.ops[i] = lowerCanonicalOp(builder[r].ops[i])
           /\ p.lamport >= builder[r].lamport /\ p.lamport > tip[r]
  <1> DEFINE b == builder[r]
             lamport == maxOf(b.lamport, tip[r] + 1)
             ops == [i \in 1..Len(b.ops) |-> lowerCanonicalOp(b.ops[i])]
  <1>1. b \in Builder /\ tip[r] \in Nat
    BY ReplicaTypes DEF CommitStep
  <1>2. b.writer \in Writer /\ b.lamport \in Nat \ {0} /\ b.vv \in VersionVector /\ b.ops \in Seq(CanonicalOp)
    BY <1>1, BuilderFields
  <1>3. lamport \in Nat \ {0} /\ lamport >= b.lamport /\ lamport > tip[r]
    BY <1>1, <1>2 DEF maxOf
  <1>4. p.sha \in Nat
    BY ShaAssumption, MenuAssumption DEF CommitStep, TypeOK
  <1>5. p = [sha |-> p.sha, writer |-> b.writer, lamport |-> lamport, context |-> b.vv, ops |-> ops]
    BY DEF CommitStep, build
  <1> HIDE DEF b, lamport
  <1>6. Len(b.ops) \in Nat /\ \A i \in 1..Len(b.ops) : b.ops[i] \in CanonicalOp
    BY <1>2, LenProperties, ElementOfSeq
  <1>7. ops \in [1..Len(b.ops) -> RawOp]
    BY <1>6, LoweredOp
  <1>8. ops \in Seq(RawOp)
    BY <1>6, <1>7, SeqDef
  <1>9. Len(ops) = Len(b.ops)
    <2>1. DOMAIN ops = 1..Len(ops) /\ Len(ops) \in Nat /\ DOMAIN ops = 1..Len(b.ops)
      BY <1>8, LenProperties
    <2> QED
      BY <1>6, <2>1
  <1>10. \A i \in 1..Len(b.ops) : ops[i] = lowerCanonicalOp(b.ops[i])
    OBVIOUS
  <1> HIDE DEF ops
  <1>11. /\ p.writer = b.writer /\ p.lamport = lamport /\ p.context = b.vv /\ p.ops = ops
    BY <1>5
  <1>12. p \in Patch
    BY <1>2, <1>3, <1>4, <1>5, <1>8 DEF Patch
  <1> QED
    BY <1>3, <1>6, <1>9, <1>10, <1>11, <1>12 DEF b

\* Every step is of one of these kinds.
LEMMA StepKinds ==
    ASSUME TypeOK, [Next]_vars
    PROVE  \/ UNCHANGED vars
           \/ \E r \in Replica : \/ createPatch(r)
                                 \/ BuildStep(r)
                                 \/ \E p : CommitStep(r, p)
                                 \/ discard(r)
                                 \/ \E p \in log : ReceiveStep(r, p)
                                 \/ ApplyOp(r)
                                 \/ FinishPatch(r)
                                 \/ \E q \in Replica : joinReplica(r, q)
                                 \/ restart(r)
  BY BuildSteps, ReceiveSteps, CommitSteps DEF Next

\* An empty state.
LEMMA EmptyState ==
    /\ createEmptyStateV5 \in State
    /\ createEmptyStateV5.nodeAlive.entries = {} /\ createEmptyStateV5.nodeAlive.tombstones = {}
    /\ createEmptyStateV5.edgeAlive.entries = {} /\ createEmptyStateV5.edgeAlive.tombstones = {}
    /\ \A k \in PropKey : createEmptyStateV5.prop[k] = None
    /\ \A e \in Edge : createEmptyStateV5.edgeBirthEvent[e] = None
    /\ \A w \in Writer : createEmptyStateV5.observedFrontier[w] = 0
  <1>1. createORSet \in ORSet(Node) /\ createORSet \in ORSet(Edge)
    BY DEF createORSet, ORSet
  <1>2. createVersionVector \in VersionVector
    BY DEF createVersionVector, VersionVector
  <1>3. createEmptyStateV5 \in State
    BY <1>1, <1>2 DEF createEmptyStateV5, State
  <1>4. /\ createEmptyStateV5.nodeAlive.entries = {} /\ createEmptyStateV5.nodeAlive.tombstones = {}
        /\ createEmptyStateV5.edgeAlive.entries = {} /\ createEmptyStateV5.edgeAlive.tombstones = {}
    BY DEF createEmptyStateV5, createORSet
  <1>5. \A w \in Writer : createEmptyStateV5.observedFrontier[w] = 0
    BY DEF createEmptyStateV5, createVersionVector
  <1>6. /\ \A k \in PropKey : createEmptyStateV5.prop[k] = None
        /\ \A e \in Edge : createEmptyStateV5.edgeBirthEvent[e] = None
    BY DEF createEmptyStateV5
  <1> QED
    BY <1>3, <1>4, <1>5, <1>6

\* The operation that the loop applies next, and the state it makes.
LEMMA AppliedNext ==
    ASSUME TypeOK, NEW r \in Replica, ApplyOp(r)
    PROVE  LET p  == cur[r].patch
               i  == cur[r].next
               op == normalizeRawOp(p.ops[i])
           IN  /\ cur[r] # None /\ p \in Patch /\ i \in 1..Len(p.ops)
               /\ p.ops[i] \in RawOp /\ op \in CanonicalOp /\ eventOf(p, i) \in EventId
               /\ state' = [state EXCEPT ![r] = after(state[r], op, eventOf(p, i))]
               /\ cur' = [cur EXCEPT ![r].next = @ + 1]
               /\ UNCHANGED <<menu, log, tip, hb, applied, builder, maxObserved>>
  <1> DEFINE p  == cur[r].patch
             i  == cur[r].next
             op == normalizeRawOp(p.ops[i])
  <1>1. cur[r] # None /\ i <= Len(p.ops)
    BY DEF ApplyOp, Idle
  <1>2. p \in Patch /\ i \in Nat \ {0}
    BY <1>1, ReplicaTypes
  <1>3. p.ops \in Seq(RawOp) /\ Len(p.ops) \in Nat
    BY <1>2, LenProperties DEF Patch
  <1>4. i \in 1..Len(p.ops)
    BY <1>1, <1>2, <1>3
  <1>5. p.ops[i] \in RawOp
    BY <1>3, <1>4, ElementOfSeq
  <1>6. op \in CanonicalOp
    BY <1>5, NormalizedOp
  <1>7. eventOf(p, i) \in EventId
    BY <1>2, <1>4, EventsOfPatch
  <1>8. state' = [state EXCEPT ![r] = applyOpV2(state[r], op, eventOf(p, i))]
    BY DEF ApplyOp
  <1>9. state[r] \in State
    BY ReplicaTypes
  <1>10. applyOpV2(state[r], op, eventOf(p, i)) = after(state[r], op, eventOf(p, i))
    BY <1>6, <1>7, <1>9, AppliedOp
  <1> HIDE DEF op
  <1> QED
    BY <1>1, <1>2, <1>4, <1>5, <1>6, <1>7, <1>8, <1>10 DEF ApplyOp, op

\* Steps keep the types.
LEMMA TypeStep == TypeOK /\ [Next]_vars => TypeOK'
  <1> SUFFICES ASSUME TypeOK, [Next]_vars
               PROVE  TypeOK'
    OBVIOUS
  <1>1. CASE UNCHANGED vars
    BY <1>1 DEF TypeOK, vars
  <1>2. ASSUME NEW r \in Replica, createPatch(r)
        PROVE  TypeOK'
    <2> DEFINE b == newBuilder(r, _nextLamport(r), state[r].observedFrontier, shasOf(applied[r]))
    <2>1. r \in Writer /\ tip[r] \in Nat /\ maxObserved[r] \in Nat
      BY ReplicaTypes
    <2>2. _nextLamport(r) \in Nat \ {0}
      BY <2>1 DEF _nextLamport, maxOf
    <2>3. state[r].observedFrontier \in VersionVector
      BY ReplicaTypes, StateParts
    <2>4. shasOf(applied[r]) \in SUBSET Nat
      BY ReplicaTypes DEF shasOf, Patch
    <2>5. b \in Builder
      BY <2>1, <2>2, <2>3, <2>4 DEF newBuilder, Builder
    <2> HIDE DEF b
    <2>6. builder' = [builder EXCEPT ![r] = b] /\ UNCHANGED <<menu, log, tip, hb, state, applied, cur, maxObserved>>
      BY <1>2 DEF createPatch, b
    <2> QED
      BY <2>5, <2>6 DEF TypeOK
  <1>3. ASSUME NEW r \in Replica, BuildStep(r)
        PROVE  TypeOK'
    <2>1. PICK c : builtFrom(builder[r], state[r], c) /\ Build(r, c)
      BY <1>3 DEF BuildStep
    <2>2. c \in Builder
      BY <2>1 DEF builtFrom
    <2> QED
      BY <2>1, <2>2 DEF Build, TypeOK
  <1>4. ASSUME NEW r \in Replica, NEW p, CommitStep(r, p)
        PROVE  TypeOK'
    <2>1. p \in Patch
      BY <1>4, CommittedPatch
    <2>2. p.sha \in Nat /\ p.lamport \in Nat
      BY <2>1 DEF Patch
    <2>3. builder[r].basis \in SUBSET Nat
      BY <1>4, ReplicaTypes, BuilderFields DEF CommitStep
    <2>4. hb' \in SUBSET (Nat \X Nat)
      BY <1>4, <2>2, <2>3 DEF CommitStep, TypeOK
    <2>5. cur' \in [Replica -> Loop \cup {None}]
      <3>1. [patch |-> p, next |-> 1] \in Loop
        BY <2>1 DEF Loop
      <3> QED
        BY <1>4, <3>1 DEF CommitStep, TypeOK
    <2>6. tip' \in [Writer -> Nat] /\ maxObserved' \in [Replica -> Nat]
      BY <1>4, <2>2 DEF CommitStep, TypeOK, maxOf
    <2>7. builder' \in [Replica -> Builder \cup {None}] /\ log' \in SUBSET Patch
      BY <1>4, <2>1 DEF CommitStep, TypeOK
    <2> QED
      BY <1>4, <2>4, <2>5, <2>6, <2>7 DEF CommitStep, TypeOK
  <1>5. ASSUME NEW r \in Replica, discard(r)
        PROVE  TypeOK'
    BY <1>5 DEF discard, Build, TypeOK
  <1>6. ASSUME NEW r \in Replica, NEW p \in log, ReceiveStep(r, p)
        PROVE  TypeOK'
    <2>1. p \in Patch /\ p.lamport \in Nat
      BY DEF TypeOK, Patch
    <2>2. cur' \in [Replica -> Loop \cup {None}]
      <3>1. [patch |-> p, next |-> 1] \in Loop
        BY <2>1 DEF Loop
      <3> QED
        BY <1>6, <3>1 DEF ReceiveStep, TypeOK
    <2>3. maxObserved' \in [Replica -> Nat]
      BY <1>6, <2>1 DEF ReceiveStep, TypeOK, maxOf
    <2> QED
      BY <1>6, <2>2, <2>3 DEF ReceiveStep, TypeOK
  <1>7. ASSUME NEW r \in Replica, ApplyOp(r)
        PROVE  TypeOK'
    <2> DEFINE p  == cur[r].patch
               i  == cur[r].next
               t == after(state[r], normalizeRawOp(p.ops[i]), eventOf(p, i))
    <2>1. t \in State
      BY <1>7, AppliedNext, AfterType, ReplicaTypes
    <2> HIDE DEF t
    <2>2. /\ state' = [state EXCEPT ![r] = t] /\ cur' = [cur EXCEPT ![r].next = @ + 1]
          /\ cur[r] # None
          /\ UNCHANGED <<menu, log, tip, hb, applied, builder, maxObserved>>
      BY <1>7, AppliedNext DEF t
    <2>3. cur' \in [Replica -> Loop \cup {None}]
      <3>1. cur[r] \in Loop
        BY <2>2, ReplicaTypes
      <3>2. [cur[r] EXCEPT !.next = @ + 1] \in Loop
        BY <3>1 DEF Loop
      <3>3. cur' = [cur EXCEPT ![r] = [cur[r] EXCEPT !.next = @ + 1]]
        BY <2>2
      <3> QED
        BY <3>2, <3>3 DEF TypeOK
    <2> QED
      BY <2>1, <2>2, <2>3 DEF TypeOK
  <1>8. ASSUME NEW r \in Replica, FinishPatch(r)
        PROVE  TypeOK'
    <2> DEFINE t == updateFrontierFromPatch(state[r], cur[r].patch)
    <2>1. cur[r].patch \in Patch /\ state[r] \in State /\ applied[r] \in SUBSET Patch
      BY <1>8, ReplicaTypes DEF FinishPatch, Idle
    <2>2. t \in State
      BY <2>1, FrontierUpdate
    <2> HIDE DEF t
    <2>3. state' = [state EXCEPT ![r] = t]
      BY <1>8 DEF FinishPatch, t
    <2> QED
      BY <1>8, <2>1, <2>2, <2>3 DEF FinishPatch, TypeOK
  <1>9. ASSUME NEW r \in Replica, NEW q \in Replica, joinReplica(r, q)
        PROVE  TypeOK'
    <2> DEFINE t == joinStates(state[r], state[q])
    <2>1. t \in State
      BY ReplicaTypes, JoinType
    <2> HIDE DEF t
    <2>2. state' = [state EXCEPT ![r] = t]
      BY <1>9 DEF joinReplica, t
    <2> QED
      BY <1>9, <2>1, <2>2 DEF joinReplica, TypeOK
  <1>10. ASSUME NEW r \in Replica, restart(r)
         PROVE  TypeOK'
    BY <1>10, EmptyState DEF restart, TypeOK
  <1> QED
    BY <1>1, <1>2, <1>3, <1>4, <1>5, <1>6, <1>7, <1>8, <1>9, <1>10, StepKinds

\* All variables of Replication keep their types, for any constants.
THEOREM ReplicationTypeCorrect == Spec => []TypeOK
  <1>1. Init => TypeOK
    BY EmptyState DEF Init, TypeOK, Replica
  <1> QED
    BY <1>1, TypeStep, PTL DEF Spec

----------------------------------------------------------------------------
(* The log: commit ids are unique, and replicas hold patches of the log.   *)

LogInv ==
    /\ \A p, q \in log : p.sha = q.sha => p = q
    /\ hb \in SUBSET (shasOf(log) \X shasOf(log))
    /\ \A r \in Replica : applied[r] \in SUBSET log
    /\ \A r \in Replica :
          cur[r] # None => cur[r].patch \in log /\ cur[r].next <= Len(cur[r].patch.ops) + 1
    /\ \A r \in Replica :
          builder[r] # None => builder[r].writer = r /\ builder[r].basis \in SUBSET shasOf(applied[r])

\* The commit ids of more patches.
LEMMA MoreShas == \A A, B : A \in SUBSET B => shasOf(A) \in SUBSET shasOf(B)
  BY DEF shasOf

LEMMA LogStep == TypeOK /\ LogInv /\ [Next]_vars => LogInv'
  <1> SUFFICES ASSUME TypeOK, LogInv, [Next]_vars
               PROVE  LogInv'
    OBVIOUS
  <1>t. /\ builder \in [Replica -> Builder \cup {None}] /\ cur \in [Replica -> Loop \cup {None}]
        /\ applied \in [Replica -> SUBSET Patch]
    BY DEF TypeOK
  <1>s. \A A, B : shasOf(A \cup B) = shasOf(A) \cup shasOf(B)
    BY Zenon DEF shasOf
  <1>1. CASE UNCHANGED vars
    BY <1>1 DEF LogInv, vars, shasOf
  <1>2. ASSUME NEW r \in Replica, createPatch(r)
        PROVE  LogInv'
    <2> DEFINE b == newBuilder(r, _nextLamport(r), state[r].observedFrontier, shasOf(applied[r]))
    <2>1. b.writer = r /\ b.basis = shasOf(applied[r])
      BY DEF newBuilder
    <2> HIDE DEF b
    <2>2. builder' = [builder EXCEPT ![r] = b] /\ UNCHANGED <<menu, log, tip, hb, state, applied, cur, maxObserved>>
      BY <1>2 DEF createPatch, b
    <2> QED
      BY <1>t, <2>1, <2>2 DEF LogInv, shasOf
  <1>3. ASSUME NEW r \in Replica, BuildStep(r)
        PROVE  LogInv'
    <2>1. PICK c : builtFrom(builder[r], state[r], c) /\ Build(r, c)
      BY <1>3 DEF BuildStep
    <2>2. c.writer = builder[r].writer /\ c.basis = builder[r].basis /\ builder[r] # None
      BY <1>3, <2>1 DEF builtFrom, extendsBuilder, BuildStep
    <2> QED
      BY <1>t, <2>1, <2>2 DEF Build, LogInv, shasOf
  <1>4. ASSUME NEW r \in Replica, NEW p, CommitStep(r, p)
        PROVE  LogInv'
    <2>1. p \in Patch /\ Len(p.ops) \in Nat
      BY <1>4, CommittedPatch
    <2>2. /\ p.sha \notin shasOf(log) /\ log' = log \cup {p} /\ hb' = hb \cup (builder[r].basis \X {p.sha})
          /\ cur' = [cur EXCEPT ![r] = [patch |-> p, next |-> 1]]
          /\ builder' = [builder EXCEPT ![r] = None]
          /\ builder[r] # None
          /\ UNCHANGED <<menu, state, applied>>
      BY <1>4 DEF CommitStep
    <2>3. \A x, y \in log' : x.sha = y.sha => x = y
      BY <2>2 DEF LogInv, shasOf
    <2>4. shasOf(log') = shasOf(log) \cup {p.sha}
      BY <2>2 DEF shasOf
    <2>5. builder[r].basis \in SUBSET shasOf(log)
      BY <2>2, MoreShas DEF LogInv
    <2>6. hb' \in SUBSET (shasOf(log') \X shasOf(log'))
      BY <2>2, <2>4, <2>5 DEF LogInv
    <2>7. \A q \in Replica : applied'[q] \in SUBSET log'
      BY <2>2 DEF LogInv
    <2>8. ASSUME NEW q \in Replica, cur'[q] # None
          PROVE  cur'[q].patch \in log' /\ cur'[q].next <= Len(cur'[q].patch.ops) + 1
      <3>1. CASE q = r
        <4>1. cur'[q].patch = p /\ cur'[q].next = 1
          BY <1>t, <2>2, <3>1
        <4> QED
          BY <2>1, <2>2, <4>1
      <3>2. CASE q # r
        BY <1>t, <2>2, <2>8, <3>2 DEF LogInv
      <3> QED
        BY <3>1, <3>2
    <2>9. ASSUME NEW q \in Replica, builder'[q] # None
          PROVE  builder'[q].writer = q /\ builder'[q].basis \in SUBSET shasOf(applied'[q])
      BY <1>t, <2>2, <2>9 DEF LogInv
    <2> QED
      BY <2>3, <2>6, <2>7, <2>8, <2>9 DEF LogInv, shasOf
  <1>5. ASSUME NEW r \in Replica, discard(r)
        PROVE  LogInv'
    BY <1>t, <1>5 DEF discard, Build, LogInv, shasOf
  <1>6. ASSUME NEW r \in Replica, NEW p \in log, ReceiveStep(r, p)
        PROVE  LogInv'
    <2>1. Len(p.ops) \in Nat
      BY LenProperties DEF TypeOK, Patch
    <2>2. /\ cur' = [cur EXCEPT ![r] = [patch |-> p, next |-> 1]]
          /\ UNCHANGED <<menu, log, tip, hb, state, applied, builder>>
      BY <1>6 DEF ReceiveStep
    <2>3. ASSUME NEW q \in Replica, cur'[q] # None
          PROVE  cur'[q].patch \in log' /\ cur'[q].next <= Len(cur'[q].patch.ops) + 1
      <3>1. CASE q = r
        <4>1. cur'[q].patch = p /\ cur'[q].next = 1
          BY <1>t, <2>2, <3>1
        <4> QED
          BY <2>1, <2>2, <4>1
      <3>2. CASE q # r
        BY <1>t, <2>2, <2>3, <3>2 DEF LogInv
      <3> QED
        BY <3>1, <3>2
    <2> QED
      BY <2>2, <2>3 DEF LogInv, shasOf
  <1>7. ASSUME NEW r \in Replica, ApplyOp(r)
        PROVE  LogInv'
    <2>1. /\ cur' = [cur EXCEPT ![r].next = @ + 1]
          /\ cur[r] # None /\ cur[r].next \in 1..Len(cur[r].patch.ops)
          /\ UNCHANGED <<menu, log, tip, hb, applied, builder, maxObserved>>
      BY <1>7, AppliedNext
    <2>2. cur[r] \in Loop /\ Len(cur[r].patch.ops) \in Nat
      BY <2>1, ReplicaTypes, LenProperties DEF Patch
    <2>3. cur'[r].patch = cur[r].patch /\ cur'[r].next = cur[r].next + 1
      BY <1>t, <2>1, <2>2 DEF Loop
    <2>4. cur'[r].patch \in log' /\ cur'[r].next <= Len(cur'[r].patch.ops) + 1
      BY <2>1, <2>2, <2>3 DEF LogInv
    <2>5. \A q \in Replica : q # r => cur'[q] = cur[q]
      BY <1>t, <2>1
    <2> QED
      BY <2>1, <2>4, <2>5 DEF LogInv, shasOf
  <1>8. ASSUME NEW r \in Replica, FinishPatch(r)
        PROVE  LogInv'
    <2>1. cur[r].patch \in log
      BY <1>8 DEF FinishPatch, Idle, LogInv
    <2>2. /\ applied' = [applied EXCEPT ![r] = @ \cup {cur[r].patch}] /\ cur' = [cur EXCEPT ![r] = None]
          /\ UNCHANGED <<menu, log, tip, hb, builder, maxObserved>>
      BY <1>8 DEF FinishPatch
    <2>3. \A q \in Replica : applied[q] \in SUBSET applied'[q] /\ applied'[q] \in SUBSET log
      BY <1>t, <2>1, <2>2 DEF LogInv
    <2>4. \A q \in Replica : shasOf(applied[q]) \in SUBSET shasOf(applied'[q])
      BY <2>3, MoreShas
    <2>5. \A q \in Replica : builder[q] # None => builder[q].basis \in SUBSET shasOf(applied'[q])
      BY <2>4 DEF LogInv
    <2>6. \A q \in Replica : cur'[q] # None => cur'[q] = cur[q]
      BY <1>t, <2>2
    <2>7. \A q \in Replica : cur'[q] # None => cur'[q].patch \in log' /\ cur'[q].next <= Len(cur'[q].patch.ops) + 1
      BY <2>2, <2>6 DEF LogInv
    <2> QED
      BY <2>2, <2>3, <2>5, <2>7 DEF LogInv, shasOf
  <1>9. ASSUME NEW r \in Replica, NEW q \in Replica, joinReplica(r, q)
        PROVE  LogInv'
    <2>1. /\ applied' = [applied EXCEPT ![r] = @ \cup applied[q]]
          /\ UNCHANGED <<menu, log, tip, hb, cur, builder, maxObserved>>
      BY <1>9 DEF joinReplica
    <2>2. \A x \in Replica : applied[x] \in SUBSET applied'[x] /\ applied'[x] \in SUBSET log
      BY <1>t, <2>1 DEF LogInv
    <2>3. \A x \in Replica : shasOf(applied[x]) \in SUBSET shasOf(applied'[x])
      BY <2>2, MoreShas
    <2>4. \A x \in Replica : builder[x] # None => builder[x].basis \in SUBSET shasOf(applied'[x])
      BY <2>3 DEF LogInv
    <2> QED
      BY <2>1, <2>2, <2>4 DEF LogInv, shasOf
  <1>10. ASSUME NEW r \in Replica, restart(r)
         PROVE  LogInv'
    <2>1. /\ applied' = [applied EXCEPT ![r] = {}] /\ cur' = [cur EXCEPT ![r] = None]
          /\ builder' = [builder EXCEPT ![r] = None] /\ UNCHANGED <<menu, log, tip, hb>>
      BY <1>10 DEF restart
    <2>2. \A q \in Replica : q # r => applied'[q] = applied[q] /\ cur'[q] = cur[q] /\ builder'[q] = builder[q]
      BY <1>t, <2>1
    <2>3. applied'[r] = {} /\ cur'[r] = None /\ builder'[r] = None
      BY <1>t, <2>1
    <2> QED
      BY <2>1, <2>2, <2>3 DEF LogInv, shasOf
  <1> QED
    BY <1>1, <1>2, <1>3, <1>4, <1>5, <1>6, <1>7, <1>8, <1>9, <1>10, StepKinds

LEMMA LogAlways == Spec => []LogInv
  <1>1. Init => LogInv
    BY DEF Init, LogInv
  <1> QED
    BY <1>1, LogStep, ReplicationTypeCorrect, PTL DEF Spec

----------------------------------------------------------------------------
(* What a replica holds reflects the operations it has applied.            *)

LEMMA DoneOpsParts ==
    ASSUME NEW r
    PROVE  doneOps(r) = allOps(applied[r]) \cup loopOps(cur[r])
  BY DEF doneOps

LEMMA DoneOpsPartsPrimed ==
    ASSUME NEW r
    PROVE  doneOps(r)' = allOps(applied'[r]) \cup loopOps(cur'[r])
  BY DEF doneOps, allOps, loopOps, firstOps, opAt

\* An operation of a patch.
LEMMA OpAtType ==
    ASSUME NEW p \in Patch, NEW i \in 1..Len(p.ops)
    PROVE  /\ opAt(p, i) \in OpDone /\ p.ops[i] \in RawOp
           /\ opAt(p, i).op = normalizeRawOp(p.ops[i]) /\ opAt(p, i).id = eventOf(p, i)
  <1>1. p.ops \in Seq(RawOp)
    BY DEF Patch
  <1>2. p.ops[i] \in RawOp
    BY <1>1, ElementOfSeq
  <1>3. normalizeRawOp(p.ops[i]) \in CanonicalOp /\ eventOf(p, i) \in EventId
    BY <1>2, NormalizedOp, EventsOfPatch
  <1> QED
    BY <1>2, <1>3 DEF opAt, OpDone

LEMMA PatchLength == \A p \in Patch : Len(p.ops) \in Nat
  BY LenProperties DEF Patch

LEMMA AllOpsOfBoth == \A A, B : allOps(A \cup B) = allOps(A) \cup allOps(B)
  BY Zenon DEF allOps

LEMMA AllOpsOfOne == allOps({}) = {} /\ \A p : allOps({p}) = firstOps(p, Len(p.ops))
  BY DEF allOps

LEMMA AllOpsType == \A A \in SUBSET Patch : allOps(A) \in SUBSET OpDone
  BY OpAtType DEF allOps, firstOps

LEMMA FirstOpsType ==
    ASSUME NEW p \in Patch, NEW n \in Nat, n <= Len(p.ops)
    PROVE  firstOps(p, n) \in SUBSET OpDone
  <1>1. 1..n \in SUBSET (1..Len(p.ops))
    BY PatchLength
  <1> QED
    BY <1>1, OpAtType DEF firstOps

LEMMA FirstOpsMore ==
    ASSUME NEW p, NEW n \in Nat
    PROVE  /\ firstOps(p, n + 1) = firstOps(p, n) \cup {opAt(p, n + 1)}
           /\ firstOps(p, 0) = {}
  <1>1. 1..(n + 1) = (1..n) \cup {n + 1}
    OBVIOUS
  <1>2. 1..0 = {}
    OBVIOUS
  <1>3. firstOps(p, 0) = {}
    BY <1>2 DEF firstOps
  <1>4. firstOps(p, n + 1) = {opAt(p, i) : i \in (1..n) \cup {n + 1}}
    BY <1>1 DEF firstOps
  <1>5. \A S, x : {opAt(p, i) : i \in S \cup {x}} = {opAt(p, i) : i \in S} \cup {opAt(p, x)}
    BY Zenon
  <1>6. {opAt(p, i) : i \in (1..n) \cup {n + 1}} = {opAt(p, i) : i \in 1..n} \cup {opAt(p, n + 1)}
    BY <1>5
  <1> QED
    BY <1>3, <1>4, <1>6 DEF firstOps

\* The operations of a replica are of their type.
LEMMA DoneOpsType ==
    ASSUME TypeOK, LogInv, NEW r \in Replica
    PROVE  doneOps(r) \in SUBSET OpDone
  <1>1. allOps(applied[r]) \in SUBSET OpDone
    BY ReplicaTypes, AllOpsType
  <1>2. loopOps(cur[r]) \in SUBSET OpDone
    <2>1. CASE cur[r] = None
      BY <2>1 DEF loopOps
    <2>2. CASE cur[r] # None
      <3>1. cur[r].patch \in Patch /\ cur[r].next \in Nat \ {0} /\ cur[r].next <= Len(cur[r].patch.ops) + 1
        BY <2>2, ReplicaTypes DEF LogInv
      <3>2. cur[r].next - 1 \in Nat /\ cur[r].next - 1 <= Len(cur[r].patch.ops)
        BY <3>1, PatchLength
      <3> QED
        BY <2>2, <3>1, <3>2, FirstOpsType DEF loopOps
    <2> QED
      BY <2>1, <2>2
  <1> QED
    BY <1>1, <1>2, DoneOpsParts

\* Only the parts of a state other than the frontier matter.
LEMMA ReflectsSameParts ==
    ASSUME NEW s, NEW t, NEW O, reflects(s, O), t.nodeAlive = s.nodeAlive, t.edgeAlive = s.edgeAlive,
           t.prop = s.prop, t.edgeBirthEvent = s.edgeBirthEvent
    PROVE  reflects(t, O)
  BY ReflectsParts

LEMMA ReflectsNothing == reflects(createEmptyStateV5, {})
  <1>1. \A type : ofType({}, type) = {}
    BY DEF ofType
  <1>2. addedNodes({}) = {} /\ addedEdges({}) = {} /\ removedDots({}) = {} /\ idsOf({}) = {}
    BY ImagesOfOne
  <1>3. \A k : writesTo({}, k) = {}
    BY <1>1 DEF writesTo
  <1>4. \A e : addsOfEdge({}, e) = {}
    BY <1>1 DEF addsOfEdge
  <1>5. \A k \in PropKey : isWinner(createEmptyStateV5.prop[k], writesTo({}, k))
    BY <1>3, EmptyState DEF isWinner
  <1>6. \A e \in Edge : isGreatest(createEmptyStateV5.edgeBirthEvent[e], idsOf(addsOfEdge({}, e)))
    BY <1>2, <1>4, EmptyState DEF isGreatest
  <1> QED
    BY <1>1, <1>2, <1>5, <1>6, EmptyState, ReflectsParts

LEMMA ReflectStep ==
    TypeOK /\ LogInv /\ StateReflectsPatches /\ [Next]_vars => StateReflectsPatches'
  <1> SUFFICES ASSUME TypeOK, LogInv, StateReflectsPatches, [Next]_vars, NEW x \in Replica
               PROVE  reflects(state'[x], doneOps(x)')
    BY DEF StateReflectsPatches
  <1>t. /\ state \in [Replica -> State] /\ cur \in [Replica -> Loop \cup {None}]
        /\ applied \in [Replica -> SUBSET Patch]
    BY DEF TypeOK
  <1>h. reflects(state[x], doneOps(x))
    BY DEF StateReflectsPatches
  <1>s. ASSUME state'[x] = state[x], applied'[x] = applied[x], loopOps(cur'[x]) = loopOps(cur[x])
        PROVE  reflects(state'[x], doneOps(x)')
    BY <1>h, <1>s, DoneOpsParts, DoneOpsPartsPrimed
  <1>e. \A p : loopOps([patch |-> p, next |-> 1]) = loopOps(None)
    <2>1. ASSUME NEW p
          PROVE  loopOps([patch |-> p, next |-> 1]) = loopOps(None)
      <3> DEFINE c == [patch |-> p, next |-> 1]
      <3>1. c.patch = p /\ c.next = 1
        OBVIOUS
      <3> HIDE DEF c
      <3>2. loopOps(c) = {}
        BY <3>1, FirstOpsMore DEF loopOps
      <3> QED
        BY <3>2 DEF loopOps, c
    <2> QED
      BY <2>1
  <1>1. CASE UNCHANGED vars
    BY <1>1, <1>s DEF vars
  <1>2. ASSUME NEW r \in Replica, createPatch(r) \/ discard(r)
        PROVE  reflects(state'[x], doneOps(x)')
    BY <1>2, <1>s DEF createPatch, discard, Build
  <1>3. ASSUME NEW r \in Replica, BuildStep(r)
        PROVE  reflects(state'[x], doneOps(x)')
    BY <1>3, <1>s DEF BuildStep, Build
  <1>4. ASSUME NEW r \in Replica, NEW p, CommitStep(r, p) \/ ReceiveStep(r, p)
        PROVE  reflects(state'[x], doneOps(x)')
    <2>1. /\ cur' = [cur EXCEPT ![r] = [patch |-> p, next |-> 1]] /\ UNCHANGED <<state, applied>>
          /\ cur[r] = None
      BY <1>4 DEF CommitStep, ReceiveStep, AllIdle, Idle
    <2>2. loopOps(cur'[x]) = loopOps(cur[x])
      BY <1>t, <1>e, <2>1
    <2> QED
      BY <1>s, <2>1, <2>2
  <1>5. ASSUME NEW r \in Replica, ApplyOp(r)
        PROVE  reflects(state'[x], doneOps(x)')
    <2> DEFINE p == cur[r].patch
               i == cur[r].next
               op == normalizeRawOp(p.ops[i])
               id == eventOf(p, i)
    <2>1. /\ p \in Patch /\ i \in 1..Len(p.ops) /\ op \in CanonicalOp /\ id \in EventId /\ cur[r] # None
          /\ state' = [state EXCEPT ![r] = after(state[r], op, id)]
          /\ cur' = [cur EXCEPT ![r].next = @ + 1]
          /\ applied' = applied
      BY <1>5, AppliedNext
    <2>2. CASE x # r
      BY <1>s, <1>t, <2>1, <2>2
    <2>3. CASE x = r
      <3>1. cur'[x].patch = p /\ cur'[x].next = i + 1 /\ cur'[x] # None
        <4>1. cur[r] \in Loop
          BY <2>1, ReplicaTypes
        <4>2. cur'[r] = [cur[r] EXCEPT !.next = @ + 1]
          BY <1>t, <2>1
        <4>3. cur'[r] \in Loop
          BY <4>1, <4>2 DEF Loop
        <4> QED
          BY <2>3, <4>1, <4>2, <4>3, NoneIsNoLoop DEF Loop
      <3>2. i \in Nat /\ i - 1 \in Nat /\ (i - 1) + 1 = i /\ (i + 1) - 1 = i
        BY <2>1, PatchLength
      <3>3. firstOps(p, i) = firstOps(p, i - 1) \cup {opAt(p, i)}
        BY <3>2, FirstOpsMore
      <3>4. loopOps(cur'[x]) = loopOps(cur[x]) \cup {opAt(p, i)}
        BY <2>1, <2>3, <3>1, <3>2, <3>3 DEF loopOps
      <3>5. doneOps(x)' = doneOps(x) \cup {opAt(p, i)}
        BY <2>1, <3>4, DoneOpsParts, DoneOpsPartsPrimed
      <3>6. opAt(p, i) = [op |-> op, id |-> id]
        BY DEF opAt
      <3> HIDE DEF p, i, op, id
      <3>7. state'[x] = after(state[x], op, id) /\ state[x] \in State
        BY <1>t, <2>1, <2>3
      <3>8. reflects(after(state[x], op, id), doneOps(x) \cup {[op |-> op, id |-> id]})
        BY <1>h, <2>1, <3>7, ReflectsOneMore, DoneOpsType
      <3> QED
        BY <3>5, <3>6, <3>7, <3>8
    <2> QED
      BY <2>2, <2>3
  <1>6. ASSUME NEW r \in Replica, FinishPatch(r)
        PROVE  reflects(state'[x], doneOps(x)')
    <2> DEFINE p == cur[r].patch
    <2>1. /\ state' = [state EXCEPT ![r] = updateFrontierFromPatch(@, p)]
          /\ applied' = [applied EXCEPT ![r] = @ \cup {p}]
          /\ cur' = [cur EXCEPT ![r] = None]
          /\ cur[r] # None /\ cur[r].next > Len(p.ops)
      BY <1>6 DEF FinishPatch, Idle
    <2>2. CASE x # r
      BY <1>s, <1>t, <2>1, <2>2
    <2>3. CASE x = r
      <3>1. p \in Patch /\ cur[r].next \in Nat /\ Len(p.ops) \in Nat /\ cur[r].next <= Len(p.ops) + 1
        BY <2>1, ReplicaTypes, PatchLength DEF LogInv
      <3>2. cur[r].next - 1 = Len(p.ops)
        BY <2>1, <3>1
      <3>3. loopOps(cur[x]) = firstOps(p, Len(p.ops))
        BY <2>1, <2>3, <3>2 DEF loopOps
      <3>4. loopOps(cur'[x]) = {}
        BY <1>t, <2>1, <2>3 DEF loopOps
      <3>5. applied'[x] = applied[x] \cup {p}
        BY <1>t, <2>1, <2>3
      <3>6. allOps(applied'[x]) = allOps(applied[x]) \cup firstOps(p, Len(p.ops))
        <4>1. allOps(applied[x] \cup {p}) = allOps(applied[x]) \cup allOps({p})
          BY AllOpsOfBoth
        <4>2. allOps({p}) = firstOps(p, Len(p.ops))
          BY AllOpsOfOne
        <4> QED
          BY <3>5, <4>1, <4>2
      <3>7. doneOps(x)' = doneOps(x)
        BY <3>3, <3>4, <3>6, DoneOpsParts, DoneOpsPartsPrimed
      <3> HIDE DEF p
      <3>8. state[x] \in State /\ state'[x] = updateFrontierFromPatch(state[x], p)
        BY <1>t, <2>1, <2>3
      <3>9. /\ state'[x].nodeAlive = state[x].nodeAlive /\ state'[x].edgeAlive = state[x].edgeAlive
            /\ state'[x].prop = state[x].prop /\ state'[x].edgeBirthEvent = state[x].edgeBirthEvent
        BY <3>1, <3>8, FrontierUpdate
      <3>10. reflects(state'[x], doneOps(x))
        BY <1>h, <3>9, ReflectsSameParts
      <3> QED
        BY <3>7, <3>10
    <2> QED
      BY <2>2, <2>3
  <1>7. ASSUME NEW r \in Replica, NEW q \in Replica, joinReplica(r, q)
        PROVE  reflects(state'[x], doneOps(x)')
    <2>1. /\ state' = [state EXCEPT ![r] = joinStates(@, state[q])]
          /\ applied' = [applied EXCEPT ![r] = @ \cup applied[q]]
          /\ cur' = cur /\ cur[r] = None /\ cur[q] = None
      BY <1>7 DEF joinReplica, AllIdle, Idle
    <2>2. CASE x # r
      BY <1>s, <1>t, <2>1, <2>2
    <2>3. CASE x = r
      <3>1. loopOps(cur[x]) = {} /\ loopOps(cur[q]) = {} /\ loopOps(cur'[x]) = {}
        BY <2>1, <2>3 DEF loopOps
      <3>2. applied'[x] = applied[x] \cup applied[q]
        BY <1>t, <2>1, <2>3
      <3>3. allOps(applied'[x]) = allOps(applied[x]) \cup allOps(applied[q])
        BY <3>2, AllOpsOfBoth
      <3>4. doneOps(x)' = doneOps(x) \cup doneOps(q)
        BY <3>1, <3>3, DoneOpsParts, DoneOpsPartsPrimed
      <3>5. state'[x] = joinStates(state[x], state[q]) /\ state[x] \in State /\ state[q] \in State
        BY <1>t, <2>1, <2>3
      <3>6. doneOps(x) \in SUBSET OpDone /\ doneOps(q) \in SUBSET OpDone
        BY DoneOpsType
      <3>7. reflects(state[q], doneOps(q))
        BY DEF StateReflectsPatches
      <3>8. reflects(joinStates(state[x], state[q]), doneOps(x) \cup doneOps(q))
        <4> DEFINE s == state[x]
                   t == state[q]
                   O == doneOps(x)
                   Q == doneOps(q)
        <4>1. s \in State /\ t \in State /\ O \in SUBSET OpDone /\ Q \in SUBSET OpDone
          BY <3>5, <3>6
        <4>2. reflects(s, O) /\ reflects(t, Q)
          BY <1>h, <3>7
        <4> HIDE DEF s, t, O, Q
        <4>3. reflects(joinStates(s, t), O \cup Q)
          BY <4>1, <4>2, ReflectsJoined
        <4> QED
          BY <4>3 DEF s, t, O, Q
      <3> QED
        BY <3>4, <3>5, <3>8
    <2> QED
      BY <2>2, <2>3
  <1>8. ASSUME NEW r \in Replica, restart(r)
        PROVE  reflects(state'[x], doneOps(x)')
    <2>1. /\ state' = [state EXCEPT ![r] = createEmptyStateV5]
          /\ applied' = [applied EXCEPT ![r] = {}]
          /\ cur' = [cur EXCEPT ![r] = None]
      BY <1>8 DEF restart
    <2>2. CASE x # r
      BY <1>s, <1>t, <2>1, <2>2
    <2>3. CASE x = r
      <3>1. state'[x] = createEmptyStateV5 /\ applied'[x] = {} /\ cur'[x] = None
        BY <1>t, <2>1, <2>3
      <3>2. doneOps(x)' = {}
        BY <3>1, AllOpsOfOne, DoneOpsPartsPrimed DEF loopOps
      <3> QED
        BY <3>1, <3>2, ReflectsNothing
    <2> QED
      BY <2>2, <2>3
  <1> QED
    BY <1>1, <1>2, <1>3, <1>4, <1>5, <1>6, <1>7, <1>8, StepKinds

\* Every replica's state is the one that the set of the operations it has
\* applied determines, whatever the order, the repetition and the restarts.
THEOREM StateAlwaysReflects == Spec => []StateReflectsPatches
  <1>1. Init => StateReflectsPatches
    <2> SUFFICES ASSUME Init, NEW r \in Replica
                 PROVE  reflects(state[r], doneOps(r))
      BY DEF StateReflectsPatches
    <2>1. state[r] = createEmptyStateV5 /\ applied[r] = {} /\ cur[r] = None
      BY DEF Init
    <2>2. doneOps(r) = {}
      BY <2>1, AllOpsOfOne, DoneOpsParts DEF loopOps
    <2> QED
      BY <2>1, <2>2, ReflectsNothing
  <1> QED
    BY <1>1, ReflectStep, ReplicationTypeCorrect, LogAlways, PTL DEF Spec

----------------------------------------------------------------------------
(* The observed frontier is the largest of what the applied patches say.   *)

\* the ticks of w that a patch witnesses
ticksOf(p, w) == {p.context[w]} \cup (IF p.writer = w THEN {p.lamport} ELSE {})

\* n is the largest tick of w that a set of patches witnesses, 0 if none is
isLargestTick(n, A, w) ==
    /\ n \in Nat
    /\ \A p \in A : \A m \in ticksOf(p, w) : m <= n
    /\ n = 0 \/ \E p \in A : n \in ticksOf(p, w)

FrontierInv ==
    \A r \in Replica : \A w \in Writer : isLargestTick(state[r].observedFrontier[w], applied[r], w)

LEMMA TicksType == \A p \in Patch : \A w \in Writer : ticksOf(p, w) \in SUBSET Nat
  BY DEF ticksOf, Patch, VersionVector

LEMMA LargestTickUnique ==
    ASSUME NEW A \in SUBSET Patch, NEW w \in Writer, NEW m, NEW n,
           isLargestTick(m, A, w), isLargestTick(n, A, w)
    PROVE  m = n
  BY TicksType DEF isLargestTick

LEMMA LargestTickOfBoth ==
    ASSUME NEW A \in SUBSET Patch, NEW B \in SUBSET Patch, NEW w \in Writer, NEW m, NEW n,
           isLargestTick(m, A, w), isLargestTick(n, B, w)
    PROVE  isLargestTick(maxOf(m, n), A \cup B, w)
  <1>1. m \in Nat /\ n \in Nat /\ \A p \in A \cup B : ticksOf(p, w) \in SUBSET Nat
    BY TicksType DEF isLargestTick
  <1>2. CASE m >= n
    <2>1. maxOf(m, n) = m
      BY <1>1, <1>2 DEF maxOf
    <2>2. ASSUME NEW p \in B, NEW k \in ticksOf(p, w)
          PROVE  k <= m
      BY <1>1, <1>2 DEF isLargestTick
    <2> QED
      BY <2>1, <2>2 DEF isLargestTick
  <1>3. CASE ~(m >= n)
    <2>1. maxOf(m, n) = n
      BY <1>1, <1>3 DEF maxOf
    <2>2. ASSUME NEW p \in A, NEW k \in ticksOf(p, w)
          PROVE  k <= n
      BY <1>1, <1>3 DEF isLargestTick
    <2> QED
      BY <2>1, <2>2 DEF isLargestTick
  <1> QED
    BY <1>2, <1>3

LEMMA LargestTickOfOne ==
    ASSUME NEW p \in Patch, NEW w \in Writer
    PROVE  isLargestTick(IF w = p.writer THEN maxOf(p.context[w], p.lamport) ELSE p.context[w], {p}, w)
  <1>1. p.context[w] \in Nat /\ p.lamport \in Nat
    BY DEF Patch, VersionVector
  <1> QED
    BY <1>1 DEF isLargestTick, ticksOf, maxOf

LEMMA FrontierStep == TypeOK /\ FrontierInv /\ [Next]_vars => FrontierInv'
  <1> SUFFICES ASSUME TypeOK, FrontierInv, [Next]_vars, NEW x \in Replica, NEW w \in Writer
               PROVE  isLargestTick(state'[x].observedFrontier[w], applied'[x], w)
    BY DEF FrontierInv, isLargestTick, ticksOf
  <1>t. /\ state \in [Replica -> State] /\ cur \in [Replica -> Loop \cup {None}]
        /\ applied \in [Replica -> SUBSET Patch]
    BY DEF TypeOK
  <1>h. isLargestTick(state[x].observedFrontier[w], applied[x], w)
    BY DEF FrontierInv
  <1>s. ASSUME state'[x].observedFrontier = state[x].observedFrontier, applied'[x] = applied[x]
        PROVE  isLargestTick(state'[x].observedFrontier[w], applied'[x], w)
    BY <1>h, <1>s
  <1>1. CASE UNCHANGED vars
    BY <1>1, <1>s DEF vars
  <1>2. ASSUME NEW r \in Replica, createPatch(r) \/ discard(r) \/ BuildStep(r)
        PROVE  isLargestTick(state'[x].observedFrontier[w], applied'[x], w)
    BY <1>2, <1>s DEF createPatch, discard, BuildStep, Build
  <1>3. ASSUME NEW r \in Replica, NEW p, CommitStep(r, p) \/ ReceiveStep(r, p)
        PROVE  isLargestTick(state'[x].observedFrontier[w], applied'[x], w)
    BY <1>3, <1>s DEF CommitStep, ReceiveStep
  <1>4. ASSUME NEW r \in Replica, ApplyOp(r)
        PROVE  isLargestTick(state'[x].observedFrontier[w], applied'[x], w)
    <2>1. applied' = applied /\ state' = [state EXCEPT ![r] =
             after(state[r], normalizeRawOp(cur[r].patch.ops[cur[r].next]), eventOf(cur[r].patch, cur[r].next))]
      BY <1>4, AppliedNext
    <2>2. \A s, op, id : after(s, op, id).observedFrontier = s.observedFrontier
      BY DEF after
    <2>3. state'[x].observedFrontier = state[x].observedFrontier
      BY <1>t, <2>1, <2>2
    <2> QED
      BY <1>s, <2>1, <2>3
  <1>5. ASSUME NEW r \in Replica, FinishPatch(r)
        PROVE  isLargestTick(state'[x].observedFrontier[w], applied'[x], w)
    <2> DEFINE p == cur[r].patch
               n == IF w = p.writer THEN maxOf(p.context[w], p.lamport) ELSE p.context[w]
    <2>1. /\ state' = [state EXCEPT ![r] = updateFrontierFromPatch(@, p)]
          /\ applied' = [applied EXCEPT ![r] = @ \cup {p}]
          /\ p \in Patch
      BY <1>5, ReplicaTypes DEF FinishPatch, Idle
    <2>2. CASE x # r
      BY <1>s, <1>t, <2>1, <2>2
    <2>3. CASE x = r
      <3>1. isLargestTick(n, {p}, w)
        BY <2>1, LargestTickOfOne
      <3>2. p.context[w] \in Nat /\ p.lamport \in Nat
        BY <2>1 DEF Patch, VersionVector
      <3> HIDE DEF p
      <3>3. state[x] \in State /\ state'[x] = updateFrontierFromPatch(state[x], p) /\ applied'[x] = applied[x] \cup {p}
        BY <1>t, <2>1, <2>3
      <3>4. state[x].observedFrontier[w] \in Nat
        BY <1>h DEF isLargestTick
      <3>5. state'[x].observedFrontier[w] =
              IF w = p.writer THEN maxOf(maxOf(state[x].observedFrontier[w], p.context[w]), p.lamport)
              ELSE maxOf(state[x].observedFrontier[w], p.context[w])
        BY <2>1, <3>3, FrontierUpdate
      <3>6. state'[x].observedFrontier[w] = maxOf(state[x].observedFrontier[w], n)
        BY <3>2, <3>4, <3>5 DEF maxOf
      <3> HIDE DEF n
      <3>7. isLargestTick(maxOf(state[x].observedFrontier[w], n), applied[x] \cup {p}, w)
        <4>1. applied[x] \in SUBSET Patch /\ {p} \in SUBSET Patch
          BY <1>t, <2>1
        <4> QED
          BY <1>h, <3>1, <4>1, LargestTickOfBoth
      <3> QED
        BY <3>3, <3>6, <3>7
    <2> QED
      BY <2>2, <2>3
  <1>6. ASSUME NEW r \in Replica, NEW q \in Replica, joinReplica(r, q)
        PROVE  isLargestTick(state'[x].observedFrontier[w], applied'[x], w)
    <2>1. /\ state' = [state EXCEPT ![r] = joinStates(@, state[q])]
          /\ applied' = [applied EXCEPT ![r] = @ \cup applied[q]]
      BY <1>6 DEF joinReplica
    <2>2. CASE x # r
      BY <1>s, <1>t, <2>1, <2>2
    <2>3. CASE x = r
      <3> DEFINE m == state[x].observedFrontier[w]
                 n == state[q].observedFrontier[w]
      <3>1. state'[x] = joinStates(state[x], state[q]) /\ applied'[x] = applied[x] \cup applied[q]
        BY <1>t, <2>1, <2>3
      <3>2. \A s, t : joinStates(s, t).observedFrontier[w] = maxOf(s.observedFrontier[w], t.observedFrontier[w])
        BY DEF joinStates, vvMerge
      <3>3. state'[x].observedFrontier[w] = maxOf(m, n)
        BY <3>1, <3>2
      <3>4. isLargestTick(m, applied[x], w) /\ isLargestTick(n, applied[q], w)
        BY <1>h DEF FrontierInv
      <3> HIDE DEF m, n
      <3>5. isLargestTick(maxOf(m, n), applied[x] \cup applied[q], w)
        <4>1. applied[x] \in SUBSET Patch /\ applied[q] \in SUBSET Patch
          BY <1>t
        <4> QED
          BY <3>4, <4>1, LargestTickOfBoth
      <3> QED
        BY <3>1, <3>3, <3>5
    <2> QED
      BY <2>2, <2>3
  <1>7. ASSUME NEW r \in Replica, restart(r)
        PROVE  isLargestTick(state'[x].observedFrontier[w], applied'[x], w)
    <2>1. state' = [state EXCEPT ![r] = createEmptyStateV5] /\ applied' = [applied EXCEPT ![r] = {}]
      BY <1>7 DEF restart
    <2>2. CASE x # r
      BY <1>s, <1>t, <2>1, <2>2
    <2>3. CASE x = r
      <3>1. state'[x] = createEmptyStateV5 /\ applied'[x] = {}
        BY <1>t, <2>1, <2>3
      <3>2. state'[x].observedFrontier[w] = 0
        BY <3>1, EmptyState
      <3> QED
        BY <3>1, <3>2 DEF isLargestTick
    <2> QED
      BY <2>2, <2>3
  <1> QED
    BY <1>1, <1>2, <1>3, <1>4, <1>5, <1>6, <1>7, StepKinds

LEMMA FrontierAlways == Spec => []FrontierInv
  <1>1. Init => FrontierInv
    <2> SUFFICES ASSUME Init, NEW r \in Replica, NEW w \in Writer
                 PROVE  isLargestTick(state[r].observedFrontier[w], applied[r], w)
      BY DEF FrontierInv
    <2>1. state[r] = createEmptyStateV5 /\ applied[r] = {}
      BY DEF Init
    <2>2. state[r].observedFrontier[w] = 0
      BY <2>1, EmptyState
    <2> QED
      BY <2>1, <2>2 DEF isLargestTick
  <1> QED
    BY <1>1, FrontierStep, ReplicationTypeCorrect, PTL DEF Spec

\* An event id names one operation of the log.
LEMMA EventsNameOps ==
    ASSUME TypeOK, LogInv, NEW A \in SUBSET log, NEW o \in allOps(A), NEW u \in allOps(A), o.id = u.id
    PROVE  o = u
  <1>1. PICK p \in A : o \in firstOps(p, Len(p.ops))
    BY DEF allOps
  <1>2. PICK i \in 1..Len(p.ops) : o = opAt(p, i)
    BY <1>1 DEF firstOps
  <1>3. PICK q \in A : u \in firstOps(q, Len(q.ops))
    BY DEF allOps
  <1>4. PICK j \in 1..Len(q.ops) : u = opAt(q, j)
    BY <1>3 DEF firstOps
  <1>5. p \in Patch /\ q \in Patch /\ p \in log /\ q \in log
    BY DEF TypeOK
  <1>6. o.id = eventOf(p, i) /\ u.id = eventOf(q, j)
    BY <1>2, <1>4, <1>5, OpAtType
  <1>7. p.sha = q.sha /\ i - 1 = j - 1
    <2>1. eventOf(p, i).sha = p.sha /\ eventOf(p, i).op = i - 1
      BY <1>5, EventsOfPatch
    <2>2. eventOf(q, j).sha = q.sha /\ eventOf(q, j).op = j - 1
      BY <1>5, EventsOfPatch
    <2> QED
      BY <1>6, <2>1, <2>2
  <1>8. p = q
    BY <1>5, <1>7 DEF LogInv
  <1>9. i = j
    BY <1>5, <1>7, PatchLength
  <1> QED
    BY <1>2, <1>4, <1>8, <1>9

\* Greatest events and winning registers are determined by the operations.
LEMMA GreatestUnique ==
    ASSUME NEW I \in SUBSET EventId, NEW a, NEW b, isGreatest(a, I), isGreatest(b, I)
    PROVE  a = b
  BY EventTotal DEF isGreatest

LEMMA WinnerUnique ==
    ASSUME NEW W, isWrites(W), \A o, u \in W : o.id = u.id => o = u,
           NEW a, NEW b, isWinner(a, W), isWinner(b, W)
    PROVE  a = b
  <1>1. CASE W = {}
    BY <1>1 DEF isWinner
  <1>2. CASE W # {}
    <2>1. PICK x \in W : a = lwwSet(x.id, x.op.value) /\ \A u \in W : ~isGreater(u.id, x.id)
      BY <1>2 DEF isWinner
    <2>2. PICK y \in W : b = lwwSet(y.id, y.op.value) /\ \A u \in W : ~isGreater(u.id, y.id)
      BY <1>2 DEF isWinner
    <2>3. x.id \in EventId /\ y.id \in EventId
      BY DEF isWrites
    <2>4. x.id = y.id
      BY <2>1, <2>2, <2>3, EventTotal
    <2> QED
      BY <2>1, <2>2, <2>4
  <1> QED
    BY <1>1, <1>2

\* The operations of a set of patches determine the parts of a state.
LEMMA SameOpsSameParts ==
    ASSUME TypeOK, LogInv, NEW A \in SUBSET log, NEW s \in State, NEW t \in State,
           reflects(s, allOps(A)), reflects(t, allOps(A))
    PROVE  /\ s.nodeAlive = t.nodeAlive /\ s.edgeAlive = t.edgeAlive
           /\ s.prop = t.prop /\ s.edgeBirthEvent = t.edgeBirthEvent
  <1> DEFINE O == allOps(A)
  <1>1. O \in SUBSET OpDone /\ \A o, u \in O : o.id = u.id => o = u
    <2>1. A \in SUBSET Patch
      BY DEF TypeOK
    <2>2. O \in SUBSET OpDone
      BY <2>1, AllOpsType
    <2>3. ASSUME NEW o \in O, NEW u \in O, o.id = u.id
          PROVE  o = u
      BY <2>3, EventsNameOps
    <2> QED
      BY <2>2, <2>3
  <1>2. reflects(s, O) /\ reflects(t, O)
    OBVIOUS
  <1> HIDE DEF O
  <1>3. /\ s.nodeAlive.entries = t.nodeAlive.entries /\ s.nodeAlive.tombstones = t.nodeAlive.tombstones
        /\ s.edgeAlive.entries = t.edgeAlive.entries /\ s.edgeAlive.tombstones = t.edgeAlive.tombstones
    BY <1>2, ReflectsParts
  <1>4. s.nodeAlive = t.nodeAlive /\ s.edgeAlive = t.edgeAlive
    <2>1. /\ s.nodeAlive = [entries |-> s.nodeAlive.entries, tombstones |-> s.nodeAlive.tombstones]
          /\ t.nodeAlive = [entries |-> t.nodeAlive.entries, tombstones |-> t.nodeAlive.tombstones]
          /\ s.edgeAlive = [entries |-> s.edgeAlive.entries, tombstones |-> s.edgeAlive.tombstones]
          /\ t.edgeAlive = [entries |-> t.edgeAlive.entries, tombstones |-> t.edgeAlive.tombstones]
      BY StateParts
    <2> QED
      BY <1>3, <2>1
  <1>5. ASSUME NEW k \in PropKey
        PROVE  s.prop[k] = t.prop[k]
    <2> DEFINE W == writesTo(O, k)
    <2>1. isWinner(s.prop[k], W) /\ isWinner(t.prop[k], W)
      BY <1>2, ReflectsParts
    <2>2. W = {o \in O : writesKey(o.op, k)} /\ isWrites(W)
      BY <1>1, WritesOf
    <2>3. \A o, u \in W : o.id = u.id => o = u
      BY <1>1, <2>2
    <2> HIDE DEF W
    <2> QED
      BY <2>1, <2>2, <2>3, WinnerUnique
  <1>6. ASSUME NEW e \in Edge
        PROVE  s.edgeBirthEvent[e] = t.edgeBirthEvent[e]
    <2> DEFINE I == idsOf(addsOfEdge(O, e))
    <2>1. isGreatest(s.edgeBirthEvent[e], I) /\ isGreatest(t.edgeBirthEvent[e], I)
      BY <1>2, ReflectsParts
    <2>2. I \in SUBSET EventId
      BY <1>1, BirthsOf
    <2> HIDE DEF I
    <2> QED
      BY <2>1, <2>2, GreatestUnique
  <1>7. /\ s.prop \in [PropKey -> Register \cup {None}] /\ t.prop \in [PropKey -> Register \cup {None}]
        /\ s.edgeBirthEvent \in [Edge -> EventId \cup {None}] /\ t.edgeBirthEvent \in [Edge -> EventId \cup {None}]
    BY StateParts
  <1>8. s.prop = t.prop
    BY <1>5, <1>7
  <1>9. s.edgeBirthEvent = t.edgeBirthEvent
    BY <1>6, <1>7
  <1> QED
    BY <1>4, <1>8, <1>9

LEMMA ConvergenceHolds ==
    TypeOK /\ LogInv /\ StateReflectsPatches /\ FrontierInv => StrongConvergence
  <1> SUFFICES ASSUME TypeOK, LogInv, StateReflectsPatches, FrontierInv,
                      NEW r \in Replica, NEW q \in Replica, Idle(r), Idle(q), applied[r] = applied[q]
               PROVE  state[r] = state[q]
    BY DEF StrongConvergence
  <1> DEFINE A == applied[r]
             s == state[r]
             t == state[q]
  <1>1. s \in State /\ t \in State /\ A \in SUBSET log /\ A \in SUBSET Patch
    BY ReplicaTypes DEF LogInv
  <1>2. doneOps(r) = allOps(A) /\ doneOps(q) = allOps(A)
    BY DEF doneOps, Idle, loopOps
  <1>3. reflects(s, allOps(A)) /\ reflects(t, allOps(A))
    BY <1>2 DEF StateReflectsPatches
  <1>4. \A w \in Writer : isLargestTick(s.observedFrontier[w], A, w) /\ isLargestTick(t.observedFrontier[w], A, w)
    BY DEF FrontierInv
  <1> HIDE DEF A, s, t
  <1>5. \A w \in Writer : s.observedFrontier[w] = t.observedFrontier[w]
    BY <1>1, <1>4, LargestTickUnique
  <1>6. s.observedFrontier = t.observedFrontier
    <2>1. s.observedFrontier \in VersionVector /\ t.observedFrontier \in VersionVector
      BY <1>1, StateParts
    <2> QED
      BY <1>5, <2>1 DEF VersionVector
  <1>7. /\ s.nodeAlive = t.nodeAlive /\ s.edgeAlive = t.edgeAlive
        /\ s.prop = t.prop /\ s.edgeBirthEvent = t.edgeBirthEvent
    BY <1>1, <1>3, SameOpsSameParts
  <1>8. s = t
    BY <1>1, <1>6, <1>7 DEF State
  <1> QED
    BY <1>8 DEF s, t

\* Replicas that have applied the same patches are in the same state, for any
\* numbers of replicas, patches and operations.
THEOREM ReplicasAlwaysConverge == Spec => []StrongConvergence
  BY ConvergenceHolds, ReplicationTypeCorrect, LogAlways, StateAlwaysReflects, FrontierAlways, PTL

----------------------------------------------------------------------------
(* Dots are never given twice.                                             *)

\* the i-th operation is an add with the dot d
addsAt(ops, i, d) == i \in 1..Len(ops) /\ ops[i].type \in AddTypes /\ ops[i].dot = d

\* the dots of a patch are its writer's, up to its context
dotsWithin(p) ==
    \A i, d : addsAt(p.ops, i, d) => d \in Dot /\ d[1] = p.writer /\ d[2] <= p.context[p.writer]

\* the dots of a builder of r are above those of r's patches in the set L, up
\* to its version vector, and different
dotsAbove(b, r, L) ==
    /\ \A p \in L : p.writer = r => p.context[r] <= b.vv[r]
    /\ \A i, d : addsAt(b.ops, i, d) =>
          /\ d \in Dot /\ d[1] = r /\ d[2] <= b.vv[r]
          /\ \A p \in L : p.writer = r => p.context[r] < d[2]
    /\ \A i, j, d : addsAt(b.ops, i, d) /\ addsAt(b.ops, j, d) => i = j

DotInv ==
    /\ \A p \in log : dotsWithin(p)
    /\ \A p, q \in log : \A i, j, d : addsAt(p.ops, i, d) /\ addsAt(q.ops, j, d) => p = q /\ i = j
    /\ \A r \in Replica : builder[r] # None => dotsAbove(builder[r], r, log)

\* What a committed patch adds is what its builder added.
LEMMA CommittedAdds ==
    ASSUME TypeOK, NEW r \in Replica, NEW p, CommitStep(r, p), NEW i, NEW d
    PROVE  addsAt(p.ops, i, d) <=> addsAt(builder[r].ops, i, d)
  <1>1. /\ Len(p.ops) = Len(builder[r].ops)
        /\ \A k \in 1..Len(p.ops) : p.ops[k] = lowerCanonicalOp(builder[r].ops[k])
    BY CommittedPatch
  <1>2. builder[r].ops \in Seq(CanonicalOp)
    BY ReplicaTypes, BuilderFields DEF CommitStep
  <1>3. ASSUME i \in 1..Len(p.ops)
        PROVE  /\ builder[r].ops[i].type \in AddTypes => p.ops[i] = builder[r].ops[i]
               /\ p.ops[i].type \in AddTypes => p.ops[i] = builder[r].ops[i]
    <2>1. builder[r].ops[i] \in CanonicalOp
      BY <1>1, <1>2, <1>3, ElementOfSeq
    <2>2. p.ops[i] = lowerCanonicalOp(builder[r].ops[i])
      BY <1>1, <1>3
    <2> QED
      BY <2>1, <2>2, LoweredOp DEF AddTypes
  <1> QED
    BY <1>1, <1>3 DEF addsAt

\* A method of the builder keeps its dots above.
LEMMA BuiltDots ==
    ASSUME NEW b \in Builder, NEW s, NEW c, NEW r \in Writer, NEW L \in SUBSET Patch,
           b.writer = r, builtFrom(b, s, c), dotsAbove(b, r, L)
    PROVE  dotsAbove(c, r, L)
  <1>1. /\ c \in Builder /\ Len(b.ops) \in Nat /\ Len(c.ops) \in Nat /\ Len(c.ops) >= Len(b.ops)
        /\ b.vv \in VersionVector /\ b.vv[r] \in Nat
        /\ \A i \in 1..Len(b.ops) : c.ops[i] = b.ops[i]
    BY BuilderFields, LenProperties DEF builtFrom, extendsBuilder, VersionVector
  <1>2. \A i, d : i \in 1..Len(b.ops) => (addsAt(c.ops, i, d) <=> addsAt(b.ops, i, d))
    BY <1>1 DEF addsAt
  <1>3. \A i, d : addsAt(b.ops, i, d) => i \in 1..Len(b.ops)
    BY DEF addsAt
  <1>4. CASE addsNone(b, c)
    <2>1. ASSUME NEW i, NEW d, addsAt(c.ops, i, d)
          PROVE  i \in 1..Len(b.ops)
      BY <1>1, <1>4, <2>1 DEF addsAt, addsNone
    <2>2. \A i, d : addsAt(c.ops, i, d) => addsAt(b.ops, i, d)
      BY <1>2, <2>1
    <2>3. c.vv = b.vv
      BY <1>4 DEF addsNone
    <2> QED
      BY <2>2, <2>3 DEF dotsAbove
  <1>5. CASE addsOne(b, c)
    <2>1. c.vv[r] = b.vv[r] + 1 /\ nextDot(b) = <<r, b.vv[r] + 1>>
      BY <1>1, <1>5 DEF addsOne, nextDot, VersionVector
    <2>2. ASSUME NEW i, NEW d, addsAt(c.ops, i, d)
          PROVE  addsAt(b.ops, i, d) \/ (i = Len(b.ops) + 1 /\ d = <<r, b.vv[r] + 1>>)
      <3>1. CASE i \in 1..Len(b.ops)
        BY <1>2, <2>2, <3>1
      <3>2. CASE i \notin 1..Len(b.ops)
        <4>1. i = Len(b.ops) + 1 /\ i = Len(c.ops)
          BY <1>1, <1>5, <2>2, <3>2 DEF addsAt, addsOne
        <4> QED
          BY <1>5, <2>1, <2>2, <4>1 DEF addsAt, addsOne
      <3> QED
        BY <3>1, <3>2
    <2>3. \A p \in L : p.context[r] \in Nat
      BY DEF Patch, VersionVector
    <2>4. \A p \in L : p.writer = r => p.context[r] <= b.vv[r]
      BY DEF dotsAbove
    <2>5. \A p \in L : p.writer = r => p.context[r] <= c.vv[r] /\ p.context[r] < b.vv[r] + 1
      BY <1>1, <2>1, <2>3, <2>4
    <2>6. ASSUME NEW i, NEW d, addsAt(b.ops, i, d)
          PROVE  d \in Dot /\ d[1] = r /\ d[2] <= c.vv[r] /\ d[2] < b.vv[r] + 1
      <3>1. d \in Dot /\ d[1] = r /\ d[2] <= b.vv[r]
        BY <2>6 DEF dotsAbove
      <3>2. d[2] \in Nat
        BY <3>1 DEF Dot
      <3> QED
        BY <1>1, <2>1, <3>1, <3>2
    <2>7. \A i, d : addsAt(b.ops, i, d) => \A p \in L : p.writer = r => p.context[r] < d[2]
      BY DEF dotsAbove
    <2>8. <<r, b.vv[r] + 1>> \in Dot
      BY <1>1 DEF Dot
    <2>9. ASSUME NEW i, NEW d, addsAt(c.ops, i, d)
          PROVE  /\ d \in Dot /\ d[1] = r /\ d[2] <= c.vv[r]
                 /\ \A p \in L : p.writer = r => p.context[r] < d[2]
      <3>1. CASE addsAt(b.ops, i, d)
        BY <2>6, <2>7, <3>1
      <3>2. CASE d = <<r, b.vv[r] + 1>>
        <4>1. d[1] = r /\ d[2] = b.vv[r] + 1
          BY <3>2
        <4> QED
          BY <1>1, <2>1, <2>5, <2>8, <3>2, <4>1
      <3> QED
        BY <2>2, <2>9, <3>1, <3>2
    <2>10. ASSUME NEW i, NEW j, NEW d, addsAt(c.ops, i, d), addsAt(c.ops, j, d)
           PROVE  i = j
      <3>1. \A k : addsAt(b.ops, k, d) => d # <<r, b.vv[r] + 1>>
        <4>1. ASSUME NEW k, addsAt(b.ops, k, d), d = <<r, b.vv[r] + 1>>
              PROVE  FALSE
          <5>1. d[2] = b.vv[r] + 1
            BY <4>1
          <5> QED
            BY <1>1, <2>6, <4>1, <5>1
        <4> QED
          BY <4>1
      <3>2. addsAt(b.ops, i, d) /\ addsAt(b.ops, j, d) => i = j
        BY DEF dotsAbove
      <3> QED
        BY <2>2, <2>10, <3>1, <3>2
    <2> QED
      BY <2>5, <2>9, <2>10 DEF dotsAbove
  <1> QED
    BY <1>4, <1>5 DEF builtFrom

\* The dots of a patch that is committed, against those of the log.
LEMMA CommittedDots ==
    ASSUME TypeOK, LogInv, DotInv, NEW r \in Replica, NEW p, CommitStep(r, p)
    PROVE  /\ dotsWithin(p)
           /\ \A q \in log : \A i, j, d : ~(addsAt(p.ops, i, d) /\ addsAt(q.ops, j, d))
           /\ \A i, j, d : addsAt(p.ops, i, d) /\ addsAt(p.ops, j, d) => i = j
  <1> DEFINE b == builder[r]
  <1>1. /\ b # None /\ b.writer = r /\ dotsAbove(b, r, log)
        /\ p.writer = r /\ p.context = b.vv
    BY CommittedPatch DEF CommitStep, LogInv, DotInv
  <1>2. \A i, d : addsAt(p.ops, i, d) <=> addsAt(b.ops, i, d)
    BY CommittedAdds
  <1> HIDE DEF b
  <1>3. dotsWithin(p)
    BY <1>1, <1>2 DEF dotsWithin, dotsAbove
  <1>4. ASSUME NEW q \in log, NEW i, NEW j, NEW d, addsAt(p.ops, i, d), addsAt(q.ops, j, d)
        PROVE  FALSE
    <2>1. d \in Dot /\ d[1] = r /\ (q.writer = r => q.context[r] < d[2])
      BY <1>1, <1>2, <1>4 DEF dotsAbove
    <2>2. d[1] = q.writer /\ d[2] <= q.context[q.writer]
      BY <1>4 DEF DotInv, dotsWithin
    <2>3. d[2] \in Nat /\ q.context[q.writer] \in Nat
      BY <2>1 DEF Dot, TypeOK, Patch, VersionVector
    <2> QED
      BY <2>1, <2>2, <2>3
  <1>5. \A i, j, d : addsAt(p.ops, i, d) /\ addsAt(p.ops, j, d) => i = j
    BY <1>1, <1>2 DEF dotsAbove
  <1> QED
    BY <1>3, <1>4, <1>5

LEMMA DotStep == TypeOK /\ LogInv /\ FrontierInv /\ DotInv /\ [Next]_vars => DotInv'
  <1> SUFFICES ASSUME TypeOK, LogInv, FrontierInv, DotInv, [Next]_vars
               PROVE  DotInv'
    OBVIOUS
  <1>t. /\ builder \in [Replica -> Builder \cup {None}] /\ log \in SUBSET Patch
    BY DEF TypeOK
  <1>a. \A r \in Replica : builder[r] # None => dotsAbove(builder[r], r, log)
    BY DEF DotInv
  <1>s. ASSUME log' = log, \A r \in Replica : builder'[r] # None => dotsAbove(builder'[r], r, log)
        PROVE  DotInv'
    <2>1. /\ \A p \in log : dotsWithin(p)
          /\ \A p, q \in log : \A i, j, d : addsAt(p.ops, i, d) /\ addsAt(q.ops, j, d) => p = q /\ i = j
      BY DEF DotInv
    <2> QED
      BY <1>s, <2>1 DEF DotInv, dotsWithin, dotsAbove, addsAt
  <1>1. ASSUME log' = log, builder' = builder
        PROVE  DotInv'
    BY <1>1, <1>a, <1>s
  <1>2. ASSUME NEW r \in Replica, createPatch(r)
        PROVE  DotInv'
    <2> DEFINE b == newBuilder(r, _nextLamport(r), state[r].observedFrontier, shasOf(applied[r]))
    <2>1. builder' = [builder EXCEPT ![r] = b] /\ log' = log /\ chain(r) \subseteq applied[r]
      BY <1>2 DEF createPatch
    <2>2. b.vv = state[r].observedFrontier /\ b.ops = << >>
      BY DEF newBuilder
    <2> HIDE DEF b
    <2>3. r \in Writer
      BY ReplicaTypes
    <2>4. ASSUME NEW p \in log, p.writer = r
          PROVE  p.context[r] <= b.vv[r]
      <3>1. p \in applied[r]
        BY <2>1, <2>4 DEF chain
      <3>2. p.context[r] \in ticksOf(p, r)
        BY DEF ticksOf
      <3>3. isLargestTick(b.vv[r], applied[r], r)
        BY <2>2, <2>3 DEF FrontierInv
      <3> QED
        BY <3>1, <3>2, <3>3 DEF isLargestTick
    <2>5. \A i, d : ~addsAt(b.ops, i, d)
      BY <2>2 DEF addsAt
    <2>6. dotsAbove(b, r, log)
      BY <2>4, <2>5 DEF dotsAbove
    <2>7. \A x \in Replica : builder'[x] = IF x = r THEN b ELSE builder[x]
      BY <1>t, <2>1
    <2> QED
      BY <1>a, <1>s, <2>1, <2>6, <2>7
  <1>3. ASSUME NEW r \in Replica, BuildStep(r)
        PROVE  DotInv'
    <2>1. PICK c : builtFrom(builder[r], state[r], c) /\ Build(r, c)
      BY <1>3 DEF BuildStep
    <2>2. builder[r] # None /\ builder[r] \in Builder /\ builder[r].writer = r /\ r \in Writer
      BY <1>3, ReplicaTypes DEF BuildStep, LogInv
    <2>3. dotsAbove(c, r, log)
      BY <1>a, <1>t, <2>1, <2>2, BuiltDots
    <2>4. log' = log /\ \A x \in Replica : builder'[x] = IF x = r THEN c ELSE builder[x]
      BY <1>t, <2>1 DEF Build
    <2> QED
      BY <1>a, <1>s, <2>3, <2>4
  <1>4. ASSUME NEW r \in Replica, NEW p, CommitStep(r, p)
        PROVE  DotInv'
    <2>1. /\ dotsWithin(p)
          /\ \A q \in log : \A i, j, d : ~(addsAt(p.ops, i, d) /\ addsAt(q.ops, j, d))
          /\ \A i, j, d : addsAt(p.ops, i, d) /\ addsAt(p.ops, j, d) => i = j
      BY <1>4, CommittedDots
    <2>2. /\ log' = log \cup {p} /\ \A x \in Replica : builder'[x] = IF x = r THEN None ELSE builder[x]
          /\ builder[r] # None
      BY <1>4, <1>t DEF CommitStep
    <2>3. p.writer = r
      BY <1>4, <2>2, CommittedPatch DEF LogInv
    <2>4. \A q \in log' : dotsWithin(q)
      BY <2>1, <2>2 DEF DotInv
    <2>5. ASSUME NEW x \in log', NEW y \in log', NEW i, NEW j, NEW d,
                 addsAt(x.ops, i, d), addsAt(y.ops, j, d)
          PROVE  x = y /\ i = j
      <3>1. CASE x \in log /\ y \in log
        BY <2>5, <3>1 DEF DotInv
      <3>2. CASE x = p \/ y = p
        BY <2>1, <2>2, <2>5, <3>2
      <3> QED
        BY <2>2, <3>1, <3>2
    <2>6. ASSUME NEW x \in Replica, builder'[x] # None
          PROVE  dotsAbove(builder'[x], x, log')
      <3>1. x # r /\ builder'[x] = builder[x] /\ dotsAbove(builder[x], x, log)
        BY <1>a, <2>2, <2>6
      <3> QED
        BY <2>2, <2>3, <3>1 DEF dotsAbove
    <2> QED
      BY <2>4, <2>5, <2>6 DEF DotInv, dotsWithin, dotsAbove, addsAt
  <1>5. ASSUME NEW r \in Replica, discard(r) \/ restart(r)
        PROVE  DotInv'
    <2>1. log' = log /\ \A x \in Replica : builder'[x] = IF x = r THEN None ELSE builder[x]
      BY <1>5, <1>t DEF discard, restart, Build
    <2> QED
      BY <1>a, <1>s, <2>1
  <1>6. ASSUME NEW r \in Replica,
               \/ \E p \in log : ReceiveStep(r, p)
               \/ ApplyOp(r)
               \/ FinishPatch(r)
               \/ \E q \in Replica : joinReplica(r, q)
        PROVE  DotInv'
    BY <1>1, <1>6 DEF ReceiveStep, ApplyOp, FinishPatch, joinReplica
  <1>7. CASE UNCHANGED vars
    BY <1>1, <1>7 DEF vars
  <1> QED
    BY <1>2, <1>3, <1>4, <1>5, <1>6, <1>7, StepKinds

LEMMA DotsHold == TypeOK /\ DotInv => DotsUnique
  <1> SUFFICES ASSUME TypeOK, DotInv, NEW x \in addDots(log), NEW y \in addDots(log), x[3] = y[3]
               PROVE  x = y
    BY DEF DotsUnique
  <1>1. PICK p \in log : \E i \in 1..Len(p.ops) :
          x = <<p.sha, i, p.ops[i].dot>> /\ p.ops[i].type \in AddTypes
    BY DEF addDots, AddTypes
  <1>1a. PICK i \in 1..Len(p.ops) : x = <<p.sha, i, p.ops[i].dot>> /\ p.ops[i].type \in AddTypes
    BY <1>1
  <1>2. PICK q \in log : \E j \in 1..Len(q.ops) :
          y = <<q.sha, j, q.ops[j].dot>> /\ q.ops[j].type \in AddTypes
    BY DEF addDots, AddTypes
  <1>2a. PICK j \in 1..Len(q.ops) : y = <<q.sha, j, q.ops[j].dot>> /\ q.ops[j].type \in AddTypes
    BY <1>2
  <1>3. x[3] = p.ops[i].dot /\ y[3] = q.ops[j].dot
    BY <1>1a, <1>2a
  <1>4. addsAt(p.ops, i, x[3]) /\ addsAt(q.ops, j, x[3])
    BY <1>1a, <1>2a, <1>3 DEF addsAt
  <1>5. p = q /\ i = j
    BY <1>4 DEF DotInv
  <1> QED
    BY <1>1a, <1>2a, <1>5

\* No two adds that are ever committed carry the same dot, for any numbers of
\* writers, patches and operations.
THEOREM DotsAlwaysUnique == Spec => []DotsUnique
  <1>1. Init => DotInv
    BY DEF Init, DotInv
  <1> QED
    BY <1>1, DotStep, DotsHold, ReplicationTypeCorrect, LogAlways, FrontierAlways, PTL DEF Spec

----------------------------------------------------------------------------
(* Writes respect causality among replicas that materialize.               *)

\* the lamports of a set of patches are at most n
upTo(A, n) == \A p \in A : p.lamport <= n

\* the patches that a builder's author had applied are below its lamport
basisBelow(b, L) == \A p \in L : p.sha \in b.basis => p.lamport < b.lamport

CausalInv ==
    menu.via = {"materialize"} =>
        /\ \A r \in Replica : upTo(applied[r], maxObserved[r])
        /\ \A r \in Replica : cur[r] # None => cur[r].patch.lamport <= maxObserved[r]
        /\ \A r \in Replica : builder[r] # None => basisBelow(builder[r], log)
        /\ \A p, q \in log : <<p.sha, q.sha>> \in hb => p.lamport < q.lamport

LEMMA CausalStep == TypeOK /\ LogInv /\ CausalInv /\ [Next]_vars => CausalInv'
  <1> SUFFICES ASSUME TypeOK, LogInv, CausalInv, [Next]_vars, menu'.via = {"materialize"}
               PROVE  /\ \A r \in Replica : upTo(applied'[r], maxObserved'[r])
                      /\ \A r \in Replica : cur'[r] # None => cur'[r].patch.lamport <= maxObserved'[r]
                      /\ \A r \in Replica : builder'[r] # None => basisBelow(builder'[r], log')
                      /\ \A p, q \in log' : <<p.sha, q.sha>> \in hb' => p.lamport < q.lamport
    BY DEF CausalInv, upTo, basisBelow
  <1>t. /\ builder \in [Replica -> Builder \cup {None}] /\ log \in SUBSET Patch
        /\ cur \in [Replica -> Loop \cup {None}] /\ applied \in [Replica -> SUBSET Patch]
        /\ maxObserved \in [Replica -> Nat]
    BY DEF TypeOK
  <1>m. menu' = menu
    BY StepKinds DEF vars, createPatch, BuildStep, Build, CommitStep, discard, ReceiveStep, ApplyOp,
                     FinishPatch, joinReplica, restart
  <1>a. /\ \A r \in Replica : upTo(applied[r], maxObserved[r])
        /\ \A r \in Replica : cur[r] # None => cur[r].patch.lamport <= maxObserved[r]
        /\ \A r \in Replica : builder[r] # None => basisBelow(builder[r], log)
        /\ \A p, q \in log : <<p.sha, q.sha>> \in hb => p.lamport < q.lamport
    BY <1>m DEF CausalInv
  <1>l. \A p \in Patch : p.lamport \in Nat
    BY DEF Patch
  <1>1. CASE UNCHANGED vars
    BY <1>1, <1>a DEF vars
  <1>2. ASSUME NEW r \in Replica, createPatch(r)
        PROVE  \A x \in Replica : builder'[x] # None => basisBelow(builder'[x], log)
    <2> DEFINE b == newBuilder(r, _nextLamport(r), state[r].observedFrontier, shasOf(applied[r]))
    <2>1. b.basis = shasOf(applied[r]) /\ b.lamport = _nextLamport(r)
      BY DEF newBuilder
    <2>2. builder' = [builder EXCEPT ![r] = b]
      BY <1>2 DEF createPatch
    <2> HIDE DEF b
    <2>3. tip[r] \in Nat /\ maxObserved[r] \in Nat /\ _nextLamport(r) \in Nat /\ _nextLamport(r) > maxObserved[r]
      BY ReplicaTypes DEF _nextLamport, maxOf
    <2>4. ASSUME NEW p \in log, p.sha \in b.basis
          PROVE  p.lamport < b.lamport
      <3>1. PICK q \in applied[r] : q.sha = p.sha
        BY <2>1, <2>4 DEF shasOf
      <3>2. p \in applied[r]
        BY <3>1 DEF LogInv
      <3>3. p.lamport <= maxObserved[r] /\ p.lamport \in Nat
        BY <1>a, <1>l, <1>t, <3>2 DEF upTo
      <3> QED
        BY <2>1, <2>3, <3>3
    <2>5. \A x \in Replica : builder'[x] = IF x = r THEN b ELSE builder[x]
      BY <1>t, <2>2
    <2> QED
      BY <1>a, <2>4, <2>5 DEF basisBelow
  <1>3. ASSUME NEW r \in Replica, BuildStep(r)
        PROVE  \A x \in Replica : builder'[x] # None => basisBelow(builder'[x], log)
    <2>1. PICK c : builtFrom(builder[r], state[r], c) /\ Build(r, c)
      BY <1>3 DEF BuildStep
    <2>2. builder[r] # None /\ c.basis = builder[r].basis /\ c.lamport = builder[r].lamport
      BY <1>3, <2>1 DEF BuildStep, builtFrom, extendsBuilder
    <2>3. \A x \in Replica : builder'[x] = IF x = r THEN c ELSE builder[x]
      BY <1>t, <2>1 DEF Build
    <2> QED
      BY <1>a, <2>2, <2>3 DEF basisBelow
  <1>4. ASSUME NEW r \in Replica, NEW p, CommitStep(r, p)
        PROVE  /\ \A x \in Replica : upTo(applied'[x], maxObserved'[x])
               /\ \A x \in Replica : cur'[x] # None => cur'[x].patch.lamport <= maxObserved'[x]
               /\ \A x \in Replica : builder'[x] # None => basisBelow(builder'[x], log')
               /\ \A x, y \in log' : <<x.sha, y.sha>> \in hb' => x.lamport < y.lamport
    <2>1. p \in Patch /\ p.lamport \in Nat /\ p.lamport >= builder[r].lamport
      BY <1>4, <1>l, CommittedPatch
    <2>2. /\ p.sha \notin shasOf(log) /\ log' = log \cup {p} /\ hb' = hb \cup (builder[r].basis \X {p.sha})
          /\ applied' = applied /\ builder[r] # None
          /\ \A x \in Replica : builder'[x] = IF x = r THEN None ELSE builder[x]
          /\ \A x \in Replica : cur'[x] = IF x = r THEN [patch |-> p, next |-> 1] ELSE cur[x]
          /\ \A x \in Replica : maxObserved'[x] = IF x = r THEN maxOf(maxObserved[r], p.lamport) ELSE maxObserved[x]
      BY <1>4, <1>t DEF CommitStep
    <2>3. \A x \in Replica : maxObserved[x] \in Nat /\ maxObserved'[x] \in Nat /\ maxObserved[x] <= maxObserved'[x]
      BY <1>t, <2>1, <2>2 DEF maxOf
    <2>4. p.lamport <= maxObserved'[r]
      BY <1>t, <2>1, <2>2 DEF maxOf
    <2>5. ASSUME NEW x \in Replica, NEW q \in applied'[x]
          PROVE  q.lamport <= maxObserved'[x]
      <3>1. q.lamport \in Nat /\ q.lamport <= maxObserved[x]
        BY <1>a, <1>l, <1>t, <2>2 DEF upTo
      <3> QED
        BY <2>3, <3>1
    <2>6. ASSUME NEW x \in Replica, cur'[x] # None
          PROVE  cur'[x].patch.lamport <= maxObserved'[x]
      <3>1. CASE x = r
        BY <2>2, <2>4, <3>1
      <3>2. CASE x # r
        BY <1>a, <2>2, <2>6, <3>2
      <3> QED
        BY <3>1, <3>2
    <2>7. ASSUME NEW x \in Replica, builder'[x] # None
          PROVE  basisBelow(builder'[x], log')
      <3>1. builder'[x] = builder[x] /\ builder[x] # None
        BY <2>2, <2>7
      <3>2. p.sha \notin builder[x].basis
        BY <2>2, <3>1, MoreShas DEF LogInv
      <3> QED
        BY <1>a, <2>2, <3>1, <3>2 DEF basisBelow
    <2>8. ASSUME NEW x \in log', NEW y \in log', <<x.sha, y.sha>> \in hb'
          PROVE  x.lamport < y.lamport
      <3>1. \A q \in log : q.sha # p.sha
        BY <2>2 DEF shasOf
      <3>2. CASE <<x.sha, y.sha>> \in hb
        <4>1. x.sha \in shasOf(log) /\ y.sha \in shasOf(log)
          BY <3>2 DEF LogInv
        <4>2. x \in log /\ y \in log
          BY <2>2, <4>1
        <4> QED
          BY <1>a, <3>2, <4>2
      <3>3. CASE x.sha \in builder[r].basis /\ y.sha = p.sha
        <4>1. x.sha \in shasOf(log)
          BY <2>2, <3>3, MoreShas DEF LogInv
        <4>2. x \in log /\ y = p
          BY <2>2, <3>1, <3>3, <4>1
        <4>3. x.lamport < builder[r].lamport
          BY <1>a, <2>2, <3>3, <4>2 DEF basisBelow
        <4>4. x.lamport \in Nat /\ builder[r].lamport \in Nat
          BY <1>l, <1>t, <2>2, <4>2, ReplicaTypes, BuilderFields
        <4> QED
          BY <2>1, <4>2, <4>3, <4>4
      <3> QED
        BY <2>2, <2>8, <3>2, <3>3
    <2> QED
      BY <2>5, <2>6, <2>7, <2>8 DEF upTo
  <1>5. ASSUME NEW r \in Replica, NEW p \in log, ReceiveStep(r, p)
        PROVE  /\ \A x \in Replica : upTo(applied'[x], maxObserved'[x])
               /\ \A x \in Replica : cur'[x] # None => cur'[x].patch.lamport <= maxObserved'[x]
    <2>1. p \in Patch /\ p.lamport \in Nat /\ "sync" \notin menu.via
      BY <1>l, <1>m, <1>t
    <2>2. /\ applied' = applied
          /\ \A x \in Replica : cur'[x] = IF x = r THEN [patch |-> p, next |-> 1] ELSE cur[x]
          /\ \A x \in Replica : maxObserved'[x] = IF x = r THEN maxOf(maxObserved[r], p.lamport) ELSE maxObserved[x]
      BY <1>5, <1>t, <2>1 DEF ReceiveStep
    <2>3. \A x \in Replica : maxObserved[x] \in Nat /\ maxObserved'[x] \in Nat /\ maxObserved[x] <= maxObserved'[x]
      BY <1>t, <2>1, <2>2 DEF maxOf
    <2>4. p.lamport <= maxObserved'[r]
      BY <1>t, <2>1, <2>2 DEF maxOf
    <2>5. ASSUME NEW x \in Replica, NEW q \in applied'[x]
          PROVE  q.lamport <= maxObserved'[x]
      <3>1. q.lamport \in Nat /\ q.lamport <= maxObserved[x]
        BY <1>a, <1>l, <1>t, <2>2 DEF upTo
      <3> QED
        BY <2>3, <3>1
    <2>6. ASSUME NEW x \in Replica, cur'[x] # None
          PROVE  cur'[x].patch.lamport <= maxObserved'[x]
      <3>1. CASE x = r
        BY <2>2, <2>4, <3>1
      <3>2. CASE x # r
        BY <1>a, <2>2, <2>6, <3>2
      <3> QED
        BY <3>1, <3>2
    <2> QED
      BY <2>5, <2>6 DEF upTo
  <1>6. ASSUME NEW r \in Replica, ApplyOp(r)
        PROVE  \A x \in Replica : cur'[x] # None => cur'[x].patch.lamport <= maxObserved[x]
    <2>1. cur[r] # None /\ cur' = [cur EXCEPT ![r].next = @ + 1]
      BY <1>6, AppliedNext
    <2>2. \A x \in Replica : x # r => cur'[x] = cur[x]
      BY <1>t, <2>1
    <2>3. cur'[r].patch = cur[r].patch
      BY <1>t, <2>1, ReplicaTypes DEF Loop
    <2> QED
      BY <1>a, <2>1, <2>2, <2>3
  <1>7. ASSUME NEW r \in Replica, FinishPatch(r)
        PROVE  /\ \A x \in Replica : upTo(applied'[x], maxObserved[x])
               /\ \A x \in Replica : cur'[x] # None => cur'[x].patch.lamport <= maxObserved[x]
    <2>1. /\ \A x \in Replica : applied'[x] = IF x = r THEN applied[r] \cup {cur[r].patch} ELSE applied[x]
          /\ \A x \in Replica : cur'[x] = IF x = r THEN None ELSE cur[x]
          /\ cur[r] # None
      BY <1>7, <1>t DEF FinishPatch, Idle
    <2> QED
      BY <1>a, <2>1 DEF upTo
  <1>8. \A r, q \in Replica : ~joinReplica(r, q)
    BY <1>m DEF joinReplica
  <1>9. ASSUME NEW r \in Replica, restart(r) \/ discard(r)
        PROVE  \A x \in Replica : builder'[x] # None => basisBelow(builder'[x], log)
    <2>1. \A x \in Replica : builder'[x] = IF x = r THEN None ELSE builder[x]
      BY <1>9, <1>t DEF restart, discard, Build
    <2> QED
      BY <1>a, <2>1
  <1>10. ASSUME NEW r \in Replica, restart(r)
         PROVE  /\ \A x \in Replica : upTo(applied'[x], maxObserved'[x])
                /\ \A x \in Replica : cur'[x] # None => cur'[x].patch.lamport <= maxObserved'[x]
    <2>1. /\ \A x \in Replica : applied'[x] = IF x = r THEN {} ELSE applied[x]
          /\ \A x \in Replica : cur'[x] = IF x = r THEN None ELSE cur[x]
          /\ \A x \in Replica : maxObserved'[x] = IF x = r THEN 0 ELSE maxObserved[x]
      BY <1>10, <1>t DEF restart
    <2> QED
      BY <1>a, <2>1 DEF upTo
  <1>11. ASSUME NEW r \in Replica, createPatch(r) \/ BuildStep(r) \/ discard(r)
         PROVE  UNCHANGED <<log, hb, applied, cur, maxObserved>>
    BY <1>11 DEF createPatch, BuildStep, discard, Build
  <1>13. ASSUME NEW r \in Replica, ApplyOp(r)
         PROVE  UNCHANGED <<log, hb, applied, builder, maxObserved>>
    BY <1>13 DEF ApplyOp
  <1>14. ASSUME NEW r \in Replica, FinishPatch(r)
         PROVE  UNCHANGED <<log, hb, builder, maxObserved>>
    BY <1>14 DEF FinishPatch
  <1>15. ASSUME NEW r \in Replica, NEW p \in log, ReceiveStep(r, p)
         PROVE  UNCHANGED <<log, hb, applied, builder>>
    BY <1>15 DEF ReceiveStep
  <1>16. ASSUME NEW r \in Replica, restart(r)
         PROVE  UNCHANGED <<log, hb>>
    BY <1>16 DEF restart
  <1> QED
    <2>1. ASSUME NEW r \in Replica, createPatch(r) \/ BuildStep(r) \/ discard(r)
          PROVE  /\ \A x \in Replica : upTo(applied'[x], maxObserved'[x])
                 /\ \A x \in Replica : cur'[x] # None => cur'[x].patch.lamport <= maxObserved'[x]
                 /\ \A x \in Replica : builder'[x] # None => basisBelow(builder'[x], log')
                 /\ \A x, y \in log' : <<x.sha, y.sha>> \in hb' => x.lamport < y.lamport
      BY <1>2, <1>3, <1>9, <1>11, <1>a, <2>1
    <2>2. ASSUME NEW r \in Replica, (\E p \in log : ReceiveStep(r, p)) \/ ApplyOp(r) \/ FinishPatch(r) \/ restart(r)
          PROVE  /\ \A x \in Replica : upTo(applied'[x], maxObserved'[x])
                 /\ \A x \in Replica : cur'[x] # None => cur'[x].patch.lamport <= maxObserved'[x]
                 /\ \A x \in Replica : builder'[x] # None => basisBelow(builder'[x], log')
                 /\ \A x, y \in log' : <<x.sha, y.sha>> \in hb' => x.lamport < y.lamport
      BY <1>5, <1>6, <1>7, <1>9, <1>10, <1>13, <1>14, <1>15, <1>16, <1>a, <2>2
    <2> QED
      BY <1>1, <1>4, <1>8, <2>1, <2>2, StepKinds

\* A write wins against every write its author had seen by materialize(), for
\* any replicas and patches.
THEOREM CausalWritesAlwaysWin == Spec => []CausalWriteWins
  <1>1. Init => CausalInv
    BY DEF Init, CausalInv, upTo
  <1>2. CausalInv => CausalWriteWins
    BY DEF CausalInv, CausalWriteWins
  <1> QED
    BY <1>1, <1>2, CausalStep, ReplicationTypeCorrect, LogAlways, PTL DEF Spec

----------------------------------------------------------------------------
(* A removed node leaves no edge behind that the author knew.              *)

\* an operation of the sequence tombstones the edge dot d
tombstonesIn(ops, d) ==
    \E m \in 1..Len(ops) : ops[m].type = "EdgeRemove" /\ d \in ops[m].observedDots

\* a patch of the set L tombstones it
removedIn(L, d) == \E u \in L : tombstonesIn(u.ops, d)

\* the patch q adds an edge of the node n, with the dot d
addsEdgeOf(q, n, e, d) ==
    /\ n \in {e[1], e[2]}
    /\ \E j \in 1..Len(q.ops) : q.ops[j].type = "EdgeAdd" /\ q.ops[j].edge = e /\ q.ops[j].dot = d

\* an operation of the sequence removes the node n
removesNode(ops, n) == \E i \in 1..Len(ops) : ops[i].type = "NodeRemove" /\ ops[i].node = n

\* the state has the edge adds of the patches of L that b's author had applied,
\* and its edge tombstones come from patches of L
snapshotKnows(s, b, L) ==
    /\ \A q \in L : q.sha \in b.basis =>
          \A j \in 1..Len(q.ops) :
              q.ops[j].type = "EdgeAdd" => <<q.ops[j].edge, q.ops[j].dot>> \in s.edgeAlive.entries
    /\ \A d \in s.edgeAlive.tombstones : removedIn(L, d)

\* the known edges of the nodes that b removes are tombstoned
coversEdges(b, L) ==
    \A n, e, d : \A q \in L :
        q.sha \in b.basis /\ removesNode(b.ops, n) /\ addsEdgeOf(q, n, e, d)
            => removedIn(L, d) \/ tombstonesIn(b.ops, d)

CascadeInv ==
    onDeleteWithData = "cascade" =>
        /\ \A p, q \in log : \A n, e, d :
              <<q.sha, p.sha>> \in hb /\ removesNode(p.ops, n) /\ addsEdgeOf(q, n, e, d) => removedIn(log, d)
        /\ \A r \in Replica : builder[r] # None =>
              /\ builder[r].snapshot # None => snapshotKnows(builder[r].snapshot, builder[r], log)
              /\ coversEdges(builder[r], log)

\* What a replica's state knows while no loop runs.
LEMMA StateKnows ==
    ASSUME TypeOK, LogInv, StateReflectsPatches, AllIdle, NEW r \in Replica, builder[r] # None
    PROVE  snapshotKnows(state[r], builder[r], log)
  <1> DEFINE b == builder[r]
             O == doneOps(r)
             A == applied[r]
             s == state[r]
  <1>1. O = allOps(A) /\ O \in SUBSET OpDone
    BY DoneOpsType DEF doneOps, AllIdle, Idle, loopOps
  <1>2. /\ s.edgeAlive.entries = addedEdges(ofType(O, "EdgeAdd"))
        /\ s.edgeAlive.tombstones = removedDots(ofType(O, "EdgeRemove"))
    BY ReflectsParts DEF StateReflectsPatches
  <1>3. b.basis \in SUBSET shasOf(A) /\ A \in SUBSET log /\ A \in SUBSET Patch
    BY ReplicaTypes DEF LogInv
  <1> HIDE DEF b, O, A, s
  <1>4. ASSUME NEW q \in log, q.sha \in b.basis, NEW j \in 1..Len(q.ops), q.ops[j].type = "EdgeAdd"
        PROVE  <<q.ops[j].edge, q.ops[j].dot>> \in s.edgeAlive.entries
    <2>1. q \in A
      BY <1>3, <1>4 DEF shasOf, LogInv
    <2>2. q \in Patch /\ q.ops[j] \in RawOp /\ opAt(q, j).op = normalizeRawOp(q.ops[j])
      BY <1>3, <2>1, OpAtType
    <2>3. opAt(q, j).op = q.ops[j]
      BY <1>4, <2>2, NormalizedOp
    <2>4. opAt(q, j) \in O
      BY <1>1, <2>1 DEF allOps, firstOps
    <2>5. opAt(q, j) \in ofType(O, "EdgeAdd")
      BY <1>4, <2>3, <2>4 DEF ofType
    <2>6. <<opAt(q, j).op.edge, opAt(q, j).op.dot>> \in addedEdges(ofType(O, "EdgeAdd"))
      BY <2>5 DEF addedEdges
    <2> QED
      BY <1>2, <2>3, <2>6
  <1>5. ASSUME NEW d \in s.edgeAlive.tombstones
        PROVE  removedIn(log, d)
    <2>1. PICK o \in ofType(O, "EdgeRemove") : d \in o.op.observedDots
      BY <1>2 DEF removedDots
    <2>2. o \in allOps(A) /\ o.op.type = "EdgeRemove"
      BY <1>1 DEF ofType
    <2>3. PICK u \in A : o \in firstOps(u, Len(u.ops))
      BY <2>2 DEF allOps
    <2>4. PICK m \in 1..Len(u.ops) : o = opAt(u, m)
      BY <2>3 DEF firstOps
    <2>5. u \in Patch /\ u \in log /\ u.ops[m] \in RawOp /\ o.op = normalizeRawOp(u.ops[m])
      BY <1>3, <2>4, OpAtType
    <2>6. o.op = u.ops[m]
      BY <2>2, <2>5, NormalizedOp
    <2> QED
      BY <2>1, <2>2, <2>5, <2>6 DEF removedIn, tombstonesIn
  <1> QED
    BY <1>4, <1>5 DEF snapshotKnows, b, s

\* A method of the builder keeps the known edges of removed nodes tombstoned.
LEMMA BuiltCovers ==
    ASSUME onDeleteWithData = "cascade", NEW b \in Builder, NEW s \in State, NEW c, NEW L \in SUBSET Patch,
           builtFrom(b, s, c), coversEdges(b, L), snapshotKnows(s, b, L),
           b.snapshot # None => snapshotKnows(b.snapshot, b, L)
    PROVE  /\ c.snapshot # None => snapshotKnows(c.snapshot, c, L)
           /\ coversEdges(c, L)
  <1>1. /\ c \in Builder /\ Len(b.ops) \in Nat /\ Len(c.ops) \in Nat /\ Len(c.ops) >= Len(b.ops)
        /\ c.basis = b.basis
        /\ \A i \in 1..Len(b.ops) : c.ops[i] = b.ops[i]
    BY BuilderFields, LenProperties DEF builtFrom, extendsBuilder
  <1>2. 1..Len(b.ops) \in SUBSET (1..Len(c.ops))
    BY <1>1
  <1>3. c.snapshot # None => snapshotKnows(c.snapshot, b, L)
    BY DEF builtFrom, _getSnapshotState
  <1>4. c.snapshot # None => snapshotKnows(c.snapshot, c, L)
    BY <1>1, <1>3 DEF snapshotKnows
  <1>5. \A d : tombstonesIn(b.ops, d) => tombstonesIn(c.ops, d)
    BY <1>1, <1>2 DEF tombstonesIn
  <1>6. ASSUME NEW n, NEW e, NEW d, NEW q \in L, q.sha \in c.basis, removesNode(c.ops, n), addsEdgeOf(q, n, e, d)
        PROVE  removedIn(L, d) \/ tombstonesIn(c.ops, d)
    <2>1. PICK i \in 1..Len(c.ops) : c.ops[i].type = "NodeRemove" /\ c.ops[i].node = n
      BY <1>6 DEF removesNode
    <2>2. CASE i \in 1..Len(b.ops)
      <3>1. removesNode(b.ops, n)
        BY <1>1, <2>1, <2>2 DEF removesNode
      <3> QED
        BY <1>1, <1>5, <1>6, <3>1 DEF coversEdges
    <2>3. CASE i \notin 1..Len(b.ops)
      <3>1. i > Len(b.ops)
        BY <1>1, <2>3
      <3>2. c.snapshot # None /\ \A x \in attachedEdges(c.snapshot, n) : removesEdge(c, x)
        BY <2>1, <3>1 DEF builtFrom, cascades
      <3> DEFINE t == c.snapshot
      <3>3. <<e, d>> \in t.edgeAlive.entries
        BY <1>4, <1>6, <3>2 DEF snapshotKnows, addsEdgeOf
      <3>4. CASE d \in t.edgeAlive.tombstones
        BY <1>4, <3>2, <3>4 DEF snapshotKnows
      <3>5. CASE d \notin t.edgeAlive.tombstones
        <4>1. e \in orsetElements(t.edgeAlive) /\ d \in orsetGetDots(t.edgeAlive, e)
          <5> DEFINE x == <<e, d>>
          <5>1. x[1] = e /\ x[2] = d /\ x \in t.edgeAlive.entries
            BY <3>3
          <5> HIDE DEF x
          <5> QED
            BY <3>5, <5>1 DEF orsetElements, orsetGetDots
        <4>2. e \in attachedEdges(t, n)
          BY <1>6, <4>1 DEF attachedEdges, addsEdgeOf
        <4>3. PICK m \in 1..Len(c.ops) : /\ c.ops[m].type = "EdgeRemove"
                                         /\ c.ops[m].observedDots = orsetGetDots(t.edgeAlive, e)
          BY <3>2, <4>2 DEF removesEdge
        <4> QED
          BY <4>1, <4>3 DEF tombstonesIn
      <3> QED
        BY <3>4, <3>5
    <2> QED
      BY <2>2, <2>3
  <1> QED
    BY <1>4, <1>6 DEF coversEdges

\* More patches, of other ids than the known ones, change nothing for a builder.
LEMMA MorePatches ==
    ASSUME NEW b, NEW s, NEW L, NEW p, p.sha \notin b.basis
    PROVE  /\ \A d : removedIn(L, d) => removedIn(L \cup {p}, d)
           /\ snapshotKnows(s, b, L) => snapshotKnows(s, b, L \cup {p})
           /\ coversEdges(b, L) => coversEdges(b, L \cup {p})
  <1>1. \A d : removedIn(L, d) => removedIn(L \cup {p}, d)
    BY DEF removedIn
  <1>2. snapshotKnows(s, b, L) => snapshotKnows(s, b, L \cup {p})
    BY <1>1 DEF snapshotKnows
  <1>3. coversEdges(b, L) => coversEdges(b, L \cup {p})
    BY <1>1 DEF coversEdges
  <1> QED
    BY <1>1, <1>2, <1>3

\* The removes of a committed patch are its builder's.
LEMMA CommittedRemoves ==
    ASSUME TypeOK, NEW r \in Replica, NEW p, CommitStep(r, p)
    PROVE  /\ \A n : removesNode(p.ops, n) => removesNode(builder[r].ops, n)
           /\ \A d : tombstonesIn(builder[r].ops, d) => tombstonesIn(p.ops, d)
  <1>1. /\ Len(p.ops) = Len(builder[r].ops)
        /\ \A k \in 1..Len(p.ops) : p.ops[k] = lowerCanonicalOp(builder[r].ops[k])
    BY CommittedPatch
  <1>2. builder[r].ops \in Seq(CanonicalOp)
    BY ReplicaTypes, BuilderFields DEF CommitStep
  <1>3. ASSUME NEW i \in 1..Len(p.ops)
        PROVE  /\ builder[r].ops[i].type = "EdgeRemove" => p.ops[i] = builder[r].ops[i]
               /\ p.ops[i].type = "NodeRemove" => p.ops[i] = builder[r].ops[i]
    <2>1. builder[r].ops[i] \in CanonicalOp
      BY <1>1, <1>2, <1>3, ElementOfSeq
    <2>2. p.ops[i] = lowerCanonicalOp(builder[r].ops[i])
      BY <1>1, <1>3
    <2> QED
      BY <2>1, <2>2, LoweredOp
  <1> QED
    BY <1>1, <1>3 DEF removesNode, tombstonesIn

LEMMA CascadeStep ==
    TypeOK /\ LogInv /\ StateReflectsPatches /\ CascadeInv /\ [Next]_vars => CascadeInv'
  <1> DEFINE knownRemoved(L, h) ==
               \A p, q \in L : \A n, e, d :
                   <<q.sha, p.sha>> \in h /\ removesNode(p.ops, n) /\ addsEdgeOf(q, n, e, d) => removedIn(L, d)
             builderOK(b, L) ==
               /\ b.snapshot # None => snapshotKnows(b.snapshot, b, L)
               /\ coversEdges(b, L)
  <1> SUFFICES ASSUME TypeOK, LogInv, StateReflectsPatches, CascadeInv, [Next]_vars, onDeleteWithData = "cascade"
               PROVE  knownRemoved(log', hb') /\ \A x \in Replica : builder'[x] # None => builderOK(builder'[x], log')
    BY DEF CascadeInv, removedIn, tombstonesIn, snapshotKnows, coversEdges, removesNode, addsEdgeOf
  <1>a. knownRemoved(log, hb) /\ \A x \in Replica : builder[x] # None => builderOK(builder[x], log)
    BY DEF CascadeInv
  <1>t. builder \in [Replica -> Builder \cup {None}] /\ log \in SUBSET Patch
    BY DEF TypeOK
  <1> HIDE DEF knownRemoved
  <1>1. ASSUME UNCHANGED <<log, hb, builder>>
        PROVE  knownRemoved(log', hb') /\ \A x \in Replica : builder'[x] # None => builderOK(builder'[x], log')
    BY <1>1, <1>a
  <1>2. ASSUME NEW r \in Replica, createPatch(r)
        PROVE  knownRemoved(log', hb') /\ \A x \in Replica : builder'[x] # None => builderOK(builder'[x], log')
    <2> DEFINE b == newBuilder(r, _nextLamport(r), state[r].observedFrontier, shasOf(applied[r]))
    <2>1. builder' = [builder EXCEPT ![r] = b] /\ UNCHANGED <<log, hb>>
      BY <1>2 DEF createPatch
    <2>2. b.snapshot = None /\ b.ops = << >>
      BY DEF newBuilder
    <2> HIDE DEF b
    <2>3. \A n : ~removesNode(b.ops, n)
      BY <2>2 DEF removesNode
    <2>4. builderOK(b, log)
      BY <2>2, <2>3 DEF coversEdges
    <2>5. \A x \in Replica : builder'[x] = IF x = r THEN b ELSE builder[x]
      BY <1>t, <2>1
    <2> HIDE DEF builderOK
    <2> QED
      BY <1>a, <2>1, <2>4, <2>5
  <1>3. ASSUME NEW r \in Replica, BuildStep(r)
        PROVE  knownRemoved(log', hb') /\ \A x \in Replica : builder'[x] # None => builderOK(builder'[x], log')
    <2>1. PICK c : builtFrom(builder[r], state[r], c) /\ Build(r, c)
      BY <1>3 DEF BuildStep
    <2>2. builder[r] # None /\ builder[r] \in Builder /\ state[r] \in State /\ AllIdle
      BY <1>3, ReplicaTypes DEF BuildStep
    <2>3. snapshotKnows(state[r], builder[r], log)
      BY <2>2, StateKnows
    <2>4. builderOK(c, log)
      BY <1>a, <1>t, <2>1, <2>2, <2>3, BuiltCovers
    <2>5. UNCHANGED <<log, hb>> /\ \A x \in Replica : builder'[x] = IF x = r THEN c ELSE builder[x]
      BY <1>t, <2>1 DEF Build
    <2> HIDE DEF builderOK
    <2> QED
      BY <1>a, <2>4, <2>5
  <1>4. ASSUME NEW r \in Replica, NEW p, CommitStep(r, p)
        PROVE  knownRemoved(log', hb') /\ \A x \in Replica : builder'[x] # None => builderOK(builder'[x], log')
    <2>2. /\ p.sha \notin shasOf(log) /\ log' = log \cup {p} /\ hb' = hb \cup (builder[r].basis \X {p.sha})
          /\ builder[r] # None
          /\ \A x \in Replica : builder'[x] = IF x = r THEN None ELSE builder[x]
      BY <1>4, <1>t DEF CommitStep
    <2>3. \A x \in Replica : builder[x] # None =>
             builder[x].basis \in SUBSET shasOf(log) /\ p.sha \notin builder[x].basis
      BY <2>2, MoreShas DEF LogInv
    <2>4. ASSUME NEW x \in Replica, builder'[x] # None
          PROVE  builderOK(builder'[x], log')
      <3>1. builder'[x] = builder[x] /\ builder[x] # None /\ p.sha \notin builder[x].basis
        BY <2>2, <2>3, <2>4
      <3> QED
        BY <1>a, <2>2, <3>1, MorePatches
    <2>5. \A d : removedIn(log, d) => removedIn(log', d)
      BY <2>2 DEF removedIn
    <2>6. \A d : tombstonesIn(builder[r].ops, d) => removedIn(log', d)
      BY <1>4, <2>2, CommittedRemoves DEF removedIn
    <2>7. ASSUME NEW y \in log', NEW q \in log', NEW n, NEW e, NEW d,
                 <<q.sha, y.sha>> \in hb', removesNode(y.ops, n), addsEdgeOf(q, n, e, d)
          PROVE  removedIn(log', d)
      <3>1. \A u \in log : u.sha # p.sha
        BY <2>2 DEF shasOf
      <3>2. CASE <<q.sha, y.sha>> \in hb
        <4>1. q.sha \in shasOf(log) /\ y.sha \in shasOf(log)
          BY <3>2 DEF LogInv
        <4>2. q \in log /\ y \in log
          BY <2>2, <4>1
        <4> QED
          BY <1>a, <2>5, <2>7, <3>2, <4>2 DEF knownRemoved
      <3>3. CASE q.sha \in builder[r].basis /\ y.sha = p.sha
        <4>1. q.sha \in shasOf(log)
          BY <2>2, <2>3, <3>3
        <4>2. q \in log /\ y = p
          BY <2>2, <3>1, <3>3, <4>1
        <4>3. removesNode(builder[r].ops, n)
          BY <1>4, <2>7, <4>2, CommittedRemoves
        <4>4. coversEdges(builder[r], log)
          BY <1>a, <2>2
        <4>5. removedIn(log, d) \/ tombstonesIn(builder[r].ops, d)
          BY <2>7, <3>3, <4>2, <4>3, <4>4 DEF coversEdges
        <4> QED
          BY <2>5, <2>6, <4>5
      <3> QED
        BY <2>2, <2>7, <3>2, <3>3
    <2>8. knownRemoved(log', hb')
      BY <2>7 DEF knownRemoved
    <2> QED
      BY <2>4, <2>8
  <1>5. ASSUME NEW r \in Replica, discard(r) \/ restart(r)
        PROVE  knownRemoved(log', hb') /\ \A x \in Replica : builder'[x] # None => builderOK(builder'[x], log')
    <2>1. UNCHANGED <<log, hb>> /\ \A x \in Replica : builder'[x] = IF x = r THEN None ELSE builder[x]
      BY <1>5, <1>t DEF discard, restart, Build
    <2> HIDE DEF builderOK
    <2> QED
      BY <1>a, <2>1
  <1>6. ASSUME NEW r \in Replica,
               \/ \E p \in log : ReceiveStep(r, p)
               \/ ApplyOp(r)
               \/ FinishPatch(r)
               \/ \E q \in Replica : joinReplica(r, q)
        PROVE  UNCHANGED <<log, hb, builder>>
    BY <1>6 DEF ReceiveStep, ApplyOp, FinishPatch, joinReplica
  <1>7. CASE UNCHANGED vars
    BY <1>1, <1>7 DEF vars
  <1> HIDE DEF builderOK
  <1> QED
    BY <1>1, <1>2, <1>3, <1>4, <1>5, <1>6, <1>7, StepKinds

LEMMA CascadeHolds == CascadeInv => CascadeRemovesKnownEdges
  <1> SUFFICES ASSUME CascadeInv, onDeleteWithData = "cascade", NEW p \in log, NEW q \in log,
                      <<q.sha, p.sha>> \in hb, NEW i \in 1..Len(p.ops), NEW j \in 1..Len(q.ops),
                      p.ops[i].type = "NodeRemove", q.ops[j].type = "EdgeAdd",
                      p.ops[i].node \in {q.ops[j].edge[1], q.ops[j].edge[2]}
               PROVE  \E u \in log : \E m \in 1..Len(u.ops) :
                          u.ops[m].type = "EdgeRemove" /\ q.ops[j].dot \in u.ops[m].observedDots
    BY DEF CascadeRemovesKnownEdges
  <1>1. removesNode(p.ops, p.ops[i].node)
    BY DEF removesNode
  <1>2. addsEdgeOf(q, p.ops[i].node, q.ops[j].edge, q.ops[j].dot)
    BY DEF addsEdgeOf
  <1>3. removedIn(log, q.ops[j].dot)
    BY <1>1, <1>2 DEF CascadeInv
  <1> QED
    BY <1>3 DEF removedIn, tombstonesIn

\* Under the cascade policy every edge of a removed node that the author had
\* applied is tombstoned, for any graph and any replicas.
THEOREM CascadeAlwaysRemoves == Spec => []CascadeRemovesKnownEdges
  <1>1. Init => CascadeInv
    BY DEF Init, CascadeInv
  <1> QED
    BY <1>1, CascadeStep, CascadeHolds, ReplicationTypeCorrect, LogAlways, StateAlwaysReflects, PTL DEF Spec

----------------------------------------------------------------------------
(* What a step may never do.                                               *)

LEMMA NotOlderItself == \A x \in EventId \cup {None} : notOlder(x, x)
  BY EventOrder DEF notOlder

\* Registers and births of a state.
LEMMA StateEvents ==
    ASSUME NEW s \in State
    PROVE  /\ \A k \in PropKey : s.prop[k] \in Register \cup {None}
           /\ \A k \in PropKey : eventIdOf(s.prop[k]) \in EventId \cup {None}
           /\ \A e \in Edge : s.edgeBirthEvent[e] \in EventId \cup {None}
           /\ \A w \in Writer : s.observedFrontier[w] \in Nat
  <1>1. /\ s.prop \in [PropKey -> Register \cup {None}] /\ s.edgeBirthEvent \in [Edge -> EventId \cup {None}]
        /\ s.observedFrontier \in VersionVector
    BY StateParts
  <1>2. \A x \in Register : x.eventId \in EventId
    BY DEF Register
  <1> QED
    BY <1>1, <1>2 DEF eventIdOf, VersionVector

\* Applying an operation moves a state up.
LEMMA AfterGrows ==
    ASSUME NEW s \in State, NEW op \in CanonicalOp, NEW id \in EventId
    PROVE  below(s, after(s, op, id))
  <1> DEFINE t == after(s, op, id)
  <1>1. /\ t.nodeAlive.entries = nodeEntriesAfter(s, op)
        /\ t.nodeAlive.tombstones = nodeTombstonesAfter(s, op)
        /\ t.edgeAlive.entries = edgeEntriesAfter(s, op)
        /\ t.edgeAlive.tombstones = edgeTombstonesAfter(s, op)
        /\ t.prop = propAfter(s, op, id)
        /\ t.edgeBirthEvent = birthAfter(s, op, id)
        /\ t.observedFrontier = s.observedFrontier
    BY DEF after
  <1> HIDE DEF t
  <1>2. /\ s.nodeAlive.entries \subseteq t.nodeAlive.entries
        /\ s.nodeAlive.tombstones \subseteq t.nodeAlive.tombstones
        /\ s.edgeAlive.entries \subseteq t.edgeAlive.entries
        /\ s.edgeAlive.tombstones \subseteq t.edgeAlive.tombstones
    BY <1>1 DEF nodeEntriesAfter, nodeTombstonesAfter, edgeEntriesAfter, edgeTombstonesAfter
  <1>3. ASSUME NEW k \in PropKey
        PROVE  notOlder(eventIdOf(s.prop[k]), eventIdOf(t.prop[k]))
    <2>1. s.prop[k] \in Register \cup {None} /\ eventIdOf(s.prop[k]) \in EventId \cup {None}
      BY StateEvents
    <2>2. CASE writesKey(op, k)
      <3>1. lwwSet(id, op.value) \in Register
        BY <2>2, OpsByType DEF writesKey, NodePropSetOp, EdgePropSetOp, lwwSet, Register
      <3>2. t.prop[k] = lwwMax(s.prop[k], lwwSet(id, op.value))
        BY <1>1, <2>2 DEF propAfter
      <3> QED
        BY <2>1, <3>1, <3>2, LwwMax
    <2>3. CASE ~writesKey(op, k)
      <3>1. t.prop[k] = s.prop[k]
        BY <1>1, <2>3 DEF propAfter
      <3> QED
        BY <2>1, <3>1, NotOlderItself
    <2> QED
      BY <2>2, <2>3
  <1>4. ASSUME NEW e \in Edge
        PROVE  notOlder(s.edgeBirthEvent[e], t.edgeBirthEvent[e])
    <2>1. s.edgeBirthEvent[e] \in EventId \cup {None}
      BY StateEvents
    <2>2. t.edgeBirthEvent[e] = s.edgeBirthEvent[e] \/ t.edgeBirthEvent[e] = eventMax(s.edgeBirthEvent[e], id)
      BY <1>1 DEF birthAfter
    <2> QED
      BY <2>1, <2>2, EventMax, NotOlderItself
  <1>5. vvDescends(t.observedFrontier, s.observedFrontier)
    BY <1>1, StateEvents DEF vvDescends
  <1>6. below(s, t)
    BY <1>2, <1>3, <1>4, <1>5 DEF below
  <1> QED
    BY <1>6 DEF t

\* So does the end of a patch.
LEMMA FrontierGrows ==
    ASSUME NEW s \in State, NEW p \in Patch
    PROVE  below(s, updateFrontierFromPatch(s, p))
  <1> DEFINE t == updateFrontierFromPatch(s, p)
  <1>1. /\ t.nodeAlive = s.nodeAlive /\ t.edgeAlive = s.edgeAlive
        /\ t.prop = s.prop /\ t.edgeBirthEvent = s.edgeBirthEvent
        /\ \A w \in Writer :
             t.observedFrontier[w] =
               IF w = p.writer THEN maxOf(maxOf(s.observedFrontier[w], p.context[w]), p.lamport)
               ELSE maxOf(s.observedFrontier[w], p.context[w])
    BY FrontierUpdate
  <1> HIDE DEF t
  <1>2. p.lamport \in Nat /\ \A w \in Writer : p.context[w] \in Nat
    BY DEF Patch, VersionVector
  <1>3. vvDescends(t.observedFrontier, s.observedFrontier)
    <2>1. ASSUME NEW w \in Writer
          PROVE  t.observedFrontier[w] >= s.observedFrontier[w]
      <3>1. s.observedFrontier[w] \in Nat
        BY StateEvents
      <3>2. p.lamport \in Nat /\ p.context[w] \in Nat
        BY <1>2
      <3> DEFINE a == s.observedFrontier[w]
                 b == p.context[w]
                 c == p.lamport
      <3>3. t.observedFrontier[w] = maxOf(maxOf(a, b), c) \/ t.observedFrontier[w] = maxOf(a, b)
        BY <1>1
      <3>4. a \in Nat /\ b \in Nat /\ c \in Nat
        BY <3>1, <3>2
      <3> HIDE DEF a, b, c
      <3>5. t.observedFrontier[w] >= a
        BY <3>3, <3>4 DEF maxOf
      <3> QED
        BY <3>5 DEF a
    <2> QED
      BY <2>1 DEF vvDescends
  <1>4. /\ \A k \in PropKey : notOlder(eventIdOf(s.prop[k]), eventIdOf(t.prop[k]))
        /\ \A e \in Edge : notOlder(s.edgeBirthEvent[e], t.edgeBirthEvent[e])
    <2>1. /\ \A k \in PropKey : eventIdOf(s.prop[k]) \in EventId \cup {None}
          /\ \A e \in Edge : s.edgeBirthEvent[e] \in EventId \cup {None}
          /\ t.prop = s.prop /\ t.edgeBirthEvent = s.edgeBirthEvent
      BY <1>1, StateEvents
    <2> QED
      BY <2>1, NotOlderItself
  <1>5. below(s, t)
    BY <1>1, <1>3, <1>4 DEF below
  <1> QED
    BY <1>5 DEF t

\* So does a join.
LEMMA JoinGrows ==
    ASSUME NEW s \in State, NEW o \in State
    PROVE  below(s, joinStates(s, o))
  <1> DEFINE t == joinStates(s, o)
  <1>1. /\ t.nodeAlive.entries = s.nodeAlive.entries \cup o.nodeAlive.entries
        /\ t.nodeAlive.tombstones = s.nodeAlive.tombstones \cup o.nodeAlive.tombstones
        /\ t.edgeAlive.entries = s.edgeAlive.entries \cup o.edgeAlive.entries
        /\ t.edgeAlive.tombstones = s.edgeAlive.tombstones \cup o.edgeAlive.tombstones
        /\ \A k \in PropKey : t.prop[k] = lwwMax(s.prop[k], o.prop[k])
        /\ \A e \in Edge : t.edgeBirthEvent[e] = eventMax(s.edgeBirthEvent[e], o.edgeBirthEvent[e])
        /\ \A w \in Writer : t.observedFrontier[w] = maxOf(s.observedFrontier[w], o.observedFrontier[w])
    BY DEF joinStates, orsetJoin, mergeProps, mergeEdgeBirthEvent, vvMerge
  <1> HIDE DEF t
  <1>2. /\ s.nodeAlive.entries \subseteq t.nodeAlive.entries
        /\ s.nodeAlive.tombstones \subseteq t.nodeAlive.tombstones
        /\ s.edgeAlive.entries \subseteq t.edgeAlive.entries
        /\ s.edgeAlive.tombstones \subseteq t.edgeAlive.tombstones
    BY <1>1
  <1>3. ASSUME NEW k \in PropKey
        PROVE  notOlder(eventIdOf(s.prop[k]), eventIdOf(t.prop[k]))
    <2>1. s.prop[k] \in Register \cup {None} /\ o.prop[k] \in Register \cup {None}
      BY StateEvents
    <2>2. notOlder(eventIdOf(s.prop[k]), eventIdOf(lwwMax(s.prop[k], o.prop[k])))
      BY <2>1, LwwMax
    <2> QED
      BY <1>1, <2>2
  <1>4. ASSUME NEW e \in Edge
        PROVE  notOlder(s.edgeBirthEvent[e], t.edgeBirthEvent[e])
    <2>1. s.edgeBirthEvent[e] \in EventId \cup {None} /\ o.edgeBirthEvent[e] \in EventId \cup {None}
      BY StateEvents
    <2>2. notOlder(s.edgeBirthEvent[e], eventMax(s.edgeBirthEvent[e], o.edgeBirthEvent[e]))
      BY <2>1, EventMax
    <2> QED
      BY <1>1, <2>2
  <1>5. vvDescends(t.observedFrontier, s.observedFrontier)
    <2>1. ASSUME NEW w \in Writer
          PROVE  t.observedFrontier[w] >= s.observedFrontier[w]
      <3> DEFINE a == s.observedFrontier[w]
                 b == o.observedFrontier[w]
      <3>1. a \in Nat /\ b \in Nat
        BY StateEvents
      <3>2. t.observedFrontier[w] = maxOf(a, b)
        BY <1>1
      <3> HIDE DEF a, b
      <3>3. t.observedFrontier[w] >= a
        BY <3>1, <3>2 DEF maxOf
      <3> QED
        BY <3>3 DEF a
    <2> QED
      BY <2>1 DEF vvDescends
  <1>6. below(s, t)
    BY <1>2, <1>3, <1>4, <1>5 DEF below
  <1> QED
    BY <1>6 DEF t

LEMMA GrowStep ==
    ASSUME TypeOK, [Next]_vars, NEW x \in Replica, state'[x] # state[x], applied[x] \subseteq applied'[x]
    PROVE  below(state[x], state'[x])
  <1>t. state \in [Replica -> State] /\ applied \in [Replica -> SUBSET Patch]
    BY DEF TypeOK
  <1>1. ASSUME state' = state
        PROVE  FALSE
    BY <1>1
  <1>2. ASSUME NEW r \in Replica, ApplyOp(r)
        PROVE  below(state[x], state'[x])
    <2> DEFINE op == normalizeRawOp(cur[r].patch.ops[cur[r].next])
               id == eventOf(cur[r].patch, cur[r].next)
    <2>1. op \in CanonicalOp /\ id \in EventId /\ state' = [state EXCEPT ![r] = after(state[r], op, id)]
      BY <1>2, AppliedNext
    <2> HIDE DEF op, id
    <2>2. x = r /\ state'[x] = after(state[x], op, id) /\ state[x] \in State
      BY <1>t, <2>1
    <2> QED
      BY <2>1, <2>2, AfterGrows
  <1>3. ASSUME NEW r \in Replica, FinishPatch(r)
        PROVE  below(state[x], state'[x])
    <2>1. /\ state' = [state EXCEPT ![r] = updateFrontierFromPatch(@, cur[r].patch)]
          /\ cur[r].patch \in Patch
      BY <1>3, ReplicaTypes DEF FinishPatch, Idle
    <2>2. x = r /\ state'[x] = updateFrontierFromPatch(state[x], cur[r].patch) /\ state[x] \in State
      BY <1>t, <2>1
    <2> QED
      BY <2>1, <2>2, FrontierGrows
  <1>4. ASSUME NEW r \in Replica, NEW q \in Replica, joinReplica(r, q)
        PROVE  below(state[x], state'[x])
    <2>1. state' = [state EXCEPT ![r] = joinStates(@, state[q])]
      BY <1>4 DEF joinReplica
    <2>2. x = r /\ state'[x] = joinStates(state[x], state[q]) /\ state[x] \in State /\ state[q] \in State
      BY <1>t, <2>1
    <2> QED
      BY <2>2, JoinGrows
  <1>5. ASSUME NEW r \in Replica, restart(r)
        PROVE  FALSE
    <2>1. /\ state' = [state EXCEPT ![r] = createEmptyStateV5]
          /\ applied' = [applied EXCEPT ![r] = {}] /\ applied[r] # {}
      BY <1>5 DEF restart
    <2>2. x = r /\ applied'[x] = {} /\ applied[x] # {}
      BY <1>t, <2>1
    <2> QED
      BY <2>2
  <1>6. ASSUME NEW r \in Replica,
               createPatch(r) \/ BuildStep(r) \/ (\E p : CommitStep(r, p)) \/ discard(r)
                 \/ (\E p \in log : ReceiveStep(r, p))
        PROVE  state' = state
    BY <1>6 DEF createPatch, BuildStep, CommitStep, discard, ReceiveStep, Build
  <1>7. CASE UNCHANGED vars
    BY <1>1, <1>7 DEF vars
  <1> QED
    BY <1>1, <1>2, <1>3, <1>4, <1>5, <1>6, <1>7, StepKinds

\* No step but a restart takes anything from a replica's state, for any
\* replicas, patches and operations.
THEOREM StatesAlwaysGrow == Spec => StatesOnlyGrow
  <1>1. TypeOK /\ [Next]_vars =>
          [\A r \in Replica : state'[r] # state[r] /\ applied[r] \subseteq applied'[r]
              => below(state[r], state'[r])]_vars
    BY GrowStep
  <1> QED
    BY <1>1, ReplicationTypeCorrect, PTL DEF Spec, StatesOnlyGrow

----------------------------------------------------------------------------
(* Receipts.                                                               *)

\* Two sets with the same entries have the same elements, when the dots that
\* only one of them tombstones are of no entry.
LEMMA SameElements ==
    ASSUME NEW a, NEW b, NEW dots,
           b.entries = a.entries, b.tombstones = a.tombstones \cup dots,
           \A p \in a.entries : p[2] \in dots => p[2] \in a.tombstones
    PROVE  orsetElements(b) = orsetElements(a)
  <1>1. ASSUME NEW p \in a.entries
        PROVE  p[2] \notin b.tombstones <=> p[2] \notin a.tombstones
    OBVIOUS
  <1>2. {q \in b.entries : q[2] \notin b.tombstones} = {q \in a.entries : q[2] \notin a.tombstones}
    BY <1>1
  <1> QED
    BY <1>2, Zenon DEF orsetElements

\* A write that does not beat the register leaves it, and one that does
\* replaces it.
LEMMA RegisterOutcome ==
    ASSUME NEW s \in State, NEW k \in PropKey, NEW id \in EventId, NEW value \in Value
    PROVE  IF propOutcomeForKey(s.prop, k, id) = "applied"
           THEN lwwMax(s.prop[k], lwwSet(id, value)) = lwwSet(id, value)
           ELSE lwwMax(s.prop[k], lwwSet(id, value)) = s.prop[k]
  <1> DEFINE old == s.prop[k]
             new == lwwSet(id, value)
  <1>1. new # None /\ new.eventId = id
    BY NoneIsNoRegister DEF lwwSet, Register
  <1>a. ASSUME old # None, isGreater(id, old.eventId)
        PROVE  ~isGreater(old.eventId, id)
    <2>1. old \in Register
      BY <1>a, StateEvents
    <2>2. old.eventId \in EventId
      BY <2>1 DEF Register
    <2> HIDE DEF old
    <2> QED
      BY <1>a, <2>2, EventOrder
  <1>2. propOutcomeForKey(s.prop, k, id) = "applied" <=> old = None \/ isGreater(id, old.eventId)
    BY <1>a DEF propOutcomeForKey
  <1> HIDE DEF old, new
  <1>3. lwwMax(old, new) = IF old = None \/ isGreater(id, old.eventId) THEN new ELSE old
    BY <1>1 DEF lwwMax
  <1> QED
    BY <1>2, <1>3 DEF old, new

\* What the receipt of an operation says of the state after it.
honest(s, t, op, id) ==
    /\ opOutcome(s, op, id) # "applied" => content(t) = content(s)
    /\ opOutcome(s, op, id) = "applied" /\ op.type = "NodePropSet" =>
          t.prop[<<op.node, op.key>>] = lwwSet(id, op.value)
    /\ opOutcome(s, op, id) = "applied" /\ op.type = "EdgePropSet" =>
          t.prop[<<op.edge, op.key>>] = lwwSet(id, op.value)

\* The state after an operation, part by part.
LEMMA AfterParts ==
    ASSUME NEW s \in State, NEW op \in CanonicalOp, NEW id \in EventId
    PROVE  LET t == after(s, op, id)
           IN  /\ t.nodeAlive.entries = nodeEntriesAfter(s, op)
               /\ t.nodeAlive.tombstones = nodeTombstonesAfter(s, op)
               /\ t.edgeAlive.entries = edgeEntriesAfter(s, op)
               /\ t.edgeAlive.tombstones = edgeTombstonesAfter(s, op)
               /\ t.prop = propAfter(s, op, id)
               /\ op.type \notin {"NodeAdd", "NodeRemove"} =>
                    orsetElements(t.nodeAlive) = orsetElements(s.nodeAlive)
               /\ op.type \notin {"EdgeAdd", "EdgeRemove"} =>
                    orsetElements(t.edgeAlive) = orsetElements(s.edgeAlive)
               /\ op.type \notin {"NodePropSet", "EdgePropSet"} => t.prop = s.prop
  <1> DEFINE t == after(s, op, id)
  <1>1. /\ t.nodeAlive.entries = nodeEntriesAfter(s, op)
        /\ t.nodeAlive.tombstones = nodeTombstonesAfter(s, op)
        /\ t.edgeAlive.entries = edgeEntriesAfter(s, op)
        /\ t.edgeAlive.tombstones = edgeTombstonesAfter(s, op)
        /\ t.prop = propAfter(s, op, id)
    BY DEF after
  <1> HIDE DEF t
  <1>2. ASSUME op.type \notin {"NodeAdd", "NodeRemove"}
        PROVE  orsetElements(t.nodeAlive) = orsetElements(s.nodeAlive)
    <2>1. t.nodeAlive.entries = s.nodeAlive.entries /\ t.nodeAlive.tombstones = s.nodeAlive.tombstones \cup {}
      BY <1>1, <1>2 DEF nodeEntriesAfter, nodeTombstonesAfter
    <2> QED
      BY <2>1, SameElements
  <1>3. ASSUME op.type \notin {"EdgeAdd", "EdgeRemove"}
        PROVE  orsetElements(t.edgeAlive) = orsetElements(s.edgeAlive)
    <2>1. t.edgeAlive.entries = s.edgeAlive.entries /\ t.edgeAlive.tombstones = s.edgeAlive.tombstones \cup {}
      BY <1>1, <1>3 DEF edgeEntriesAfter, edgeTombstonesAfter
    <2> QED
      BY <2>1, SameElements
  <1>4. ASSUME op.type \notin {"NodePropSet", "EdgePropSet"}
        PROVE  t.prop = s.prop
    <2>1. \A k \in PropKey : ~writesKey(op, k)
      BY <1>4 DEF writesKey
    <2>2. s.prop \in [PropKey -> Register \cup {None}]
      BY StateParts
    <2>3. propAfter(s, op, id) = s.prop
      BY <2>1, <2>2 DEF propAfter
    <2> QED
      BY <1>1, <2>3
  <1> QED
    BY <1>1, <1>2, <1>3, <1>4 DEF t

\* An add or a remove that is reported redundant changes no element.
LEMMA RedundantElements ==
    ASSUME NEW s \in State, NEW op \in CanonicalOp, NEW id \in EventId,
           opOutcome(s, op, id) # "applied",
           op.type \in {"NodeAdd", "NodeRemove", "EdgeAdd", "EdgeRemove"}
    PROVE  LET t == after(s, op, id)
           IN  /\ orsetElements(t.nodeAlive) = orsetElements(s.nodeAlive)
               /\ orsetElements(t.edgeAlive) = orsetElements(s.edgeAlive)
               /\ t.prop = s.prop
  <1> DEFINE t == after(s, op, id)
  <1>p. /\ t.nodeAlive.entries = nodeEntriesAfter(s, op)
        /\ t.nodeAlive.tombstones = nodeTombstonesAfter(s, op)
        /\ t.edgeAlive.entries = edgeEntriesAfter(s, op)
        /\ t.edgeAlive.tombstones = edgeTombstonesAfter(s, op)
        /\ op.type \notin {"NodeAdd", "NodeRemove"} =>
             orsetElements(t.nodeAlive) = orsetElements(s.nodeAlive)
        /\ op.type \notin {"EdgeAdd", "EdgeRemove"} =>
             orsetElements(t.edgeAlive) = orsetElements(s.edgeAlive)
        /\ op.type \notin {"NodePropSet", "EdgePropSet"} => t.prop = s.prop
    BY AfterParts
  <1> HIDE DEF t
  <1>1. CASE op.type = "NodeAdd"
    <2>1. <<op.node, op.dot>> \in s.nodeAlive.entries
      BY <1>1 DEF opOutcome, addOutcome
    <2>2. t.nodeAlive.entries = s.nodeAlive.entries /\ t.nodeAlive.tombstones = s.nodeAlive.tombstones \cup {}
      BY <1>p, <1>1, <2>1 DEF nodeEntriesAfter, nodeTombstonesAfter
    <2>3. orsetElements(t.nodeAlive) = orsetElements(s.nodeAlive)
      BY <2>2, SameElements
    <2> QED
      BY <1>p, <1>1, <2>3 DEF t
  <1>2. CASE op.type = "NodeRemove"
    <2>1. \A p \in s.nodeAlive.entries : p[2] \in op.observedDots => p[2] \in s.nodeAlive.tombstones
      BY <1>2 DEF opOutcome, removeOutcome
    <2>2. /\ t.nodeAlive.entries = s.nodeAlive.entries
          /\ t.nodeAlive.tombstones = s.nodeAlive.tombstones \cup op.observedDots
      BY <1>p, <1>2 DEF nodeEntriesAfter, nodeTombstonesAfter
    <2>3. orsetElements(t.nodeAlive) = orsetElements(s.nodeAlive)
      BY <2>1, <2>2, SameElements
    <2> QED
      BY <1>p, <1>2, <2>3 DEF t
  <1>3. CASE op.type = "EdgeAdd"
    <2>1. <<op.edge, op.dot>> \in s.edgeAlive.entries
      BY <1>3 DEF opOutcome, addOutcome
    <2>2. t.edgeAlive.entries = s.edgeAlive.entries /\ t.edgeAlive.tombstones = s.edgeAlive.tombstones \cup {}
      BY <1>p, <1>3, <2>1 DEF edgeEntriesAfter, edgeTombstonesAfter
    <2>3. orsetElements(t.edgeAlive) = orsetElements(s.edgeAlive)
      BY <2>2, SameElements
    <2> QED
      BY <1>p, <1>3, <2>3 DEF t
  <1>4. CASE op.type = "EdgeRemove"
    <2>1. \A p \in s.edgeAlive.entries : p[2] \in op.observedDots => p[2] \in s.edgeAlive.tombstones
      BY <1>4 DEF opOutcome, removeOutcome
    <2>2. /\ t.edgeAlive.entries = s.edgeAlive.entries
          /\ t.edgeAlive.tombstones = s.edgeAlive.tombstones \cup op.observedDots
      BY <1>p, <1>4 DEF edgeEntriesAfter, edgeTombstonesAfter
    <2>3. orsetElements(t.edgeAlive) = orsetElements(s.edgeAlive)
      BY <2>1, <2>2, SameElements
    <2> QED
      BY <1>p, <1>4, <2>3 DEF t
  <1> QED
    BY <1>1, <1>2, <1>3, <1>4

\* A property write reported applied is the register; one reported superseded
\* or redundant leaves every register.
LEMMA WriteOutcome ==
    ASSUME NEW s \in State, NEW op \in CanonicalOp, NEW id \in EventId, NEW k \in PropKey,
           op.type \in {"NodePropSet", "EdgePropSet"}, writesKey(op, k)
    PROVE  IF opOutcome(s, op, id) = "applied"
           THEN propAfter(s, op, id)[k] = lwwSet(id, op.value)
           ELSE propAfter(s, op, id) = s.prop
  <1>1. op.value \in Value
    BY OpsByType DEF NodePropSetOp, EdgePropSetOp
  <1>2. \A x \in PropKey : writesKey(op, x) <=> x = k
    BY DEF writesKey
  <1>3. opOutcome(s, op, id) = propOutcomeForKey(s.prop, k, id)
    BY DEF opOutcome, writesKey
  <1>4. IF opOutcome(s, op, id) = "applied"
        THEN lwwMax(s.prop[k], lwwSet(id, op.value)) = lwwSet(id, op.value)
        ELSE lwwMax(s.prop[k], lwwSet(id, op.value)) = s.prop[k]
    BY <1>1, <1>3, RegisterOutcome
  <1>5. s.prop \in [PropKey -> Register \cup {None}]
    BY StateParts
  <1>6. propAfter(s, op, id)[k] = lwwMax(s.prop[k], lwwSet(id, op.value))
    BY DEF propAfter
  <1>7. ASSUME opOutcome(s, op, id) # "applied"
        PROVE  propAfter(s, op, id) = s.prop
    <2>1. \A x \in PropKey :
             (IF writesKey(op, x) THEN lwwMax(s.prop[x], lwwSet(id, op.value)) ELSE s.prop[x]) = s.prop[x]
      BY <1>2, <1>4, <1>7
    <2> QED
      BY <1>5, <2>1 DEF propAfter
  <1> QED
    BY <1>4, <1>6, <1>7

LEMMA OutcomeHonest ==
    ASSUME NEW s \in State, NEW op \in CanonicalOp, NEW id \in EventId
    PROVE  honest(s, after(s, op, id), op, id)
  <1> DEFINE t == after(s, op, id)
             outcome == opOutcome(s, op, id)
  <1>1. CASE op.type \in {"NodeAdd", "NodeRemove", "EdgeAdd", "EdgeRemove"}
    <2>1. ASSUME outcome # "applied"
          PROVE  content(t) = content(s)
      <3>1. /\ orsetElements(t.nodeAlive) = orsetElements(s.nodeAlive)
            /\ orsetElements(t.edgeAlive) = orsetElements(s.edgeAlive)
            /\ t.prop = s.prop
        BY <1>1, <2>1, RedundantElements
      <3> HIDE DEF t
      <3> QED
        BY <3>1, Zenon DEF content
    <2> HIDE DEF t
    <2>2. honest(s, t, op, id)
      BY <1>1, <2>1 DEF honest
    <2> QED
      BY <2>2 DEF t
  <1>2. CASE op.type \in {"NodePropSet", "EdgePropSet"}
    <2>1. PICK k \in PropKey : /\ writesKey(op, k)
                               /\ op.type = "NodePropSet" => k = <<op.node, op.key>>
                               /\ op.type = "EdgePropSet" => k = <<op.edge, op.key>>
      <3>1. CASE op.type = "NodePropSet"
        <4>1. <<op.node, op.key>> \in PropKey
          BY <3>1, OpsByType DEF NodePropSetOp, PropKey
        <4> QED
          BY <3>1, <4>1 DEF writesKey
      <3>2. CASE op.type = "EdgePropSet"
        <4>1. <<op.edge, op.key>> \in PropKey
          BY <3>2, OpsByType DEF EdgePropSetOp, PropKey
        <4> QED
          BY <3>2, <4>1 DEF writesKey
      <3> QED
        BY <1>2, <3>1, <3>2
    <2>2. IF outcome = "applied" THEN propAfter(s, op, id)[k] = lwwSet(id, op.value)
          ELSE propAfter(s, op, id) = s.prop
      BY <1>2, <2>1, WriteOutcome
    <2>3. /\ orsetElements(t.nodeAlive) = orsetElements(s.nodeAlive)
          /\ orsetElements(t.edgeAlive) = orsetElements(s.edgeAlive)
          /\ t.prop = propAfter(s, op, id)
      BY <1>2, AfterParts
    <2> HIDE DEF t
    <2>4. ASSUME outcome # "applied"
          PROVE  content(t) = content(s)
      <3>1. t.prop = s.prop
        BY <2>2, <2>3, <2>4
      <3> QED
        BY <2>3, <3>1, Zenon DEF content
    <2>5. ASSUME outcome = "applied"
          PROVE  t.prop[k] = lwwSet(id, op.value)
      BY <2>2, <2>3, <2>5
    <2>6. honest(s, t, op, id)
      BY <2>1, <2>4, <2>5 DEF honest
    <2> QED
      BY <2>6 DEF t
  <1>3. CASE op.type = "BlobValue"
    <2>1. outcome = "applied"
      BY <1>3 DEF opOutcome
    <2> QED
      BY <1>3, <2>1 DEF honest
  <1> QED
    BY <1>1, <1>2, <1>3, OpsByType

\* what the receipt of the operation that x is about to apply says
receiptHonest(x) ==
    LET p  == cur[x].patch
        i  == cur[x].next
        op == normalizeRawOp(p.ops[i])
        outcome == opOutcome(state[x], op, eventOf(p, i))
    IN  i <= Len(p.ops) =>
        /\ outcome # "applied" => content(state'[x]) = content(state[x])
        /\ outcome = "applied" /\ op.type = "NodePropSet" =>
              state'[x].prop[<<op.node, op.key>>] = lwwSet(eventOf(p, i), op.value)
        /\ outcome = "applied" /\ op.type = "EdgePropSet" =>
              state'[x].prop[<<op.edge, op.key>>] = lwwSet(eventOf(p, i), op.value)

LEMMA HonestStep ==
    ASSUME TypeOK, [Next]_vars, NEW x \in Replica,
           cur[x] # None, cur'[x] # None, cur'[x] # cur[x]
    PROVE  receiptHonest(x)
  <1>t. /\ state \in [Replica -> State] /\ cur \in [Replica -> Loop \cup {None}]
        /\ cur' # cur
    BY DEF TypeOK
  <1>1. ASSUME NEW r \in Replica, ApplyOp(r)
        PROVE  receiptHonest(x)
    <2> DEFINE p  == cur[r].patch
               i  == cur[r].next
               op == normalizeRawOp(p.ops[i])
               id == eventOf(p, i)
    <2>1. /\ op \in CanonicalOp /\ id \in EventId
          /\ state' = [state EXCEPT ![r] = after(state[r], op, id)]
          /\ cur' = [cur EXCEPT ![r].next = @ + 1]
      BY <1>1, AppliedNext
    <2>2. x = r
      BY <1>t, <2>1
    <2>3. honest(state[x], state'[x], op, id)
      <3> HIDE DEF op, id
      <3>1. state'[x] = after(state[x], op, id) /\ state[x] \in State
        BY <1>t, <2>1, <2>2
      <3> QED
        BY <2>1, <3>1, OutcomeHonest
    <2> QED
      BY <2>2, <2>3, Zenon DEF honest, receiptHonest
  <1>2. ASSUME NEW r \in Replica, FinishPatch(r) \/ restart(r)
        PROVE  FALSE
    <2>1. cur' = [cur EXCEPT ![r] = None]
      BY <1>2 DEF FinishPatch, restart
    <2> QED
      BY <1>t, <2>1
  <1>3. ASSUME NEW r \in Replica, (\E p : CommitStep(r, p)) \/ (\E p \in log : ReceiveStep(r, p))
        PROVE  FALSE
    <2>1. AllIdle
      BY <1>3 DEF CommitStep, ReceiveStep
    <2> QED
      BY <2>1 DEF AllIdle, Idle
  <1>4. ASSUME NEW r \in Replica, createPatch(r) \/ BuildStep(r) \/ discard(r) \/ (\E q \in Replica : joinReplica(r, q))
        PROVE  FALSE
    <2>1. cur' = cur
      BY <1>4 DEF createPatch, BuildStep, discard, joinReplica, Build
    <2> QED
      BY <1>t, <2>1
  <1>5. CASE UNCHANGED vars
    BY <1>t, <1>5 DEF vars
  <1> QED
    BY <1>1, <1>2, <1>3, <1>4, <1>5, StepKinds

\* Receipts tell the truth, for any patches and operations: an operation
\* reported redundant or superseded changes no node, edge or property, and a
\* property write reported applied is what the register holds.
THEOREM ReceiptsAlwaysTruthful == Spec => ReceiptsAreTruthful
  <1>1. TypeOK /\ [Next]_vars =>
          [\A r \in Replica : cur[r] # None /\ cur'[r] # None /\ cur'[r] # cur[r] => receiptHonest(r)]_vars
    BY HonestStep
  <1>2. Spec => [][\A r \in Replica : cur[r] # None /\ cur'[r] # None /\ cur'[r] # cur[r] => receiptHonest(r)]_vars
    BY <1>1, ReplicationTypeCorrect, PTL DEF Spec
  <1> QED
    BY <1>2 DEF ReceiptsAreTruthful, receiptHonest

=============================================================================
