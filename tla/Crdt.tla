-------------------------------- MODULE Crdt --------------------------------
(***************************************************************************)
(* The CRDTs every graph state is made of: version vectors, observed-      *)
(* remove sets with one global tombstone set, last-writer-wins registers,  *)
(* and the total order of events that resolves their conflicts.            *)
(* (src/domain/crdt/, src/domain/utils/EventId.js)                         *)
(*                                                                         *)
(* Representation.  A Map<writer, counter> never holds a zero counter, so  *)
(* a version vector is a total function and "absent" is 0.  A Map<element, *)
(* Set<dot>> never holds an empty set, so it is the set of its             *)
(* <<element, dot>> pairs.  The string orders of writer ids and of commit  *)
(* SHAs are total orders, so both kinds of identifier are naturals.        *)
(***************************************************************************)
EXTENDS Integers

CONSTANTS
    Writer,   \* writer ids, compared as strings in the code
    Value,    \* property values
    None      \* the absent register or event: null or undefined

ASSUME WriterAssumption == Writer \subseteq Nat

----------------------------------------------------------------------------
(* Event ids: (lamport, writerId, patchSha, opIndex), ordered              *)
(* lexicographically.                                                      *)

EventId == [lamport : Nat, writer : Writer, sha : Nat, op : Nat]

ASSUME NoneIsNoEvent == None \notin EventId

createEventId(lamport, writer, sha, op) ==
    [lamport |-> lamport, writer |-> writer, sha |-> sha, op |-> op]

\* compareEventIds(a, b) > 0, which is isGreater(a, b) in EventId.js
isGreater(a, b) ==
    \/ a.lamport > b.lamport
    \/ /\ a.lamport = b.lamport
       /\ a.writer > b.writer
    \/ /\ a.lamport = b.lamport
       /\ a.writer = b.writer
       /\ a.sha > b.sha
    \/ /\ a.lamport = b.lamport
       /\ a.writer = b.writer
       /\ a.sha = b.sha
       /\ a.op > b.op

----------------------------------------------------------------------------
(* Last-writer-wins registers.                                             *)

Register == [eventId : EventId, value : Value]

ASSUME NoneIsNoRegister == None \notin Register

lwwSet(eventId, value) == [eventId |-> eventId, value |-> value]

\* a mutant of lwwMax: a tie on the lamport clock keeps the first argument
lwwMaxLamportOnly(a, b) ==
    IF a = None THEN b
    ELSE IF b = None THEN a
    ELSE IF b.eventId.lamport > a.eventId.lamport THEN b ELSE a

\* the register with the greater event id; the first one on a tie
lwwMax(a, b) ==
    IF a = None THEN b
    ELSE IF b = None THEN a
    ELSE IF isGreater(b.eventId, a.eventId) THEN b ELSE a

\* the greater of two event ids, either of which may be absent
eventMax(a, b) ==
    IF a = None THEN b
    ELSE IF b = None THEN a
    ELSE IF isGreater(b, a) THEN b ELSE a

----------------------------------------------------------------------------
(* Version vectors and dots.                                               *)

VersionVector == [Writer -> Nat]

\* a dot <<w, n>> names the n-th tick of writer w
Dot == Writer \X (Nat \ {0})

maxOf(m, n) == IF m >= n THEN m ELSE n

createVersionVector == [w \in Writer |-> 0]

vvIncrement(vv, w) == [vv EXCEPT ![w] = @ + 1]

vvMerge(a, b) == [w \in Writer |-> maxOf(a[w], b[w])]

vvDescends(a, b) == \A w \in Writer : a[w] >= b[w]

vvContains(vv, dot) == dot[2] <= vv[dot[1]]

----------------------------------------------------------------------------
(* Observed-remove sets.                                                   *)

ORSet(Element) == [entries : SUBSET (Element \X Dot), tombstones : SUBSET Dot]

createORSet == [entries |-> {}, tombstones |-> {}]

orsetAdd(set, element, dot) ==
    [set EXCEPT !.entries = @ \cup {<<element, dot>>}]

\* a mutant: only the dots of adds that have arrived are tombstoned
orsetRemoveArrived(set, observedDots) ==
    [set EXCEPT !.tombstones = @ \cup (observedDots \cap {p[2] : p \in set.entries})]

orsetRemove(set, observedDots) ==
    [set EXCEPT !.tombstones = @ \cup observedDots]

\* the non-tombstoned dots of an element
orsetGetDots(set, element) ==
    {p[2] : p \in {q \in set.entries : q[1] = element}} \ set.tombstones

orsetContains(set, element) == orsetGetDots(set, element) # {}

orsetElements(set) == {p[1] : p \in {q \in set.entries : q[2] \notin set.tombstones}}

orsetJoin(a, b) ==
    [entries    |-> a.entries \cup b.entries,
     tombstones |-> a.tombstones \cup b.tombstones]

\* a mutant: the tombstones go, the entries stay
orsetCompactTombstonesOnly(set, includedVV) ==
    [set EXCEPT !.tombstones = @ \ {p[2] : p \in {q \in set.entries : vvContains(includedVV, q[2])}}]

\* a mutant: a dot need not be tombstoned to go
orsetCompactLive(set, includedVV) ==
    [set EXCEPT !.entries = {p \in @ : ~ vvContains(includedVV, p[2])}]

\* the tombstoned dots of entries up to includedVV are forgotten; a tombstone
\* whose add is not in the set stays
orsetCompact(set, includedVV) ==
    LET gone == {p \in set.entries : p[2] \in set.tombstones /\ vvContains(includedVV, p[2])}
    IN  [entries    |-> set.entries \ gone,
         tombstones |-> set.tombstones \ {p[2] : p \in gone}]

=============================================================================
