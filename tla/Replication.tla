----------------------------- MODULE Replication -----------------------------
(***************************************************************************)
(* Replicas of one graph.  Each replica is a graph instance with its own   *)
(* writer id and a materialized state; it authors patches with a builder,  *)
(* commits them to its writer chain, and applies the patches of the other  *)
(* chains in any order the chains allow, more than once, in part before    *)
(* and in part after a restart, or by joining the state of another         *)
(* replica.                                                                *)
(*                                                                         *)
(* One step applies one operation, as one iteration of the loop in         *)
(* applyFast does.  A replica's code runs on one thread, and the loop      *)
(* touches nothing but the replica's own state, so its steps commute with  *)
(* those of the other replicas: one loop runs at a time (AllIdle).         *)
(*                                                                         *)
(* This module covers replicas that are materialized before they write.    *)
(* What happens to the commit protocol and to dots when they are not is    *)
(* the subject of module PatchCommit.                                      *)
(***************************************************************************)
EXTENDS PatchBuilder

CONSTANTS
    Sha,        \* commit ids
    Menu        \* what a behaviour is made of: the builder methods in use, how
                \* patches reach a replica ("materialize", "sync", "join"),
                \* a bound on the operations of a patch, the commit ids, whose
                \* number bounds the patches, and whether they come in order

ASSUME ShaAssumption == Sha \subseteq Nat
ASSUME MenuAssumption ==
    \A m \in Menu : m.maxOps \in Nat /\ m.shas \subseteq Sha

\* the loop over the operations of a patch: the patch and the next operation
Loop == [patch : Patch, next : Nat \ {0}]

ASSUME NoneIsNoLoop == None \notin Loop
ASSUME NoneIsNoBuilder == None \notin Builder

VARIABLES
    menu,         \* the member of Menu that the behaviour is made of
    log,          \* the patches of all writer chains
    tip,          \* tip[w]: the lamport in the commit at w's ref, 0 if none
    hb,           \* history: <<a, b>> when the author of b had applied a
    state,        \* state[r]: the cached state of replica r
    applied,      \* history: the patches r has applied since it last started
    cur,          \* cur[r]: the patch being applied and the next operation
    builder,      \* builder[r]: the open patch builder of r
    maxObserved   \* maxObserved[r]: r's _maxObservedLamport

vars == <<menu, log, tip, hb, state, applied, cur, builder, maxObserved>>

Replica == Writer

Idle(r) == cur[r] = None

AllIdle == \A r \in Replica : Idle(r)

\* the chain of a writer
chain(w) == {p \in log : p.writer = w}

shasOf(patches) == {p.sha : p \in patches}

Init ==
    /\ menu \in Menu
    /\ log = {}
    /\ tip = [w \in Writer |-> 0]
    /\ hb = {}
    /\ state = [r \in Replica |-> createEmptyStateV5]
    /\ applied = [r \in Replica |-> {}]
    /\ cur = [r \in Replica |-> None]
    /\ builder = [r \in Replica |-> None]
    /\ maxObserved = [r \in Replica |-> 0]

----------------------------------------------------------------------------
(* Authoring.                                                              *)

\* a mutant: above the own chain only
_nextLamportOwnChain(r) == tip[r] + 1

\* _nextLamport: above the own chain and above every lamport observed
_nextLamport(r) == maxOf(tip[r], maxObserved[r]) + 1

createPatch(r) ==
    /\ AllIdle
    /\ builder[r] = None
    /\ chain(r) \subseteq applied[r]
    /\ menu.shas # shasOf(log)
    /\ builder' = [builder EXCEPT ![r] =
          newBuilder(r, _nextLamport(r), state[r].observedFrontier,
                     shasOf(applied[r]))]
    /\ UNCHANGED <<menu, log, tip, hb, state, applied, cur, maxObserved>>

\* the builder of r becomes b
Build(r, b) ==
    /\ builder' = [builder EXCEPT ![r] = b]
    /\ UNCHANGED <<menu, log, tip, hb, state, applied, cur, maxObserved>>

CanBuild(r, method) ==
    /\ method \in menu.methods
    /\ AllIdle
    /\ builder[r] # None
    /\ Len(builder[r].ops) < menu.maxOps

BuildAddNode(r) ==
    /\ CanBuild(r, "addNode")
    /\ \E n \in Node : Build(r, addNode(builder[r], n))

BuildRemoveNode(r) ==
    /\ CanBuild(r, "removeNode")
    /\ \E n \in Node :
          /\ canRemoveNode(builder[r], state[r], n)
          /\ \E order \in cascadeOrders(builder[r], state[r], n) :
                Build(r, removeNode(builder[r], state[r], n, order))

BuildAddEdge(r) ==
    /\ CanBuild(r, "addEdge")
    /\ \E e \in Edge : Build(r, addEdge(builder[r], e))

BuildRemoveEdge(r) ==
    /\ CanBuild(r, "removeEdge")
    /\ \E e \in Edge : Build(r, removeEdge(builder[r], state[r], e))

BuildSetProperty(r) ==
    /\ CanBuild(r, "setProperty")
    /\ \E n \in Node, k \in Key, v \in Value :
          Build(r, setProperty(builder[r], n, k, v))

BuildSetEdgeProperty(r) ==
    /\ CanBuild(r, "setEdgeProperty")
    /\ \E e \in Edge, k \in Key, v \in Value :
          /\ canSetEdgeProperty(builder[r], state[r], e)
          /\ Build(r, setEdgeProperty(builder[r], state[r], e, k, v))

\* start to apply a patch
Apply(r, p) == cur' = [cur EXCEPT ![r] = [patch |-> p, next |-> 1]]

\* the commit ids that a new commit may get; no two patches have the same
\* lamport and writer here, so comparing ids never decides, and a menu may
\* have them given in order
freshShas ==
    LET free == menu.shas \ shasOf(log)
    IN  IF menu.inOrder THEN {s \in free : \A t \in free : s <= t} ELSE free

\* commit(): the patch joins its writer's chain above the current tip, and
\* _onPatchCommitted applies it to the clean cached state
commit(r) ==
    /\ AllIdle
    /\ builder[r] # None
    /\ builder[r].ops # << >>
    /\ LET lamport == maxOf(builder[r].lamport, tip[r] + 1)
       IN  /\ \E sha \in freshShas :
                LET p == build(builder[r], lamport, sha)
                IN  /\ log' = log \cup {p}
                    /\ hb' = hb \cup (builder[r].basis \X {sha})
                    /\ Apply(r, p)
           /\ tip' = [tip EXCEPT ![r] = lamport]
           /\ maxObserved' = [maxObserved EXCEPT ![r] = maxOf(@, lamport)]
    /\ builder' = [builder EXCEPT ![r] = None]
    /\ UNCHANGED <<menu, state, applied>>

\* the process that opened a builder drops it
discard(r) ==
    /\ AllIdle
    /\ builder[r] # None
    /\ Build(r, None)

----------------------------------------------------------------------------
(* Applying patches.                                                       *)

\* A patch reaches r.  The chain of a writer is always walked in order, so
\* the predecessors of p come first; p may have been applied before.
receive(r, p, via) ==
    /\ AllIdle
    /\ via \in menu.via
    /\ p \in log
    /\ {q \in chain(p.writer) : q.lamport < p.lamport} \subseteq applied[r]
    /\ Apply(r, p)

\* materialize() scans the patches it loads for the largest lamport
ReceiveByMaterialize(r) ==
    /\ \E p \in log :
          /\ receive(r, p, "materialize")
          /\ maxObserved' = [maxObserved EXCEPT ![r] = maxOf(@, p.lamport)]
    /\ UNCHANGED <<menu, log, tip, hb, state, applied, builder>>

\* applySyncResponse() applies the patches of a response and leaves
\* _maxObservedLamport alone
ReceiveBySync(r) ==
    /\ \E p \in log : receive(r, p, "sync")
    /\ UNCHANGED <<menu, log, tip, hb, state, applied, builder, maxObserved>>

\* one iteration of the loop over the operations of a patch
ApplyOp(r) ==
    /\ ~Idle(r)
    /\ cur[r].next <= Len(cur[r].patch.ops)
    /\ LET p == cur[r].patch
           i == cur[r].next
       IN  state' = [state EXCEPT ![r] =
                applyOpV2(@, normalizeRawOp(p.ops[i]), eventOf(p, i))]
    /\ cur' = [cur EXCEPT ![r].next = @ + 1]
    /\ UNCHANGED <<menu, log, tip, hb, applied, builder, maxObserved>>

\* the end of the loop: the frontier takes in the patch
FinishPatch(r) ==
    /\ ~Idle(r)
    /\ cur[r].next > Len(cur[r].patch.ops)
    /\ state' = [state EXCEPT ![r] = updateFrontierFromPatch(@, cur[r].patch)]
    /\ applied' = [applied EXCEPT ![r] = @ \cup {cur[r].patch}]
    /\ cur' = [cur EXCEPT ![r] = None]
    /\ UNCHANGED <<menu, log, tip, hb, builder, maxObserved>>

\* graph.join(otherState)
joinReplica(r, q) ==
    /\ "join" \in menu.via
    /\ AllIdle
    /\ r # q
    /\ state' = [state EXCEPT ![r] = joinStates(@, state[q])]
    /\ applied' = [applied EXCEPT ![r] = @ \cup applied[q]]
    /\ UNCHANGED <<menu, log, tip, hb, cur, builder, maxObserved>>

\* the process of r ends; a new one opens the graph with nothing in memory
restart(r) ==
    /\ applied[r] # {}
    /\ \A q \in Replica \ {r} : Idle(q)
    /\ state' = [state EXCEPT ![r] = createEmptyStateV5]
    /\ applied' = [applied EXCEPT ![r] = {}]
    /\ cur' = [cur EXCEPT ![r] = None]
    /\ builder' = [builder EXCEPT ![r] = None]
    /\ maxObserved' = [maxObserved EXCEPT ![r] = 0]
    /\ UNCHANGED <<menu, log, tip, hb>>

Next ==
    \E r \in Replica :
        \/ createPatch(r)
        \/ BuildAddNode(r)
        \/ BuildRemoveNode(r)
        \/ BuildAddEdge(r)
        \/ BuildRemoveEdge(r)
        \/ BuildSetProperty(r)
        \/ BuildSetEdgeProperty(r)
        \/ commit(r)
        \/ discard(r)
        \/ ReceiveByMaterialize(r)
        \/ ReceiveBySync(r)
        \/ ApplyOp(r)
        \/ FinishPatch(r)
        \/ \E q \in Replica : joinReplica(r, q)
        \/ restart(r)

Spec == Init /\ [][Next]_vars

----------------------------------------------------------------------------
(* Properties.                                                             *)

TypeOK ==
    /\ menu \in Menu
    /\ log \in SUBSET Patch
    /\ tip \in [Writer -> Nat]
    /\ hb \in SUBSET (Nat \X Nat)
    /\ state \in [Replica -> State]
    /\ applied \in [Replica -> SUBSET Patch]
    /\ cur \in [Replica -> Loop \cup {None}]
    /\ builder \in [Replica -> Builder \cup {None}]
    /\ maxObserved \in [Replica -> Nat]

\* the i-th operation of a patch with its event id, the first n of them, and
\* all operations of a set of patches
opAt(p, i) == [op |-> normalizeRawOp(p.ops[i]), id |-> eventOf(p, i)]
firstOps(p, n) == {opAt(p, i) : i \in 1..n}
allOps(patches) == UNION {firstOps(p, Len(p.ops)) : p \in patches}

\* the operations that a loop has applied
loopOps(loop) == IF loop = None THEN {} ELSE firstOps(loop.patch, loop.next - 1)

\* the operations that r has applied
doneOps(r) == allOps(applied[r]) \cup loopOps(cur[r])

ofType(ops, type) == {o \in ops : o.op.type = type}

\* x is the greatest of a set of event ids, or None if there are none
isGreatest(x, ids) ==
    \/ x = None /\ ids = {}
    \/ x \in ids /\ \A y \in ids : ~isGreater(y, x)

\* the writes to a property
writesTo(ops, k) ==
    {o \in ofType(ops, "NodePropSet") : <<o.op.node, o.op.key>> = k}
    \cup {o \in ofType(ops, "EdgePropSet") : <<o.op.edge, o.op.key>> = k}

isWinner(reg, writes) ==
    \/ reg = None /\ writes = {}
    \/ \E o \in writes :
          /\ reg = lwwSet(o.id, o.op.value)
          /\ \A u \in writes : ~isGreater(u.id, o.id)

\* the state s is what the set ops of applied operations determines, in
\* whatever order and however often they were applied
reflects(s, ops) ==
    /\ s.nodeAlive.entries = {<<o.op.node, o.op.dot>> : o \in ofType(ops, "NodeAdd")}
    /\ s.nodeAlive.tombstones = UNION {o.op.observedDots : o \in ofType(ops, "NodeRemove")}
    /\ s.edgeAlive.entries = {<<o.op.edge, o.op.dot>> : o \in ofType(ops, "EdgeAdd")}
    /\ s.edgeAlive.tombstones = UNION {o.op.observedDots : o \in ofType(ops, "EdgeRemove")}
    /\ \A k \in PropKey : isWinner(s.prop[k], writesTo(ops, k))
    /\ \A e \in Edge :
          isGreatest(s.edgeBirthEvent[e],
                     {o.id : o \in {u \in ofType(ops, "EdgeAdd") : u.op.edge = e}})

\* The reducer computes a function of the set of operations it has applied:
\* an element is alive exactly when some add of it is observed by no remove,
\* a property holds the write with the greatest event id, an edge was born at
\* its latest add.  The order, the repetition and the splitting of the
\* applications leave no trace (JoinReducer.js applyOpV2, joinStates).
StateReflectsPatches == \A r \in Replica : reflects(state[r], doneOps(r))

\* Two replicas that have applied the same patches are in the same state, the
\* observed frontier included.
StrongConvergence ==
    \A r, q \in Replica :
        Idle(r) /\ Idle(q) /\ applied[r] = applied[q] => state[r] = state[q]

\* the dots that the adds of a set of patches carry, with the place of the add
addDots(patches) ==
    UNION {{<<p.sha, i, p.ops[i].dot>> :
                i \in {j \in 1..Len(p.ops) : p.ops[j].type \in {"NodeAdd", "EdgeAdd"}}} :
           p \in patches}

\* A dot identifies one add: no two adds ever committed carry the same dot,
\* across writers, patches and restarts (ORSet.js "A dot uniquely identifies
\* one add operation").
DotsUnique ==
    \A x, y \in addDots(log) : x[3] = y[3] => x = y

\* A write wins against every write its author had seen when it created the
\* patch, where it saw them by materialize(): if a happened before b, the
\* lamport of a is below the lamport of b (LWW.js lwwMax, "This respects
\* causality"; of what came by sync, see ReceiveBySync).
CausalWriteWins ==
    menu.via = {"materialize"} => \A p, q \in log : <<p.sha, q.sha>> \in hb => p.lamport < q.lamport

\* Under the cascade policy a patch that removes a node leaves no edge of that
\* node behind that its author knew of: every edge add the author had applied is
\* tombstoned, by this patch or by an earlier one.  Only edges added concurrently
\* may survive and dangle (PatchBuilderV2.js removeNode).
CascadeRemovesKnownEdges ==
    onDeleteWithData = "cascade" =>
        \A p, q \in log :
            <<q.sha, p.sha>> \in hb =>
                \A i \in 1..Len(p.ops), j \in 1..Len(q.ops) :
                    /\ p.ops[i].type = "NodeRemove"
                    /\ q.ops[j].type = "EdgeAdd"
                    /\ p.ops[i].node \in {q.ops[j].edge[1], q.ops[j].edge[2]}
                    => \E u \in log : \E m \in 1..Len(u.ops) :
                          /\ u.ops[m].type = "EdgeRemove"
                          /\ q.ops[j].dot \in u.ops[m].observedDots

\* the event id y is absent only if x is, and is not older than x
notOlder(x, y) == x = None \/ (y # None /\ ~isGreater(x, y))

eventIdOf(reg) == IF reg = None THEN None ELSE reg.eventId

\* the order of states: t has everything that s has
below(s, t) ==
    /\ s.nodeAlive.entries \subseteq t.nodeAlive.entries
    /\ s.nodeAlive.tombstones \subseteq t.nodeAlive.tombstones
    /\ s.edgeAlive.entries \subseteq t.edgeAlive.entries
    /\ s.edgeAlive.tombstones \subseteq t.edgeAlive.tombstones
    /\ \A k \in PropKey : notOlder(eventIdOf(s.prop[k]), eventIdOf(t.prop[k]))
    /\ \A e \in Edge : notOlder(s.edgeBirthEvent[e], t.edgeBirthEvent[e])
    /\ vvDescends(t.observedFrontier, s.observedFrontier)

\* Applying a patch, or joining a state, only ever moves a replica up: no add,
\* tombstone, winning write, birth event or frontier entry is lost.
StatesOnlyGrow ==
    [][\A r \in Replica :
          state'[r] # state[r] /\ applied[r] \subseteq applied'[r]
              => below(state[r], state'[r])]_vars

\* what queries are answered from: nodes and edges alive, and registers
content(s) ==
    [nodes |-> orsetElements(s.nodeAlive),
     edges |-> orsetElements(s.edgeAlive),
     props |-> s.prop]

\* A receipt tells the truth about its operation: one reported redundant or
\* superseded changes nothing a reader can see, and a property write reported
\* applied is the value the register holds from then on.
ReceiptsAreTruthful ==
    [][\A r \in Replica :
          (cur[r] # None /\ cur'[r] # None /\ cur'[r] # cur[r]) =>
              LET p  == cur[r].patch
                  i  == cur[r].next
                  op == normalizeRawOp(p.ops[i])
                  outcome == opOutcome(state[r], op, eventOf(p, i))
              IN  i <= Len(p.ops) =>
                  /\ outcome # "applied" => content(state'[r]) = content(state[r])
                  /\ outcome = "applied" /\ op.type = "NodePropSet" =>
                        state'[r].prop[<<op.node, op.key>>] = lwwSet(eventOf(p, i), op.value)
                  /\ outcome = "applied" /\ op.type = "EdgePropSet" =>
                        state'[r].prop[<<op.edge, op.key>>] = lwwSet(eventOf(p, i), op.value)]_vars

=============================================================================
