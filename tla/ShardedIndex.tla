---------------------------- MODULE ShardedIndex ----------------------------
(***************************************************************************)
(* The index tree as it is stored: a node has a numeric id whose upper     *)
(* byte is its shard, a label has an id of its own, and bitmaps of node    *)
(* ids are kept per shard, bucket and owner.  LogicalBitmapIndexBuilder    *)
(* makes a tree, IncrementalIndexUpdater loads the shards it needs, changes *)
(* them one entry at a time and writes these shards back, and              *)
(* LogicalIndexReader decodes the result.                                  *)
(*                                                                         *)
(* A tree is [id, next, alive, labels, fwd, rev, props]: id[n] and props   *)
(* lie in the shard of n, next[s] and alive[s] in meta shard s, and a row  *)
(* <<s, bucket, owner, target>> of fwd or rev in edge shard s.             *)
(***************************************************************************)
EXTENDS Integers, FiniteSets

CONSTANTS
    Node, Label, Graph,
    Shard,             \* the shard bytes
    computeShardKey,   \* computeShardKey[n]: the shard of node n
    MAX_LOCAL_ID       \* ids per shard

ASSUME ShardAssumption ==
    /\ Shard \subseteq Nat /\ MAX_LOCAL_ID \in Nat \ {0}
    /\ computeShardKey \in [Node -> Shard]

\* "all" names the bucket of every label and is no label itself
ASSUME IndexGraphAssumption ==
    /\ IsFiniteSet(Label) /\ "all" \notin Label
    /\ \A g \in Graph : g.nodes \subseteq Node /\ g.edges \subseteq Node \X Node \X Label

VARIABLES
    graph,    \* the graph that the tree was made for
    tree,     \* the tree of the view
    built,    \* there is one
    mode,     \* "idle", "build" or "update"
    target,   \* the graph that the work is for
    todo,     \* what the loops have still to visit, loop by loop
    work      \* the shards as loaded and changed so far, and which they are

shardedVars == <<graph, tree, built, mode, target, todo, work>>

Nodes == INSTANCE IndexTree
visible(g) == Nodes!visible(g)

NoId == -1
all == -1    \* the bucket that holds every label

emptyTree ==
    [id |-> [n \in Node |-> NoId], next |-> [s \in Shard |-> 0],
     alive |-> [s \in Shard |-> {}], labels |-> [l \in Label |-> NoId],
     fwd |-> {}, rev |-> {}, props |-> {}]

noShards == [meta |-> {}, fwd |-> {}, rev |-> {}, props |-> {}, labels |-> FALSE]

nothing ==
    [nodesAdded |-> {}, nodesRemoved |-> {}, purge |-> {}, edgesAdded |-> {},
     edgesRemoved |-> {}, restored |-> {}, props |-> {}]

idle == /\ mode' = "idle" /\ todo' = nothing
        /\ work' = [tree |-> emptyTree, loaded |-> noShards]

ShardedInit ==
    /\ graph \in Graph /\ built = FALSE /\ tree = emptyTree /\ target = graph
    /\ mode = "idle" /\ todo = nothing
    /\ work = [tree |-> emptyTree, loaded |-> noShards]

----------------------------------------------------------------------------
(* Ids.                                                                    *)

globalId(s, local) == s * MAX_LOCAL_ID + local

\* the upper byte of an id
shardByte(x) == CHOOSE s \in Shard : x \in globalId(s, 0)..globalId(s, MAX_LOCAL_ID - 1)

\* _findNodeIdByGlobal looks in the shard that the id names
_findNodeIdByGlobal(t, x) ==
    {n \in Node : t.id[n] = x /\ computeShardKey[n] = shardByte(x)}

overflows(t, n) ==
    t.id[n] = NoId /\ t.next[computeShardKey[n]] >= MAX_LOCAL_ID

\* a mutant: the counter is not moved on
registerWithoutCount(t, n) ==
    LET s == computeShardKey[n]
        x == IF t.id[n] = NoId THEN globalId(s, t.next[s]) ELSE t.id[n]
    IN  [t EXCEPT !.id[n] = x, !.alive[s] = @ \cup {x}]

\* _handleNodeAdd; registerNode and markAlive
_handleNodeAdd(t, n) ==
    LET s == computeShardKey[n]
        x == IF t.id[n] = NoId THEN globalId(s, t.next[s]) ELSE t.id[n]
    IN  [t EXCEPT !.id[n] = x, !.alive[s] = @ \cup {x},
                  !.next[s] = IF t.id[n] = NoId THEN @ + 1 ELSE @]

_handleNodeRemove(t, n) == [t EXCEPT !.alive[computeShardKey[n]] = @ \ {t.id[n]}]

\* _ensureLabel, registerLabel: one more than the highest id
_ensureLabel(t, l) ==
    LET used == {t.labels[k] : k \in Label}
    IN  IF t.labels[l] # NoId THEN t
        ELSE [t EXCEPT !.labels[l] = 1 + CHOOSE x \in used : \A y \in used : y <= x]

----------------------------------------------------------------------------
(* Rows.                                                                   *)

hasIds(t, e) == t.id[e[1]] # NoId /\ t.id[e[2]] # NoId

\* the rows of both buckets, in the shard of their owner
ownerRows(t, n, m, l) ==
    {<<computeShardKey[n], b, t.id[n], t.id[m]>> : b \in {all, t.labels[l]}}

\* _handleEdgeAdd, addEdge: the label has its id by now
_handleEdgeAdd(t, e) ==
    IF ~hasIds(t, e) THEN t
    ELSE [t EXCEPT !.fwd = @ \cup ownerRows(t, e[1], e[2], e[3]),
                   !.rev = @ \cup ownerRows(t, e[2], e[1], e[3])]

\* the rows of the owner in the bucket "all", from the rows of the labels
_recomputeAllBucket(R, s, x, t) ==
    LET labelled == {r \in R : r[1] = s /\ r[3] = x /\ r[2] \in {t.labels[l] : l \in Label} \ {NoId}}
    IN  {r \in R : r[1] # s \/ r[2] # all \/ r[3] # x} \cup {<<s, all, x, r[4]>> : r \in labelled}

_handleEdgeRemove(t, e) ==
    LET s == computeShardKey[e[1]]
        q == computeShardKey[e[2]]
        x == t.id[e[1]]
        y == t.id[e[2]]
        l == t.labels[e[3]]
    IN  IF ~hasIds(t, e) \/ l = NoId THEN t
        ELSE [t EXCEPT !.fwd = _recomputeAllBucket(@ \ {<<s, l, x, y>>}, s, x, t),
                       !.rev = _recomputeAllBucket(@ \ {<<q, l, y, x>>}, q, y, t)]

rowsOf(R, n, x) == {r \in R : r[1] = computeShardKey[n] /\ r[3] = x}

\* the bits of x in the rows that the given rows lead to, where the id at the
\* other end is a node's
peerBits(t, R, x) == {<<shardByte(r[4]), r[2], r[4], x>> :
                        r \in {q \in R : _findNodeIdByGlobal(t, q[4]) # {}}}

\* _purgeNodeEdges: the outgoing rows with what they lead to, then what is
\* left of the incoming ones
_purgeNodeEdges(t, n) ==
    LET x == t.id[n]
        out == rowsOf(t.fwd, n, x)
        rev == t.rev \ peerBits(t, out, x)
        in == rowsOf(rev, n, x)
    IN  IF x = NoId THEN t
        ELSE [t EXCEPT !.fwd = (@ \ out) \ peerBits(t, in, x), !.rev = rev \ in]

----------------------------------------------------------------------------
(* A build or an update, one entry at a time; the order within a loop is   *)
(* left open.  A failure leaves the view without a tree (_buildView).      *)

shardsOf(S) == {computeShardKey[n] : n \in S}

\* computeDirtyShards starts: nothing is loaded yet
startUpdate(g) ==
    /\ mode = "idle" /\ built /\ g # graph
    /\ mode' = "update" /\ target' = g
    /\ LET d == Nodes!diffOf(graph, g)
           readded == {n \in d.nodesAdded : tree.id[n] # NoId}
       IN  todo' = [nodesAdded |-> d.nodesAdded, nodesRemoved |-> d.nodesRemoved,
                    purge |-> d.nodesRemoved,
                    edgesAdded |-> {e \in d.edgesAdded : {e[1], e[2]} \subseteq g.nodes},
                    edgesRemoved |-> d.edgesRemoved,
                    restored |-> {e \in visible(g) \ d.edgesAdded : {e[1], e[2]} \cap readded # {}},
                    props |-> d.propsChanged]
    /\ work' = [tree |-> tree, loaded |-> [noShards EXCEPT !.meta = shardsOf(g.nodes \ graph.nodes)]]
    /\ UNCHANGED <<graph, tree, built>>

\* PropertyIndexBuilder: the properties of the nodes that are alive
builtProps(g) == {p \in g.props : p[1] \in g.nodes}

\* build starts from nothing, or from the ids and labels of the tree
\* (existingMeta, existingLabels); aliveness and rows are new
startBuild(g, seeded) ==
    /\ mode = "idle" /\ (seeded => built)
    /\ mode' = "build" /\ target' = g
    /\ todo' = [nothing EXCEPT !.nodesAdded = g.nodes, !.edgesAdded = visible(g),
                               !.props = builtProps(g)]
    /\ work' = [tree |-> IF seeded THEN [tree EXCEPT !.alive = [s \in Shard |-> {}],
                                                     !.fwd = {}, !.rev = {}, !.props = {}]
                         ELSE emptyTree,
                loaded |-> noShards]
    /\ UNCHANGED <<graph, tree, built>>

\* the loops before the given one are done
loops == <<"nodesAdded", "nodesRemoved", "purge", "edgesAdded", "edgesRemoved", "restored">>
reached(k) == mode # "idle" /\ \A i \in 1..(k - 1) : todo[loops[i]] = {}

visit(k, x, t, meta, fwd, rev) ==
    /\ todo' = [todo EXCEPT ![loops[k]] = @ \ {x}]
    /\ work' = [tree |-> t,
                loaded |-> [work.loaded EXCEPT !.meta = @ \cup meta, !.fwd = @ \cup fwd,
                                               !.rev = @ \cup rev,
                                               !.labels = @ \/ t.labels # work.tree.labels]]
    /\ UNCHANGED <<graph, tree, built, mode, target>>

addNode(n) ==
    /\ n \in todo.nodesAdded /\ ~overflows(work.tree, n) /\ mode # "idle"
    /\ visit(1, n, _handleNodeAdd(work.tree, n), shardsOf({n}), {}, {})

\* ShardIdOverflowError: the work so far is lost, and the old tree too
overflow(n) ==
    /\ n \in todo.nodesAdded /\ overflows(work.tree, n) /\ mode # "idle"
    /\ built' = FALSE /\ tree' = emptyTree /\ idle
    /\ UNCHANGED <<graph, target>>

removeNode(n) ==
    /\ reached(2) /\ n \in todo.nodesRemoved
    /\ visit(2, n, _handleNodeRemove(work.tree, n), shardsOf({n}), {}, {})

purgeNode(n) ==
    /\ reached(3) /\ n \in todo.purge
    /\ LET x == work.tree.id[n]
           t == _purgeNodeEdges(work.tree, n)
           touched(R, Q) == shardsOf({n}) \cup {r[1] : r \in R \ Q}
       IN  visit(3, n, t, shardsOf({n}) \cup {shardByte(r[4]) : r \in rowsOf(work.tree.fwd \cup work.tree.rev, n, x)},
                 touched(work.tree.fwd, t.fwd), touched(work.tree.rev, t.rev))

\* an edge of the diff, or one that a node brought back
addEdge(k, e) ==
    /\ reached(k) /\ e \in todo[loops[k]] /\ k \in {4, 6}
    /\ LET t == _ensureLabel(work.tree, e[3])
       IN  visit(k, e, _handleEdgeAdd(t, e), shardsOf({e[1], e[2]}),
                 IF hasIds(t, e) THEN shardsOf({e[1]}) ELSE {},
                 IF hasIds(t, e) THEN shardsOf({e[2]}) ELSE {})

removeEdge(e) ==
    /\ reached(5) /\ e \in todo.edgesRemoved
    /\ LET known == hasIds(work.tree, e) /\ work.tree.labels[e[3]] # NoId
       IN  visit(5, e, _handleEdgeRemove(work.tree, e), shardsOf({e[1], e[2]}),
                 IF known THEN shardsOf({e[1]}) ELSE {}, IF known THEN shardsOf({e[2]}) ELSE {})

_handleProps(P, changed) ==
    {p \in P : \A q \in changed : p[1] # q[1] \/ p[2] # q[2]} \cup changed

\* the shards that were loaded replace the ones of the old tree
mergeShards(old, t, loaded) ==
    [id     |-> [n \in Node |-> IF computeShardKey[n] \in loaded.meta THEN t.id[n] ELSE old.id[n]],
     next   |-> [s \in Shard |-> IF s \in loaded.meta THEN t.next[s] ELSE old.next[s]],
     alive  |-> [s \in Shard |-> IF s \in loaded.meta THEN t.alive[s] ELSE old.alive[s]],
     labels |-> IF loaded.labels THEN t.labels ELSE old.labels,
     fwd    |-> {r \in t.fwd : r[1] \in loaded.fwd} \cup {r \in old.fwd : r[1] \notin loaded.fwd},
     rev    |-> {r \in t.rev : r[1] \in loaded.rev} \cup {r \in old.rev : r[1] \notin loaded.rev},
     props  |-> old.props]

\* a mutant: only the shards that the diff names are written
flushNamedShards ==
    LET d == Nodes!diffOf(graph, target)
        named == shardsOf(d.nodesAdded \cup d.nodesRemoved
                            \cup UNION {{e[1], e[2]} : e \in d.edgesAdded \cup d.edgesRemoved})
    IN  [mergeShards(tree, work.tree, [work.loaded EXCEPT !.fwd = named, !.rev = named])
           EXCEPT !.props = _handleProps(@, todo.props)]

\* _flushMeta, _flushEdgeShards, _saveLabels and _handleProps
flushed ==
    [mergeShards(tree, work.tree, work.loaded) EXCEPT !.props = _handleProps(@, todo.props)]

\* serialize writes everything; an update only what it loaded
finish ==
    /\ reached(7)
    /\ tree' = IF mode = "build" THEN [work.tree EXCEPT !.props = todo.props] ELSE flushed
    /\ built' = TRUE /\ graph' = target /\ idle
    /\ UNCHANGED target

\* invalidateIndex
invalidateIndex ==
    /\ mode = "idle" /\ built
    /\ built' = FALSE /\ tree' = emptyTree
    /\ UNCHANGED <<graph, mode, target, todo, work>>

ShardedNext ==
    \/ \E g \in Graph : startUpdate(g) \/ \E seeded \in BOOLEAN : startBuild(g, seeded)
    \/ \E n \in Node : addNode(n) \/ overflow(n) \/ removeNode(n) \/ purgeNode(n)
    \/ \E e \in todo.edgesAdded : addEdge(4, e)
    \/ \E e \in todo.edgesRemoved : removeEdge(e)
    \/ \E e \in todo.restored : addEdge(6, e)
    \/ finish \/ invalidateIndex

ShardedSpec == ShardedInit /\ [][ShardedNext]_shardedVars

----------------------------------------------------------------------------
(* LogicalIndexReader: the tree, decoded.                                  *)

\* the node of an id; every id in a bitmap has one (IdsIdentifyNodes)
nodeOf(t, x) == CHOOSE n \in Node : t.id[n] = x

labelOf(t, b) == IF b = all THEN "all" ELSE CHOOSE l \in Label : t.labels[l] = b

decodeRows(t, R) == {<<nodeOf(t, r[3]), labelOf(t, r[2]), nodeOf(t, r[4])>> : r \in R}

toLogicalIndex(t) ==
    [known  |-> {n \in Node : t.id[n] # NoId},
     alive  |-> {n \in Node : t.id[n] \in t.alive[computeShardKey[n]]},
     labels |-> {l \in Label : t.labels[l] # NoId},
     fwd    |-> decodeRows(t, t.fwd), rev |-> decodeRows(t, t.rev), props |-> t.props]

----------------------------------------------------------------------------
(* Properties.                                                             *)

\* An id names one node and lies in the range of that node's shard, below
\* the shard's next id, in the tree and in the work on it (registerNode,
\* _handleNodeAdd)
idsOk(t) ==
    /\ \A n, m \in Node : t.id[n] = t.id[m] /\ t.id[n] # NoId => n = m
    /\ \A n \in Node : t.id[n] # NoId =>
         LET s == computeShardKey[n] IN t.id[n] \in globalId(s, 0)..(globalId(s, t.next[s]) - 1)
    /\ \A s \in Shard : t.next[s] \in 0..MAX_LOCAL_ID

IdsIdentifyNodes == idsOk(tree) /\ idsOk(work.tree)

\* Decoded, the tree of shards behaves like the index of nodes: whatever the
\* order of the entries and however nodes and labels share shards, an update
\* or a build is one step of IndexService
Decoded == INSTANCE IndexService WITH view <- toLogicalIndex(tree)
RefinesIndexService == Decoded!AbsSpec
=============================================================================
