---------------------------- MODULE CommitIndex ----------------------------
(***************************************************************************)
(* The bitmap index of the commit DAG: IndexRebuildService walks the       *)
(* history of a ref into a builder, in memory or streaming with flushes to *)
(* storage, and BitmapIndexReader answers getParents and getChildren from  *)
(* the shards of the resulting tree.  Commits are made meanwhile.          *)
(*                                                                         *)
(* Commits are 1, 2, ... as they are made; the frontier is the last one.   *)
(* A tree is kept as the entries of its shards, <<sha, id>>; the shard of  *)
(* an entry is named by its kind and the prefix of the sha.                *)
(***************************************************************************)
EXTENDS Integers, Sequences, FiniteSets

CONSTANTS
    MaxCommit,        \* bound on the commits
    MaxRebuilds,      \* bound on rebuilds
    MaxQueries,       \* bound on queries
    maxMemoryBytes,   \* memory limits of the streaming builder
    maxCachedShards,  \* of the reader
    OverlapAdds,      \* may addParentEdge be called while a flush is under way
    OverlapQueries,   \* may a query start while another is under way
    RetryQueries      \* may a query follow one that failed

ASSUME CommitIndexAssumption == MaxCommit \in Nat

VARIABLES
    parents,    \* parents[c], for the commits made so far
    build,      \* the rebuild under way, or the idle one
    trees,      \* the trees written: [meta, fwd, rev, frontier]
    reader,     \* the reader: [tree, strict, cached, bad, idToSha]; or none
    queries,    \* queries[n]: the n-th query to the reader
    rebuilds    \* how many rebuilds there were

commitIndexVars == <<parents, build, trees, reader, queries, rebuilds>>

Prefix(sha) == sha % 2
BITMAP_BASE_OVERHEAD == 64
noReader == [tree |-> 0]

----------------------------------------------------------------------------
(* The builders.                                                           *)

emptyBuilder ==
    [phase |-> "idle", streaming |-> FALSE, max |-> 0, frontier |-> 0, at |-> 0, edges |-> {},
     idToSha |-> << >>, bitmaps |-> {}, bytes |-> 0, chunks |-> << >>, flushes |-> 0, reload |-> FALSE]

CommitIndexInit ==
    /\ parents = << >> /\ build = emptyBuilder /\ trees = << >>
    /\ reader = noReader /\ queries = << >> /\ rebuilds = 0

\* with one parent, or a merge of the last two
newCommit ==
    /\ Len(parents) < MaxCommit
    /\ \E P \in {{c \in {Len(parents)} : c > 0}, {c \in {Len(parents), Len(parents) - 1} : c > 0}} :
         parents' = Append(parents, P)
    /\ UNCHANGED <<build, trees, reader, queries, rebuilds>>

idOf(b, sha) == CHOOSE i \in 1..Len(b.idToSha) : b.idToSha[i] = sha

_getOrCreateId(b, sha) ==
    IF \E i \in 1..Len(b.idToSha) : b.idToSha[i] = sha THEN b ELSE [b EXCEPT !.idToSha = Append(@, sha)]

\* a bitmap is new if no entry of its kind and sha is there yet
_addToBitmap(b, kind, sha, id) ==
    [b EXCEPT !.bitmaps = @ \cup {<<kind, sha, id>>},
              !.bytes = @ + (IF \E x \in b.bitmaps : x[1] = kind /\ x[2] = sha THEN 0
                             ELSE BITMAP_BASE_OVERHEAD)
                          + (IF <<kind, sha, id>> \in b.bitmaps THEN 0 ELSE 4)]

addBoth(b, src, tgt) ==
    LET c == _getOrCreateId(_getOrCreateId(b, src), tgt)
    IN  _addToBitmap(_addToBitmap(c, "fwd", src, idOf(c, tgt)), "rev", tgt, idOf(c, src))

\* rebuild: the frontier is the caller's, the ref is read now.  Its commits
\* are visited newest first
rebuild(streaming, max, f, reload) ==
    /\ build.phase = "idle" /\ Len(parents) > 0 /\ rebuilds < MaxRebuilds
    /\ build' = [emptyBuilder EXCEPT !.phase = "iterate", !.streaming = streaming, !.max = max,
                                     !.frontier = f, !.at = Len(parents), !.reload = reload]
    /\ rebuilds' = rebuilds + 1

startRebuild ==
    /\ reader = noReader
    /\ \E streaming \in BOOLEAN, f \in {0, Len(parents)} :
         \E max \in (IF streaming THEN maxMemoryBytes ELSE {0}) : rebuild(streaming, max, f, FALSE)
    /\ UNCHANGED <<parents, trees, reader, queries>>

building == build.phase = "iterate" /\ (OverlapAdds \/ build.flushes = 0)

\* the next commit, once the edges to the parents of the last are there
registerNode ==
    /\ building /\ build.at > 0 /\ build.edges = {}
    /\ build' = [_getOrCreateId(build, build.at) EXCEPT !.at = @ - 1, !.edges = parents[build.at]]
    /\ UNCHANGED <<parents, trees, reader, queries, rebuilds>>

\* an edge from a parent, the first parent first.  At the memory limit a flush
\* begins: the shards are serialized and written to storage
addParentEdge ==
    /\ building /\ build.edges # {}
    /\ LET p == CHOOSE p \in build.edges : \A q \in build.edges : q <= p
           b == addBoth([build EXCEPT !.edges = @ \ {p}], p, build.at + 1)
       IN  build' = IF b.streaming /\ b.bytes >= b.max
                    THEN [b EXCEPT !.flushes = @ + 1, !.chunks = Append(@, b.bitmaps)]
                    ELSE b
    /\ UNCHANGED <<parents, trees, reader, queries, rebuilds>>

\* a mutant: the last chunk stands for all
lastChunk(chunks) == IF chunks = << >> THEN {} ELSE chunks[Len(chunks)]

\* _mergeChunks: the bitmaps of a sha are combined
_mergeChunks(chunks) == UNION {chunks[i] : i \in 1..Len(chunks)}

\* the writes are done: the bitmaps are dropped
endFlush ==
    /\ build.flushes > 0
    /\ build' = [build EXCEPT !.flushes = @ - 1, !.bitmaps = {}, !.bytes = 0]
    /\ UNCHANGED <<parents, trees, reader, queries, rebuilds>>

\* finalize, or serialize and _persistIndex
finishRebuild ==
    /\ build.phase = "iterate" /\ build.at = 0 /\ build.edges = {} /\ build.flushes = 0
    /\ LET chunks == IF build.bitmaps = {} THEN build.chunks ELSE Append(build.chunks, build.bitmaps)
           maps == IF build.streaming THEN _mergeChunks(chunks) ELSE build.bitmaps
           of(kind) == {<<x[2], x[3]>> : x \in {y \in maps : y[1] = kind}}
       IN  trees' = Append(trees, [meta |-> {<<build.idToSha[i], i>> : i \in 1..Len(build.idToSha)},
                                   fwd |-> of("fwd"), rev |-> of("rev"), frontier |-> build.frontier])
    /\ build' = [emptyBuilder EXCEPT !.phase = IF build.reload THEN "written" ELSE "idle"]
    /\ UNCHANGED <<parents, reader, queries, rebuilds>>

\* a write or the read of a chunk fails, or the caller aborts: no tree
failRebuild ==
    /\ build.phase = "iterate" /\ build' = emptyBuilder
    /\ UNCHANGED <<parents, trees, reader, queries, rebuilds>>

----------------------------------------------------------------------------
(* Loading and reading.                                                    *)

\* checkStaleness, for an index that has a frontier
checkStaleness(f, current) == f # 0 /\ f # current

kinds == {"meta", "fwd", "rev"}
shardPaths(t) == {p \in kinds \X {0, 1} : \E x \in t[p[1]] : Prefix(x[1]) = p[2]}

setup(n, strict) ==
    /\ \E bad \in SUBSET shardPaths(trees[n]) :
         /\ Cardinality(bad) <= 1
         /\ reader' = [tree |-> n, strict |-> strict, cached |-> << >>, bad |-> bad,
                       known |-> FALSE, idToSha |-> {}]
    /\ queries' = << >>

idleReader == \A n \in 1..Len(queries) : queries[n].phase \in {"done", "failed"}

\* load, with or without autoRebuild: a stale index is used all the same
\* unless it is rebuilt.  A tree that is open is not loaded again: that gives
\* a reader like the one its first load gave
load ==
    /\ build.phase = "idle" /\ idleReader
    /\ \E n \in 1..Len(trees), strict, auto \in BOOLEAN :
         IF checkStaleness(trees[n].frontier, Len(parents)) /\ auto
         THEN rebuild(FALSE, 0, Len(parents), TRUE) /\ UNCHANGED <<reader, queries>>
         ELSE reader.tree # n /\ setup(n, strict) /\ UNCHANGED <<build, rebuilds>>
    /\ UNCHANGED <<parents, trees>>

loadRebuilt ==
    /\ build.phase = "written" /\ idleReader
    /\ \E strict \in BOOLEAN : setup(Len(trees), strict)
    /\ build' = emptyBuilder
    /\ UNCHANGED <<parents, trees, rebuilds>>

\* the index behind the shards that a reader has
openTree == trees[reader.tree]

\* where a path is in the cache
cachedAt(path) == {i \in 1..Len(reader.cached) : reader.cached[i].path = path}

\* the shard as the cache has it, or what reading it can give: "throw", or
\* its entries; a bad one is a throw, or empty for a reader that is not strict
shardContent(path) ==
    LET data == {x \in openTree[path[1]] : Prefix(x[1]) = path[2]}
    IN  IF cachedAt(path) # {}
        THEN {[ok |-> TRUE, data |-> reader.cached[i].data] : i \in cachedAt(path)}
        ELSE IF path \notin shardPaths(openTree) THEN {[ok |-> TRUE, data |-> {}]}
        ELSE {[ok |-> FALSE, data |-> {}]} \cup
             (IF path \notin reader.bad THEN {[ok |-> TRUE, data |-> data]}
              ELSE IF reader.strict THEN {} ELSE {[ok |-> TRUE, data |-> {}]})

\* LRUCache.get and set: a shard that is used comes to the end
cachePut(path, data) ==
    LET c == reader.cached
        at == CHOOSE i \in cachedAt(path) : TRUE
        rest == IF cachedAt(path) = {} THEN c ELSE SubSeq(c, 1, at - 1) \o SubSeq(c, at + 1, Len(c))
        used == Append(rest, [path |-> path, data |-> data])
    IN  IF path \notin shardPaths(openTree) THEN c
        ELSE IF Len(used) > maxCachedShards THEN Tail(used) ELSE used

startQuery ==
    /\ reader # noReader /\ Len(queries) < MaxQueries
    /\ OverlapQueries \/ idleReader
    /\ RetryQueries \/ \A n \in 1..Len(queries) : queries[n].phase # "failed"
    /\ \E sha \in 1..Len(parents), kind \in {"fwd", "rev"} :
         queries' = Append(queries, [sha |-> sha, kind |-> kind, phase |-> "edges", ids |-> {},
                                     todo |-> {}, answer |-> {}])
    /\ UNCHANGED <<parents, build, trees, reader, rebuilds>>

\* what a known id stands for; an unknown one is left out
shasOf(ids, map) == {s \in 1..MaxCommit : \E i \in ids : <<s, i>> \in map}

metaPaths == {p \in shardPaths(openTree) : p[1] = "meta"}

\* _getEdges: its shard, then the mapping unless somebody has begun to build it
_getEdges(n) ==
    LET q == queries[n]
        path == <<q.kind, Prefix(q.sha)>>
    IN  /\ q.phase = "edges"
        /\ \E c \in shardContent(path) :
             LET ids == {x[2] : x \in {y \in c.data : y[1] = q.sha}}
             IN  \/ /\ ~c.ok /\ queries' = [queries EXCEPT ![n] = [q EXCEPT !.phase = "failed"]]
                    /\ UNCHANGED reader
                 \/ /\ c.ok /\ ids # {} /\ ~reader.known
                    /\ queries' = [queries EXCEPT ![n] =
                         [q EXCEPT !.phase = "mapping", !.ids = ids, !.todo = metaPaths]]
                    /\ reader' = [reader EXCEPT !.cached = cachePut(path, c.data), !.known = TRUE]
                 \/ /\ c.ok /\ (ids = {} \/ reader.known)
                    /\ queries' = [queries EXCEPT ![n] =
                         [q EXCEPT !.phase = "done", !.answer = shasOf(ids, reader.idToSha)]]
                    /\ reader' = [reader EXCEPT !.cached = cachePut(path, c.data)]
        /\ UNCHANGED <<parents, build, trees, rebuilds>>

\* a turn of _buildIdToShaMapping: the mapping is visible while it is built,
\* and stays when a shard cannot be loaded
_buildIdToShaMapping(n) ==
    LET q == queries[n]
        path == CHOOSE p \in q.todo : TRUE
    IN  /\ q.phase = "mapping" /\ q.todo # {}
        /\ \E c \in shardContent(path) :
             \/ /\ ~c.ok /\ queries' = [queries EXCEPT ![n] = [q EXCEPT !.phase = "failed"]]
                /\ UNCHANGED reader
             \/ /\ c.ok /\ queries' = [queries EXCEPT ![n] = [q EXCEPT !.todo = q.todo \ {path}]]
                /\ reader' = [reader EXCEPT !.idToSha = @ \cup c.data,
                                            !.cached = cachePut(path, c.data)]
        /\ UNCHANGED <<parents, build, trees, rebuilds>>

\* the mapping is built
answer(n) ==
    LET q == queries[n]
    IN  /\ q.phase = "mapping" /\ q.todo = {}
        /\ queries' = [queries EXCEPT ![n] =
             [q EXCEPT !.phase = "done", !.answer = shasOf(q.ids, reader.idToSha)]]
        /\ UNCHANGED <<parents, build, trees, reader, rebuilds>>

CommitIndexNext ==
    \/ newCommit \/ startRebuild \/ registerNode \/ addParentEdge
    \/ endFlush \/ finishRebuild \/ failRebuild
    \/ load \/ loadRebuilt \/ startQuery
    \/ \E n \in 1..Len(queries) : _getEdges(n) \/ _buildIdToShaMapping(n) \/ answer(n)

CommitIndexSpec == CommitIndexInit /\ [][CommitIndexNext]_commitIndexVars

----------------------------------------------------------------------------
(* Properties.                                                             *)

\* whatever the memory limit and however many flushes, a tree holds the edges
\* between the commits it was built from, all of those its frontier names
\* among them, though commits are made meanwhile (StreamingBitmapIndexBuilder,
\* BitmapIndexBuilder)
treesHoldTheHistory ==
    \A n \in 1..Len(trees) :
      LET t == trees[n]
          shas == {x[1] : x \in t.meta}
          edges == {e \in shas \X shas : e[1] \in parents[e[2]]}
      IN  /\ 1..t.frontier \subseteq shas
          /\ \A x, y \in t.meta : (x[1] = y[1]) = (x[2] = y[2])
          /\ {e \in shas \X shas : \E y \in t.meta : y[1] = e[2] /\ <<e[1], y[2]>> \in t.fwd} = edges
          /\ {e \in shas \X shas : \E x \in t.meta : x[1] = e[1] /\ <<e[2], x[2]>> \in t.rev} = edges

\* a query that does not throw answers with the parents or the children of its
\* commit among the commits of the index; a reader that is not strict may
\* leave some out where a shard is bad (BitmapIndexReader)
answersAreExact ==
    \A n \in 1..Len(queries) : queries[n].phase = "done" =>
      LET q == queries[n]
          shas == {x[1] : x \in openTree.meta}
          exact == IF q.sha \notin shas THEN {}
                   ELSE IF q.kind = "rev" THEN parents[q.sha] ELSE {c \in shas : q.sha \in parents[c]}
      IN  q.answer \subseteq exact /\ (reader.strict \/ reader.bad = {} => q.answer = exact)

\* From the builder through the tree to the reader no edge between commits is
\* lost, invented or attributed to another commit, whatever was flushed,
\* evicted, cached or damaged on the way (StreamingBitmapIndexBuilder,
\* IndexRebuildService, BitmapIndexReader)
CommitIndexIsExact == treesHoldTheHistory /\ answersAreExact
=============================================================================
