----------------------------- MODULE IndexTree -----------------------------
(***************************************************************************)
(* The logical index of a graph with nodes in place of ids, and its update *)
(* from a diff (IncrementalIndexUpdater), one kind of change after the     *)
(* other.                                                                  *)
(*                                                                         *)
(* An index is [known, alive, labels, fwd, rev, props]: known are the      *)
(* nodes that have a numeric id, alive the alive bitmap, fwd and rev hold  *)
(* a row <<owner, bucket, target>> for every bit of the edge bitmaps, with *)
(* a bucket for each label and one for all, props holds <<owner, key,      *)
(* value>>.  A diff is [nodesAdded, nodesRemoved, edgesAdded,              *)
(* edgesRemoved, propsChanged], an edge <<from, to, label>>.               *)
(***************************************************************************)

\* edgeVisibleV5, for a graph [nodes, edges, props] of what is alive
visible(g) == {e \in g.edges : {e[1], e[2]} \subseteq g.nodes}

\* the net diff of one graph to another
diffOf(g, h) ==
    [nodesAdded |-> h.nodes \ g.nodes, nodesRemoved |-> g.nodes \ h.nodes,
     edgesAdded |-> h.edges \ g.edges, edgesRemoved |-> g.edges \ h.edges,
     propsChanged |-> h.props \ g.props]

rows(from, label, to) == {<<from, "all", to>>, <<from, label, to>>}

\* a node that has no id gets one
_handleNodes(t, diff) ==
    [t EXCEPT !.known = @ \cup diff.nodesAdded,
              !.alive = (@ \cup diff.nodesAdded) \ diff.nodesRemoved]

\* the rows of the dead nodes, and the bits of them that these rows lead to
_purgeNodeEdges(t, dead) ==
    [t EXCEPT !.fwd = {r \in @ : /\ r[1] \notin dead
                                 /\ ~(r[3] \in dead /\ <<r[3], r[2], r[1]>> \in t.rev)},
              !.rev = {r \in @ : /\ r[1] \notin dead
                                 /\ ~(r[3] \in dead /\ <<r[3], r[2], r[1]>> \in t.fwd)}]

\* both ends need an id
_handleEdgeAdd(t, E) ==
    LET F == {e \in E : {e[1], e[2]} \subseteq t.known}
    IN  [t EXCEPT !.labels = @ \cup {e[3] : e \in E},
                  !.fwd = @ \cup UNION {rows(e[1], e[3], e[2]) : e \in F},
                  !.rev = @ \cup UNION {rows(e[2], e[3], e[1]) : e \in F}]

\* the owners' rows of the bucket "all" are computed again from their labels
_recomputeAllBucket(R, owners, labels) ==
    {r \in R : r[2] # "all" \/ r[1] \notin owners}
      \cup {<<r[1], "all", r[3]>> : r \in {q \in R : q[1] \in owners /\ q[2] \in labels}}

_handleEdgeRemove(t, E) ==
    LET F == {e \in E : {e[1], e[2]} \subseteq t.known /\ e[3] \in t.labels}
    IN  [t EXCEPT !.fwd = _recomputeAllBucket(@ \ {<<e[1], e[3], e[2]>> : e \in F},
                                              {e[1] : e \in F}, t.labels),
                  !.rev = _recomputeAllBucket(@ \ {<<e[2], e[3], e[1]>> : e \in F},
                                              {e[2] : e \in F}, t.labels)]

_handleProps(t, changed) ==
    [t EXCEPT !.props = {p \in @ : \A q \in changed : p[1] # q[1] \/ p[2] # q[2]} \cup changed]

\* a mutant: edges come back only with the diff
_collectNoReadded(t, diff, nodes, edges) == {}

\* the edges that a node brings back when it is added again; a node that
\* the index has never seen brings none
_collectReaddedEdgeKeys(t, diff, nodes, edges) ==
    {e \in edges \ diff.edgesAdded :
        /\ {e[1], e[2]} \subseteq nodes
        /\ {e[1], e[2]} \cap diff.nodesAdded \cap t.known # {}}

\* nodes and edges are those of the state that the diff leads to
computeDirtyShards(t, diff, nodes, edges) ==
    LET all     == _handleNodes(t, diff)
        purged  == _purgeNodeEdges(all, diff.nodesRemoved \cap all.known)
        added   == _handleEdgeAdd(purged, {e \in diff.edgesAdded : {e[1], e[2]} \subseteq nodes})
        removed == _handleEdgeRemove(added, diff.edgesRemoved)
        back    == _handleEdgeAdd(removed, _collectReaddedEdgeKeys(t, diff, nodes, edges))
    IN  _handleProps(back, diff.propsChanged)

----------------------------------------------------------------------------
(* LogicalIndexReader.                                                     *)

isAlive(index, n) == n \in index.known /\ n \in index.alive

\* getEdges of the logical index, without a label filter: the bucket "all"
\* is never read
indexEdges(index, n, direction) ==
    {<<r[3], r[2]>> : r \in {q \in (IF direction = "out" THEN index.fwd ELSE index.rev) :
                               q[1] = n /\ q[2] # "all"}}
=============================================================================
