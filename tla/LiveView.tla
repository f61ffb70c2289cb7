------------------------------ MODULE LiveView ------------------------------
(***************************************************************************)
(* One WarpGraph instance over time: materialize() walks the chains,       *)
(* installs a state, awaits its hash, brings the index up to date, reads   *)
(* the frontier and notifies subscribers; commits of the instance's own    *)
(* writer are applied to the cached state at once; join() merges another   *)
(* state in; watch() polls.  Another writer commits in between.            *)
(*                                                                         *)
(* exact is a history variable: nothing has yet happened to the index that *)
(* the incremental update does not cover (see appliesExactly).             *)
(***************************************************************************)
EXTENDS ViewIndex
LOCAL INSTANCE SequencesExt

CONSTANTS
    Me,           \* the writer of the instance; the others are remote
    Subscriber,   \* the possible subscribers
    Seed,         \* builder calls of a patch that was there before, not by Me
    Pattern,      \* what watch() may match: a set of sets of nodes
    Intent,       \* what a patch may do: a set of sequences of builder calls
    MaxPatches,   \* bound on the patches of all writers
    Overlap       \* commits may fall into a materialization

ASSUME MeAssumption == Me \in Writer

VARIABLES
    chain,    \* chain[w]: the patches behind the ref of writer w
    g,        \* the instance: cached state, flags, index, frontiers
    job,      \* the materialization under way, or None
    pending,  \* the eager commit that awaits the hash of its state, or None
    subs,     \* subs[s]: what subscriber s was told, or None
    exact

vars == <<chain, g, job, pending, subs, exact>>

patchCount == FoldFunction(LAMBDA p, n : Len(p) + n, 0, chain)

\* getFrontier: here the number of patches behind each ref
getFrontier == [w \in Writer |-> Len(chain[w])]

\* the patches of a frontier, writer by writer
writerOrder == SetToSeq(Writer)
patchesAt(frontier) ==
    FoldLeft(LAMBDA ps, w : ps \o SubSeq(chain[w], 1, frontier[w]), << >>, writerOrder)

----------------------------------------------------------------------------
(* Commits.                                                                *)

\* the builder calls of an intent
call(b, state, c) ==
    CASE c.do = "addNode" -> addNode(b, c.node)
      [] c.do = "removeNode" ->
            removeNode(b, state, c.node, CHOOSE o \in cascadeOrders(b, state, c.node) : TRUE)
      [] c.do = "addEdge" -> addEdge(b, c.edge)
      [] c.do = "removeEdge" -> removeEdge(b, state, c.edge)
      [] c.do = "setProperty" -> setProperty(b, c.node, c.key, c.value)

newPatch(w, state, vv, lamport, calls) ==
    build(FoldLeft(LAMBDA b, c : call(b, state, c), newBuilder(w, lamport, vv, {}), calls),
          lamport, patchCount + 1)

lamportAfter(patches) == 1 + FoldLeft(LAMBDA n, p : maxOf(n, p.lamport), 0, patches)

seedPatch(w) ==
    build(FoldLeft(LAMBDA b, c : call(b, createEmptyStateV5, c),
                   newBuilder(w, 1, createVersionVector, {}), Seed), 1, 0)

Init ==
    /\ chain \in {[w \in Writer |-> IF w = v THEN <<seedPatch(v)>> ELSE << >>] : v \in Writer \ {Me}}
    /\ g = [cached |-> None, dirty |-> FALSE, vv |-> createVersionVector,
            tree |-> None, index |-> None, provider |-> FALSE, viewHash |-> None,
            lastFrontier |-> None, lastNotified |-> None]
    /\ job = None /\ pending = None
    /\ subs = [s \in Subscriber |-> None]
    /\ exact = TRUE

quiet == Overlap \/ (job = None /\ pending = None)

\* another writer commits; it has read its own chain and some of the others
remoteCommit(w) ==
    /\ w # Me /\ quiet /\ patchCount < MaxPatches
    /\ \E calls \in Intent, f \in {h \in [Writer -> 0..MaxPatches] :
                                     h[w] = Len(chain[w]) /\ \A v \in Writer : h[v] <= Len(chain[v])} :
          LET s == reduceV5(patchesAt(f), createEmptyStateV5).state
          IN  chain' = [chain EXCEPT ![w] = Append(@,
                          newPatch(w, s, s.observedFrontier, lamportAfter(patchesAt(f)), calls))]
    /\ UNCHANGED <<g, job, pending, subs, exact>>

\* The part of _onPatchCommitted before its first await.  With a clean cached
\* state the patch is applied to it in place, and the diff goes to the index.
commit ==
    /\ quiet /\ patchCount < MaxPatches /\ pending = None
    /\ \E calls \in Intent :
         LET s == IF g.cached = None THEN createEmptyStateV5 ELSE g.cached
             known == IF g.lastFrontier = None THEN chain[Me]
                      ELSE patchesAt([g.lastFrontier EXCEPT ![Me] = Len(chain[Me])])
             patch == newPatch(Me, s, g.vv, lamportAfter(known), calls)
             r == applyWithDiff(g.cached, patch)
         IN  /\ chain' = [chain EXCEPT ![Me] = Append(@, patch)]
             /\ \/ /\ g.cached # None /\ ~g.dirty
                   /\ g' = [g EXCEPT !.cached = r.state, !.vv = r.state.observedFrontier]
                   /\ pending' = [diff |-> r.diff, base |-> g.cached]
                \/ /\ g.cached = None \/ g.dirty
                   /\ g' = [g EXCEPT !.dirty = TRUE, !.viewHash = None,
                                     !.vv = vvIncrement(g.vv, Me)]
                   /\ UNCHANGED pending
    /\ UNCHANGED <<job, subs, exact>>

----------------------------------------------------------------------------
(* The view.                                                               *)

\* What makes an update from a diff as good as a build: the index showed the
\* state that the diff starts from, no thing is both added and removed, and
\* no node comes to the index for the first time with edges or properties
\* that are older than the diff.
appliesExactly(tree, base, diff, state) ==
    LET new == diff.nodesAdded \ tree.known
    IN  /\ exact /\ verifyIndex(base, tree) = {} /\ tree.alive = aliveNodes(base)
        /\ diff.nodesAdded \cap diff.nodesRemoved = {}
        /\ diff.edgesAdded \cap diff.edgesRemoved = {}
        /\ \A e \in aliveEdges(state) : {e[1], e[2]} \cap new # {} => e \in diff.edgesAdded
        /\ \A n \in diff.nodesAdded, k \in Key :
              state.prop[<<n, k>>] # None =>
                \E p \in diff.propsChanged \cup tree.props : p[1] = n /\ p[2] = k

\* _buildView: nothing to do for the state the view already shows (the new
\* graph object then has no provider), else from the diff or in full
_buildView(h, base, diff) ==
    LET hash == stateHash(h.cached)
        tree == IF diff # None /\ h.tree # None
                THEN updateIndex(h.tree, diff, h.cached) ELSE build_index(h.cached)
    IN  IF h.viewHash = hash THEN [h EXCEPT !.provider = FALSE]
        ELSE [h EXCEPT !.tree = tree, !.index = tree, !.viewHash = hash, !.provider = TRUE]

\* exactness after _buildView
exactAfter(h, base, diff) ==
    IF h.viewHash = stateHash(h.cached) THEN exact
    ELSE IF diff # None /\ h.tree # None THEN appliesExactly(h.tree, base, diff, h.cached)
    ELSE TRUE

\* a mutant: the refs of all the writers count as seen
advanceAll(frontier) == getFrontier

\* the own patch counts as seen, once there is a frontier
advance(frontier) ==
    IF frontier = None THEN None ELSE [frontier EXCEPT ![Me] = Len(chain[Me])]

\* the hash has come: the index follows the eager commit, and the frontier
commitView ==
    /\ pending # None
    /\ g' = [_buildView(g, pending.base, pending.diff) EXCEPT
               !.lastFrontier = advance(@)]
    /\ exact' = exactAfter(g, pending.base, pending.diff)
    /\ pending' = None
    /\ UNCHANGED <<chain, job, subs>>

\* join: the merged state is installed without an index
join ==
    /\ g.cached # None /\ quiet
    /\ LET s == joinStates(g.cached, reduceV5(patchesAt(getFrontier), createEmptyStateV5).state)
       IN  g' = [g EXCEPT !.cached = s, !.vv = s.observedFrontier, !.dirty = FALSE,
                          !.tree = None, !.index = None, !.provider = FALSE, !.viewHash = None]
    /\ UNCHANGED <<chain, job, pending, subs, exact>>

\* the index stays in use until the next build, which is a full one
invalidateIndex ==
    /\ g.tree # None
    /\ g' = [g EXCEPT !.tree = None, !.viewHash = None]
    /\ UNCHANGED <<chain, job, pending, subs, exact>>

----------------------------------------------------------------------------
(* materialize().                                                          *)

\* wantDiff is decided before the chains are walked
materialize(by) ==
    /\ job = None /\ (Overlap \/ pending = None)
    /\ job' = [pc |-> "walk", by |-> by, wantDiff |-> g.tree # None,
               got |-> [w \in Writer |-> -1], diff |-> None]
    /\ UNCHANGED <<chain, g, pending, subs, exact>>

\* _loadWriterPatches: the chain of one writer, as it is now
walk(w) ==
    /\ job # None /\ job.pc = "walk" /\ job.got[w] = -1
    /\ job' = [job EXCEPT !.got[w] = Len(chain[w])]
    /\ UNCHANGED <<chain, g, pending, subs, exact>>

\* the reduction, and _setMaterializedState up to its await
install ==
    /\ job # None /\ job.pc = "walk" /\ \A w \in Writer : job.got[w] >= 0
    /\ LET r == reduceV5(patchesAt(job.got), createEmptyStateV5)
       IN  /\ g' = [g EXCEPT !.cached = r.state, !.dirty = FALSE,
                             !.vv = r.state.observedFrontier]
           /\ job' = [job EXCEPT !.pc = "hash",
                                 !.diff = IF job.wantDiff THEN r.diff ELSE None]
    /\ UNCHANGED <<chain, pending, subs, exact>>

\* the hash has come; the diff starts from the empty state
installView ==
    /\ job # None /\ job.pc = "hash"
    /\ g' = _buildView(g, createEmptyStateV5, job.diff)
    /\ exact' = exactAfter(g, createEmptyStateV5, job.diff)
    /\ job' = [job EXCEPT !.pc = "frontier"]
    /\ UNCHANGED <<chain, pending, subs>>

\* filteredOnChange of watch(): an edge matches if either end does; without a
\* pattern there is no filter
filteredView(view, match) ==
    IF match = None THEN view
    ELSE [nodes |-> view.nodes \cap match,
          edges |-> {e \in view.edges : {e[1], e[2]} \cap match # {}},
          props |-> {p \in view.props : p[1] \in match}]

\* what onChange makes of a diff
told(view, d) ==
    LET changed == {<<p[1], p[2]>> : p \in d.propsSet} \cup d.propsRemoved
    IN  [nodes |-> (view.nodes \ d.nodesRemoved) \cup d.nodesAdded,
         edges |-> (view.edges \ d.edgesRemoved) \cup d.edgesAdded,
         props |-> {p \in view.props : <<p[1], p[2]>> \notin changed} \cup d.propsSet]

\* _notifySubscribers: a deferred replay is sent the whole state, the others
\* the difference, if there is one
_notifySubscribers(s, delta, state) ==
    [s EXCEPT !.pendingReplay = FALSE,
              !.view = filteredView(told(@, IF s.pendingReplay THEN diffStates(None, state)
                                            ELSE delta), s.match)]

\* the frontier is read again, then subscribers hear what changed since they
\* last heard something
notify ==
    /\ job # None /\ job.pc = "frontier"
    /\ LET delta == diffStates(g.lastNotified, g.cached)
       IN  subs' = [s \in Subscriber |-> IF subs[s] = None THEN None
                                         ELSE _notifySubscribers(subs[s], delta, g.cached)]
    /\ g' = [g EXCEPT !.lastFrontier = getFrontier, !.lastNotified = g.cached]
    /\ job' = None
    /\ UNCHANGED <<chain, pending, exact>>

----------------------------------------------------------------------------
(* Subscriptions.  A subscriber that asks for a replay gets the cached     *)
(* state at once, or the first one there is; another starts from what was  *)
(* notified last.  base says what its picture started from.                *)

subscribe(s) ==
    /\ subs[s] = None
    /\ \E replay \in BOOLEAN :
         subs' = [subs EXCEPT ![s] =
           [pendingReplay |-> replay /\ g.cached = None, polls |-> FALSE, match |-> None,
            base |-> IF replay /\ g.cached # None THEN "cached" ELSE "notified",
            view |-> IF replay /\ g.cached # None
                     THEN told(emptyView, diffStates(None, g.cached))
                     ELSE IF replay THEN emptyView ELSE viewOf(g.lastNotified)]]
    /\ UNCHANGED <<chain, g, job, pending, exact>>

\* watch() with the option poll
watch(s) ==
    /\ subs[s] = None
    /\ \E match \in Pattern :
         subs' = [subs EXCEPT ![s] =
           [pendingReplay |-> FALSE, polls |-> TRUE, match |-> match, base |-> "notified",
            view |-> filteredView(viewOf(g.lastNotified), match)]]
    /\ UNCHANGED <<chain, g, job, pending, exact>>

unsubscribe(s) ==
    /\ subs[s] # None
    /\ subs' = [subs EXCEPT ![s] = None]
    /\ UNCHANGED <<chain, g, job, pending, exact>>

\* a mutant: the writers are compared, their tips are not
hasWritersChanged ==
    g.lastFrontier # None => \E w \in Writer : g.lastFrontier[w] = 0 /\ Len(chain[w]) > 0

hasFrontierChanged == g.lastFrontier = None \/ g.lastFrontier # getFrontier

\* cachedState of status()
status == IF g.cached = None THEN "none" ELSE IF g.dirty \/ hasFrontierChanged THEN "stale" ELSE "fresh"

\* the interval of watch(): skipped while an earlier poll is in flight
poll ==
    /\ \E s \in Subscriber : subs[s] # None /\ subs[s].polls
    /\ hasFrontierChanged
    /\ materialize("poll")

Next ==
    \/ \E w \in Writer : remoteCommit(w) \/ walk(w)
    \/ commit \/ commitView \/ join \/ invalidateIndex
    \/ materialize("caller") \/ poll \/ install \/ installView \/ notify
    \/ \E s \in Subscriber : subscribe(s) \/ watch(s) \/ unsubscribe(s)

\* The interval fires, and every promise settles.  This is the weak fairness
\* of each action, with the condition under which it is enabled written out:
\* TLC would run the reducer to find it.
Fairness ==
    /\ WF_vars(poll) /\ \A w \in Writer : WF_vars(walk(w))
    /\ <>[](job # None /\ job.pc = "walk" /\ \A w \in Writer : job.got[w] >= 0)
         => []<><<install>>_vars
    /\ <>[](job # None /\ job.pc = "hash") => []<><<installView>>_vars
    /\ <>[](job # None /\ job.pc = "frontier") => []<><<notify>>_vars
    /\ <>[](pending # None) => []<><<commitView>>_vars

Spec == Init /\ [][Next]_vars /\ Fairness

----------------------------------------------------------------------------
(* Properties.                                                             *)

settled == job = None /\ pending = None /\ g.cached # None /\ ~g.dirty

\* As long as every update of the index was of the kind that the incremental
\* update covers, what neighbors and getNodeProps answer is what a scan of the
\* cached state answers, and the bucket "all" is the union of the labels
\* (IncrementalIndexUpdater, query.methods)
IncrementalReadsAreExact ==
    settled /\ exact =>
      /\ \A n \in Node :
           /\ neighbors(g.cached, g.index, g.provider, n) = _linearNeighbors(g.cached, n)
           /\ n \in aliveNodes(g.cached) =>
                getNodeProps(g.cached, g.index, n) = linearNodeProps(g.cached, n)
      /\ g.tree # None => \A r \in g.tree.fwd \cup g.tree.rev :
                            r[2] # "all" => <<r[1], "all", r[3]>> \in
                               (IF r \in g.tree.fwd THEN g.tree.fwd ELSE g.tree.rev)

\* A clean instance shows exactly the patches of the frontier that it
\* remembers for change detection, or more (after join): a patch counted as
\* seen is in the state, and every patch behind the refs when status() says
\* fresh (materialize, _onPatchCommitted, status)
FrontierDescribesState ==
    LET holds(f) == LET s == reduceV5(patchesAt(f), createEmptyStateV5).state
                    IN  joinStates(g.cached, s) = g.cached
    IN  /\ settled /\ g.lastFrontier # None => holds(g.lastFrontier)
        /\ settled /\ status = "fresh" => holds(getFrontier)

\* A subscriber that started from what was notified last, or waited for its
\* replay, knows exactly the part it matches of the state of the last
\* notification (_notifySubscribers, watch, StateDiff)
SubscribersFollowNotifications ==
    job = None =>
      \A s \in Subscriber :
        subs[s] # None /\ subs[s].base = "notified" /\ ~subs[s].pendingReplay =>
          subs[s].view = filteredView(viewOf(g.lastNotified), subs[s].match)

\* With a subscriber that polls, a patch that is not counted as seen is in
\* the end (watch); FrontierDescribesState says that it is then in the state
PollDelivers ==
    LET behind == g.lastFrontier # getFrontier
        polling(s) == subs[s] # None /\ subs[s].polls
    IN  \A s \in Subscriber : (polling(s) /\ behind) ~> (~polling(s) \/ ~behind)
=============================================================================
