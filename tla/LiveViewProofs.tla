--------------------------- MODULE LiveViewProofs ---------------------------
(***************************************************************************)
(* What subscribers of an instance know, for any graphs, patches, patterns  *)
(* and subscribers, and for commits that fall into a materialization.      *)
(***************************************************************************)
EXTENDS LiveView, TLAPS

\* No two properties of a view have one owner and key.
onePerKey(V) == \A p, q \in V.props : p[1] = q[1] /\ p[2] = q[2] => p = q

\* A view of a graph.
isView(V) == V = [nodes |-> V.nodes, edges |-> V.edges, props |-> V.props] /\ onePerKey(V)

keysOf(P) == {<<p[1], p[2]>> : p \in P}

----------------------------------------------------------------------------
(* Views and their differences.                                            *)

\* A state shows one value per property.
LEMMA ViewsAreViews == \A x : isView(viewOf(x))
  <1> SUFFICES ASSUME NEW x
               PROVE  isView(viewOf(x))
    OBVIOUS
  <1>1. CASE x = None
    BY <1>1 DEF viewOf, emptyView, isView, onePerKey
  <1>2. CASE x # None
    <2> DEFINE P == {<<p[1], p[2], x.prop[p].value>> : p \in {q \in Node \X Key : x.prop[q] # None}}
    <2>1. viewOf(x) = [nodes |-> aliveNodes(x), edges |-> visibleEdges(x), props |-> P]
      BY <1>2 DEF viewOf
    <2>2. ASSUME NEW p \in P, NEW q \in P, p[1] = q[1], p[2] = q[2]
          PROVE  p = q
      <3>1. PICK a \in Node \X Key : p = <<a[1], a[2], x.prop[a].value>>
        OBVIOUS
      <3>2. PICK b \in Node \X Key : q = <<b[1], b[2], x.prop[b].value>>
        OBVIOUS
      <3>3. a[1] = b[1] /\ a[2] = b[2]
        BY <2>2, <3>1, <3>2
      <3>4. a = b
        BY <3>3
      <3> QED
        BY <3>1, <3>2, <3>4
    <2> HIDE DEF P
    <2> QED
      BY <2>1, <2>2 DEF isView, onePerKey
  <1> QED
    BY <1>1, <1>2

\* The properties a subscriber ends up with are those of the new view.
LEMMA PropsFollow ==
    ASSUME NEW V, NEW W, onePerKey(V), onePerKey(W), NEW m,
           NEW p
    PROVE  LET known == {q \in V.props : q[1] \in m}
               changed == keysOf(W.props \ V.props) \cup (keysOf(V.props) \ keysOf(W.props))
               new == {q \in known : <<q[1], q[2]>> \notin changed} \cup (W.props \ V.props)
           IN  p \in {q \in new : q[1] \in m} <=> p \in {q \in W.props : q[1] \in m}
  <1> DEFINE known == {q \in V.props : q[1] \in m}
             changed == keysOf(W.props \ V.props) \cup (keysOf(V.props) \ keysOf(W.props))
             new == {q \in known : <<q[1], q[2]>> \notin changed} \cup (W.props \ V.props)
  <1>1. ASSUME p \in V.props, <<p[1], p[2]>> \notin changed
        PROVE  p \in W.props
    <2>1. <<p[1], p[2]>> \in keysOf(V.props)
      BY <1>1 DEF keysOf
    <2>2. <<p[1], p[2]>> \in keysOf(W.props)
      BY <1>1, <2>1
    <2>3. PICK q \in W.props : <<p[1], p[2]>> = <<q[1], q[2]>>
      BY <2>2 DEF keysOf
    <2>4. q \in V.props
      BY <1>1, <2>3 DEF keysOf
    <2> QED
      BY <1>1, <2>3, <2>4 DEF onePerKey
  <1>2. ASSUME p \in V.props, p \in W.props
        PROVE  <<p[1], p[2]>> \notin changed
    <2>1. <<p[1], p[2]>> \in keysOf(W.props)
      BY <1>2 DEF keysOf
    <2>2. ASSUME <<p[1], p[2]>> \in keysOf(W.props \ V.props)
          PROVE  FALSE
      <3>1. PICK q \in W.props \ V.props : <<p[1], p[2]>> = <<q[1], q[2]>>
        BY <2>2 DEF keysOf
      <3> QED
        BY <1>2, <3>1 DEF onePerKey
    <2> QED
      BY <2>1, <2>2
  <1> HIDE DEF changed
  <1>3. p \in {q \in new : q[1] \in m} <=> p \in {q \in W.props : q[1] \in m}
    BY <1>1, <1>2
  <1> QED
    BY <1>3 DEF changed
\* The nodes and the edges too, for any filter.
LEMMA SetsFollow ==
    ASSUME NEW A, NEW B, NEW K
    PROVE  /\ (((A \cap K) \ (A \ B)) \cup (B \ A)) \cap K = B \cap K
           /\ (A \ (A \ B)) \cup (B \ A) = B
  OBVIOUS

\* What is told of the difference of two states makes the filtered view of the
\* first one that of the second.
LEMMA ToldFollows ==
    ASSUME NEW a, NEW b, NEW m
    PROVE  filteredView(told(filteredView(viewOf(a), m), diffStates(a, b)), m)
             = filteredView(viewOf(b), m)
  <1>0. PICK V, W : V = viewOf(a) /\ W = viewOf(b)
    OBVIOUS
  <1>1. isView(V) /\ isView(W)
    BY <1>0, ViewsAreViews
  <1> DEFINE set == W.props \ V.props
             gone == keysOf(V.props) \ keysOf(W.props)
             changed == keysOf(set) \cup gone
             d == diffStates(a, b)
  <1>2. d = [nodesAdded |-> W.nodes \ V.nodes, nodesRemoved |-> V.nodes \ W.nodes,
             edgesAdded |-> W.edges \ V.edges, edgesRemoved |-> V.edges \ W.edges,
             propsSet |-> set, propsRemoved |-> gone]
    BY <1>0, Zenon DEF diffStates, keysOf
  <1>3. \A v : told(v, d) =
          [nodes |-> (v.nodes \ (V.nodes \ W.nodes)) \cup (W.nodes \ V.nodes),
           edges |-> (v.edges \ (V.edges \ W.edges)) \cup (W.edges \ V.edges),
           props |-> {p \in v.props : <<p[1], p[2]>> \notin changed} \cup set]
    <2>1. \A v : told(v, d) =
          [nodes |-> (v.nodes \ d.nodesRemoved) \cup d.nodesAdded,
           edges |-> (v.edges \ d.edgesRemoved) \cup d.edgesAdded,
           props |-> {p \in v.props : <<p[1], p[2]>> \notin keysOf(d.propsSet) \cup d.propsRemoved}
                        \cup d.propsSet]
      BY Zenon DEF told, keysOf
    <2>2. /\ d.nodesRemoved = V.nodes \ W.nodes /\ d.nodesAdded = W.nodes \ V.nodes
          /\ d.edgesRemoved = V.edges \ W.edges /\ d.edgesAdded = W.edges \ V.edges
          /\ d.propsSet = set /\ d.propsRemoved = gone
      BY <1>2
    <2> HIDE DEF d, set, gone
    <2> QED
      BY <2>1, <2>2, Zenon
  <1>3a. \A v : /\ told(v, d).nodes = (v.nodes \ (V.nodes \ W.nodes)) \cup (W.nodes \ V.nodes)
               /\ told(v, d).edges = (v.edges \ (V.edges \ W.edges)) \cup (W.edges \ V.edges)
               /\ told(v, d).props = {p \in v.props : <<p[1], p[2]>> \notin changed} \cup set
               /\ told(v, d) = [nodes |-> told(v, d).nodes, edges |-> told(v, d).edges,
                                props |-> told(v, d).props]
    <2> SUFFICES ASSUME NEW v
                 PROVE  /\ told(v, d).nodes = (v.nodes \ (V.nodes \ W.nodes)) \cup (W.nodes \ V.nodes)
                        /\ told(v, d).edges = (v.edges \ (V.edges \ W.edges)) \cup (W.edges \ V.edges)
                        /\ told(v, d).props = {p \in v.props : <<p[1], p[2]>> \notin changed} \cup set
                        /\ told(v, d) = [nodes |-> told(v, d).nodes, edges |-> told(v, d).edges,
                                         props |-> told(v, d).props]
      OBVIOUS
    <2>1. PICK x, y, z : /\ x = (v.nodes \ (V.nodes \ W.nodes)) \cup (W.nodes \ V.nodes)
                         /\ y = (v.edges \ (V.edges \ W.edges)) \cup (W.edges \ V.edges)
                         /\ z = {p \in v.props : <<p[1], p[2]>> \notin changed} \cup set
      OBVIOUS
    <2>2. told(v, d) = [nodes |-> x, edges |-> y, props |-> z]
      BY <1>3, <2>1, Zenon
    <2>3. told(v, d).nodes = x /\ told(v, d).edges = y /\ told(v, d).props = z
      BY <2>2
    <2> QED
      BY <2>1, <2>2, <2>3, Zenon
  <1> HIDE DEF d
  <1>4. \A M, p : p \in {q \in {r \in {s \in V.props : s[1] \in M} : <<r[1], r[2]>> \notin changed}
                                  \cup set : q[1] \in M}
                  <=> p \in {q \in W.props : q[1] \in M}
    <2> SUFFICES ASSUME NEW M, NEW p
                 PROVE  p \in {q \in {r \in {s \in V.props : s[1] \in M} : <<r[1], r[2]>> \notin changed}
                                  \cup set : q[1] \in M}
                          <=> p \in {q \in W.props : q[1] \in M}
      OBVIOUS
    <2>1. onePerKey(V) /\ onePerKey(W)
      BY <1>1 DEF isView
    <2> QED
      BY <2>1, PropsFollow, Zenon
  <1>5. CASE m = None
    <2>1. told(V, d).nodes = W.nodes /\ told(V, d).edges = W.edges
      BY <1>3a, SetsFollow, Zenon
    <2>2. told(V, d).props = W.props
      <3> DEFINE M == {q[1] : q \in V.props \cup W.props}
      <3>1. told(V, d).props = {p \in V.props : <<p[1], p[2]>> \notin changed} \cup set
        BY <1>3a
      <3>2. (\A p \in V.props : p[1] \in M) /\ (\A p \in W.props : p[1] \in M)
        OBVIOUS
      <3>3. \A p : p \in {q \in {r \in {s \in V.props : s[1] \in M} : <<r[1], r[2]>> \notin changed}
                                  \cup set : q[1] \in M}
                   <=> p \in {q \in W.props : q[1] \in M}
        BY <1>4
      <3> HIDE DEF M, changed
      <3>4. \A p : p \in {q \in V.props : <<q[1], q[2]>> \notin changed} \cup set <=> p \in W.props
        BY <3>2, <3>3
      <3> QED
        BY <3>1, <3>4
    <2>3. told(V, d) = W
      <3>1. told(V, d) = [nodes |-> told(V, d).nodes, edges |-> told(V, d).edges, props |-> told(V, d).props]
        BY <1>3a
      <3> QED
        BY <1>1, <2>1, <2>2, <3>1, Zenon DEF isView
    <2> QED
      BY <1>0, <1>5, <2>3, Zenon DEF filteredView, d
  <1>6. CASE m # None
    <2> DEFINE f == filteredView(V, m)
               t == told(f, d)
    <2>1. /\ f.nodes = V.nodes \cap m /\ f.edges = {e \in V.edges : {e[1], e[2]} \cap m # {}}
          /\ f.props = {s \in V.props : s[1] \in m}
      BY <1>6 DEF filteredView
    <2> HIDE DEF f
    <2>2. /\ t.nodes = (f.nodes \ (V.nodes \ W.nodes)) \cup (W.nodes \ V.nodes)
          /\ t.edges = (f.edges \ (V.edges \ W.edges)) \cup (W.edges \ V.edges)
          /\ t.props = {p \in f.props : <<p[1], p[2]>> \notin changed} \cup set
      BY <1>3a
    <2> HIDE DEF t, changed, set
    <2>3. t.nodes \cap m = W.nodes \cap m
      BY <2>1, <2>2
    <2>4. {e \in t.edges : {e[1], e[2]} \cap m # {}} = {e \in W.edges : {e[1], e[2]} \cap m # {}}
      BY <2>1, <2>2
    <2>5. {p \in t.props : p[1] \in m} = {p \in W.props : p[1] \in m}
      <3>1. \A p : p \in {q \in t.props : q[1] \in m} <=> p \in {q \in W.props : q[1] \in m}
        BY <1>4, <2>1, <2>2, Zenon
      <3> QED
        BY <3>1
    <2>6. filteredView(t, m) = filteredView(W, m)
      BY <1>6, <2>3, <2>4, <2>5, Zenon DEF filteredView
    <2> QED
      BY <1>0, <2>6, Zenon DEF t, f, d
  <1> QED
    BY <1>5, <1>6

----------------------------------------------------------------------------
(* What a subscriber knows.                                                *)

Instance(D) == [cached : D, dirty : D, vv : D, tree : D, index : D, provider : D, viewHash : D,
                lastFrontier : D, lastNotified : D]

isInstance(h) == \E D : h \in Instance(D)

isSubscriber(u) ==
    \E D : u \in [pendingReplay : D, polls : D, match : D, base : D, view : D]

\* A subscriber that waits for its replay knows nothing, another the part it
\* matches of the state that was notified last.
follows(u, last) ==
    u.view = IF u.pendingReplay THEN emptyView ELSE filteredView(viewOf(last), u.match)

\* The property, while a materialization is under way too, and what those that
\* still wait for a replay know.
SubsInv ==
    /\ isInstance(g) /\ subs = [s \in Subscriber |-> subs[s]]
    /\ \A s \in Subscriber :
          subs[s] # None =>
            /\ isSubscriber(subs[s])
            /\ subs[s].base = "notified" => follows(subs[s], g.lastNotified)

\* The view changes nothing that subscribers were told.
LEMMA ViewKeeps ==
    ASSUME NEW h, isInstance(h), NEW base, NEW diff
    PROVE  isInstance(_buildView(h, base, diff)) /\ _buildView(h, base, diff).lastNotified = h.lastNotified
  <1> PICK hash, t : /\ hash = stateHash(h.cached)
                     /\ t = IF diff # None /\ h.tree # None
                            THEN updateIndex(h.tree, diff, h.cached) ELSE build_index(h.cached)
    OBVIOUS
  <1>1. _buildView(h, base, diff) = IF h.viewHash = hash THEN [h EXCEPT !.provider = FALSE]
          ELSE [h EXCEPT !.tree = t, !.index = t, !.viewHash = hash, !.provider = TRUE]
    BY Zenon DEF _buildView
  <1>2. PICK D : h \in Instance(D)
    BY DEF isInstance
  <1>3. /\ [h EXCEPT !.provider = FALSE] \in Instance(D \cup {FALSE})
        /\ [h EXCEPT !.provider = FALSE].lastNotified = h.lastNotified
    BY <1>2 DEF Instance
  <1>4. /\ [h EXCEPT !.tree = t, !.index = t, !.viewHash = hash, !.provider = TRUE]
             \in Instance(D \cup {t, hash, TRUE})
        /\ [h EXCEPT !.tree = t, !.index = t, !.viewHash = hash, !.provider = TRUE].lastNotified = h.lastNotified
    BY <1>2 DEF Instance
  <1> QED
    BY <1>1, <1>3, <1>4, Zenon DEF isInstance

\* A step that leaves the subscribers, and what they were notified of, alone.
LEMMA NothingTold ==
    ASSUME SubsInv, isInstance(g'), g'.lastNotified = g.lastNotified, subs' = subs
    PROVE  SubsInv'
  BY Zenon DEF SubsInv, follows, isSubscriber

\* A step of one subscriber.
LEMMA OneSubscriber ==
    ASSUME SubsInv, NEW s \in Subscriber, NEW u, subs' = [subs EXCEPT ![s] = u], g' = g,
           u # None => isSubscriber(u) /\ (u.base = "notified" => follows(u, g.lastNotified))
    PROVE  SubsInv'
  <1>1. isInstance(g) /\ subs = [x \in Subscriber |-> subs[x]]
    BY DEF SubsInv
  <1>2. subs' = [x \in Subscriber |-> subs'[x]]
    BY <1>1
  <1>3. \A x \in Subscriber : subs'[x] = IF x = s THEN u ELSE subs[x]
    BY <1>1
  <1>4. \A x \in Subscriber :
          subs'[x] # None =>
            /\ isSubscriber(subs'[x])
            /\ subs'[x].base = "notified" => follows(subs'[x], g.lastNotified)
    <2> SUFFICES ASSUME NEW x \in Subscriber, subs'[x] # None
                 PROVE  /\ isSubscriber(subs'[x])
                        /\ subs'[x].base = "notified" => follows(subs'[x], g.lastNotified)
      BY Zenon
    <2>1. CASE x = s
      BY <1>3, <2>1, Zenon
    <2>2. CASE x # s
      BY <1>3, <2>2, Zenon DEF SubsInv
    <2> QED
      BY <2>1, <2>2
  <1> QED
    BY <1>1, <1>2, <1>4, Zenon DEF SubsInv, isSubscriber, follows

\* A subscriber that is notified knows the state it is notified of.
LEMMA NotifiedFollows ==
    ASSUME NEW u, isSubscriber(u), NEW last, NEW state
    PROVE  LET v == _notifySubscribers(u, diffStates(last, state), state)
           IN  /\ isSubscriber(v) /\ v.base = u.base
               /\ follows(u, last) => follows(v, state)
  <1> PICK d : d = IF u.pendingReplay THEN diffStates(None, state) ELSE diffStates(last, state)
    OBVIOUS
  <1> PICK w : w = filteredView(told(u.view, d), u.match)
    OBVIOUS
  <1> DEFINE v == _notifySubscribers(u, diffStates(last, state), state)
  <1>1. v = [u EXCEPT !.pendingReplay = FALSE, !.view = w]
    BY Zenon DEF _notifySubscribers
  <1> HIDE DEF v
  <1>2. PICK D : u \in [pendingReplay : D, polls : D, match : D, base : D, view : D]
    BY DEF isSubscriber
  <1>3. /\ v.pendingReplay = FALSE /\ v.match = u.match /\ v.base = u.base /\ v.view = w
        /\ v \in [pendingReplay : D \cup {FALSE, w}, polls : D \cup {FALSE, w}, match : D \cup {FALSE, w},
                  base : D \cup {FALSE, w}, view : D \cup {FALSE, w}]
    BY <1>1, <1>2
  <1>4. isSubscriber(v)
    BY <1>3, Zenon DEF isSubscriber
  <1>5. ASSUME follows(u, last)
        PROVE  w = filteredView(viewOf(state), u.match)
    <2>1. CASE u.pendingReplay
      <3>1. u.view = emptyView /\ d = diffStates(None, state)
        BY <1>5, <2>1, Zenon DEF follows
      <3>2. filteredView(viewOf(None), u.match) = emptyView
        <4>1. viewOf(None) = emptyView
          BY DEF viewOf
        <4>2. CASE u.match = None
          BY <4>1, <4>2 DEF filteredView
        <4>3. CASE u.match # None
          BY <4>1, <4>3 DEF filteredView, emptyView
        <4> QED
          BY <4>2, <4>3
      <3>3. filteredView(told(filteredView(viewOf(None), u.match), diffStates(None, state)), u.match)
              = filteredView(viewOf(state), u.match)
        BY ToldFollows
      <3> QED
        BY <3>1, <3>2, <3>3
    <2>2. CASE ~u.pendingReplay
      <3>1. u.view = filteredView(viewOf(last), u.match) /\ d = diffStates(last, state)
        BY <1>5, <2>2, Zenon DEF follows
      <3>2. filteredView(told(filteredView(viewOf(last), u.match), diffStates(last, state)), u.match)
              = filteredView(viewOf(state), u.match)
        BY ToldFollows
      <3> QED
        BY <3>1, <3>2
    <2> QED
      BY <2>1, <2>2
  <1>6. follows(u, last) => follows(v, state)
    BY <1>3, <1>5, Zenon DEF follows
  <1> QED
    BY <1>3, <1>4, <1>6, Zenon DEF v

\* The steps that change the instance and tell nobody.
LEMMA InstanceSteps ==
    ASSUME isInstance(g),
           commit \/ commitView \/ join \/ invalidateIndex \/ install \/ installView
    PROVE  isInstance(g') /\ g'.lastNotified = g.lastNotified /\ subs' = subs
  <1>1. PICK D : g \in Instance(D)
    BY DEF isInstance
  <1>2. CASE commit
    <2>1. /\ subs' = subs
          /\ \/ \E a, b : g' = [g EXCEPT !.cached = a, !.vv = b]
             \/ \E a : g' = [g EXCEPT !.dirty = TRUE, !.viewHash = None, !.vv = a]
      <3> DEFINE s == IF g.cached = None THEN createEmptyStateV5 ELSE g.cached
                 known == IF g.lastFrontier = None THEN chain[Me]
                          ELSE patchesAt([g.lastFrontier EXCEPT ![Me] = Len(chain[Me])])
                 made(calls) == newPatch(Me, s, g.vv, lamportAfter(known), calls)
                 r(calls) == applyWithDiff(g.cached, made(calls))
      <3>1. /\ subs' = subs
            /\ \E calls \in Intent :
                 \/ g' = [g EXCEPT !.cached = r(calls).state, !.vv = r(calls).state.observedFrontier]
                 \/ g' = [g EXCEPT !.dirty = TRUE, !.viewHash = None, !.vv = vvIncrement(g.vv, Me)]
        BY <1>2 DEF commit
      <3> HIDE DEF r
      <3> QED
        BY <3>1, Zenon
    <2>2. ASSUME NEW a, NEW b, g' = [g EXCEPT !.cached = a, !.vv = b]
          PROVE  g' \in Instance(D \cup {a, b}) /\ g'.lastNotified = g.lastNotified
      BY <1>1, <2>2 DEF Instance
    <2>3. ASSUME NEW a, g' = [g EXCEPT !.dirty = TRUE, !.viewHash = None, !.vv = a]
          PROVE  g' \in Instance(D \cup {a, TRUE, None}) /\ g'.lastNotified = g.lastNotified
      BY <1>1, <2>3 DEF Instance
    <2> QED
      BY <2>1, <2>2, <2>3, Zenon DEF isInstance
  <1>3. CASE commitView
    <2>1. PICK h, a : /\ h = _buildView(g, pending.base, pending.diff)
                      /\ g' = [h EXCEPT !.lastFrontier = a] /\ subs' = subs
      BY <1>3 DEF commitView
    <2>2. isInstance(h) /\ h.lastNotified = g.lastNotified
      BY <2>1, ViewKeeps, Zenon
    <2>3. PICK E : h \in Instance(E)
      BY <2>2 DEF isInstance
    <2>4. g' \in Instance(E \cup {a}) /\ g'.lastNotified = h.lastNotified
      BY <2>1, <2>3 DEF Instance
    <2> QED
      BY <2>1, <2>2, <2>4, Zenon DEF isInstance
  <1>4. CASE join
    <2>1. PICK a, b : /\ g' = [g EXCEPT !.cached = a, !.vv = b, !.dirty = FALSE, !.tree = None,
                                       !.index = None, !.provider = FALSE, !.viewHash = None]
                      /\ subs' = subs
      BY <1>4, Zenon DEF join
    <2>2. g' \in Instance(D \cup {a, b, FALSE, None}) /\ g'.lastNotified = g.lastNotified
      BY <1>1, <2>1 DEF Instance
    <2> QED
      BY <2>1, <2>2, Zenon DEF isInstance
  <1>5. CASE invalidateIndex
    <2>1. subs' = subs /\ g' = [g EXCEPT !.tree = None, !.viewHash = None]
      BY <1>5 DEF invalidateIndex
    <2>2. g' \in Instance(D \cup {None}) /\ g'.lastNotified = g.lastNotified
      BY <1>1, <2>1 DEF Instance
    <2> QED
      BY <2>1, <2>2, Zenon DEF isInstance
  <1>6. CASE install
    <2>1. PICK a, b : g' = [g EXCEPT !.cached = a, !.dirty = FALSE, !.vv = b] /\ subs' = subs
      BY <1>6, Zenon DEF install
    <2>2. g' \in Instance(D \cup {a, b, FALSE}) /\ g'.lastNotified = g.lastNotified
      BY <1>1, <2>1 DEF Instance
    <2> QED
      BY <2>1, <2>2, Zenon DEF isInstance
  <1>7. CASE installView
    <2>1. subs' = subs /\ g' = _buildView(g, createEmptyStateV5, job.diff)
      BY <1>7 DEF installView
    <2> QED
      BY <2>1, ViewKeeps, Zenon
  <1> QED
    BY <1>2, <1>3, <1>4, <1>5, <1>6, <1>7

\* The notification.
LEMMA NotifyStep ==
    ASSUME SubsInv, notify
    PROVE  SubsInv'
  <1>1. PICK last, state : last = g.lastNotified /\ state = g.cached
    OBVIOUS
  <1>2. /\ subs' = [s \in Subscriber |-> IF subs[s] = None THEN None
                       ELSE _notifySubscribers(subs[s], diffStates(last, state), state)]
        /\ \E f : g' = [g EXCEPT !.lastFrontier = f, !.lastNotified = state]
    BY <1>1, Zenon DEF notify
  <1>3. isInstance(g') /\ g'.lastNotified = state
    <2>1. PICK D : g \in Instance(D)
      BY DEF SubsInv, isInstance
    <2>2. PICK f : g' = [g EXCEPT !.lastFrontier = f, !.lastNotified = state]
      BY <1>2
    <2>3. g' \in Instance(D \cup {f, state}) /\ g'.lastNotified = state
      BY <2>1, <2>2 DEF Instance
    <2> QED
      BY <2>3, Zenon DEF isInstance
  <1>4. subs' = [s \in Subscriber |-> subs'[s]]
    BY <1>2
  <1>5. ASSUME NEW s \in Subscriber, subs'[s] # None
        PROVE  isSubscriber(subs'[s]) /\ (subs'[s].base = "notified" => follows(subs'[s], state))
    <2>1. subs'[s] = IF subs[s] = None THEN None
                     ELSE _notifySubscribers(subs[s], diffStates(last, state), state)
      BY <1>2
    <2>2. subs[s] # None /\ subs'[s] = _notifySubscribers(subs[s], diffStates(last, state), state)
      BY <1>5, <2>1
    <2>3. isSubscriber(subs[s]) /\ (subs[s].base = "notified" => follows(subs[s], last))
      BY <1>1, <2>2 DEF SubsInv
    <2>4. PICK u, v : u = subs[s] /\ v = subs'[s]
      OBVIOUS
    <2>5. isSubscriber(u) /\ v = _notifySubscribers(u, diffStates(last, state), state)
      BY <2>2, <2>3, <2>4
    <2>6. isSubscriber(v) /\ v.base = u.base /\ (follows(u, last) => follows(v, state))
      BY <2>5, NotifiedFollows, Zenon
    <2> QED
      BY <2>3, <2>4, <2>6
  <1> QED
    BY <1>3, <1>4, <1>5, Zenon DEF SubsInv, isSubscriber, follows

\* The subscriptions.
LEMMA SubscribeSteps ==
    ASSUME SubsInv, NEW s \in Subscriber, subscribe(s) \/ watch(s) \/ unsubscribe(s)
    PROVE  SubsInv'
  <1>1. PICK last : last = g.lastNotified
    OBVIOUS
  <1>2. CASE subscribe(s)
    <2>1. PICK replay, u :
            /\ replay \in BOOLEAN /\ subs' = [subs EXCEPT ![s] = u] /\ g' = g
            /\ u = [pendingReplay |-> replay /\ g.cached = None, polls |-> FALSE, match |-> None,
                    base |-> IF replay /\ g.cached # None THEN "cached" ELSE "notified",
                    view |-> IF replay /\ g.cached # None
                             THEN told(emptyView, diffStates(None, g.cached))
                             ELSE IF replay THEN emptyView ELSE viewOf(last)]
      BY <1>1, <1>2, Zenon DEF subscribe
    <2>2. PICK x1, x2, x3 : /\ x1 = (replay /\ g.cached = None)
                            /\ x2 = IF replay /\ g.cached # None THEN "cached" ELSE "notified"
                            /\ x3 = IF replay /\ g.cached # None
                                    THEN told(emptyView, diffStates(None, g.cached))
                                    ELSE IF replay THEN emptyView ELSE viewOf(last)
      OBVIOUS
    <2>3. u = [pendingReplay |-> x1, polls |-> FALSE, match |-> None, base |-> x2, view |-> x3]
      BY <2>1, <2>2, Zenon
    <2>4. isSubscriber(u)
      <3>1. u \in [pendingReplay : {x1, FALSE, None, x2, x3}, polls : {x1, FALSE, None, x2, x3},
                   match : {x1, FALSE, None, x2, x3}, base : {x1, FALSE, None, x2, x3},
                   view : {x1, FALSE, None, x2, x3}]
        BY <2>3
      <3> QED
        BY <3>1, Zenon DEF isSubscriber
    <2>5. u.pendingReplay = x1 /\ u.match = None /\ u.base = x2 /\ u.view = x3
      BY <2>3
    <2>6. ASSUME x2 = "notified"
          PROVE  x3 = IF x1 THEN emptyView ELSE viewOf(last)
      <3>1. ~(replay /\ g.cached # None)
        BY <2>2, <2>6
      <3>2. x3 = IF replay THEN emptyView ELSE viewOf(last)
        BY <2>2, <3>1
      <3>3. x1 = replay
        BY <2>1, <2>2, <3>1
      <3> QED
        BY <3>2, <3>3
    <2>7. u.base = "notified" => follows(u, g.lastNotified)
      BY <1>1, <2>5, <2>6 DEF follows, filteredView
    <2> QED
      BY <2>1, <2>4, <2>7, OneSubscriber
  <1>3. CASE watch(s)
    <2>1. PICK match, u :
            /\ match \in Pattern /\ subs' = [subs EXCEPT ![s] = u] /\ g' = g
            /\ u = [pendingReplay |-> FALSE, polls |-> TRUE, match |-> match, base |-> "notified",
                    view |-> filteredView(viewOf(last), match)]
      BY <1>1, <1>3, Zenon DEF watch
    <2>2. PICK x : x = filteredView(viewOf(last), match)
      OBVIOUS
    <2>3. u = [pendingReplay |-> FALSE, polls |-> TRUE, match |-> match, base |-> "notified", view |-> x]
      BY <2>1, <2>2, Zenon
    <2>4. isSubscriber(u)
      <3>1. u \in [pendingReplay : {FALSE, TRUE, match, "notified", x}, polls : {FALSE, TRUE, match, "notified", x},
                   match : {FALSE, TRUE, match, "notified", x}, base : {FALSE, TRUE, match, "notified", x},
                   view : {FALSE, TRUE, match, "notified", x}]
        BY <2>3
      <3> QED
        BY <3>1, Zenon DEF isSubscriber
    <2>5. u.pendingReplay = FALSE /\ u.match = match /\ u.view = x
      BY <2>3
    <2>6. follows(u, g.lastNotified)
      BY <1>1, <2>2, <2>5, Zenon DEF follows
    <2> QED
      BY <2>1, <2>4, <2>6, OneSubscriber
  <1>4. CASE unsubscribe(s)
    <2>1. subs' = [subs EXCEPT ![s] = None] /\ g' = g
      BY <1>4 DEF unsubscribe
    <2> QED
      BY <2>1, OneSubscriber
  <1> QED
    BY <1>2, <1>3, <1>4

\* A subscriber that started from what was notified last, or waited for its
\* replay, knows exactly the part it matches of the state of the last
\* notification: for any graphs, patterns and subscribers, and also where
\* commits fall into a materialization (subscribe, watch, _notifySubscribers,
\* diffStates).
THEOREM SubscribersAlwaysFollow == Spec => []SubscribersFollowNotifications
  <1>1. Init => SubsInv
    <2> SUFFICES ASSUME Init
                 PROVE  SubsInv
      OBVIOUS
    <2>1. \E D : g \in Instance(D)
      <3>1. PICK x : x = createVersionVector
        OBVIOUS
      <3>2. g = [cached |-> None, dirty |-> FALSE, vv |-> x, tree |-> None, index |-> None, provider |-> FALSE,
                 viewHash |-> None, lastFrontier |-> None, lastNotified |-> None]
        BY <3>1 DEF Init
      <3>3. g \in Instance({None, FALSE, x})
        BY <3>2 DEF Instance
      <3> QED
        BY <3>3, Zenon
    <2>2. subs = [s \in Subscriber |-> None]
      BY DEF Init
    <2> QED
      BY <2>1, <2>2 DEF SubsInv, isInstance
  <1>2. SubsInv /\ [Next]_vars => SubsInv'
    <2> SUFFICES ASSUME SubsInv, [Next]_vars
                 PROVE  SubsInv'
      OBVIOUS
    <2>1. ASSUME isInstance(g') /\ g'.lastNotified = g.lastNotified /\ subs' = subs
          PROVE  SubsInv'
      BY <2>1, NothingTold
    <2>2. CASE commit \/ commitView \/ join \/ invalidateIndex \/ install \/ installView
      BY <2>1, <2>2, InstanceSteps DEF SubsInv
    <2>3. CASE notify
      BY <2>3, NotifyStep
    <2>4. CASE \E s \in Subscriber : subscribe(s) \/ watch(s) \/ unsubscribe(s)
      BY <2>4, SubscribeSteps
    <2>5. CASE \E w \in Writer : remoteCommit(w) \/ walk(w)
      BY <2>1, <2>5 DEF remoteCommit, walk, SubsInv
    <2>6. CASE materialize("caller") \/ poll
      BY <2>1, <2>6 DEF materialize, poll, SubsInv
    <2>7. CASE UNCHANGED vars
      BY <2>1, <2>7 DEF vars, SubsInv
    <2> QED
      BY <2>2, <2>3, <2>4, <2>5, <2>6, <2>7 DEF Next
  <1>3. SubsInv => SubscribersFollowNotifications
    BY DEF SubsInv, SubscribersFollowNotifications, follows
  <1> QED
    BY <1>1, <1>2, <1>3, PTL DEF Spec

=============================================================================
