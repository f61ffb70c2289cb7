----------------------------- MODULE SyncProofs -----------------------------
(***************************************************************************)
(* Proofs about Sync, for any set of peers, of clients and of trusted      *)
(* writers, and any number of patches, calls and retries.                  *)
(***************************************************************************)
EXTENDS Sync, ChainProofs, TLAPS

----------------------------------------------------------------------------
(* The inductive invariant.                                                *)

\* Refs name patches that exist, and so do cached states and answers.
TypeInv ==
    /\ chain \in Chain
    /\ refs \in [Peer -> Tips]
    /\ \A x \in Peer, w \in Writer : refs[x][w] <= Len(chain[w])
    /\ cached \in [Peer -> StateRec \cup {None}]
    /\ \A x \in Peer : cached[x] # None => Within(chain, cached[x].got)
    /\ session \in [Peer -> Session \cup {None}]
    /\ \A x \in Peer : session[x] # None => Within(chain, session[x].response.patches)

\* What the session of x knows of the refs and the cached state of x.  What it
\* asked with is behind the refs, and what the cached state had then it has still.
SessionKnows(s, ref, state) ==
    /\ s.phase \in {"sent", "received", "admitted"} =>
          /\ \A w \in Writer : s.request[w] <= ref[w]
          /\ s.complete /\ state # None => upTo(s.request) \subseteq state.got
    /\ s.phase \in {"received", "admitted"} =>
          s.response.patches = between(s.request, s.response.frontier)
    /\ s.phase = "admitted" =>
          /\ state # None
          /\ allowed(s.mode, extractWritersFromPatches(s.response.patches))

SessionInv ==
    \A x \in Peer : session[x] # None => SessionKnows(session[x], refs[x], cached[x])

\* All that the patches of a state add and none of them removes is alive, and
\* nothing is a tombstone that none of them removes.
Alive(s, c) ==
    /\ addsOf(c, s.got) \ removesOf(c, s.got) \subseteq observedDots(s)
    /\ s.set.tombstones \subseteq removesOf(c, s.got)

AliveInv == \A x \in Peer : cached[x] # None => Alive(cached[x], chain)

----------------------------------------------------------------------------
(* States.                                                                 *)

LEMMA EmptyStateFacts ==
    /\ emptyState \in StateRec
    /\ \A c : Within(c, emptyState.got) /\ Alive(emptyState, c)
  <1>1. /\ emptyState.got = {}
        /\ emptyState.set.tombstones = {}
        /\ emptyState \in StateRec
    BY DEF emptyState, createORSet, StateRec, ORSet
  <1>2. \A c : addsOf(c, {}) = {} /\ Within(c, {})
    BY DEF addsOf, Within
  <1> QED
    BY <1>1, <1>2 DEF Alive

\* Patches that are applied leave nothing dead that should be alive.
LEMMA AppliedAlive ==
    ASSUME NEW c \in Chain, NEW s \in StateRec, Within(c, s.got), Alive(s, c),
           NEW ids, Within(c, ids)
    PROVE  /\ applied(s, c, ids) \in StateRec
           /\ applied(s, c, ids).got = s.got \cup ids
           /\ Within(c, applied(s, c, ids).got)
           /\ Alive(applied(s, c, ids), c)
  <1> DEFINE new == applied(s, c, ids)
             A(x) == addsOf(c, x)
             R(x) == removesOf(c, x)
  <1>1. /\ new \in StateRec
        /\ new.got = s.got \cup ids
        /\ new.set.entries = s.set.entries \cup ({TheNode} \X A(ids))
        /\ new.set.tombstones = s.set.tombstones \cup R(ids)
    BY AppliedType DEF applied
  <1> HIDE DEF new
  <1>2. Within(c, new.got)
    BY <1>1 DEF Within
  <1>3. \A d : /\ d \in A(new.got) <=> d \in A(s.got) \/ d \in A(ids)
               /\ d \in R(new.got) <=> d \in R(s.got) \/ d \in R(ids)
    BY <1>1, AddsRemoves
  <1>4. \A d : /\ <<TheNode, d>> \in new.set.entries <=> <<TheNode, d>> \in s.set.entries \/ d \in A(ids)
               /\ d \in new.set.tombstones <=> d \in s.set.tombstones \/ d \in R(ids)
    BY <1>1
  <1>5. /\ \A d : d \in observedDots(s) => <<TheNode, d>> \in s.set.entries
        /\ \A d : d \in observedDots(new)
                    <=> <<TheNode, d>> \in new.set.entries /\ d \notin new.set.tombstones
    BY <1>1, ObservedType
  <1>6. /\ \A d : d \in A(s.got) /\ d \notin R(s.got) => d \in observedDots(s)
        /\ \A d : d \in s.set.tombstones => d \in R(s.got)
    BY DEF Alive
  <1> HIDE DEF A, R
  <1>7. \A d : d \in A(new.got) /\ d \notin R(new.got) => d \in observedDots(new)
    BY <1>3, <1>4, <1>5, <1>6, Zenon
  <1>8. \A d : d \in new.set.tombstones => d \in R(new.got)
    BY <1>3, <1>4, <1>6, Zenon
  <1>9. Alive(new, c)
    BY <1>7, <1>8 DEF Alive, A, R
  <1> QED
    BY <1>1, <1>2, <1>9 DEF new

\* Chains that grow leave it so.
LEMMA AliveGrows ==
    ASSUME NEW c \in Chain, NEW d, Longer(c, d), NEW s \in StateRec,
           Within(c, s.got), Alive(s, c)
    PROVE  Within(d, s.got) /\ Alive(s, d)
  <1>1. /\ Within(d, s.got)
        /\ addsOf(d, s.got) = addsOf(c, s.got)
        /\ removesOf(d, s.got) = removesOf(c, s.got)
    BY WithinGrows
  <1> QED
    BY <1>1 DEF Alive

\* So does compaction.
LEMMA CompactedAlive ==
    ASSUME NEW s \in StateRec, NEW c, Alive(s, c)
    PROVE  Alive(executeGC(s), c)
  BY Compacted DEF Alive

\* The patches of a frontier that the chains reach.
LEMMA BetweenWithin ==
    ASSUME NEW c \in Chain, NEW from \in Tips, NEW to \in Tips,
           \A w \in Writer : to[w] <= Len(c[w])
    PROVE  Within(c, between(from, to))
  <1>1. ASSUME NEW g \in between(from, to)
        PROVE  g \in PatchId /\ g[2] \in 1..Len(c[g[1]])
    <2>1. PICK w \in Writer : g \in {w} \X ((from[w] + 1)..to[w])
      BY DEF between
    <2>2. from[w] \in Nat /\ to[w] \in Nat /\ Len(c[w]) \in Nat
      BY DEF Tips, Chain
    <2>3. g = <<w, g[2]>> /\ g[1] = w /\ g[2] \in (from[w] + 1)..to[w]
      BY <2>1
    <2>4. g[2] \in Nat /\ g[2] \in 1..Len(c[w])
      BY <2>2, <2>3
    <2> QED
      BY <2>3, <2>4 DEF PatchId
  <1> QED
    BY <1>1 DEF Within

\* What is up to a frontier is up to an earlier one or between the two.
LEMMA UpToSplits ==
    ASSUME NEW from \in Tips, NEW to \in Tips
    PROVE  upTo(to) \subseteq upTo(from) \cup between(from, to)
  <1> SUFFICES ASSUME NEW g \in upTo(to)
               PROVE  g \in upTo(from) \/ g \in between(from, to)
    OBVIOUS
  <1>1. \A w \in Writer : NoTips[w] = 0
    BY DEF NoTips
  <1>2. PICK w \in Writer : g \in {w} \X ((NoTips[w] + 1)..to[w])
    BY DEF upTo, between
  <1>3. from[w] \in Nat /\ to[w] \in Nat
    BY DEF Tips
  <1>4. CASE g[2] <= from[w]
    <2>1. g \in {w} \X ((NoTips[w] + 1)..from[w])
      BY <1>1, <1>2, <1>3, <1>4
    <2> QED
      BY <2>1 DEF upTo, between
  <1>5. CASE ~ (g[2] <= from[w])
    <2>1. g \in {w} \X ((from[w] + 1)..to[w])
      BY <1>1, <1>2, <1>3, <1>5
    <2> QED
      BY <2>1 DEF between
  <1> QED
    BY <1>4, <1>5

\* A frontier further on has all that an earlier one has.
LEMMA UpToGrows ==
    ASSUME NEW from \in Tips, NEW to \in Tips, \A w \in Writer : from[w] <= to[w]
    PROVE  upTo(from) \subseteq upTo(to)
  <1> SUFFICES ASSUME NEW g \in upTo(from) PROVE g \in upTo(to)
    OBVIOUS
  <1>1. PICK w \in Writer : g \in {w} \X ((NoTips[w] + 1)..from[w])
    BY DEF upTo, between
  <1>2. from[w] \in Nat /\ to[w] \in Nat /\ from[w] <= to[w] /\ NoTips[w] = 0
    BY DEF Tips, NoTips
  <1>3. g \in {w} \X ((NoTips[w] + 1)..to[w])
    BY <1>1, <1>2
  <1> QED
    BY <1>3 DEF upTo, between

\* The state that the refs are reduced to.
LEMMA ReducedFacts ==
    ASSUME TypeInv, NEW x \in Peer
    PROVE  /\ reduceV5(x) \in StateRec
           /\ reduceV5(x).got = upTo(refs[x])
           /\ Within(chain, reduceV5(x).got)
           /\ Alive(reduceV5(x), chain)
  <1>1. /\ chain \in Chain
        /\ refs[x] \in Tips
        /\ \A w \in Writer : refs[x][w] <= Len(chain[w])
    BY DEF TypeInv
  <1>2. NoTips \in Tips
    BY DEF NoTips, Tips
  <1>3. Within(chain, upTo(refs[x]))
    BY <1>1, <1>2, BetweenWithin DEF upTo
  <1>4. emptyState \in StateRec /\ Within(chain, emptyState.got) /\ Alive(emptyState, chain)
    BY EmptyStateFacts
  <1>5. emptyState.got = {}
    BY DEF emptyState
  <1> DEFINE empty == emptyState
             all   == upTo(refs[x])
  <1>6. reduceV5(x) = applied(empty, chain, all) /\ all = {} \cup all
    BY DEF reduceV5
  <1> HIDE DEF empty, all
  <1>7. /\ empty \in StateRec /\ empty.got = {}
        /\ Within(chain, empty.got) /\ Alive(empty, chain)
        /\ Within(chain, all)
    BY <1>3, <1>4, <1>5 DEF empty, all
  <1>8. /\ applied(empty, chain, all) \in StateRec
        /\ applied(empty, chain, all).got = empty.got \cup all
        /\ Within(chain, applied(empty, chain, all).got)
        /\ Alive(applied(empty, chain, all), chain)
    BY <1>1, <1>7, AppliedAlive
  <1> QED
    BY <1>6, <1>7, <1>8 DEF all

----------------------------------------------------------------------------
(* Steps.                                                                  *)

IInv == TypeInv /\ AliveInv /\ SessionInv

LEMMA InitIInv == Init => IInv
  <1> SUFFICES ASSUME Init PROVE IInv
    OBVIOUS
  <1>1. chain \in Chain /\ NoTips \in Tips
    BY DEF Init, Chain, NoTips, Tips
  <1>2. \A w \in Writer : NoTips[w] = 0 /\ Len(chain[w]) = 0
    BY DEF Init, NoTips
  <1> QED
    BY <1>1, <1>2 DEF Init, IInv, TypeInv, AliveInv, SessionInv, Peer

\* The fields of a session.
LEMMA SessionFields ==
    ASSUME TypeInv, NEW x \in Peer, session[x] # None
    PROVE  /\ session[x] \in Session
           /\ session[x].peer \in Peer
           /\ session[x].mode \in Mode
           /\ session[x].attempt \in Nat
           /\ session[x].request \in Tips
           /\ session[x].response \in Response
           /\ session[x].response.frontier \in Tips
           /\ session[x].response.patches \in SUBSET PatchId
           /\ session[x].complete \in BOOLEAN
  <1>1. session[x] \in Session
    BY DEF TypeInv
  <1> QED
    BY <1>1 DEF Session, Response

\* What cached and session hold for x after a step that only they take part in.
Fits(x, state, s) ==
    /\ state # None => /\ state \in StateRec
                       /\ Within(chain, state.got)
                       /\ Alive(state, chain)
    /\ s # None => /\ s \in Session
                   /\ Within(chain, s.response.patches)
                   /\ SessionKnows(s, refs[x], state)

LEMMA FitsNow ==
    ASSUME IInv, NEW x \in Peer
    PROVE  Fits(x, cached[x], session[x])
  BY DEF Fits, IInv, TypeInv, AliveInv, SessionInv

LEMMA LocalStep ==
    ASSUME IInv, NEW x \in Peer, NEW state, NEW s, Fits(x, state, s),
           UNCHANGED <<chain, refs>>,
           cached' = [cached EXCEPT ![x] = state],
           session' = [session EXCEPT ![x] = s]
    PROVE  IInv'
  <1>1. /\ cached \in [Peer -> StateRec \cup {None}]
        /\ session \in [Peer -> Session \cup {None}]
    BY DEF IInv, TypeInv
  <1>2. /\ cached'[x] = state /\ session'[x] = s
        /\ \A y \in Peer : y # x => cached'[y] = cached[y] /\ session'[y] = session[y]
    BY <1>1
  <1>3. /\ state \in StateRec \cup {None}
        /\ s \in Session \cup {None}
    BY DEF Fits
  <1>4. /\ cached' \in [Peer -> StateRec \cup {None}]
        /\ session' \in [Peer -> Session \cup {None}]
    BY <1>1, <1>3
  <1>5. TypeInv'
    BY <1>2, <1>4 DEF IInv, TypeInv, Fits
  <1>6. AliveInv'
    BY <1>2 DEF IInv, AliveInv, Fits
  <1>7. SessionInv'
    BY <1>2 DEF IInv, SessionInv, Fits
  <1> QED
    BY <1>5, <1>6, <1>7 DEF IInv

LEMMA CachedStep ==
    ASSUME IInv, NEW x \in Peer, NEW state, Fits(x, state, session[x]),
           UNCHANGED <<chain, refs, session>>,
           cached' = [cached EXCEPT ![x] = state]
    PROVE  IInv'
  <1>1. session' = [session EXCEPT ![x] = session[x]]
    BY DEF IInv, TypeInv
  <1> DEFINE s == session[x]
  <1> HIDE DEF s
  <1> QED
    BY <1>1, LocalStep DEF s

LEMMA SessionStep ==
    ASSUME IInv, NEW x \in Peer, NEW s, Fits(x, cached[x], s),
           UNCHANGED <<chain, refs, cached>>,
           session' = [session EXCEPT ![x] = s]
    PROVE  IInv'
  <1>1. cached' = [cached EXCEPT ![x] = cached[x]]
    BY DEF IInv, TypeInv
  <1> DEFINE state == cached[x]
  <1> HIDE DEF state
  <1> QED
    BY <1>1, LocalStep DEF state

\* A commit: one more patch, one ref further, and the patch in the cached state.
LEMMA CommitKeeps ==
    ASSUME IInv, NEW x \in Peer, NEW adds \in SUBSET Dot, NEW removes \in SUBSET Dot,
           commit(x, adds, removes)
    PROVE  IInv'
  <1> DEFINE patch == [adds |-> adds, removes |-> removes]
             ids   == {<<x, Len(chain[x]) + 1>>}
             new   == applied(cached[x], chain', ids)
  <1>1. /\ patch \in PatchRec /\ x \in Writer
        /\ chain \in Chain
        /\ refs \in [Peer -> Tips]
        /\ \A y \in Peer, w \in Writer : refs[y][w] <= Len(chain[w])
        /\ cached \in [Peer -> StateRec \cup {None}]
        /\ session' = session
    BY DEF PatchRec, IInv, TypeInv, Peer, commit
  <1>2. chain' = grown(chain, x, patch)
    BY DEF commit, grown
  <1>3. /\ chain' \in Chain
        /\ Longer(chain, chain')
        /\ Len(chain'[x]) = Len(chain[x]) + 1
    <2> HIDE DEF patch
    <2> QED BY <1>1, <1>2, ChainGrows
  <1>4. /\ refs' \in [Peer -> Tips]
        /\ \A y \in Peer, w \in Writer : refs[y][w] <= refs'[y][w] /\ refs'[y][w] <= Len(chain'[w])
    <2> DEFINE ref == [refs[x] EXCEPT ![x] = refs[x][x] + 1]
    <2>1. refs' = [refs EXCEPT ![x] = ref]
      BY DEF commit
    <2>2. refs[x] \in Tips /\ refs[x][x] \in Nat
      BY <1>1 DEF Tips
    <2>3. /\ ref \in Tips
          /\ ref[x] = refs[x][x] + 1
          /\ \A w \in Writer : w # x => ref[w] = refs[x][w]
      BY <1>1, <2>2 DEF Tips
    <2> HIDE DEF ref
    <2>4. /\ refs' \in [Peer -> Tips]
          /\ refs'[x] = ref
          /\ \A y \in Peer : y # x => refs'[y] = refs[y]
      BY <1>1, <2>1, <2>3
    <2>5. \A w \in Writer : Len(chain[w]) \in Nat /\ Len(chain'[w]) \in Nat
                           /\ Len(chain[w]) <= Len(chain'[w])
      BY <1>3 DEF Longer
    <2>6. \A y \in Peer, w \in Writer : refs[y][w] \in Nat
      BY <1>1 DEF Tips
    <2>7. ASSUME NEW w \in Writer
          PROVE  refs[x][w] <= ref[w] /\ ref[w] <= Len(chain'[w])
      BY <1>1, <1>3, <2>2, <2>3, <2>5, <2>6
    <2>8. ASSUME NEW y \in Peer, NEW w \in Writer, y # x
          PROVE  refs[y][w] <= refs'[y][w] /\ refs'[y][w] <= Len(chain'[w])
      BY <1>1, <2>4, <2>5, <2>6, <2>8
    <2> QED
      BY <2>4, <2>7, <2>8
  <1>5. Within(chain', ids)
    BY <1>1, <1>3 DEF Within, PatchId, Longer
  <1>6. \A y \in Peer : cached[y] # None =>
           /\ cached[y] \in StateRec
           /\ Within(chain', cached[y].got)
           /\ Alive(cached[y], chain')
    BY <1>1, <1>3, AliveGrows DEF IInv, TypeInv, AliveInv
  <1> HIDE DEF ids
  <1>7. cached[x] # None =>
           /\ new \in StateRec
           /\ new.got = cached[x].got \cup ids
           /\ Within(chain', new.got)
           /\ Alive(new, chain')
    BY <1>3, <1>5, <1>6, AppliedAlive
  <1>8. cached' = IF cached[x] = None THEN cached ELSE [cached EXCEPT ![x] = new]
    BY DEF commit, ids
  <1> HIDE DEF new
  <1>9. /\ cached' \in [Peer -> StateRec \cup {None}]
        /\ \A y \in Peer : y # x \/ cached[y] = None => cached'[y] = cached[y]
        /\ cached[x] # None => cached'[x] = new
    BY <1>1, <1>7, <1>8
  <1>10. \A y \in Peer : cached'[y] # None =>
            /\ Within(chain', cached'[y].got)
            /\ Alive(cached'[y], chain')
            /\ cached[y] # None => cached[y].got \subseteq cached'[y].got
            /\ cached[y] # None
    BY <1>6, <1>7, <1>9
  <1>11. \A y \in Peer : session'[y] # None => Within(chain', session'[y].response.patches)
    BY <1>1, <1>3, WithinGrows DEF IInv, TypeInv
  <1>12. TypeInv'
    BY <1>1, <1>3, <1>4, <1>9, <1>10, <1>11 DEF IInv, TypeInv
  <1>13. AliveInv'
    BY <1>10 DEF AliveInv
  <1>14. ASSUME NEW y \in Peer, session'[y] # None
         PROVE  SessionKnows(session'[y], refs'[y], cached'[y])
    <2>1. SessionKnows(session[y], refs[y], cached[y]) /\ session[y].request \in Tips
      BY <1>1, <1>14, SessionFields DEF IInv, SessionInv
    <2>2. \A w \in Writer : /\ session[y].request[w] \in Nat
                            /\ refs[y][w] \in Nat /\ refs'[y][w] \in Nat
                            /\ refs[y][w] <= refs'[y][w]
      BY <1>1, <1>4, <2>1 DEF Tips
    <2>3. cached[y] # None => cached'[y] # None
      BY <1>7, <1>9, NoneIsNoState
    <2> QED
      BY <1>1, <1>10, <2>1, <2>2, <2>3 DEF SessionKnows
  <1> QED
    BY <1>12, <1>13, <1>14 DEF IInv, SessionInv

\* A fetch moves one ref, to a patch that exists.
LEMMA FetchKeeps ==
    ASSUME IInv, NEW x \in Peer, NEW w \in Writer, fetch(x, w)
    PROVE  IInv'
  <1> DEFINE ref == [refs[x] EXCEPT ![w] = refs[w][w]]
  <1>1. /\ refs' = [refs EXCEPT ![x] = ref]
        /\ refs[w][w] > refs[x][w]
        /\ UNCHANGED <<chain, cached, session, syncs>>
    BY DEF fetch
  <1>2. /\ chain \in Chain /\ refs \in [Peer -> Tips] /\ refs[x] \in Tips
        /\ \A y \in Peer, v \in Writer : refs[y][v] \in Nat /\ refs[y][v] <= Len(chain[v])
        /\ w \in Peer
    BY DEF IInv, TypeInv, Tips, Peer
  <1>3. /\ ref \in Tips
        /\ ref[w] = refs[w][w]
        /\ \A v \in Writer : v # w => ref[v] = refs[x][v]
    BY <1>2 DEF Tips
  <1> HIDE DEF ref
  <1>4. /\ refs' \in [Peer -> Tips]
        /\ refs'[x] = ref
        /\ \A y \in Peer : y # x => refs'[y] = refs[y]
    BY <1>1, <1>2, <1>3
  <1>5. ASSUME NEW v \in Writer
        PROVE  ref[v] \in Nat /\ refs[x][v] <= ref[v] /\ ref[v] <= Len(chain[v])
    <2>1. CASE v = w
      <3>1. ref[w] \in Nat /\ refs[x][w] \in Nat /\ ref[w] > refs[x][w] /\ ref[w] <= Len(chain[w])
        BY <1>1, <1>2, <1>3
      <3> QED
        BY <2>1, <3>1
    <2>2. CASE v # w
      <3>1. ref[v] = refs[x][v] /\ refs[x][v] \in Nat /\ refs[x][v] <= Len(chain[v])
        BY <1>2, <1>3, <2>2
      <3> QED
        BY <3>1
    <2> QED
      BY <2>1, <2>2
  <1>6. TypeInv'
    BY <1>1, <1>2, <1>4, <1>5 DEF IInv, TypeInv
  <1>7. AliveInv'
    BY <1>1 DEF IInv, AliveInv
  <1>8. ASSUME NEW y \in Peer, session'[y] # None
        PROVE  SessionKnows(session'[y], refs'[y], cached'[y])
    <2>1. SessionKnows(session[y], refs[y], cached[y]) /\ session[y].request \in Tips
      BY <1>1, <1>8, SessionFields DEF IInv, SessionInv
    <2>2. ASSUME NEW v \in Writer
          PROVE  /\ session[y].request[v] \in Nat
                 /\ refs[y][v] \in Nat /\ refs'[y][v] \in Nat
                 /\ refs[y][v] <= refs'[y][v]
      <3>1. session[y].request[v] \in Nat /\ refs[y][v] \in Nat /\ refs'[y][v] \in Nat
        BY <1>2, <1>4, <2>1 DEF Tips
      <3>2. CASE y = x
        BY <1>4, <1>5, <3>1, <3>2
      <3>3. CASE y # x
        BY <1>4, <3>1, <3>3
      <3> QED
        BY <3>1, <3>2, <3>3
    <2> QED
      BY <1>1, <2>1, <2>2 DEF SessionKnows
  <1> QED
    BY <1>6, <1>7, <1>8 DEF IInv, SessionInv

\* The state of the refs has whatever a session of x asked with.
LEMMA ReducedFits ==
    ASSUME IInv, NEW x \in Peer
    PROVE  Fits(x, reduceV5(x), session[x])
  <1>1. /\ reduceV5(x) \in StateRec
        /\ reduceV5(x).got = upTo(refs[x])
        /\ Within(chain, reduceV5(x).got)
        /\ Alive(reduceV5(x), chain)
    BY ReducedFacts DEF IInv
  <1>2. SUFFICES ASSUME session[x] # None
                 PROVE  SessionKnows(session[x], refs[x], reduceV5(x))
    BY <1>1, FitsNow DEF Fits
  <1>3. /\ SessionKnows(session[x], refs[x], cached[x])
        /\ session[x].request \in Tips
        /\ refs[x] \in Tips
    BY <1>2, SessionFields DEF IInv, SessionInv, TypeInv
  <1>4. reduceV5(x) # None
    BY <1>1, NoneIsNoState
  <1>5. session[x].phase \in {"sent", "received", "admitted"}
           => upTo(session[x].request) \subseteq reduceV5(x).got
    BY <1>1, <1>3, UpToGrows DEF SessionKnows
  <1> QED
    BY <1>3, <1>4, <1>5 DEF SessionKnows

LEMMA MaterializeKeeps ==
    ASSUME IInv, NEW x \in Peer, materialize(x) \/ materializeFirst(x)
    PROVE  IInv'
  <1> DEFINE state == reduceV5(x)
  <1>1. /\ cached' = [cached EXCEPT ![x] = state]
        /\ UNCHANGED <<chain, refs, session>>
    BY DEF materialize, materializeFirst
  <1>2. Fits(x, state, session[x])
    BY ReducedFits
  <1> HIDE DEF state
  <1> QED
    BY <1>1, <1>2, CachedStep

LEMMA RunGCKeeps ==
    ASSUME IInv, NEW x \in Peer, runGC(x)
    PROVE  IInv'
  <1> DEFINE state == executeGC(cached[x])
  <1>1. /\ cached[x] # None
        /\ cached' = [cached EXCEPT ![x] = state]
        /\ UNCHANGED <<chain, refs, session>>
    BY DEF runGC
  <1>2. Fits(x, cached[x], session[x])
    BY FitsNow
  <1>3. /\ state \in StateRec
        /\ state.got = cached[x].got
        /\ Alive(state, chain)
    BY <1>1, <1>2, Compacted, CompactedAlive DEF Fits
  <1> HIDE DEF state
  <1>4. Fits(x, state, session[x])
    BY <1>1, <1>2, <1>3, NoneIsNoState DEF Fits, SessionKnows
  <1> QED
    BY <1>1, <1>4, CachedStep

LEMMA RestartKeeps ==
    ASSUME IInv, NEW x \in Peer, restart(x)
    PROVE  IInv'
  <1>1. Fits(x, None, None)
    BY DEF Fits
  <1>2. /\ cached' = [cached EXCEPT ![x] = None]
        /\ session' = [session EXCEPT ![x] = None]
        /\ UNCHANGED <<chain, refs>>
    BY DEF restart
  <1> QED
    BY <1>1, <1>2, LocalStep

\* Nothing is known of a session that connects, or that has applied its answer.
LEMMA ConnectingFits ==
    ASSUME IInv, NEW x \in Peer, NEW y \in Peer, NEW mode \in Mode, NEW attempt \in Nat
    PROVE  /\ connecting(y, mode, attempt) \in Session
           /\ Fits(x, cached[x], connecting(y, mode, attempt))
  <1> DEFINE s == connecting(y, mode, attempt)
  <1>1. NoTips \in Tips /\ noResponse \in Response /\ Within(chain, noResponse.patches)
    BY DEF NoTips, Tips, noResponse, Response, Within
  <1>2. s \in Session
    BY <1>1 DEF connecting, Session
  <1>3. s.phase = "connecting" /\ s.response = noResponse
    BY DEF connecting
  <1> HIDE DEF s
  <1>4. SessionKnows(s, refs[x], cached[x])
    BY <1>3 DEF SessionKnows
  <1>5. Fits(x, cached[x], s)
    BY <1>1, <1>2, <1>3, <1>4, FitsNow DEF Fits
  <1> QED
    BY <1>2, <1>5 DEF s

LEMMA SyncWithKeeps ==
    ASSUME IInv, NEW x \in Peer, NEW y \in Peer, NEW mode \in Mode, syncWith(x, y, mode)
    PROVE  IInv'
  <1> DEFINE s == connecting(y, mode, 1)
  <1>1. /\ session' = [session EXCEPT ![x] = s]
        /\ UNCHANGED <<chain, refs, cached>>
    BY DEF syncWith
  <1>2. Fits(x, cached[x], s)
    BY ConnectingFits
  <1> HIDE DEF s
  <1> QED
    BY <1>1, <1>2, SessionStep

LEMMA RetryKeeps ==
    ASSUME IInv, NEW x \in Peer, retry(x)
    PROVE  IInv'
  <1> DEFINE y       == session[x].peer
             mode    == session[x].mode
             attempt == session[x].attempt + 1
             s       == connecting(y, mode, attempt)
  <1>1. /\ session[x] # None
        /\ session' = [session EXCEPT ![x] = s]
        /\ UNCHANGED <<chain, refs, cached>>
    BY DEF retry, at
  <1>2. y \in Peer /\ mode \in Mode /\ attempt \in Nat
    BY <1>1, SessionFields DEF IInv
  <1> HIDE DEF y, mode, attempt
  <1>3. Fits(x, cached[x], s)
    BY <1>2, ConnectingFits
  <1> HIDE DEF s
  <1> QED
    BY <1>1, <1>3, SessionStep

LEMMA EndKeeps ==
    ASSUME IInv, NEW x \in Peer, complete(x) \/ fail(x)
    PROVE  IInv'
  <1>1. Fits(x, cached[x], None)
    BY FitsNow DEF Fits
  <1>2. /\ session' = [session EXCEPT ![x] = None]
        /\ UNCHANGED <<chain, refs, cached>>
    BY DEF complete, fail
  <1> QED
    BY <1>1, <1>2, SessionStep

\* A request names the refs of its moment, and remembers what the cached state has
\* of them.
LEMMA RequestKeeps ==
    ASSUME IInv, NEW x \in Peer, createSyncRequest(x)
    PROVE  IInv'
  <1> DEFINE has == cached[x] = None \/ upTo(refs[x]) \subseteq cached[x].got
             s   == [session[x] EXCEPT !.phase = "sent", !.request = refs[x], !.complete = has]
  <1>1. /\ session[x] # None
        /\ session' = [session EXCEPT ![x].phase = "sent", ![x].request = refs[x],
                                      ![x].complete = has]
        /\ UNCHANGED <<chain, refs, cached>>
    BY DEF createSyncRequest, at
  <1>2. /\ Fits(x, cached[x], session[x])
        /\ session \in [Peer -> Session \cup {None}]
        /\ session[x] \in Session
        /\ refs[x] \in Tips
    BY <1>1, FitsNow, SessionFields DEF IInv, TypeInv
  <1>3. has \in BOOLEAN
    OBVIOUS
  <1> HIDE DEF has
  <1>4. session' = [session EXCEPT ![x] = s]
    BY <1>1, <1>2
  <1>5. /\ s \in Session
        /\ s.phase = "sent"
        /\ s.request = refs[x]
        /\ s.complete = has
        /\ s.response = session[x].response
    BY <1>2, <1>3 DEF Session
  <1> HIDE DEF s
  <1>6. \A w \in Writer : refs[x][w] <= refs[x][w]
    BY <1>2 DEF Tips
  <1>7. has /\ cached[x] # None => upTo(refs[x]) \subseteq cached[x].got
    BY DEF has
  <1>8. SessionKnows(s, refs[x], cached[x])
    BY <1>5, <1>6, <1>7 DEF SessionKnows
  <1>9. Fits(x, cached[x], s)
    BY <1>1, <1>2, <1>5, <1>8 DEF Fits
  <1> QED
    BY <1>1, <1>4, <1>9, SessionStep

\* The answer is the patches between the request and the refs of the peer.
LEMMA AnswerKeeps ==
    ASSUME IInv, NEW x \in Peer, processSyncRequest(x)
    PROVE  IInv'
  <1> DEFINE frontier == refs[session[x].peer]
             patches  == computeSyncDelta(session[x].request, frontier)
             answer   == [frontier |-> frontier, patches |-> patches]
             s        == [session[x] EXCEPT !.phase = "received", !.response = answer]
  <1>1. /\ session[x] # None /\ session[x].phase = "sent"
        /\ session' = [session EXCEPT ![x].phase = "received", ![x].response = answer]
        /\ UNCHANGED <<chain, refs, cached>>
    BY DEF processSyncRequest, at
  <1>2. /\ Fits(x, cached[x], session[x])
        /\ session \in [Peer -> Session \cup {None}]
        /\ session[x] \in Session
        /\ session[x].peer \in Peer
        /\ session[x].request \in Tips
    BY <1>1, FitsNow, SessionFields DEF IInv, TypeInv
  <1>3. /\ chain \in Chain
        /\ frontier \in Tips
        /\ \A w \in Writer : frontier[w] <= Len(chain[w])
    BY <1>2 DEF IInv, TypeInv
  <1>4. patches = between(session[x].request, frontier)
    BY DEF computeSyncDelta
  <1> HIDE DEF patches, frontier
  <1>5. Within(chain, patches)
    BY <1>2, <1>3, <1>4, BetweenWithin
  <1>6. /\ answer \in Response
        /\ answer.frontier = frontier
        /\ answer.patches = patches
    BY <1>3, <1>5 DEF Response, Within
  <1> HIDE DEF answer
  <1>7. session' = [session EXCEPT ![x] = s]
    BY <1>1, <1>2
  <1>8. /\ s \in Session
        /\ s.phase = "received"
        /\ s.response = answer
        /\ s.request = session[x].request
        /\ s.complete = session[x].complete
    BY <1>2, <1>6 DEF Session
  <1> HIDE DEF s
  <1>9. SessionKnows(s, refs[x], cached[x])
    BY <1>1, <1>2, <1>4, <1>6, <1>8 DEF SessionKnows, Fits
  <1>10. Fits(x, cached[x], s)
    BY <1>2, <1>5, <1>6, <1>8, <1>9 DEF Fits
  <1> QED
    BY <1>1, <1>7, <1>10, SessionStep

LEMMA EvaluateKeeps ==
    ASSUME IInv, NEW x \in Peer, evaluate(x)
    PROVE  IInv'
  <1> DEFINE s == [session[x] EXCEPT !.phase = "admitted"]
  <1>1. /\ session[x] # None /\ session[x].phase = "received"
        /\ cached[x] # None
        /\ allowed(session[x].mode, extractWritersFromPatches(session[x].response.patches))
        /\ session' = [session EXCEPT ![x].phase = "admitted"]
        /\ UNCHANGED <<chain, refs, cached>>
    BY DEF evaluate, at
  <1>2. /\ Fits(x, cached[x], session[x])
        /\ session \in [Peer -> Session \cup {None}]
        /\ session[x] \in Session
    BY <1>1, FitsNow, SessionFields DEF IInv, TypeInv
  <1>3. session' = [session EXCEPT ![x] = s]
    BY <1>1, <1>2
  <1>4. /\ s \in Session
        /\ s.phase = "admitted"
        /\ s.response = session[x].response
        /\ s.request = session[x].request
        /\ s.mode = session[x].mode
        /\ s.complete = session[x].complete
    BY <1>2 DEF Session
  <1> HIDE DEF s
  <1>5. SessionKnows(s, refs[x], cached[x])
    BY <1>1, <1>2, <1>4 DEF SessionKnows, Fits
  <1>6. Fits(x, cached[x], s)
    BY <1>1, <1>2, <1>4, <1>5 DEF Fits
  <1> QED
    BY <1>1, <1>3, <1>6, SessionStep

\* What an application does to the cached state.
LEMMA ApplyFacts ==
    ASSUME IInv, NEW x \in Peer, applySyncResponse(x)
    PROVE  /\ session[x] # None /\ session[x].phase = "admitted" /\ cached[x] # None
           /\ cached' = [cached EXCEPT
                 ![x] = applied(cached[x], chain, session[x].response.patches)]
           /\ applied(cached[x], chain, session[x].response.patches) \in StateRec
           /\ cached'[x].got = cached[x].got \cup session[x].response.patches
           /\ Within(chain, applied(cached[x], chain, session[x].response.patches).got)
           /\ Alive(applied(cached[x], chain, session[x].response.patches), chain)
  <1> DEFINE ids == session[x].response.patches
             new == applied(cached[x], chain, ids)
  <1>1. /\ session[x] # None /\ session[x].phase = "admitted"
        /\ cached' = [cached EXCEPT ![x] = new]
    BY DEF applySyncResponse, at
  <1>2. /\ Fits(x, cached[x], session[x])
        /\ chain \in Chain
        /\ cached \in [Peer -> StateRec \cup {None}]
    BY FitsNow DEF IInv, TypeInv
  <1>3. cached[x] # None
    BY <1>1, <1>2 DEF Fits, SessionKnows
  <1>4. /\ cached[x] \in StateRec
        /\ Within(chain, cached[x].got)
        /\ Alive(cached[x], chain)
        /\ Within(chain, ids)
    BY <1>1, <1>2, <1>3 DEF Fits
  <1> HIDE DEF ids
  <1>5. /\ new \in StateRec
        /\ new.got = cached[x].got \cup ids
        /\ Within(chain, new.got)
        /\ Alive(new, chain)
    BY <1>2, <1>4, AppliedAlive
  <1> HIDE DEF new
  <1>6. cached'[x] = new
    BY <1>1, <1>2
  <1> QED
    BY <1>1, <1>3, <1>5, <1>6 DEF new, ids

LEMMA ApplyKeeps ==
    ASSUME IInv, NEW x \in Peer, applySyncResponse(x)
    PROVE  IInv'
  <1> DEFINE new  == applied(cached[x], chain, session[x].response.patches)
             next == connecting(session[x].peer, session[x].mode, session[x].attempt)
             s    == [next EXCEPT !.phase = "applied"]
  <1>1. /\ session[x] # None
        /\ cached' = [cached EXCEPT ![x] = new]
        /\ new \in StateRec /\ Within(chain, new.got) /\ Alive(new, chain)
    BY ApplyFacts
  <1>2. /\ session' = [session EXCEPT ![x] = s]
        /\ UNCHANGED <<chain, refs>>
    BY DEF applySyncResponse
  <1>3. next \in Session /\ Fits(x, cached[x], next)
    BY <1>1, SessionFields, ConnectingFits DEF IInv
  <1>4. next # None => Within(chain, next.response.patches)
    BY <1>3 DEF Fits
  <1>5. next.response = noResponse
    BY DEF connecting
  <1> HIDE DEF next, new
  <1>6. /\ s \in Session
        /\ s.phase = "applied"
        /\ s.response = noResponse
    BY <1>3, <1>5 DEF Session
  <1>7. Within(chain, noResponse.patches)
    BY DEF noResponse, Within
  <1> HIDE DEF s
  <1>8. Fits(x, new, s)
    BY <1>1, <1>6, <1>7 DEF Fits, SessionKnows
  <1> QED
    BY <1>1, <1>2, <1>8, LocalStep

LEMMA NextIInv == IInv /\ [Next]_vars => IInv'
  <1> SUFFICES ASSUME IInv, [Next]_vars PROVE IInv'
    OBVIOUS
  <1>1. CASE UNCHANGED vars
    BY <1>1 DEF vars, IInv, TypeInv, AliveInv, SessionInv
  <1>2. CASE Next
    <2>1. PICK x \in Peer :
             \/ addNode(x) \/ removeNode(x)
             \/ \E w \in Writer : fetch(x, w)
             \/ materialize(x) \/ runGC(x) \/ restart(x)
             \/ \E y \in Peer, mode \in Mode : syncWith(x, y, mode)
             \/ advance(x)
      BY <1>2 DEF Next
    <2>2. CASE addNode(x)
      <3>1. {<<x, Len(chain[x]) + 1>>} \in SUBSET Dot
        BY DEF IInv, TypeInv, Chain, Dot, Peer
      <3>2. {} \in SUBSET Dot
        OBVIOUS
      <3> QED
        BY <2>2, <3>1, <3>2, CommitKeeps DEF addNode
    <2>3. CASE removeNode(x)
      <3>1. cached[x] \in StateRec
        BY <2>3 DEF removeNode, IInv, TypeInv
      <3>2. observedDots(cached[x]) \in SUBSET Dot /\ {} \in SUBSET Dot
        BY <3>1, ObservedType
      <3> QED
        BY <2>3, <3>2, CommitKeeps DEF removeNode
    <2>4. CASE \E w \in Writer : fetch(x, w)
      BY <2>4, FetchKeeps
    <2>5. CASE materialize(x)
      BY <2>5, MaterializeKeeps
    <2>6. CASE runGC(x)
      BY <2>6, RunGCKeeps
    <2>7. CASE restart(x)
      BY <2>7, RestartKeeps
    <2>8. CASE \E y \in Peer, mode \in Mode : syncWith(x, y, mode)
      BY <2>8, SyncWithKeeps
    <2>9. CASE advance(x)
      BY <2>9, RequestKeeps, AnswerKeeps, MaterializeKeeps, EvaluateKeeps, ApplyKeeps,
         EndKeeps, RetryKeeps DEF advance
    <2> QED
      BY <2>1, <2>2, <2>3, <2>4, <2>5, <2>6, <2>7, <2>8, <2>9
  <1> QED
    BY <1>1, <1>2

----------------------------------------------------------------------------
(* The theorems.                                                           *)

\* In every behaviour, whatever is fetched, restarted, compacted or retried, a
\* sync that has applied its answer leaves no gap up to the frontier of the answer
\* (SyncProtocol.js computeSyncDelta, applySyncResponse).
THEOREM SyncAlwaysDelivers == Spec => SyncDelivers
  <1>1. ASSUME IInv, NEW x \in Peer, applySyncResponse(x), session[x].complete
        PROVE  upTo(session[x].response.frontier) \subseteq cached'[x].got
    <2>1. /\ session[x] # None /\ session[x].phase = "admitted" /\ cached[x] # None
          /\ cached'[x].got = cached[x].got \cup session[x].response.patches
      BY <1>1, ApplyFacts
    <2>2. /\ upTo(session[x].request) \subseteq cached[x].got
          /\ session[x].response.patches
               = between(session[x].request, session[x].response.frontier)
      BY <1>1, <2>1 DEF IInv, SessionInv, SessionKnows
    <2>3. session[x].request \in Tips /\ session[x].response.frontier \in Tips
      BY <1>1, <2>1, SessionFields DEF IInv
    <2>4. upTo(session[x].response.frontier)
             \subseteq upTo(session[x].request)
                      \cup between(session[x].request, session[x].response.frontier)
      BY <2>3, UpToSplits
    <2> QED
      BY <2>1, <2>2, <2>4
  <1> DEFINE Delivers == \A x \in Peer :
                applySyncResponse(x) /\ session[x].complete
                    => upTo(session[x].response.frontier) \subseteq cached'[x].got
  <1>2. IInv => [Delivers]_vars
    BY <1>1
  <1> QED
    BY <1>2, InitIInv, NextIInv, PTL DEF Spec, SyncDelivers

\* A sync that enforces trust brings in trusted writers only (SyncTrustGate.js
\* evaluate), though the answer is applied later than it is judged.
THEOREM UntrustedNeverEnters == Spec => UntrustedStaysOut
  <1>1. ASSUME IInv, NEW x \in Peer, applySyncResponse(x), session[x].mode = "enforce",
               NEW g \in cached'[x].got \ cached[x].got
        PROVE  g[1] \in Trusted
    <2>1. /\ session[x] # None /\ session[x].phase = "admitted"
          /\ cached'[x].got = cached[x].got \cup session[x].response.patches
      BY <1>1, ApplyFacts
    <2>2. extractWritersFromPatches(session[x].response.patches) \subseteq Trusted
      BY <1>1, <2>1 DEF IInv, SessionInv, SessionKnows, allowed
    <2> QED
      BY <2>1, <2>2 DEF extractWritersFromPatches
  <1> DEFINE StaysOut == \A x \in Peer :
                applySyncResponse(x) /\ session[x].mode = "enforce"
                    => \A g \in cached'[x].got \ cached[x].got : g[1] \in Trusted
  <1>2. IInv => [StaysOut]_vars
    BY <1>1
  <1> QED
    BY <1>2, InitIInv, NextIInv, PTL DEF Spec, UntrustedStaysOut

\* No sync and no compaction makes a node disappear (ORSet.js orsetCompact).
THEOREM LiveDotsAlwaysStay == Spec => []LiveDotsStay
  <1>1. IInv => LiveDotsStay
    BY DEF IInv, AliveInv, Alive, LiveDotsStay
  <1> QED
    BY <1>1, InitIInv, NextIInv, PTL DEF Spec

=============================================================================
