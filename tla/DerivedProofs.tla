---------------------------- MODULE DerivedProofs ----------------------------
(***************************************************************************)
(* What is derived from a graph and its history, for graphs and chains of  *)
(* any size: the ids of the sharded index identify nodes, and the index    *)
(* implements the abstract one (ShardedIndex, IndexService), temporal      *)
(* queries answer from a checkpoint what the whole history says            *)
(* (Temporal), what is reported of attached content belongs together       *)
(* (Content), and the index of commits holds their history (CommitIndex).  *)
(***************************************************************************)
EXTENDS ShardedIndex, Temporal, Content, CommitIndex, FiniteSetTheorems,
        FunctionTheorems, SequenceTheorems, WellFoundedInduction, TLAPS

----------------------------------------------------------------------------
(* Sequences and induction.                                                *)

\* An appended sequence, element by element.
LEMMA Appended ==
    ASSUME NEW S, NEW s \in Seq(S), NEW e \in S
    PROVE  /\ Append(s, e) \in Seq(S)
           /\ Len(s) \in Nat /\ Len(Append(s, e)) = Len(s) + 1
           /\ \A i \in 1..Len(s) : s[i] \in S /\ Append(s, e)[i] = s[i]
           /\ Append(s, e)[Len(s) + 1] = e
  BY AppendProperties, LenProperties, ElementOfSeq

\* Induction over the natural numbers, for sets.
LEMMA SetInduction ==
    ASSUME NEW T, 0 \in T, \A n \in Nat : n \in T => n + 1 \in T
    PROVE  Nat \subseteq T
  <1> DEFINE R == OpToRel(<, Nat)
             F == Nat \ T
  <1>1. SUFFICES ASSUME F # {}
                 PROVE  FALSE
    OBVIOUS
  <1>2. IsWellFoundedOn(R, Nat)
    BY NatLessThanWellFounded, Zenon
  <1>3. PICK x \in F : \A y \in F : ~(<<y, x>> \in R)
    <2> HIDE DEF R
    <2> QED
      BY <1>1, <1>2, WFMin
  <1>4. x \in Nat /\ x # 0 /\ x - 1 \in Nat
    OBVIOUS
  <1>5. x - 1 \in F
    BY <1>4
  <1>6. <<x - 1, x>> \in R
    <2>1. x - 1 < x
      BY <1>4
    <2> QED
      BY <1>4, <2>1, Zenon DEF OpToRel
  <1> QED
    BY <1>3, <1>5, <1>6

----------------------------------------------------------------------------
(* The sharded index.                                                      *)

\* A tree as far as ids go.
isTree(t) ==
    /\ t = [id |-> t.id, next |-> t.next, alive |-> t.alive, labels |-> t.labels,
            fwd |-> t.fwd, rev |-> t.rev, props |-> t.props]
    /\ t.id \in [Node -> Int] /\ t.next \in [Shard -> Int]

\* An operator that leaves the ids alone.
keepsIds(t, u) == isTree(u) /\ u.id = t.id /\ u.next = t.next

TreeInv(t) == isTree(t) /\ idsOk(t)

\* Neither tree gives an id twice: the one of the view, which an update reads,
\* nor the one in work, which replaces shards of it.
IdsInv == TreeInv(tree) /\ TreeInv(work.tree)

\* idsOk, said with comparisons.
uniqueIds(t) == \A n, m \in Node : t.id[n] = t.id[m] /\ t.id[n] # NoId => n = m
idIn(t, s, x) == s * MAX_LOCAL_ID <= x /\ x < s * MAX_LOCAL_ID + t.next[s]
idsInShard(t) == \A n \in Node : t.id[n] # NoId => idIn(t, computeShardKey[n], t.id[n])
countersInRange(t) == \A s \in Shard : 0 <= t.next[s] /\ t.next[s] <= MAX_LOCAL_ID

----------------------------------------------------------------------------
(* Ids and their shards.                                                   *)

LEMMA ShardTypes ==
    ASSUME NEW n \in Node
    PROVE  /\ computeShardKey[n] \in Shard /\ computeShardKey[n] \in Nat
           /\ MAX_LOCAL_ID \in Nat
  BY ShardAssumption

LEMMA IdsOkSaid ==
    ASSUME NEW t, isTree(t)
    PROVE  idsOk(t) <=> uniqueIds(t) /\ idsInShard(t) /\ countersInRange(t)
  <1>1. ASSUME NEW n \in Node
        PROVE  t.id[n] \in globalId(computeShardKey[n], 0)..(globalId(computeShardKey[n], t.next[computeShardKey[n]]) - 1)
                 <=> idIn(t, computeShardKey[n], t.id[n])
    <2> DEFINE s == computeShardKey[n]
    <2>1. s \in Shard /\ s \in Nat /\ MAX_LOCAL_ID \in Nat
      BY ShardTypes
    <2>2. t.id[n] \in Int /\ t.next[s] \in Int
      BY <2>1 DEF isTree
    <2>3. s * MAX_LOCAL_ID \in Int
      BY <2>1
    <2> HIDE DEF s
    <2> QED BY <2>1, <2>2, <2>3 DEF globalId, idIn, s
  <1>2. ASSUME NEW s \in Shard
        PROVE  t.next[s] \in 0..MAX_LOCAL_ID <=> 0 <= t.next[s] /\ t.next[s] <= MAX_LOCAL_ID
    BY ShardAssumption DEF isTree
  <1> QED
    BY <1>1, <1>2 DEF idsOk, uniqueIds, idsInShard, countersInRange

\* The ranges of two shards have no id in common.
LEMMA ShardsAreApart ==
    ASSUME NEW s \in Nat, NEW q \in Nat, NEW M \in Nat, NEW x \in Int,
           s * M <= x, x < s * M + M, q * M <= x, x < q * M + M
    PROVE  s = q
  <1>1. ASSUME NEW a \in Nat, NEW b \in Nat, a < b
        PROVE  a * M + M <= b * M
    <2> DEFINE d == b - a - 1
    <2>1. d \in Nat /\ b = a + 1 + d
      BY <1>1
    <2> HIDE DEF d
    <2>2. b * M = a * M + M + d * M
      BY <2>1
    <2>3. d * M \in Nat /\ a * M \in Nat
      BY <2>1
    <2> QED BY <2>2, <2>3
  <1>2. s * M \in Nat /\ q * M \in Nat
    OBVIOUS
  <1>3. ~ (s < q)
    <2>1. SUFFICES ASSUME s < q PROVE FALSE
      OBVIOUS
    <2> QED BY <1>1, <1>2, <2>1
  <1>4. ~ (q < s)
    <2>1. SUFFICES ASSUME q < s PROVE FALSE
      OBVIOUS
    <2> QED BY <1>1, <1>2, <2>1
  <1> QED BY <1>3, <1>4

\* Two nodes with one id, in any two trees, are in one shard.
LEMMA SameIdSameShard ==
    ASSUME NEW t, TreeInv(t), NEW u, TreeInv(u), NEW n \in Node, NEW m \in Node,
           t.id[n] = u.id[m], t.id[n] # NoId
    PROVE  computeShardKey[n] = computeShardKey[m]
  <1> DEFINE s == computeShardKey[n]
             q == computeShardKey[m]
  <1>1. s \in Shard /\ q \in Shard /\ s \in Nat /\ q \in Nat /\ MAX_LOCAL_ID \in Nat
    BY ShardTypes
  <1>2. idIn(t, s, t.id[n]) /\ idIn(u, q, t.id[n])
    BY IdsOkSaid DEF TreeInv, idsInShard
  <1>3. t.next[s] \in Int /\ t.next[s] <= MAX_LOCAL_ID /\ u.next[q] \in Int /\ u.next[q] <= MAX_LOCAL_ID
    BY <1>1, IdsOkSaid DEF TreeInv, countersInRange, isTree
  <1>4. t.id[n] \in Int /\ s * MAX_LOCAL_ID \in Int /\ q * MAX_LOCAL_ID \in Int
    BY <1>1 DEF TreeInv, isTree
  <1> HIDE DEF s, q
  <1>5. /\ s * MAX_LOCAL_ID <= t.id[n] /\ t.id[n] < s * MAX_LOCAL_ID + MAX_LOCAL_ID
        /\ q * MAX_LOCAL_ID <= t.id[n] /\ t.id[n] < q * MAX_LOCAL_ID + MAX_LOCAL_ID
    BY <1>1, <1>2, <1>3, <1>4 DEF idIn
  <1>6. s = q
    BY <1>1, <1>4, <1>5, ShardsAreApart
  <1> QED BY <1>6 DEF s, q

LEMMA SameIdsKeep ==
    ASSUME NEW t, NEW u, TreeInv(t), keepsIds(t, u)
    PROVE  TreeInv(u)
  BY DEF TreeInv, keepsIds, isTree, idsOk

----------------------------------------------------------------------------
(* What the operators do to the ids.                                       *)

LEMMA EmptyTreeIds == TreeInv(emptyTree)
  <1>1. isTree(emptyTree)
    BY DEF isTree, emptyTree, NoId
  <1>2. uniqueIds(emptyTree) /\ idsInShard(emptyTree)
    BY DEF uniqueIds, idsInShard, emptyTree
  <1>3. countersInRange(emptyTree)
    BY ShardAssumption DEF countersInRange, emptyTree
  <1> QED BY <1>1, <1>2, <1>3, IdsOkSaid DEF TreeInv

\* Setting fields of a record.
LEMMA AliveSet ==
    ASSUME NEW t, isTree(t), NEW A
    PROVE  keepsIds(t, [t EXCEPT !.alive = A])
  BY DEF isTree, keepsIds

LEMMA RestSet ==
    ASSUME NEW t, isTree(t), NEW A, NEW F, NEW R, NEW P
    PROVE  keepsIds(t, [t EXCEPT !.alive = A, !.fwd = F, !.rev = R, !.props = P])
  <1> DEFINE a == [t EXCEPT !.alive = A]
             f == [a EXCEPT !.fwd = F]
             r == [f EXCEPT !.rev = R]
             u == [r EXCEPT !.props = P]
  <1>1. ASSUME NEW v, isTree(v), NEW B
        PROVE  /\ keepsIds(v, [v EXCEPT !.alive = B])
               /\ keepsIds(v, [v EXCEPT !.fwd = B])
               /\ keepsIds(v, [v EXCEPT !.rev = B])
               /\ keepsIds(v, [v EXCEPT !.props = B])
    <2>1. keepsIds(v, [v EXCEPT !.alive = B])
      BY <1>1 DEF isTree, keepsIds
    <2>2. keepsIds(v, [v EXCEPT !.fwd = B])
      BY <1>1 DEF isTree, keepsIds
    <2>3. keepsIds(v, [v EXCEPT !.rev = B])
      BY <1>1 DEF isTree, keepsIds
    <2>4. keepsIds(v, [v EXCEPT !.props = B])
      BY <1>1 DEF isTree, keepsIds
    <2> QED BY <2>1, <2>2, <2>3, <2>4
  <1>2. keepsIds(t, u)
    <2>1. keepsIds(t, a)
      BY <1>1
    <2>2. keepsIds(t, f)
      <3> HIDE DEF a
      <3> QED BY <1>1, <2>1 DEF keepsIds
    <2>3. keepsIds(t, r)
      <3> HIDE DEF f
      <3> QED BY <1>1, <2>2 DEF keepsIds
    <2> HIDE DEF r
    <2> QED BY <1>1, <2>3 DEF keepsIds
  <1>3. u = [t EXCEPT !.alive = A, !.fwd = F, !.rev = R, !.props = P]
    OBVIOUS
  <1> QED BY <1>2, <1>3

LEMMA OthersKeepIds ==
    ASSUME NEW t, isTree(t), NEW n, NEW l, NEW e
    PROVE  /\ keepsIds(t, _handleNodeRemove(t, n))
           /\ keepsIds(t, _ensureLabel(t, l))
           /\ keepsIds(t, _handleEdgeAdd(t, e))
           /\ keepsIds(t, _handleEdgeRemove(t, e))
           /\ keepsIds(t, _purgeNodeEdges(t, n))
  <1>1. keepsIds(t, _handleNodeRemove(t, n))
    <2> DEFINE A == [t.alive EXCEPT ![computeShardKey[n]] = @ \ {t.id[n]}]
    <2>1. _handleNodeRemove(t, n) = [t EXCEPT !.alive = A]
      BY DEF _handleNodeRemove
    <2> HIDE DEF A
    <2> QED BY <2>1, AliveSet
  <1>2. keepsIds(t, _ensureLabel(t, l))
    BY DEF isTree, keepsIds, _ensureLabel
  <1>3. keepsIds(t, _handleEdgeAdd(t, e))
    BY DEF isTree, keepsIds, _handleEdgeAdd
  <1>4. keepsIds(t, _handleEdgeRemove(t, e))
    BY DEF isTree, keepsIds, _handleEdgeRemove
  <1>5. keepsIds(t, _purgeNodeEdges(t, n))
    BY DEF isTree, keepsIds, _purgeNodeEdges
  <1> QED BY <1>1, <1>2, <1>3, <1>4, <1>5

\* A new node gets the shard's next id, which no node has.
LEMMA NodeAddIds ==
    ASSUME NEW t, TreeInv(t), NEW n \in Node, ~ overflows(t, n)
    PROVE  TreeInv(_handleNodeAdd(t, n))
  <1> DEFINE s == computeShardKey[n]
             u == _handleNodeAdd(t, n)
             x == s * MAX_LOCAL_ID + t.next[s]
  <1>1. s \in Shard /\ s \in Nat /\ MAX_LOCAL_ID \in Nat
    BY ShardTypes
  <1>2. isTree(t) /\ uniqueIds(t) /\ idsInShard(t) /\ countersInRange(t)
    BY IdsOkSaid DEF TreeInv
  <1> DEFINE y == IF t.id[n] = NoId THEN globalId(s, t.next[s]) ELSE t.id[n]
             I == [t.id EXCEPT ![n] = y]
             A == [t.alive EXCEPT ![s] = @ \cup {y}]
             N == [t.next EXCEPT ![s] = IF t.id[n] = NoId THEN @ + 1 ELSE @]
  <1>5. u = [t EXCEPT !.id = I, !.alive = A, !.next = N]
    BY DEF _handleNodeAdd
  <1>6. t.id[n] \in Int /\ t.next[s] \in Int /\ s * MAX_LOCAL_ID \in Int
    BY <1>1, <1>2 DEF isTree
  <1>7. y \in Int /\ (t.id[n] = NoId => y = x)
    BY <1>1, <1>6 DEF globalId
  <1>8. I \in [Node -> Int] /\ N \in [Shard -> Int]
    BY <1>1, <1>2, <1>6, <1>7 DEF isTree
  <1>9. isTree(u) /\ u.id = I /\ u.next = N
    <2> DEFINE a == [t EXCEPT !.id = I]
               b == [a EXCEPT !.alive = A]
               c == [b EXCEPT !.next = N]
    <2> HIDE DEF I, A, N, u
    <2>1. isTree(a) /\ a.id = I /\ a.next = t.next
      BY <1>2, <1>8 DEF isTree
    <2>2. isTree(b) /\ b.id = I
      <3> HIDE DEF a
      <3> QED BY <2>1, AliveSet DEF keepsIds
    <2>3. isTree(c) /\ c.id = I /\ c.next = N
      <3> HIDE DEF b
      <3> QED BY <1>8, <2>2 DEF isTree
    <2>4. c = u
      BY <1>5
    <2> HIDE DEF c
    <2> QED BY <2>3, <2>4
  <1> SUFFICES TreeInv(u)
    OBVIOUS
  <1> HIDE DEF u
  <1>3. CASE t.id[n] # NoId
    <2>1. I = t.id /\ N = t.next
      BY <1>1, <1>2, <1>3 DEF isTree
    <2>2. keepsIds(t, u)
      BY <1>9, <2>1 DEF keepsIds
    <2> QED BY <2>2, SameIdsKeep
  <1>4. CASE t.id[n] = NoId
    <2>1. /\ isTree(u)
          /\ u.id = [t.id EXCEPT ![n] = x]
          /\ u.next = [t.next EXCEPT ![s] = @ + 1]
      BY <1>4, <1>7, <1>9
    <2>2. t.next[s] \in Int /\ 0 <= t.next[s] /\ t.next[s] < MAX_LOCAL_ID
      BY <1>1, <1>2, <1>4 DEF overflows, countersInRange, isTree
    <2>3. s * MAX_LOCAL_ID \in Nat
      BY <1>1
    <2>4. x \in Nat /\ s * MAX_LOCAL_ID <= x /\ x < s * MAX_LOCAL_ID + MAX_LOCAL_ID
      BY <1>1, <2>2, <2>3
    <2>5. countersInRange(u)
      BY <1>1, <1>2, <2>1, <2>2, ShardAssumption DEF countersInRange, isTree
    <2>6. ASSUME NEW m \in Node, m # n, t.id[m] # NoId
          PROVE  idIn(u, computeShardKey[m], t.id[m]) /\ t.id[m] # x
      <3> DEFINE q == computeShardKey[m]
      <3>1. q \in Shard /\ q \in Nat
        BY ShardTypes
      <3>2. idIn(t, q, t.id[m])
        BY <1>2, <2>6 DEF idsInShard
      <3>3. t.id[m] \in Int /\ q * MAX_LOCAL_ID \in Nat /\ t.next[q] \in Int /\ t.next[q] <= MAX_LOCAL_ID
        BY <1>1, <1>2, <3>1 DEF isTree, countersInRange
      <3>4. u.next[q] \in Int /\ t.next[q] <= u.next[q]
        BY <1>2, <2>1, <2>2, <3>1, <3>3 DEF isTree
      <3>5. idIn(u, q, t.id[m])
        <4> HIDE DEF q
        <4> QED BY <3>2, <3>3, <3>4 DEF idIn
      <3>6. ASSUME t.id[m] = x PROVE FALSE
        <4>1. q * MAX_LOCAL_ID <= x /\ x < q * MAX_LOCAL_ID + t.next[q]
          BY <3>2, <3>6 DEF idIn
        <4> HIDE DEF q, x
        <4>2. x < q * MAX_LOCAL_ID + MAX_LOCAL_ID
          BY <1>1, <2>4, <3>3, <4>1
        <4> HIDE DEF s
        <4>3. s = q
          BY <1>1, <2>4, <3>1, <4>1, <4>2, ShardsAreApart
        <4>4. x < s * MAX_LOCAL_ID + t.next[s]
          BY <4>1, <4>3
        <4> QED BY <2>2, <2>3, <4>4 DEF x
      <3> QED BY <3>5, <3>6
    <2>7. idIn(u, s, x)
      <3>1. u.next[s] = t.next[s] + 1
        BY <1>1, <1>2, <2>1 DEF isTree
      <3> HIDE DEF s
      <3> QED BY <2>2, <2>3, <2>4, <3>1 DEF idIn
    <2>8. u.id[n] = x /\ \A m \in Node : m # n => u.id[m] = t.id[m]
      BY <1>2, <2>1 DEF isTree
    <2> HIDE DEF x
    <2>9. idsInShard(u)
      BY <2>6, <2>7, <2>8 DEF idsInShard
    <2>10. uniqueIds(u)
      BY <1>2, <2>6, <2>8 DEF uniqueIds
    <2> QED BY <2>1, <2>5, <2>9, <2>10, IdsOkSaid DEF TreeInv
  <1> QED BY <1>3, <1>4

\* Shards of one tree and shards of another make a tree: a node's id and the
\* counter it is below come from the same one.
LEMMA MergedIds ==
    ASSUME NEW old, TreeInv(old), NEW t, TreeInv(t), NEW loaded
    PROVE  TreeInv(mergeShards(old, t, loaded))
  <1> DEFINE u == mergeShards(old, t, loaded)
             from(s) == IF s \in loaded.meta THEN t ELSE old
  <1>1. /\ isTree(old) /\ uniqueIds(old) /\ idsInShard(old) /\ countersInRange(old)
        /\ isTree(t) /\ uniqueIds(t) /\ idsInShard(t) /\ countersInRange(t)
    BY IdsOkSaid DEF TreeInv
  <1>2. isTree(u)
    BY <1>1 DEF isTree, mergeShards
  <1>3. /\ \A n \in Node : u.id[n] = from(computeShardKey[n]).id[n]
        /\ \A s \in Shard : u.next[s] = from(s).next[s]
    BY DEF mergeShards
  <1>4. countersInRange(u)
    BY <1>1, <1>3 DEF countersInRange
  <1>5. idsInShard(u)
    BY <1>1, <1>3, ShardTypes DEF idsInShard, idIn
  <1>6. uniqueIds(u)
    <2> SUFFICES ASSUME NEW n \in Node, NEW m \in Node, u.id[n] = u.id[m], u.id[n] # NoId
                 PROVE  n = m
      BY DEF uniqueIds
    <2>1. computeShardKey[n] = computeShardKey[m]
      <3> DEFINE a == from(computeShardKey[n])
                 b == from(computeShardKey[m])
      <3>1. TreeInv(a) /\ TreeInv(b)
        OBVIOUS
      <3>2. a.id[n] = b.id[m] /\ a.id[n] # NoId
        BY <1>3
      <3> HIDE DEF a, b
      <3> QED BY <3>1, <3>2, SameIdSameShard
    <2> QED BY <1>1, <1>3, <2>1 DEF uniqueIds
  <1> HIDE DEF u
  <1> QED BY <1>2, <1>4, <1>5, <1>6, IdsOkSaid DEF TreeInv, u

----------------------------------------------------------------------------
(* The steps.                                                              *)

LEMMA IdleKeepsIds == idle => TreeInv(work'.tree)
  <1>1. idle => work'.tree = emptyTree
    BY DEF idle
  <1> QED BY <1>1, EmptyTreeIds

LEMMA StepKeepsIds == IdsInv /\ [ShardedNext]_shardedVars => IdsInv'
  <1> SUFFICES ASSUME IdsInv, [ShardedNext]_shardedVars
               PROVE  TreeInv(tree') /\ TreeInv(work'.tree)
    BY DEF IdsInv, TreeInv, isTree, idsOk, globalId
  <1>0. TreeInv(tree) /\ TreeInv(work.tree) /\ isTree(tree) /\ isTree(work.tree)
    BY DEF IdsInv, TreeInv
  <1>1. ASSUME NEW g \in Graph, startUpdate(g)
        PROVE  TreeInv(tree') /\ TreeInv(work'.tree)
    BY <1>0, <1>1 DEF startUpdate
  <1>2. ASSUME NEW g \in Graph, NEW seeded \in BOOLEAN, startBuild(g, seeded)
        PROVE  TreeInv(tree') /\ TreeInv(work'.tree)
    <2> DEFINE A == [s \in Shard |-> {}]
               u == [tree EXCEPT !.alive = A, !.fwd = {}, !.rev = {}, !.props = {}]
    <2>1. tree' = tree /\ work'.tree = IF seeded THEN u ELSE emptyTree
      BY <1>2 DEF startBuild
    <2>2. keepsIds(tree, u)
      <3> HIDE DEF A
      <3> QED BY <1>0, RestSet
    <2>3. TreeInv(u)
      BY <1>0, <2>2, SameIdsKeep
    <2> HIDE DEF u
    <2> QED BY <1>0, <2>1, <2>3, EmptyTreeIds
  <1>3. ASSUME NEW n \in Node, addNode(n)
        PROVE  TreeInv(tree') /\ TreeInv(work'.tree)
    <2>1. tree' = tree /\ work'.tree = _handleNodeAdd(work.tree, n) /\ ~ overflows(work.tree, n)
      BY <1>3 DEF addNode, visit
    <2> QED BY <1>0, <2>1, NodeAddIds
  <1>4. ASSUME NEW n \in Node, overflow(n)
        PROVE  TreeInv(tree') /\ TreeInv(work'.tree)
    BY <1>4, EmptyTreeIds, IdleKeepsIds DEF overflow
  <1>5. ASSUME NEW n \in Node, removeNode(n)
        PROVE  TreeInv(tree') /\ TreeInv(work'.tree)
    <2>1. tree' = tree /\ work'.tree = _handleNodeRemove(work.tree, n)
      BY <1>5 DEF removeNode, visit
    <2> QED BY <1>0, <2>1, OthersKeepIds, SameIdsKeep
  <1>6. ASSUME NEW n \in Node, purgeNode(n)
        PROVE  TreeInv(tree') /\ TreeInv(work'.tree)
    <2>1. tree' = tree /\ work'.tree = _purgeNodeEdges(work.tree, n)
      BY <1>6 DEF purgeNode, visit
    <2> QED BY <1>0, <2>1, OthersKeepIds, SameIdsKeep
  <1>7. ASSUME NEW k, NEW e, addEdge(k, e)
        PROVE  TreeInv(tree') /\ TreeInv(work'.tree)
    <2> DEFINE t == _ensureLabel(work.tree, e[3])
    <2>1. tree' = tree /\ work'.tree = _handleEdgeAdd(t, e)
      BY <1>7 DEF addEdge, visit
    <2>2. TreeInv(t)
      BY <1>0, OthersKeepIds, SameIdsKeep
    <2> HIDE DEF t
    <2>3. keepsIds(t, _handleEdgeAdd(t, e))
      BY <2>2, OthersKeepIds DEF TreeInv
    <2> QED BY <1>0, <2>1, <2>2, <2>3, SameIdsKeep
  <1>8. ASSUME NEW e, removeEdge(e)
        PROVE  TreeInv(tree') /\ TreeInv(work'.tree)
    <2>1. tree' = tree /\ work'.tree = _handleEdgeRemove(work.tree, e)
      BY <1>8 DEF removeEdge, visit
    <2> QED BY <1>0, <2>1, OthersKeepIds, SameIdsKeep
  <1>9. ASSUME finish
        PROVE  TreeInv(tree') /\ TreeInv(work'.tree)
    <2> DEFINE merged == mergeShards(tree, work.tree, work.loaded)
    <2>1. TreeInv(merged)
      BY <1>0, MergedIds
    <2>2. TreeInv([work.tree EXCEPT !.props = todo.props])
      <3>1. keepsIds(work.tree, [work.tree EXCEPT !.props = todo.props])
        BY <1>0 DEF isTree, keepsIds
      <3> QED BY <1>0, <3>1, SameIdsKeep
    <2>3. TreeInv(flushed)
      <3> HIDE DEF merged
      <3>1. keepsIds(merged, [merged EXCEPT !.props = _handleProps(@, todo.props)])
        BY <2>1 DEF TreeInv, isTree, keepsIds
      <3>2. flushed = [merged EXCEPT !.props = _handleProps(@, todo.props)]
        BY DEF flushed, merged
      <3> QED BY <2>1, <3>1, <3>2, SameIdsKeep
    <2>4. tree' = (IF mode = "build" THEN [work.tree EXCEPT !.props = todo.props] ELSE flushed)
      BY <1>9 DEF finish
    <2> QED BY <1>9, <2>2, <2>3, <2>4, IdleKeepsIds DEF finish
  <1>10. ASSUME invalidateIndex
         PROVE  TreeInv(tree') /\ TreeInv(work'.tree)
    BY <1>0, <1>10, EmptyTreeIds DEF invalidateIndex
  <1>11. ASSUME UNCHANGED shardedVars
         PROVE  TreeInv(tree') /\ TreeInv(work'.tree)
    BY <1>0, <1>11 DEF shardedVars
  <1> QED
    BY <1>1, <1>2, <1>3, <1>4, <1>5, <1>6, <1>7, <1>8, <1>9, <1>10, <1>11 DEF ShardedNext

\* Whatever the order in which nodes come and go, however many shards an
\* update touches and wherever it overflows, an id names one node and lies in
\* its shard (registerNode, _handleNodeAdd)
THEOREM IdsAlwaysIdentify == ShardedSpec => []IdsIdentifyNodes
  <1>1. ShardedInit => IdsInv
    BY EmptyTreeIds DEF ShardedInit, IdsInv
  <1>2. IdsInv => IdsIdentifyNodes
    BY DEF IdsInv, TreeInv, IdsIdentifyNodes
  <1> QED
    BY <1>1, <1>2, StepKeepsIds, PTL DEF ShardedSpec

----------------------------------------------------------------------------
(* Bounds.                                                                 *)

\* A non-empty set of numbers with a bound has a greatest member.
LEMMA GreatestMember ==
    ASSUME NEW S, S \subseteq Nat, S # {}, NEW m \in Nat, \A x \in S : x <= m
    PROVE  \E x \in S : \A y \in S : y <= x
  <1> DEFINE R == OpToRel(<, Nat)
             D == {m - x : x \in S}
  <1>1. IsWellFoundedOn(R, Nat)
    BY NatLessThanWellFounded, Zenon
  <1>2. D \subseteq Nat /\ D # {}
    <2>1. \A x \in S : x \in Nat /\ m - x \in Nat
      OBVIOUS
    <2>2. \A y \in D : y \in Nat
      BY <2>1
    <2>3. PICK x \in S : TRUE
      OBVIOUS
    <2>4. m - x \in D
      OBVIOUS
    <2> QED
      BY <2>2, <2>4
  <1>3. PICK d \in D : \A y \in D : ~(<<y, d>> \in R)
    <2> HIDE DEF R, D
    <2> QED
      BY <1>1, <1>2, WFMin
  <1>4. d \in Nat /\ \A y \in D : y \in Nat /\ (y < d => <<y, d>> \in R)
    <2>1. d \in Nat /\ \A y \in D : y \in Nat
      BY <1>2
    <2> QED
      BY <2>1, Zenon DEF OpToRel
  <1>5. \A y \in D : y \in Nat /\ ~(y < d)
    BY <1>3, <1>4
  <1>6. PICK x \in S : d = m - x
    OBVIOUS
  <1>7. ASSUME NEW y \in S
        PROVE  y <= x
    <2>1. m - y \in D /\ y \in Nat /\ x \in Nat
      OBVIOUS
    <2>2. ~(m - y < d)
      BY <1>5, <2>1
    <2> QED
      BY <1>6, <2>1, <2>2
  <1> QED
    BY <1>7

\* What a finite set is mapped to is bounded.
LEMMA BoundedOn ==
    ASSUME NEW S, IsFiniteSet(S), NEW h, \A x \in S : h[x] \in Nat
    PROVE  \E m \in Nat : \A x \in S : h[x] <= m
  <1> DEFINE T == {n \in Nat : \A f \in [1..n -> S] : \E m \in Nat : \A i \in 1..n : h[f[i]] <= m}
  <1>1. 0 \in T
    OBVIOUS
  <1>2. ASSUME NEW n \in Nat, n \in T
        PROVE  n + 1 \in T
    <2>0. n + 1 \in Nat
      OBVIOUS
    <2> SUFFICES ASSUME NEW f \in [1..n + 1 -> S]
                 PROVE  \E m \in Nat : \A i \in 1..n + 1 : h[f[i]] <= m
      BY <2>0
    <2>1. [i \in 1..n |-> f[i]] \in [1..n -> S]
      OBVIOUS
    <2>2. PICK m \in Nat : \A i \in 1..n : h[[k \in 1..n |-> f[k]][i]] <= m
      BY <1>2, <2>1
    <2>3. h[f[n + 1]] \in Nat /\ \A i \in 1..n : h[f[i]] \in Nat /\ h[f[i]] <= m
      BY <2>2
    <2>4. /\ m + h[f[n + 1]] \in Nat
          /\ \A i \in 1..n + 1 : (i \in 1..n \/ i = n + 1) /\ h[f[i]] <= m + h[f[n + 1]]
      BY <2>3
    <2> QED
      BY <2>4
  <1>3. Nat \subseteq T
    <2> HIDE DEF T
    <2> QED
      BY <1>1, <1>2, SetInduction
  <1>4. Cardinality(S) \in Nat /\ ExistsBijection(1..Cardinality(S), S)
    BY FS_CardinalityType
  <1>5. PICK f : f \in Bijection(1..Cardinality(S), S)
    BY <1>4 DEF ExistsBijection
  <1>6. f \in [1..Cardinality(S) -> S] /\ \A x \in S : \E i \in 1..Cardinality(S) : f[i] = x
    BY <1>5 DEF Bijection, Surjection, Injection
  <1>7. PICK m \in Nat : \A i \in 1..Cardinality(S) : h[f[i]] <= m
    BY <1>3, <1>4, <1>6
  <1> QED
    BY <1>6, <1>7

----------------------------------------------------------------------------
(* The sharded index implements IndexService.  The relation of a tree to   *)
(* the index that it stores says more than toLogicalIndex: every row and   *)
(* every bit is one of a node and a label that have ids, ids and labels    *)
(* are told apart by theirs, so the tree is decoded to this index alone    *)
(* (DecodesTo) and a step on the tree is the step on the index.            *)
(*                                                                         *)
(* While a build or an update is under way, the invariant says where it    *)
(* leads: what the loops have still to visit, applied all at once to the   *)
(* work so far, gives what the whole diff or graph gives for the index at  *)
(* the start, in whatever order entries were taken; and what was not       *)
(* loaded is as it was, so writing the loaded shards writes the work.      *)

\* What a record of an index is.
isIndex(A) ==
    A = [known |-> A.known, alive |-> A.alive, labels |-> A.labels,
         fwd |-> A.fwd, rev |-> A.rev, props |-> A.props]

knownNodes(t) == {n \in Node : t.id[n] # NoId}
knownLabels(t) == {l \in Label : t.labels[l] # NoId}

\* A row of nodes and labels that have ids, and what it is stored as.
knownRows(t) == knownNodes(t) \X (knownLabels(t) \cup {"all"}) \X knownNodes(t)
codeOf(t, b) == IF b = "all" THEN all ELSE t.labels[b]
coded(t, r) == <<computeShardKey[r[1]], codeOf(t, r[2]), t.id[r[1]], t.id[r[3]]>>
storesRows(t, R, Q) ==
    /\ R \subseteq knownRows(t)
    /\ \A r \in R : coded(t, r) \in Q
    /\ \A q \in Q : \E r \in R : q = coded(t, r)

\* Labels have different ids.
labelsOk(t) ==
    /\ t.labels \in [Label -> Int] /\ \A l \in Label : t.labels[l] >= NoId
    /\ \A k, l \in Label : t.labels[k] = t.labels[l] /\ t.labels[l] # NoId => k = l

\* The bitmaps of a tree hold the ids of the nodes in V.
storesAlive(t, V) ==
    /\ V \subseteq knownNodes(t) /\ t.alive = [s \in Shard |-> t.alive[s]]
    /\ \A s \in Shard : \A x \in t.alive[s] : \E n \in V : computeShardKey[n] = s /\ x = t.id[n]
    /\ \A n \in V : t.id[n] \in t.alive[computeShardKey[n]]

\* The tree t holds the index A.
stores(t, A) ==
    /\ TreeInv(t) /\ labelsOk(t) /\ isIndex(A)
    /\ A.known = knownNodes(t) /\ A.labels = knownLabels(t) /\ A.props = t.props
    /\ storesAlive(t, A.alive)
    /\ storesRows(t, A.fwd, t.fwd) /\ storesRows(t, A.rev, t.rev)

\* The loops over nodes, and all of them.
nodesIn(A, N) == [A EXCEPT !.known = @ \cup N, !.alive = @ \cup N]
nodesOut(A, N) == [A EXCEPT !.alive = @ \ N]
loopsOver(A, a, o, p, e, r, s) ==
    Nodes!_handleEdgeAdd(
      Nodes!_handleEdgeRemove(
        Nodes!_handleEdgeAdd(Nodes!_purgeNodeEdges(nodesOut(nodesIn(A, a), o), p), e), r), s)
afterLoops(A, T) ==
    loopsOver(A, T.nodesAdded, T.nodesRemoved, T.purge, T.edgesAdded, T.edgesRemoved, T.restored)

\* What the loops are to visit in an update and in a build.
planOfUpdate(t, h, g) ==
    LET d == Nodes!diffOf(h, g)
        readded == {n \in d.nodesAdded : t.id[n] # NoId}
    IN  [nodesAdded |-> d.nodesAdded, nodesRemoved |-> d.nodesRemoved, purge |-> d.nodesRemoved,
         edgesAdded |-> {e \in d.edgesAdded : {e[1], e[2]} \subseteq g.nodes},
         edgesRemoved |-> d.edgesRemoved,
         restored |-> {e \in visible(g) \ d.edgesAdded : {e[1], e[2]} \cap readded # {}},
         props |-> d.propsChanged]
planOfBuild(g) ==
    [nodesAdded |-> g.nodes, nodesRemoved |-> {}, purge |-> {}, edgesAdded |-> visible(g),
     edgesRemoved |-> {}, restored |-> {}, props |-> builtProps(g)]

Edges == Node \X Node \X Label
isPlan(T) ==
    /\ T = [nodesAdded |-> T.nodesAdded, nodesRemoved |-> T.nodesRemoved, purge |-> T.purge,
            edgesAdded |-> T.edgesAdded, edgesRemoved |-> T.edgesRemoved,
            restored |-> T.restored, props |-> T.props]
    /\ T.nodesAdded \subseteq Node /\ T.nodesRemoved \subseteq Node /\ T.purge \subseteq Node
    /\ T.edgesAdded \subseteq Edges /\ T.edgesRemoved \subseteq Edges /\ T.restored \subseteq Edges

\* What was not loaded is as it was.
untouched(old, t, loaded) ==
    /\ \A n \in Node : computeShardKey[n] \notin loaded.meta => t.id[n] = old.id[n]
    /\ \A s \in Shard : s \notin loaded.meta => t.next[s] = old.next[s] /\ t.alive[s] = old.alive[s]
    /\ ~loaded.labels => t.labels = old.labels
    /\ \A r \in t.fwd \cup old.fwd : r[1] \notin loaded.fwd => (r \in t.fwd <=> r \in old.fwd)
    /\ \A r \in t.rev \cup old.rev : r[1] \notin loaded.rev => (r \in t.rev <=> r \in old.rev)
    /\ t.props = old.props

\* An index of ids and labels.
idsOnly(K, L) == [known |-> K, alive |-> {}, labels |-> L, fwd |-> {}, rev |-> {}, props |-> {}]

\* What the loops have still to visit leads to what all of it leads to.
leadsTo(A, P) ==
    /\ todo.props = P.props
    /\ afterLoops(toLogicalIndex(work.tree), todo) = afterLoops(A, P)

\* A tree holds what it is decoded to.
holds(t) == stores(t, toLogicalIndex(t))

isLoaded(l) ==
    l = [meta |-> l.meta, fwd |-> l.fwd, rev |-> l.rev, props |-> l.props, labels |-> l.labels]

\* The work holds an index, and the entries still to visit are those of a plan.
WorkInv ==
    /\ holds(work.tree) /\ isPlan(todo)
    /\ work = [tree |-> work.tree, loaded |-> work.loaded] /\ isLoaded(work.loaded)

\* An update starts from the tree of the view, a build from no ids and labels
\* or from those of the tree.
UpdateInv ==
    /\ built /\ WorkInv /\ untouched(tree, work.tree, work.loaded)
    /\ leadsTo(toLogicalIndex(tree), planOfUpdate(tree, graph, target))

BuildInv ==
    /\ WorkInv
    /\ \/ leadsTo(idsOnly({}, {}), planOfBuild(target))
       \/ built /\ leadsTo(idsOnly(knownNodes(tree), knownLabels(tree)), planOfBuild(target))

\* The inductive invariant.
ShardedInv ==
    /\ graph \in Graph /\ target \in Graph /\ mode \in {"idle", "build", "update"}
    /\ holds(tree)
    /\ mode = "update" => UpdateInv
    /\ mode = "build" => BuildInv

----------------------------------------------------------------------------
(* The loops, part by part.                                                *)

\* An index from its fields.
indexOf(K, V, L, F, R, P) ==
    [known |-> K, alive |-> V, labels |-> L, fwd |-> F, rev |-> R, props |-> P]

\* The fields of an index made of fields.
LEMMA IndexFields ==
    ASSUME NEW K, NEW V, NEW L, NEW F, NEW R, NEW P
    PROVE  LET B == indexOf(K, V, L, F, R, P)
           IN  /\ isIndex(B) /\ B.known = K /\ B.alive = V /\ B.labels = L
               /\ B.fwd = F /\ B.rev = R /\ B.props = P
  BY DEF indexOf, isIndex

\* An index is made of its fields.
LEMMA IsOfFields ==
    ASSUME NEW A, isIndex(A)
    PROVE  A = indexOf(A.known, A.alive, A.labels, A.fwd, A.rev, A.props)
  BY Zenon DEF indexOf, isIndex

\* An index with some fields changed.
LEMMA NodeFields ==
    ASSUME NEW A, isIndex(A), NEW K, NEW V
    PROVE  [A EXCEPT !.known = K, !.alive = V] = indexOf(K, V, A.labels, A.fwd, A.rev, A.props)
  <1>1. PICK a : a = [A EXCEPT !.known = K]
    OBVIOUS
  <1>2. a = [known |-> K, alive |-> A.alive, labels |-> A.labels,
             fwd |-> A.fwd, rev |-> A.rev, props |-> A.props]
    BY <1>1 DEF isIndex
  <1>3. [a EXCEPT !.alive = V] = indexOf(K, V, A.labels, A.fwd, A.rev, A.props)
    BY <1>2 DEF indexOf
  <1>4. [A EXCEPT !.known = K, !.alive = V] = [a EXCEPT !.alive = V]
    BY <1>1
  <1> QED
    BY <1>3, <1>4, Zenon

\* The same for the other fields.
LEMMA AliveFields ==
    ASSUME NEW A, isIndex(A), NEW V
    PROVE  [A EXCEPT !.alive = V] = indexOf(A.known, V, A.labels, A.fwd, A.rev, A.props)
  BY DEF isIndex, indexOf

LEMMA RowFields ==
    ASSUME NEW A, isIndex(A), NEW F, NEW R
    PROVE  [A EXCEPT !.fwd = F, !.rev = R] = indexOf(A.known, A.alive, A.labels, F, R, A.props)
  <1>1. PICK f : f = [A EXCEPT !.fwd = F]
    OBVIOUS
  <1>2. f = [known |-> A.known, alive |-> A.alive, labels |-> A.labels,
             fwd |-> F, rev |-> A.rev, props |-> A.props]
    BY <1>1 DEF isIndex
  <1>3. [f EXCEPT !.rev = R] = indexOf(A.known, A.alive, A.labels, F, R, A.props)
    BY <1>2 DEF indexOf
  <1>4. [A EXCEPT !.fwd = F, !.rev = R] = [f EXCEPT !.rev = R]
    BY <1>1
  <1> QED
    BY <1>3, <1>4, Zenon

LEMMA LabelFields ==
    ASSUME NEW A, isIndex(A), NEW L, NEW F, NEW R
    PROVE  [A EXCEPT !.labels = L, !.fwd = F, !.rev = R] = indexOf(A.known, A.alive, L, F, R, A.props)
  <1>1. PICK l : l = [A EXCEPT !.labels = L]
    OBVIOUS
  <1>2. l = [known |-> A.known, alive |-> A.alive, labels |-> L,
             fwd |-> A.fwd, rev |-> A.rev, props |-> A.props]
    BY <1>1 DEF isIndex
  <1>3. isIndex(l)
    BY <1>2 DEF isIndex
  <1>4. [l EXCEPT !.fwd = F, !.rev = R] = indexOf(l.known, l.alive, l.labels, F, R, l.props)
    BY <1>3, RowFields, Zenon
  <1>5. /\ l.known = A.known /\ l.alive = A.alive /\ l.labels = L /\ l.props = A.props
    BY <1>2
  <1>6. [A EXCEPT !.labels = L, !.fwd = F, !.rev = R] = [l EXCEPT !.fwd = F, !.rev = R]
    BY <1>1
  <1> QED
    BY <1>4, <1>5, <1>6, Zenon

\* Which rows a purge keeps, which an edge has, and which a removal leaves.
kept(R, Q, D) == {r \in R : r[1] \notin D /\ ~(r[3] \in D /\ <<r[3], r[2], r[1]>> \in Q)}
edgesIn(K, E) == {e \in E : {e[1], e[2]} \subseteq K}
edgesOut(K, L, E) == {e \in E : {e[1], e[2]} \subseteq K /\ e[3] \in L}
labelsOf(E) == {e[3] : e \in E}
outRows(E) == UNION {Nodes!rows(e[1], e[3], e[2]) : e \in E}
inRows(E) == UNION {Nodes!rows(e[2], e[3], e[1]) : e \in E}
outRow(E) == {<<e[1], e[3], e[2]>> : e \in E}
inRow(E) == {<<e[2], e[3], e[1]>> : e \in E}
remaining(R, Q, L) == Nodes!_recomputeAllBucket(R \ Q, {q[1] : q \in Q}, L)

\* The parts of an index.
parts(B, K, V, L, F, R, P) == B = indexOf(K, V, L, F, R, P)

\* What the parts of an index say.
LEMMA PartsSaid ==
    ASSUME NEW B, NEW K, NEW V, NEW L, NEW F, NEW R, NEW P, parts(B, K, V, L, F, R, P)
    PROVE  /\ isIndex(B) /\ B.known = K /\ B.alive = V /\ B.labels = L
           /\ B.fwd = F /\ B.rev = R /\ B.props = P
  BY DEF parts, indexOf, isIndex

\* An index is told by its parts.
LEMMA SameParts ==
    ASSUME NEW B, NEW C, NEW K, NEW V, NEW L, NEW F, NEW R, NEW P,
           parts(B, K, V, L, F, R, P), parts(C, K, V, L, F, R, P)
    PROVE  B = C
  BY DEF parts

LEMMA OwnParts ==
    ASSUME NEW A, isIndex(A)
    PROVE  parts(A, A.known, A.alive, A.labels, A.fwd, A.rev, A.props)
  BY IsOfFields DEF parts

\* The loops part by part.
LEMMA NodesInParts ==
    ASSUME NEW A, isIndex(A), NEW S
    PROVE  parts(nodesIn(A, S), A.known \cup S, A.alive \cup S, A.labels, A.fwd, A.rev, A.props)
  <1>1. nodesIn(A, S) = [A EXCEPT !.known = A.known \cup S, !.alive = A.alive \cup S]
    BY DEF nodesIn
  <1>2. nodesIn(A, S) = indexOf(A.known \cup S, A.alive \cup S, A.labels, A.fwd, A.rev, A.props)
    BY <1>1, NodeFields, Zenon
  <1> QED
    BY <1>2, Zenon DEF parts

LEMMA NodesOutParts ==
    ASSUME NEW A, isIndex(A), NEW S
    PROVE  parts(nodesOut(A, S), A.known, A.alive \ S, A.labels, A.fwd, A.rev, A.props)
  <1>1. nodesOut(A, S) = [A EXCEPT !.alive = A.alive \ S]
    BY DEF nodesOut
  <1>2. nodesOut(A, S) = indexOf(A.known, A.alive \ S, A.labels, A.fwd, A.rev, A.props)
    BY <1>1, AliveFields, Zenon
  <1> QED
    BY <1>2, Zenon DEF parts

\* _purgeNodeEdges of the index, by its parts.
LEMMA PurgeParts ==
    ASSUME NEW A, isIndex(A), NEW S
    PROVE  parts(Nodes!_purgeNodeEdges(A, S), A.known, A.alive, A.labels,
                 kept(A.fwd, A.rev, S), kept(A.rev, A.fwd, S), A.props)
  <1>1. Nodes!_purgeNodeEdges(A, S) =
          [A EXCEPT !.fwd = kept(A.fwd, A.rev, S), !.rev = kept(A.rev, A.fwd, S)]
    BY DEF Nodes!_purgeNodeEdges, kept
  <1>2. Nodes!_purgeNodeEdges(A, S) =
          indexOf(A.known, A.alive, A.labels, kept(A.fwd, A.rev, S), kept(A.rev, A.fwd, S), A.props)
    BY <1>1, RowFields, Zenon
  <1> QED
    BY <1>2, Zenon DEF parts

\* _handleEdgeAdd of the index, by its parts.
LEMMA EdgeAddParts ==
    ASSUME NEW A, isIndex(A), NEW S
    PROVE  parts(Nodes!_handleEdgeAdd(A, S), A.known, A.alive, A.labels \cup labelsOf(S),
                 A.fwd \cup outRows(edgesIn(A.known, S)), A.rev \cup inRows(edgesIn(A.known, S)), A.props)
  <1>1. Nodes!_handleEdgeAdd(A, S) =
          [A EXCEPT !.labels = A.labels \cup labelsOf(S), !.fwd = A.fwd \cup outRows(edgesIn(A.known, S)),
                    !.rev = A.rev \cup inRows(edgesIn(A.known, S))]
    BY DEF Nodes!_handleEdgeAdd, edgesIn, labelsOf, outRows, inRows
  <1>2. Nodes!_handleEdgeAdd(A, S) =
          indexOf(A.known, A.alive, A.labels \cup labelsOf(S), A.fwd \cup outRows(edgesIn(A.known, S)),
                  A.rev \cup inRows(edgesIn(A.known, S)), A.props)
    BY <1>1, LabelFields, Zenon
  <1> QED
    BY <1>2, Zenon DEF parts

\* The owners of the rows of a set of edges.
LEMMA RowOwners ==
    ASSUME NEW F
    PROVE  {e[1] : e \in F} = {q[1] : q \in outRow(F)} /\ {e[2] : e \in F} = {q[1] : q \in inRow(F)}
  <1>1. ASSUME NEW e \in F
        PROVE  /\ \E q \in outRow(F) : q[1] = e[1]
               /\ \E q \in inRow(F) : q[1] = e[2]
    <2>1. <<e[1], e[3], e[2]>> \in outRow(F) /\ <<e[2], e[3], e[1]>> \in inRow(F)
      BY DEF outRow, inRow
    <2> QED
      BY <2>1
  <1>2. /\ \A q \in outRow(F) : \E e \in F : q[1] = e[1]
        /\ \A q \in inRow(F) : \E e \in F : q[1] = e[2]
    BY DEF outRow, inRow
  <1>3. {e[1] : e \in F} = {q[1] : q \in outRow(F)}
    BY <1>1, <1>2
  <1>4. {e[2] : e \in F} = {q[1] : q \in inRow(F)}
    BY <1>1, <1>2
  <1> QED
    BY <1>3, <1>4

\* _handleEdgeRemove of the index, by its parts.
LEMMA EdgeRemoveParts ==
    ASSUME NEW A, isIndex(A), NEW S
    PROVE  parts(Nodes!_handleEdgeRemove(A, S), A.known, A.alive, A.labels,
                 remaining(A.fwd, outRow(edgesOut(A.known, A.labels, S)), A.labels),
                 remaining(A.rev, inRow(edgesOut(A.known, A.labels, S)), A.labels), A.props)
  <1>1. PICK F : F = edgesOut(A.known, A.labels, S)
    OBVIOUS
  <1>2. {e[1] : e \in F} = {q[1] : q \in outRow(F)} /\ {e[2] : e \in F} = {q[1] : q \in inRow(F)}
    BY RowOwners
  <1>3. Nodes!_handleEdgeRemove(A, S) =
          [A EXCEPT !.fwd = Nodes!_recomputeAllBucket(A.fwd \ outRow(F), {e[1] : e \in F}, A.labels),
                    !.rev = Nodes!_recomputeAllBucket(A.rev \ inRow(F), {e[2] : e \in F}, A.labels)]
    BY <1>1, Zenon DEF Nodes!_handleEdgeRemove, edgesOut, outRow, inRow
  <1>4. Nodes!_handleEdgeRemove(A, S) =
          indexOf(A.known, A.alive, A.labels,
                  Nodes!_recomputeAllBucket(A.fwd \ outRow(F), {e[1] : e \in F}, A.labels),
                  Nodes!_recomputeAllBucket(A.rev \ inRow(F), {e[2] : e \in F}, A.labels), A.props)
    BY <1>3, RowFields, Zenon
  <1> QED
    BY <1>1, <1>2, <1>4, Zenon DEF parts, remaining

\* A loop over nothing changes nothing.
LEMMA LoopsIdle ==
    ASSUME NEW A, isIndex(A)
    PROVE  /\ nodesIn(A, {}) = A /\ nodesOut(A, {}) = A /\ Nodes!_purgeNodeEdges(A, {}) = A
           /\ Nodes!_handleEdgeAdd(A, {}) = A /\ Nodes!_handleEdgeRemove(A, {}) = A
  <1>1. A.known \cup {} = A.known /\ A.alive \cup {} = A.alive /\ A.alive \ {} = A.alive
    OBVIOUS
  <1>2. A.labels \cup labelsOf({}) = A.labels
    BY DEF labelsOf
  <1>3. kept(A.fwd, A.rev, {}) = A.fwd /\ kept(A.rev, A.fwd, {}) = A.rev
    BY DEF kept
  <1>4. edgesIn(A.known, {}) = {} /\ edgesOut(A.known, A.labels, {}) = {}
    BY DEF edgesIn, edgesOut
  <1>5. A.fwd \cup outRows({}) = A.fwd /\ A.rev \cup inRows({}) = A.rev
    BY DEF outRows, inRows
  <1>6. /\ remaining(A.fwd, outRow({}), A.labels) = A.fwd
        /\ remaining(A.rev, inRow({}), A.labels) = A.rev
    <2>1. outRow({}) = {} /\ inRow({}) = {}
      BY DEF outRow, inRow
    <2>2. \A R : remaining(R, {}, A.labels) = R
      BY DEF remaining, Nodes!_recomputeAllBucket
    <2> QED
      BY <2>1, <2>2
  <1>7. parts(nodesIn(A, {}), A.known, A.alive, A.labels, A.fwd, A.rev, A.props)
    BY <1>1, NodesInParts
  <1>8. parts(nodesOut(A, {}), A.known, A.alive, A.labels, A.fwd, A.rev, A.props)
    BY <1>1, NodesOutParts
  <1>9. parts(Nodes!_purgeNodeEdges(A, {}), A.known, A.alive, A.labels, A.fwd, A.rev, A.props)
    BY <1>3, PurgeParts
  <1>10. parts(Nodes!_handleEdgeAdd(A, {}), A.known, A.alive, A.labels, A.fwd, A.rev, A.props)
    BY <1>2, <1>4, <1>5, EdgeAddParts
  <1>11. parts(Nodes!_handleEdgeRemove(A, {}), A.known, A.alive, A.labels, A.fwd, A.rev, A.props)
    BY <1>4, <1>6, EdgeRemoveParts
  <1> QED
    BY <1>7, <1>8, <1>9, <1>10, <1>11, OwnParts, SameParts


\* A loop over one set and then over another.
joins(S, D, T) == T = S \cup D

\* A loop over two parts of a set is one over the set: nodes added,
LEMMA NodesInTwice ==
    ASSUME NEW A, isIndex(A), NEW S, NEW D, NEW T, joins(S, D, T)
    PROVE  nodesIn(nodesIn(A, S), D) = nodesIn(A, T)
  <1>1. PICK B : B = nodesIn(A, S)
    OBVIOUS
  <1>2. PICK K, V : K = A.known \cup S /\ V = A.alive \cup S
    OBVIOUS
  <1>3. parts(B, K, V, A.labels, A.fwd, A.rev, A.props)
    BY <1>1, <1>2, NodesInParts
  <1>4. /\ isIndex(B) /\ B.known = K /\ B.alive = V /\ B.labels = A.labels
        /\ B.fwd = A.fwd /\ B.rev = A.rev /\ B.props = A.props
    BY <1>3, PartsSaid
  <1>5. T = S \cup D
    BY DEF joins
  <1>6. K \cup D = A.known \cup T /\ V \cup D = A.alive \cup T
    BY <1>2, <1>5
  <1>7. parts(nodesIn(B, D), A.known \cup T, A.alive \cup T, A.labels, A.fwd, A.rev, A.props)
    BY <1>4, <1>6, NodesInParts
  <1>8. parts(nodesIn(A, T), A.known \cup T, A.alive \cup T, A.labels, A.fwd, A.rev, A.props)
    BY NodesInParts
  <1>9. nodesIn(B, D) = nodesIn(A, T)
    BY <1>7, <1>8, SameParts, Zenon
  <1> QED
    BY <1>1, <1>9

\* nodes removed,
LEMMA NodesOutTwice ==
    ASSUME NEW A, isIndex(A), NEW S, NEW D, NEW T, joins(S, D, T)
    PROVE  nodesOut(nodesOut(A, S), D) = nodesOut(A, T)
  <1>1. PICK B : B = nodesOut(A, S)
    OBVIOUS
  <1>2. PICK V : V = A.alive \ S
    OBVIOUS
  <1>3. parts(B, A.known, V, A.labels, A.fwd, A.rev, A.props)
    BY <1>1, <1>2, NodesOutParts
  <1>4. /\ isIndex(B) /\ B.known = A.known /\ B.alive = V /\ B.labels = A.labels
        /\ B.fwd = A.fwd /\ B.rev = A.rev /\ B.props = A.props
    BY <1>3, PartsSaid
  <1>5. T = S \cup D
    BY DEF joins
  <1>6. V \ D = A.alive \ T
    BY <1>2, <1>5
  <1>7. parts(nodesOut(B, D), A.known, A.alive \ T, A.labels, A.fwd, A.rev, A.props)
    BY <1>4, <1>6, NodesOutParts
  <1>8. parts(nodesOut(A, T), A.known, A.alive \ T, A.labels, A.fwd, A.rev, A.props)
    BY NodesOutParts
  <1>9. nodesOut(B, D) = nodesOut(A, T)
    BY <1>7, <1>8, SameParts, Zenon
  <1> QED
    BY <1>1, <1>9

\* Purging one set of nodes after the other purges both.
LEMMA KeptTwice ==
    ASSUME NEW R, NEW Q, NEW S, NEW D, NEW T, joins(S, D, T)
    PROVE  kept(kept(R, Q, S), kept(Q, R, S), D) = kept(R, Q, S \cup D)
  <1>1. PICK K, J : K = kept(R, Q, S) /\ J = kept(Q, R, S)
    OBVIOUS
  <1>2. ASSUME NEW r
        PROVE  r \in kept(K, J, D) <=> r \in kept(R, Q, S \cup D)
    <2>1. PICK m : m = <<r[3], r[2], r[1]>>
      OBVIOUS
    <2>2. m[1] = r[3] /\ m[2] = r[2] /\ m[3] = r[1] /\ <<m[3], m[2], m[1]>> = <<r[1], r[2], r[3]>>
      BY <2>1
    <2>3. r \in kept(K, J, D) <=> r \in K /\ r[1] \notin D /\ ~(r[3] \in D /\ m \in J)
      BY <2>1 DEF kept
    <2>4. r \in K <=> r \in R /\ r[1] \notin S /\ ~(r[3] \in S /\ m \in Q)
      BY <1>1, <2>1 DEF kept
    <2>5. r[1] \notin S => (m \in J <=> m \in Q /\ r[3] \notin S)
      BY <1>1, <2>2 DEF kept
    <2>6. r \in kept(R, Q, S \cup D) <=>
            r \in R /\ r[1] \notin S \cup D /\ ~(r[3] \in S \cup D /\ m \in Q)
      BY <2>1 DEF kept
    <2> QED
      BY <2>3, <2>4, <2>5, <2>6
  <1>3. kept(K, J, D) = kept(R, Q, S \cup D)
    <2>1. kept(K, J, D) \subseteq kept(R, Q, S \cup D) /\ kept(R, Q, S \cup D) \subseteq kept(K, J, D)
      BY <1>2
    <2> QED
      BY <2>1
  <1> QED
    BY <1>1, <1>3

\* nodes purged,
LEMMA PurgeTwice ==
    ASSUME NEW A, isIndex(A), NEW S, NEW D, NEW T, joins(S, D, T)
    PROVE  Nodes!_purgeNodeEdges(Nodes!_purgeNodeEdges(A, S), D) = Nodes!_purgeNodeEdges(A, T)
  <1>1. PICK B : B = Nodes!_purgeNodeEdges(A, S)
    OBVIOUS
  <1>2. PICK F, R : F = kept(A.fwd, A.rev, S) /\ R = kept(A.rev, A.fwd, S)
    OBVIOUS
  <1>3. parts(B, A.known, A.alive, A.labels, F, R, A.props)
    BY <1>1, <1>2, PurgeParts
  <1>4. /\ isIndex(B) /\ B.known = A.known /\ B.alive = A.alive /\ B.labels = A.labels
        /\ B.fwd = F /\ B.rev = R /\ B.props = A.props
    BY <1>3, PartsSaid
  <1>5. T = S \cup D
    BY DEF joins
  <1>6. kept(F, R, D) = kept(A.fwd, A.rev, T) /\ kept(R, F, D) = kept(A.rev, A.fwd, T)
    BY <1>2, <1>5, KeptTwice
  <1>7. parts(Nodes!_purgeNodeEdges(B, D), A.known, A.alive, A.labels,
              kept(A.fwd, A.rev, T), kept(A.rev, A.fwd, T), A.props)
    BY <1>4, <1>6, PurgeParts
  <1>8. parts(Nodes!_purgeNodeEdges(A, T), A.known, A.alive, A.labels,
              kept(A.fwd, A.rev, T), kept(A.rev, A.fwd, T), A.props)
    BY PurgeParts
  <1>9. Nodes!_purgeNodeEdges(B, D) = Nodes!_purgeNodeEdges(A, T)
    BY <1>7, <1>8, SameParts, Zenon
  <1> QED
    BY <1>1, <1>9

\* edges added,
LEMMA EdgeAddTwice ==
    ASSUME NEW A, isIndex(A), NEW S, NEW D, NEW T, joins(S, D, T)
    PROVE  Nodes!_handleEdgeAdd(Nodes!_handleEdgeAdd(A, S), D) = Nodes!_handleEdgeAdd(A, T)
  <1>1. PICK B : B = Nodes!_handleEdgeAdd(A, S)
    OBVIOUS
  <1>2. PICK L, F, R : /\ L = A.labels \cup labelsOf(S)
                       /\ F = A.fwd \cup outRows(edgesIn(A.known, S))
                       /\ R = A.rev \cup inRows(edgesIn(A.known, S))
    OBVIOUS
  <1>3. parts(B, A.known, A.alive, L, F, R, A.props)
    BY <1>1, <1>2, EdgeAddParts
  <1>4. /\ isIndex(B) /\ B.known = A.known /\ B.alive = A.alive /\ B.labels = L
        /\ B.fwd = F /\ B.rev = R /\ B.props = A.props
    BY <1>3, PartsSaid
  <1>5. T = S \cup D
    BY DEF joins
  <1>6. PICK E, G, H : E = edgesIn(A.known, S) /\ G = edgesIn(A.known, D) /\ H = edgesIn(A.known, T)
    OBVIOUS
  <1>7. H = E \cup G
    BY <1>5, <1>6 DEF edgesIn
  <1>8. L \cup labelsOf(D) = A.labels \cup labelsOf(T)
    BY <1>2, <1>5 DEF labelsOf
  <1>9. F \cup outRows(G) = A.fwd \cup outRows(H) /\ R \cup inRows(G) = A.rev \cup inRows(H)
    <2>1. outRows(H) = outRows(E) \cup outRows(G) /\ inRows(H) = inRows(E) \cup inRows(G)
      BY <1>7 DEF outRows, inRows
    <2> QED
      BY <1>2, <1>6, <2>1
  <1>10. PICK L2, F2, R2 : /\ L2 = A.labels \cup labelsOf(T)
                           /\ F2 = A.fwd \cup outRows(edgesIn(A.known, T))
                           /\ R2 = A.rev \cup inRows(edgesIn(A.known, T))
    OBVIOUS
  <1>11. parts(Nodes!_handleEdgeAdd(B, D), A.known, A.alive, L2, F2, R2, A.props)
    BY <1>4, <1>6, <1>8, <1>9, <1>10, EdgeAddParts
  <1>12. parts(Nodes!_handleEdgeAdd(A, T), A.known, A.alive, L2, F2, R2, A.props)
    BY <1>10, EdgeAddParts
  <1>13. Nodes!_handleEdgeAdd(B, D) = Nodes!_handleEdgeAdd(A, T)
    BY <1>11, <1>12, SameParts, Zenon
  <1> QED
    BY <1>1, <1>13

\* The rows that are left, one by one.
LEMMA LeftRow ==
    ASSUME NEW R, NEW Q, NEW L, NEW r
    PROVE  r \in remaining(R, Q, L) <=>
             \/ r \in R /\ r \notin Q /\ (r[2] # "all" \/ \A q \in Q : q[1] # r[1])
             \/ \E p \in R : /\ p \notin Q /\ p[2] \in L /\ (\E q \in Q : q[1] = p[1])
                             /\ r = <<p[1], "all", p[3]>>
  BY DEF remaining, Nodes!_recomputeAllBucket

\* Removing one set of rows after the other removes both.
LEMMA LeftTwice ==
    ASSUME NEW R, NEW S, NEW D, NEW L, "all" \notin L, \A q \in S \cup D : q[2] \in L
    PROVE  remaining(remaining(R, S, L), D, L) = remaining(R, S \cup D, L)
  <1>1. PICK K : K = remaining(R, S, L)
    OBVIOUS
  <1>2. PICK T : T = S \cup D
    OBVIOUS
  <1>3. \A p : p[2] # "all" => (p \in K <=> p \in R /\ p \notin S)
    <2> TAKE p
    <2>1. \A q : <<q[1], "all", q[3]>>[2] = "all"
      OBVIOUS
    <2> QED
      BY <1>1, <2>1, LeftRow
  <1>4. \A r : r[2] = "all" =>
          (r \in K <=> \/ r \in R /\ \A q \in S : q[1] # r[1]
                       \/ \E p \in R : /\ p \notin S /\ p[2] \in L /\ (\E q \in S : q[1] = p[1])
                                       /\ r = <<p[1], "all", p[3]>>)
    BY <1>1, LeftRow
  <1>5. ASSUME NEW r
        PROVE  r \in remaining(K, D, L) <=> r \in remaining(R, T, L)
    <2>1. r \in remaining(K, D, L) <=>
             \/ r \in K /\ r \notin D /\ (r[2] # "all" \/ \A q \in D : q[1] # r[1])
             \/ \E p \in K : /\ p \notin D /\ p[2] \in L /\ (\E q \in D : q[1] = p[1])
                             /\ r = <<p[1], "all", p[3]>>
      BY LeftRow
    <2>2. r \in remaining(R, T, L) <=>
             \/ r \in R /\ r \notin T /\ (r[2] # "all" \/ \A q \in T : q[1] # r[1])
             \/ \E p \in R : /\ p \notin T /\ p[2] \in L /\ (\E q \in T : q[1] = p[1])
                             /\ r = <<p[1], "all", p[3]>>
      BY LeftRow
    <2>3. \A p : <<p[1], "all", p[3]>>[1] = p[1] /\ <<p[1], "all", p[3]>>[2] = "all"
      OBVIOUS
    <2>4. CASE r[2] # "all"
      BY <1>2, <1>3, <2>1, <2>2, <2>3, <2>4
    <2>5. CASE r[2] = "all"
      <3>1. \A p : p[2] \in L => (p \in K <=> p \in R /\ p \notin S)
        BY <1>3
      <3>2. ASSUME r \in remaining(K, D, L) PROVE r \in remaining(R, T, L)
        <4>1. CASE r \in K /\ \A q \in D : q[1] # r[1]
          <5>1. CASE r \in R /\ \A q \in S : q[1] # r[1]
            BY <1>2, <2>2, <2>5, <4>1, <5>1
          <5>2. ASSUME NEW p \in R, p \notin S, p[2] \in L, \E q \in S : q[1] = p[1],
                       r = <<p[1], "all", p[3]>>
                PROVE  r \in remaining(R, T, L)
            <6>1. r[1] = p[1]
              BY <5>2
            <6>2. p \notin T
              BY <1>2, <4>1, <5>2, <6>1
            <6> QED
              BY <1>2, <2>2, <5>2, <6>2
          <5> QED
            BY <1>4, <2>5, <4>1, <5>1, <5>2
        <4>2. ASSUME NEW p \in K, p \notin D, p[2] \in L, \E q \in D : q[1] = p[1],
                     r = <<p[1], "all", p[3]>>
              PROVE  r \in remaining(R, T, L)
          BY <1>2, <2>2, <3>1, <4>2
        <4> QED
          BY <2>1, <2>5, <3>2, <4>1, <4>2
      <3>3. ASSUME r \in remaining(R, T, L) PROVE r \in remaining(K, D, L)
        <4>1. CASE r \in R /\ r \notin T /\ \A q \in T : q[1] # r[1]
          <5>1. r \in K
            BY <1>2, <1>4, <2>5, <4>1
          <5> QED
            BY <1>2, <2>1, <4>1, <5>1
        <4>2. ASSUME NEW p \in R, p \notin T, p[2] \in L, \E q \in T : q[1] = p[1],
                     r = <<p[1], "all", p[3]>>
              PROVE  r \in remaining(K, D, L)
          <5>1. p \in K /\ p \notin D /\ p \notin S
            BY <1>2, <3>1, <4>2
          <5>2. CASE \E q \in D : q[1] = p[1]
            BY <2>1, <4>2, <5>1, <5>2
          <5>3. CASE \A q \in D : q[1] # p[1]
            <6>1. \E q \in S : q[1] = p[1]
              BY <1>2, <4>2, <5>3
            <6>2. r \in K /\ r[1] = p[1]
              BY <1>4, <2>5, <4>2, <5>1, <6>1
            <6>3. r \notin D
              BY <5>3, <6>2
            <6> QED
              BY <2>1, <5>3, <6>2, <6>3
          <5> QED
            BY <5>2, <5>3
        <4> QED
          BY <2>2, <2>5, <3>3, <4>1, <4>2
      <3> QED
        BY <3>2, <3>3
    <2> QED
      BY <2>4, <2>5
  <1>6. remaining(K, D, L) = remaining(R, T, L)
    <2>1. remaining(K, D, L) \subseteq remaining(R, T, L) /\ remaining(R, T, L) \subseteq remaining(K, D, L)
      BY <1>5
    <2> QED
      BY <2>1
  <1> QED
    BY <1>1, <1>2, <1>6

\* and edges removed, which needs "all" not to be a label.
LEMMA EdgeRemoveTwice ==
    ASSUME NEW A, isIndex(A), "all" \notin A.labels, NEW S, NEW D, NEW T, joins(S, D, T)
    PROVE  Nodes!_handleEdgeRemove(Nodes!_handleEdgeRemove(A, S), D) = Nodes!_handleEdgeRemove(A, T)
  <1>1. PICK B : B = Nodes!_handleEdgeRemove(A, S)
    OBVIOUS
  <1>2. PICK E, G : E = edgesOut(A.known, A.labels, S) /\ G = edgesOut(A.known, A.labels, D)
    OBVIOUS
  <1>3. PICK F, R : F = remaining(A.fwd, outRow(E), A.labels) /\ R = remaining(A.rev, inRow(E), A.labels)
    OBVIOUS
  <1>4. parts(B, A.known, A.alive, A.labels, F, R, A.props)
    BY <1>1, <1>2, <1>3, EdgeRemoveParts
  <1>5. /\ isIndex(B) /\ B.known = A.known /\ B.alive = A.alive /\ B.labels = A.labels
        /\ B.fwd = F /\ B.rev = R /\ B.props = A.props
    BY <1>4, PartsSaid
  <1>0. T = S \cup D
    BY DEF joins
  <1>6. PICK H : H = edgesOut(A.known, A.labels, T)
    OBVIOUS
  <1>7. outRow(H) = outRow(E) \cup outRow(G) /\ inRow(H) = inRow(E) \cup inRow(G)
    <2>1. H = E \cup G
      BY <1>0, <1>2, <1>6 DEF edgesOut
    <2> QED
      BY <2>1 DEF outRow, inRow
  <1>8. \A q \in outRow(E) \cup outRow(G) \cup inRow(E) \cup inRow(G) : q[2] \in A.labels
    BY <1>2 DEF outRow, inRow, edgesOut
  <1>9. /\ remaining(F, outRow(G), A.labels) = remaining(A.fwd, outRow(H), A.labels)
        /\ remaining(R, inRow(G), A.labels) = remaining(A.rev, inRow(H), A.labels)
    BY <1>3, <1>7, <1>8, LeftTwice
  <1>10. parts(Nodes!_handleEdgeRemove(B, D), A.known, A.alive, A.labels,
               remaining(A.fwd, outRow(edgesOut(A.known, A.labels, T)), A.labels),
               remaining(A.rev, inRow(edgesOut(A.known, A.labels, T)), A.labels), A.props)
    BY <1>2, <1>5, <1>6, <1>9, EdgeRemoveParts
  <1>11. Nodes!_handleEdgeRemove(B, D) = Nodes!_handleEdgeRemove(A, T)
    BY <1>10, EdgeRemoveParts, SameParts, Zenon
  <1> QED
    BY <1>1, <1>11

----------------------------------------------------------------------------
(* Rows and what they are stored as.                                       *)

\* What a row is stored as.
LEMMA CodeFields ==
    ASSUME NEW t, NEW r
    PROVE  /\ coded(t, r)[1] = computeShardKey[r[1]] /\ coded(t, r)[2] = codeOf(t, r[2])
           /\ coded(t, r)[3] = t.id[r[1]] /\ coded(t, r)[4] = t.id[r[3]]
  BY DEF coded

\* Buckets, nodes and rows that are stored as the same are the same.
LEMMA BucketsApart ==
    ASSUME NEW t, labelsOk(t), NEW a \in knownLabels(t) \cup {"all"}, NEW b \in knownLabels(t) \cup {"all"},
           codeOf(t, a) = codeOf(t, b)
    PROVE  a = b
  <1>1. \A l \in knownLabels(t) : l # "all" => codeOf(t, l) # all /\ codeOf(t, l) = t.labels[l]
    BY DEF codeOf, knownLabels, all, NoId
  <1>2. codeOf(t, "all") = all
    BY DEF codeOf
  <1>3. \A l \in knownLabels(t) : l \in Label /\ t.labels[l] # NoId
    BY DEF knownLabels
  <1>4. CASE a = "all"
    BY <1>1, <1>2, <1>4
  <1>5. CASE b = "all"
    BY <1>1, <1>2, <1>5
  <1>6. CASE a # "all" /\ b # "all"
    BY <1>1, <1>3, <1>6 DEF labelsOk
  <1> QED
    BY <1>4, <1>5, <1>6

\* An id names one node.
LEMMA IdsApart ==
    ASSUME NEW t, TreeInv(t), NEW n \in knownNodes(t), NEW m \in knownNodes(t), t.id[n] = t.id[m]
    PROVE  n = m
  BY IdsOkSaid DEF TreeInv, uniqueIds, knownNodes

\* A row of known nodes and labels.
LEMMA RowIs ==
    ASSUME NEW t, NEW r \in knownRows(t)
    PROVE  /\ r = <<r[1], r[2], r[3]>> /\ r[1] \in knownNodes(t) /\ r[3] \in knownNodes(t)
           /\ r[2] \in knownLabels(t) \cup {"all"}
  BY DEF knownRows

LEMMA CodesApart ==
    ASSUME NEW t, TreeInv(t), labelsOk(t), NEW r \in knownRows(t), NEW s \in knownRows(t),
           coded(t, r) = coded(t, s)
    PROVE  r = s
  <1>1. r[1] = s[1] /\ r[3] = s[3]
    BY CodeFields, RowIs, IdsApart
  <1>2. r[2] = s[2]
    BY CodeFields, RowIs, BucketsApart
  <1> QED
    BY <1>1, <1>2, RowIs

\* An id lies in the range of its node's shard only.
LEMMA ShardOfId ==
    ASSUME NEW t, TreeInv(t), NEW n \in knownNodes(t)
    PROVE  shardByte(t.id[n]) = computeShardKey[n]
  <1> DEFINE s == computeShardKey[n]
             x == t.id[n]
  <1>1. n \in Node /\ x # NoId
    BY DEF knownNodes
  <1>2. s \in Shard /\ s \in Nat /\ MAX_LOCAL_ID \in Nat /\ x \in Int
    BY <1>1, ShardTypes DEF TreeInv, isTree
  <1>3. idIn(t, s, x) /\ t.next[s] \in Int /\ t.next[s] <= MAX_LOCAL_ID
    BY <1>1, <1>2, IdsOkSaid DEF TreeInv, idsInShard, countersInRange, isTree
  <1> HIDE DEF s, x
  <1>4. \A q \in Shard : q \in Nat /\ q * MAX_LOCAL_ID \in Nat
    BY <1>2, ShardAssumption
  <1>5. \A q \in Shard : x \in globalId(q, 0)..globalId(q, MAX_LOCAL_ID - 1)
                           <=> q * MAX_LOCAL_ID <= x /\ x < q * MAX_LOCAL_ID + MAX_LOCAL_ID
    <2> TAKE q \in Shard
    <2>1. PICK p : p = q * MAX_LOCAL_ID
      OBVIOUS
    <2>2. p \in Nat
      BY <1>4, <2>1
    <2> QED
      BY <1>2, <2>1, <2>2 DEF globalId
  <1>6. s * MAX_LOCAL_ID <= x /\ x < s * MAX_LOCAL_ID + MAX_LOCAL_ID
    BY <1>2, <1>3, <1>4 DEF idIn
  <1>7. \A q \in Shard : x \in globalId(q, 0)..globalId(q, MAX_LOCAL_ID - 1) <=> q = s
    BY <1>2, <1>4, <1>5, <1>6, ShardsAreApart
  <1>8. shardByte(x) = s
    BY <1>2, <1>7 DEF shardByte
  <1> QED
    BY <1>8 DEF s, x

----------------------------------------------------------------------------
(* Stored rows: unions, differences, an owner's rows, rows turned round.   *)

ownedBy(R, n) == {r \in R : r[1] = n}
turned(R) == {<<r[3], r[2], r[1]>> : r \in R}

\* Sets of rows are stored as the union and the difference of what they are.
LEMMA RowsUnion ==
    ASSUME NEW t, NEW R, NEW Q, storesRows(t, R, Q), NEW S, NEW P, storesRows(t, S, P)
    PROVE  storesRows(t, R \cup S, Q \cup P)
  BY DEF storesRows

LEMMA RowsMinus ==
    ASSUME NEW t, TreeInv(t), labelsOk(t), NEW R, NEW Q, storesRows(t, R, Q), NEW S, NEW P, storesRows(t, S, P)
    PROVE  storesRows(t, R \ S, Q \ P)
  <1>1. \A r \in R, s \in S : coded(t, r) = coded(t, s) => r = s
    BY CodesApart DEF storesRows
  <1> QED
    BY <1>1 DEF storesRows

\* The rows of an owner, and the rows seen from the other end.
LEMMA RowsOwn ==
    ASSUME NEW t, TreeInv(t), NEW R, NEW Q, storesRows(t, R, Q), NEW n \in knownNodes(t)
    PROVE  storesRows(t, ownedBy(R, n), rowsOf(Q, n, t.id[n]))
  <1>1. \A r \in R : coded(t, r)[1] = computeShardKey[n] /\ coded(t, r)[3] = t.id[n] <=> r[1] = n
    BY CodeFields, RowIs, IdsApart DEF storesRows
  <1> QED
    BY <1>1 DEF storesRows, ownedBy, rowsOf

LEMMA RowsTurned ==
    ASSUME NEW t, TreeInv(t), NEW R, NEW Q, storesRows(t, R, Q), NEW n \in knownNodes(t), \A r \in R : r[1] = n
    PROVE  storesRows(t, turned(R), peerBits(t, Q, t.id[n]))
  <1>1. ASSUME NEW r \in R
        PROVE  /\ r \in knownRows(t) /\ <<r[3], r[2], r[1]>> \in knownRows(t)
               /\ _findNodeIdByGlobal(t, coded(t, r)[4]) # {}
               /\ coded(t, <<r[3], r[2], r[1]>>) =
                    <<shardByte(coded(t, r)[4]), coded(t, r)[2], coded(t, r)[4], t.id[n]>>
    <2>1. r \in knownRows(t) /\ r[1] = n
      BY DEF storesRows
    <2>2. r[1] \in knownNodes(t) /\ r[3] \in knownNodes(t) /\ r[2] \in knownLabels(t) \cup {"all"}
      BY <2>1, RowIs
    <2>3. <<r[3], r[2], r[1]>> \in knownRows(t)
      BY <2>2 DEF knownRows
    <2>4. coded(t, r)[4] = t.id[r[3]] /\ shardByte(t.id[r[3]]) = computeShardKey[r[3]]
      BY <2>2, CodeFields, ShardOfId
    <2>5. r[3] \in _findNodeIdByGlobal(t, coded(t, r)[4])
      BY <2>2, <2>4 DEF _findNodeIdByGlobal, knownNodes
    <2>6. coded(t, <<r[3], r[2], r[1]>>) = <<computeShardKey[r[3]], codeOf(t, r[2]), t.id[r[3]], t.id[n]>>
      BY <2>1 DEF coded
    <2> QED
      BY <2>1, <2>3, <2>4, <2>5, <2>6, CodeFields
  <1>2. turned(R) \subseteq knownRows(t)
    BY <1>1 DEF turned
  <1>3. ASSUME NEW s \in turned(R)
        PROVE  coded(t, s) \in peerBits(t, Q, t.id[n])
    <2>1. PICK r \in R : s = <<r[3], r[2], r[1]>>
      BY DEF turned
    <2>2. coded(t, r) \in Q
      BY DEF storesRows
    <2> QED
      BY <1>1, <2>1, <2>2 DEF peerBits
  <1>4. ASSUME NEW q \in peerBits(t, Q, t.id[n])
        PROVE  \E s \in turned(R) : q = coded(t, s)
    <2>1. PICK p \in Q : q = <<shardByte(p[4]), p[2], p[4], t.id[n]>>
      BY DEF peerBits
    <2>2. PICK r \in R : p = coded(t, r)
      BY DEF storesRows
    <2>3. <<r[3], r[2], r[1]>> \in turned(R)
      BY DEF turned
    <2> QED
      BY <1>1, <2>1, <2>2, <2>3
  <1> QED
    BY <1>2, <1>3, <1>4 DEF storesRows

\* The rows that a purge of one node keeps.
areRows(R) == \A r \in R : r = <<r[1], r[2], r[3]>>

\* The rows that _purgeNodeEdges of one node keeps, step by step.
LEMMA KeptOfOne ==
    ASSUME NEW R, NEW Q, NEW n, areRows(R), areRows(Q),
           NEW D, NEW O, NEW P, NEW I, NEW X, NEW Y, D = {n}, O = ownedBy(R, n), P = Q \ turned(O),
           I = ownedBy(P, n), X = (R \ O) \ turned(I), Y = P \ I
    PROVE  kept(R, Q, D) = X /\ kept(Q, R, D) = Y
  <1>0. \A r \in R \cup Q : r = <<r[1], r[2], r[3]>>
    BY DEF areRows
  <1>1. P = Q \ turned(ownedBy(R, n))
    OBVIOUS
  <1>2. ASSUME NEW S, S \subseteq R \cup Q, NEW r \in R \cup Q
        PROVE  r \in turned(ownedBy(S, n)) <=> r[3] = n /\ <<r[3], r[2], r[1]>> \in S
    <2>1. PICK m : m = <<r[3], r[2], r[1]>>
      OBVIOUS
    <2>2. m[1] = r[3] /\ m[2] = r[2] /\ m[3] = r[1] /\ r = <<m[3], m[2], m[1]>>
      BY <1>0, <2>1
    <2>3. ASSUME r[3] = n, m \in S PROVE r \in turned(ownedBy(S, n))
      BY <2>2, <2>3 DEF turned, ownedBy
    <2>4. ASSUME r \in turned(ownedBy(S, n)) PROVE r[3] = n /\ m \in S
      <3>1. PICK s \in S : s[1] = n /\ r = <<s[3], s[2], s[1]>>
        BY <2>4 DEF turned, ownedBy
      <3>2. s = <<s[1], s[2], s[3]>>
        BY <1>0, <1>2
      <3>3. r[1] = s[3] /\ r[2] = s[2] /\ r[3] = s[1]
        BY <3>1
      <3>4. m = s
        BY <2>1, <3>2, <3>3
      <3> QED
        BY <3>1, <3>3, <3>4
    <2> QED
      BY <2>1, <2>3, <2>4
  <1>3. ASSUME NEW r \in R \cup Q
        PROVE  r \in P <=> r \in Q /\ ~(r[3] = n /\ <<r[3], r[2], r[1]>> \in R)
    BY <1>1, <1>2
  <1>4. ASSUME NEW r
        PROVE  r \in kept(R, Q, {n}) <=> r \in (R \ ownedBy(R, n)) \ turned(ownedBy(P, n))
    <2>1. CASE r \notin R
      BY <2>1 DEF kept
    <2>2. CASE r \in R
      <3>1. PICK m : m = <<r[3], r[2], r[1]>>
        OBVIOUS
      <3>2. P \subseteq R \cup Q
        BY <1>1
      <3>3. r \in turned(ownedBy(P, n)) <=> r[3] = n /\ m \in P
        BY <1>2, <2>2, <3>1, <3>2
      <3>4. r[1] # n => (m \in P <=> m \in Q)
        <4>1. m[3] = r[1]
          BY <3>1
        <4> QED
          BY <1>1, <1>3, <4>1
      <3>5. r \in kept(R, Q, {n}) <=> r[1] # n /\ ~(r[3] = n /\ m \in Q)
        BY <2>2, <3>1 DEF kept
      <3> QED
        BY <2>2, <3>3, <3>4, <3>5 DEF ownedBy
    <2> QED
      BY <2>1, <2>2
  <1>5. ASSUME NEW r
        PROVE  r \in kept(Q, R, {n}) <=> r \in P \ ownedBy(P, n)
    <2>1. r \in P \ ownedBy(P, n) <=> r \in P /\ r[1] # n
      BY DEF ownedBy
    <2>2. r \in P => r \in Q
      BY <1>1
    <2>3. r \in Q => (r \in P <=> ~(r[3] = n /\ <<r[3], r[2], r[1]>> \in R))
      BY <1>3
    <2>4. r \in kept(Q, R, {n}) <=> r \in Q /\ r[1] # n /\ ~(r[3] = n /\ <<r[3], r[2], r[1]>> \in R)
      BY DEF kept
    <2> QED
      BY <2>1, <2>2, <2>3, <2>4
  <1>6. /\ kept(R, Q, {n}) = (R \ ownedBy(R, n)) \ turned(ownedBy(P, n))
        /\ kept(Q, R, {n}) = P \ ownedBy(P, n)
    <2>1. X = (R \ ownedBy(R, n)) \ turned(ownedBy(P, n)) /\ Y = P \ ownedBy(P, n)
      OBVIOUS
    <2>2. \A r : (r \in kept(R, Q, {n}) <=> r \in X) /\ (r \in kept(Q, R, {n}) <=> r \in Y)
      BY <1>4, <1>5, <2>1
    <2>3. PICK U, V : U = kept(R, Q, {n}) /\ V = kept(Q, R, {n})
      OBVIOUS
    <2>4. U = X /\ V = Y
      BY <2>2, <2>3
    <2> QED
      BY <2>1, <2>3, <2>4
  <1> QED
    BY <1>6

\* The rows of _purgeNodeEdges for a node that has an id.
LEMMA PurgedRows ==
    ASSUME NEW t, TreeInv(t), labelsOk(t), NEW F, NEW R, storesRows(t, F, t.fwd), storesRows(t, R, t.rev),
           NEW n \in knownNodes(t), NEW out, NEW rev, NEW in,
           out = rowsOf(t.fwd, n, t.id[n]), rev = t.rev \ peerBits(t, out, t.id[n]),
           in = rowsOf(rev, n, t.id[n])
    PROVE  /\ storesRows(t, kept(F, R, {n}), (t.fwd \ out) \ peerBits(t, in, t.id[n]))
           /\ storesRows(t, kept(R, F, {n}), rev \ in)
  <1>1. PICK O : O = ownedBy(F, n)
    OBVIOUS
  <1>2. storesRows(t, O, out)
    BY <1>1, RowsOwn
  <1>3. storesRows(t, turned(O), peerBits(t, out, t.id[n]))
    <2>1. \A r \in O : r[1] = n
      BY <1>1 DEF ownedBy
    <2> QED
      BY <1>2, <2>1, RowsTurned
  <1>4. PICK P : P = R \ turned(O)
    OBVIOUS
  <1>5. storesRows(t, P, rev)
    BY <1>3, <1>4, RowsMinus
  <1>6. PICK I : I = ownedBy(P, n)
    OBVIOUS
  <1>7. storesRows(t, I, in)
    BY <1>5, <1>6, RowsOwn
  <1>8. storesRows(t, turned(I), peerBits(t, in, t.id[n]))
    <2>1. \A r \in I : r[1] = n
      BY <1>6 DEF ownedBy
    <2> QED
      BY <1>7, <2>1, RowsTurned
  <1>9. storesRows(t, P \ I, rev \ in)
    BY <1>5, <1>7, RowsMinus
  <1>10. storesRows(t, (F \ O) \ turned(I), (t.fwd \ out) \ peerBits(t, in, t.id[n]))
    <2>1. PICK G, Q : G = F \ O /\ Q = t.fwd \ out
      OBVIOUS
    <2>2. storesRows(t, G, Q)
      BY <1>2, <2>1, RowsMinus
    <2> QED
      BY <1>8, <2>1, <2>2, RowsMinus
  <1>11. areRows(F) /\ areRows(R)
    BY RowIs DEF storesRows, areRows
  <1>12. PICK D, X, Y : D = {n} /\ X = (F \ O) \ turned(I) /\ Y = P \ I
    OBVIOUS
  <1>13. kept(F, R, D) = X /\ kept(R, F, D) = Y
    BY <1>1, <1>4, <1>6, <1>11, <1>12, KeptOfOne
  <1> QED
    BY <1>9, <1>10, <1>12, <1>13

\* What was stored under no id: there is nothing to purge.
LEMMA NothingKeptOut ==
    ASSUME NEW t, NEW F, NEW R, F \subseteq knownRows(t), NEW n, n \notin knownNodes(t)
    PROVE  kept(F, R, {n}) = F
  <1>1. \A r \in F : r[1] # n /\ r[3] # n
    BY RowIs
  <1> QED
    BY <1>1 DEF kept

\* The rows of one edge.
LEMMA EdgeRows ==
    ASSUME NEW t, NEW n \in knownNodes(t), NEW m \in knownNodes(t), NEW l \in knownLabels(t), "all" \notin Label
    PROVE  /\ storesRows(t, Nodes!rows(n, l, m), ownerRows(t, n, m, l))
           /\ storesRows(t, {<<n, l, m>>}, {<<computeShardKey[n], t.labels[l], t.id[n], t.id[m]>>})
  <1>1. codeOf(t, l) = t.labels[l] /\ codeOf(t, "all") = all
    BY DEF codeOf, knownLabels
  <1>2. /\ coded(t, <<n, l, m>>) = <<computeShardKey[n], t.labels[l], t.id[n], t.id[m]>>
        /\ coded(t, <<n, "all", m>>) = <<computeShardKey[n], all, t.id[n], t.id[m]>>
    BY <1>1 DEF coded
  <1>3. <<n, l, m>> \in knownRows(t) /\ <<n, "all", m>> \in knownRows(t)
    BY DEF knownRows
  <1> QED
    BY <1>2, <1>3 DEF storesRows, Nodes!rows, ownerRows

\* Taking a row away, and the bucket "all" of its owner computed again.
LEMMA RecomputedRows ==
    ASSUME NEW t, TreeInv(t), labelsOk(t), NEW R, NEW Q, storesRows(t, R, Q), NEW n \in knownNodes(t)
    PROVE  storesRows(t, Nodes!_recomputeAllBucket(R, {n}, knownLabels(t)),
                      _recomputeAllBucket(Q, computeShardKey[n], t.id[n], t))
  <1> DEFINE s == computeShardKey[n]
             x == t.id[n]
             B == {t.labels[l] : l \in Label} \ {NoId}
             P == {q \in Q : q[1] = s /\ q[3] = x /\ q[2] \in B}
             T == {q \in R : q[1] \in {n} /\ q[2] \in knownLabels(t)}
             C == {r \in R : r[2] # "all" \/ r[1] \notin {n}}
             D == {r \in Q : r[1] # s \/ r[2] # all \/ r[3] # x}
  <1>1. ASSUME NEW r \in R
        PROVE  /\ coded(t, r)[1] = s /\ coded(t, r)[3] = x <=> r[1] = n
               /\ coded(t, r)[2] = all <=> r[2] = "all"
               /\ coded(t, r)[2] \in B <=> r[2] \in knownLabels(t)
    <2>1. r \in knownRows(t) /\ r[1] \in knownNodes(t) /\ r[2] \in knownLabels(t) \cup {"all"}
      BY RowIs DEF storesRows
    <2>2. coded(t, r)[1] = s /\ coded(t, r)[3] = x <=> r[1] = n
      BY <2>1, CodeFields, IdsApart
    <2>3. codeOf(t, r[2]) = all <=> r[2] = "all"
      BY <2>1 DEF codeOf, knownLabels, all, NoId
    <2>4. codeOf(t, r[2]) \in B <=> r[2] \in knownLabels(t)
      <3>1. CASE r[2] = "all"
        BY <3>1, IndexGraphAssumption DEF codeOf, knownLabels, all, NoId
      <3>2. CASE r[2] # "all"
        BY <2>1, <3>2 DEF codeOf, knownLabels
      <3> QED
        BY <3>1, <3>2
    <2> QED
      BY <2>2, <2>3, <2>4, CodeFields
  <1>2. storesRows(t, C, D)
    <2>1. \A r \in R : coded(t, r) \in D <=> r \in C
      BY <1>1 DEF storesRows
    <2>2. C \subseteq R /\ D \subseteq Q
      OBVIOUS
    <2> HIDE DEF C, D
    <2> QED
      BY <2>1, <2>2 DEF storesRows
  <1>3. storesRows(t, T, P)
    <2>1. \A r \in R : coded(t, r) \in P <=> r \in T
      BY <1>1 DEF storesRows
    <2>2. T \subseteq R /\ P \subseteq Q
      OBVIOUS
    <2> HIDE DEF T, P
    <2> QED
      BY <2>1, <2>2 DEF storesRows
  <1>4. PICK U, V : U = {<<r[1], "all", r[3]>> : r \in T} /\ V = {<<s, all, x, r[4]>> : r \in P}
    OBVIOUS
  <1>5. storesRows(t, U, V)
    <2>1. ASSUME NEW r \in T
          PROVE  /\ <<r[1], "all", r[3]>> \in knownRows(t) /\ coded(t, r) \in P
                 /\ coded(t, <<r[1], "all", r[3]>>) = <<s, all, x, coded(t, r)[4]>>
      <3>1. r \in knownRows(t) /\ coded(t, r) \in P /\ r[1] = n
        BY <1>3 DEF storesRows
      <3>2. <<r[1], "all", r[3]>> \in knownRows(t)
        BY <3>1, RowIs DEF knownRows
      <3>3. coded(t, r)[4] = t.id[r[3]]
        BY CodeFields
      <3> HIDE DEF T, P
      <3> QED
        BY <3>1, <3>2, <3>3 DEF coded, codeOf
    <2>2. \A q \in P : \E r \in T : q = coded(t, r)
      BY <1>3 DEF storesRows
    <2> HIDE DEF T, P, s, x
    <2>3. \A u \in U : \E r \in T : u = <<r[1], "all", r[3]>>
      BY <1>4
    <2>4. \A u \in U : u \in knownRows(t) /\ coded(t, u) \in V
      BY <1>4, <2>1, <2>3
    <2>5. \A v \in V : \E u \in U : v = coded(t, u)
      <3> TAKE v \in V
      <3>1. PICK q \in P : v = <<s, all, x, q[4]>>
        BY <1>4
      <3>2. PICK r \in T : q = coded(t, r)
        BY <2>2
      <3>3. <<r[1], "all", r[3]>> \in U
        BY <1>4
      <3> QED
        BY <2>1, <3>1, <3>2, <3>3
    <2> QED
      BY <2>4, <2>5 DEF storesRows
  <1>6. /\ Nodes!_recomputeAllBucket(R, {n}, knownLabels(t)) = C \cup U
        /\ _recomputeAllBucket(Q, s, x, t) = D \cup V
    BY <1>4 DEF Nodes!_recomputeAllBucket, _recomputeAllBucket
  <1> HIDE DEF C, D
  <1> QED
    BY <1>2, <1>5, <1>6, RowsUnion

\* The rows of _handleEdgeRemove.
LEMMA RemovedRows ==
    ASSUME NEW t, TreeInv(t), labelsOk(t), NEW R, NEW Q, storesRows(t, R, Q),
           NEW n \in knownNodes(t), NEW m \in knownNodes(t), NEW l \in knownLabels(t)
    PROVE  storesRows(t, remaining(R, {<<n, l, m>>}, knownLabels(t)),
                      _recomputeAllBucket(Q \ {<<computeShardKey[n], t.labels[l], t.id[n], t.id[m]>>},
                                          computeShardKey[n], t.id[n], t))
  <1>1. PICK S, P : S = R \ {<<n, l, m>>} /\ P = Q \ {<<computeShardKey[n], t.labels[l], t.id[n], t.id[m]>>}
    OBVIOUS
  <1>2. storesRows(t, S, P)
    BY <1>1, EdgeRows, RowsMinus, IndexGraphAssumption
  <1>3. {q[1] : q \in {<<n, l, m>>}} = {n}
    OBVIOUS
  <1>4. remaining(R, {<<n, l, m>>}, knownLabels(t)) = Nodes!_recomputeAllBucket(S, {n}, knownLabels(t))
    BY <1>1, <1>3 DEF remaining
  <1> QED
    BY <1>1, <1>2, <1>4, RecomputedRows

----------------------------------------------------------------------------
(* A tree that stores an index is decoded to it.                           *)

\* An id is decoded to its node, a bucket to its label, a row to its row.
LEMMA NodeOfId ==
    ASSUME NEW t, TreeInv(t), NEW n \in knownNodes(t)
    PROVE  nodeOf(t, t.id[n]) = n
  <1>1. \A m \in Node : t.id[m] = t.id[n] <=> m = n
    BY IdsApart DEF knownNodes
  <1>2. n \in Node
    BY DEF knownNodes
  <1> QED
    BY <1>1, <1>2 DEF nodeOf

\* The label of a bucket.
LEMMA LabelOfId ==
    ASSUME NEW t, labelsOk(t), NEW b \in knownLabels(t) \cup {"all"}
    PROVE  labelOf(t, codeOf(t, b)) = b
  <1>1. CASE b = "all"
    BY <1>1 DEF labelOf, codeOf
  <1>2. CASE b # "all"
    <2>1. b \in Label /\ t.labels[b] # NoId /\ codeOf(t, b) = t.labels[b] /\ t.labels[b] # all
      BY <1>2 DEF knownLabels, codeOf, NoId, all
    <2>2. \A k \in Label : t.labels[k] = t.labels[b] <=> k = b
      BY <2>1 DEF labelsOk
    <2> QED
      BY <2>1, <2>2 DEF labelOf
  <1> QED
    BY <1>1, <1>2

\* Stored rows are decoded to the rows.
LEMMA RowsDecoded ==
    ASSUME NEW t, TreeInv(t), labelsOk(t), NEW R, NEW Q, storesRows(t, R, Q)
    PROVE  decodeRows(t, Q) = R
  <1>1. ASSUME NEW r \in R
        PROVE  <<nodeOf(t, coded(t, r)[3]), labelOf(t, coded(t, r)[2]), nodeOf(t, coded(t, r)[4])>> = r
    <2>1. r \in knownRows(t)
      BY DEF storesRows
    <2> QED
      BY <2>1, RowIs, CodeFields, NodeOfId, LabelOfId
  <1> QED
    BY <1>1 DEF decodeRows, storesRows

\* A tree is decoded to the index that it stores, and so to no other.
LEMMA DecodesTo ==
    ASSUME NEW t, NEW A, stores(t, A)
    PROVE  toLogicalIndex(t) = A
  <1>1. TreeInv(t) /\ labelsOk(t) /\ isIndex(A)
    BY DEF stores
  <1>2. {n \in Node : t.id[n] \in t.alive[computeShardKey[n]]} = A.alive
    <2>1. A.alive \subseteq knownNodes(t) /\ \A n \in A.alive : t.id[n] \in t.alive[computeShardKey[n]]
      BY DEF stores, storesAlive
    <2>2. ASSUME NEW n \in Node, t.id[n] \in t.alive[computeShardKey[n]]
          PROVE  n \in A.alive
      <3>1. PICK m \in A.alive : t.id[n] = t.id[m]
        BY <2>2, ShardTypes DEF stores, storesAlive
      <3>2. n \in knownNodes(t) /\ m \in knownNodes(t)
        BY <2>1, <3>1 DEF knownNodes
      <3> QED
        BY <1>1, <3>1, <3>2, IdsApart
    <2> QED
      BY <2>1, <2>2 DEF knownNodes
  <1>3. decodeRows(t, t.fwd) = A.fwd /\ decodeRows(t, t.rev) = A.rev
    BY <1>1, RowsDecoded DEF stores
  <1>4. toLogicalIndex(t) = indexOf(A.known, A.alive, A.labels, A.fwd, A.rev, A.props)
    BY <1>2, <1>3 DEF toLogicalIndex, indexOf, stores, knownNodes, knownLabels
  <1> QED
    BY <1>1, <1>4, IsOfFields

----------------------------------------------------------------------------
(* A step of the loops on a tree is one on the index that it stores.       *)

\* The fields of a tree.
fields(u, I, N, V, L, F, R, P) ==
    u = [id |-> I, next |-> N, alive |-> V, labels |-> L, fwd |-> F, rev |-> R, props |-> P]

\* What the fields of a tree say.
LEMMA FieldsSaid ==
    ASSUME NEW u, NEW I, NEW N, NEW V, NEW L, NEW F, NEW R, NEW P, fields(u, I, N, V, L, F, R, P)
    PROVE  /\ u.id = I /\ u.next = N /\ u.alive = V /\ u.labels = L
           /\ u.fwd = F /\ u.rev = R /\ u.props = P
           /\ fields(u, u.id, u.next, u.alive, u.labels, u.fwd, u.rev, u.props)
  BY DEF fields

\* A tree is made of its fields.
LEMMA TreeFields ==
    ASSUME NEW t, isTree(t)
    PROVE  fields(t, t.id, t.next, t.alive, t.labels, t.fwd, t.rev, t.props)
  BY DEF fields, isTree

\* A tree with some fields changed.
LEMMA IdsSet ==
    ASSUME NEW t, isTree(t), NEW I, NEW V, NEW N
    PROVE  fields([t EXCEPT !.id = I, !.alive = V, !.next = N], I, N, V, t.labels, t.fwd, t.rev, t.props)
  <1>1. PICK a : a = [t EXCEPT !.id = I]
    OBVIOUS
  <1>2. fields(a, I, t.next, t.alive, t.labels, t.fwd, t.rev, t.props)
    BY <1>1 DEF isTree, fields
  <1>3. PICK b : b = [a EXCEPT !.alive = V]
    OBVIOUS
  <1>4. fields(b, I, t.next, V, t.labels, t.fwd, t.rev, t.props)
    BY <1>2, <1>3 DEF fields
  <1>5. PICK c : c = [b EXCEPT !.next = N]
    OBVIOUS
  <1>6. fields(c, I, N, V, t.labels, t.fwd, t.rev, t.props)
    BY <1>4, <1>5 DEF fields
  <1>7. c = [t EXCEPT !.id = I, !.alive = V, !.next = N]
    BY <1>1, <1>3, <1>5
  <1> QED
    BY <1>6, <1>7, Zenon

LEMMA RowsSet ==
    ASSUME NEW t, isTree(t), NEW F, NEW R
    PROVE  fields([t EXCEPT !.fwd = F, !.rev = R], t.id, t.next, t.alive, t.labels, F, R, t.props)
  <1>1. PICK a : a = [t EXCEPT !.fwd = F]
    OBVIOUS
  <1>2. fields(a, t.id, t.next, t.alive, t.labels, F, t.rev, t.props)
    BY <1>1 DEF isTree, fields
  <1>3. PICK b : b = [a EXCEPT !.rev = R]
    OBVIOUS
  <1>4. fields(b, t.id, t.next, t.alive, t.labels, F, R, t.props)
    BY <1>2, <1>3 DEF fields
  <1>5. b = [t EXCEPT !.fwd = F, !.rev = R]
    BY <1>1, <1>3
  <1> QED
    BY <1>4, <1>5, Zenon

LEMMA OneSet ==
    ASSUME NEW t, isTree(t), NEW X
    PROVE  /\ fields([t EXCEPT !.alive = X], t.id, t.next, X, t.labels, t.fwd, t.rev, t.props)
           /\ fields([t EXCEPT !.labels = X], t.id, t.next, t.alive, X, t.fwd, t.rev, t.props)
           /\ fields([t EXCEPT !.props = X], t.id, t.next, t.alive, t.labels, t.fwd, t.rev, X)
  <1>1. fields([t EXCEPT !.alive = X], t.id, t.next, X, t.labels, t.fwd, t.rev, t.props)
    BY DEF isTree, fields
  <1>2. fields([t EXCEPT !.labels = X], t.id, t.next, t.alive, X, t.fwd, t.rev, t.props)
    BY DEF isTree, fields
  <1>3. fields([t EXCEPT !.props = X], t.id, t.next, t.alive, t.labels, t.fwd, t.rev, X)
    BY DEF isTree, fields
  <1> QED
    BY <1>1, <1>2, <1>3

\* What has an id keeps it.
keepsNames(t, u) ==
    /\ \A n \in knownNodes(t) : u.id[n] = t.id[n]
    /\ \A l \in knownLabels(t) : u.labels[l] = t.labels[l]

\* What had an id has one.
LEMMA NamesKept ==
    ASSUME NEW t, NEW u, keepsNames(t, u)
    PROVE  knownNodes(t) \subseteq knownNodes(u) /\ knownLabels(t) \subseteq knownLabels(u)
  BY DEF keepsNames, knownNodes, knownLabels

\* Rows and bits mean the same in a tree that keeps the ids.
LEMMA RowsStay ==
    ASSUME NEW t, NEW u, keepsNames(t, u), NEW R, NEW Q, storesRows(t, R, Q)
    PROVE  storesRows(u, R, Q)
  <1>1. ASSUME NEW r \in R
        PROVE  r \in knownRows(u) /\ coded(u, r) = coded(t, r)
    <2>1. r \in knownRows(t)
      BY DEF storesRows
    <2>2. /\ r = <<r[1], r[2], r[3]>> /\ r[1] \in knownNodes(t) /\ r[3] \in knownNodes(t)
          /\ r[2] \in knownLabels(t) \cup {"all"}
      BY <2>1, RowIs
    <2>3. r \in knownRows(u)
      BY <2>2, NamesKept DEF knownRows
    <2>4. u.id[r[1]] = t.id[r[1]] /\ u.id[r[3]] = t.id[r[3]] /\ codeOf(u, r[2]) = codeOf(t, r[2])
      BY <2>2 DEF keepsNames, codeOf
    <2> QED
      BY <2>3, <2>4 DEF coded
  <1> QED
    BY <1>1 DEF storesRows

LEMMA AliveStays ==
    ASSUME NEW t, NEW u, keepsNames(t, u), u.alive = t.alive, NEW V, storesAlive(t, V)
    PROVE  storesAlive(u, V)
  BY NamesKept DEF storesAlive, keepsNames

\* The parts of an index that is stored.
LEMMA StoredParts ==
    ASSUME NEW u, TreeInv(u), labelsOk(u), NEW B, NEW V, NEW F, NEW R,
           parts(B, knownNodes(u), V, knownLabels(u), F, R, u.props),
           storesAlive(u, V), storesRows(u, F, u.fwd), storesRows(u, R, u.rev)
    PROVE  stores(u, B)
  BY PartsSaid DEF stores

\* What a stored index says of the tree.
LEMMA StoredSaid ==
    ASSUME NEW t, NEW A, stores(t, A)
    PROVE  /\ TreeInv(t) /\ isTree(t) /\ labelsOk(t) /\ isIndex(A) /\ storesAlive(t, A.alive)
           /\ storesRows(t, A.fwd, t.fwd) /\ storesRows(t, A.rev, t.rev)
           /\ A.known = knownNodes(t) /\ A.labels = knownLabels(t) /\ A.props = t.props
  BY DEF stores, TreeInv

\* _handleNodeAdd.
LEMMA NodeAddTree ==
    ASSUME NEW t, isTree(t), NEW n \in Node, NEW y, NEW I, NEW V, NEW N,
           y = (IF t.id[n] = NoId THEN globalId(computeShardKey[n], t.next[computeShardKey[n]]) ELSE t.id[n]),
           I = [t.id EXCEPT ![n] = y],
           V = [t.alive EXCEPT ![computeShardKey[n]] = @ \cup {y}],
           N = [t.next EXCEPT ![computeShardKey[n]] = IF t.id[n] = NoId THEN @ + 1 ELSE @]
    PROVE  fields(_handleNodeAdd(t, n), I, N, V, t.labels, t.fwd, t.rev, t.props)
  <1>1. _handleNodeAdd(t, n) = [t EXCEPT !.id = I, !.alive = V, !.next = N]
    BY DEF _handleNodeAdd
  <1>2. fields([t EXCEPT !.id = I, !.alive = V, !.next = N], I, N, V, t.labels, t.fwd, t.rev, t.props)
    BY ONLY isTree(t), IdsSet, Zenon
  <1>3. PICK c : c = [t EXCEPT !.id = I, !.alive = V, !.next = N]
    OBVIOUS
  <1>4. fields(c, I, N, V, t.labels, t.fwd, t.rev, t.props) /\ c = _handleNodeAdd(t, n)
    BY ONLY <1>1, <1>2, <1>3, Zenon
  <1> QED
    BY ONLY <1>4, Zenon

\* registerNode and markAlive are the step on the index, unless the shard is full.
LEMMA NodeAddStores ==
    ASSUME NEW t, NEW A, stores(t, A), NEW n \in Node, ~overflows(t, n)
    PROVE  stores(_handleNodeAdd(t, n), nodesIn(A, {n}))
  <1>1. PICK u : u = _handleNodeAdd(t, n)
    OBVIOUS
  <1> DEFINE s == computeShardKey[n]
  <1>2. PICK y : y = (IF t.id[n] = NoId THEN globalId(s, t.next[s]) ELSE t.id[n])
    OBVIOUS
  <1>3. PICK I, V, N : /\ I = [t.id EXCEPT ![n] = y]
                       /\ V = [t.alive EXCEPT ![s] = @ \cup {y}]
                       /\ N = [t.next EXCEPT ![s] = IF t.id[n] = NoId THEN @ + 1 ELSE @]
    OBVIOUS
  <1>4. TreeInv(t) /\ isTree(t) /\ labelsOk(t) /\ isIndex(A) /\ storesAlive(t, A.alive)
    BY StoredSaid
  <1>5. fields(u, I, N, V, t.labels, t.fwd, t.rev, t.props)
    BY <1>1, <1>2, <1>3, <1>4, NodeAddTree
  <1>6. TreeInv(u)
    BY <1>1, <1>4, NodeAddIds
  <1>7. /\ u.id = I /\ u.alive = V /\ u.labels = t.labels /\ u.fwd = t.fwd
        /\ u.rev = t.rev /\ u.props = t.props
    BY <1>5, FieldsSaid
  <1>8. s \in Shard /\ y # NoId /\ (t.id[n] # NoId => y = t.id[n])
    <2>1. s \in Shard /\ s \in Nat /\ MAX_LOCAL_ID \in Nat
      BY ShardTypes
    <2>2. t.next[s] \in Int /\ 0 <= t.next[s]
      BY <1>4, <2>1, IdsOkSaid DEF TreeInv, countersInRange, isTree
    <2>3. s * MAX_LOCAL_ID \in Nat
      BY <2>1
    <2>4. PICK p : p = s * MAX_LOCAL_ID
      OBVIOUS
    <2>5. globalId(s, t.next[s]) = p + t.next[s]
      BY <2>4 DEF globalId
    <2> HIDE DEF s
    <2> QED
      BY <1>2, <2>1, <2>2, <2>3, <2>4, <2>5 DEF NoId
  <1>9. u.id[n] = y /\ \A m \in Node : m # n => u.id[m] = t.id[m]
    BY <1>3, <1>4, <1>7 DEF isTree
  <1>10. knownNodes(u) = A.known \cup {n} /\ keepsNames(t, u)
    BY <1>7, <1>8, <1>9, StoredSaid DEF knownNodes, keepsNames
  <1>11. labelsOk(u) /\ knownLabels(u) = A.labels
    BY <1>4, <1>7, StoredSaid DEF labelsOk, knownLabels
  <1>12. storesAlive(u, A.alive \cup {n})
    <2>1. t.alive = [q \in Shard |-> t.alive[q]]
      BY <1>4 DEF storesAlive
    <2>2. u.alive = [q \in Shard |-> u.alive[q]] /\ u.alive[s] = t.alive[s] \cup {y}
          /\ \A q \in Shard : q # s => u.alive[q] = t.alive[q]
      BY <1>3, <1>7, <1>8, <2>1
    <2>3. \A m \in A.alive : m \in knownNodes(t) /\ m \in Node /\ u.id[m] = t.id[m]
      BY <1>4, <1>10 DEF storesAlive, keepsNames, knownNodes
    <2>4. A.alive \cup {n} \subseteq knownNodes(u)
      BY <1>4, <1>10, StoredSaid DEF storesAlive
    <2>5. ASSUME NEW q \in Shard, NEW x \in u.alive[q]
          PROVE  \E m \in A.alive \cup {n} : computeShardKey[m] = q /\ x = u.id[m]
      <3>1. CASE x \in t.alive[q]
        BY <1>4, <2>3, <3>1 DEF storesAlive
      <3>2. CASE x \notin t.alive[q]
        BY <1>9, <2>2, <2>5, <3>2
      <3> QED
        BY <3>1, <3>2
    <2>6. ASSUME NEW m \in A.alive \cup {n}
          PROVE  u.id[m] \in u.alive[computeShardKey[m]]
      <3>1. CASE m = n
        BY <1>9, <2>2, <3>1
      <3>2. CASE m \in A.alive
        <4>1. t.id[m] \in t.alive[computeShardKey[m]] /\ computeShardKey[m] \in Shard
          BY <1>4, <2>3, <3>2, ShardTypes DEF storesAlive
        <4> QED
          BY <2>2, <2>3, <3>2, <4>1
      <3> QED
        BY <3>1, <3>2
    <2> QED
      BY <2>2, <2>4, <2>5, <2>6 DEF storesAlive
  <1>13. storesRows(u, A.fwd, u.fwd) /\ storesRows(u, A.rev, u.rev)
    BY <1>7, <1>10, RowsStay, StoredSaid
  <1>14. parts(nodesIn(A, {n}), knownNodes(u), A.alive \cup {n}, knownLabels(u), A.fwd, A.rev, u.props)
    BY <1>4, <1>7, <1>10, <1>11, NodesInParts, StoredSaid
  <1>15. stores(u, nodesIn(A, {n}))
    <2>1. PICK W, B : W = A.alive \cup {n} /\ B = nodesIn(A, {n})
      OBVIOUS
    <2> QED
      BY <1>6, <1>11, <1>12, <1>13, <1>14, <2>1, StoredParts
  <1> QED
    BY <1>1, <1>15

\* _handleNodeRemove.
LEMMA NodeRemoveStores ==
    ASSUME NEW t, NEW A, stores(t, A), NEW n \in Node
    PROVE  stores(_handleNodeRemove(t, n), nodesOut(A, {n}))
  <1>1. PICK u : u = _handleNodeRemove(t, n)
    OBVIOUS
  <1> DEFINE s == computeShardKey[n]
  <1>2. PICK V : V = [t.alive EXCEPT ![s] = @ \ {t.id[n]}]
    OBVIOUS
  <1>3. TreeInv(t) /\ isTree(t) /\ labelsOk(t) /\ isIndex(A) /\ storesAlive(t, A.alive)
    BY StoredSaid
  <1>4. fields(u, t.id, t.next, V, t.labels, t.fwd, t.rev, t.props)
    <2>1. _handleNodeRemove(t, n) = [t EXCEPT !.alive = V]
      BY <1>2 DEF _handleNodeRemove
    <2> QED
      BY <1>1, <1>3, <2>1, OneSet, Zenon
  <1>5. /\ u.id = t.id /\ u.alive = V /\ u.labels = t.labels /\ u.fwd = t.fwd
        /\ u.rev = t.rev /\ u.props = t.props
    BY <1>4, FieldsSaid
  <1>6. TreeInv(u)
    BY <1>1, <1>3, OthersKeepIds, SameIdsKeep
  <1>7. s \in Shard
    BY ShardTypes
  <1>8. knownNodes(u) = A.known /\ knownLabels(u) = A.labels /\ keepsNames(t, u) /\ labelsOk(u)
    BY <1>3, <1>5, StoredSaid DEF knownNodes, knownLabels, keepsNames, labelsOk
  <1>9. storesAlive(u, A.alive \ {n})
    <2>1. t.alive = [q \in Shard |-> t.alive[q]]
      BY <1>3 DEF storesAlive
    <2>2. u.alive = [q \in Shard |-> u.alive[q]] /\ u.alive[s] = t.alive[s] \ {t.id[n]}
          /\ \A q \in Shard : q # s => u.alive[q] = t.alive[q]
      BY <1>2, <1>5, <1>7, <2>1
    <2>3. A.alive \ {n} \subseteq knownNodes(u)
      BY <1>3, <1>8, StoredSaid DEF storesAlive
    <2>4. ASSUME NEW q \in Shard, NEW x \in u.alive[q]
          PROVE  \E m \in A.alive \ {n} : computeShardKey[m] = q /\ x = u.id[m]
      <3>1. x \in t.alive[q] /\ (q = s => x # t.id[n])
        BY <2>2, <2>4
      <3>2. PICK m \in A.alive : computeShardKey[m] = q /\ x = t.id[m]
        BY <1>3, <3>1 DEF storesAlive
      <3>3. m # n
        BY <3>1, <3>2
      <3> QED
        BY <1>5, <3>2, <3>3
    <2>5. ASSUME NEW m \in A.alive \ {n}
          PROVE  u.id[m] \in u.alive[computeShardKey[m]]
      <3>1. t.id[m] \in t.alive[computeShardKey[m]] /\ m \in knownNodes(t) /\ m \in Node
        BY <1>3 DEF storesAlive, knownNodes
      <3>2. computeShardKey[m] \in Shard
        BY <3>1, ShardTypes
      <3>3. t.id[m] # t.id[n]
        <4>1. t.id[m] = t.id[n] => n \in knownNodes(t)
          BY <3>1 DEF knownNodes
        <4> QED
          BY <1>3, <3>1, <4>1, IdsApart
      <3> QED
        BY <1>5, <2>2, <3>1, <3>2, <3>3
    <2> QED
      BY <2>2, <2>3, <2>4, <2>5 DEF storesAlive
  <1>10. storesRows(u, A.fwd, u.fwd) /\ storesRows(u, A.rev, u.rev)
    BY <1>5, <1>8, RowsStay, StoredSaid
  <1>11. PICK W, B : W = A.alive \ {n} /\ B = nodesOut(A, {n})
    OBVIOUS
  <1>12. parts(B, knownNodes(u), W, knownLabels(u), A.fwd, A.rev, u.props)
    BY <1>3, <1>5, <1>8, <1>11, NodesOutParts, StoredSaid
  <1>13. stores(u, B)
    BY <1>6, <1>8, <1>9, <1>10, <1>11, <1>12, StoredParts
  <1> QED
    BY <1>1, <1>11, <1>13

\* A tree with other rows, and an index with the rows that these are.
LEMMA RowsChange ==
    ASSUME NEW t, NEW A, stores(t, A), NEW u, NEW B, NEW F, NEW R, keepsIds(t, u), NEW P, NEW Q,
           fields(u, t.id, t.next, t.alive, t.labels, P, Q, t.props),
           parts(B, A.known, A.alive, A.labels, F, R, A.props),
           storesRows(t, F, P), storesRows(t, R, Q)
    PROVE  stores(u, B)
  <1>1. /\ u.id = t.id /\ u.alive = t.alive /\ u.labels = t.labels /\ u.fwd = P
        /\ u.rev = Q /\ u.props = t.props
    BY FieldsSaid
  <1>2. TreeInv(t) /\ labelsOk(t) /\ storesAlive(t, A.alive)
    BY StoredSaid
  <1>3. TreeInv(u)
    BY <1>2, SameIdsKeep
  <1>4. knownNodes(u) = A.known /\ knownLabels(u) = A.labels /\ keepsNames(t, u) /\ labelsOk(u)
    BY <1>1, <1>2, StoredSaid DEF knownNodes, knownLabels, keepsNames, labelsOk
  <1>5. storesAlive(u, A.alive)
    BY <1>1, <1>2, <1>4, AliveStays
  <1>6. storesRows(u, F, u.fwd) /\ storesRows(u, R, u.rev)
    BY <1>1, <1>4, RowsStay
  <1>7. parts(B, knownNodes(u), A.alive, knownLabels(u), F, R, u.props)
    BY <1>1, <1>4, StoredSaid
  <1> QED
    BY <1>3, <1>4, <1>5, <1>6, <1>7, StoredParts

\* _purgeNodeEdges.
LEMMA PurgeStores ==
    ASSUME NEW t, NEW A, stores(t, A), NEW n \in Node
    PROVE  stores(_purgeNodeEdges(t, n), Nodes!_purgeNodeEdges(A, {n}))
  <1>1. PICK u, D, B : u = _purgeNodeEdges(t, n) /\ D = {n} /\ B = Nodes!_purgeNodeEdges(A, D)
    OBVIOUS
  <1>2. /\ TreeInv(t) /\ isTree(t) /\ labelsOk(t) /\ isIndex(A)
        /\ storesRows(t, A.fwd, t.fwd) /\ storesRows(t, A.rev, t.rev)
    BY StoredSaid
  <1>3. PICK F, R : F = kept(A.fwd, A.rev, D) /\ R = kept(A.rev, A.fwd, D)
    OBVIOUS
  <1>4. parts(B, A.known, A.alive, A.labels, F, R, A.props)
    BY <1>1, <1>2, <1>3, PurgeParts
  <1>5. keepsIds(t, u)
    BY <1>1, <1>2, OthersKeepIds
  <1>6. CASE t.id[n] = NoId
    <2>1. u = t
      BY <1>1, <1>6 DEF _purgeNodeEdges
    <2>2. F = A.fwd /\ R = A.rev
      BY <1>1, <1>2, <1>3, <1>6, NothingKeptOut DEF storesRows, knownNodes
    <2>3. B = A
      BY <1>2, <1>4, <2>2, OwnParts, SameParts
    <2> QED
      BY <1>1, <2>1, <2>3
  <1>7. CASE t.id[n] # NoId
    <2>1. n \in knownNodes(t)
      BY <1>7 DEF knownNodes
    <2>2. PICK out : out = rowsOf(t.fwd, n, t.id[n])
      OBVIOUS
    <2>3. PICK rev : rev = t.rev \ peerBits(t, out, t.id[n])
      OBVIOUS
    <2>4. PICK in : in = rowsOf(rev, n, t.id[n])
      OBVIOUS
    <2>5. PICK P, Q : P = (t.fwd \ out) \ peerBits(t, in, t.id[n]) /\ Q = rev \ in
      OBVIOUS
    <2>6. storesRows(t, F, P) /\ storesRows(t, R, Q)
      <3>1. storesRows(t, kept(A.fwd, A.rev, {n}), P) /\ storesRows(t, kept(A.rev, A.fwd, {n}), Q)
        BY <1>2, <2>1, <2>2, <2>3, <2>4, <2>5, PurgedRows
      <3> QED
        BY <1>1, <1>3, <3>1
    <2>7. u = [t EXCEPT !.fwd = P, !.rev = Q]
      BY <1>1, <1>7, <2>2, <2>3, <2>4, <2>5 DEF _purgeNodeEdges
    <2>8. fields([t EXCEPT !.fwd = P, !.rev = Q], t.id, t.next, t.alive, t.labels, P, Q, t.props)
      BY ONLY <1>2, RowsSet, Zenon
    <2>9. fields(u, t.id, t.next, t.alive, t.labels, P, Q, t.props)
      BY ONLY <2>7, <2>8, Zenon
    <2>10. stores(u, B)
      BY <1>4, <1>5, <2>6, <2>9, RowsChange
    <2> QED
      BY <1>1, <2>10
  <1> QED
    BY <1>6, <1>7

----------------------------------------------------------------------------
(* Labels and edges.                                                       *)

\* _ensureLabel gives a label an id that none has.
LEMMA NewLabelId ==
    ASSUME NEW t, labelsOk(t), NEW l \in Label, NEW used, used = {t.labels[k] : k \in Label},
           NEW c, c = CHOOSE y \in used : \A z \in used : z <= y
    PROVE  1 + c \in Int /\ 1 + c # NoId /\ 1 + c >= NoId /\ \A k \in Label : t.labels[k] # 1 + c
  <1> DEFINE h == [k \in Label |-> t.labels[k] + 1]
             S == {h[k] : k \in Label}
  <1>1. \A k \in Label : t.labels[k] \in Int /\ t.labels[k] >= -1 /\ h[k] \in Nat /\ h[k] = t.labels[k] + 1
    BY DEF labelsOk, NoId
  <1>2. PICK m \in Nat : \A k \in Label : h[k] <= m
    <2>1. \A k \in Label : h[k] \in Nat
      BY <1>1
    <2> HIDE DEF h
    <2> QED
      BY <2>1, BoundedOn, IndexGraphAssumption
  <1>3. S \subseteq Nat /\ S # {} /\ \A y \in S : y <= m
    <2>1. \A y \in S : \E k \in Label : y = h[k]
      OBVIOUS
    <2>2. h[l] \in S
      OBVIOUS
    <2> HIDE DEF h, S
    <2> QED
      BY <1>1, <1>2, <2>1, <2>2
  <1>4. PICK g \in S : \A y \in S : y <= g
    <2> HIDE DEF S
    <2> QED
      BY <1>3, GreatestMember
  <1>5. PICK k \in Label : g = h[k]
    OBVIOUS
  <1>6. \A j \in Label : t.labels[j] <= t.labels[k]
    <2>1. \A j \in Label : h[j] \in S
      OBVIOUS
    <2>2. \A j \in Label : h[j] <= h[k]
      BY <1>4, <1>5, <2>1
    <2> HIDE DEF h
    <2> QED
      BY <1>1, <2>2
  <1>7. t.labels[k] \in used /\ \A z \in used : z <= t.labels[k]
    BY <1>6
  <1>8. c \in used /\ \A z \in used : z <= c
    <2>1. c = CHOOSE y \in used : \A z \in used : z <= y
      OBVIOUS
    <2>2. \E y \in used : \A z \in used : z <= y
      BY <1>7
    <2> QED
      BY ONLY <2>1, <2>2, Zenon
  <1>9. \A j \in Label : t.labels[j] \in used
    OBVIOUS
  <1>10. \A z \in used : z \in Int /\ z >= -1
    BY <1>1
  <1>11. /\ c \in Int /\ c >= -1
         /\ \A j \in Label : t.labels[j] \in Int /\ t.labels[j] <= c
    BY ONLY <1>8, <1>9, <1>10
  <1> QED
    BY ONLY <1>11 DEF NoId

\* so is giving a label its id,
LEMMA EnsureLabelStores ==
    ASSUME NEW t, NEW A, stores(t, A), NEW l \in Label, NEW M, NEW B, M = A.labels \cup {l},
           parts(B, A.known, A.alive, M, A.fwd, A.rev, A.props)
    PROVE  stores(_ensureLabel(t, l), B)
  <1>1. PICK u : u = _ensureLabel(t, l)
    OBVIOUS
  <1>2. /\ TreeInv(t) /\ isTree(t) /\ labelsOk(t) /\ isIndex(A) /\ storesAlive(t, A.alive)
        /\ A.labels = knownLabels(t)
    BY StoredSaid
  <1>3. CASE t.labels[l] # NoId
    <2>1. u = t
      BY <1>1, <1>3 DEF _ensureLabel
    <2>2. M = A.labels
      BY <1>2, <1>3 DEF knownLabels
    <2>3. B = A
      BY <1>2, <2>2, OwnParts, SameParts
    <2> QED
      BY <1>1, <2>1, <2>3
  <1>4. CASE t.labels[l] = NoId
    <2>1. PICK used : used = {t.labels[k] : k \in Label}
      OBVIOUS
    <2>2. PICK c : c = CHOOSE y \in used : \A z \in used : z <= y
      OBVIOUS
    <2>3. 1 + c \in Int /\ 1 + c # NoId /\ 1 + c >= NoId /\ \A k \in Label : t.labels[k] # 1 + c
      BY <1>2, <2>1, <2>2, NewLabelId
    <2>4. PICK x, L : x = 1 + c /\ L = [t.labels EXCEPT ![l] = x]
      OBVIOUS
    <2>5. u = [t EXCEPT !.labels = L]
      BY <1>1, <1>4, <2>1, <2>2, <2>4 DEF _ensureLabel
    <2>6. fields([t EXCEPT !.labels = L], t.id, t.next, t.alive, L, t.fwd, t.rev, t.props)
      BY ONLY <1>2, OneSet, Zenon
    <2>7. fields(u, t.id, t.next, t.alive, L, t.fwd, t.rev, t.props)
      BY ONLY <2>5, <2>6, Zenon
    <2>8. /\ u.id = t.id /\ u.alive = t.alive /\ u.labels = L /\ u.fwd = t.fwd
          /\ u.rev = t.rev /\ u.props = t.props
      BY <2>7, FieldsSaid
    <2>9. TreeInv(u)
      BY <1>1, <1>2, OthersKeepIds, SameIdsKeep
    <2>10. u.labels[l] = x /\ \A k \in Label : k # l => u.labels[k] = t.labels[k]
      BY <1>2, <2>4, <2>8 DEF labelsOk
    <2>11. labelsOk(u)
      <3>1. u.labels \in [Label -> Int]
        BY <1>2, <2>3, <2>4, <2>8 DEF labelsOk
      <3>2. \A k \in Label : u.labels[k] >= NoId
        BY <1>2, <2>3, <2>4, <2>10 DEF labelsOk
      <3>3. \A j, k \in Label : u.labels[j] = u.labels[k] /\ u.labels[k] # NoId => j = k
        BY <1>2, <2>3, <2>4, <2>10 DEF labelsOk
      <3> QED
        BY <3>1, <3>2, <3>3 DEF labelsOk
    <2>12. knownNodes(u) = A.known /\ knownLabels(u) = M /\ keepsNames(t, u)
      <3>1. knownLabels(u) = M
        BY <1>2, <2>3, <2>4, <2>10 DEF knownLabels
      <3>2. \A k \in knownLabels(t) : u.labels[k] = t.labels[k]
        BY <1>4, <2>10 DEF knownLabels
      <3> QED
        BY <2>8, <3>1, <3>2, StoredSaid DEF knownNodes, keepsNames
    <2>13. storesAlive(u, A.alive) /\ storesRows(u, A.fwd, u.fwd) /\ storesRows(u, A.rev, u.rev)
      BY <1>2, <2>8, <2>12, AliveStays, RowsStay, StoredSaid
    <2>14. parts(B, knownNodes(u), A.alive, knownLabels(u), A.fwd, A.rev, u.props)
      BY <2>8, <2>12, StoredSaid
    <2>15. stores(u, B)
      BY <2>9, <2>11, <2>13, <2>14, StoredParts
    <2> QED
      BY <1>1, <2>15
  <1> QED
    BY <1>3, <1>4

\* Afterwards the label has an id.
LEMMA LabelEnsured ==
    ASSUME NEW t, labelsOk(t), NEW l \in Label, isTree(t)
    PROVE  _ensureLabel(t, l).labels[l] # NoId /\ _ensureLabel(t, l).id = t.id
  <1>1. CASE t.labels[l] # NoId
    BY <1>1 DEF _ensureLabel
  <1>2. CASE t.labels[l] = NoId
    <2>1. PICK used : used = {t.labels[k] : k \in Label}
      OBVIOUS
    <2>2. PICK c : c = CHOOSE y \in used : \A z \in used : z <= y
      OBVIOUS
    <2>3. 1 + c # NoId
      BY <2>1, <2>2, NewLabelId
    <2>4. _ensureLabel(t, l) = [t EXCEPT !.labels = [t.labels EXCEPT ![l] = 1 + c]]
      BY <1>2, <2>1, <2>2 DEF _ensureLabel
    <2>5. [t EXCEPT !.labels = [t.labels EXCEPT ![l] = 1 + c]].labels[l] = 1 + c
      BY DEF isTree, labelsOk
    <2>6. [t EXCEPT !.labels = [t.labels EXCEPT ![l] = 1 + c]].id = t.id
      BY DEF isTree
    <2> QED
      BY <2>3, <2>4, <2>5, <2>6
  <1> QED
    BY <1>1, <1>2

\* _handleEdgeAdd, after _ensureLabel.
LEMMA EdgeAddStores ==
    ASSUME NEW t, NEW A, stores(t, A), NEW e \in Edges
    PROVE  stores(_handleEdgeAdd(_ensureLabel(t, e[3]), e), Nodes!_handleEdgeAdd(A, {e}))
  <1>1. PICK w, u, B, D : /\ w = _ensureLabel(t, e[3]) /\ u = _handleEdgeAdd(w, e)
                          /\ D = {e} /\ B = Nodes!_handleEdgeAdd(A, D)
    OBVIOUS
  <1>2. e[1] \in Node /\ e[2] \in Node /\ e[3] \in Label /\ isIndex(A) /\ labelsOk(t) /\ isTree(t)
    BY StoredSaid DEF Edges
  <1>3. PICK M, G : M = A.labels \cup {e[3]} /\ G = indexOf(A.known, A.alive, M, A.fwd, A.rev, A.props)
    OBVIOUS
  <1>4. parts(G, A.known, A.alive, M, A.fwd, A.rev, A.props)
    BY <1>3 DEF parts
  <1>5. stores(w, G)
    BY <1>1, <1>2, <1>3, <1>4, EnsureLabelStores
  <1>6. /\ TreeInv(w) /\ isTree(w) /\ labelsOk(w) /\ isIndex(G)
        /\ storesRows(w, G.fwd, w.fwd) /\ storesRows(w, G.rev, w.rev)
        /\ G.known = knownNodes(w) /\ G.labels = knownLabels(w)
    BY <1>5, StoredSaid
  <1>7. /\ G.known = A.known /\ G.alive = A.alive /\ G.labels = M /\ G.fwd = A.fwd
        /\ G.rev = A.rev /\ G.props = A.props
    BY <1>4, PartsSaid
  <1>8. w.labels[e[3]] # NoId
    BY <1>1, <1>2, LabelEnsured
  <1>9. PICK F, R : F = A.fwd \cup outRows(edgesIn(A.known, D)) /\ R = A.rev \cup inRows(edgesIn(A.known, D))
    OBVIOUS
  <1>10. parts(B, G.known, G.alive, G.labels, F, R, G.props)
    <2>1. labelsOf(D) = {e[3]}
      BY <1>1 DEF labelsOf
    <2>2. A.labels \cup labelsOf(D) = M
      BY <1>3, <2>1
    <2>3. parts(B, A.known, A.alive, M, F, R, A.props)
      BY <1>1, <1>2, <1>9, <2>2, EdgeAddParts
    <2> QED
      BY <1>7, <2>3
  <1>11. CASE ~hasIds(w, e)
    <2>1. u = w
      BY <1>1, <1>11 DEF _handleEdgeAdd
    <2>2. edgesIn(A.known, D) = {}
      BY <1>1, <1>2, <1>6, <1>7, <1>11 DEF edgesIn, hasIds, knownNodes
    <2>3. F = G.fwd /\ R = G.rev
      BY <1>7, <1>9, <2>2 DEF outRows, inRows
    <2>4. B = G
      BY <1>6, <1>10, <2>3, OwnParts, SameParts
    <2> QED
      BY <1>1, <1>5, <2>1, <2>4
  <1>12. CASE hasIds(w, e)
    <2>1. e[1] \in knownNodes(w) /\ e[2] \in knownNodes(w) /\ e[3] \in knownLabels(w)
      BY <1>2, <1>8, <1>12 DEF hasIds, knownNodes, knownLabels
    <2>2. edgesIn(A.known, D) = {e}
      BY <1>1, <1>6, <1>7, <2>1 DEF edgesIn
    <2>3. PICK S, T, P, Q : /\ S = Nodes!rows(e[1], e[3], e[2]) /\ T = Nodes!rows(e[2], e[3], e[1])
                            /\ P = ownerRows(w, e[1], e[2], e[3]) /\ Q = ownerRows(w, e[2], e[1], e[3])
      OBVIOUS
    <2>4. storesRows(w, S, P) /\ storesRows(w, T, Q)
      BY <2>1, <2>3, EdgeRows, IndexGraphAssumption
    <2>5. F = G.fwd \cup S /\ R = G.rev \cup T
      <3>1. outRows({e}) = S /\ inRows({e}) = T
        BY <2>3 DEF outRows, inRows
      <3> QED
        BY <1>7, <1>9, <2>2, <3>1
    <2>6. PICK X, Y : X = w.fwd \cup P /\ Y = w.rev \cup Q
      OBVIOUS
    <2>7. storesRows(w, F, X) /\ storesRows(w, R, Y)
      BY <1>6, <2>4, <2>5, <2>6, RowsUnion
    <2>8. u = [w EXCEPT !.fwd = X, !.rev = Y]
      BY <1>1, <1>12, <2>3, <2>6 DEF _handleEdgeAdd
    <2>9. fields([w EXCEPT !.fwd = X, !.rev = Y], w.id, w.next, w.alive, w.labels, X, Y, w.props)
      BY ONLY <1>6, RowsSet, Zenon
    <2>10. fields(u, w.id, w.next, w.alive, w.labels, X, Y, w.props)
      BY ONLY <2>8, <2>9, Zenon
    <2>11. keepsIds(w, u)
      BY <1>1, <1>6, OthersKeepIds
    <2>12. stores(u, B)
      BY <1>5, <1>10, <2>7, <2>10, <2>11, RowsChange
    <2> QED
      BY <1>1, <2>12
  <1> QED
    BY <1>11, <1>12

\* _handleEdgeRemove.
LEMMA EdgeRemoveStores ==
    ASSUME NEW t, NEW A, stores(t, A), NEW e \in Edges
    PROVE  stores(_handleEdgeRemove(t, e), Nodes!_handleEdgeRemove(A, {e}))
  <1>1. PICK u, B, D : u = _handleEdgeRemove(t, e) /\ D = {e} /\ B = Nodes!_handleEdgeRemove(A, D)
    OBVIOUS
  <1>2. e[1] \in Node /\ e[2] \in Node /\ e[3] \in Label
    BY DEF Edges
  <1>3. /\ TreeInv(t) /\ isTree(t) /\ labelsOk(t) /\ isIndex(A)
        /\ storesRows(t, A.fwd, t.fwd) /\ storesRows(t, A.rev, t.rev)
        /\ A.known = knownNodes(t) /\ A.labels = knownLabels(t)
    BY StoredSaid
  <1>4. PICK E : E = edgesOut(A.known, A.labels, D)
    OBVIOUS
  <1>5. PICK F, R : F = remaining(A.fwd, outRow(E), A.labels) /\ R = remaining(A.rev, inRow(E), A.labels)
    OBVIOUS
  <1>6. parts(B, A.known, A.alive, A.labels, F, R, A.props)
    BY <1>1, <1>3, <1>4, <1>5, EdgeRemoveParts
  <1>7. CASE ~hasIds(t, e) \/ t.labels[e[3]] = NoId
    <2>1. u = t
      BY <1>1, <1>7 DEF _handleEdgeRemove
    <2>2. E = {}
      BY <1>1, <1>2, <1>3, <1>4, <1>7 DEF edgesOut, hasIds, knownNodes, knownLabels
    <2>3. F = A.fwd /\ R = A.rev
      <3>1. outRow(E) = {} /\ inRow(E) = {}
        BY <2>2 DEF outRow, inRow
      <3>2. \A S : remaining(S, {}, A.labels) = S
        BY DEF remaining, Nodes!_recomputeAllBucket
      <3> QED
        BY <1>5, <3>1, <3>2
    <2>4. B = A
      BY <1>3, <1>6, <2>3, OwnParts, SameParts
    <2> QED
      BY <1>1, <2>1, <2>4
  <1>8. CASE hasIds(t, e) /\ t.labels[e[3]] # NoId
    <2>1. e[1] \in knownNodes(t) /\ e[2] \in knownNodes(t) /\ e[3] \in knownLabels(t)
      BY <1>2, <1>8 DEF hasIds, knownNodes, knownLabels
    <2>2. E = {e}
      BY <1>1, <1>3, <1>4, <2>1 DEF edgesOut
    <2>3. outRow(E) = {<<e[1], e[3], e[2]>>} /\ inRow(E) = {<<e[2], e[3], e[1]>>}
      BY <2>2 DEF outRow, inRow
    <2>4. PICK s, q, x, y, l : /\ s = computeShardKey[e[1]] /\ q = computeShardKey[e[2]]
                               /\ x = t.id[e[1]] /\ y = t.id[e[2]] /\ l = t.labels[e[3]]
      OBVIOUS
    <2>5. PICK P, Q : /\ P = _recomputeAllBucket(t.fwd \ {<<s, l, x, y>>}, s, x, t)
                      /\ Q = _recomputeAllBucket(t.rev \ {<<q, l, y, x>>}, q, y, t)
      OBVIOUS
    <2>6. storesRows(t, F, P)
      BY <1>3, <1>5, <2>1, <2>3, <2>4, <2>5, RemovedRows
    <2>7. storesRows(t, R, Q)
      BY <1>3, <1>5, <2>1, <2>3, <2>4, <2>5, RemovedRows
    <2>8. u = [t EXCEPT !.fwd = P, !.rev = Q]
      BY <1>1, <1>8, <2>4, <2>5 DEF _handleEdgeRemove
    <2>9. fields([t EXCEPT !.fwd = P, !.rev = Q], t.id, t.next, t.alive, t.labels, P, Q, t.props)
      BY ONLY <1>3, RowsSet, Zenon
    <2>10. fields(u, t.id, t.next, t.alive, t.labels, P, Q, t.props)
      BY ONLY <2>8, <2>9, Zenon
    <2>11. keepsIds(t, u)
      BY <1>1, <1>3, OthersKeepIds
    <2>12. stores(u, B)
      BY <1>6, <2>6, <2>7, <2>10, <2>11, RowsChange
    <2> QED
      BY <1>1, <2>12
  <1> QED
    BY <1>7, <1>8

----------------------------------------------------------------------------
(* A step of a loop leaves less to do and leads to the same.               *)

\* Every loop makes an index.
LEMMA LoopsAreIndexes ==
    ASSUME NEW A, isIndex(A), NEW S
    PROVE  /\ isIndex(nodesIn(A, S)) /\ isIndex(nodesOut(A, S)) /\ isIndex(Nodes!_purgeNodeEdges(A, S))
           /\ isIndex(Nodes!_handleEdgeAdd(A, S)) /\ isIndex(Nodes!_handleEdgeRemove(A, S))
  <1>1. \A B, K, V, L, F, R, P : parts(B, K, V, L, F, R, P) => isIndex(B)
    BY PartsSaid
  <1>2. isIndex(nodesIn(A, S)) /\ isIndex(nodesOut(A, S))
    BY <1>1, NodesInParts, NodesOutParts, Zenon
  <1>3. isIndex(Nodes!_purgeNodeEdges(A, S)) /\ isIndex(Nodes!_handleEdgeAdd(A, S))
    BY <1>1, PurgeParts, EdgeAddParts, Zenon
  <1>4. isIndex(Nodes!_handleEdgeRemove(A, S))
    BY <1>1, EdgeRemoveParts, Zenon
  <1> QED
    BY <1>2, <1>3, <1>4

\* Taking one entry first.
LEMMA FirstOf ==
    ASSUME NEW S, NEW x \in S
    PROVE  joins({x}, S \ {x}, S)
  BY DEF joins

\* Visiting one entry first makes no difference: of the nodes added,
LEMMA NextNodeIn ==
    ASSUME NEW A, isIndex(A), NEW a, NEW o, NEW p, NEW e, NEW r, NEW s, NEW x \in a
    PROVE  loopsOver(nodesIn(A, {x}), a \ {x}, o, p, e, r, s) = loopsOver(A, a, o, p, e, r, s)
  <1>1. joins({x}, a \ {x}, a)
    BY FirstOf
  <1>2. nodesIn(nodesIn(A, {x}), a \ {x}) = nodesIn(A, a)
    BY <1>1, NodesInTwice, Zenon
  <1> QED
    BY <1>2, Zenon DEF loopsOver

\* of the nodes removed,
LEMMA NextNodeOut ==
    ASSUME NEW A, isIndex(A), NEW o, NEW p, NEW e, NEW r, NEW s, NEW x \in o
    PROVE  loopsOver(nodesOut(A, {x}), {}, o \ {x}, p, e, r, s) = loopsOver(A, {}, o, p, e, r, s)
  <1>1. joins({x}, o \ {x}, o)
    BY FirstOf
  <1>2. nodesOut(nodesOut(A, {x}), o \ {x}) = nodesOut(A, o)
    BY <1>1, NodesOutTwice, Zenon
  <1>3. nodesIn(A, {}) = A /\ nodesIn(nodesOut(A, {x}), {}) = nodesOut(A, {x})
    BY LoopsIdle, LoopsAreIndexes
  <1> QED
    BY <1>2, <1>3, Zenon DEF loopsOver

\* of the nodes to purge,
LEMMA NextPurge ==
    ASSUME NEW A, isIndex(A), NEW p, NEW e, NEW r, NEW s, NEW x \in p
    PROVE  loopsOver(Nodes!_purgeNodeEdges(A, {x}), {}, {}, p \ {x}, e, r, s)
             = loopsOver(A, {}, {}, p, e, r, s)
  <1>0. PICK B : B = Nodes!_purgeNodeEdges(A, {x})
    OBVIOUS
  <1>1. joins({x}, p \ {x}, p)
    BY FirstOf
  <1>2. Nodes!_purgeNodeEdges(B, p \ {x}) = Nodes!_purgeNodeEdges(A, p)
    <2>1. Nodes!_purgeNodeEdges(Nodes!_purgeNodeEdges(A, {x}), p \ {x}) = Nodes!_purgeNodeEdges(A, p)
      BY <1>1, PurgeTwice, Zenon
    <2> QED
      BY ONLY <1>0, <2>1, Zenon
  <1>3. nodesOut(nodesIn(A, {}), {}) = A /\ nodesOut(nodesIn(B, {}), {}) = B
    BY <1>0, LoopsIdle, LoopsAreIndexes
  <1> QED
    BY <1>0, <1>2, <1>3, Zenon DEF loopsOver

\* of the edges added,
LEMMA NextEdgeAdded ==
    ASSUME NEW A, isIndex(A), NEW e, NEW r, NEW s, NEW x \in e
    PROVE  loopsOver(Nodes!_handleEdgeAdd(A, {x}), {}, {}, {}, e \ {x}, r, s)
             = loopsOver(A, {}, {}, {}, e, r, s)
  <1>0. PICK B : B = Nodes!_handleEdgeAdd(A, {x})
    OBVIOUS
  <1>1. joins({x}, e \ {x}, e)
    BY FirstOf
  <1>2. Nodes!_handleEdgeAdd(B, e \ {x}) = Nodes!_handleEdgeAdd(A, e)
    <2>1. Nodes!_handleEdgeAdd(Nodes!_handleEdgeAdd(A, {x}), e \ {x}) = Nodes!_handleEdgeAdd(A, e)
      BY <1>1, EdgeAddTwice, Zenon
    <2> QED
      BY ONLY <1>0, <2>1, Zenon
  <1>3. /\ Nodes!_purgeNodeEdges(nodesOut(nodesIn(A, {}), {}), {}) = A
        /\ Nodes!_purgeNodeEdges(nodesOut(nodesIn(B, {}), {}), {}) = B
    BY <1>0, LoopsIdle, LoopsAreIndexes
  <1> QED
    BY <1>0, <1>2, <1>3, Zenon DEF loopsOver

\* of the edges removed,
LEMMA NextEdgeRemoved ==
    ASSUME NEW A, isIndex(A), "all" \notin A.labels, NEW r, NEW s, NEW x \in r
    PROVE  loopsOver(Nodes!_handleEdgeRemove(A, {x}), {}, {}, {}, {}, r \ {x}, s)
             = loopsOver(A, {}, {}, {}, {}, r, s)
  <1>0. PICK B : B = Nodes!_handleEdgeRemove(A, {x})
    OBVIOUS
  <1>1. joins({x}, r \ {x}, r)
    BY FirstOf
  <1>2. Nodes!_handleEdgeRemove(B, r \ {x}) = Nodes!_handleEdgeRemove(A, r)
    <2>1. Nodes!_handleEdgeRemove(Nodes!_handleEdgeRemove(A, {x}), r \ {x}) = Nodes!_handleEdgeRemove(A, r)
      BY <1>1, EdgeRemoveTwice, Zenon
    <2> QED
      BY ONLY <1>0, <2>1, Zenon
  <1>3. /\ Nodes!_handleEdgeAdd(Nodes!_purgeNodeEdges(nodesOut(nodesIn(A, {}), {}), {}), {}) = A
        /\ Nodes!_handleEdgeAdd(Nodes!_purgeNodeEdges(nodesOut(nodesIn(B, {}), {}), {}), {}) = B
    BY <1>0, LoopsIdle, LoopsAreIndexes
  <1> QED
    BY <1>0, <1>2, <1>3, Zenon DEF loopsOver

\* and of the edges that come back.
LEMMA NextRestored ==
    ASSUME NEW A, isIndex(A), NEW s, NEW x \in s
    PROVE  loopsOver(Nodes!_handleEdgeAdd(A, {x}), {}, {}, {}, {}, {}, s \ {x})
             = loopsOver(A, {}, {}, {}, {}, {}, s)
  <1>0. PICK B : B = Nodes!_handleEdgeAdd(A, {x})
    OBVIOUS
  <1>1. joins({x}, s \ {x}, s)
    BY FirstOf
  <1>2. Nodes!_handleEdgeAdd(B, s \ {x}) = Nodes!_handleEdgeAdd(A, s)
    <2>1. Nodes!_handleEdgeAdd(Nodes!_handleEdgeAdd(A, {x}), s \ {x}) = Nodes!_handleEdgeAdd(A, s)
      BY <1>1, EdgeAddTwice, Zenon
    <2> QED
      BY ONLY <1>0, <2>1, Zenon
  <1>3. /\ Nodes!_handleEdgeRemove(Nodes!_handleEdgeAdd(Nodes!_purgeNodeEdges(nodesOut(nodesIn(A, {}), {}), {}), {}), {}) = A
        /\ Nodes!_handleEdgeRemove(Nodes!_handleEdgeAdd(Nodes!_purgeNodeEdges(nodesOut(nodesIn(B, {}), {}), {}), {}), {}) = B
    BY <1>0, LoopsIdle, LoopsAreIndexes
  <1> QED
    BY <1>0, <1>2, <1>3, Zenon DEF loopsOver

\* When nothing is left, the index is done.
LEMMA LoopsDone ==
    ASSUME NEW A, isIndex(A)
    PROVE  loopsOver(A, {}, {}, {}, {}, {}, {}) = A
  BY LoopsIdle, Zenon DEF loopsOver

----------------------------------------------------------------------------
(* The entries that are left, and the shards that are loaded.              *)

planOf(T, a, o, p, e, r, s, P) ==
    T = [nodesAdded |-> a, nodesRemoved |-> o, purge |-> p, edgesAdded |-> e,
         edgesRemoved |-> r, restored |-> s, props |-> P]

\* The entries of a plan.
LEMMA PlanSaid ==
    ASSUME NEW T, NEW a, NEW o, NEW p, NEW e, NEW r, NEW s, NEW P, planOf(T, a, o, p, e, r, s, P)
    PROVE  /\ T.nodesAdded = a /\ T.nodesRemoved = o /\ T.purge = p /\ T.edgesAdded = e
           /\ T.edgesRemoved = r /\ T.restored = s /\ T.props = P
           /\ \A B : afterLoops(B, T) = loopsOver(B, a, o, p, e, r, s)
  <1>1. /\ T.nodesAdded = a /\ T.nodesRemoved = o /\ T.purge = p /\ T.edgesAdded = e
        /\ T.edgesRemoved = r /\ T.restored = s /\ T.props = P
    BY DEF planOf
  <1> QED
    BY <1>1, Zenon DEF afterLoops

LEMMA PlanFields ==
    ASSUME NEW T, isPlan(T)
    PROVE  planOf(T, T.nodesAdded, T.nodesRemoved, T.purge, T.edgesAdded, T.edgesRemoved, T.restored, T.props)
  BY DEF isPlan, planOf

LEMMA PlanIs ==
    ASSUME NEW T, NEW a, NEW o, NEW p, NEW e, NEW r, NEW s, NEW P, planOf(T, a, o, p, e, r, s, P),
           a \subseteq Node, o \subseteq Node, p \subseteq Node,
           e \subseteq Edges, r \subseteq Edges, s \subseteq Edges
    PROVE  isPlan(T)
  BY PlanSaid DEF isPlan, planOf

LEMMA LoopNames ==
    /\ loops[1] = "nodesAdded" /\ loops[2] = "nodesRemoved" /\ loops[3] = "purge"
    /\ loops[4] = "edgesAdded" /\ loops[5] = "edgesRemoved" /\ loops[6] = "restored"
  BY DEF loops

\* A visit takes its entry out of its loop.
LEMMA TodoVisited ==
    ASSUME NEW k, NEW x, NEW t, NEW meta, NEW fwd, NEW rev, visit(k, x, t, meta, fwd, rev), isPlan(todo)
    PROVE  /\ k = 1 => planOf(todo', todo.nodesAdded \ {x}, todo.nodesRemoved, todo.purge, todo.edgesAdded,
                              todo.edgesRemoved, todo.restored, todo.props)
           /\ k = 2 => planOf(todo', todo.nodesAdded, todo.nodesRemoved \ {x}, todo.purge, todo.edgesAdded,
                              todo.edgesRemoved, todo.restored, todo.props)
           /\ k = 3 => planOf(todo', todo.nodesAdded, todo.nodesRemoved, todo.purge \ {x}, todo.edgesAdded,
                              todo.edgesRemoved, todo.restored, todo.props)
           /\ k = 4 => planOf(todo', todo.nodesAdded, todo.nodesRemoved, todo.purge, todo.edgesAdded \ {x},
                              todo.edgesRemoved, todo.restored, todo.props)
           /\ k = 5 => planOf(todo', todo.nodesAdded, todo.nodesRemoved, todo.purge, todo.edgesAdded,
                              todo.edgesRemoved \ {x}, todo.restored, todo.props)
           /\ k = 6 => planOf(todo', todo.nodesAdded, todo.nodesRemoved, todo.purge, todo.edgesAdded,
                              todo.edgesRemoved, todo.restored \ {x}, todo.props)
  <1>0. todo' = [todo EXCEPT ![loops[k]] = @ \ {x}]
    BY DEF visit
  <1>1. ASSUME k = 1
        PROVE  planOf(todo', todo.nodesAdded \ {x}, todo.nodesRemoved, todo.purge, todo.edgesAdded,
                      todo.edgesRemoved, todo.restored, todo.props)
    <2>1. todo' = [todo EXCEPT !.nodesAdded = @ \ {x}]
      BY <1>0, <1>1, LoopNames
    <2> QED
      BY <2>1 DEF isPlan, planOf
  <1>2. ASSUME k = 2
        PROVE  planOf(todo', todo.nodesAdded, todo.nodesRemoved \ {x}, todo.purge, todo.edgesAdded,
                      todo.edgesRemoved, todo.restored, todo.props)
    <2>1. todo' = [todo EXCEPT !.nodesRemoved = @ \ {x}]
      BY <1>0, <1>2, LoopNames
    <2> QED
      BY <2>1 DEF isPlan, planOf
  <1>3. ASSUME k = 3
        PROVE  planOf(todo', todo.nodesAdded, todo.nodesRemoved, todo.purge \ {x}, todo.edgesAdded,
                      todo.edgesRemoved, todo.restored, todo.props)
    <2>1. todo' = [todo EXCEPT !.purge = @ \ {x}]
      BY <1>0, <1>3, LoopNames
    <2> QED
      BY <2>1 DEF isPlan, planOf
  <1>4. ASSUME k = 4
        PROVE  planOf(todo', todo.nodesAdded, todo.nodesRemoved, todo.purge, todo.edgesAdded \ {x},
                      todo.edgesRemoved, todo.restored, todo.props)
    <2>1. todo' = [todo EXCEPT !.edgesAdded = @ \ {x}]
      BY <1>0, <1>4, LoopNames
    <2> QED
      BY <2>1 DEF isPlan, planOf
  <1>5. ASSUME k = 5
        PROVE  planOf(todo', todo.nodesAdded, todo.nodesRemoved, todo.purge, todo.edgesAdded,
                      todo.edgesRemoved \ {x}, todo.restored, todo.props)
    <2>1. todo' = [todo EXCEPT !.edgesRemoved = @ \ {x}]
      BY <1>0, <1>5, LoopNames
    <2> QED
      BY <2>1 DEF isPlan, planOf
  <1>6. ASSUME k = 6
        PROVE  planOf(todo', todo.nodesAdded, todo.nodesRemoved, todo.purge, todo.edgesAdded,
                      todo.edgesRemoved, todo.restored \ {x}, todo.props)
    <2>1. todo' = [todo EXCEPT !.restored = @ \ {x}]
      BY <1>0, <1>6, LoopNames
    <2> QED
      BY <2>1 DEF isPlan, planOf
  <1> QED
    BY <1>1, <1>2, <1>3, <1>4, <1>5, <1>6

loadsMore(m, l, M, F, R, b) == m = [l EXCEPT !.meta = M, !.fwd = F, !.rev = R, !.labels = b]

\* The shards that are loaded, with more.
LEMMA LoadedSaid ==
    ASSUME NEW m, NEW l, isLoaded(l), NEW M, NEW F, NEW R, NEW b, loadsMore(m, l, M, F, R, b)
    PROVE  isLoaded(m) /\ m.meta = M /\ m.fwd = F /\ m.rev = R /\ m.labels = b
  <1>1. PICK m1 : m1 = [l EXCEPT !.meta = M]
    OBVIOUS
  <1>2. m1 = [meta |-> M, fwd |-> l.fwd, rev |-> l.rev, props |-> l.props, labels |-> l.labels]
    BY <1>1 DEF isLoaded
  <1>3. PICK m2 : m2 = [m1 EXCEPT !.fwd = F]
    OBVIOUS
  <1>4. m2 = [meta |-> M, fwd |-> F, rev |-> l.rev, props |-> l.props, labels |-> l.labels]
    BY <1>2, <1>3
  <1>5. PICK m3 : m3 = [m2 EXCEPT !.rev = R]
    OBVIOUS
  <1>6. m3 = [meta |-> M, fwd |-> F, rev |-> R, props |-> l.props, labels |-> l.labels]
    BY <1>4, <1>5
  <1>7. PICK m4 : m4 = [m3 EXCEPT !.labels = b]
    OBVIOUS
  <1>8. m4 = [meta |-> M, fwd |-> F, rev |-> R, props |-> l.props, labels |-> b]
    BY <1>6, <1>7
  <1>9. m4 = m
    BY <1>1, <1>3, <1>5, <1>7 DEF loadsMore
  <1>10. isLoaded(m4) /\ m4.meta = M /\ m4.fwd = F /\ m4.rev = R /\ m4.labels = b
    BY <1>8 DEF isLoaded
  <1> QED
    BY ONLY <1>9, <1>10, Zenon

\* What differs between two trees lies in the shards named.
differsIn(t, u, meta, fwd, rev) ==
    /\ \A n \in Node : computeShardKey[n] \notin meta => u.id[n] = t.id[n]
    /\ \A s \in Shard : s \notin meta => u.next[s] = t.next[s] /\ u.alive[s] = t.alive[s]
    /\ \A r \in u.fwd \cup t.fwd : r[1] \notin fwd => (r \in u.fwd <=> r \in t.fwd)
    /\ \A r \in u.rev \cup t.rev : r[1] \notin rev => (r \in u.rev <=> r \in t.rev)
    /\ u.props = t.props

visitedWith(u, meta, fwd, rev) ==
    work' = [tree |-> u,
             loaded |-> [work.loaded EXCEPT !.meta = @ \cup meta, !.fwd = @ \cup fwd, !.rev = @ \cup rev,
                                            !.labels = @ \/ u.labels # work.tree.labels]]

\* What a visit leaves as work.
LEMMA WorkVisited ==
    ASSUME NEW u, NEW meta, NEW fwd, NEW rev, visitedWith(u, meta, fwd, rev), isLoaded(work.loaded)
    PROVE  /\ work' = [tree |-> work'.tree, loaded |-> work'.loaded] /\ work'.tree = u
           /\ isLoaded(work'.loaded)
           /\ work'.loaded.meta = work.loaded.meta \cup meta
           /\ work'.loaded.fwd = work.loaded.fwd \cup fwd
           /\ work'.loaded.rev = work.loaded.rev \cup rev
           /\ ~work'.loaded.labels => ~work.loaded.labels /\ u.labels = work.tree.labels
  <1>1. PICK M, F, R, b : /\ M = work.loaded.meta \cup meta /\ F = work.loaded.fwd \cup fwd
                          /\ R = work.loaded.rev \cup rev
                          /\ b = (work.loaded.labels \/ u.labels # work.tree.labels)
    OBVIOUS
  <1>2. PICK m : m = [work.loaded EXCEPT !.meta = M, !.fwd = F, !.rev = R, !.labels = b]
    OBVIOUS
  <1>3. isLoaded(m) /\ m.meta = M /\ m.fwd = F /\ m.rev = R /\ m.labels = b
    <2>1. loadsMore(m, work.loaded, M, F, R, b)
      BY <1>2, Zenon DEF loadsMore
    <2> QED
      BY <2>1, LoadedSaid
  <1>4. work' = [tree |-> u, loaded |-> m]
    BY <1>1, <1>2, Zenon DEF visitedWith
  <1>5. /\ work' = [tree |-> work'.tree, loaded |-> work'.loaded] /\ work'.tree = u
        /\ work'.loaded = m
    BY <1>4
  <1>6. ~b => ~work.loaded.labels /\ u.labels = work.tree.labels
    BY <1>1, Zenon
  <1> QED
    BY <1>1, <1>3, <1>5, <1>6, Zenon

\* What a visit does not load stays as it was.
LEMMA VisitUntouched ==
    ASSUME NEW u, NEW meta, NEW fwd, NEW rev, visitedWith(u, meta, fwd, rev), isLoaded(work.loaded),
           untouched(tree, work.tree, work.loaded), differsIn(work.tree, u, meta, fwd, rev)
    PROVE  untouched(tree, u, work'.loaded)
  <1>1. PICK t, old, l, m : t = work.tree /\ old = tree /\ l = work.loaded /\ m = work'.loaded
    OBVIOUS
  <1>2. /\ m.meta = l.meta \cup meta /\ m.fwd = l.fwd \cup fwd /\ m.rev = l.rev \cup rev
        /\ ~m.labels => ~l.labels /\ u.labels = t.labels
    BY <1>1, WorkVisited, Zenon
  <1>3. untouched(old, t, l) /\ differsIn(t, u, meta, fwd, rev)
    BY <1>1
  <1>4. \A n \in Node : computeShardKey[n] \notin m.meta => u.id[n] = old.id[n]
    BY <1>2, <1>3 DEF untouched, differsIn
  <1>5. \A s \in Shard : s \notin m.meta => u.next[s] = old.next[s] /\ u.alive[s] = old.alive[s]
    BY <1>2, <1>3 DEF untouched, differsIn
  <1>6. ~m.labels => u.labels = old.labels
    BY <1>2, <1>3, Zenon DEF untouched
  <1>7. \A r \in u.fwd \cup old.fwd : r[1] \notin m.fwd => (r \in u.fwd <=> r \in old.fwd)
    BY <1>2, <1>3 DEF untouched, differsIn
  <1>8. \A r \in u.rev \cup old.rev : r[1] \notin m.rev => (r \in u.rev <=> r \in old.rev)
    BY <1>2, <1>3 DEF untouched, differsIn
  <1>9. u.props = old.props
    BY <1>3 DEF untouched, differsIn
  <1>10. untouched(old, u, m)
    BY <1>4, <1>5, <1>6, <1>7, <1>8, <1>9, Zenon DEF untouched
  <1> QED
    BY <1>1, <1>10

----------------------------------------------------------------------------
(* A visit loads the shards that it changes.                               *)

\* What each of the steps changes.
LEMMA NodeAddDiffers ==
    ASSUME NEW t, NEW A, stores(t, A), NEW n \in Node
    PROVE  differsIn(t, _handleNodeAdd(t, n), shardsOf({n}), {}, {})
  <1>1. PICK u : u = _handleNodeAdd(t, n)
    OBVIOUS
  <1> DEFINE s == computeShardKey[n]
  <1>2. PICK y : y = (IF t.id[n] = NoId THEN globalId(s, t.next[s]) ELSE t.id[n])
    OBVIOUS
  <1>3. PICK I, V, N : /\ I = [t.id EXCEPT ![n] = y]
                       /\ V = [t.alive EXCEPT ![s] = @ \cup {y}]
                       /\ N = [t.next EXCEPT ![s] = IF t.id[n] = NoId THEN @ + 1 ELSE @]
    OBVIOUS
  <1>4. isTree(t) /\ storesAlive(t, A.alive)
    BY StoredSaid
  <1>5. fields(u, I, N, V, t.labels, t.fwd, t.rev, t.props)
    BY <1>1, <1>2, <1>3, <1>4, NodeAddTree
  <1>6. /\ u.id = I /\ u.next = N /\ u.alive = V /\ u.fwd = t.fwd /\ u.rev = t.rev /\ u.props = t.props
    BY <1>5, FieldsSaid
  <1>7. shardsOf({n}) = {s}
    BY DEF shardsOf
  <1>8. \A m \in Node : computeShardKey[m] \notin {s} => u.id[m] = t.id[m]
    BY <1>3, <1>4, <1>6 DEF isTree
  <1>9. \A q \in Shard : q \notin {s} => u.next[q] = t.next[q] /\ u.alive[q] = t.alive[q]
    BY <1>3, <1>4, <1>6 DEF isTree, storesAlive
  <1>10. differsIn(t, u, {s}, {}, {})
    BY <1>6, <1>8, <1>9 DEF differsIn
  <1> QED
    BY <1>1, <1>7, <1>10

LEMMA NodeRemoveDiffers ==
    ASSUME NEW t, NEW A, stores(t, A), NEW n \in Node
    PROVE  differsIn(t, _handleNodeRemove(t, n), shardsOf({n}), {}, {})
  <1>1. PICK u : u = _handleNodeRemove(t, n)
    OBVIOUS
  <1> DEFINE s == computeShardKey[n]
  <1>2. PICK V : V = [t.alive EXCEPT ![s] = @ \ {t.id[n]}]
    OBVIOUS
  <1>3. isTree(t) /\ storesAlive(t, A.alive)
    BY StoredSaid
  <1>4. fields(u, t.id, t.next, V, t.labels, t.fwd, t.rev, t.props)
    <2>1. _handleNodeRemove(t, n) = [t EXCEPT !.alive = V]
      BY <1>2 DEF _handleNodeRemove
    <2> QED
      BY <1>1, <1>3, <2>1, OneSet, Zenon
  <1>5. /\ u.id = t.id /\ u.next = t.next /\ u.alive = V /\ u.fwd = t.fwd /\ u.rev = t.rev
        /\ u.props = t.props
    BY <1>4, FieldsSaid
  <1>6. shardsOf({n}) = {s}
    BY DEF shardsOf
  <1>7. \A q \in Shard : q \notin {s} => u.alive[q] = t.alive[q]
    BY <1>2, <1>3, <1>5 DEF storesAlive
  <1>8. differsIn(t, u, {s}, {}, {})
    BY <1>5, <1>7 DEF differsIn
  <1> QED
    BY <1>1, <1>6, <1>8

\* Two trees that differ in their rows.
LEMMA RowsDiffer ==
    ASSUME NEW t, NEW u, NEW P, NEW Q, fields(u, t.id, t.next, t.alive, t.labels, P, Q, t.props),
           NEW meta, NEW fwd, NEW rev,
           \A r \in P \cup t.fwd : r[1] \notin fwd => (r \in P <=> r \in t.fwd),
           \A r \in Q \cup t.rev : r[1] \notin rev => (r \in Q <=> r \in t.rev)
    PROVE  differsIn(t, u, meta, fwd, rev)
  BY FieldsSaid DEF differsIn

LEMMA PurgeDiffers ==
    ASSUME NEW t, isTree(t), NEW n, NEW u, u = _purgeNodeEdges(t, n), NEW meta, NEW fwd, NEW rev,
           {r[1] : r \in t.fwd \ u.fwd} \subseteq fwd, {r[1] : r \in t.rev \ u.rev} \subseteq rev
    PROVE  differsIn(t, u, meta, fwd, rev)
  <1>1. CASE t.id[n] = NoId
    <2>1. u = t
      BY <1>1 DEF _purgeNodeEdges
    <2> QED
      BY <2>1 DEF differsIn
  <1>2. CASE t.id[n] # NoId
    <2>2. PICK out : out = rowsOf(t.fwd, n, t.id[n])
      OBVIOUS
    <2>3. PICK revRest : revRest = t.rev \ peerBits(t, out, t.id[n])
      OBVIOUS
    <2>4. PICK in : in = rowsOf(revRest, n, t.id[n])
      OBVIOUS
    <2>5. PICK P, Q : P = (t.fwd \ out) \ peerBits(t, in, t.id[n]) /\ Q = revRest \ in
      OBVIOUS
    <2>6. P \subseteq t.fwd /\ Q \subseteq t.rev
      BY <2>3, <2>5
    <2>7. u = [t EXCEPT !.fwd = P, !.rev = Q]
      BY <1>2, <2>2, <2>3, <2>4, <2>5 DEF _purgeNodeEdges
    <2>8. fields([t EXCEPT !.fwd = P, !.rev = Q], t.id, t.next, t.alive, t.labels, P, Q, t.props)
      BY RowsSet, Zenon
    <2>9. fields(u, t.id, t.next, t.alive, t.labels, P, Q, t.props)
      BY ONLY <2>7, <2>8, Zenon
    <2>10. u.fwd = P /\ u.rev = Q
      BY <2>9, FieldsSaid
    <2>11. \A r \in P \cup t.fwd : r[1] \notin fwd => (r \in P <=> r \in t.fwd)
      BY <2>6, <2>10
    <2>12. \A r \in Q \cup t.rev : r[1] \notin rev => (r \in Q <=> r \in t.rev)
      BY <2>6, <2>10
    <2> QED
      BY <2>9, <2>11, <2>12, RowsDiffer
  <1> QED
    BY <1>1, <1>2

LEMMA EdgeAddDiffers ==
    ASSUME NEW t, NEW w, isTree(w), NEW l, isTree(t), w = _ensureLabel(t, l), NEW e, NEW meta, NEW fwd, NEW rev,
           hasIds(w, e) => computeShardKey[e[1]] \in fwd /\ computeShardKey[e[2]] \in rev
    PROVE  differsIn(t, _handleEdgeAdd(w, e), meta, fwd, rev)
  <1>1. PICK L : fields(w, t.id, t.next, t.alive, L, t.fwd, t.rev, t.props)
    <2>1. CASE t.labels[l] # NoId
      BY <2>1, TreeFields DEF _ensureLabel
    <2>2. CASE t.labels[l] = NoId
      <3>1. PICK x : w = [t EXCEPT !.labels[l] = x]
        BY <2>2 DEF _ensureLabel
      <3>2. PICK K : K = [t.labels EXCEPT ![l] = x]
        OBVIOUS
      <3>3. w = [t EXCEPT !.labels = K]
        BY <3>1, <3>2
      <3>4. fields([t EXCEPT !.labels = K], t.id, t.next, t.alive, K, t.fwd, t.rev, t.props)
        BY OneSet, Zenon
      <3>5. fields(w, t.id, t.next, t.alive, K, t.fwd, t.rev, t.props)
        BY ONLY <3>3, <3>4, Zenon
      <3> QED
        BY <3>5
    <2> QED
      BY <2>1, <2>2
  <1>2. /\ w.id = t.id /\ w.next = t.next /\ w.alive = t.alive /\ w.fwd = t.fwd /\ w.rev = t.rev
        /\ w.props = t.props
    BY <1>1, FieldsSaid
  <1>3. PICK u : u = _handleEdgeAdd(w, e)
    OBVIOUS
  <1>4. CASE ~hasIds(w, e)
    <2>1. u = w
      BY <1>3, <1>4 DEF _handleEdgeAdd
    <2>2. differsIn(t, w, meta, fwd, rev)
      BY <1>2 DEF differsIn
    <2> QED
      BY <1>3, <2>1, <2>2
  <1>5. CASE hasIds(w, e)
    <2>1. PICK P, Q : /\ P = w.fwd \cup ownerRows(w, e[1], e[2], e[3])
                      /\ Q = w.rev \cup ownerRows(w, e[2], e[1], e[3])
      OBVIOUS
    <2>2. u = [w EXCEPT !.fwd = P, !.rev = Q]
      BY <1>3, <1>5, <2>1 DEF _handleEdgeAdd
    <2>3. fields([w EXCEPT !.fwd = P, !.rev = Q], w.id, w.next, w.alive, w.labels, P, Q, w.props)
      BY RowsSet, Zenon
    <2>4. fields(u, w.id, w.next, w.alive, w.labels, P, Q, w.props)
      BY ONLY <2>2, <2>3, Zenon
    <2>5. /\ \A r \in ownerRows(w, e[1], e[2], e[3]) : r[1] \in fwd
          /\ \A r \in ownerRows(w, e[2], e[1], e[3]) : r[1] \in rev
      BY <1>5 DEF ownerRows
    <2>6. \A r \in P \cup t.fwd : r[1] \notin fwd => (r \in P <=> r \in t.fwd)
      BY <1>2, <2>1, <2>5
    <2>7. \A r \in Q \cup t.rev : r[1] \notin rev => (r \in Q <=> r \in t.rev)
      BY <1>2, <2>1, <2>5
    <2>8. u.id = w.id /\ u.next = w.next /\ u.alive = w.alive /\ u.fwd = P /\ u.rev = Q /\ u.props = w.props
      BY <2>4, FieldsSaid
    <2>9. differsIn(t, u, meta, fwd, rev)
      BY <1>2, <2>6, <2>7, <2>8 DEF differsIn
    <2> QED
      BY <1>3, <2>9
  <1> QED
    BY <1>4, <1>5

\* The bucket "all" is computed again in one shard.
LEMMA RecomputedElsewhere ==
    ASSUME NEW t, NEW R, NEW a, NEW i, NEW j, NEW k, NEW r, r[1] # a
    PROVE  r \in _recomputeAllBucket(R \ {<<a, k, i, j>>}, a, i, t) <=> r \in R
  <1>1. \A p : <<a, all, i, p[4]>>[1] = a
    OBVIOUS
  <1>2. <<a, k, i, j>>[1] = a
    OBVIOUS
  <1> QED
    BY <1>1, <1>2 DEF _recomputeAllBucket

LEMMA EdgeRemoveDiffers ==
    ASSUME NEW t, isTree(t), NEW e, NEW meta, NEW fwd, NEW rev,
           hasIds(t, e) /\ t.labels[e[3]] # NoId => computeShardKey[e[1]] \in fwd /\ computeShardKey[e[2]] \in rev
    PROVE  differsIn(t, _handleEdgeRemove(t, e), meta, fwd, rev)
  <1>1. PICK u : u = _handleEdgeRemove(t, e)
    OBVIOUS
  <1>2. CASE ~hasIds(t, e) \/ t.labels[e[3]] = NoId
    <2>1. u = t
      BY <1>1, <1>2 DEF _handleEdgeRemove
    <2> QED
      BY <1>1, <2>1 DEF differsIn
  <1>3. CASE hasIds(t, e) /\ t.labels[e[3]] # NoId
    <2>4. PICK s, q, x, y, l : /\ s = computeShardKey[e[1]] /\ q = computeShardKey[e[2]]
                               /\ x = t.id[e[1]] /\ y = t.id[e[2]] /\ l = t.labels[e[3]]
      OBVIOUS
    <2>5. PICK P, Q : /\ P = _recomputeAllBucket(t.fwd \ {<<s, l, x, y>>}, s, x, t)
                      /\ Q = _recomputeAllBucket(t.rev \ {<<q, l, y, x>>}, q, y, t)
      OBVIOUS
    <2>6. u = [t EXCEPT !.fwd = P, !.rev = Q]
      BY <1>1, <1>3, <2>4, <2>5 DEF _handleEdgeRemove
    <2>7. fields([t EXCEPT !.fwd = P, !.rev = Q], t.id, t.next, t.alive, t.labels, P, Q, t.props)
      BY RowsSet, Zenon
    <2>8. fields(u, t.id, t.next, t.alive, t.labels, P, Q, t.props)
      BY ONLY <2>6, <2>7, Zenon
    <2>10. s \in fwd /\ q \in rev
      BY <1>3, <2>4
    <2>11. \A r \in P \cup t.fwd : r[1] \notin fwd => (r \in P <=> r \in t.fwd)
      BY <2>5, <2>10, RecomputedElsewhere, Zenon
    <2>12. \A r \in Q \cup t.rev : r[1] \notin rev => (r \in Q <=> r \in t.rev)
      BY <2>5, <2>10, RecomputedElsewhere, Zenon
    <2>13. differsIn(t, u, meta, fwd, rev)
      BY <2>8, <2>11, <2>12, RowsDiffer
    <2> QED
      BY <1>1, <2>13
  <1> QED
    BY <1>2, <1>3

----------------------------------------------------------------------------
(* The steps.                                                              *)

\* A visit whose step on the tree is the step on the index keeps the invariant.
LEMMA VisitKeeps ==
    ASSUME ShardedInv, mode # "idle", NEW k, NEW x, NEW u, NEW meta, NEW fwd, NEW rev,
           visit(k, x, u, meta, fwd, rev), NEW B, stores(u, B), isPlan(todo'), todo'.props = todo.props,
           afterLoops(B, todo') = afterLoops(toLogicalIndex(work.tree), todo),
           differsIn(work.tree, u, meta, fwd, rev)
    PROVE  ShardedInv'
  <1>1. UNCHANGED <<graph, tree, built, mode, target>>
    BY DEF visit
  <1>2. visitedWith(u, meta, fwd, rev)
    BY Zenon DEF visit, visitedWith
  <1>3. WorkInv
    BY Zenon DEF ShardedInv, UpdateInv, BuildInv
  <1>4. isLoaded(work.loaded)
    BY <1>3 DEF WorkInv
  <1>5. work' = [tree |-> work'.tree, loaded |-> work'.loaded] /\ work'.tree = u /\ isLoaded(work'.loaded)
    BY <1>2, <1>4, WorkVisited
  <1>6. toLogicalIndex(u) = B
    BY DecodesTo
  <1>7. WorkInv'
    BY <1>5, <1>6 DEF WorkInv, holds
  <1>8. graph' \in Graph /\ target' \in Graph /\ mode' \in {"idle", "build", "update"} /\ holds(tree)'
    BY <1>1 DEF ShardedInv, holds
  <1>9. ASSUME mode = "update"
        PROVE  UpdateInv'
    <2>1. UpdateInv
      BY <1>9 DEF ShardedInv
    <2>2. untouched(tree, work.tree, work.loaded)'
      BY <1>1, <1>2, <1>4, <1>5, <2>1, VisitUntouched DEF UpdateInv
    <2>3. leadsTo(toLogicalIndex(tree), planOfUpdate(tree, graph, target))'
      BY <1>1, <1>5, <1>6, <2>1 DEF UpdateInv, leadsTo
    <2>4. built'
      BY <1>1, <2>1 DEF UpdateInv
    <2> QED
      BY <1>7, <2>2, <2>3, <2>4 DEF UpdateInv
  <1>10. ASSUME mode = "build"
         PROVE  BuildInv'
    <2>1. BuildInv
      BY <1>10 DEF ShardedInv
    <2>2. CASE leadsTo(idsOnly({}, {}), planOfBuild(target))
      <3>1. leadsTo(idsOnly({}, {}), planOfBuild(target))'
        BY <1>1, <1>5, <1>6, <2>2 DEF leadsTo
      <3> QED
        BY <1>7, <3>1 DEF BuildInv
    <2>3. CASE built /\ leadsTo(idsOnly(knownNodes(tree), knownLabels(tree)), planOfBuild(target))
      <3>1. leadsTo(idsOnly(knownNodes(tree), knownLabels(tree)), planOfBuild(target))'
        BY <1>1, <1>5, <1>6, <2>3 DEF leadsTo
      <3> QED
        BY <1>1, <1>7, <2>3, <3>1 DEF BuildInv
    <2> QED
      BY <2>1, <2>2, <2>3 DEF BuildInv
  <1> QED
    BY <1>1, <1>8, <1>9, <1>10 DEF ShardedInv

\* What the invariant says of the work.
LEMMA WorkStores ==
    ASSUME ShardedInv, mode # "idle"
    PROVE  /\ stores(work.tree, toLogicalIndex(work.tree)) /\ isIndex(toLogicalIndex(work.tree))
           /\ isPlan(todo) /\ isTree(work.tree)
           /\ "all" \notin toLogicalIndex(work.tree).labels
  <1>1. WorkInv
    BY Zenon DEF ShardedInv, UpdateInv, BuildInv
  <1>2. stores(work.tree, toLogicalIndex(work.tree))
    BY <1>1 DEF WorkInv, holds
  <1>3. toLogicalIndex(work.tree).labels \subseteq Label
    BY <1>2, StoredSaid DEF knownLabels
  <1> QED
    BY <1>1, <1>2, <1>3, StoredSaid, IndexGraphAssumption DEF WorkInv

\* The loops before the one reached have nothing left to visit.
LEMMA LoopsReached ==
    ASSUME NEW k, reached(k)
    PROVE  /\ mode # "idle"
           /\ k \in {2, 3, 4, 5, 6, 7} => todo.nodesAdded = {}
           /\ k \in {3, 4, 5, 6, 7} => todo.nodesRemoved = {}
           /\ k \in {4, 5, 6, 7} => todo.purge = {}
           /\ k \in {5, 6, 7} => todo.edgesAdded = {}
           /\ k \in {6, 7} => todo.edgesRemoved = {}
           /\ k = 7 => todo.restored = {}
  <1>0. mode # "idle" /\ \A i \in 1..(k - 1) : todo[loops[i]] = {}
    BY DEF reached
  <1>1. k \in {2, 3, 4, 5, 6, 7} => todo.nodesAdded = {}
    <2>1. k \in {2, 3, 4, 5, 6, 7} => 1 \in 1..(k - 1)
      OBVIOUS
    <2> QED
      BY <1>0, <2>1, LoopNames
  <1>2. k \in {3, 4, 5, 6, 7} => todo.nodesRemoved = {}
    <2>1. k \in {3, 4, 5, 6, 7} => 2 \in 1..(k - 1)
      OBVIOUS
    <2> QED
      BY <1>0, <2>1, LoopNames
  <1>3. k \in {4, 5, 6, 7} => todo.purge = {}
    <2>1. k \in {4, 5, 6, 7} => 3 \in 1..(k - 1)
      OBVIOUS
    <2> QED
      BY <1>0, <2>1, LoopNames
  <1>4. k \in {5, 6, 7} => todo.edgesAdded = {}
    <2>1. k \in {5, 6, 7} => 4 \in 1..(k - 1)
      OBVIOUS
    <2> QED
      BY <1>0, <2>1, LoopNames
  <1>5. k \in {6, 7} => todo.edgesRemoved = {}
    <2>1. k \in {6, 7} => 5 \in 1..(k - 1)
      OBVIOUS
    <2> QED
      BY <1>0, <2>1, LoopNames
  <1>6. k = 7 => todo.restored = {}
    <2>1. k = 7 => 6 \in 1..(k - 1)
      OBVIOUS
    <2> QED
      BY <1>0, <2>1, LoopNames
  <1> QED
    BY <1>0, <1>1, <1>2, <1>3, <1>4, <1>5, <1>6

\* Each visit keeps the invariant: of a node that is added,
LEMMA NodeAddedKeeps ==
    ASSUME ShardedInv, NEW n \in Node, addNode(n)
    PROVE  ShardedInv'
  <1>1. PICK t, A, a, o, p, e, r, s : /\ t = work.tree /\ A = toLogicalIndex(t) /\ a = todo.nodesAdded
                                      /\ o = todo.nodesRemoved /\ p = todo.purge /\ e = todo.edgesAdded
                                      /\ r = todo.edgesRemoved /\ s = todo.restored
    OBVIOUS
  <1>2. /\ n \in a /\ ~overflows(t, n) /\ mode # "idle"
        /\ visit(1, n, _handleNodeAdd(t, n), shardsOf({n}), {}, {})
    BY <1>1 DEF addNode
  <1>3. stores(t, A) /\ isIndex(A) /\ isPlan(todo)
    BY <1>1, <1>2, WorkStores
  <1>4. PICK x, u, B, b : x = n /\ u = _handleNodeAdd(t, n) /\ B = nodesIn(A, {n}) /\ b = a \ {n}
    OBVIOUS
  <1>5. stores(u, B)
    BY <1>2, <1>3, <1>4, NodeAddStores
  <1>6. planOf(todo', b, o, p, e, r, s, todo.props)
    BY <1>1, <1>2, <1>3, <1>4, TodoVisited
  <1>7. planOf(todo, a, o, p, e, r, s, todo.props)
    BY <1>1, <1>3, PlanFields
  <1>8. isPlan(todo') /\ todo'.props = todo.props
    BY <1>1, <1>3, <1>4, <1>6, PlanIs, PlanSaid DEF isPlan
  <1>9. afterLoops(B, todo') = afterLoops(A, todo)
    <2>1. afterLoops(B, todo') = loopsOver(B, b, o, p, e, r, s)
      BY <1>6, PlanSaid
    <2>2. afterLoops(A, todo) = loopsOver(A, a, o, p, e, r, s)
      BY <1>7, PlanSaid
    <2> QED
      BY <1>2, <1>3, <1>4, <2>1, <2>2, NextNodeIn
  <1>10. differsIn(t, u, shardsOf({n}), {}, {})
    BY <1>3, <1>4, NodeAddDiffers
  <1>11. PICK m : m = shardsOf({n})
    OBVIOUS
  <1> QED
    BY <1>1, <1>2, <1>4, <1>5, <1>8, <1>9, <1>10, <1>11, VisitKeeps

\* of one that is removed,
LEMMA NodeRemovedKeeps ==
    ASSUME ShardedInv, NEW n \in Node, removeNode(n)
    PROVE  ShardedInv'
  <1>1. PICK t, A, o, p, e, r, s : /\ t = work.tree /\ A = toLogicalIndex(t)
                                   /\ o = todo.nodesRemoved /\ p = todo.purge /\ e = todo.edgesAdded
                                   /\ r = todo.edgesRemoved /\ s = todo.restored
    OBVIOUS
  <1>2. /\ n \in o /\ mode # "idle" /\ todo.nodesAdded = {}
        /\ visit(2, n, _handleNodeRemove(t, n), shardsOf({n}), {}, {})
    BY <1>1, LoopsReached DEF removeNode
  <1>3. stores(t, A) /\ isIndex(A) /\ isPlan(todo)
    BY <1>1, <1>2, WorkStores
  <1>4. PICK u, B, b : u = _handleNodeRemove(t, n) /\ B = nodesOut(A, {n}) /\ b = o \ {n}
    OBVIOUS
  <1>5. stores(u, B)
    BY <1>3, <1>4, NodeRemoveStores
  <1>6. planOf(todo', {}, b, p, e, r, s, todo.props)
    BY <1>1, <1>2, <1>3, <1>4, TodoVisited
  <1>7. planOf(todo, {}, o, p, e, r, s, todo.props)
    BY <1>1, <1>2, <1>3, PlanFields
  <1>8. isPlan(todo') /\ todo'.props = todo.props
    BY <1>1, <1>3, <1>4, <1>6, PlanIs, PlanSaid DEF isPlan
  <1>9. afterLoops(B, todo') = afterLoops(A, todo)
    <2>1. afterLoops(B, todo') = loopsOver(B, {}, b, p, e, r, s)
      BY <1>6, PlanSaid
    <2>2. afterLoops(A, todo) = loopsOver(A, {}, o, p, e, r, s)
      BY <1>7, PlanSaid
    <2> QED
      BY <1>2, <1>3, <1>4, <2>1, <2>2, NextNodeOut
  <1>10. differsIn(t, u, shardsOf({n}), {}, {})
    BY <1>3, <1>4, NodeRemoveDiffers
  <1> QED
    BY <1>1, <1>2, <1>4, <1>5, <1>8, <1>9, <1>10, VisitKeeps

\* of one whose rows go,
LEMMA NodePurgedKeeps ==
    ASSUME ShardedInv, NEW n \in Node, purgeNode(n)
    PROVE  ShardedInv'
  <1>1. PICK t, A, p, e, r, s, u : /\ t = work.tree /\ A = toLogicalIndex(t) /\ p = todo.purge
                                   /\ e = todo.edgesAdded /\ r = todo.edgesRemoved /\ s = todo.restored
                                   /\ u = _purgeNodeEdges(t, n)
    OBVIOUS
  <1>2. n \in p /\ mode # "idle" /\ todo.nodesAdded = {} /\ todo.nodesRemoved = {}
    BY <1>1, LoopsReached DEF purgeNode
  <1>3. PICK M, F, R : /\ visit(3, n, u, M, F, R)
                       /\ {q[1] : q \in t.fwd \ u.fwd} \subseteq F /\ {q[1] : q \in t.rev \ u.rev} \subseteq R
    BY <1>1 DEF purgeNode
  <1>4. stores(t, A) /\ isIndex(A) /\ isPlan(todo) /\ isTree(t)
    BY <1>1, <1>2, WorkStores
  <1>5. PICK B, b : B = Nodes!_purgeNodeEdges(A, {n}) /\ b = p \ {n}
    OBVIOUS
  <1>6. stores(u, B)
    BY <1>1, <1>4, <1>5, PurgeStores
  <1>7. planOf(todo', {}, {}, b, e, r, s, todo.props)
    BY <1>1, <1>2, <1>3, <1>4, <1>5, TodoVisited
  <1>8. planOf(todo, {}, {}, p, e, r, s, todo.props)
    BY <1>1, <1>2, <1>4, PlanFields
  <1>9. isPlan(todo') /\ todo'.props = todo.props
    BY <1>1, <1>4, <1>5, <1>7, PlanIs, PlanSaid DEF isPlan
  <1>10. afterLoops(B, todo') = afterLoops(A, todo)
    <2>1. afterLoops(B, todo') = loopsOver(B, {}, {}, b, e, r, s)
      BY <1>7, PlanSaid
    <2>2. afterLoops(A, todo) = loopsOver(A, {}, {}, p, e, r, s)
      BY <1>8, PlanSaid
    <2> QED
      BY <1>2, <1>4, <1>5, <2>1, <2>2, NextPurge
  <1>11. differsIn(t, u, M, F, R)
    BY <1>1, <1>3, <1>4, PurgeDiffers
  <1> QED
    BY <1>1, <1>2, <1>3, <1>6, <1>9, <1>10, <1>11, VisitKeeps

\* What an edge of either loop does to the work.
LEMMA AddEdgeFacts ==
    ASSUME ShardedInv, NEW k, NEW x, addEdge(k, x), x \in Edges, NEW A, A = toLogicalIndex(work.tree)
    PROVE  \E u, B, M, F, R :
             /\ visit(k, x, u, M, F, R) /\ stores(u, B) /\ B = Nodes!_handleEdgeAdd(A, {x})
             /\ differsIn(work.tree, u, M, F, R)
  <1>1. PICK t, w, u : t = work.tree /\ w = _ensureLabel(t, x[3]) /\ u = _handleEdgeAdd(w, x)
    OBVIOUS
  <1>2. mode # "idle"
    BY LoopsReached DEF addEdge
  <1>3. stores(t, A) /\ isTree(t)
    BY <1>1, <1>2, WorkStores
  <1>4. PICK M, F, R : /\ M = shardsOf({x[1], x[2]})
                       /\ F = (IF hasIds(w, x) THEN shardsOf({x[1]}) ELSE {})
                       /\ R = (IF hasIds(w, x) THEN shardsOf({x[2]}) ELSE {})
    OBVIOUS
  <1>5. visit(k, x, u, M, F, R)
    BY <1>1, <1>4, Zenon DEF addEdge
  <1>6. PICK B : B = Nodes!_handleEdgeAdd(A, {x})
    OBVIOUS
  <1>7. stores(u, B)
    BY <1>1, <1>3, <1>6, EdgeAddStores
  <1>8. isTree(w)
    BY <1>1, <1>3, OthersKeepIds DEF keepsIds
  <1>9. hasIds(w, x) => computeShardKey[x[1]] \in F /\ computeShardKey[x[2]] \in R
    BY <1>4 DEF shardsOf
  <1>10. differsIn(t, u, M, F, R)
    BY <1>1, <1>3, <1>8, <1>9, EdgeAddDiffers
  <1>11. visit(k, x, u, M, F, R) /\ stores(u, B) /\ B = Nodes!_handleEdgeAdd(A, {x})
         /\ differsIn(work.tree, u, M, F, R)
    BY ONLY <1>1, <1>5, <1>6, <1>7, <1>10, Zenon
  <1> QED
    BY ONLY <1>11, Zenon

\* of an edge that is added,
LEMMA EdgeAddedKeeps ==
    ASSUME ShardedInv, NEW x, x \in todo.edgesAdded, addEdge(4, x)
    PROVE  ShardedInv'
  <1>1. PICK t, A, E, r, s : /\ t = work.tree /\ A = toLogicalIndex(t) /\ E = todo.edgesAdded
                             /\ r = todo.edgesRemoved /\ s = todo.restored
    OBVIOUS
  <1>2. mode # "idle" /\ todo.nodesAdded = {} /\ todo.nodesRemoved = {} /\ todo.purge = {}
    BY LoopsReached DEF addEdge
  <1>3. stores(t, A) /\ isIndex(A) /\ isPlan(todo)
    BY <1>1, <1>2, WorkStores
  <1>4. x \in Edges
    BY <1>3 DEF isPlan
  <1>5. PICK u, B, M, F, R : /\ visit(4, x, u, M, F, R) /\ stores(u, B) /\ B = Nodes!_handleEdgeAdd(A, {x})
                             /\ differsIn(t, u, M, F, R)
    BY <1>1, <1>4, AddEdgeFacts
  <1>6. PICK b : b = E \ {x}
    OBVIOUS
  <1>7. planOf(todo', {}, {}, {}, b, r, s, todo.props)
    BY <1>1, <1>2, <1>3, <1>5, <1>6, TodoVisited
  <1>8. planOf(todo, {}, {}, {}, E, r, s, todo.props)
    BY <1>1, <1>2, <1>3, PlanFields
  <1>9. isPlan(todo') /\ todo'.props = todo.props
    BY <1>1, <1>3, <1>6, <1>7, PlanIs, PlanSaid DEF isPlan
  <1>10. afterLoops(B, todo') = afterLoops(A, todo)
    <2>1. afterLoops(B, todo') = loopsOver(B, {}, {}, {}, b, r, s)
      BY <1>7, PlanSaid
    <2>2. afterLoops(A, todo) = loopsOver(A, {}, {}, {}, E, r, s)
      BY <1>8, PlanSaid
    <2> QED
      BY <1>1, <1>3, <1>5, <1>6, <2>1, <2>2, NextEdgeAdded
  <1> QED
    BY <1>1, <1>2, <1>5, <1>9, <1>10, VisitKeeps

\* of one that comes back,
LEMMA EdgeRestoredKeeps ==
    ASSUME ShardedInv, NEW x, x \in todo.restored, addEdge(6, x)
    PROVE  ShardedInv'
  <1>1. PICK t, A, s : t = work.tree /\ A = toLogicalIndex(t) /\ s = todo.restored
    OBVIOUS
  <1>2. /\ mode # "idle" /\ todo.nodesAdded = {} /\ todo.nodesRemoved = {} /\ todo.purge = {}
        /\ todo.edgesAdded = {} /\ todo.edgesRemoved = {}
    BY LoopsReached DEF addEdge
  <1>3. stores(t, A) /\ isIndex(A) /\ isPlan(todo)
    BY <1>1, <1>2, WorkStores
  <1>4. x \in Edges
    BY <1>3 DEF isPlan
  <1>5. PICK u, B, M, F, R : /\ visit(6, x, u, M, F, R) /\ stores(u, B) /\ B = Nodes!_handleEdgeAdd(A, {x})
                             /\ differsIn(t, u, M, F, R)
    BY <1>1, <1>4, AddEdgeFacts
  <1>6. PICK b : b = s \ {x}
    OBVIOUS
  <1>7. planOf(todo', {}, {}, {}, {}, {}, b, todo.props)
    BY <1>1, <1>2, <1>3, <1>5, <1>6, TodoVisited
  <1>8. planOf(todo, {}, {}, {}, {}, {}, s, todo.props)
    BY <1>1, <1>2, <1>3, PlanFields
  <1>9. isPlan(todo') /\ todo'.props = todo.props
    BY <1>1, <1>3, <1>6, <1>7, PlanIs, PlanSaid DEF isPlan
  <1>10. afterLoops(B, todo') = afterLoops(A, todo)
    <2>1. afterLoops(B, todo') = loopsOver(B, {}, {}, {}, {}, {}, b)
      BY <1>7, PlanSaid
    <2>2. afterLoops(A, todo) = loopsOver(A, {}, {}, {}, {}, {}, s)
      BY <1>8, PlanSaid
    <2> QED
      BY <1>1, <1>3, <1>5, <1>6, <2>1, <2>2, NextRestored
  <1> QED
    BY <1>1, <1>2, <1>5, <1>9, <1>10, VisitKeeps

\* and of one that is removed.
LEMMA EdgeRemovedKeeps ==
    ASSUME ShardedInv, NEW x, removeEdge(x)
    PROVE  ShardedInv'
  <1>1. PICK t, A, r, s, u : /\ t = work.tree /\ A = toLogicalIndex(t) /\ r = todo.edgesRemoved
                             /\ s = todo.restored /\ u = _handleEdgeRemove(t, x)
    OBVIOUS
  <1>2. /\ mode # "idle" /\ todo.nodesAdded = {} /\ todo.nodesRemoved = {} /\ todo.purge = {}
        /\ todo.edgesAdded = {} /\ x \in r
    BY <1>1, LoopsReached DEF removeEdge
  <1>3. stores(t, A) /\ isIndex(A) /\ isPlan(todo) /\ isTree(t) /\ "all" \notin A.labels
    BY <1>1, <1>2, WorkStores
  <1>4. x \in Edges
    BY <1>1, <1>2, <1>3 DEF isPlan
  <1>5. PICK B, b : B = Nodes!_handleEdgeRemove(A, {x}) /\ b = r \ {x}
    OBVIOUS
  <1>6. stores(u, B)
    BY <1>1, <1>3, <1>4, <1>5, EdgeRemoveStores
  <1>7. PICK named : named = (hasIds(t, x) /\ t.labels[x[3]] # NoId)
    OBVIOUS
  <1>8. PICK M, F, R : /\ M = shardsOf({x[1], x[2]})
                       /\ F = (IF named THEN shardsOf({x[1]}) ELSE {})
                       /\ R = (IF named THEN shardsOf({x[2]}) ELSE {})
    OBVIOUS
  <1>9. visit(5, x, u, M, F, R)
    BY <1>1, <1>7, <1>8, Zenon DEF removeEdge
  <1>10. hasIds(t, x) /\ t.labels[x[3]] # NoId => computeShardKey[x[1]] \in F /\ computeShardKey[x[2]] \in R
    BY <1>7, <1>8 DEF shardsOf
  <1>11. differsIn(t, u, M, F, R)
    BY <1>1, <1>3, <1>10, EdgeRemoveDiffers
  <1>12. planOf(todo', {}, {}, {}, {}, b, s, todo.props)
    BY <1>1, <1>2, <1>3, <1>5, <1>9, TodoVisited
  <1>13. planOf(todo, {}, {}, {}, {}, r, s, todo.props)
    BY <1>1, <1>2, <1>3, PlanFields
  <1>14. isPlan(todo') /\ todo'.props = todo.props
    BY <1>1, <1>3, <1>5, <1>12, PlanIs, PlanSaid DEF isPlan
  <1>15. afterLoops(B, todo') = afterLoops(A, todo)
    <2>1. afterLoops(B, todo') = loopsOver(B, {}, {}, {}, {}, b, s)
      BY <1>12, PlanSaid
    <2>2. afterLoops(A, todo) = loopsOver(A, {}, {}, {}, {}, r, s)
      BY <1>13, PlanSaid
    <2> QED
      BY <1>2, <1>3, <1>5, <2>1, <2>2, NextEdgeRemoved
  <1> QED
    BY <1>1, <1>2, <1>6, <1>9, <1>11, <1>14, <1>15, VisitKeeps

----------------------------------------------------------------------------
(* Where the work starts, and where it is given up.                        *)

LEMMA IdsOnlyParts ==
    ASSUME NEW K, NEW L
    PROVE  parts(idsOnly(K, L), K, {}, L, {}, {}, {})
  BY DEF parts, indexOf, idsOnly

LEMMA NoRowsStored ==
    ASSUME NEW u, NEW V, V = [s \in Shard |-> {}], u.alive = V, u.fwd = {}, u.rev = {}
    PROVE  storesAlive(u, {}) /\ storesRows(u, {}, u.fwd) /\ storesRows(u, {}, u.rev)
  <1>1. u.alive = [s \in Shard |-> u.alive[s]] /\ \A s \in Shard : u.alive[s] = {}
    OBVIOUS
  <1>2. storesAlive(u, {})
    BY <1>1 DEF storesAlive
  <1>3. storesRows(u, {}, u.fwd) /\ storesRows(u, {}, u.rev)
    BY DEF storesRows
  <1> QED
    BY <1>2, <1>3

\* A tree without bits and rows stores its ids and labels.
LEMMA IdsOnlyStored ==
    ASSUME NEW u, TreeInv(u), labelsOk(u), u.alive = [s \in Shard |-> {}],
           u.fwd = {}, u.rev = {}, u.props = {}
    PROVE  stores(u, idsOnly(knownNodes(u), knownLabels(u)))
  <1>1. PICK B, K, L : B = idsOnly(K, L) /\ K = knownNodes(u) /\ L = knownLabels(u)
    OBVIOUS
  <1>2. parts(B, K, {}, L, {}, {}, {})
    BY <1>1, IdsOnlyParts
  <1>3. storesAlive(u, {}) /\ storesRows(u, {}, u.fwd) /\ storesRows(u, {}, u.rev)
    BY NoRowsStored
  <1>4. stores(u, B)
    BY <1>1, <1>2, <1>3, StoredParts
  <1> QED
    BY <1>1, <1>4

\* The empty tree.
LEMMA EmptyStores == stores(emptyTree, idsOnly({}, {}))
  <1>1. PICK t : t = emptyTree
    OBVIOUS
  <1>2. /\ t.labels = [l \in Label |-> NoId] /\ t.alive = [s \in Shard |-> {}]
        /\ t.id = [n \in Node |-> NoId] /\ t.fwd = {} /\ t.rev = {} /\ t.props = {}
    BY <1>1 DEF emptyTree
  <1>3. labelsOk(t)
    BY <1>2 DEF labelsOk, NoId
  <1>4. knownNodes(t) = {} /\ knownLabels(t) = {}
    BY <1>2 DEF knownNodes, knownLabels
  <1>5. TreeInv(t)
    BY <1>1, EmptyTreeIds
  <1>6. stores(t, idsOnly(knownNodes(t), knownLabels(t)))
    BY <1>2, <1>3, <1>5, IdsOnlyStored
  <1> QED
    BY <1>1, <1>4, <1>6

\* The ids and labels of a tree.
idsOf(t) == [t EXCEPT !.alive = [s \in Shard |-> {}], !.fwd = {}, !.rev = {}, !.props = {}]

LEMMA SeedFields ==
    ASSUME NEW t, isTree(t)
    PROVE  fields(idsOf(t), t.id, t.next, [s \in Shard |-> {}], t.labels, {}, {}, {})
  <1>1. PICK V : V = [s \in Shard |-> {}]
    OBVIOUS
  <1>2. PICK a : a = [t EXCEPT !.alive = V]
    OBVIOUS
  <1>3. fields(a, t.id, t.next, V, t.labels, t.fwd, t.rev, t.props)
    BY <1>2 DEF isTree, fields
  <1>4. PICK b : b = [a EXCEPT !.fwd = {}]
    OBVIOUS
  <1>5. fields(b, t.id, t.next, V, t.labels, {}, t.rev, t.props)
    BY <1>3, <1>4 DEF fields
  <1>6. PICK c : c = [b EXCEPT !.rev = {}]
    OBVIOUS
  <1>7. fields(c, t.id, t.next, V, t.labels, {}, {}, t.props)
    BY <1>5, <1>6 DEF fields
  <1>8. PICK d : d = [c EXCEPT !.props = {}]
    OBVIOUS
  <1>9. fields(d, t.id, t.next, V, t.labels, {}, {}, {})
    BY <1>7, <1>8 DEF fields
  <1>10. d = idsOf(t)
    BY <1>1, <1>2, <1>4, <1>6, <1>8 DEF idsOf
  <1> QED
    BY <1>1, <1>9, <1>10, Zenon

\* A build over existingMeta and existingLabels starts from ids and labels only.
LEMMA SeedStores ==
    ASSUME NEW t, NEW A, stores(t, A)
    PROVE  stores(idsOf(t), idsOnly(knownNodes(t), knownLabels(t)))
  <1>1. TreeInv(t) /\ isTree(t) /\ labelsOk(t)
    BY StoredSaid
  <1>2. PICK u : u = idsOf(t)
    OBVIOUS
  <1>3. PICK V : V = [s \in Shard |-> {}]
    OBVIOUS
  <1>4. fields(u, t.id, t.next, V, t.labels, {}, {}, {})
    BY <1>1, <1>2, <1>3, SeedFields
  <1>5. u.id = t.id /\ u.next = t.next /\ u.alive = V /\ u.labels = t.labels /\ u.fwd = {} /\ u.rev = {} /\ u.props = {}
    BY <1>4, FieldsSaid
  <1>6. keepsIds(t, u)
    <2>1. isTree(u)
      BY <1>1, <1>4, <1>5 DEF isTree, fields
    <2> QED
      BY <1>5, <2>1 DEF keepsIds
  <1>7. TreeInv(u)
    BY <1>1, <1>6, SameIdsKeep
  <1>8. labelsOk(u)
    BY <1>1, <1>5 DEF labelsOk
  <1>9. knownNodes(u) = knownNodes(t) /\ knownLabels(u) = knownLabels(t)
    BY <1>5 DEF knownNodes, knownLabels
  <1>10. stores(u, idsOnly(knownNodes(u), knownLabels(u)))
    BY <1>3, <1>5, <1>7, <1>8, IdsOnlyStored
  <1> QED
    BY <1>2, <1>9, <1>10

\* What the loops of a build and of an update visit.
LEMMA BuildPlan ==
    ASSUME NEW g \in Graph
    PROVE  /\ planOf(planOfBuild(g), g.nodes, {}, {}, visible(g), {}, {}, builtProps(g))
           /\ isPlan(planOfBuild(g)) /\ g.nodes \subseteq Node /\ visible(g) \subseteq Edges
  <1>1. g.nodes \subseteq Node /\ g.edges \subseteq Edges
    BY IndexGraphAssumption DEF Edges
  <1>2. visible(g) \subseteq Edges
    BY <1>1 DEF visible, Nodes!visible
  <1>3. planOf(planOfBuild(g), g.nodes, {}, {}, visible(g), {}, {}, builtProps(g))
    BY DEF planOf, planOfBuild
  <1> QED
    BY <1>1, <1>2, <1>3, PlanIs

\* The entries of an update lie among the nodes and edges there are.
LEMMA UpdatePlan ==
    ASSUME NEW t, NEW g \in Graph, NEW h \in Graph, NEW a, NEW o, NEW d, NEW e, NEW r, NEW s, NEW P,
           a = h.nodes \ g.nodes, o = g.nodes \ h.nodes, d = h.edges \ g.edges,
           e = {x \in d : {x[1], x[2]} \subseteq h.nodes}, r = g.edges \ h.edges,
           s = {x \in visible(h) \ d : {x[1], x[2]} \cap {n \in a : t.id[n] # NoId} # {}},
           P = h.props \ g.props
    PROVE  planOf(planOfUpdate(t, g, h), a, o, o, e, r, s, P) /\ isPlan(planOfUpdate(t, g, h))
  <1>1. g.nodes \subseteq Node /\ g.edges \subseteq Edges /\ h.nodes \subseteq Node /\ h.edges \subseteq Edges
    BY IndexGraphAssumption DEF Edges
  <1>2. visible(h) \subseteq Edges
    BY <1>1 DEF visible, Nodes!visible
  <1>3. a \subseteq Node /\ o \subseteq Node /\ e \subseteq Edges /\ r \subseteq Edges /\ s \subseteq Edges
    BY <1>1, <1>2
  <1>4. planOf(planOfUpdate(t, g, h), a, o, o, e, r, s, P)
    BY DEF planOf, planOfUpdate, Nodes!diffOf
  <1> QED
    BY <1>3, <1>4, PlanIs

LEMMA NoShardsLoaded ==
    ASSUME NEW l, NEW M, l = [noShards EXCEPT !.meta = M] \/ l = noShards
    PROVE  isLoaded(l)
  BY DEF noShards, isLoaded

\* A tree that stores an index holds it.
LEMMA HoldsWhatIsStored ==
    ASSUME NEW t, NEW A, stores(t, A)
    PROVE  holds(t) /\ toLogicalIndex(t) = A
  BY DecodesTo DEF holds

\* Each action keeps the invariant.
LEMMA StartUpdateKeeps ==
    ASSUME ShardedInv, NEW g \in Graph, startUpdate(g)
    PROVE  ShardedInv'
  <1>1. /\ built /\ mode' = "update" /\ target' = g /\ graph' = graph /\ tree' = tree /\ built' = built
        /\ graph \in Graph /\ holds(tree)
    BY DEF startUpdate, ShardedInv
  <1>2. todo' = planOfUpdate(tree, graph, g)
    BY Zenon DEF startUpdate, planOfUpdate
  <1>3. PICK l : work' = [tree |-> tree, loaded |-> l] /\ isLoaded(l)
    <2>1. PICK M, l : M = shardsOf(g.nodes \ graph.nodes) /\ l = [noShards EXCEPT !.meta = M]
      OBVIOUS
    <2>2. work' = [tree |-> tree, loaded |-> l]
      BY <2>1 DEF startUpdate
    <2> QED
      BY <2>1, <2>2, NoShardsLoaded
  <1>4. /\ work' = [tree |-> work'.tree, loaded |-> work'.loaded]
        /\ work'.tree = tree /\ work'.loaded = l
    BY <1>3
  <1>5. isPlan(planOfUpdate(tree, graph, g))
    BY <1>1, UpdatePlan
  <1>6. WorkInv'
    BY <1>1, <1>2, <1>3, <1>4, <1>5 DEF WorkInv, holds
  <1>7. untouched(tree, tree, l)
    BY DEF untouched
  <1>8. leadsTo(toLogicalIndex(tree), planOfUpdate(tree, graph, target))'
    BY <1>1, <1>2, <1>4 DEF leadsTo
  <1>9. UpdateInv'
    BY <1>1, <1>4, <1>6, <1>7, <1>8 DEF UpdateInv
  <1> QED
    BY <1>1, <1>9 DEF ShardedInv, holds

LEMMA StartBuildKeeps ==
    ASSUME ShardedInv, NEW g \in Graph, NEW seeded \in BOOLEAN, startBuild(g, seeded)
    PROVE  ShardedInv'
  <1>1. /\ seeded => built
        /\ mode' = "build" /\ target' = g /\ graph' = graph /\ tree' = tree /\ built' = built
        /\ graph \in Graph /\ holds(tree)
    BY DEF startBuild, ShardedInv
  <1>2. todo' = planOfBuild(g)
    <2>1. todo' = [nothing EXCEPT !.nodesAdded = g.nodes, !.edgesAdded = visible(g), !.props = builtProps(g)]
      BY DEF startBuild
    <2> QED
      BY <2>1 DEF nothing, planOfBuild
  <1>3. PICK u : u = (IF seeded THEN idsOf(tree) ELSE emptyTree)
    OBVIOUS
  <1>4. work' = [tree |-> u, loaded |-> noShards]
    BY <1>3, Zenon DEF startBuild, idsOf
  <1>5. /\ work' = [tree |-> work'.tree, loaded |-> work'.loaded]
        /\ work'.tree = u /\ work'.loaded = noShards
    BY <1>4
  <1>6. isLoaded(noShards)
    BY NoShardsLoaded
  <1>7. isPlan(planOfBuild(g))
    BY BuildPlan
  <1>8. CASE seeded
    <2>1. stores(tree, toLogicalIndex(tree)) /\ u = idsOf(tree)
      BY <1>1, <1>3, <1>8 DEF holds
    <2>2. stores(u, idsOnly(knownNodes(tree), knownLabels(tree)))
      BY <2>1, SeedStores
    <2>3. holds(u) /\ toLogicalIndex(u) = idsOnly(knownNodes(tree), knownLabels(tree))
      BY <2>2, HoldsWhatIsStored
    <2>4. WorkInv'
      BY <1>2, <1>5, <1>6, <1>7, <2>3 DEF WorkInv
    <2>5. leadsTo(idsOnly(knownNodes(tree), knownLabels(tree)), planOfBuild(target))'
      BY <1>1, <1>2, <1>5, <2>3 DEF leadsTo
    <2>6. BuildInv'
      BY <1>1, <1>8, <2>4, <2>5 DEF BuildInv
    <2> QED
      BY <1>1, <2>6 DEF ShardedInv, holds
  <1>9. CASE ~seeded
    <2>1. u = emptyTree
      BY <1>3, <1>9
    <2>2. holds(u) /\ toLogicalIndex(u) = idsOnly({}, {})
      BY <2>1, EmptyStores, HoldsWhatIsStored
    <2>3. WorkInv'
      BY <1>2, <1>5, <1>6, <1>7, <2>2 DEF WorkInv
    <2>4. leadsTo(idsOnly({}, {}), planOfBuild(target))'
      BY <1>1, <1>2, <1>5, <2>2 DEF leadsTo
    <2>5. BuildInv'
      BY <2>3, <2>4 DEF BuildInv
    <2> QED
      BY <1>1, <2>5 DEF ShardedInv, holds
  <1> QED
    BY <1>8, <1>9

LEMMA DroppedKeeps ==
    ASSUME ShardedInv, tree' = emptyTree, mode' = "idle", graph' = graph, target' = target
    PROVE  ShardedInv'
  <1>1. holds(emptyTree)
    BY EmptyStores, HoldsWhatIsStored
  <1> QED
    BY <1>1 DEF ShardedInv, holds

----------------------------------------------------------------------------
(* The work done is a step of IndexService.                                *)

\* The properties are written last.
withProps(B, P) == [B EXCEPT !.props = P]

LEMMA PropsParts ==
    ASSUME NEW B, isIndex(B), NEW P
    PROVE  parts(withProps(B, P), B.known, B.alive, B.labels, B.fwd, B.rev, P)
  BY DEF isIndex, parts, indexOf, withProps

\* Writing the properties changes nothing else.
LEMMA PropsStores ==
    ASSUME NEW t, NEW B, stores(t, B), NEW P
    PROVE  stores(withProps(t, P), withProps(B, P))
  <1>1. /\ TreeInv(t) /\ isTree(t) /\ labelsOk(t) /\ isIndex(B) /\ storesAlive(t, B.alive)
        /\ storesRows(t, B.fwd, t.fwd) /\ storesRows(t, B.rev, t.rev)
        /\ B.known = knownNodes(t) /\ B.labels = knownLabels(t)
    BY StoredSaid
  <1>2. PICK u, C : u = withProps(t, P) /\ C = withProps(B, P)
    OBVIOUS
  <1>3. fields(u, t.id, t.next, t.alive, t.labels, t.fwd, t.rev, P)
    BY <1>1, <1>2, OneSet, Zenon DEF withProps
  <1>4. /\ u.id = t.id /\ u.next = t.next /\ u.alive = t.alive /\ u.labels = t.labels
        /\ u.fwd = t.fwd /\ u.rev = t.rev /\ u.props = P
    BY <1>3, FieldsSaid
  <1>5. keepsIds(t, u)
    <2>1. isTree(u)
      BY <1>1, <1>3, <1>4 DEF isTree, fields
    <2> QED
      BY <1>4, <2>1 DEF keepsIds
  <1>6. TreeInv(u) /\ labelsOk(u)
    BY <1>1, <1>4, <1>5, SameIdsKeep DEF labelsOk
  <1>7. knownNodes(u) = knownNodes(t) /\ knownLabels(u) = knownLabels(t)
    BY <1>4 DEF knownNodes, knownLabels
  <1>8. keepsNames(t, u)
    BY <1>4 DEF keepsNames
  <1>9. storesAlive(u, B.alive) /\ storesRows(u, B.fwd, u.fwd) /\ storesRows(u, B.rev, u.rev)
    BY <1>1, <1>4, <1>8, AliveStays, RowsStay
  <1>10. parts(C, knownNodes(u), B.alive, knownLabels(u), B.fwd, B.rev, u.props)
    BY <1>1, <1>2, <1>4, <1>7, PropsParts
  <1>11. stores(u, C)
    BY <1>6, <1>9, <1>10, StoredParts
  <1> QED
    BY <1>2, <1>11

\* Rows of shards that were not loaded are the old ones.
LEMMA RowsMerged ==
    ASSUME NEW Q, NEW O, NEW S, \A r \in Q \cup O : r[1] \notin S => (r \in Q <=> r \in O)
    PROVE  {r \in Q : r[1] \in S} \cup {r \in O : r[1] \notin S} = Q
  OBVIOUS

\* mergeShards: what was not loaded was not changed.
LEMMA MergeIsWork ==
    ASSUME NEW old, NEW t, NEW A, stores(t, A), NEW l, untouched(old, t, l)
    PROVE  mergeShards(old, t, l) = t
  <1>1. isTree(t) /\ storesAlive(t, A.alive)
    BY StoredSaid
  <1>2. t.id = [n \in Node |-> t.id[n]] /\ t.next = [s \in Shard |-> t.next[s]]
    BY <1>1 DEF isTree
  <1>3. t.alive = [s \in Shard |-> t.alive[s]]
    BY <1>1 DEF storesAlive
  <1>4. [n \in Node |-> IF computeShardKey[n] \in l.meta THEN t.id[n] ELSE old.id[n]] = t.id
    <2>1. \A n \in Node : (IF computeShardKey[n] \in l.meta THEN t.id[n] ELSE old.id[n]) = t.id[n]
      BY DEF untouched
    <2> QED
      BY <1>2, <2>1
  <1>5. [s \in Shard |-> IF s \in l.meta THEN t.next[s] ELSE old.next[s]] = t.next
    <2>1. \A s \in Shard : (IF s \in l.meta THEN t.next[s] ELSE old.next[s]) = t.next[s]
      BY DEF untouched
    <2> QED
      BY <1>2, <2>1
  <1>6. [s \in Shard |-> IF s \in l.meta THEN t.alive[s] ELSE old.alive[s]] = t.alive
    <2>1. \A s \in Shard : (IF s \in l.meta THEN t.alive[s] ELSE old.alive[s]) = t.alive[s]
      BY DEF untouched
    <2> QED
      BY <1>3, <2>1
  <1>7. (IF l.labels THEN t.labels ELSE old.labels) = t.labels
    BY Zenon DEF untouched
  <1>8. {r \in t.fwd : r[1] \in l.fwd} \cup {r \in old.fwd : r[1] \notin l.fwd} = t.fwd
    BY RowsMerged DEF untouched
  <1>9. {r \in t.rev : r[1] \in l.rev} \cup {r \in old.rev : r[1] \notin l.rev} = t.rev
    BY RowsMerged DEF untouched
  <1>10. old.props = t.props
    BY DEF untouched
  <1>11. mergeShards(old, t, l) = [id |-> t.id, next |-> t.next, alive |-> t.alive, labels |-> t.labels,
                                   fwd |-> t.fwd, rev |-> t.rev, props |-> t.props]
    BY ONLY <1>4, <1>5, <1>6, <1>7, <1>8, <1>9, <1>10, Zenon DEF mergeShards
  <1>12. t = [id |-> t.id, next |-> t.next, alive |-> t.alive, labels |-> t.labels,
              fwd |-> t.fwd, rev |-> t.rev, props |-> t.props]
    BY <1>1 DEF isTree
  <1> QED
    BY ONLY <1>11, <1>12, Zenon

\* The loops over an index of ids and labels are a build.
LEMMA BuildLoops ==
    ASSUME NEW g \in Graph, NEW K, NEW L
    PROVE  withProps(loopsOver(idsOnly(K, L), g.nodes, {}, {}, visible(g), {}, {}), builtProps(g))
             = Decoded!fullBuild(g, K, L)
  <1>1. PICK A, N, E, P : /\ A = idsOnly(K, L) /\ N = g.nodes /\ E = visible(g) /\ P = builtProps(g)
    OBVIOUS
  <1>2. PICK B, C, W : B = nodesIn(A, N) /\ C = Nodes!_handleEdgeAdd(B, E) /\ W = withProps(C, P)
    OBVIOUS
  <1>3. isIndex(A) /\ A.known = K /\ A.alive = {} /\ A.labels = L /\ A.fwd = {} /\ A.rev = {} /\ A.props = {}
    BY <1>1, IdsOnlyParts, PartsSaid
  <1>4. isIndex(B) /\ B.known = K \cup N /\ B.alive = N /\ B.labels = L /\ B.fwd = {} /\ B.rev = {} /\ B.props = {}
    <2>1. parts(B, A.known \cup N, A.alive \cup N, A.labels, A.fwd, A.rev, A.props)
      BY <1>2, <1>3, NodesInParts
    <2> QED
      BY <1>3, <2>1, PartsSaid
  <1>5. edgesIn(K \cup N, E) = E
    BY <1>1 DEF edgesIn, visible, Nodes!visible
  <1>6. /\ isIndex(C) /\ C.known = K \cup N /\ C.alive = N /\ C.labels = L \cup labelsOf(E)
        /\ C.fwd = outRows(E) /\ C.rev = inRows(E)
    <2>1. parts(C, B.known, B.alive, B.labels \cup labelsOf(E), B.fwd \cup outRows(edgesIn(B.known, E)),
                B.rev \cup inRows(edgesIn(B.known, E)), B.props)
      BY <1>2, <1>4, EdgeAddParts
    <2> QED
      BY <1>4, <1>5, <2>1, PartsSaid
  <1>7. loopsOver(A, N, {}, {}, E, {}, {}) = C
    BY <1>2, <1>4, <1>6, LoopsIdle, Zenon DEF loopsOver
  <1>8. parts(W, K \cup N, N, L \cup labelsOf(E), outRows(E), inRows(E), P)
    BY <1>2, <1>6, PropsParts
  <1>9. Decoded!fullBuild(g, K, L) = indexOf(K \cup N, N, L \cup labelsOf(E), outRows(E), inRows(E), P)
    BY <1>1, Zenon DEF Decoded!fullBuild, Decoded!visible, Decoded!rows, visible, Nodes!visible, Nodes!rows,
                       indexOf, labelsOf, outRows, inRows, builtProps
  <1> QED
    BY <1>1, <1>2, <1>7, <1>8, <1>9 DEF parts

\* The loops of the abstract index are those of the sharded one.
LEMMA SameLoops ==
    ASSUME NEW A, NEW S
    PROVE  /\ Decoded!_purgeNodeEdges(A, S) = Nodes!_purgeNodeEdges(A, S)
           /\ Decoded!_handleEdgeAdd(A, S) = Nodes!_handleEdgeAdd(A, S)
           /\ Decoded!_handleEdgeRemove(A, S) = Nodes!_handleEdgeRemove(A, S)
  <1>1. Decoded!_purgeNodeEdges(A, S) = Nodes!_purgeNodeEdges(A, S)
    BY Zenon DEF Decoded!_purgeNodeEdges, Nodes!_purgeNodeEdges
  <1>2. Decoded!_handleEdgeAdd(A, S) = Nodes!_handleEdgeAdd(A, S)
    BY Zenon DEF Decoded!_handleEdgeAdd, Nodes!_handleEdgeAdd, Decoded!rows, Nodes!rows
  <1>3. Decoded!_handleEdgeRemove(A, S) = Nodes!_handleEdgeRemove(A, S)
    BY Zenon DEF Decoded!_handleEdgeRemove, Nodes!_handleEdgeRemove, Decoded!_recomputeAllBucket,
                 Nodes!_recomputeAllBucket
  <1> QED
    BY <1>1, <1>2, <1>3, Zenon

\* A node that the index never knew has no rows to purge.
LEMMA PurgeKnown ==
    ASSUME NEW A, isIndex(A), NEW K, NEW S, \A r \in A.fwd \cup A.rev : r[1] \in K /\ r[3] \in K
    PROVE  Nodes!_purgeNodeEdges(A, S \cap K) = Nodes!_purgeNodeEdges(A, S)
  <1>1. PICK D : D = S \cap K
    OBVIOUS
  <1>2. kept(A.fwd, A.rev, D) = kept(A.fwd, A.rev, S) /\ kept(A.rev, A.fwd, D) = kept(A.rev, A.fwd, S)
    BY <1>1 DEF kept
  <1>3. PICK B, C : B = Nodes!_purgeNodeEdges(A, D) /\ C = Nodes!_purgeNodeEdges(A, S)
    OBVIOUS
  <1>4. parts(B, A.known, A.alive, A.labels, kept(A.fwd, A.rev, D), kept(A.rev, A.fwd, D), A.props)
    BY <1>3, PurgeParts
  <1>5. parts(C, A.known, A.alive, A.labels, kept(A.fwd, A.rev, S), kept(A.rev, A.fwd, S), A.props)
    BY <1>3, PurgeParts
  <1>6. B = C
    BY <1>2, <1>4, <1>5, SameParts
  <1> QED
    BY <1>1, <1>3, <1>6

\* No loop touches the properties.
LEMMA LoopsLeaveProps ==
    ASSUME NEW A, isIndex(A), NEW S
    PROVE  /\ nodesIn(A, S).props = A.props /\ nodesOut(A, S).props = A.props
           /\ Nodes!_purgeNodeEdges(A, S).props = A.props
           /\ Nodes!_handleEdgeAdd(A, S).props = A.props /\ Nodes!_handleEdgeRemove(A, S).props = A.props
  <1>1. \A B, K, V, L, F, R, P : parts(B, K, V, L, F, R, P) => B.props = P
    BY PartsSaid
  <1>2. nodesIn(A, S).props = A.props /\ nodesOut(A, S).props = A.props
    BY <1>1, NodesInParts, NodesOutParts, Zenon
  <1>3. Nodes!_purgeNodeEdges(A, S).props = A.props /\ Nodes!_handleEdgeAdd(A, S).props = A.props
    BY <1>1, PurgeParts, EdgeAddParts, Zenon
  <1>4. Nodes!_handleEdgeRemove(A, S).props = A.props
    BY <1>1, EdgeRemoveParts, Zenon
  <1> QED
    BY <1>2, <1>3, <1>4

\* _handleNodes adds and takes away at once.
LEMMA HandleNodesLoops ==
    ASSUME NEW A, isIndex(A), NEW d
    PROVE  Decoded!_handleNodes(A, d) = nodesOut(nodesIn(A, d.nodesAdded), d.nodesRemoved)
  <1>1. PICK a, o, K, V : /\ a = d.nodesAdded /\ o = d.nodesRemoved
                          /\ K = A.known \cup a /\ V = (A.alive \cup a) \ o
    OBVIOUS
  <1>2. PICK B, C : B = nodesIn(A, a) /\ C = nodesOut(B, o)
    OBVIOUS
  <1>3. parts(B, K, A.alive \cup a, A.labels, A.fwd, A.rev, A.props)
    BY <1>1, <1>2, NodesInParts
  <1>4. /\ isIndex(B) /\ B.known = K /\ B.alive = A.alive \cup a /\ B.labels = A.labels
        /\ B.fwd = A.fwd /\ B.rev = A.rev /\ B.props = A.props
    BY <1>3, PartsSaid
  <1>5. parts(C, B.known, B.alive \ o, B.labels, B.fwd, B.rev, B.props)
    BY <1>2, <1>4, NodesOutParts
  <1>6. C = indexOf(K, V, A.labels, A.fwd, A.rev, A.props)
    BY <1>1, <1>4, <1>5 DEF parts
  <1>7. Decoded!_handleNodes(A, d) = [A EXCEPT !.known = K, !.alive = V]
    BY <1>1 DEF Decoded!_handleNodes
  <1>8. Decoded!_handleNodes(A, d) = indexOf(K, V, A.labels, A.fwd, A.rev, A.props)
    BY <1>7, NodeFields, Zenon
  <1> QED
    BY ONLY <1>1, <1>2, <1>6, <1>8, Zenon

\* What the diff of two graphs holds.
LEMMA DiffSaid ==
    ASSUME NEW g, NEW h, NEW d, d = Decoded!diffOf(g, h)
    PROVE  /\ d.nodesAdded = h.nodes \ g.nodes /\ d.nodesRemoved = g.nodes \ h.nodes
           /\ d.edgesAdded = h.edges \ g.edges /\ d.edgesRemoved = g.edges \ h.edges
           /\ d.propsChanged = h.props \ g.props
  BY DEF Decoded!diffOf

\* The edges that come back are those of the nodes that had an id.
LEMMA Collected ==
    ASSUME NEW A, NEW d, NEW h, NEW t, A.known = knownNodes(t), d.nodesAdded \subseteq Node
    PROVE  Decoded!_collectReaddedEdgeKeys(A, d, h.nodes, h.edges)
             = {x \in visible(h) \ d.edgesAdded :
                  {x[1], x[2]} \cap {n \in d.nodesAdded : t.id[n] # NoId} # {}}
  <1>1. d.nodesAdded \cap A.known = {n \in d.nodesAdded : t.id[n] # NoId}
    BY DEF knownNodes
  <1>2. PICK a, k : a = d.nodesAdded \cap A.known /\ k = {n \in d.nodesAdded : t.id[n] # NoId} /\ a = k
    BY <1>1
  <1>3. \A x : {x[1], x[2]} \cap d.nodesAdded \cap A.known = {x[1], x[2]} \cap a
    BY <1>2
  <1>4. Decoded!_collectReaddedEdgeKeys(A, d, h.nodes, h.edges)
          = {x \in h.edges \ d.edgesAdded : {x[1], x[2]} \subseteq h.nodes /\ {x[1], x[2]} \cap a # {}}
    BY <1>3, Zenon DEF Decoded!_collectReaddedEdgeKeys
  <1>5. {x \in visible(h) \ d.edgesAdded : {x[1], x[2]} \cap k # {}}
          = {x \in h.edges \ d.edgesAdded : {x[1], x[2]} \subseteq h.nodes /\ {x[1], x[2]} \cap k # {}}
    <2>1. \A x : x \in visible(h) <=> x \in h.edges /\ {x[1], x[2]} \subseteq h.nodes
      BY Zenon DEF visible, Nodes!visible
    <2> QED
      BY <2>1
  <1> QED
    BY <1>2, <1>4, <1>5

\* The loops of an update are computeDirtyShards.
LEMMA UpdateLoops ==
    ASSUME NEW t, NEW A, stores(t, A), NEW g \in Graph, NEW h \in Graph, NEW B,
           B = afterLoops(A, planOfUpdate(t, g, h))
    PROVE  withProps(B, _handleProps(A.props, h.props \ g.props))
             = Decoded!computeDirtyShards(A, Decoded!diffOf(g, h), h.nodes, h.edges)
  <1>1. PICK d, a, o, x, e, r, s, P :
          /\ d = Decoded!diffOf(g, h) /\ a = h.nodes \ g.nodes /\ o = g.nodes \ h.nodes /\ x = h.edges \ g.edges
          /\ e = {y \in x : {y[1], y[2]} \subseteq h.nodes} /\ r = g.edges \ h.edges
          /\ s = {y \in visible(h) \ x : {y[1], y[2]} \cap {n \in a : t.id[n] # NoId} # {}}
          /\ P = h.props \ g.props
    OBVIOUS
  <1>2. /\ d.nodesAdded = a /\ d.nodesRemoved = o /\ d.edgesAdded = x /\ d.edgesRemoved = r
        /\ d.propsChanged = P
    BY <1>1, DiffSaid
  <1>3. planOf(planOfUpdate(t, g, h), a, o, o, e, r, s, P)
    BY <1>1, UpdatePlan
  <1>4. isIndex(A) /\ A.known = knownNodes(t) /\ A.fwd \subseteq knownRows(t) /\ A.rev \subseteq knownRows(t)
    BY StoredSaid DEF storesRows
  <1>5. PICK X, Y, Z, V, W : /\ X = nodesOut(nodesIn(A, a), o) /\ Y = Nodes!_purgeNodeEdges(X, o)
                             /\ Z = Nodes!_handleEdgeAdd(Y, e) /\ V = Nodes!_handleEdgeRemove(Z, r)
                             /\ W = Nodes!_handleEdgeAdd(V, s)
    OBVIOUS
  <1>6. B = W
    BY <1>3, <1>5, PlanSaid, Zenon DEF loopsOver
  <1>7. Decoded!_handleNodes(A, d) = X
    BY <1>2, <1>4, <1>5, HandleNodesLoops
  <1>8. isIndex(X) /\ X.props = A.props /\ \A q \in X.fwd \cup X.rev : q[1] \in X.known /\ q[3] \in X.known
    <2>1. PICK N : N = nodesIn(A, a)
      OBVIOUS
    <2>2. parts(N, A.known \cup a, A.alive \cup a, A.labels, A.fwd, A.rev, A.props)
      BY <1>4, <2>1, NodesInParts
    <2>3. /\ isIndex(N) /\ N.known = A.known \cup a /\ N.fwd = A.fwd /\ N.rev = A.rev /\ N.props = A.props
      BY <2>2, PartsSaid
    <2>4. parts(X, N.known, N.alive \ o, N.labels, N.fwd, N.rev, N.props)
      BY <1>5, <2>1, <2>3, NodesOutParts
    <2>5. isIndex(X) /\ X.known = A.known \cup a /\ X.fwd = A.fwd /\ X.rev = A.rev /\ X.props = A.props
      BY <2>3, <2>4, PartsSaid
    <2> QED
      BY <1>4, <2>5, RowIs
  <1>9. Decoded!_purgeNodeEdges(X, o \cap X.known) = Y
    <2>1. Nodes!_purgeNodeEdges(X, o \cap X.known) = Nodes!_purgeNodeEdges(X, o)
      BY <1>8, PurgeKnown
    <2> QED
      BY <1>5, <2>1, SameLoops, Zenon
  <1>10. Decoded!_handleEdgeAdd(Y, e) = Z /\ Decoded!_handleEdgeRemove(Z, r) = V /\ Decoded!_handleEdgeAdd(V, s) = W
    BY <1>5, SameLoops, Zenon
  <1>11. Decoded!_collectReaddedEdgeKeys(A, d, h.nodes, h.edges) = s
    <2>1. a \subseteq Node
      BY <1>1, IndexGraphAssumption
    <2> QED
      BY <1>1, <1>2, <1>4, <2>1, Collected
  <1>12. W.props = A.props
    <2>1. isIndex(Y) /\ Y.props = X.props
      BY <1>5, <1>8, LoopsAreIndexes, LoopsLeaveProps
    <2>2. isIndex(Z) /\ Z.props = Y.props
      BY <1>5, <2>1, LoopsAreIndexes, LoopsLeaveProps
    <2>3. isIndex(V) /\ V.props = Z.props
      BY <1>5, <2>2, LoopsAreIndexes, LoopsLeaveProps
    <2>4. W.props = V.props
      BY <1>5, <2>3, LoopsLeaveProps
    <2> QED
      BY <1>8, <2>1, <2>2, <2>3, <2>4
  <1>13. Decoded!_handleProps(W, P) = withProps(W, _handleProps(A.props, P))
    <2>1. Decoded!_handleProps(W, P) = withProps(W, _handleProps(W.props, P))
      BY DEF Decoded!_handleProps, withProps, _handleProps
    <2> QED
      BY <1>12, <2>1
  <1>14. Decoded!computeDirtyShards(A, d, h.nodes, h.edges) = Decoded!_handleProps(W, P)
    <2>1. {y \in d.edgesAdded : {y[1], y[2]} \subseteq h.nodes} = e
      BY <1>1, <1>2
    <2> QED
      BY <1>2, <1>7, <1>9, <1>10, <1>11, <2>1, Zenon DEF Decoded!computeDirtyShards
  <1> QED
    BY <1>1, <1>6, <1>13, <1>14

\* A build that finishes writes a full build, an update what the diff leads to.
LEMMA BuildFinished ==
    ASSUME ShardedInv, finish, mode = "build"
    PROVE  \/ stores(tree', Decoded!fullBuild(target, {}, {}))
           \/ built /\ stores(tree', Decoded!fullBuild(target, toLogicalIndex(tree).known, toLogicalIndex(tree).labels))
  <1>1. PICK t, B, g : t = work.tree /\ B = toLogicalIndex(t) /\ g = target
    OBVIOUS
  <1>2. mode # "idle" /\ stores(t, B) /\ isIndex(B) /\ isPlan(todo) /\ g \in Graph
    BY <1>1, WorkStores DEF ShardedInv
  <1>3. afterLoops(B, todo) = B
    <2>1. planOf(todo, {}, {}, {}, {}, {}, {}, todo.props)
      <3>1. reached(7)
        BY DEF finish
      <3> QED
        BY <1>2, <3>1, LoopsReached, PlanFields
    <2> QED
      BY <1>2, <2>1, PlanSaid, LoopsDone
  <1>4. tree' = withProps(t, todo.props)
    BY <1>1 DEF finish, withProps
  <1>5. stores(tree', withProps(B, todo.props))
    BY <1>2, <1>4, PropsStores
  <1>6. planOf(planOfBuild(g), g.nodes, {}, {}, visible(g), {}, {}, builtProps(g))
    BY <1>2, BuildPlan
  <1>7. ASSUME NEW K, NEW L, leadsTo(idsOnly(K, L), planOfBuild(g))
        PROVE  stores(tree', Decoded!fullBuild(g, K, L))
    <2>1. todo.props = builtProps(g) /\ B = afterLoops(idsOnly(K, L), planOfBuild(g))
      BY <1>1, <1>3, <1>6, <1>7, PlanSaid DEF leadsTo
    <2>2. B = loopsOver(idsOnly(K, L), g.nodes, {}, {}, visible(g), {}, {})
      BY <1>6, <2>1, PlanSaid
    <2>3. withProps(B, todo.props) = Decoded!fullBuild(g, K, L)
      BY <1>2, <2>1, <2>2, BuildLoops
    <2> QED
      BY <1>5, <2>3
  <1>8. CASE leadsTo(idsOnly({}, {}), planOfBuild(target))
    BY <1>1, <1>7, <1>8
  <1>9. CASE built /\ leadsTo(idsOnly(knownNodes(tree), knownLabels(tree)), planOfBuild(target))
    <2>1. toLogicalIndex(tree).known = knownNodes(tree) /\ toLogicalIndex(tree).labels = knownLabels(tree)
      <3>1. stores(tree, toLogicalIndex(tree))
        BY DEF ShardedInv, holds
      <3> QED
        BY <3>1, StoredSaid
    <2> QED
      BY <1>1, <1>7, <1>9, <2>1
  <1> QED
    BY <1>8, <1>9 DEF ShardedInv, BuildInv

LEMMA UpdateFinished ==
    ASSUME ShardedInv, finish, mode = "update"
    PROVE  /\ built
           /\ stores(tree', Decoded!computeDirtyShards(toLogicalIndex(tree), Decoded!diffOf(graph, target),
                                                       target.nodes, target.edges))
  <1>1. PICK t, A, B, g, P : /\ t = work.tree /\ A = toLogicalIndex(tree) /\ B = toLogicalIndex(t) /\ g = target
                             /\ P = g.props \ graph.props
    OBVIOUS
  <1>2. mode # "idle" /\ stores(t, B) /\ isIndex(B) /\ isPlan(todo) /\ g \in Graph /\ graph \in Graph
    BY <1>1, WorkStores DEF ShardedInv
  <1>3. built /\ untouched(tree, t, work.loaded) /\ leadsTo(A, planOfUpdate(tree, graph, g)) /\ stores(tree, A)
    BY <1>1 DEF ShardedInv, UpdateInv, holds
  <1>4. afterLoops(B, todo) = B
    <2>1. planOf(todo, {}, {}, {}, {}, {}, {}, todo.props)
      <3>1. reached(7)
        BY DEF finish
      <3> QED
        BY <1>2, <3>1, LoopsReached, PlanFields
    <2> QED
      BY <1>2, <2>1, PlanSaid, LoopsDone
  <1>5. todo.props = P /\ B = afterLoops(A, planOfUpdate(tree, graph, g))
    <2>1. planOfUpdate(tree, graph, g).props = P
      BY <1>1 DEF planOfUpdate, Nodes!diffOf
    <2> QED
      BY <1>1, <1>3, <1>4, <2>1 DEF leadsTo
  <1>6. mergeShards(tree, t, work.loaded) = t
    BY <1>2, <1>3, MergeIsWork
  <1>7. t.props = A.props
    BY <1>3, StoredSaid DEF untouched
  <1>8. tree' = withProps(t, _handleProps(A.props, P))
    <2>1. tree' = flushed
      BY DEF finish
    <2>2. flushed = withProps(t, _handleProps(t.props, todo.props))
      BY <1>1, <1>6 DEF flushed, withProps
    <2> QED
      BY <1>5, <1>7, <2>1, <2>2
  <1>9. stores(tree', withProps(B, _handleProps(A.props, P)))
    BY <1>2, <1>8, PropsStores
  <1>10. withProps(B, _handleProps(A.props, P)) = Decoded!computeDirtyShards(A, Decoded!diffOf(graph, g), g.nodes, g.edges)
    BY <1>1, <1>2, <1>3, <1>5, UpdateLoops
  <1> QED
    BY <1>1, <1>3, <1>9, <1>10

LEMMA FinishedKeeps ==
    ASSUME ShardedInv, finish
    PROVE  ShardedInv'
  <1>1. PICK A : stores(tree', A)
    BY BuildFinished, UpdateFinished DEF ShardedInv, finish, reached
  <1>2. holds(tree')
    BY <1>1, HoldsWhatIsStored
  <1> QED
    BY <1>2 DEF ShardedInv, finish, idle, holds

\* The invariant holds in every reachable state.
LEMMA ShardedInvHolds == ShardedSpec => []ShardedInv
  <1>1. ShardedInit => ShardedInv
    BY EmptyStores, HoldsWhatIsStored DEF ShardedInit, ShardedInv
  <1>2. ShardedInv /\ [ShardedNext]_shardedVars => ShardedInv'
    <2> SUFFICES ASSUME ShardedInv, [ShardedNext]_shardedVars
                 PROVE  ShardedInv'
      OBVIOUS
    <2>1. CASE UNCHANGED shardedVars
      BY <2>1 DEF shardedVars, ShardedInv, holds, UpdateInv, BuildInv, WorkInv, leadsTo
    <2>2. CASE \E g \in Graph : startUpdate(g) \/ \E seeded \in BOOLEAN : startBuild(g, seeded)
      BY <2>2, StartUpdateKeeps, StartBuildKeeps
    <2>3. CASE \E n \in Node : addNode(n) \/ removeNode(n) \/ purgeNode(n)
      BY <2>3, NodeAddedKeeps, NodeRemovedKeeps, NodePurgedKeeps
    <2>4. CASE \E n \in Node : overflow(n)
      BY <2>4, DroppedKeeps DEF overflow, idle
    <2>5. CASE \/ \E e \in todo.edgesAdded : addEdge(4, e)
               \/ \E e \in todo.edgesRemoved : removeEdge(e)
               \/ \E e \in todo.restored : addEdge(6, e)
      BY <2>5, EdgeAddedKeeps, EdgeRemovedKeeps, EdgeRestoredKeeps
    <2>6. CASE finish
      BY <2>6, FinishedKeeps
    <2>7. CASE invalidateIndex
      BY <2>7, DroppedKeeps DEF invalidateIndex
    <2> QED
      BY <2>1, <2>2, <2>3, <2>4, <2>5, <2>6, <2>7 DEF ShardedNext
  <1> QED
    BY <1>1, <1>2, PTL DEF ShardedSpec

\* The empty tree is the empty index.
LEMMA EmptyDecoded == toLogicalIndex(emptyTree) = Decoded!emptyIndex
  <1>1. toLogicalIndex(emptyTree) = idsOnly({}, {})
    BY EmptyStores, DecodesTo
  <1> QED
    BY <1>1 DEF idsOnly, Decoded!emptyIndex

\* The tree of shards, decoded by LogicalIndexReader, behaves like the index
\* of nodes: a build (LogicalBitmapIndexBuilder) or an update
\* (IncrementalIndexUpdater.computeDirtyShards) that finishes is one step of
\* IndexService, whatever the order in which its entries were taken and
\* however nodes and labels share shards, an overflow of a shard
\* (ShardIdOverflowError) and invalidateIndex drop the index, and nothing
\* else shows.
THEOREM RefinesAlways == ShardedSpec => RefinesIndexService
  <1>1. ShardedInit => Decoded!AbsInit
    BY EmptyDecoded DEF ShardedInit, Decoded!AbsInit
  <1>2. ShardedInv /\ [ShardedNext]_shardedVars => [Decoded!AbsNext]_(Decoded!absVars)
    <2> SUFFICES ASSUME ShardedInv, [ShardedNext]_shardedVars
                 PROVE  \/ Decoded!Build \/ Decoded!Update \/ Decoded!Drop
                        \/ UNCHANGED <<graph, tree, built>>
      BY DEF Decoded!AbsNext, Decoded!absVars
    <2>1. CASE UNCHANGED shardedVars
      BY <2>1 DEF shardedVars
    <2>2. CASE \E g \in Graph : startUpdate(g) \/ \E seeded \in BOOLEAN : startBuild(g, seeded)
      BY <2>2 DEF startUpdate, startBuild
    <2>3. CASE \E n \in Node : addNode(n) \/ removeNode(n) \/ purgeNode(n)
      BY <2>3 DEF addNode, removeNode, purgeNode, visit
    <2>4. CASE (\E n \in Node : overflow(n)) \/ invalidateIndex
      <3>1. built' = FALSE /\ tree' = emptyTree /\ graph' = graph
        BY <2>4 DEF overflow, invalidateIndex
      <3>2. Decoded!Drop
        BY <3>1, EmptyDecoded DEF Decoded!Drop
      <3> QED
        BY <3>2
    <2>5. CASE \/ \E e \in todo.edgesAdded : addEdge(4, e)
               \/ \E e \in todo.edgesRemoved : removeEdge(e)
               \/ \E e \in todo.restored : addEdge(6, e)
      BY <2>5 DEF addEdge, removeEdge, visit
    <2>6. CASE finish
      <3>1. graph' = target /\ target \in Graph /\ built' = TRUE /\ mode \in {"build", "update"}
        BY <2>6 DEF finish, ShardedInv, reached
      <3>2. CASE mode = "build"
        <4>1. \/ toLogicalIndex(tree') = Decoded!fullBuild(target, {}, {})
              \/ built /\ toLogicalIndex(tree') = Decoded!fullBuild(target, toLogicalIndex(tree).known,
                                                                    toLogicalIndex(tree).labels)
          BY <2>6, <3>2, BuildFinished, DecodesTo
        <4>2. Decoded!Build
          BY <3>1, <4>1 DEF Decoded!Build
        <4> QED
          BY <4>2
      <3>3. CASE mode = "update"
        <4>1. /\ built
              /\ toLogicalIndex(tree') = Decoded!computeDirtyShards(toLogicalIndex(tree),
                   Decoded!diffOf(graph, target), target.nodes, target.edges)
          BY <2>6, <3>3, UpdateFinished, DecodesTo
        <4>2. Decoded!Update
          BY <3>1, <4>1 DEF Decoded!Update
        <4> QED
          BY <4>2
      <3> QED
        BY <3>1, <3>2, <3>3
    <2> QED
      BY <2>1, <2>2, <2>3, <2>4, <2>5, <2>6 DEF ShardedNext
  <1> QED
    BY <1>1, <1>2, ShardedInvHolds, PTL DEF ShardedSpec, RefinesIndexService, Decoded!AbsSpec

----------------------------------------------------------------------------
(* Temporal queries.                                                       *)

\* The greatest number of a bounded set is one of them, or 0.
LEMMA GreatestIs ==
    ASSUME NEW S, S \subseteq Nat, NEW m \in Nat, \A x \in S : x <= m
    PROVE  greatest(S) \in Nat /\ \A x \in S : x <= greatest(S)
  <1>1. S \cup {0} \subseteq Nat /\ S \cup {0} # {} /\ \A x \in S \cup {0} : x <= m
    OBVIOUS
  <1>2. \E x \in S \cup {0} : \A y \in S \cup {0} : y <= x
    BY <1>1, GreatestMember
  <1>3. greatest(S) \in S \cup {0} /\ \A y \in S \cup {0} : y <= greatest(S)
    BY <1>2 DEF greatest
  <1> QED
    BY <1>1, <1>3

TickRecord ==
    [lamport : Nat, context : [TickWriter -> Nat], op : {"add", "remove"} \cup Status,
     observed : SUBSET (TickWriter \X Nat)]

TemporalShape ==
    [patches : SUBSET (TickWriter \X Nat), since : Sinces, value : Wanted,
     op : {"always", "eventually"}, done : BOOLEAN, answer : BOOLEAN,
     used : {<< >>} \cup {<<ck>> : ck \in SUBSET (TickWriter \X Nat)}]

TemporalTypeOK ==
    /\ tickChain \in [TickWriter -> Seq(TickRecord)]
    /\ latest \in {<< >>} \cup {<<ck>> : ck \in SUBSET (TickWriter \X Nat)}
    /\ asked \in {<< >>} \cup {<<a>> : a \in TemporalShape}

\* What a query answers from the checkpoint ck.
answerOf(a, ck) ==
    IF a.op = "always" THEN always(a.patches, a.since, ck, a.value)
    ELSE eventually(a.patches, a.since, ck, a.value)

TemporalInv ==
    /\ TemporalTypeOK
    /\ latest # << >> => latest[1] \subseteq everyPatch
    /\ asked # << >> => asked[1].patches \subseteq everyPatch
    /\ asked # << >> /\ asked[1].done =>
         /\ asked[1].used # << >> => asked[1].used[1] \subseteq everyPatch
         /\ asked[1].answer = answerOf(asked[1], asked[1].used)

\* The patches of the repository are finitely many.
LEMMA PatchesAreFinite ==
    ASSUME TemporalTypeOK
    PROVE  /\ IsFiniteSet(everyPatch)
           /\ \A p \in everyPatch : patchOf(p) \in TickRecord /\ p[1] \in TickWriter /\ p = <<p[1], p[2]>>
  <1>1. \A w \in TickWriter : tickChain[w] \in Seq(TickRecord) /\ Len(tickChain[w]) \in Nat
    BY LenProperties DEF TemporalTypeOK
  <1> DEFINE lens == [w \in TickWriter |-> Len(tickChain[w])]
  <1>2. PICK m \in Nat : \A w \in TickWriter : lens[w] <= m
    <2>1. \A w \in TickWriter : lens[w] \in Nat
      BY <1>1
    <2> HIDE DEF lens
    <2> QED
      BY <2>1, TemporalAssumption, BoundedOn
  <1>3. ASSUME NEW p \in everyPatch
        PROVE  /\ p \in TickWriter \X (1..m)
               /\ patchOf(p) \in TickRecord /\ p[1] \in TickWriter /\ p = <<p[1], p[2]>>
    <2>1. PICK w \in TickWriter : p \in {<<w, i>> : i \in 1..lens[w]}
      BY DEF everyPatch, upTo
    <2>2. PICK i \in 1..Len(tickChain[w]) : p = <<w, i>>
      BY <2>1
    <2>3. i \in 1..m
      BY <1>1, <1>2, <2>2
    <2>4. tickChain[w][i] \in TickRecord
      BY <1>1, <2>2, ElementOfSeq
    <2> QED
      BY <2>2, <2>3, <2>4 DEF patchOf
  <1>4. IsFiniteSet(TickWriter \X (1..m))
    <2>1. IsFiniteSet(1..m)
      BY FS_Interval
    <2> QED
      BY <2>1, TemporalAssumption, FS_Product, Zenon
  <1>5. everyPatch \subseteq TickWriter \X (1..m)
    BY <1>3
  <1>6. IsFiniteSet(everyPatch)
    BY <1>4, <1>5, FS_Subset
  <1> QED
    BY <1>3, <1>6

\* The observed frontier is at or above the lamports of its writers' patches.
LEMMA FrontierType ==
    ASSUME TemporalTypeOK, NEW S, S \subseteq everyPatch
    PROVE  /\ observedFrontier(S) \in [TickWriter -> Nat]
           /\ \A p \in S : /\ patchOf(p).lamport \in Nat /\ p[1] \in TickWriter
                           /\ patchOf(p).lamport <= observedFrontier(S)[p[1]]
  <1>0. IsFiniteSet(S)
    BY PatchesAreFinite, FS_Subset
  <1>1. \A p \in S : /\ patchOf(p).lamport \in Nat /\ p[1] \in TickWriter
                     /\ \A w \in TickWriter : patchOf(p).context[w] \in Nat
    <2> TAKE p \in S
    <2>1. patchOf(p) \in TickRecord /\ p[1] \in TickWriter
      BY PatchesAreFinite
    <2> QED
      BY <2>1 DEF TickRecord
  <1>2. ASSUME NEW w \in TickWriter
        PROVE  /\ observedFrontier(S)[w] \in Nat
               /\ \A p \in S : p[1] = w => patchOf(p).lamport <= observedFrontier(S)[w]
    <2> DEFINE C == {patchOf(p).context[w] : p \in S}
               L == {patchOf(p).lamport : p \in {q \in S : q[1] = w}}
               c == [p \in S |-> patchOf(p).context[w]]
               l == [p \in S |-> patchOf(p).lamport]
    <2>1. PICK m \in Nat : \A p \in S : c[p] <= m
      <3>1. \A p \in S : c[p] \in Nat
        BY <1>1
      <3> HIDE DEF c
      <3> QED
        BY <1>0, <3>1, BoundedOn
    <2>2. PICK n \in Nat : \A p \in S : l[p] <= n
      <3>1. \A p \in S : l[p] \in Nat
        BY <1>1
      <3> HIDE DEF l
      <3> QED
        BY <1>0, <3>1, BoundedOn
    <2>3. ASSUME NEW x \in C \cup L
          PROVE  x \in Nat /\ x <= m + n
      <3>1. CASE x \in C
        <4>1. PICK p \in S : x = patchOf(p).context[w]
          BY <3>1
        <4>2. x \in Nat /\ x = c[p]
          BY <1>1, <4>1
        <4> QED
          BY <2>1, <4>2
      <3>2. CASE x \in L
        <4>1. PICK p \in S : x = patchOf(p).lamport
          BY <3>2
        <4>2. x \in Nat /\ x = l[p]
          BY <1>1, <4>1
        <4> QED
          BY <2>2, <4>2
      <3> QED
        BY <3>1, <3>2
    <2>4. observedFrontier(S)[w] = greatest(C \cup L)
      BY DEF observedFrontier
    <2>5. \A p \in S : p[1] = w => patchOf(p).lamport \in L
      OBVIOUS
    <2>6. greatest(C \cup L) \in Nat /\ \A x \in C \cup L : x <= greatest(C \cup L)
      <3>1. PICK U : U = C \cup L
        OBVIOUS
      <3>2. U \subseteq Nat /\ m + n \in Nat /\ \A x \in U : x <= m + n
        BY <2>3, <3>1
      <3>3. greatest(U) \in Nat /\ \A x \in U : x <= greatest(U)
        BY <3>2, GreatestIs
      <3> QED
        BY <3>1, <3>3
    <2> QED
      BY <2>4, <2>5, <2>6
  <1>3. observedFrontier(S) \in [TickWriter -> Nat]
    <2>1. observedFrontier(S) = [w \in TickWriter |-> observedFrontier(S)[w]]
      BY DEF observedFrontier
    <2> HIDE DEF observedFrontier
    <2> QED
      BY <1>2, <2>1
  <1> QED
    BY <1>1, <1>2, <1>3

\* The state's own maximum is at or above the lamport of every patch in it.
LEMMA MaximumCoversLamports ==
    ASSUME TemporalTypeOK, NEW S, S \subseteq everyPatch
    PROVE  _maxLamportFromState(S) \in Nat /\ \A p \in S : patchOf(p).lamport <= _maxLamportFromState(S)
  <1>1. \A p \in S : patchOf(p).lamport \in Nat /\ p[1] \in TickWriter
    BY FrontierType
  <1>2. ASSUME NEW w \in TickWriter
        PROVE  /\ observedFrontier(S)[w] \in Nat
               /\ \A p \in S : p[1] = w => patchOf(p).lamport <= observedFrontier(S)[w]
    BY FrontierType
  <1> DEFINE F == {observedFrontier(S)[w] : w \in TickWriter}
             f == [w \in TickWriter |-> observedFrontier(S)[w]]
  <1>3. PICK m \in Nat : \A w \in TickWriter : f[w] <= m
    <2>1. \A w \in TickWriter : f[w] \in Nat
      BY <1>2
    <2> HIDE DEF f
    <2> QED
      BY <2>1, TemporalAssumption, BoundedOn
  <1>4. F \subseteq Nat /\ \A x \in F : x <= m
    BY <1>2, <1>3
  <1>5. greatest(F) \in Nat /\ \A x \in F : x <= greatest(F)
    <2> HIDE DEF F
    <2> QED
      BY <1>4, GreatestIs
  <1>6. _maxLamportFromState(S) = greatest(F)
    BY DEF _maxLamportFromState
  <1>7. ASSUME NEW p \in S
        PROVE  patchOf(p).lamport <= greatest(F)
    <2>1. p[1] \in TickWriter /\ patchOf(p).lamport \in Nat
      BY <1>1
    <2>2. observedFrontier(S)[p[1]] \in F /\ observedFrontier(S)[p[1]] \in Nat
      BY <1>2, <2>1
    <2>3. patchOf(p).lamport <= observedFrontier(S)[p[1]]
      BY <1>2, <2>1
    <2> HIDE DEF F
    <2>4. observedFrontier(S)[p[1]] <= greatest(F)
      BY <1>5, <2>2
    <2> QED
      BY <1>5, <2>1, <2>2, <2>3, <2>4
  <1> QED
    BY <1>5, <1>6, <1>7


\* From a checkpoint that closes its tick a replay looks at the same states
\* as one from the beginning.
LEMMA SameStates ==
    ASSUME TemporalTypeOK, NEW S, S \subseteq everyPatch, NEW ck, ck \subseteq S,
           NEW since \in Nat, closedTick(ck, S),
           _maxLamportFromState(ck) = since => singleBoundary(ck)
    PROVE  evaluated(S, since, <<ck>>) = evaluated(S, since, << >>)
  <1> DEFINE M == _maxLamportFromState(ck)
             before(p) == {q \in S : q = p \/ patchBefore(q, p)}
             rest == {p \in S : patchOf(p).lamport > M}
             onwards(p) == {q \in rest : q = p \/ patchBefore(q, p)}
  <1>0. << >> # <<ck>> /\ <<ck>>[1] = ck
    OBVIOUS
  <1>1. M \in Nat /\ \A p \in ck : patchOf(p).lamport <= M
    BY MaximumCoversLamports
  <1>2. \A p \in S : patchOf(p).lamport \in Nat /\ p[1] \in Nat
    <2> TAKE p \in S
    <2>1. patchOf(p) \in TickRecord /\ p[1] \in TickWriter
      BY PatchesAreFinite
    <2> QED
      BY <2>1, TemporalAssumption DEF TickRecord
  <1>3. \A p \in S : p \in ck <=> patchOf(p).lamport <= M
    BY <1>1 DEF closedTick
  <1>4. evaluated(S, since, << >>) = {before(p) : p \in {q \in S : patchOf(q).lamport >= since}}
    <2> DEFINE s == [state |-> {}, checkpointMaxLamport |-> -1, rest |-> S]
    <2>1. _resolveStart(S, since, << >>) = s
      BY DEF _resolveStart
    <2>2. s.state = {} /\ s.checkpointMaxLamport # since /\ s.rest = S
      OBVIOUS
    <2>3. replayed({}, S, since) = {before(p) : p \in {q \in S : patchOf(q).lamport >= since}}
      BY DEF replayed
    <2> HIDE DEF s
    <2> QED
      BY <2>1, <2>2, <2>3 DEF evaluated
  <1>5. CASE ~(since > 0 /\ M <= since)
    <2>1. _resolveStart(S, since, <<ck>>) = _resolveStart(S, since, << >>)
      BY <1>0, <1>5 DEF _resolveStart
    <2> QED
      BY <2>1 DEF evaluated
  <1>6. CASE since > 0 /\ M <= since
    <2> DEFINE s == [state |-> ck, checkpointMaxLamport |-> M, rest |-> rest]
               R == {ck \cup onwards(p) : p \in {q \in rest : patchOf(q).lamport >= since}}
    <2>1. _resolveStart(S, since, <<ck>>) = s
      BY <1>0, <1>6 DEF _resolveStart
    <2>2. s.state = ck /\ s.checkpointMaxLamport = M /\ s.rest = rest
      OBVIOUS
    <2>3. replayed(ck, rest, since) = R
      BY DEF replayed
    <2>4. evaluated(S, since, <<ck>>) = R \cup (IF M = since THEN {ck} ELSE {})
      <3> HIDE DEF s, R, rest, M
      <3> QED
        BY <2>1, <2>2, <2>3 DEF evaluated
    <2>5. ASSUME NEW p \in rest
          PROVE  ck \cup onwards(p) = before(p)
      <3>1. \A q \in ck : q \in S /\ patchBefore(q, p)
        BY <1>1, <1>2, <1>3 DEF patchBefore
      <3>2. \A q \in S : q \in ck \/ q \in rest
        BY <1>1, <1>2, <1>3
      <3> QED
        BY <3>1, <3>2
    <2>6. ASSUME NEW p \in S, patchOf(p).lamport >= since, p \notin rest
          PROVE  M = since /\ before(p) = ck
      <3>1. patchOf(p).lamport = M /\ M = since /\ p \in ck
        BY <1>1, <1>2, <1>3, <1>6, <2>6
      <3>2. PICK x : {q \in ck : patchOf(q).lamport >= M} = {x}
        <4>1. IsFiniteSet({q \in ck : patchOf(q).lamport >= M})
          BY PatchesAreFinite, FS_Subset
        <4>2. Cardinality({q \in ck : patchOf(q).lamport >= M}) = 1
          BY <3>1 DEF singleBoundary
        <4> QED
          BY <4>1, <4>2, FS_Singleton
      <3>3. x = p
        BY <1>1, <3>1, <3>2
      <3>4. \A q \in ck : q # p => patchOf(q).lamport < M
        BY <1>1, <1>2, <3>2, <3>3
      <3>5. \A q \in ck : q \in S /\ (q = p \/ patchBefore(q, p))
        BY <3>1, <3>4 DEF patchBefore
      <3>6. \A q \in S : q = p \/ patchBefore(q, p) => q \in ck
        <4> TAKE q \in S
        <4>1. patchBefore(q, p) => patchOf(q).lamport <= M
          BY <1>1, <1>2, <3>1 DEF patchBefore
        <4> QED
          BY <1>3, <3>1, <4>1
      <3> QED
        BY <3>1, <3>5, <3>6
    <2>7. ASSUME M = since
          PROVE  \E p \in S : patchOf(p).lamport >= since /\ before(p) = ck
      <3>1. PICK x : {q \in ck : patchOf(q).lamport >= M} = {x}
        <4>1. IsFiniteSet({q \in ck : patchOf(q).lamport >= M})
          BY PatchesAreFinite, FS_Subset
        <4>2. Cardinality({q \in ck : patchOf(q).lamport >= M}) = 1
          BY <2>7 DEF singleBoundary
        <4> QED
          BY <4>1, <4>2, FS_Singleton
      <3>2. x \in ck /\ patchOf(x).lamport >= since
        BY <2>7, <3>1
      <3>3. x \in S /\ x \notin rest
        BY <1>1, <1>2, <1>3, <3>2
      <3>4. before(x) = ck
        BY <2>6, <3>2, <3>3
      <3> QED
        BY <3>2, <3>3, <3>4
    <2>8. ASSUME NEW T \in evaluated(S, since, <<ck>>)
          PROVE  T \in evaluated(S, since, << >>)
      <3>1. CASE T \in R
        <4>1. PICK p \in rest : patchOf(p).lamport >= since /\ T = ck \cup onwards(p)
          BY <3>1
        <4>2. T = before(p) /\ p \in S
          BY <2>5, <4>1
        <4> QED
          BY <1>4, <4>1, <4>2
      <3>2. CASE M = since /\ T = ck
        <4>1. PICK p \in S : patchOf(p).lamport >= since /\ before(p) = ck
          BY <2>7, <3>2
        <4> QED
          BY <1>4, <3>2, <4>1
      <3> QED
        BY <2>4, <3>1, <3>2
    <2>9. ASSUME NEW T \in evaluated(S, since, << >>)
          PROVE  T \in evaluated(S, since, <<ck>>)
      <3>1. PICK p \in S : patchOf(p).lamport >= since /\ T = before(p)
        BY <1>4
      <3>2. CASE p \in rest
        <4>1. T = ck \cup onwards(p)
          BY <2>5, <3>1, <3>2
        <4>2. T \in R
          BY <3>1, <3>2, <4>1
        <4> QED
          BY <2>4, <4>2
      <3>3. CASE p \notin rest
        <4>1. M = since /\ T = ck
          BY <2>6, <3>1, <3>3
        <4> QED
          BY <2>4, <4>1
      <3> QED
        BY <3>2, <3>3
    <2> QED
      BY <2>8, <2>9
  <1> QED
    BY <1>5, <1>6


\* A writer's patch: it has the type of a patch, and every earlier one stays.
LEMMA CommitTickTypes ==
    ASSUME TemporalTypeOK, NEW w \in TickWriter, commitTick(w)
    PROVE  tickChain' \in [TickWriter -> Seq(TickRecord)] /\ everyPatch \subseteq everyPatch'
  <1>1. PICK lens \in [TickWriter -> 0..MaxTickPatches], op \in {"add", "remove"} \cup Status,
             filler \in FillerAdds :
          /\ \A v \in TickWriter : lens[v] <= Len(tickChain[v])
          /\ tickChain' = [tickChain EXCEPT ![w] = Append(@,
                [lamport |-> 1 + greatest({patchOf(p).lamport : p \in upTo(lens)}),
                 context |-> [observedFrontier(upTo(lens)) EXCEPT
                                ![w] = @ + filler + (IF op = "add" THEN 1 ELSE 0)],
                 op |-> op,
                 observed |-> IF op = "remove"
                              THEN {p \in upTo(lens) : patchOf(p).op = "add"} ELSE {}])]
    BY DEF commitTick
  <1> DEFINE K == upTo(lens)
  <1>2. K \subseteq everyPatch
    <2>1. ASSUME NEW v \in TickWriter, NEW i \in 1..lens[v]
          PROVE  i \in 1..Len(tickChain[v])
      <3>1. lens[v] <= Len(tickChain[v]) /\ Len(tickChain[v]) \in Nat /\ lens[v] \in Int
        BY <1>1, LenProperties DEF TemporalTypeOK
      <3> QED
        BY <3>1
    <2> QED
      BY <2>1 DEF upTo, everyPatch
  <1> HIDE DEF K
  <1>3. greatest({patchOf(p).lamport : p \in K}) \in Nat
    <2> DEFINE l == [p \in K |-> patchOf(p).lamport]
    <2>1. \A p \in K : l[p] \in Nat
      <3> TAKE p \in K
      <3>1. patchOf(p) \in TickRecord
        BY <1>2, PatchesAreFinite
      <3> QED
        BY <3>1 DEF TickRecord
    <2>2. PICK n \in Nat : \A p \in K : l[p] <= n
      <3>1. IsFiniteSet(K)
        BY <1>2, PatchesAreFinite, FS_Subset
      <3> HIDE DEF l
      <3> QED
        BY <2>1, <3>1, BoundedOn
    <2>3. PICK U : U = {patchOf(p).lamport : p \in K}
      OBVIOUS
    <2>4. U \subseteq Nat /\ \A x \in U : x <= n
      BY <2>1, <2>2, <2>3
    <2> HIDE <2>3
    <2>5. greatest(U) \in Nat
      BY <2>4, GreatestIs
    <2> QED
      BY <2>3, <2>5
  <1>4. observedFrontier(K) \in [TickWriter -> Nat]
    BY <1>2, FrontierType
  <1>5. filler \in Nat /\ K \subseteq TickWriter \X Nat
    <2>1. \A p \in everyPatch : p \in TickWriter \X Nat
      BY DEF everyPatch, upTo
    <2> QED
      BY <1>2, <2>1, TemporalAssumption
  <1>6. PICK l, c, o : /\ l = 1 + greatest({patchOf(p).lamport : p \in K})
                       /\ c = [observedFrontier(K) EXCEPT ![w] = @ + filler + (IF op = "add" THEN 1 ELSE 0)]
                       /\ o = IF op = "remove" THEN {p \in K : patchOf(p).op = "add"} ELSE {}
    OBVIOUS
  <1>7. l \in Nat /\ c \in [TickWriter -> Nat] /\ o \in SUBSET (TickWriter \X Nat)
    <2>1. c \in [TickWriter -> Nat]
      BY <1>4, <1>5, <1>6
    <2>2. l \in Nat
      BY <1>3, <1>6
    <2>3. o \in SUBSET (TickWriter \X Nat)
      BY <1>5, <1>6
    <2> QED
      BY <2>1, <2>2, <2>3
  <1>8. PICK x : x = [lamport |-> l, context |-> c, op |-> op, observed |-> o]
    OBVIOUS
  <1>9. x \in TickRecord
    BY <1>7, <1>8 DEF TickRecord
  <1>10. tickChain' = [tickChain EXCEPT ![w] = Append(@, x)]
    BY <1>1, <1>6, <1>8 DEF K
  <1> HIDE <1>8
  <1>11. tickChain[w] \in Seq(TickRecord) /\ tickChain \in [TickWriter -> Seq(TickRecord)]
    BY DEF TemporalTypeOK
  <1>12. Append(tickChain[w], x) \in Seq(TickRecord) /\ Len(Append(tickChain[w], x)) = Len(tickChain[w]) + 1
    BY <1>9, <1>11, AppendProperties
  <1>13. tickChain' \in [TickWriter -> Seq(TickRecord)]
    BY <1>10, <1>11, <1>12
  <1>14. \A v \in TickWriter : Len(tickChain[v]) \in Nat /\ Len(tickChain'[v]) \in Nat /\ Len(tickChain[v]) <= Len(tickChain'[v])
    <2> TAKE v \in TickWriter
    <2>1. Len(tickChain[v]) \in Nat
      BY <1>11, LenProperties
    <2> QED
      BY <1>10, <1>11, <1>12, <2>1
  <1>15. everyPatch \subseteq everyPatch'
    <2>1. \A v \in TickWriter : 1..Len(tickChain[v]) \subseteq 1..Len(tickChain'[v])
      BY <1>14
    <2> QED
      BY <2>1 DEF everyPatch, upTo
  <1> QED
    BY <1>13, <1>15

LEMMA TemporalStarts == TemporalInit => TemporalInv
  BY DEF TemporalInit, TemporalInv, TemporalTypeOK, everyPatch, upTo

LEMMA TemporalStep == TemporalInv /\ [TemporalNext]_temporalVars => TemporalInv'
  <1> SUFFICES ASSUME TemporalInv, [TemporalNext]_temporalVars
               PROVE  TemporalInv'
    OBVIOUS
  <1>0. everyPatch \subseteq TickWriter \X Nat
    BY DEF everyPatch, upTo
  <1>1. ASSUME NEW w \in TickWriter, commitTick(w)
        PROVE  TemporalInv'
    <2>1. UNCHANGED <<latest, asked>> /\ ~answered
      BY <1>1 DEF commitTick
    <2>2. tickChain' \in [TickWriter -> Seq(TickRecord)] /\ everyPatch \subseteq everyPatch'
      BY <1>1, CommitTickTypes DEF TemporalInv
    <2> QED
      BY <2>1, <2>2 DEF TemporalInv, TemporalTypeOK, answered
  <1>2. ASSUME tickChain' = tickChain
        PROVE  everyPatch' = everyPatch
    BY <1>2 DEF everyPatch, upTo
  <1>3. CASE checkpointTick
    <2>1. latest' = <<everyPatch>> /\ UNCHANGED <<tickChain, asked>> /\ ~answered
      BY <1>3 DEF checkpointTick
    <2>2. PICK ck : ck = everyPatch
      OBVIOUS
    <2>3. latest' \in {<<c>> : c \in SUBSET (TickWriter \X Nat)} /\ latest'[1] = everyPatch
      BY <1>0, <2>1
    <2> QED
      BY <1>2, <2>1, <2>3 DEF TemporalInv, TemporalTypeOK, answered
  <1>4. CASE beginTemporal
    <2>1. UNCHANGED <<tickChain, latest>>
      BY <1>4 DEF beginTemporal
    <2>2. PICK since \in Sinces, v \in Wanted, op \in {"always", "eventually"} :
            asked' = <<[patches |-> everyPatch, since |-> since, value |-> v, op |-> op,
                        done |-> FALSE, answer |-> FALSE, used |-> << >>]>>
      BY <1>4 DEF beginTemporal
    <2>3. PICK a : a = [patches |-> everyPatch, since |-> since, value |-> v, op |-> op,
                        done |-> FALSE, answer |-> FALSE, used |-> << >>]
      OBVIOUS
    <2>4. a \in TemporalShape /\ a.patches = everyPatch /\ a.done = FALSE
      BY <1>0, <2>3 DEF TemporalShape
    <2>5. asked' = <<a>>
      BY <2>2, <2>3
    <2> HIDE <2>3
    <2>6. asked' \in {<<x>> : x \in TemporalShape} /\ asked'[1] = a
      BY <2>4, <2>5
    <2> QED
      BY <1>2, <2>1, <2>4, <2>6 DEF TemporalInv, TemporalTypeOK
  <1>5. CASE answerTemporal
    <2>1. asked # << >> /\ UNCHANGED <<tickChain, latest>>
      BY <1>5 DEF answerTemporal
    <2>2. PICK a \in TemporalShape : asked = <<a>>
      BY <2>1 DEF TemporalInv, TemporalTypeOK
    <2>3. asked[1] = a
      BY <2>2
    <2>4. PICK b : b = answerOf(a, latest)
      OBVIOUS
    <2>5. asked' = <<[a EXCEPT !.done = TRUE, !.used = latest, !.answer = b]>>
      BY <1>5, <2>3, <2>4 DEF answerTemporal, answerOf
    <2>6. b \in BOOLEAN
      BY <2>4 DEF answerOf, always, eventually
    <2>7. PICK c : c = [a EXCEPT !.done = TRUE, !.used = latest, !.answer = b]
      OBVIOUS
    <2>8. /\ c \in TemporalShape /\ c.patches = a.patches /\ c.used = latest /\ c.answer = b
          /\ c.since = a.since /\ c.op = a.op /\ c.value = a.value
      BY <2>6, <2>7 DEF TemporalShape, TemporalInv, TemporalTypeOK
    <2>9. asked' = <<c>> /\ asked' # << >>
      BY <2>5, <2>7
    <2> HIDE <2>7
    <2>10. asked' \in {<<x>> : x \in TemporalShape} /\ asked'[1] = c
      BY <2>8, <2>9
    <2>11. c.answer = answerOf(c, c.used)
      BY <2>4, <2>8 DEF answerOf
    <2>12. ASSUME NEW x, NEW ck
           PROVE  answerOf(x, ck)' = answerOf(x, ck)
      BY <2>1 DEF answerOf, always, eventually, evaluated, _resolveStart, replayed, extractNodeSnapshot,
                  exists, statusIn, writesStatus, predicateHolds, patchBefore, _maxLamportFromState,
                  observedFrontier, patchOf, greatest
    <2>13. c.answer = answerOf(c, c.used)'
      BY <2>11, <2>12
    <2> QED
      BY <1>2, <2>1, <2>3, <2>8, <2>9, <2>10, <2>13 DEF TemporalInv, TemporalTypeOK
  <1>6. CASE returnTemporal
    <2>1. asked' = << >> /\ UNCHANGED <<tickChain, latest>>
      BY <1>6 DEF returnTemporal
    <2> QED
      BY <1>2, <2>1 DEF TemporalInv, TemporalTypeOK
  <1>7. CASE UNCHANGED temporalVars
    <2>1. UNCHANGED <<tickChain, latest, asked>>
      BY <1>7 DEF temporalVars
    <2>2. ASSUME NEW x, NEW ck
          PROVE  answerOf(x, ck)' = answerOf(x, ck)
      BY <2>1 DEF answerOf, always, eventually, evaluated, _resolveStart, replayed, extractNodeSnapshot,
                  exists, statusIn, writesStatus, predicateHolds, patchBefore, _maxLamportFromState,
                  observedFrontier, patchOf, greatest
    <2>3. answerOf(asked[1], asked[1].used)' = answerOf(asked[1], asked[1].used)
      BY <2>1, <2>2
    <2> QED
      BY <1>2, <2>1, <2>3 DEF TemporalInv, TemporalTypeOK
  <1> QED
    BY <1>1, <1>3, <1>4, <1>5, <1>6, <1>7 DEF TemporalNext

LEMMA TemporalSuffices == TemporalInv => TemporalAnswersAreExact
  <1> SUFFICES ASSUME TemporalInv, asked # << >>, asked[1].done, asked[1].used # << >>,
                      closedTick(asked[1].used[1], asked[1].patches),
                      asked[1].used[1] \subseteq asked[1].patches,
                      _maxLamportFromState(asked[1].used[1]) = asked[1].since
                        => singleBoundary(asked[1].used[1])
               PROVE  asked[1].answer <=> answerOf(asked[1], << >>)
    BY DEF TemporalAnswersAreExact, answerOf
  <1>1. PICK a \in TemporalShape : asked = <<a>>
    BY DEF TemporalInv, TemporalTypeOK
  <1>2. asked[1] = a /\ a.since \in Nat
    BY <1>1, TemporalAssumption DEF TemporalShape
  <1>3. PICK ck : a.used = <<ck>> /\ a.used[1] = ck
    BY <1>2 DEF TemporalShape
  <1>4. evaluated(a.patches, a.since, <<ck>>) = evaluated(a.patches, a.since, << >>)
    BY <1>2, <1>3, SameStates DEF TemporalInv
  <1>5. answerOf(a, <<ck>>) = answerOf(a, << >>)
    BY <1>4 DEF answerOf, always, eventually
  <1> QED
    BY <1>2, <1>3, <1>5 DEF TemporalInv

\* A temporal query that starts from a checkpoint answers what a replay of
\* the whole history would, for any writers, patches, values and chains and
\* whatever is committed between its reads, if the checkpoint closes its tick
\* and ends with one patch where its tick is the since of the query
\* (TemporalQuery._resolveStart, always, eventually)
THEOREM TemporalAlwaysExact == TemporalSpec => []TemporalAnswersAreExact
  BY TemporalStarts, TemporalStep, TemporalSuffices, PTL DEF TemporalSpec

----------------------------------------------------------------------------
(* Content attachments.                                                    *)

setOp(t, k, v) == [type |-> "set", target |-> t, key |-> k, value |-> v]

\* An attachment of a blob of B: its three writes, one after the other.
attachment(ops, i, B) ==
    /\ i \in Nat \ {0} /\ i + 2 <= Len(ops)
    /\ \E t \in Target, v \in B :
         ops[i] = setOp(t, "oid", v) /\ ops[i + 1] = setOp(t, "size", v) /\ ops[i + 2] = setOp(t, "mime", v)

\* The content keys are written by attachments, or an object id first of all.
opsOk(ops, B) ==
    /\ \E D : ops \in Seq(D)
    /\ \A i \in 1..Len(ops) : ops[i].type = "set" =>
         \/ ops[i].key = "oid" /\ (i = 1 \/ attachment(ops, i, B))
         \/ ops[i].key = "size" /\ attachment(ops, i - 1, B)
         \/ ops[i].key = "mime" /\ attachment(ops, i - 2, B)

builderShape(D) ==
    [lamport : Nat, ops : D, snapshot : D, storing : D, contentBlobs : D, committing : BOOLEAN]

builderOk(b, chain, bl) ==
    /\ \E D : b \in builderShape(D)
    /\ opsOk(b.ops, b.contentBlobs) /\ b.contentBlobs \subseteq bl
    /\ \A i \in 1..Len(chain) : chain[i].lamport < b.lamport
    /\ \A a \in b.storing : a[1] \in bl

patchOk(w, p) == p.writer = w /\ p.lamport \in Nat /\ opsOk(p.ops, p.anchors)

chainOk(w, chain, bl) ==
    /\ \E D : chain \in Seq(D)
    /\ \A i \in 1..Len(chain) : patchOk(w, chain[i]) /\ chain[i].anchors \subseteq bl
    /\ \A i, j \in 1..Len(chain) : i < j => chain[i].lamport < chain[j].lamport

ContentInv ==
    /\ builders = [w \in ContentWriter |-> builders[w]]
    /\ published = [w \in ContentWriter |-> published[w]]
    /\ \A w \in ContentWriter :
         /\ chainOk(w, published[w], blobs)
         /\ builders[w] # << >> =>
              builders[w] = <<builders[w][1]>> /\ builderOk(builders[w][1], published[w], blobs)

\* The patches of a state can be told apart and their events compared.
stateOk(S, m) ==
    /\ m \in Nat
    /\ \A p \in S : /\ p.lamport \in 0..m /\ p.writer \in 0..m /\ Len(p.ops) \in 0..m
                    /\ opsOk(p.ops, p.anchors)
    /\ \A p, q \in S : p.lamport = q.lamport /\ p.writer = q.writer => p = q

eventOf(p, i) == [op |-> p.ops[i], at |-> <<p.lamport, p.writer, i>>]

writesTo(S, t, k) == {e \in events(S) : e.op.type = "set" /\ e.op.target = t /\ e.op.key = k}

isLatest(e, E) == e \in E /\ \A f \in E : e = f \/ eventBefore(f.at, e.at)

LEMMA EventFacts ==
    ASSUME NEW p, NEW i
    PROVE  /\ eventOf(p, i).op = p.ops[i] /\ eventOf(p, i).at[1] = p.lamport
           /\ eventOf(p, i).at[2] = p.writer /\ eventOf(p, i).at[3] = i
  BY DEF eventOf

\* Events are compared by the lamport, then the writer, then the index.
LEMMA Compared ==
    ASSUME NEW p, NEW i \in Int, NEW q, NEW j \in Int, p.lamport \in Nat, p.writer \in Nat,
           q.lamport \in Nat, q.writer \in Nat,
           eventOf(q, j) = eventOf(p, i) \/ eventBefore(eventOf(p, i).at, eventOf(q, j).at)
    PROVE  \/ p.lamport = q.lamport /\ p.writer = q.writer /\ i = j
           \/ p.lamport < q.lamport \/ (p.lamport = q.lamport /\ p.writer < q.writer)
           \/ p.lamport = q.lamport /\ p.writer = q.writer /\ i < j
  <1>1. /\ eventOf(p, i).at[1] = p.lamport /\ eventOf(p, i).at[2] = p.writer /\ eventOf(p, i).at[3] = i
        /\ eventOf(q, j).at[1] = q.lamport /\ eventOf(q, j).at[2] = q.writer /\ eventOf(q, j).at[3] = j
    BY EventFacts
  <1>2. CASE eventOf(q, j) = eventOf(p, i)
    BY <1>1, <1>2
  <1>3. CASE eventBefore(eventOf(p, i).at, eventOf(q, j).at)
    <2>1. PICK x, y : x = eventOf(p, i).at /\ y = eventOf(q, j).at
      OBVIOUS
    <2>2. eventBefore(x, y)
      BY <1>3, <2>1, Zenon
    <2>3. /\ x[1] = p.lamport /\ x[2] = p.writer /\ x[3] = i
          /\ y[1] = q.lamport /\ y[2] = q.writer /\ y[3] = j
      BY <1>1, <2>1, Zenon
    <2> QED
      BY <2>2, <2>3 DEF eventBefore
  <1> QED
    BY <1>2, <1>3

LEMMA EventsAre ==
    ASSUME NEW S, NEW t, NEW k
    PROVE  /\ \A e \in writesTo(S, t, k) : \E p \in S : \E i \in 1..Len(p.ops) :
                e = eventOf(p, i) /\ p.ops[i].type = "set" /\ p.ops[i].target = t /\ p.ops[i].key = k
           /\ \A p \in S : \A i \in 1..Len(p.ops) :
                p.ops[i].type = "set" /\ p.ops[i].target = t /\ p.ops[i].key = k
                  => eventOf(p, i) \in writesTo(S, t, k)
  <1>1. events(S) = UNION {{eventOf(p, i) : i \in 1..Len(p.ops)} : p \in S}
    BY DEF events, eventOf
  <1>2. \A e \in events(S) : \E p \in S : \E i \in 1..Len(p.ops) : e = eventOf(p, i)
    BY <1>1
  <1>3. \A p \in S : \A i \in 1..Len(p.ops) : eventOf(p, i) \in events(S)
    BY <1>1
  <1> QED
    BY <1>2, <1>3, EventFacts DEF writesTo

\* Of finitely many writes one is the latest.
LEMMA LatestExists ==
    ASSUME NEW S, NEW m, stateOk(S, m), NEW t, NEW k, writesTo(S, t, k) # {}
    PROVE  \E e : isLatest(e, writesTo(S, t, k))
  <1> DEFINE E == writesTo(S, t, k)
  <1>1. ASSUME NEW e \in E
        PROVE  e.at[1] \in 0..m /\ e.at[2] \in 0..m /\ e.at[3] \in 0..m
    <2>1. PICK p \in S, i \in Nat : i \in 1..Len(p.ops) /\ e = eventOf(p, i)
      BY EventsAre
    <2>2. p.lamport \in 0..m /\ p.writer \in 0..m /\ i \in 0..m
      BY <2>1 DEF stateOk
    <2> QED
      BY <2>1, <2>2, EventFacts
  <1>2. ASSUME NEW e \in E, NEW f \in E, e.at[1] = f.at[1], e.at[2] = f.at[2], e.at[3] = f.at[3]
        PROVE  e = f
    <2>1. PICK p \in S, i \in Nat : i \in 1..Len(p.ops) /\ e = eventOf(p, i)
      BY EventsAre
    <2>2. PICK q \in S, j \in Nat : j \in 1..Len(q.ops) /\ f = eventOf(q, j)
      BY EventsAre
    <2>3. p.lamport = q.lamport /\ p.writer = q.writer /\ i = j
      BY <1>2, <2>1, <2>2, EventFacts
    <2> QED
      BY <2>1, <2>2, <2>3 DEF stateOk
  <1>0. m \in Nat
    BY DEF stateOk
  <1> HIDE DEF E
  <1>3. PICK d1 \in E : \A f \in E : f.at[1] <= d1.at[1]
    <2>1. PICK X : X = {e.at[1] : e \in E}
      OBVIOUS
    <2>2. X \subseteq Nat /\ X # {} /\ \A x \in X : x <= m
      BY <1>0, <1>1, <2>1 DEF E
    <2>3. \E x \in X : \A y \in X : y <= x
      BY <1>0, <2>2, GreatestMember
    <2> QED
      BY <2>1, <2>3
  <1>4. PICK d2 \in E : d2.at[1] = d1.at[1] /\ \A f \in E : f.at[1] = d1.at[1] => f.at[2] <= d2.at[2]
    <2> DEFINE F == {e \in E : e.at[1] = d1.at[1]}
    <2>1. PICK X : X = {e.at[2] : e \in F}
      OBVIOUS
    <2>2. X \subseteq Nat /\ X # {} /\ \A x \in X : x <= m
      BY <1>0, <1>1, <2>1
    <2>3. \E x \in X : \A y \in X : y <= x
      BY <1>0, <2>2, GreatestMember
    <2> QED
      BY <2>1, <2>3
  <1>5. PICK d3 \in E : /\ d3.at[1] = d1.at[1] /\ d3.at[2] = d2.at[2]
                        /\ \A f \in E : f.at[1] = d1.at[1] /\ f.at[2] = d2.at[2] => f.at[3] <= d3.at[3]
    <2> DEFINE F == {e \in E : e.at[1] = d1.at[1] /\ e.at[2] = d2.at[2]}
    <2>1. PICK X : X = {e.at[3] : e \in F}
      OBVIOUS
    <2>2. X \subseteq Nat /\ X # {} /\ \A x \in X : x <= m
      BY <1>0, <1>1, <1>4, <2>1
    <2>3. \E x \in X : \A y \in X : y <= x
      BY <1>0, <2>2, GreatestMember
    <2> QED
      BY <2>1, <2>3
  <1>6. ASSUME NEW f \in E
        PROVE  d3 = f \/ eventBefore(f.at, d3.at)
    <2>1. /\ f.at[1] \in Nat /\ f.at[2] \in Nat /\ f.at[3] \in Nat
          /\ d3.at[1] \in Nat /\ d3.at[2] \in Nat /\ d3.at[3] \in Nat
      BY <1>0, <1>1
    <2>2. f.at[1] <= d3.at[1] /\ (f.at[1] = d3.at[1] => f.at[2] <= d3.at[2])
      BY <1>3, <1>4, <1>5
    <2>3. f.at[1] = d3.at[1] /\ f.at[2] = d3.at[2] => f.at[3] <= d3.at[3]
      BY <1>5
    <2>4. CASE f.at[1] = d3.at[1] /\ f.at[2] = d3.at[2] /\ f.at[3] = d3.at[3]
      BY <1>2, <2>4
    <2>5. CASE ~(f.at[1] = d3.at[1] /\ f.at[2] = d3.at[2] /\ f.at[3] = d3.at[3])
      BY <2>1, <2>2, <2>3, <2>5 DEF eventBefore
    <2> QED
      BY <2>4, <2>5
  <1> QED
    BY <1>6 DEF isLatest, E

LEMMA RegisterIs ==
    ASSUME NEW S, NEW m, stateOk(S, m), NEW t, NEW k
    PROVE  IF writesTo(S, t, k) = {} THEN register(S, t, k) = << >>
           ELSE \E e : register(S, t, k) = <<e>> /\ isLatest(e, writesTo(S, t, k))
  <1> DEFINE E == writesTo(S, t, k)
             c == CHOOSE e \in E : \A f \in E : e = f \/ eventBefore(f.at, e.at)
  <1>1. register(S, t, k) = IF E = {} THEN << >> ELSE <<c>>
    BY DEF register, writesTo
  <1>2. CASE E # {}
    <2>1. \E e \in E : \A f \in E : e = f \/ eventBefore(f.at, e.at)
      BY <1>2, LatestExists DEF isLatest
    <2>2. c \in E /\ \A f \in E : c = f \/ eventBefore(f.at, c.at)
      <3> HIDE DEF E
      <3> QED
        BY <2>1
    <2>3. isLatest(c, E)
      <3> HIDE DEF c
      <3> QED
        BY <2>2 DEF isLatest
    <2> HIDE DEF c
    <2> QED
      BY <1>1, <1>2, <2>3
  <1> QED
    BY <1>1, <1>2

\* The place of a metadata key behind the object id it belongs to.
offset(k) == IF k = "size" THEN 1 ELSE 2

\* What is written to a metadata key belongs to an attachment.
LEMMA MetadataIsAttached ==
    ASSUME NEW ops, NEW B, opsOk(ops, B), NEW k \in {"size", "mime"},
           NEW j \in 1..Len(ops), ops[j].type = "set", ops[j].key = k
    PROVE  /\ attachment(ops, j - offset(k), B) /\ j - offset(k) \in 1..Len(ops) /\ Len(ops) \in Nat
           /\ ops[j - offset(k)].type = "set" /\ ops[j - offset(k)].key = "oid"
           /\ ops[j - offset(k)].target = ops[j].target
           /\ ops[j].value = ops[j - offset(k)].value /\ ops[j].value \in B
  <1>0. Len(ops) \in Nat
    BY LenProperties DEF opsOk
  <1>1. attachment(ops, j - offset(k), B)
    BY DEF opsOk, offset
  <1>2. PICK i \in Nat : i = j - offset(k)
    BY <1>1 DEF attachment
  <1>3. PICK t \in Target, v \in B : /\ ops[i] = setOp(t, "oid", v) /\ ops[i + 1] = setOp(t, "size", v)
                                     /\ ops[i + 2] = setOp(t, "mime", v) /\ i # 0 /\ i + 2 <= Len(ops)
    BY <1>1, <1>2 DEF attachment
  <1>4. j = i + offset(k) /\ offset(k) \in {1, 2}
    BY <1>2 DEF offset
  <1>5. ops[j] = setOp(t, k, v)
    BY <1>3, <1>4 DEF offset
  <1>6. /\ ops[j].target = t /\ ops[j].value = v
        /\ ops[i].type = "set" /\ ops[i].key = "oid" /\ ops[i].target = t /\ ops[i].value = v
    BY <1>3, <1>5 DEF setOp
  <1>7. i \in 1..Len(ops)
    BY <1>0, <1>3
  <1> QED
    BY <1>0, <1>1, <1>2, <1>6, <1>7

\* An attachment's metadata is written behind its object id.
LEMMA AttachmentHasMetadata ==
    ASSUME NEW ops, NEW B, opsOk(ops, B), NEW k \in {"size", "mime"}, NEW i, attachment(ops, i, B)
    PROVE  /\ i \in Nat /\ i + offset(k) \in 1..Len(ops)
           /\ ops[i + offset(k)].type = "set" /\ ops[i + offset(k)].key = k
           /\ ops[i + offset(k)].target = ops[i].target /\ ops[i + offset(k)].value = ops[i].value
  <1>0. Len(ops) \in Nat
    BY LenProperties DEF opsOk
  <1>1. PICK t \in Target, v \in B : /\ ops[i] = setOp(t, "oid", v) /\ ops[i + 1] = setOp(t, "size", v)
                                     /\ ops[i + 2] = setOp(t, "mime", v) /\ i \in Nat \ {0} /\ i + 2 <= Len(ops)
    BY DEF attachment
  <1>2. ops[i + offset(k)] = setOp(t, k, v)
    BY <1>1 DEF offset
  <1>3. i + offset(k) \in 1..Len(ops)
    BY <1>0, <1>1 DEF offset
  <1> QED
    BY <1>1, <1>2, <1>3 DEF setOp

\* The latest object id came with an attachment: so did the latest metadata.
LEMMA AttachedTogether ==
    ASSUME NEW S, NEW m, stateOk(S, m), NEW t, NEW k \in {"size", "mime"},
           NEW p \in S, NEW i \in 1..Len(p.ops), attachment(p.ops, i, p.anchors),
           isLatest(eventOf(p, i), writesTo(S, t, "oid"))
    PROVE  register(S, t, k) = <<eventOf(p, i + offset(k))>>
  <1>0. /\ m \in Nat /\ opsOk(p.ops, p.anchors) /\ p.lamport \in Nat /\ p.writer \in Nat /\ i \in Nat
        /\ offset(k) \in {1, 2}
    BY DEF stateOk, offset
  <1>1. eventOf(p, i) \in writesTo(S, t, "oid")
    BY DEF isLatest
  <1>2. p.ops[i].target = t
    BY <1>1, EventFacts DEF writesTo
  <1> DEFINE d == i + offset(k)
  <1>3. /\ d \in 1..Len(p.ops) /\ p.ops[d].type = "set" /\ p.ops[d].key = k
        /\ p.ops[d].target = t
    BY <1>0, <1>2, AttachmentHasMetadata
  <1>4. eventOf(p, d) \in writesTo(S, t, k)
    BY <1>3, EventsAre
  <1>5. PICK f : register(S, t, k) = <<f>> /\ isLatest(f, writesTo(S, t, k))
    BY <1>4, RegisterIs
  <1>6. PICK q \in S, j \in Nat : /\ j \in 1..Len(q.ops) /\ f = eventOf(q, j) /\ q.ops[j].type = "set"
                                  /\ q.ops[j].target = t /\ q.ops[j].key = k
    BY <1>5, EventsAre DEF isLatest
  <1>7. opsOk(q.ops, q.anchors) /\ q.lamport \in Nat /\ q.writer \in Nat
    BY DEF stateOk
  <1> DEFINE g == j - offset(k)
  <1>8. /\ g \in 1..Len(q.ops) /\ q.ops[g].type = "set" /\ q.ops[g].key = "oid" /\ q.ops[g].target = t
        /\ Len(q.ops) \in Nat
    BY <1>6, <1>7, MetadataIsAttached
  <1>9. eventOf(q, g) \in writesTo(S, t, "oid") /\ g \in Int
    BY <1>8, EventsAre
  <1> HIDE DEF g, d
  <1>10. eventOf(p, i) = eventOf(q, g) \/ eventBefore(eventOf(q, g).at, eventOf(p, i).at)
    BY <1>9 DEF isLatest
  <1>11. f = eventOf(p, d) \/ eventBefore(eventOf(p, d).at, f.at)
    BY <1>4, <1>5 DEF isLatest
  <1>12. \/ p.lamport = q.lamport /\ p.writer = q.writer /\ g = i
         \/ q.lamport < p.lamport \/ (q.lamport = p.lamport /\ q.writer < p.writer)
         \/ q.lamport = p.lamport /\ q.writer = p.writer /\ g < i
    <2>1. i \in Int
      BY <1>0
    <2> QED
      BY <1>0, <1>7, <1>9, <1>10, <2>1, Compared
  <1>13. \/ p.lamport = q.lamport /\ p.writer = q.writer /\ d = j
         \/ p.lamport < q.lamport \/ (q.lamport = p.lamport /\ p.writer < q.writer)
         \/ q.lamport = p.lamport /\ q.writer = p.writer /\ d < j
    <2>1. eventOf(q, j) = eventOf(p, d) \/ eventBefore(eventOf(p, d).at, eventOf(q, j).at)
      BY <1>6, <1>11
    <2>2. d \in Int /\ j \in Int
      BY <1>0 DEF d
    <2> QED
      BY <1>0, <1>7, <2>1, <2>2, Compared
  <1>14. p.lamport = q.lamport /\ p.writer = q.writer
    BY <1>0, <1>7, <1>12, <1>13
  <1>15. g <= i /\ d <= j /\ g \in Int /\ d \in Int
    BY <1>0, <1>3, <1>6, <1>7, <1>9, <1>12, <1>13 DEF d
  <1>16. j = d
    BY <1>0, <1>6, <1>15 DEF g, d
  <1>17. p = q
    BY <1>14 DEF stateOk
  <1> QED
    BY <1>5, <1>6, <1>16, <1>17 DEF d

\* The latest object id was set alone: no metadata has its lineage.
LEMMA SetAlone ==
    ASSUME NEW S, NEW m, stateOk(S, m), NEW t, NEW k \in {"size", "mime"},
           NEW p \in S, NEW i \in 1..Len(p.ops), ~attachment(p.ops, i, p.anchors),
           isLatest(eventOf(p, i), writesTo(S, t, "oid")), NEW f \in writesTo(S, t, k)
    PROVE  ~(eventOf(p, i).at[1] = f.at[1] /\ eventOf(p, i).at[2] = f.at[2])
  <1> SUFFICES ASSUME eventOf(p, i).at[1] = f.at[1], eventOf(p, i).at[2] = f.at[2]
               PROVE  FALSE
    OBVIOUS
  <1>1. PICK q \in S, j \in Nat : /\ j \in 1..Len(q.ops) /\ f = eventOf(q, j) /\ q.ops[j].type = "set"
                                  /\ q.ops[j].target = t /\ q.ops[j].key = k
    BY EventsAre
  <1>2. p.lamport = q.lamport /\ p.writer = q.writer
    BY <1>1, EventFacts
  <1>3. p = q
    BY <1>2 DEF stateOk
  <1>4. opsOk(p.ops, p.anchors) /\ p.lamport \in Nat /\ p.writer \in Nat
    BY DEF stateOk
  <1> DEFINE g == j - offset(k)
  <1>5. /\ g \in 1..Len(p.ops) /\ p.ops[g].type = "set" /\ p.ops[g].key = "oid" /\ p.ops[g].target = t
        /\ attachment(p.ops, g, p.anchors) /\ Len(p.ops) \in Nat
    BY <1>1, <1>3, <1>4, MetadataIsAttached
  <1>6. eventOf(p, g) \in writesTo(S, t, "oid")
    BY <1>5, EventsAre
  <1> HIDE DEF g
  <1>7. eventOf(p, i) = eventOf(p, g) \/ eventBefore(eventOf(p, g).at, eventOf(p, i).at)
    BY <1>6 DEF isLatest
  <1>8. i = g \/ g < i
    BY <1>4, <1>7, EventFacts DEF eventBefore
  <1>9. i = 1
    <2>1. eventOf(p, i) \in writesTo(S, t, "oid")
      BY DEF isLatest
    <2>2. p.ops[i].type = "set" /\ p.ops[i].key = "oid"
      BY <2>1, EventFacts DEF writesTo
    <2> QED
      BY <1>4, <2>2 DEF opsOk
  <1>10. g = 1
    BY <1>5, <1>8, <1>9
  <1> QED
    BY <1>5, <1>9, <1>10


\* The patches of a replica are on the chains.
LEMMA StatesAreKnown ==
    ASSUME ContentInv, NEW S \in replicaStates
    PROVE  \A p \in S : \E w \in ContentWriter : \E i \in 1..Len(published[w]) : p = published[w][i]
  <1>1. PICK n \in [ContentWriter -> UNION {0..Len(published[v]) : v \in ContentWriter}] :
          /\ \A w \in ContentWriter : n[w] <= Len(published[w])
          /\ S = UNION {{published[w][i] : i \in 1..n[w]} : w \in ContentWriter}
    BY DEF replicaStates
  <1>2. \A w \in ContentWriter : Len(published[w]) \in Nat
    BY LenProperties DEF ContentInv, chainOk
  <1>3. \A w \in ContentWriter : \A i \in 1..n[w] : i \in 1..Len(published[w])
    <2> TAKE w \in ContentWriter
    <2>1. n[w] \in Int /\ n[w] <= Len(published[w]) /\ Len(published[w]) \in Nat
      BY <1>1, <1>2
    <2> QED
      BY <2>1
  <1> QED
    BY <1>1, <1>3

\* Their patches differ in lamport or writer, and there are finitely many.
LEMMA StatesAreOk ==
    ASSUME ContentInv, NEW S \in replicaStates
    PROVE  \E m \in Nat : stateOk(S, m)
  <1>1. \A w \in ContentWriter : Len(published[w]) \in Nat /\ w \in Nat
    BY LenProperties, ContentAssumption DEF ContentInv, chainOk
  <1> DEFINE lens == [w \in ContentWriter |-> Len(published[w])]
  <1>2. PICK m \in Nat : \A w \in ContentWriter : lens[w] <= m
    <2>1. \A w \in ContentWriter : lens[w] \in Nat
      BY <1>1
    <2> HIDE DEF lens
    <2> QED
      BY <2>1, ContentAssumption, BoundedOn
  <1> DEFINE P == {x \in ContentWriter \X (1..m) : x[2] <= Len(published[x[1]])}
             l == [x \in P |-> published[x[1]][x[2]].lamport]
             o == [x \in P |-> Len(published[x[1]][x[2]].ops)]
             u == [x \in P |-> x[1]]
  <1>3. IsFiniteSet(P)
    <2>1. IsFiniteSet(1..m)
      BY FS_Interval
    <2>2. IsFiniteSet(ContentWriter \X (1..m))
      BY <2>1, ContentAssumption, FS_Product, Zenon
    <2> QED
      BY <2>2, FS_Subset
  <1>4. ASSUME NEW w \in ContentWriter, NEW i \in 1..Len(published[w])
        PROVE  /\ published[w][i].writer = w /\ published[w][i].lamport \in Nat
               /\ opsOk(published[w][i].ops, published[w][i].anchors)
               /\ Len(published[w][i].ops) \in Nat
               /\ <<w, i>> \in P
    <2>1. patchOk(w, published[w][i])
      BY DEF ContentInv, chainOk
    <2>2. Len(published[w][i].ops) \in Nat
      BY <2>1, LenProperties DEF patchOk, opsOk
    <2>3. i \in 1..m /\ i <= Len(published[w])
      BY <1>1, <1>2
    <2> QED
      BY <2>1, <2>2, <2>3 DEF patchOk
  <1>5. \A x \in P : l[x] \in Nat /\ o[x] \in Nat /\ u[x] \in Nat
    <2> TAKE x \in P
    <2>1. x[1] \in ContentWriter /\ x[2] \in 1..Len(published[x[1]])
      BY <1>1
    <2> QED
      BY <1>1, <1>4, <2>1
  <1>6. PICK a \in Nat : \A x \in P : l[x] <= a
    <2> HIDE DEF P, l
    <2> QED
      BY <1>3, <1>5, BoundedOn
  <1>7. PICK b \in Nat : \A x \in P : o[x] <= b
    <2> HIDE DEF P, o
    <2> QED
      BY <1>3, <1>5, BoundedOn
  <1>8. PICK c \in Nat : \A x \in P : u[x] <= c
    <2> HIDE DEF P, u
    <2> QED
      BY <1>3, <1>5, BoundedOn
  <1>9. a + b + c \in Nat
    OBVIOUS
  <1>10. ASSUME NEW p \in S
         PROVE  /\ p.lamport \in 0..(a + b + c) /\ p.writer \in 0..(a + b + c)
                /\ Len(p.ops) \in 0..(a + b + c) /\ opsOk(p.ops, p.anchors)
    <2>1. PICK w \in ContentWriter, i \in Nat : i \in 1..Len(published[w]) /\ p = published[w][i]
      BY StatesAreKnown
    <2>2. /\ <<w, i>> \in P /\ l[<<w, i>>] = p.lamport /\ o[<<w, i>>] = Len(p.ops) /\ u[<<w, i>>] = p.writer
          /\ p.lamport \in Nat /\ Len(p.ops) \in Nat /\ p.writer \in Nat /\ opsOk(p.ops, p.anchors)
      BY <1>1, <1>4, <2>1
    <2>3. p.lamport <= a /\ Len(p.ops) <= b /\ p.writer <= c
      BY <1>6, <1>7, <1>8, <2>2
    <2> QED
      BY <2>2, <2>3
  <1>11. ASSUME NEW p \in S, NEW q \in S, p.lamport = q.lamport, p.writer = q.writer
         PROVE  p = q
    <2>1. PICK w \in ContentWriter, i \in Nat : i \in 1..Len(published[w]) /\ p = published[w][i]
      BY StatesAreKnown
    <2>2. PICK v \in ContentWriter, j \in Nat : j \in 1..Len(published[v]) /\ q = published[v][j]
      BY StatesAreKnown
    <2> HIDE DEF P, l, o, u, lens
    <2>a. /\ published[w][i].writer = w /\ published[w][i].lamport \in Nat
          /\ published[v][j].writer = v /\ published[v][j].lamport \in Nat
      BY <1>4, <2>1, <2>2
    <2>3. v = w
      BY <1>11, <2>1, <2>2, <2>a
    <2>4. ~(published[w][i].lamport < published[w][j].lamport) /\ ~(published[w][j].lamport < published[w][i].lamport)
      BY <1>11, <2>1, <2>2, <2>3, <2>a
    <2>5. ~(i < j) /\ ~(j < i)
      BY <2>1, <2>2, <2>3, <2>4 DEF ContentInv, chainOk
    <2> QED
      BY <2>1, <2>2, <2>3, <2>5
  <1> QED
    BY <1>9, <1>10, <1>11 DEF stateOk

\* An edge's metadata is not older than its object id: one shows if the other does.
LEMMA EdgeShows ==
    ASSUME NEW S, NEW m, stateOk(S, m), NEW e, NEW f, NEW k,
           register(S, "edge", "oid") = <<e>>, register(S, "edge", k) = <<f>>,
           \A d \in addsOf(S, "edge") : eventBefore(f.at, d) => eventBefore(e.at, d),
           visibleEdgeRegister(S, "oid") # << >>
    PROVE  visibleEdgeRegister(S, k) = <<f>>
  BY DEF visibleEdgeRegister

LEMMA MetadataShows ==
    ASSUME NEW S, NEW m, stateOk(S, m), NEW t \in Target, NEW k \in {"size", "mime"}, NEW p \in S,
           NEW i \in 1..Len(p.ops), register(S, t, "oid") = <<eventOf(p, i)>>,
           register(S, t, k) = <<eventOf(p, i + offset(k))>>,
           contentRegister(S, t, "oid") # << >>
    PROVE  contentRegister(S, t, k) = <<eventOf(p, i + offset(k))>>
  <1>1. CASE t = "node"
    BY <1>1 DEF contentRegister, getNodeContentRegister
  <1>2. CASE t = "edge"
    <2>1. ASSUME NEW d \in addsOf(S, "edge"), eventBefore(eventOf(p, i + offset(k)).at, d)
          PROVE  eventBefore(eventOf(p, i).at, d)
      <3>1. PICK x, y : x = eventOf(p, i + offset(k)).at /\ y = eventOf(p, i).at
        OBVIOUS
      <3>2. x[1] = y[1] /\ x[2] = y[2] /\ x[3] = i + offset(k) /\ y[3] = i
        BY <3>1, EventFacts
      <3>3. PICK z \in events(S) : d = z.at
        BY DEF addsOf
      <3>4. PICK q \in S : \E j \in 1..Len(q.ops) : z = [op |-> q.ops[j], at |-> <<q.lamport, q.writer, j>>]
        BY DEF events
      <3>5. PICK j \in 1..Len(q.ops) : z = [op |-> q.ops[j], at |-> <<q.lamport, q.writer, j>>]
        BY <3>4
      <3>6. d[3] = j /\ j \in Int /\ i \in Int /\ offset(k) \in {1, 2}
        BY <3>3, <3>5 DEF offset
      <3>7. eventBefore(x, d)
        BY <2>1, <3>1, Zenon
      <3>8. eventBefore(y, d)
        BY <3>2, <3>6, <3>7 DEF eventBefore
      <3> QED
        BY <3>1, <3>8, Zenon
    <2>2. aliveDots(S, "edge") # {} /\ aliveDots(S, "node") # {} /\ visibleEdgeRegister(S, "oid") # << >>
      BY <1>2 DEF contentRegister, getEdgeContentRegister
    <2>3. visibleEdgeRegister(S, k) = <<eventOf(p, i + offset(k))>>
      BY <1>2, <2>1, <2>2, EdgeShows
    <2> QED
      BY <1>2, <2>2, <2>3 DEF contentRegister, getEdgeContentRegister
  <1> QED
    BY <1>1, <1>2 DEF Target

\* A register shows a write to it, the latest.
LEMMA ShowsRegister ==
    ASSUME NEW S, NEW t, NEW k, contentRegister(S, t, k) # << >>, t \in Target
    PROVE  contentRegister(S, t, k) = register(S, t, k)
  BY DEF contentRegister, getNodeContentRegister, getEdgeContentRegister, visibleEdgeRegister, Target


\* Size and type of a content are those of its attachment, or none.
LEMMA MetaIsWhole ==
    ASSUME NEW S, NEW m, stateOk(S, m), NEW t \in Target, extractContentMeta(S, t) # << >>
    PROVE  /\ extractContentMeta(S, t)[1].size \in {extractContentMeta(S, t)[1].oid, Null}
           /\ extractContentMeta(S, t)[1].mime = extractContentMeta(S, t)[1].size
  <1> DEFINE content == contentRegister(S, t, "oid")
             sz == contentRegister(S, t, "size")
             mi == contentRegister(S, t, "mime")
             M == [oid |-> content[1].op.value, size |-> sameLineageValue(content, sz),
                   mime |-> sameLineageValue(content, mi)]
  <1>1. content # << >> /\ extractContentMeta(S, t) = <<M>>
    BY DEF extractContentMeta
  <1>2. /\ extractContentMeta(S, t)[1].oid = content[1].op.value
        /\ extractContentMeta(S, t)[1].size = sameLineageValue(content, sz)
        /\ extractContentMeta(S, t)[1].mime = sameLineageValue(content, mi)
    BY <1>1
  <1>3. content = register(S, t, "oid")
    BY <1>1, ShowsRegister
  <1>4. PICK e : register(S, t, "oid") = <<e>> /\ isLatest(e, writesTo(S, t, "oid"))
    BY <1>1, <1>3, RegisterIs
  <1>5. PICK p \in S, i \in Nat : i \in 1..Len(p.ops) /\ e = eventOf(p, i)
    BY <1>4, EventsAre DEF isLatest
  <1>6. content[1] = eventOf(p, i) /\ register(S, t, "oid") = <<eventOf(p, i)>>
        /\ isLatest(eventOf(p, i), writesTo(S, t, "oid"))
    BY <1>3, <1>4, <1>5
  <1>7. CASE attachment(p.ops, i, p.anchors)
    <2>1. ASSUME NEW k \in {"size", "mime"}
          PROVE  sameLineageValue(content, contentRegister(S, t, k)) = content[1].op.value
      <3> DEFINE f == eventOf(p, i + offset(k))
      <3>1. register(S, t, k) = <<f>>
        BY <1>5, <1>6, <1>7, AttachedTogether
      <3>2. contentRegister(S, t, k) = <<f>>
        BY <1>1, <1>5, <1>6, <3>1, MetadataShows
      <3>3. f.at[1] = eventOf(p, i).at[1] /\ f.at[2] = eventOf(p, i).at[2]
        BY EventFacts
      <3>4. f.op.value = p.ops[i].value
        <4>1. opsOk(p.ops, p.anchors)
          BY DEF stateOk
        <4>2. p.ops[i + offset(k)].value = p.ops[i].value
          BY <1>7, <4>1, AttachmentHasMetadata
        <4> QED
          BY <4>2, EventFacts
      <3>5. content[1].op.value = p.ops[i].value
        BY <1>6, EventFacts
      <3> HIDE DEF f, content
      <3>6. isSameAttachmentLineage(content, <<f>>)
        BY <1>6, <3>3 DEF isSameAttachmentLineage
      <3> QED
        BY <3>2, <3>4, <3>5, <3>6 DEF sameLineageValue
    <2> HIDE DEF content
    <2> QED
      BY <1>2, <2>1
  <1>8. CASE ~attachment(p.ops, i, p.anchors)
    <2>1. ASSUME NEW k \in {"size", "mime"}
          PROVE  sameLineageValue(content, contentRegister(S, t, k)) = Null
      <3> DEFINE r == contentRegister(S, t, k)
      <3>1. ASSUME r # << >>
            PROVE  ~(content[1].at[1] = r[1].at[1] /\ content[1].at[2] = r[1].at[2])
        <4>1. r = register(S, t, k)
          BY <3>1, ShowsRegister
        <4>2. PICK f : register(S, t, k) = <<f>> /\ f \in writesTo(S, t, k)
          BY <3>1, <4>1, RegisterIs DEF isLatest
        <4>3. ~(eventOf(p, i).at[1] = f.at[1] /\ eventOf(p, i).at[2] = f.at[2])
          BY <1>5, <1>6, <1>8, <4>2, SetAlone
        <4>4. r[1] = f
          BY <4>1, <4>2
        <4> HIDE DEF r, content
        <4> QED
          BY <1>6, <4>3, <4>4
      <3>2. ~isSameAttachmentLineage(content, r)
        <4> HIDE DEF r, content
        <4> QED
          BY <3>1 DEF isSameAttachmentLineage
      <3> QED
        BY <3>2 DEF sameLineageValue
    <2> HIDE DEF content
    <2> QED
      BY <1>2, <2>1
  <1> QED
    BY <1>7, <1>8

LEMMA ContentSuffices == ContentInv => ContentStaysWhole
  <1> SUFFICES ASSUME ContentInv, NEW S \in replicaStates, NEW t \in Target,
                      extractContentMeta(S, t) # << >>
               PROVE  LET m == extractContentMeta(S, t)[1]
                      IN  /\ m.size \in {m.oid, Null} /\ m.mime = m.size
                          /\ \A p \in S : (\E i \in 1..Len(p.ops) : /\ p.ops[i].type = "set"
                                                                   /\ p.ops[i].key = "size"
                                                                   /\ p.ops[i].value = m.oid) => m.oid \in blobs
    BY DEF ContentStaysWhole
  <1>1. PICK n \in Nat : stateOk(S, n)
    BY StatesAreOk
  <1>2. PICK m : m = extractContentMeta(S, t)[1]
    OBVIOUS
  <1>3. m.size \in {m.oid, Null} /\ m.mime = m.size
    BY <1>1, <1>2, MetaIsWhole
  <1>4. ASSUME NEW p \in S, NEW i \in 1..Len(p.ops), p.ops[i].type = "set", p.ops[i].key = "size"
        PROVE  p.ops[i].value \in blobs
    <2>1. opsOk(p.ops, p.anchors)
      BY <1>1 DEF stateOk
    <2>2. p.ops[i].value \in p.anchors
      BY <1>4, <2>1, MetadataIsAttached
    <2>3. PICK w \in ContentWriter : \E j \in 1..Len(published[w]) : p = published[w][j]
      BY StatesAreKnown
    <2>4. p.anchors \subseteq blobs
      BY <2>3 DEF ContentInv, chainOk
    <2> QED
      BY <2>2, <2>4
  <1> QED
    BY <1>2, <1>3, <1>4


----------------------------------------------------------------------------
(* Builders and commits.                                                   *)

\* Operations are only added behind.
LEMMA AttachmentStays ==
    ASSUME NEW D, NEW ops \in Seq(D), NEW more \in Seq(D), NEW B, NEW C, B \subseteq C,
           NEW i, attachment(ops, i, B)
    PROVE  attachment(ops \o more, i, C)
  <1>0. /\ Len(ops) \in Nat /\ Len(more) \in Nat /\ Len(ops \o more) = Len(ops) + Len(more)
        /\ \A j \in 1..Len(ops) : (ops \o more)[j] = ops[j]
    BY ConcatProperties, LenProperties
  <1>1. /\ i \in Nat \ {0} /\ i + 2 <= Len(ops)
        /\ \E t \in Target, v \in B :
             ops[i] = setOp(t, "oid", v) /\ ops[i + 1] = setOp(t, "size", v) /\ ops[i + 2] = setOp(t, "mime", v)
    BY DEF attachment
  <1>2. (ops \o more)[i] = ops[i] /\ (ops \o more)[i + 1] = ops[i + 1] /\ (ops \o more)[i + 2] = ops[i + 2]
    BY <1>0, <1>1
  <1>3. i + 2 <= Len(ops \o more)
    BY <1>0, <1>1
  <1> QED
    BY <1>1, <1>2, <1>3 DEF attachment

LEMMA OpsGrow ==
    ASSUME NEW ops, NEW B, opsOk(ops, B), NEW C, B \subseteq C, NEW E, NEW more \in Seq(E),
           \A i \in Len(ops) + 1 .. Len(ops) + Len(more) : more[i - Len(ops)].type = "set" =>
             \/ more[i - Len(ops)].key = "oid" /\ (i = 1 \/ attachment(ops \o more, i, C))
             \/ more[i - Len(ops)].key = "size" /\ attachment(ops \o more, i - 1, C)
             \/ more[i - Len(ops)].key = "mime" /\ attachment(ops \o more, i - 2, C)
    PROVE  opsOk(ops \o more, C)
  <1>1. PICK D : ops \in Seq(D)
    BY DEF opsOk
  <1>2. ops \in Seq(D \cup E) /\ more \in Seq(D \cup E)
    BY <1>1
  <1>3. /\ Len(ops) \in Nat /\ Len(more) \in Nat /\ Len(ops \o more) = Len(ops) + Len(more)
        /\ ops \o more \in Seq(D \cup E)
        /\ \A j \in 1..Len(ops) : (ops \o more)[j] = ops[j]
        /\ \A j \in Len(ops) + 1 .. Len(ops) + Len(more) : (ops \o more)[j] = more[j - Len(ops)]
    BY <1>2, ConcatProperties, LenProperties
  <1>4. ASSUME NEW i \in 1..Len(ops \o more), (ops \o more)[i].type = "set"
        PROVE  \/ (ops \o more)[i].key = "oid" /\ (i = 1 \/ attachment(ops \o more, i, C))
               \/ (ops \o more)[i].key = "size" /\ attachment(ops \o more, i - 1, C)
               \/ (ops \o more)[i].key = "mime" /\ attachment(ops \o more, i - 2, C)
    <2>1. CASE i \in 1..Len(ops)
      <3>1. (ops \o more)[i] = ops[i]
        BY <1>3, <2>1
      <3>2. \/ ops[i].key = "oid" /\ (i = 1 \/ attachment(ops, i, B))
            \/ ops[i].key = "size" /\ attachment(ops, i - 1, B)
            \/ ops[i].key = "mime" /\ attachment(ops, i - 2, B)
        BY <1>4, <2>1, <3>1 DEF opsOk
      <3>3. \A j : attachment(ops, j, B) => attachment(ops \o more, j, C)
        BY <1>2, AttachmentStays
      <3> QED
        BY <3>1, <3>2, <3>3
    <2>2. CASE i \in Len(ops) + 1 .. Len(ops) + Len(more)
      BY <1>3, <1>4, <2>2
    <2> QED
      BY <1>3, <2>1, <2>2
  <1> QED
    BY <1>3, <1>4 DEF opsOk

\* An operation that sets nothing, or the object id first of all.
LEMMA OpsGrowByOne ==
    ASSUME NEW ops, NEW B, opsOk(ops, B), NEW o,
           o.type # "set" \/ (ops = << >> /\ o.key = "oid")
    PROVE  opsOk(ops \o <<o>>, B)
  <1>1. <<o>> \in Seq({o}) /\ Len(<<o>>) = 1 /\ <<o>>[1] = o
    OBVIOUS
  <1>2. Len(ops) \in Nat /\ (ops = << >> => Len(ops) = 0)
    BY LenProperties DEF opsOk
  <1>3. \A i \in Len(ops) + 1 .. Len(ops) + Len(<<o>>) : i - Len(ops) = 1 /\ (ops = << >> => i = 1)
    BY <1>1, <1>2
  <1>4. PICK more : more = <<o>>
    OBVIOUS
  <1>5. \A i \in Len(ops) + 1 .. Len(ops) + Len(more) : more[i - Len(ops)].type = "set" =>
          more[i - Len(ops)].key = "oid" /\ i = 1
    BY <1>1, <1>3, <1>4
  <1>6. opsOk(ops \o more, B)
    <2>1. more \in Seq({o}) /\ B \subseteq B
      BY <1>1, <1>4
    <2> HIDE <1>4
    <2> QED
      BY <1>5, <2>1, OpsGrow
  <1> QED
    BY <1>4, <1>6

\* An attachment.
LEMMA OpsGrowByAttachment ==
    ASSUME NEW ops, NEW B, opsOk(ops, B), NEW t \in Target, NEW v
    PROVE  opsOk(ops \o <<setOp(t, "oid", v), setOp(t, "size", v), setOp(t, "mime", v)>>, B \cup {v})
  <1>1. PICK a, b, c : a = setOp(t, "oid", v) /\ b = setOp(t, "size", v) /\ c = setOp(t, "mime", v)
    OBVIOUS
  <1>2. PICK more : more = <<a, b, c>>
    OBVIOUS
  <1>3. more \in Seq({a, b, c}) /\ Len(more) = 3 /\ more[1] = a /\ more[2] = b /\ more[3] = c
    BY <1>2
  <1>4. a.key = "oid" /\ b.key = "size" /\ c.key = "mime"
    BY <1>1 DEF setOp
  <1>5. PICK D : ops \in Seq(D) /\ more \in Seq(D)
    <2>1. PICK D : ops \in Seq(D)
      BY DEF opsOk
    <2>2. ops \in Seq(D \cup {a, b, c}) /\ more \in Seq(D \cup {a, b, c})
      BY <1>3, <2>1
    <2> QED
      BY <2>2
  <1>6. PICK n \in Nat : n = Len(ops)
    BY <1>5, LenProperties
  <1>7. /\ Len(ops \o more) = n + 3
        /\ \A j \in n + 1 .. n + 3 : (ops \o more)[j] = more[j - n]
    <2>1. /\ Len(ops \o more) = Len(ops) + Len(more)
          /\ \A j \in Len(ops) + 1 .. Len(ops) + Len(more) : (ops \o more)[j] = more[j - Len(ops)]
      <3> HIDE <1>3
      <3> QED
        BY <1>5, ConcatProperties, LenProperties
    <2> QED
      BY <1>3, <1>6, <2>1
  <1>8. (ops \o more)[n + 1] = a /\ (ops \o more)[n + 2] = b /\ (ops \o more)[n + 3] = c
    <2>1. n + 1 \in n + 1 .. n + 3 /\ n + 2 \in n + 1 .. n + 3 /\ n + 3 \in n + 1 .. n + 3
      OBVIOUS
    <2>2. (n + 1) - n = 1 /\ (n + 2) - n = 2 /\ (n + 3) - n = 3
      OBVIOUS
    <2> QED
      BY <1>3, <1>7, <2>1, <2>2
  <1>9. attachment(ops \o more, n + 1, B \cup {v})
    <2>1. n + 1 \in Nat \ {0} /\ (n + 1) + 2 <= Len(ops \o more) /\ (n + 1) + 1 = n + 2 /\ (n + 1) + 2 = n + 3
      BY <1>7
    <2>2. v \in B \cup {v}
      OBVIOUS
    <2> QED
      BY <1>1, <1>8, <2>1, <2>2 DEF attachment
  <1>10. ASSUME NEW i \in n + 1 .. n + 3
         PROVE  \/ more[i - n].key = "oid" /\ attachment(ops \o more, i, B \cup {v})
                \/ more[i - n].key = "size" /\ attachment(ops \o more, i - 1, B \cup {v})
                \/ more[i - n].key = "mime" /\ attachment(ops \o more, i - 2, B \cup {v})
    <2>1. CASE i = n + 1
      <3>1. i - n = 1
        BY <2>1
      <3> QED
        BY <1>3, <1>4, <1>9, <2>1, <3>1
    <2>2. CASE i = n + 2
      <3>1. i - n = 2 /\ i - 1 = n + 1
        BY <2>2
      <3> QED
        BY <1>3, <1>4, <1>9, <3>1
    <2>3. CASE i = n + 3
      <3>1. i - n = 3 /\ i - 2 = n + 1
        BY <2>3
      <3> QED
        BY <1>3, <1>4, <1>9, <3>1
    <2> QED
      BY <2>1, <2>2, <2>3
  <1>11. opsOk(ops \o more, B \cup {v})
    BY <1>3, <1>6, <1>10, OpsGrow
  <1> QED
    BY <1>1, <1>2, <1>11


LEMMA ChainStays ==
    ASSUME NEW w, NEW chain, NEW bl, chainOk(w, chain, bl), NEW cl,
           \A i \in 1..Len(chain) : chain[i].anchors \subseteq cl
    PROVE  chainOk(w, chain, cl)
  BY DEF chainOk

LEMMA BuilderStays ==
    ASSUME NEW b, NEW chain, NEW bl, builderOk(b, chain, bl), NEW cl,
           b.contentBlobs \subseteq cl, \A a \in b.storing : a[1] \in cl
    PROVE  builderOk(b, chain, cl)
  BY DEF builderOk

\* A step of one builder that publishes nothing and prunes nothing.
LEMMA OneBuilder ==
    ASSUME ContentInv, NEW w \in ContentWriter, published' = published, blobs \subseteq blobs', NEW b,
           builders' = [builders EXCEPT ![w] = <<b>>], builderOk(b, published[w], blobs')
    PROVE  ContentInv'
  <1>1. /\ builders' = [v \in ContentWriter |-> builders'[v]] /\ builders'[w] = <<b>>
        /\ \A v \in ContentWriter : v # w => builders'[v] = builders[v]
    BY DEF ContentInv
  <1>2. published' = [v \in ContentWriter |-> published'[v]]
    BY DEF ContentInv
  <1>3. ASSUME NEW v \in ContentWriter
        PROVE  chainOk(v, published'[v], blobs')
    <2>1. chainOk(v, published[v], blobs)
      BY DEF ContentInv
    <2>2. \A i \in 1..Len(published[v]) : published[v][i].anchors \subseteq blobs'
      BY <2>1 DEF chainOk
    <2> QED
      BY <2>1, <2>2, ChainStays
  <1>4. ASSUME NEW v \in ContentWriter, builders'[v] # << >>
        PROVE  builders'[v] = <<builders'[v][1]>> /\ builderOk(builders'[v][1], published'[v], blobs')
    <2>1. CASE v = w
      BY <1>1, <2>1
    <2>2. CASE v # w
      <3>1. builders[v] = <<builders[v][1]>> /\ builderOk(builders[v][1], published[v], blobs)
        BY <1>1, <1>4, <2>2 DEF ContentInv
      <3>2. builderOk(builders[v][1], published[v], blobs')
        <4>1. /\ builders[v][1].contentBlobs \subseteq blobs'
              /\ \A a \in builders[v][1].storing : a[1] \in blobs'
          BY <3>1 DEF builderOk
        <4> QED
          BY <3>1, <4>1, BuilderStays
      <3> QED
        BY <1>1, <2>2, <3>1, <3>2
    <2> QED
      BY <2>1, <2>2
  <1> QED
    BY <1>1, <1>2, <1>3, <1>4 DEF ContentInv

LEMMA OpenBuilderKeeps ==
    ASSUME ContentInv, NEW w \in ContentWriter, openBuilder(w)
    PROVE  ContentInv'
  <1>1. PICK heard \in replicaStates, top \in {p.lamport : p \in known} \cup {0} :
          /\ \A i \in 1..Len(published[w]) : published[w][i] \in heard
          /\ \A p \in heard : p.lamport <= top
          /\ builders' = [builders EXCEPT ![w] =
               <<[lamport |-> 1 + top, ops |-> << >>, snapshot |-> heard, storing |-> {},
                  contentBlobs |-> {}, committing |-> FALSE]>>]
    BY DEF openBuilder
  <1>2. published' = published /\ blobs' = blobs
    BY DEF openBuilder
  <1>3. top \in Nat
    <2>1. \A p \in known : p.lamport \in Nat
      BY DEF known, ContentInv, chainOk, patchOk
    <2> QED
      BY <2>1
  <1>4. PICK b : b = [lamport |-> 1 + top, ops |-> << >>, snapshot |-> heard, storing |-> {},
                      contentBlobs |-> {}, committing |-> FALSE]
    OBVIOUS
  <1>5. /\ b \in builderShape({<< >>, heard, {}}) /\ b.lamport = 1 + top /\ b.ops = << >>
        /\ b.storing = {} /\ b.contentBlobs = {}
    BY <1>3, <1>4 DEF builderShape
  <1>6. builders' = [builders EXCEPT ![w] = <<b>>]
    BY <1>1, <1>4
  <1> HIDE <1>4
  <1>7. opsOk(<< >>, {})
    <2>1. << >> \in Seq({}) /\ Len(<< >>) = 0
      OBVIOUS
    <2> QED
      BY <2>1 DEF opsOk
  <1>8. \A i \in 1..Len(published[w]) : published[w][i].lamport < b.lamport
    <2> TAKE i \in 1..Len(published[w])
    <2>1. published[w][i].lamport <= top /\ published[w][i].lamport \in Nat
      BY <1>1 DEF ContentInv, chainOk, patchOk
    <2> QED
      BY <1>3, <1>5, <2>1
  <1>9. builderOk(b, published[w], blobs')
    BY <1>5, <1>7, <1>8 DEF builderOk
  <1> QED
    BY <1>2, <1>6, <1>9, OneBuilder

\* The open builder of w.
LEMMA OpenOne ==
    ASSUME ContentInv, NEW w \in ContentWriter, builders[w] # << >>
    PROVE  \E D : /\ builders[w] = <<builders[w][1]>> /\ builders[w][1] \in builderShape(D)
                  /\ builderOk(builders[w][1], published[w], blobs)
  BY DEF ContentInv, builderOk

LEMMA OnlyOne ==
    ASSUME NEW b, NEW c
    PROVE  [<<b>> EXCEPT ![1] = c] = <<c>>
  OBVIOUS

LEMMA PushKeeps ==
    ASSUME ContentInv, NEW w \in ContentWriter, builders[w] # << >>, NEW o,
           o.type # "set" \/ (builders[w][1].ops = << >> /\ o.key = "oid"),
           push(w, <<o>>), published' = published, blobs' = blobs
    PROVE  ContentInv'
  <1>1. PICK b : b = builders[w][1]
    OBVIOUS
  <1>2. PICK D : builders[w] = <<b>> /\ b \in builderShape(D) /\ builderOk(b, published[w], blobs)
    BY <1>1, OpenOne
  <1>3. PICK ops : ops = b.ops \o <<o>>
    OBVIOUS
  <1>4. PICK c : c = [b EXCEPT !.ops = ops]
    OBVIOUS
  <1>5. builders' = [builders EXCEPT ![w] = <<c>>]
    <2>1. builders' = [builders EXCEPT ![w] = [builders[w] EXCEPT ![1] = c]]
      BY <1>2, <1>3, <1>4 DEF push
    <2>2. builders[w] = <<b>>
      BY <1>2
    <2>3. [builders[w] EXCEPT ![1] = c] = <<c>>
      BY <2>2, OnlyOne, Zenon
    <2> QED
      BY <2>1, <2>3, Zenon
  <1>6. /\ c \in builderShape(D \cup {ops}) /\ c.ops = ops /\ c.lamport = b.lamport
        /\ c.contentBlobs = b.contentBlobs /\ c.storing = b.storing
    BY <1>2, <1>4 DEF builderShape
  <1>7. opsOk(ops, b.contentBlobs)
    BY <1>1, <1>2, <1>3, OpsGrowByOne DEF builderOk
  <1>8. builderOk(c, published[w], blobs')
    BY <1>2, <1>6, <1>7 DEF builderOk
  <1> QED
    BY <1>5, <1>8, OneBuilder

LEMMA EditsKeep ==
    ASSUME ContentInv, NEW w \in ContentWriter, NEW t,
           addTarget(w, t) \/ removeTarget(w, t) \/ setContentOnly(w, t)
    PROVE  ContentInv'
  <1>1. CASE addTarget(w, t)
    <2>1. PICK o : o = [type |-> "add", target |-> t]
      OBVIOUS
    <2>2. push(w, <<o>>) /\ o.type # "set"
      BY <1>1, <2>1 DEF addTarget
    <2> QED
      BY <1>1, <2>2, PushKeeps DEF addTarget, usable
  <1>2. CASE removeTarget(w, t)
    <2>1. PICK o : o = [type |-> "remove", observed |-> aliveDots(builders[w][1].snapshot, t)]
      OBVIOUS
    <2>2. push(w, <<o>>) /\ o.type # "set"
      BY <1>2, <2>1 DEF removeTarget
    <2> QED
      BY <1>2, <2>2, PushKeeps DEF removeTarget, usable
  <1>3. CASE setContentOnly(w, t)
    <2>1. PICK i \in blobs : push(w, <<[type |-> "set", target |-> t, key |-> "oid", value |-> i]>>)
      BY <1>3 DEF setContentOnly
    <2>2. PICK o : o = [type |-> "set", target |-> t, key |-> "oid", value |-> i]
      OBVIOUS
    <2>3. push(w, <<o>>) /\ o.key = "oid"
      BY <2>1, <2>2
    <2> QED
      BY <1>3, <2>3, PushKeeps DEF setContentOnly, usable
  <1> QED
    BY <1>1, <1>2, <1>3

LEMMA AttachContentKeeps ==
    ASSUME ContentInv, NEW w \in ContentWriter, NEW t \in Target, attachContent(w, t)
    PROVE  ContentInv'
  <1>1. PICK b : b = builders[w][1]
    OBVIOUS
  <1>2. PICK D : builders[w] = <<b>> /\ b \in builderShape(D) /\ builderOk(b, published[w], blobs)
    BY <1>1, OpenOne DEF attachContent, usable
  <1>3. /\ builders' = [builders EXCEPT ![w][1].storing = @ \cup {<<attached + 1, t>>}]
        /\ blobs' = blobs \cup {attached + 1} /\ published' = published
    BY DEF attachContent
  <1>4. PICK s : s = b.storing \cup {<<attached + 1, t>>}
    OBVIOUS
  <1>5. PICK c : c = [b EXCEPT !.storing = s]
    OBVIOUS
  <1>6. builders' = [builders EXCEPT ![w] = <<c>>]
    <2>1. builders' = [builders EXCEPT ![w] = [builders[w] EXCEPT ![1] = c]]
      BY <1>2, <1>3, <1>4, <1>5
    <2>2. builders[w] = <<b>>
      BY <1>2
    <2>3. [builders[w] EXCEPT ![1] = c] = <<c>>
      BY <2>2, OnlyOne, Zenon
    <2> QED
      BY <2>1, <2>3, Zenon
  <1>7. /\ c \in builderShape(D \cup {s}) /\ c.ops = b.ops /\ c.lamport = b.lamport
        /\ c.contentBlobs = b.contentBlobs /\ c.storing = s
    BY <1>2, <1>5 DEF builderShape
  <1>8. \A a \in s : a[1] \in blobs'
    BY <1>2, <1>3, <1>4 DEF builderOk
  <1>9. builderOk(c, published[w], blobs')
    BY <1>2, <1>3, <1>7, <1>8 DEF builderOk
  <1> QED
    BY <1>3, <1>6, <1>9, OneBuilder

LEMMA AttachEndsKeeps ==
    ASSUME ContentInv, NEW w \in ContentWriter, NEW a \in (1..MaxAttachments) \X Target, attachEnds(w, a)
    PROVE  ContentInv'
  <1>1. PICK b : b = builders[w][1]
    OBVIOUS
  <1>2. PICK D : builders[w] = <<b>> /\ b \in builderShape(D) /\ builderOk(b, published[w], blobs)
    BY <1>1, OpenOne DEF attachEnds
  <1>3. PICK s, x, y, z : /\ s = b.storing \ {a} /\ x = setOp(a[2], "oid", a[1])
                          /\ y = setOp(a[2], "size", a[1]) /\ z = setOp(a[2], "mime", a[1])
    OBVIOUS
  <1>4. PICK c : c = [b EXCEPT !.storing = s]
    OBVIOUS
  <1>5. /\ c \in builderShape(D \cup {s}) /\ c.ops = b.ops /\ c.lamport = b.lamport
        /\ c.contentBlobs = b.contentBlobs /\ c.storing = s /\ c.committing = b.committing
    BY <1>2, <1>4 DEF builderShape
  <1>6. published' = published /\ blobs' = blobs /\ a \in b.storing
    BY <1>1 DEF attachEnds
  <1>7. builders' = [builders EXCEPT ![w] =
          <<IF c.committing THEN c
            ELSE [c EXCEPT !.contentBlobs = @ \cup {a[1]}, !.ops = @ \o <<x, y, z>>]>>]
    BY <1>1, <1>3, <1>4 DEF attachEnds, setOp
  <1> HIDE <1>4
  <1>8. builderOk(c, published[w], blobs)
    BY <1>2, <1>3, <1>5 DEF builderOk
  <1>9. CASE c.committing
    BY <1>6, <1>7, <1>8, <1>9, OneBuilder
  <1>10. CASE ~c.committing
    <2>1. PICK ops, B : ops = c.ops \o <<x, y, z>> /\ B = c.contentBlobs \cup {a[1]}
      OBVIOUS
    <2>2. PICK d : d = [c EXCEPT !.contentBlobs = B, !.ops = ops]
      OBVIOUS
    <2>3. builders' = [builders EXCEPT ![w] = <<d>>]
      BY <1>7, <1>10, <2>1, <2>2
    <2>4. /\ d \in builderShape(D \cup {s, ops, B}) /\ d.ops = ops /\ d.lamport = c.lamport
          /\ d.contentBlobs = B /\ d.storing = s
      BY <1>5, <2>2 DEF builderShape
    <2>5. a[2] \in Target
      OBVIOUS
    <2>6. opsOk(ops, B)
      BY <1>3, <1>8, <2>1, <2>5, OpsGrowByAttachment DEF builderOk
    <2>7. a[1] \in blobs
      BY <1>2, <1>6 DEF builderOk
    <2>8. builderOk(d, published[w], blobs')
      BY <1>5, <1>6, <1>8, <2>1, <2>4, <2>6, <2>7 DEF builderOk
    <2> QED
      BY <1>6, <2>3, <2>8, OneBuilder
  <1> QED
    BY <1>9, <1>10

LEMMA CommitEnds ==
    ASSUME ContentInv, NEW w \in ContentWriter, commitBegins(w) \/ commitFails(w)
    PROVE  ContentInv'
  <1>0. builders[w] # << >> /\ published' = published /\ blobs' = blobs
    BY DEF commitBegins, commitFails, usable
  <1>1. PICK b : b = builders[w][1]
    OBVIOUS
  <1>2. PICK D : builders[w] = <<b>> /\ b \in builderShape(D) /\ builderOk(b, published[w], blobs)
    BY <1>0, <1>1, OpenOne
  <1>3. PICK v \in BOOLEAN : builders' = [builders EXCEPT ![w][1].committing = v]
    BY DEF commitBegins, commitFails
  <1>4. PICK c : c = [b EXCEPT !.committing = v]
    OBVIOUS
  <1>5. builders' = [builders EXCEPT ![w] = <<c>>]
    <2>1. builders' = [builders EXCEPT ![w] = [builders[w] EXCEPT ![1] = c]]
      BY <1>2, <1>3, <1>4
    <2>2. builders[w] = <<b>>
      BY <1>2
    <2>3. [builders[w] EXCEPT ![1] = c] = <<c>>
      BY <2>2, OnlyOne, Zenon
    <2> QED
      BY <2>1, <2>3, Zenon
  <1>6. /\ c \in builderShape(D) /\ c.ops = b.ops /\ c.lamport = b.lamport
        /\ c.contentBlobs = b.contentBlobs /\ c.storing = b.storing
    BY <1>2, <1>4 DEF builderShape
  <1>7. builderOk(c, published[w], blobs')
    BY <1>0, <1>2, <1>6 DEF builderOk
  <1> QED
    BY <1>0, <1>5, <1>7, OneBuilder


LEMMA CommitLandsKeeps ==
    ASSUME ContentInv, NEW w \in ContentWriter, commitLands(w)
    PROVE  ContentInv'
  <1>0. builders[w] # << >> /\ blobs' = blobs /\ builders' = [builders EXCEPT ![w] = << >>]
    BY DEF commitLands
  <1>1. PICK b : b = builders[w][1]
    OBVIOUS
  <1>2. builderOk(b, published[w], blobs) /\ b.lamport \in Nat
    BY <1>0, <1>1, OpenOne DEF builderShape
  <1>3. PICK p : p = [writer |-> w, lamport |-> b.lamport, ops |-> b.ops, anchors |-> b.contentBlobs]
    OBVIOUS
  <1>4. published' = [published EXCEPT ![w] = Append(@, p)]
    BY <1>1, <1>3 DEF commitLands
  <1>5. p.writer = w /\ p.lamport = b.lamport /\ p.ops = b.ops /\ p.anchors = b.contentBlobs
    BY <1>3
  <1> HIDE <1>3
  <1>6. PICK chain : chain = published[w]
    OBVIOUS
  <1>7. chainOk(w, chain, blobs)
    BY <1>6 DEF ContentInv
  <1>8. PICK D : chain \in Seq(D)
    BY <1>7 DEF chainOk
  <1>9. PICK n \in Nat : n = Len(chain)
    BY <1>8, LenProperties
  <1>10. PICK new : new = Append(chain, p)
    OBVIOUS
  <1>11. /\ new \in Seq(D \cup {p}) /\ Len(new) = n + 1 /\ new[n + 1] = p
         /\ \A i \in 1..n : new[i] = chain[i]
    <2>1. chain \in Seq(D \cup {p}) /\ p \in D \cup {p}
      BY <1>8
    <2> QED
      BY <1>9, <1>10, <2>1, AppendProperties
  <1> HIDE <1>10
  <1>12. \A i \in 1..Len(new) : patchOk(w, new[i]) /\ new[i].anchors \subseteq blobs
    <2> TAKE i \in 1..Len(new)
    <2>1. CASE i \in 1..n
      BY <1>7, <1>9, <1>11, <2>1 DEF chainOk
    <2>2. CASE i = n + 1
      BY <1>2, <1>5, <1>11, <2>2 DEF builderOk, patchOk
    <2> QED
      BY <1>11, <2>1, <2>2
  <1>13. \A i, j \in 1..Len(new) : i < j => new[i].lamport < new[j].lamport
    <2> SUFFICES ASSUME NEW i \in 1..Len(new), NEW j \in 1..Len(new), i < j
                 PROVE  new[i].lamport < new[j].lamport
      OBVIOUS
    <2>1. i \in 1..n /\ (j \in 1..n \/ j = n + 1)
      BY <1>11
    <2>2. CASE j \in 1..n
      BY <1>7, <1>9, <1>11, <2>1, <2>2 DEF chainOk
    <2>3. CASE j = n + 1
      BY <1>2, <1>5, <1>6, <1>9, <1>11, <2>1, <2>3 DEF builderOk
    <2> QED
      BY <2>1, <2>2, <2>3
  <1>14. chainOk(w, new, blobs)
    BY <1>11, <1>12, <1>13 DEF chainOk
  <1>15. /\ published' = [v \in ContentWriter |-> published'[v]] /\ published'[w] = new
         /\ \A v \in ContentWriter : v # w => published'[v] = published[v]
    BY <1>4, <1>6, <1>10 DEF ContentInv
  <1>16. /\ builders' = [v \in ContentWriter |-> builders'[v]] /\ builders'[w] = << >>
         /\ \A v \in ContentWriter : v # w => builders'[v] = builders[v]
    BY <1>0 DEF ContentInv
  <1>17. ASSUME NEW v \in ContentWriter
         PROVE  /\ chainOk(v, published'[v], blobs')
                /\ builders'[v] # << >> => /\ builders'[v] = <<builders'[v][1]>>
                                           /\ builderOk(builders'[v][1], published'[v], blobs')
    <2>1. CASE v = w
      BY <1>0, <1>14, <1>15, <1>16, <2>1
    <2>2. CASE v # w
      BY <1>0, <1>15, <1>16, <2>2 DEF ContentInv
    <2> QED
      BY <2>1, <2>2
  <1> QED
    BY <1>15, <1>16, <1>17 DEF ContentInv

LEMMA PruneBlobsKeeps ==
    ASSUME ContentInv, pruneBlobs
    PROVE  ContentInv'
  <1>0. UNCHANGED <<builders, published>>
    BY DEF pruneBlobs
  <1>1. \A x \in blobs : isKept(x) => x \in blobs'
    BY DEF pruneBlobs
  <1>2. ASSUME NEW w \in ContentWriter
        PROVE  chainOk(w, published[w], blobs')
    <2>1. chainOk(w, published[w], blobs)
      BY DEF ContentInv
    <2>2. ASSUME NEW i \in 1..Len(published[w])
          PROVE  published[w][i].anchors \subseteq blobs'
      <3>1. published[w][i] \in known
        BY DEF known
      <3>2. \A x \in published[w][i].anchors : isKept(x)
        BY <3>1 DEF isKept
      <3>3. published[w][i].anchors \subseteq blobs
        BY <2>1 DEF chainOk
      <3> QED
        BY <1>1, <3>2, <3>3
    <2> QED
      BY <2>1, <2>2, ChainStays
  <1>3. ASSUME NEW w \in ContentWriter, builders[w] # << >>
        PROVE  builders[w] = <<builders[w][1]>> /\ builderOk(builders[w][1], published[w], blobs')
    <2>1. builders[w] = <<builders[w][1]>> /\ builderOk(builders[w][1], published[w], blobs)
      BY <1>3 DEF ContentInv
    <2>2. PICK b : b = builders[w][1]
      OBVIOUS
    <2>3. (\A x \in b.contentBlobs : isKept(x)) /\ \A a \in b.storing : isKept(a[1])
      BY <1>3, <2>2 DEF isKept
    <2>4. b.contentBlobs \subseteq blobs' /\ \A a \in b.storing : a[1] \in blobs'
      BY <1>1, <2>1, <2>2, <2>3 DEF builderOk
    <2> QED
      BY <2>1, <2>2, <2>4, BuilderStays
  <1> QED
    BY <1>0, <1>2, <1>3 DEF ContentInv

LEMMA ContentStarts == ContentInit => ContentInv
  <1> SUFFICES ASSUME ContentInit
               PROVE  ContentInv
    OBVIOUS
  <1>1. /\ builders = [w \in ContentWriter |-> << >>]
        /\ published = [w \in ContentWriter |-> IF w = 1 THEN <<basePatch>> ELSE << >>]
    BY DEF ContentInit
  <1>2. chainOk(1, <<basePatch>>, blobs)
    <2>1. PICK a, b : a = [type |-> "add", target |-> "node"] /\ b = [type |-> "add", target |-> "edge"]
      OBVIOUS
    <2>2. a.type = "add" /\ b.type = "add"
      BY <2>1
    <2>3. PICK ops : ops = <<a, b>>
      OBVIOUS
    <2>4. ops \in Seq({a, b}) /\ Len(ops) = 2 /\ ops[1] = a /\ ops[2] = b
      BY <2>3
    <2>5. \A i \in 1..Len(ops) : ops[i].type # "set"
      BY <2>2, <2>4
    <2>6. opsOk(ops, {})
      BY <2>4, <2>5 DEF opsOk
    <2>7. /\ basePatch.writer = 1 /\ basePatch.lamport = 1 /\ basePatch.anchors = {} /\ basePatch.ops = ops
      BY <2>1, <2>3 DEF basePatch
    <2>8. patchOk(1, basePatch)
      BY <2>6, <2>7 DEF patchOk
    <2>9. PICK s : s = <<basePatch>>
      OBVIOUS
    <2>10. s \in Seq({basePatch}) /\ Len(s) = 1 /\ s[1] = basePatch
      BY <2>9
    <2>11. \A i \in 1..Len(s) : i = 1
      BY <2>10
    <2> HIDE <2>9
    <2>12. chainOk(1, s, blobs)
      BY <2>7, <2>8, <2>10, <2>11 DEF chainOk
    <2> QED
      BY <2>9, <2>12
  <1>3. \A w : chainOk(w, << >>, blobs)
    <2>1. << >> \in Seq({}) /\ Len(<< >>) = 0
      OBVIOUS
    <2> QED
      BY <2>1 DEF chainOk
  <1> QED
    BY <1>1, <1>2, <1>3 DEF ContentInv

LEMMA ContentStep == ContentInv /\ [ContentNext]_contentVars => ContentInv'
  <1> SUFFICES ASSUME ContentInv, [ContentNext]_contentVars
               PROVE  ContentInv'
    OBVIOUS
  <1>1. ASSUME NEW w \in ContentWriter, openBuilder(w)
        PROVE  ContentInv'
    BY <1>1, OpenBuilderKeeps
  <1>2. ASSUME NEW w \in ContentWriter, commitBegins(w) \/ commitFails(w)
        PROVE  ContentInv'
    BY <1>2, CommitEnds
  <1>3. ASSUME NEW w \in ContentWriter, commitLands(w)
        PROVE  ContentInv'
    BY <1>3, CommitLandsKeeps
  <1>4. ASSUME NEW w \in ContentWriter, NEW t, addTarget(w, t) \/ removeTarget(w, t) \/ setContentOnly(w, t)
        PROVE  ContentInv'
    BY <1>4, EditsKeep
  <1>5. ASSUME NEW w \in ContentWriter, NEW t \in Target, attachContent(w, t)
        PROVE  ContentInv'
    BY <1>5, AttachContentKeeps
  <1>6. ASSUME NEW w \in ContentWriter, NEW a \in (1..MaxAttachments) \X Target, attachEnds(w, a)
        PROVE  ContentInv'
    BY <1>6, AttachEndsKeeps
  <1>7. CASE pruneBlobs
    BY <1>7, PruneBlobsKeeps
  <1>8. CASE UNCHANGED contentVars
    BY <1>8 DEF contentVars, ContentInv
  <1> QED
    BY <1>1, <1>2, <1>3, <1>4, <1>5, <1>6, <1>7, <1>8 DEF ContentNext

\* Whatever patches a replica has, the size and type it reports for a content
\* are those of the attachment the content came with, or none for content set
\* alone, and an attached blob is there to be read: for any writers, any
\* attachments under way at once, commits that overtake them or fail, and
\* pruning in between (getContentMeta, attachContent, commit)
THEOREM ContentAlwaysWhole == ContentSpec => []ContentStaysWhole
  BY ContentStarts, ContentStep, ContentSuffices, PTL DEF ContentSpec

----------------------------------------------------------------------------
(* The index of commits.                                                   *)

isSeq(s) == \E C : s \in Seq(C)

\* Parents are older than their children.
historyOk(P) ==
    /\ P \in Seq(SUBSET Nat) /\ Len(P) <= MaxCommit
    /\ \A c \in 1..Len(P) : P[c] \subseteq 1..(c - 1)

\* The walk, at the commit d or before it, has put in the edge from p to c;
\* E are the parents of the last commit that it has still to put in.
isAdded(P, N, d, E, p, c) ==
    /\ c \in (d + 1)..N /\ p \in P[c]
    /\ ~(c = d + 1 /\ p \in E)

\* Ids are given once, to all the commits that were visited at least.
idsGiven(N, d, ids) ==
    /\ ids \in Seq(1..N)
    /\ \A i, j \in 1..Len(ids) : ids[i] = ids[j] => i = j
    /\ \A c \in (d + 1)..N : \E i \in 1..Len(ids) : ids[i] = c

\* The entry x is one of the two for some edge that was put in.
isEntry(P, N, d, E, ids, x) ==
    \E i \in 1..Len(ids), s \in 1..N :
      \/ x = <<"fwd", s, i>> /\ isAdded(P, N, d, E, s, ids[i])
      \/ x = <<"rev", s, i>> /\ isAdded(P, N, d, E, ids[i], s)

hasEntries(p, c, ids, M) ==
    \E i, j \in 1..Len(ids) : /\ ids[i] = c /\ <<"fwd", p, i>> \in M
                              /\ ids[j] = p /\ <<"rev", c, j>> \in M

entriesExact(P, N, d, E, ids, M) ==
    /\ \A x \in M : isEntry(P, N, d, E, ids, x)
    /\ \A c \in 1..N, p \in 1..N : isAdded(P, N, d, E, p, c) => hasEntries(p, c, ids, M)

\* What the builder has in memory and in storage.
collected(b) == b.bitmaps \cup _mergeChunks(b.chunks)

walkOk(P, N, b) ==
    /\ b.frontier \in 0..N /\ b.at \in 0..N
    /\ b.edges \subseteq (IF b.at < N THEN P[b.at + 1] ELSE {})
    /\ idsGiven(N, b.at, b.idToSha)
    /\ entriesExact(P, N, b.at, b.edges, b.idToSha, collected(b))

\* A flush has stored what is in memory, so that it can be dropped.
flushOk(b) ==
    /\ b.flushes \in {0, 1}
    /\ b.flushes = 1 => b.bitmaps \subseteq _mergeChunks(b.chunks)
    /\ ~b.streaming => b.chunks = << >>

buildShape(D) ==
    [phase : D, streaming : BOOLEAN, max : D, frontier : Int, at : Int, edges : D, idToSha : D,
     bitmaps : D, bytes : D, chunks : D, flushes : Int, reload : BOOLEAN]

buildTyped(b) == (\E D : b \in buildShape(D)) /\ \E C : b.chunks \in Seq(C)

buildOk(P, T, b) ==
    /\ buildTyped(b)
    /\ b.phase \in {"idle", "iterate", "written"}
    /\ b.phase = "written" => Len(T) > 0
    /\ b.phase = "iterate" => flushOk(b) /\ \E N \in 0..Len(P) : walkOk(P, N, b)

\* A tree is exact for the first N commits.
metaOk(N, m) ==
    /\ \A x \in m : x = <<x[1], x[2]>> /\ x[1] \in 1..N
    /\ \A c \in 1..N : \E x \in m : x[1] = c
    /\ \A x, y \in m : x[1] = y[1] <=> x[2] = y[2]

treeOk(P, t) ==
    \E N \in 0..Len(P) :
      /\ t.frontier \in 0..N /\ metaOk(N, t.meta)
      /\ \A z \in t.fwd : z = <<z[1], z[2]>> /\ \E y \in t.meta : y[2] = z[2] /\ z[1] \in P[y[1]]
      /\ \A y \in t.meta, p \in 1..N : p \in P[y[1]] => <<p, y[2]>> \in t.fwd
      /\ \A z \in t.rev : /\ z = <<z[1], z[2]>> /\ z[1] \in 1..N
                          /\ \E x \in t.meta : x[2] = z[2] /\ x[1] \in P[z[1]]
      /\ \A x \in t.meta, c \in 1..N : x[1] \in P[c] => <<c, x[2]>> \in t.rev

\* Nothing that the reader may skip is damaged.
sound(r) == r.strict \/ r.bad = {}

\* What a reader takes a shard to be.
shardOk(t, r, path, data) ==
    /\ data \subseteq t[path[1]]
    /\ sound(r) => \A x \in t[path[1]] : Prefix(x[1]) = path[2] => x \in data

readerShape(D) ==
    [tree : Int, strict : BOOLEAN, cached : D, bad : D, known : BOOLEAN, idToSha : D]

cacheOk(t, r, c) ==
    /\ isSeq(c)
    /\ \A i \in 1..Len(c) : shardOk(t, r, c[i].path, c[i].data)

readerOk(t, r) ==
    /\ \E D : r \in readerShape(D)
    /\ cacheOk(t, r, r.cached)
    /\ r.idToSha \subseteq t.meta

exactAnswer(P, t, sha, kind) ==
    LET shas == {x[1] : x \in t.meta}
    IN  IF sha \notin shas THEN {}
        ELSE IF kind = "rev" THEN P[sha] ELSE {c \in shas : sha \in P[c]}

answerOk(P, t, r, q) ==
    /\ q.answer \subseteq exactAnswer(P, t, q.sha, q.kind)
    /\ sound(r) => exactAnswer(P, t, q.sha, q.kind) \subseteq q.answer

\* The ids that a query has found.
idsFound(t, r, q) ==
    /\ \A i \in q.ids : <<q.sha, i>> \in t[q.kind]
    /\ sound(r) => \A y \in t[q.kind] : y[1] = q.sha => y[2] \in q.ids

queryShape(D) ==
    [sha : Int, kind : D, phase : D, ids : D, todo : D, answer : D]

queryOk(P, t, r, q) ==
    /\ \E D : q \in queryShape(D)
    /\ q.sha \in 1..Len(P) /\ q.kind \in {"fwd", "rev"}
    /\ q.phase \in {"edges", "mapping", "done", "failed"}
    /\ q.phase = "done" => answerOk(P, t, r, q)
    /\ q.phase = "mapping" =>
         /\ r.known /\ idsFound(t, r, q) /\ \A p \in q.todo : p \in kinds \X {0, 1} /\ p[1] = "meta"
         /\ sound(r) => \A x \in t.meta : <<"meta", Prefix(x[1])>> \notin q.todo => x \in r.idToSha

queriesOk(P, t, r, Q) ==
    /\ isSeq(Q)
    /\ \A n \in 1..Len(Q) : queryOk(P, t, r, Q[n]) /\ (n < Len(Q) => Q[n].phase = "done")
    /\ r.known /\ (\A n \in 1..Len(Q) : Q[n].phase \in {"edges", "done"}) /\ sound(r) =>
         t.meta \subseteq r.idToSha

readingOk(P, T, r, Q) ==
    \/ r = noReader /\ Q = << >>
    \/ r.tree \in 1..Len(T) /\ readerOk(T[r.tree], r) /\ queriesOk(P, T[r.tree], r, Q)

CommitIndexInv ==
    /\ historyOk(parents) /\ buildOk(parents, trees, build)
    /\ \E D : trees \in Seq(D)
    /\ \A n \in 1..Len(trees) : treeOk(parents, trees[n])
    /\ readingOk(parents, trees, reader, queries)

\* The entries of the chunks are those of some chunk.
LEMMA Merged == ASSUME NEW ch, NEW x
                PROVE  x \in _mergeChunks(ch) <=> \E i \in 1..Len(ch) : x \in ch[i]
  BY Zenon DEF _mergeChunks

LEMMA ChunkMerged ==
    ASSUME NEW C, NEW ch \in Seq(C), NEW m, NEW x
    PROVE  x \in _mergeChunks(Append(ch, m)) <=> x \in _mergeChunks(ch) \/ x \in m
  <1>1. PICK D : D = C \cup {m}
    OBVIOUS
  <1>2. ch \in Seq(D) /\ m \in D
    BY <1>1, SeqMonotonic
  <1>3. /\ Len(ch) \in Nat /\ Len(Append(ch, m)) = Len(ch) + 1 /\ Append(ch, m)[Len(ch) + 1] = m
        /\ \A i \in 1..Len(ch) : Append(ch, m)[i] = ch[i]
    BY <1>2, AppendProperties, LenProperties
  <1>4. PICK d : d = Append(ch, m)
    OBVIOUS
  <1>5. x \in _mergeChunks(d) <=> \E i \in 1..Len(d) : x \in d[i]
    BY Merged
  <1>6. x \in _mergeChunks(ch) <=> \E i \in 1..Len(ch) : x \in ch[i]
    BY Merged
  <1>7. \A i \in 1..Len(d) : i \in 1..Len(ch) \/ i = Len(ch) + 1
    BY <1>3, <1>4
  <1>8. 1..Len(ch) \subseteq 1..Len(d) /\ Len(ch) + 1 \in 1..Len(d)
    BY <1>3, <1>4
  <1> QED
    BY <1>3, <1>4, <1>5, <1>6, <1>7, <1>8

extends(ids, new) ==
    /\ Len(ids) \in Nat /\ Len(new) \in Nat /\ Len(ids) <= Len(new)
    /\ \A i \in 1..Len(ids) : new[i] = ids[i]

oneEach(ids) == \A i, j \in 1..Len(ids) : ids[i] = ids[j] => i = j

givenId(ids, sha) == IF \E i \in 1..Len(ids) : ids[i] = sha THEN ids ELSE Append(ids, sha)

\* The ids once sha has one.
isGiven(N, ids, sha, new) ==
    /\ new \in Seq(1..N) /\ oneEach(new) /\ extends(ids, new)
    /\ \E i \in 1..Len(new) : new[i] = sha

LEMMA IdGiven ==
    ASSUME NEW N, NEW ids \in Seq(1..N), oneEach(ids), NEW sha \in 1..N
    PROVE  isGiven(N, ids, sha, givenId(ids, sha))
  <1> SUFFICES ASSUME NEW new, new = givenId(ids, sha)
               PROVE  isGiven(N, ids, sha, new)
    OBVIOUS
  <1>1. Len(ids) \in Nat
    BY LenProperties
  <1>2. CASE \E i \in 1..Len(ids) : ids[i] = sha
    BY <1>1, <1>2 DEF givenId, extends, isGiven
  <1>3. CASE ~\E i \in 1..Len(ids) : ids[i] = sha
    <2>1. /\ new \in Seq(1..N) /\ Len(new) = Len(ids) + 1 /\ new[Len(ids) + 1] = sha
          /\ \A i \in 1..Len(ids) : new[i] = ids[i]
      <3>1. new = Append(ids, sha)
        BY <1>3 DEF givenId
      <3> QED
        BY <3>1, AppendProperties
    <2>2. \A i \in 1..Len(new) : i \in 1..Len(ids) \/ i = Len(ids) + 1
      BY <1>1, <2>1
    <2>3. oneEach(new)
      BY <1>1, <1>3, <2>1, <2>2 DEF oneEach
    <2>4. extends(ids, new)
      BY <1>1, <2>1 DEF extends
    <2>5. Len(ids) + 1 \in 1..Len(new)
      BY <1>1, <2>1
    <2> QED
      BY <2>1, <2>3, <2>4, <2>5 DEF isGiven
  <1> QED
    BY <1>2, <1>3

LEMMA ExtendsTrans ==
    ASSUME NEW a, NEW b, NEW c, extends(a, b), extends(b, c)
    PROVE  extends(a, c)
  BY DEF extends

LEMMA EntriesStay ==
    ASSUME NEW P, NEW N, NEW d, NEW E, NEW ids, NEW M, entriesExact(P, N, d, E, ids, M),
           NEW new, extends(ids, new)
    PROVE  entriesExact(P, N, d, E, new, M)
  <1>1. \A i \in 1..Len(ids) : i \in 1..Len(new) /\ new[i] = ids[i]
    BY DEF extends
  <1>2. \A x \in M : isEntry(P, N, d, E, new, x)
    <2> SUFFICES ASSUME NEW x \in M
                 PROVE  isEntry(P, N, d, E, new, x)
      OBVIOUS
    <2>1. PICK i \in 1..Len(ids), s \in 1..N :
            \/ x = <<"fwd", s, i>> /\ isAdded(P, N, d, E, s, ids[i])
            \/ x = <<"rev", s, i>> /\ isAdded(P, N, d, E, ids[i], s)
      BY DEF entriesExact, isEntry
    <2>2. i \in 1..Len(new) /\ new[i] = ids[i]
      BY <1>1
    <2> QED
      BY <2>1, <2>2 DEF isEntry
  <1>3. ASSUME NEW c \in 1..N, NEW p \in 1..N, isAdded(P, N, d, E, p, c)
        PROVE  hasEntries(p, c, new, M)
    <2>1. PICK i, j \in 1..Len(ids) : /\ ids[i] = c /\ <<"fwd", p, i>> \in M
                                      /\ ids[j] = p /\ <<"rev", c, j>> \in M
      BY <1>3 DEF entriesExact, hasEntries
    <2>2. i \in 1..Len(new) /\ j \in 1..Len(new) /\ new[i] = c /\ new[j] = p
      BY <1>1, <2>1
    <2> QED
      BY <2>1, <2>2 DEF hasEntries
  <1> QED
    BY <1>2, <1>3 DEF entriesExact

\* A commit that is registered has its edges still to come.
LEMMA EntriesOfNext ==
    ASSUME NEW P, NEW N \in Nat, NEW d \in 1..N, NEW ids, NEW M,
           entriesExact(P, N, d, {}, ids, M)
    PROVE  entriesExact(P, N, d - 1, P[d], ids, M)
  <1>1. \A p, c : isAdded(P, N, d - 1, P[d], p, c) <=> isAdded(P, N, d, {}, p, c)
    BY DEF isAdded
  <1> QED
    BY <1>1 DEF entriesExact, isEntry

LEMMA EntriesOfEdge ==
    ASSUME NEW P, historyOk(P), NEW N \in 0..Len(P), NEW d \in 0..N, NEW E, NEW p \in E,
           E \subseteq (IF d < N THEN P[d + 1] ELSE {}),
           NEW ids, oneEach(ids), NEW M, NEW M2, entriesExact(P, N, d, E, ids, M),
           NEW i \in 1..Len(ids), ids[i] = d + 1, NEW j \in 1..Len(ids), ids[j] = p,
           \A x : x \in M2 <=> x \in M \/ x = <<"fwd", p, i>> \/ x = <<"rev", d + 1, j>>
    PROVE  entriesExact(P, N, d, E \ {p}, ids, M2)
  <1>1. Len(P) \in Nat
    BY LenProperties DEF historyOk
  <1>2. d < N /\ p \in P[d + 1] /\ d + 1 \in 1..N
    BY <1>1
  <1>3. p \in 1..N
    BY <1>1, <1>2 DEF historyOk
  <1>4. \A q, c : isAdded(P, N, d, E \ {p}, q, c) <=> isAdded(P, N, d, E, q, c) \/ (q = p /\ c = d + 1)
    BY <1>1, <1>2 DEF isAdded
  <1>5. ASSUME NEW x \in M2
        PROVE  isEntry(P, N, d, E \ {p}, ids, x)
    <2>1. CASE x \in M
      BY <1>4, <2>1 DEF entriesExact, isEntry
    <2>2. CASE x = <<"fwd", p, i>>
      <3>1. isAdded(P, N, d, E \ {p}, p, ids[i])
        BY <1>4
      <3> QED
        BY <1>3, <2>2, <3>1 DEF isEntry
    <2>3. CASE x = <<"rev", d + 1, j>>
      <3>1. isAdded(P, N, d, E \ {p}, ids[j], d + 1)
        BY <1>4
      <3> QED
        BY <1>2, <2>3, <3>1 DEF isEntry
    <2> QED
      BY <1>5, <2>1, <2>2, <2>3
  <1>6. ASSUME NEW c \in 1..N, NEW q \in 1..N, isAdded(P, N, d, E \ {p}, q, c)
        PROVE  hasEntries(q, c, ids, M2)
    <2>1. CASE isAdded(P, N, d, E, q, c)
      BY <2>1 DEF entriesExact, hasEntries
    <2>2. CASE q = p /\ c = d + 1
      <3>1. <<"fwd", p, i>> \in M2 /\ <<"rev", d + 1, j>> \in M2
        OBVIOUS
      <3> QED
        BY <2>2, <3>1 DEF hasEntries
    <2> QED
      BY <1>4, <1>6, <2>1, <2>2
  <1> QED
    BY <1>5, <1>6 DEF entriesExact

\* A history that grows keeps what was known of its beginning.
LEMMA HistoryGrows ==
    ASSUME NEW P, historyOk(P), Len(P) < MaxCommit, NEW X, X \subseteq 1..Len(P), NEW Q, Q = Append(P, X)
    PROVE  /\ historyOk(Q) /\ Len(P) \in Nat /\ Len(Q) = Len(P) + 1
           /\ \A c \in 1..Len(P) : Q[c] = P[c]
  <1>1. /\ Len(P) \in Nat /\ Q \in Seq(SUBSET Nat) /\ Len(Q) = Len(P) + 1 /\ Q[Len(P) + 1] = X
        /\ \A c \in 1..Len(P) : Q[c] = P[c]
    <2>1. P \in Seq(SUBSET Nat) /\ X \in SUBSET Nat /\ Len(P) \in Nat
      BY LenProperties DEF historyOk
    <2> QED
      BY <2>1, AppendProperties
  <1>2. \A c \in 1..Len(Q) : c \in 1..Len(P) \/ c = Len(P) + 1
    BY <1>1
  <1>3. \A c \in 1..Len(Q) : Q[c] \subseteq 1..(c - 1)
    <2> SUFFICES ASSUME NEW c \in 1..Len(Q)
                 PROVE  Q[c] \subseteq 1..(c - 1)
      OBVIOUS
    <2>1. CASE c \in 1..Len(P)
      BY <1>1, <2>1 DEF historyOk
    <2>2. CASE c = Len(P) + 1
      <3>1. c - 1 = Len(P) /\ Q[c] = X
        BY <1>1, <2>2
      <3> QED
        BY <3>1
    <2> QED
      BY <1>2, <2>1, <2>2
  <1> QED
    BY <1>1, <1>3, CommitIndexAssumption DEF historyOk

\* The two histories agree on the commits of P.
grown(P, Q) == /\ Len(P) \in Nat /\ Len(Q) \in Nat /\ Len(P) <= Len(Q)
               /\ \A c \in 1..Len(P) : Q[c] = P[c]

LEMMA WalkStays ==
    ASSUME NEW P, NEW Q, grown(P, Q), NEW N \in 0..Len(P), NEW b, walkOk(P, N, b)
    PROVE  N \in 0..Len(Q) /\ walkOk(Q, N, b)
  <1>1. N \in 0..Len(Q) /\ \A c \in 1..N : c \in 1..Len(P) /\ Q[c] = P[c]
    BY DEF grown
  <1>2. b.edges \subseteq (IF b.at < N THEN Q[b.at + 1] ELSE {})
    <2>1. b.at < N => b.at + 1 \in 1..N
      BY <1>1 DEF walkOk
    <2> QED
      BY <1>1, <2>1 DEF walkOk
  <1>3. \A p, c : isAdded(Q, N, b.at, b.edges, p, c) <=> isAdded(P, N, b.at, b.edges, p, c)
    <2>1. \A c \in (b.at + 1)..N : c \in 1..N
      BY <1>1 DEF walkOk
    <2> QED
      BY <1>1, <2>1 DEF isAdded
  <1>4. entriesExact(Q, N, b.at, b.edges, b.idToSha, collected(b))
    <2>1. entriesExact(P, N, b.at, b.edges, b.idToSha, collected(b))
      BY DEF walkOk
    <2> QED
      BY <1>3, <2>1 DEF entriesExact, isEntry
  <1> QED
    BY <1>1, <1>2, <1>4 DEF walkOk

LEMMA TreeStays ==
    ASSUME NEW P, NEW Q, grown(P, Q), NEW t, treeOk(P, t)
    PROVE  treeOk(Q, t)
  <1>1. PICK N \in 0..Len(P) :
      /\ t.frontier \in 0..N /\ metaOk(N, t.meta)
      /\ \A z \in t.fwd : z = <<z[1], z[2]>> /\ \E y \in t.meta : y[2] = z[2] /\ z[1] \in P[y[1]]
      /\ \A y \in t.meta, p \in 1..N : p \in P[y[1]] => <<p, y[2]>> \in t.fwd
      /\ \A z \in t.rev : /\ z = <<z[1], z[2]>> /\ z[1] \in 1..N
                          /\ \E x \in t.meta : x[2] = z[2] /\ x[1] \in P[z[1]]
      /\ \A x \in t.meta, c \in 1..N : x[1] \in P[c] => <<c, x[2]>> \in t.rev
    BY DEF treeOk
  <1>2. N \in 0..Len(Q) /\ \A c \in 1..N : Q[c] = P[c]
    BY DEF grown
  <1>3. \A y \in t.meta : Q[y[1]] = P[y[1]]
    BY <1>1, <1>2 DEF metaOk
  <1>4. \A z \in t.fwd : z = <<z[1], z[2]>> /\ \E y \in t.meta : y[2] = z[2] /\ z[1] \in Q[y[1]]
    BY <1>1, <1>3
  <1>5. \A y \in t.meta, p \in 1..N : p \in Q[y[1]] => <<p, y[2]>> \in t.fwd
    BY <1>1, <1>3
  <1>6. \A z \in t.rev : /\ z = <<z[1], z[2]>> /\ z[1] \in 1..N
                         /\ \E x \in t.meta : x[2] = z[2] /\ x[1] \in Q[z[1]]
    BY <1>1, <1>2
  <1>7. \A x \in t.meta, c \in 1..N : x[1] \in Q[c] => <<c, x[2]>> \in t.rev
    BY <1>1, <1>2
  <1> QED
    BY <1>1, <1>2, <1>4, <1>5, <1>6, <1>7 DEF treeOk

LEMMA AnswersStay ==
    ASSUME NEW P, NEW Q, grown(P, Q), NEW t, treeOk(P, t), NEW sha, NEW kind
    PROVE  exactAnswer(Q, t, sha, kind) = exactAnswer(P, t, sha, kind)
  <1>1. PICK N \in 0..Len(P) : metaOk(N, t.meta)
    BY DEF treeOk
  <1>2. \A c \in 1..N : Q[c] = P[c]
    BY DEF grown
  <1>3. \A c \in {x[1] : x \in t.meta} : Q[c] = P[c]
    BY <1>1, <1>2 DEF metaOk
  <1> QED
    BY <1>3 DEF exactAnswer

LEMMA ReadingStays ==
    ASSUME NEW P, NEW Q, grown(P, Q), NEW T, \A n \in 1..Len(T) : treeOk(P, T[n]), NEW r, NEW A,
           readingOk(P, T, r, A)
    PROVE  readingOk(Q, T, r, A)
  <1>1. CASE r = noReader /\ A = << >>
    BY <1>1 DEF readingOk
  <1>2. CASE r.tree \in 1..Len(T) /\ readerOk(T[r.tree], r) /\ queriesOk(P, T[r.tree], r, A)
    <2>1. \A n \in 1..Len(A) : queryOk(Q, T[r.tree], r, A[n])
      <3> SUFFICES ASSUME NEW n \in 1..Len(A)
                   PROVE  queryOk(Q, T[r.tree], r, A[n])
        OBVIOUS
      <3>1. PICK q, t : q = A[n] /\ t = T[r.tree]
        OBVIOUS
      <3>2. queryOk(P, t, r, q) /\ treeOk(P, t)
        BY <1>2, <3>1 DEF queriesOk
      <3>3. exactAnswer(Q, t, q.sha, q.kind) = exactAnswer(P, t, q.sha, q.kind)
        BY <3>2, AnswersStay
      <3>4. q.sha \in 1..Len(Q)
        BY <3>2 DEF queryOk, grown
      <3>5. answerOk(P, t, r, q) => answerOk(Q, t, r, q)
        BY <3>3 DEF answerOk
      <3>6. queryOk(Q, t, r, q)
        BY <3>2, <3>4, <3>5 DEF queryOk
      <3> QED
        BY <3>1, <3>6
    <2>2. queriesOk(Q, T[r.tree], r, A)
      BY <1>2, <2>1 DEF queriesOk
    <2> QED
      BY <1>2, <2>2 DEF readingOk
  <1> QED
    BY <1>1, <1>2 DEF readingOk

LEMMA NewCommitKeeps == CommitIndexInv /\ newCommit => CommitIndexInv'
  <1> SUFFICES ASSUME CommitIndexInv, newCommit
               PROVE  CommitIndexInv'
    OBVIOUS
  <1>1. PICK X : /\ X \in {{c \in {Len(parents)} : c > 0}, {c \in {Len(parents), Len(parents) - 1} : c > 0}}
                 /\ parents' = Append(parents, X)
    BY DEF newCommit
  <1>2. Len(parents) \in Nat /\ historyOk(parents) /\ Len(parents) < MaxCommit
    BY LenProperties DEF CommitIndexInv, historyOk, newCommit
  <1>3. X \subseteq 1..Len(parents)
    BY <1>1, <1>2
  <1>4. PICK P, Q : P = parents /\ Q = parents'
    OBVIOUS
  <1>5. historyOk(Q) /\ grown(P, Q)
    <2>1. /\ historyOk(Q) /\ Len(P) \in Nat /\ Len(Q) = Len(P) + 1
          /\ \A c \in 1..Len(P) : Q[c] = P[c]
      BY <1>1, <1>2, <1>3, <1>4, HistoryGrows
    <2> QED
      BY <2>1 DEF grown
  <1>6. UNCHANGED <<build, trees, reader, queries, rebuilds>>
    BY DEF newCommit
  <1>7. buildOk(Q, trees, build)
    <2>1. buildOk(P, trees, build)
      BY <1>4 DEF CommitIndexInv
    <2>2. (\E N \in 0..Len(P) : walkOk(P, N, build)) => \E N \in 0..Len(Q) : walkOk(Q, N, build)
      BY <1>5, WalkStays
    <2> QED
      BY <2>1, <2>2 DEF buildOk
  <1>8. \A n \in 1..Len(trees) : treeOk(P, trees[n]) /\ treeOk(Q, trees[n])
    BY <1>4, <1>5, TreeStays DEF CommitIndexInv
  <1>9. readingOk(Q, trees, reader, queries)
    <2>1. readingOk(P, trees, reader, queries)
      BY <1>4 DEF CommitIndexInv
    <2> QED
      BY <1>5, <1>8, <2>1, ReadingStays
  <1>10. \E D : trees \in Seq(D)
    BY DEF CommitIndexInv
  <1> QED
    BY <1>4, <1>5, <1>6, <1>7, <1>8, <1>9, <1>10 DEF CommitIndexInv

----------------------------------------------------------------------------
(* The walk.                                                               *)

LEMMA BuilderTakesId ==
    ASSUME NEW b, buildTyped(b), NEW sha
    PROVE  /\ _getOrCreateId(b, sha) = [b EXCEPT !.idToSha = givenId(b.idToSha, sha)]
           /\ buildTyped(_getOrCreateId(b, sha))
           /\ _getOrCreateId(b, sha).idToSha = givenId(b.idToSha, sha)
  <1>1. PICK D, C : b \in buildShape(D) /\ b.chunks \in Seq(C)
    BY DEF buildTyped
  <1>2. PICK x : x = givenId(b.idToSha, sha)
    OBVIOUS
  <1>3. _getOrCreateId(b, sha) = [b EXCEPT !.idToSha = x]
    <2>1. CASE \E i \in 1..Len(b.idToSha) : b.idToSha[i] = sha
      <3>1. x = b.idToSha /\ _getOrCreateId(b, sha) = b
        BY <1>2, <2>1 DEF givenId, _getOrCreateId
      <3>2. [b EXCEPT !.idToSha = b.idToSha] = b
        BY <1>1 DEF buildShape
      <3> QED
        BY <3>1, <3>2
    <2>2. CASE ~\E i \in 1..Len(b.idToSha) : b.idToSha[i] = sha
      BY <1>2, <2>2 DEF givenId, _getOrCreateId
    <2> QED
      BY <2>1, <2>2
  <1>4. PICK n : n = [b EXCEPT !.idToSha = x]
    OBVIOUS
  <1>5. n \in buildShape(D \cup {x}) /\ n.chunks = b.chunks /\ n.idToSha = x
    BY <1>1, <1>4 DEF buildShape
  <1>6. buildTyped(n)
    BY <1>1, <1>5 DEF buildTyped
  <1> QED
    BY <1>2, <1>3, <1>4, <1>5, <1>6

LEMMA RegisterKeeps == CommitIndexInv /\ registerNode => CommitIndexInv'
  <1> SUFFICES ASSUME CommitIndexInv, registerNode
               PROVE  CommitIndexInv'
    OBVIOUS
  <1>1. PICK P, b : P = parents /\ b = build
    OBVIOUS
  <1>2. b.phase = "iterate" /\ b.at > 0 /\ b.edges = {}
    BY <1>1 DEF registerNode, building
  <1>3. historyOk(P) /\ buildTyped(b) /\ flushOk(b) /\ buildOk(P, trees, b)
    BY <1>1, <1>2 DEF CommitIndexInv, buildOk
  <1>4. PICK N \in 0..Len(P) : walkOk(P, N, b)
    BY <1>2, <1>3 DEF buildOk
  <1>5. PICK d : d = b.at /\ d \in 1..N /\ N \in Nat /\ Len(P) \in Nat
    <2>1. Len(P) \in Nat
      BY <1>3, LenProperties DEF historyOk
    <2> QED
      BY <1>2, <1>4, <2>1 DEF walkOk
  <1>6. PICK ids, new : ids = b.idToSha /\ new = givenId(ids, d)
    OBVIOUS
  <1>7. PICK c : c = _getOrCreateId(b, d)
    OBVIOUS
  <1>8. c = [b EXCEPT !.idToSha = new] /\ buildTyped(c)
    BY <1>3, <1>6, <1>7, BuilderTakesId
  <1>9. PICK X : X = P[d]
    OBVIOUS
  <1>10. PICK e : e = [[c EXCEPT !.at = d - 1] EXCEPT !.edges = X]
    OBVIOUS
  <1>11. build' = [c EXCEPT !.at = c.at - 1, !.edges = X]
    BY <1>1, <1>5, <1>7, <1>9 DEF registerNode
  <1>12. PICK D, C : b \in buildShape(D) /\ b.chunks \in Seq(C)
    BY <1>3 DEF buildTyped
  <1>13. /\ c \in buildShape(D \cup {new}) /\ c.at = d /\ c.idToSha = new
         /\ c.chunks = b.chunks /\ c.bitmaps = b.bitmaps /\ c.flushes = b.flushes
         /\ c.streaming = b.streaming /\ c.frontier = b.frontier /\ c.phase = b.phase
    BY <1>5, <1>8, <1>12 DEF buildShape
  <1>14. build' = e
    BY <1>10, <1>11, <1>13
  <1>15. /\ e \in buildShape(D \cup {new, X}) /\ e.at = d - 1 /\ e.edges = X /\ e.idToSha = new
         /\ e.chunks = b.chunks /\ e.bitmaps = b.bitmaps /\ e.flushes = b.flushes
         /\ e.streaming = b.streaming /\ e.frontier = b.frontier /\ e.phase = b.phase
    <2>1. PICK G : G = D \cup {new}
      OBVIOUS
    <2>2. D \cup {new, X} = G \cup {X} /\ c \in buildShape(G) /\ d - 1 \in Int
      BY <1>5, <1>13, <2>1
    <2>3. /\ e \in buildShape(G \cup {X}) /\ e.at = d - 1 /\ e.edges = X /\ e.idToSha = c.idToSha
          /\ e.chunks = c.chunks /\ e.bitmaps = c.bitmaps /\ e.flushes = c.flushes
          /\ e.streaming = c.streaming /\ e.frontier = c.frontier /\ e.phase = c.phase
      BY <1>10, <2>2 DEF buildShape
    <2> QED
      BY <1>13, <2>2, <2>3
  <1>16. buildTyped(e)
    BY <1>12, <1>15 DEF buildTyped
  <1>17. collected(e) = collected(b)
    BY <1>15 DEF collected
  <1>18. idsGiven(N, d, ids) /\ oneEach(ids) /\ ids \in Seq(1..N)
    BY <1>4, <1>5, <1>6 DEF walkOk, idsGiven, oneEach
  <1>19. new \in Seq(1..N) /\ oneEach(new) /\ extends(ids, new) /\ \E i \in 1..Len(new) : new[i] = d
    <2>1. isGiven(N, ids, d, new)
      BY <1>5, <1>6, <1>18, IdGiven
    <2> QED
      BY <2>1 DEF isGiven
  <1>20. idsGiven(N, d - 1, new)
    <2>1. \A k \in ((d - 1) + 1)..N : k = d \/ k \in (d + 1)..N
      BY <1>5
    <2>2. \A k \in (d + 1)..N : \E i \in 1..Len(new) : new[i] = k
      <3> SUFFICES ASSUME NEW k \in (d + 1)..N
                   PROVE  \E i \in 1..Len(new) : new[i] = k
        OBVIOUS
      <3>1. PICK i \in 1..Len(ids) : ids[i] = k
        BY <1>18 DEF idsGiven
      <3>2. i \in 1..Len(new) /\ new[i] = k
        BY <1>19, <3>1 DEF extends
      <3> QED
        BY <3>2
    <2> QED
      BY <1>19, <2>1, <2>2 DEF idsGiven, oneEach
  <1>21. entriesExact(P, N, d - 1, X, new, collected(b))
    <2>1. entriesExact(P, N, d, {}, ids, collected(b))
      BY <1>2, <1>4, <1>5, <1>6 DEF walkOk
    <2>2. entriesExact(P, N, d - 1, X, ids, collected(b))
      BY <1>5, <1>9, <2>1, EntriesOfNext
    <2> QED
      BY <1>19, <2>2, EntriesStay
  <1>22. walkOk(P, N, e)
    <2>1. e.frontier \in 0..N /\ e.at \in 0..N
      BY <1>4, <1>5, <1>15 DEF walkOk
    <2>2. e.edges \subseteq (IF e.at < N THEN P[e.at + 1] ELSE {})
      <3>1. e.at < N /\ e.at + 1 = d
        BY <1>5, <1>15
      <3> QED
        BY <1>9, <1>15, <3>1
    <2> QED
      BY <1>15, <1>17, <1>20, <1>21, <2>1, <2>2 DEF walkOk
  <1>23. buildOk(P, trees, e)
    BY <1>2, <1>3, <1>15, <1>16, <1>17, <1>22 DEF buildOk, flushOk
  <1>24. UNCHANGED <<parents, trees, reader, queries, rebuilds>>
    BY DEF registerNode
  <1> QED
    BY <1>1, <1>14, <1>23, <1>24 DEF CommitIndexInv

\* What is not part of the builder stays.
LEMMA BuilderOnly ==
    ASSUME CommitIndexInv, UNCHANGED <<parents, trees, reader, queries>>, buildOk(parents, trees, build')
    PROVE  CommitIndexInv'
  BY DEF CommitIndexInv

\* What an edge leaves alone.
sameBuild(b, n) ==
    /\ n.phase = b.phase /\ n.streaming = b.streaming /\ n.frontier = b.frontier /\ n.at = b.at
    /\ n.edges = b.edges /\ n.chunks = b.chunks /\ n.flushes = b.flushes /\ n.max = b.max

LEMMA IdTaken ==
    ASSUME NEW b, buildTyped(b), NEW sha, NEW n, n = _getOrCreateId(b, sha)
    PROVE  buildTyped(n) /\ n.idToSha = givenId(b.idToSha, sha) /\ n.bitmaps = b.bitmaps /\ sameBuild(b, n)
  <1>1. PICK D : b \in buildShape(D)
    BY DEF buildTyped
  <1>2. PICK x : x = givenId(b.idToSha, sha)
    OBVIOUS
  <1>3. buildTyped(n) /\ n = [b EXCEPT !.idToSha = x] /\ n.idToSha = x
    BY <1>2, BuilderTakesId
  <1>4. n.bitmaps = b.bitmaps /\ sameBuild(b, n)
    BY <1>1, <1>3 DEF buildShape, sameBuild
  <1> QED
    BY <1>2, <1>3, <1>4

LEMMA BitmapTaken ==
    ASSUME NEW b, buildTyped(b), NEW kind, NEW sha, NEW id, NEW n, n = _addToBitmap(b, kind, sha, id)
    PROVE  /\ buildTyped(n) /\ n.idToSha = b.idToSha /\ sameBuild(b, n)
           /\ n.bitmaps = b.bitmaps \cup {<<kind, sha, id>>}
  <1>1. PICK D, C : b \in buildShape(D) /\ b.chunks \in Seq(C)
    BY DEF buildTyped
  <1>2. PICK m : m = b.bitmaps \cup {<<kind, sha, id>>}
    OBVIOUS
  <1>3. PICK k : k = b.bytes + (IF \E x \in b.bitmaps : x[1] = kind /\ x[2] = sha THEN 0
                                ELSE BITMAP_BASE_OVERHEAD)
                             + (IF <<kind, sha, id>> \in b.bitmaps THEN 0 ELSE 4)
    OBVIOUS
  <1>4. n = [[b EXCEPT !.bitmaps = m] EXCEPT !.bytes = k]
    BY <1>2, <1>3 DEF _addToBitmap
  <1>5. n \in buildShape(D \cup {m, k}) /\ n.bitmaps = m /\ n.idToSha = b.idToSha /\ sameBuild(b, n)
    BY <1>1, <1>4 DEF buildShape, sameBuild
  <1>6. buildTyped(n)
    BY <1>1, <1>5 DEF buildTyped, sameBuild
  <1> QED
    BY <1>2, <1>5, <1>6

\* Both commits of an edge get an id, and the edge its two entries.
edgeTaken(b, N, p, c, n) ==
    /\ buildTyped(n) /\ sameBuild(b, n)
    /\ n.idToSha \in Seq(1..N) /\ oneEach(n.idToSha) /\ extends(b.idToSha, n.idToSha)
    /\ \E i, j \in 1..Len(n.idToSha) :
         /\ n.idToSha[i] = c /\ n.idToSha[j] = p
         /\ n.bitmaps = b.bitmaps \cup {<<"fwd", p, i>>, <<"rev", c, j>>}

LEMMA EdgeTaken ==
    ASSUME NEW b, buildTyped(b), NEW N, b.idToSha \in Seq(1..N), oneEach(b.idToSha),
           NEW p \in 1..N, NEW c \in 1..N
    PROVE  edgeTaken(b, N, p, c, addBoth(b, p, c))
  <1> SUFFICES ASSUME NEW n, n = addBoth(b, p, c)
               PROVE  edgeTaken(b, N, p, c, n)
    OBVIOUS
  <1>1. PICK x : x = _getOrCreateId(b, p)
    OBVIOUS
  <1>2. PICK y : y = _getOrCreateId(x, c)
    OBVIOUS
  <1>3. PICK a0, a1, a2 : a0 = b.idToSha /\ a1 = givenId(a0, p) /\ a2 = givenId(a1, c)
    OBVIOUS
  <1>4. buildTyped(x) /\ x.idToSha = a1 /\ x.bitmaps = b.bitmaps /\ sameBuild(b, x)
    BY <1>1, <1>3, IdTaken
  <1>5. buildTyped(y) /\ y.idToSha = a2 /\ y.bitmaps = x.bitmaps /\ sameBuild(x, y)
    BY <1>2, <1>3, <1>4, IdTaken
  <1>6. a1 \in Seq(1..N) /\ oneEach(a1) /\ extends(a0, a1) /\ \E j \in 1..Len(a1) : a1[j] = p
    <2>1. isGiven(N, a0, p, a1)
      BY <1>3, IdGiven
    <2> QED
      BY <2>1 DEF isGiven
  <1>7. a2 \in Seq(1..N) /\ oneEach(a2) /\ extends(a1, a2) /\ \E i \in 1..Len(a2) : a2[i] = c
    <2>1. isGiven(N, a1, c, a2)
      BY <1>3, <1>6, IdGiven
    <2> QED
      BY <2>1 DEF isGiven
  <1>8. \E j \in 1..Len(a2) : a2[j] = p
    BY <1>6, <1>7 DEF extends
  <1>9. PICK i, j : i = idOf(y, c) /\ j = idOf(y, p)
    OBVIOUS
  <1>10. i \in 1..Len(a2) /\ a2[i] = c /\ j \in 1..Len(a2) /\ a2[j] = p
    BY <1>5, <1>7, <1>8, <1>9 DEF idOf
  <1>11. PICK u : u = _addToBitmap(y, "fwd", p, i)
    OBVIOUS
  <1>12. n = _addToBitmap(u, "rev", c, j)
    BY <1>1, <1>2, <1>9, <1>11 DEF addBoth
  <1>13. buildTyped(u) /\ u.idToSha = a2 /\ sameBuild(y, u) /\ u.bitmaps = y.bitmaps \cup {<<"fwd", p, i>>}
    BY <1>5, <1>11, BitmapTaken
  <1>14. buildTyped(n) /\ n.idToSha = a2 /\ sameBuild(u, n) /\ n.bitmaps = u.bitmaps \cup {<<"rev", c, j>>}
    BY <1>12, <1>13, BitmapTaken
  <1>15. sameBuild(b, n)
    BY <1>4, <1>5, <1>13, <1>14 DEF sameBuild
  <1>16. n.bitmaps = b.bitmaps \cup {<<"fwd", p, i>>, <<"rev", c, j>>}
    BY <1>4, <1>5, <1>13, <1>14
  <1>17. extends(a0, a2)
    BY <1>6, <1>7, ExtendsTrans
  <1> QED
    BY <1>3, <1>7, <1>10, <1>14, <1>15, <1>16, <1>17 DEF edgeTaken

withEdges(b, S) == [b EXCEPT !.edges = S]

LEMMA EdgesTaken ==
    ASSUME NEW b, buildTyped(b), NEW S, NEW n, n = withEdges(b, S)
    PROVE  /\ buildTyped(n) /\ n.edges = S /\ n.idToSha = b.idToSha /\ n.bitmaps = b.bitmaps
           /\ n.phase = b.phase /\ n.streaming = b.streaming /\ n.frontier = b.frontier /\ n.at = b.at
           /\ n.chunks = b.chunks /\ n.flushes = b.flushes /\ n.max = b.max
  <1>1. PICK D, C : b \in buildShape(D) /\ b.chunks \in Seq(C)
    BY DEF buildTyped
  <1>2. /\ n \in buildShape(D \cup {S}) /\ n.edges = S /\ n.idToSha = b.idToSha /\ n.bitmaps = b.bitmaps
        /\ n.phase = b.phase /\ n.streaming = b.streaming /\ n.frontier = b.frontier /\ n.at = b.at
        /\ n.chunks = b.chunks /\ n.flushes = b.flushes /\ n.max = b.max
    BY <1>1 DEF buildShape, withEdges
  <1> QED
    BY <1>1, <1>2 DEF buildTyped

flushing(b) == [b EXCEPT !.flushes = b.flushes + 1, !.chunks = Append(b.chunks, b.bitmaps)]

\* A chunk is stored: nothing of what was collected is lost.
keepsAll(b, n) ==
    /\ buildTyped(n) /\ flushOk(n) /\ n.idToSha = b.idToSha /\ n.edges = b.edges
    /\ n.phase = b.phase /\ n.frontier = b.frontier /\ n.at = b.at
    /\ collected(n) = collected(b)

LEMMA FlushBegun ==
    ASSUME NEW b, buildTyped(b), b.streaming = TRUE, b.flushes = 0
    PROVE  keepsAll(b, flushing(b))
  <1> SUFFICES ASSUME NEW n, n = flushing(b)
               PROVE  keepsAll(b, n)
    OBVIOUS
  <1>1. PICK D, C : b \in buildShape(D) /\ b.chunks \in Seq(C)
    BY DEF buildTyped
  <1>2. PICK m, ch : m = b.bitmaps /\ ch = Append(b.chunks, m)
    OBVIOUS
  <1>3. PICK y : y = [b EXCEPT !.flushes = 1]
    OBVIOUS
  <1>11. n = [y EXCEPT !.chunks = ch]
    BY <1>2, <1>3 DEF flushing
  <1>12. /\ y \in buildShape(D) /\ y.idToSha = b.idToSha /\ y.bitmaps = m /\ y.edges = b.edges
         /\ y.phase = b.phase /\ y.streaming = b.streaming /\ y.frontier = b.frontier /\ y.at = b.at
         /\ y.flushes = 1
    BY <1>1, <1>2, <1>3 DEF buildShape
  <1>4. /\ n \in buildShape(D \cup {ch}) /\ n.idToSha = b.idToSha /\ n.bitmaps = m /\ n.edges = b.edges
        /\ n.phase = b.phase /\ n.streaming = b.streaming /\ n.frontier = b.frontier /\ n.at = b.at
        /\ n.chunks = ch /\ n.flushes = 1
    BY <1>11, <1>12 DEF buildShape
  <1>5. ch \in Seq(C \cup {m})
    <2>1. PICK F : F = C \cup {m}
      OBVIOUS
    <2>2. b.chunks \in Seq(F) /\ m \in F
      BY <1>1, <2>1, SeqMonotonic
    <2> QED
      BY <1>2, <2>1, <2>2, AppendProperties
  <1>6. buildTyped(n)
    BY <1>4, <1>5 DEF buildTyped
  <1>7. \A x : x \in _mergeChunks(ch) <=> x \in _mergeChunks(b.chunks) \/ x \in m
    BY <1>1, <1>2, ChunkMerged
  <1>8. n.bitmaps \subseteq _mergeChunks(n.chunks)
    BY <1>4, <1>7
  <1>9. flushOk(n)
    BY <1>4, <1>8 DEF flushOk
  <1>10. \A x : x \in collected(n) <=> x \in collected(b)
    BY <1>2, <1>4, <1>7 DEF collected
  <1> QED
    BY <1>4, <1>6, <1>9, <1>10 DEF keepsAll

LEMMA AddEdgeKeeps == ~OverlapAdds /\ CommitIndexInv /\ addParentEdge => CommitIndexInv'
  <1> SUFFICES ASSUME ~OverlapAdds, CommitIndexInv, addParentEdge
               PROVE  CommitIndexInv'
    OBVIOUS
  <1>1. PICK P, b, E : P = parents /\ b = build /\ E = b.edges
    OBVIOUS
  <1>2. b.phase = "iterate" /\ b.flushes = 0 /\ E # {}
    BY <1>1 DEF addParentEdge, building
  <1>3. historyOk(P) /\ buildTyped(b) /\ flushOk(b) /\ buildOk(P, trees, b) /\ Len(P) \in Nat
    BY <1>1, <1>2, LenProperties DEF CommitIndexInv, buildOk, historyOk
  <1>4. PICK N \in 0..Len(P) : walkOk(P, N, b)
    BY <1>2, <1>3 DEF buildOk
  <1>5. PICK d : d = b.at /\ d \in 0..N
    BY <1>4 DEF walkOk
  <1>6. E \subseteq (IF d < N THEN P[d + 1] ELSE {}) /\ d < N
    BY <1>1, <1>2, <1>4, <1>5 DEF walkOk
  <1>7. E \subseteq 1..d /\ d + 1 \in 1..N /\ 1..d \subseteq 1..N /\ d \in Nat
    <2>1. d + 1 \in 1..Len(P) /\ (d + 1) - 1 = d
      BY <1>3, <1>5, <1>6
    <2>2. P[d + 1] \subseteq 1..d
      BY <1>3, <2>1 DEF historyOk
    <2> QED
      BY <1>3, <1>5, <1>6, <2>2
  <1>8. \E x \in E : \A y \in E : y <= x
    <2>1. E \subseteq Nat /\ \A x \in E : x <= d
      BY <1>7
    <2> QED
      BY <1>2, <1>7, <2>1, GreatestMember
  <1>9. PICK p : p = CHOOSE q \in build.edges : \A r \in build.edges : r <= q
    OBVIOUS
  <1>10. p \in E /\ p \in 1..N
    BY <1>1, <1>7, <1>8, <1>9
  <1>11. PICK a : a = withEdges(b, E \ {p})
    OBVIOUS
  <1>12. PICK n : n = addBoth(a, p, d + 1)
    OBVIOUS
  <1>13. build' = IF n.streaming /\ n.bytes >= n.max THEN flushing(n) ELSE n
    BY <1>1, <1>5, <1>9, <1>11, <1>12 DEF addParentEdge, withEdges, flushing
  <1>14. /\ buildTyped(a) /\ a.edges = E \ {p} /\ a.idToSha = b.idToSha /\ a.bitmaps = b.bitmaps
         /\ a.phase = b.phase /\ a.streaming = b.streaming /\ a.frontier = b.frontier /\ a.at = d
         /\ a.chunks = b.chunks /\ a.flushes = 0
    BY <1>1, <1>2, <1>3, <1>5, <1>11, EdgesTaken
  <1>15. PICK ids : ids = b.idToSha
    OBVIOUS
  <1>16. idsGiven(N, d, ids) /\ oneEach(ids) /\ ids \in Seq(1..N) /\ entriesExact(P, N, d, E, ids, collected(b))
    BY <1>1, <1>4, <1>5, <1>15 DEF walkOk, idsGiven, oneEach
  <1>17. PICK new : new = n.idToSha
    OBVIOUS
  <1>18. /\ buildTyped(n) /\ sameBuild(a, n)
         /\ new \in Seq(1..N) /\ oneEach(new) /\ extends(ids, new)
         /\ \E i, j \in 1..Len(new) :
              /\ new[i] = d + 1 /\ new[j] = p
              /\ n.bitmaps = a.bitmaps \cup {<<"fwd", p, i>>, <<"rev", d + 1, j>>}
    <2>1. a.idToSha \in Seq(1..N) /\ oneEach(a.idToSha) /\ d + 1 \in 1..N
      BY <1>7, <1>14, <1>15, <1>16
    <2>2. edgeTaken(a, N, p, d + 1, n)
      BY <1>10, <1>12, <1>14, <2>1, EdgeTaken
    <2> QED
      BY <1>14, <1>15, <1>17, <2>2 DEF edgeTaken
  <1>19. PICK i \in 1..Len(new), j \in 1..Len(new) :
              /\ new[i] = d + 1 /\ new[j] = p
              /\ n.bitmaps = a.bitmaps \cup {<<"fwd", p, i>>, <<"rev", d + 1, j>>}
    BY <1>18
  <1>20. \A x : x \in collected(n) <=> x \in collected(b) \/ x = <<"fwd", p, i>> \/ x = <<"rev", d + 1, j>>
    BY <1>14, <1>18, <1>19 DEF collected, sameBuild
  <1>21. entriesExact(P, N, d, E \ {p}, new, collected(n))
    <2>1. PICK M, M2 : M = collected(b) /\ M2 = collected(n)
      OBVIOUS
    <2>2. entriesExact(P, N, d, E, new, M)
      BY <1>16, <1>18, <2>1, EntriesStay
    <2>3. \A x : x \in M2 <=> x \in M \/ x = <<"fwd", p, i>> \/ x = <<"rev", d + 1, j>>
      BY <1>20, <2>1
    <2>4. entriesExact(P, N, d, E \ {p}, new, M2)
      BY <1>3, <1>5, <1>6, <1>10, <1>18, <1>19, <2>2, <2>3, EntriesOfEdge
    <2> QED
      BY <2>1, <2>4
  <1>22. idsGiven(N, d, new)
    <2> SUFFICES ASSUME NEW k \in (d + 1)..N
                 PROVE  \E l \in 1..Len(new) : new[l] = k
      BY <1>18 DEF idsGiven, oneEach
    <2>1. PICK l \in 1..Len(ids) : ids[l] = k
      BY <1>16 DEF idsGiven
    <2>2. extends(ids, new)
      BY <1>18
    <2>3. l \in 1..Len(new) /\ new[l] = k
      BY <2>1, <2>2 DEF extends
    <2> QED
      BY <2>3
  <1>23. E \ {p} \subseteq (IF d < N THEN P[d + 1] ELSE {})
    BY <1>6
  <1>24. b.frontier \in 0..N
    BY <1>4 DEF walkOk
  <1>25. ASSUME NEW z, buildTyped(z), flushOk(z), z.idToSha = new, z.edges = E \ {p}, z.phase = "iterate",
                z.frontier = b.frontier, z.at = d, collected(z) = collected(n)
         PROVE  buildOk(P, trees, z)
    <2>1. walkOk(P, N, z)
      BY <1>5, <1>21, <1>22, <1>23, <1>24, <1>25 DEF walkOk
    <2> QED
      BY <1>25, <2>1 DEF buildOk
  <1>26. /\ n.phase = "iterate" /\ n.streaming = b.streaming /\ n.frontier = b.frontier /\ n.at = d
         /\ n.edges = E \ {p} /\ n.chunks = b.chunks /\ n.flushes = 0
    BY <1>2, <1>14, <1>18 DEF sameBuild
  <1>27. buildOk(P, trees, build')
    <2>1. CASE n.streaming /\ n.bytes >= n.max
      <3>1. PICK z : z = build'
        OBVIOUS
      <3>2. z = flushing(n) /\ n.streaming = TRUE
        <4>1. n.streaming \in BOOLEAN
          BY <1>18 DEF buildTyped, buildShape
        <4> QED
          BY <1>13, <2>1, <3>1, <4>1
      <3>3. /\ buildTyped(z) /\ flushOk(z) /\ z.idToSha = n.idToSha /\ z.edges = n.edges
            /\ z.phase = n.phase /\ z.frontier = n.frontier /\ z.at = n.at
            /\ collected(z) = collected(n)
        <4>1. keepsAll(n, z)
          BY <1>18, <1>26, <3>2, FlushBegun
        <4> QED
          BY <4>1 DEF keepsAll
      <3> QED
        BY <1>17, <1>25, <1>26, <3>1, <3>3
    <2>2. CASE ~(n.streaming /\ n.bytes >= n.max)
      <3>1. build' = n
        BY <1>13, <2>2
      <3>2. flushOk(n)
        BY <1>3, <1>26 DEF flushOk
      <3> QED
        BY <1>17, <1>18, <1>25, <1>26, <3>1, <3>2
    <2> QED
      BY <2>1, <2>2
  <1>28. UNCHANGED <<parents, trees, reader, queries>>
    BY DEF addParentEdge
  <1> QED
    BY <1>1, <1>27, <1>28, BuilderOnly

LEMMA EndFlushKeeps == CommitIndexInv /\ endFlush => CommitIndexInv'
  <1> SUFFICES ASSUME CommitIndexInv, endFlush
               PROVE  CommitIndexInv'
    OBVIOUS
  <1>1. PICK P, b : P = parents /\ b = build
    OBVIOUS
  <1>2. buildTyped(b) /\ buildOk(P, trees, b)
    BY <1>1 DEF CommitIndexInv, buildOk
  <1>3. PICK D, C : b \in buildShape(D) /\ b.chunks \in Seq(C)
    BY <1>2 DEF buildTyped
  <1>4. PICK f : f = b.flushes - 1
    OBVIOUS
  <1>5. b.flushes \in Int /\ f \in Int
    BY <1>3, <1>4 DEF buildShape
  <1>6. PICK n : n = [[[b EXCEPT !.flushes = f] EXCEPT !.bitmaps = {}] EXCEPT !.bytes = 0]
    OBVIOUS
  <1>7. build' = n
    BY <1>1, <1>4, <1>6 DEF endFlush
  <1>8. /\ n \in buildShape(D \cup {{}, 0}) /\ n.idToSha = b.idToSha /\ n.bitmaps = {} /\ n.edges = b.edges
        /\ n.phase = b.phase /\ n.streaming = b.streaming /\ n.frontier = b.frontier /\ n.at = b.at
        /\ n.chunks = b.chunks /\ n.flushes = f
    BY <1>3, <1>5, <1>6 DEF buildShape
  <1>9. buildTyped(n)
    BY <1>3, <1>8 DEF buildTyped
  <1>10. ASSUME b.phase = "iterate"
         PROVE  flushOk(n) /\ \E N \in 0..Len(P) : walkOk(P, N, n)
    <2>1. flushOk(b) /\ b.flushes > 0
      BY <1>1, <1>2, <1>10 DEF buildOk, endFlush
    <2>2. b.flushes = 1 /\ f = 0 /\ b.bitmaps \subseteq _mergeChunks(b.chunks)
      BY <1>4, <2>1 DEF flushOk
    <2>3. collected(n) = collected(b)
      BY <1>8, <2>2 DEF collected
    <2>4. flushOk(n)
      BY <1>8, <2>1, <2>2 DEF flushOk
    <2>5. PICK N \in 0..Len(P) : walkOk(P, N, b)
      BY <1>2, <1>10 DEF buildOk
    <2>6. walkOk(P, N, n)
      BY <1>8, <2>3, <2>5 DEF walkOk
    <2> QED
      BY <2>4, <2>6
  <1>11. buildOk(P, trees, n)
    BY <1>2, <1>8, <1>9, <1>10 DEF buildOk
  <1>12. UNCHANGED <<parents, trees, reader, queries>>
    BY DEF endFlush
  <1> QED
    BY <1>1, <1>7, <1>11, <1>12, BuilderOnly

\* A rebuild begins at the newest commit with nothing.
LEMMA RebuildBegins ==
    ASSUME CommitIndexInv, NEW st \in BOOLEAN, NEW max, NEW f \in 0..Len(parents), NEW rl \in BOOLEAN,
           rebuild(st, max, f, rl)
    PROVE  buildOk(parents, trees, build')
  <1>1. PICK P, N : P = parents /\ N = Len(P)
    OBVIOUS
  <1>2. N \in Nat /\ f \in 0..N
    BY <1>1, LenProperties DEF CommitIndexInv, historyOk
  <1>3. PICK n : n = build'
    OBVIOUS
  <1>4. n = [phase |-> "iterate", streaming |-> st, max |-> max, frontier |-> f, at |-> N,
             edges |-> {}, idToSha |-> << >>, bitmaps |-> {}, bytes |-> 0, chunks |-> << >>,
             flushes |-> 0, reload |-> rl]
    BY <1>1, <1>3 DEF rebuild, emptyBuilder
  <1>5. PICK D : D = {"iterate", max, {}, << >>, 0}
    OBVIOUS
  <1>6. n \in buildShape(D) /\ n.chunks \in Seq({}) /\ Len(n.chunks) = 0
    BY <1>2, <1>4, <1>5 DEF buildShape
  <1>7. buildTyped(n)
    BY <1>6 DEF buildTyped
  <1>8. flushOk(n)
    BY <1>4 DEF flushOk
  <1>9. \A x : x \notin _mergeChunks(n.chunks)
    BY <1>6, Merged
  <1>10. collected(n) = {}
    BY <1>4, <1>9 DEF collected
  <1>11. idsGiven(N, N, n.idToSha)
    BY <1>2, <1>4 DEF idsGiven
  <1>12. entriesExact(P, N, N, {}, n.idToSha, {})
    BY <1>2 DEF entriesExact, isAdded
  <1>13. walkOk(P, N, n)
    <2>1. n.at = N /\ n.edges = {} /\ n.frontier = f /\ N \in 0..N
      BY <1>2, <1>4
    <2> HIDE <1>4
    <2> QED
      BY <1>2, <1>10, <1>11, <1>12, <2>1 DEF walkOk
  <1>14. n.phase = "iterate" /\ N \in 0..Len(P)
    BY <1>1, <1>2, <1>4
  <1> QED
    BY <1>1, <1>3, <1>7, <1>8, <1>13, <1>14 DEF buildOk

LEMMA EmptyBuilderOk ==
    ASSUME NEW P, NEW T
    PROVE  buildOk(P, T, emptyBuilder)
  <1>1. PICK D : D = {"idle", {}, << >>, 0}
    OBVIOUS
  <1>2. PICK n : n = emptyBuilder
    OBVIOUS
  <1>3. n \in buildShape(D) /\ n.chunks \in Seq({}) /\ n.phase = "idle"
    BY <1>1, <1>2 DEF buildShape, emptyBuilder
  <1>4. buildTyped(n)
    BY <1>3 DEF buildTyped
  <1> QED
    BY <1>2, <1>3, <1>4 DEF buildOk

LEMMA StartRebuildKeeps == CommitIndexInv /\ startRebuild => CommitIndexInv'
  <1> SUFFICES ASSUME CommitIndexInv, startRebuild
               PROVE  CommitIndexInv'
    OBVIOUS
  <1>1. PICK st \in BOOLEAN, f \in {0, Len(parents)} :
           \E max \in (IF st THEN maxMemoryBytes ELSE {0}) : rebuild(st, max, f, FALSE)
    BY DEF startRebuild
  <1>2. PICK max : rebuild(st, max, f, FALSE)
    BY <1>1
  <1>3. f \in 0..Len(parents)
    BY LenProperties DEF CommitIndexInv, historyOk
  <1>4. buildOk(parents, trees, build')
    BY <1>2, <1>3, RebuildBegins
  <1> QED
    BY <1>4, BuilderOnly DEF startRebuild

LEMMA FailRebuildKeeps == CommitIndexInv /\ failRebuild => CommitIndexInv'
  <1> SUFFICES ASSUME CommitIndexInv, failRebuild
               PROVE  CommitIndexInv'
    OBVIOUS
  <1>1. buildOk(parents, trees, build')
    BY EmptyBuilderOk DEF failRebuild
  <1> QED
    BY <1>1, BuilderOnly DEF failRebuild

\* What has been collected when the walk is over makes an exact tree.
LEMMA TreeMade ==
    ASSUME NEW P, historyOk(P), NEW N \in 0..Len(P), NEW ids, idsGiven(N, 0, ids), NEW M,
           entriesExact(P, N, 0, {}, ids, M), NEW t, t.frontier \in 0..N,
           \A x : x \in t.meta <=> \E i \in 1..Len(ids) : x = <<ids[i], i>>,
           \A z : z \in t.fwd <=> \E x \in M : x[1] = "fwd" /\ z = <<x[2], x[3]>>,
           \A z : z \in t.rev <=> \E x \in M : x[1] = "rev" /\ z = <<x[2], x[3]>>
    PROVE  treeOk(P, t)
  <1>1. ids \in Seq(1..N) /\ Len(ids) \in Nat /\ N \in Nat /\ Len(P) \in Nat
    BY LenProperties DEF idsGiven, historyOk
  <1>0. \A i, j \in 1..Len(ids) : ids[i] = ids[j] => i = j
    BY DEF idsGiven
  <1>2. \A i \in 1..Len(ids) : ids[i] \in 1..N /\ <<ids[i], i>> \in t.meta
    BY <1>1, ElementOfSeq
  <1>3. \A p, c : isAdded(P, N, 0, {}, p, c) <=> c \in 1..N /\ p \in P[c]
    BY DEF isAdded
  <1>4. \A c \in 1..N : P[c] \subseteq 1..N
    <2> SUFFICES ASSUME NEW c \in 1..N
                 PROVE  P[c] \subseteq 1..N
      OBVIOUS
    <2>1. P[c] \subseteq 1..(c - 1)
      BY <1>1 DEF historyOk
    <2> QED
      BY <1>1, <2>1
  <1>5. \A x \in t.meta : x = <<x[1], x[2]>> /\ x[2] \in 1..Len(ids) /\ x[1] = ids[x[2]] /\ x[1] \in 1..N
    <2> SUFFICES ASSUME NEW x \in t.meta
                 PROVE  x = <<x[1], x[2]>> /\ x[2] \in 1..Len(ids) /\ x[1] = ids[x[2]] /\ x[1] \in 1..N
      OBVIOUS
    <2>1. PICK i \in 1..Len(ids) : x = <<ids[i], i>>
      OBVIOUS
    <2> QED
      BY <1>2, <2>1
  <1>6. metaOk(N, t.meta)
    <2>1. ASSUME NEW c \in 1..N
          PROVE  \E x \in t.meta : x[1] = c
      <3>1. c \in (0 + 1)..N
        BY <1>1
      <3>2. PICK i \in 1..Len(ids) : ids[i] = c
        BY <3>1 DEF idsGiven
      <3>3. <<ids[i], i>> \in t.meta /\ <<ids[i], i>>[1] = c
        BY <1>2, <3>2
      <3> QED
        BY <3>3
    <2>2. ASSUME NEW x \in t.meta, NEW y \in t.meta
          PROVE  x[1] = y[1] <=> x[2] = y[2]
      <3>1. PICK i, j : i = x[2] /\ j = y[2] /\ i \in 1..Len(ids) /\ j \in 1..Len(ids)
                        /\ x[1] = ids[i] /\ y[1] = ids[j]
        BY <1>5
      <3> QED
        BY <1>0, <3>1
    <2> QED
      BY <1>5, <2>1, <2>2 DEF metaOk
  <1>7. ASSUME NEW z \in t.fwd
        PROVE  z = <<z[1], z[2]>> /\ \E y \in t.meta : y[2] = z[2] /\ z[1] \in P[y[1]]
    <2>1. PICK x \in M : x[1] = "fwd" /\ z = <<x[2], x[3]>>
      BY <1>7
    <2>2. PICK i \in 1..Len(ids), s \in 1..N :
            \/ x = <<"fwd", s, i>> /\ isAdded(P, N, 0, {}, s, ids[i])
            \/ x = <<"rev", s, i>> /\ isAdded(P, N, 0, {}, ids[i], s)
      BY DEF entriesExact, isEntry
    <2>3. z = <<s, i>> /\ s \in P[ids[i]]
      BY <1>3, <2>1, <2>2
    <2>4. PICK y \in t.meta : y = <<ids[i], i>>
      BY <1>2
    <2>5. z = <<z[1], z[2]>> /\ y[2] = z[2] /\ z[1] \in P[y[1]]
      BY <2>3, <2>4
    <2> QED
      BY <2>5
  <1>8. ASSUME NEW z \in t.rev
        PROVE  /\ z = <<z[1], z[2]>> /\ z[1] \in 1..N
               /\ \E x \in t.meta : x[2] = z[2] /\ x[1] \in P[z[1]]
    <2>1. PICK x \in M : x[1] = "rev" /\ z = <<x[2], x[3]>>
      BY <1>8
    <2>2. PICK i \in 1..Len(ids), s \in 1..N :
            \/ x = <<"fwd", s, i>> /\ isAdded(P, N, 0, {}, s, ids[i])
            \/ x = <<"rev", s, i>> /\ isAdded(P, N, 0, {}, ids[i], s)
      BY DEF entriesExact, isEntry
    <2>3. z = <<s, i>> /\ ids[i] \in P[s]
      BY <1>3, <2>1, <2>2
    <2>4. PICK y \in t.meta : y = <<ids[i], i>>
      BY <1>2
    <2>5. z = <<z[1], z[2]>> /\ z[1] \in 1..N /\ y[2] = z[2] /\ y[1] \in P[z[1]]
      BY <2>3, <2>4
    <2> QED
      BY <2>5
  <1>9. ASSUME NEW y \in t.meta, NEW p \in 1..N, p \in P[y[1]]
        PROVE  <<p, y[2]>> \in t.fwd
    <2>1. PICK k, c : k = y[2] /\ c = y[1] /\ k \in 1..Len(ids) /\ ids[k] = c /\ c \in 1..N
      BY <1>5
    <2>2. hasEntries(p, c, ids, M)
      BY <1>3, <1>9, <2>1 DEF entriesExact
    <2>3. PICK i \in 1..Len(ids) : ids[i] = c /\ <<"fwd", p, i>> \in M
      BY <2>2 DEF hasEntries
    <2>4. i = k
      BY <1>0, <2>1, <2>3
    <2>5. PICK x \in M : x = <<"fwd", p, k>>
      BY <2>3, <2>4
    <2>6. x[1] = "fwd" /\ <<p, k>> = <<x[2], x[3]>>
      BY <2>5
    <2> QED
      BY <2>1, <2>6
  <1>10. ASSUME NEW x \in t.meta, NEW c \in 1..N, x[1] \in P[c]
         PROVE  <<c, x[2]>> \in t.rev
    <2>1. PICK k, p : k = x[2] /\ p = x[1] /\ k \in 1..Len(ids) /\ ids[k] = p /\ p \in 1..N
      BY <1>5
    <2>2. hasEntries(p, c, ids, M)
      BY <1>3, <1>10, <2>1 DEF entriesExact
    <2>3. PICK j \in 1..Len(ids) : ids[j] = p /\ <<"rev", c, j>> \in M
      BY <2>2 DEF hasEntries
    <2>4. j = k
      BY <1>0, <2>1, <2>3
    <2>5. PICK y \in M : y = <<"rev", c, k>>
      BY <2>3, <2>4
    <2>6. y[1] = "rev" /\ <<c, k>> = <<y[2], y[3]>>
      BY <2>5
    <2> QED
      BY <2>1, <2>6
  <1> QED
    BY <1>6, <1>7, <1>8, <1>9, <1>10 DEF treeOk

LEMMA IdleBuilderOk ==
    ASSUME NEW P, NEW T, NEW ph \in {"idle", "written"}, ph = "written" => Len(T) > 0
    PROVE  buildOk(P, T, [emptyBuilder EXCEPT !.phase = ph])
  <1>1. PICK D : D = {ph, {}, << >>, 0}
    OBVIOUS
  <1>2. PICK n : n = [emptyBuilder EXCEPT !.phase = ph]
    OBVIOUS
  <1>3. n = [phase |-> ph, streaming |-> FALSE, max |-> 0, frontier |-> 0, at |-> 0, edges |-> {},
             idToSha |-> << >>, bitmaps |-> {}, bytes |-> 0, chunks |-> << >>, flushes |-> 0,
             reload |-> FALSE]
    BY <1>2 DEF emptyBuilder
  <1>5. n \in buildShape(D) /\ n.chunks \in Seq({}) /\ n.phase = ph
    BY <1>1, <1>3 DEF buildShape
  <1>4. buildTyped(n)
    BY <1>5 DEF buildTyped
  <1> QED
    BY <1>2, <1>4, <1>5 DEF buildOk

\* A sequence that takes one more.
LEMMA OneMore ==
    ASSUME NEW D, NEW s \in Seq(D), NEW x
    PROVE  /\ Len(s) \in Nat /\ isSeq(Append(s, x))
           /\ Len(Append(s, x)) = Len(s) + 1 /\ Append(s, x)[Len(s) + 1] = x
           /\ \A i \in 1..Len(s) : Append(s, x)[i] = s[i]
  <1>1. PICK C : C = D \cup {x}
    OBVIOUS
  <1>2. s \in Seq(C) /\ x \in C
    BY <1>1, SeqMonotonic
  <1> QED
    BY <1>2, AppendProperties, LenProperties DEF isSeq

\* The last chunk is merged with the others.
LEMMA AllCollected ==
    ASSUME NEW b, buildTyped(b), flushOk(b),
           NEW ch, ch = IF b.bitmaps = {} THEN b.chunks ELSE Append(b.chunks, b.bitmaps)
    PROVE  collected(b) = IF b.streaming THEN _mergeChunks(ch) ELSE b.bitmaps
  <1>1. PICK C : b.chunks \in Seq(C) /\ b.streaming \in BOOLEAN
    BY DEF buildTyped, buildShape
  <1>2. CASE b.streaming = TRUE
    <2>1. PICK m, s : m = b.bitmaps /\ s = b.chunks
      OBVIOUS
    <2>2. \A x : x \in _mergeChunks(Append(s, m)) <=> x \in _mergeChunks(s) \/ x \in m
      BY <1>1, <2>1, ChunkMerged
    <2>3. CASE m = {}
      BY <1>2, <2>1, <2>3 DEF collected
    <2>4. CASE m # {}
      <3>1. ch = Append(s, m)
        BY <2>1, <2>4
      <3> QED
        BY <1>2, <2>1, <2>2, <3>1 DEF collected
    <2> QED
      BY <2>3, <2>4
  <1>3. CASE b.streaming = FALSE
    <2>1. b.chunks = << >>
      BY <1>3 DEF flushOk
    <2>2. \A x : x \notin _mergeChunks(b.chunks)
      BY <2>1, Merged
    <2> QED
      BY <1>3, <2>2 DEF collected
  <1> QED
    BY <1>1, <1>2, <1>3

\* A tree that is added changes nothing for the reader of another.
LEMMA ReadingOfMore ==
    ASSUME NEW P, NEW D, NEW T \in Seq(D), NEW t, NEW r, NEW A, readingOk(P, T, r, A),
           NEW T2, T2 = Append(T, t)
    PROVE  readingOk(P, T2, r, A)
  <1>1. /\ Len(T) \in Nat /\ Len(T2) = Len(T) + 1
        /\ \A i \in 1..Len(T) : T2[i] = T[i]
    BY OneMore
  <1>2. CASE r = noReader /\ A = << >>
    BY <1>2 DEF readingOk
  <1>3. CASE r.tree \in 1..Len(T) /\ readerOk(T[r.tree], r) /\ queriesOk(P, T[r.tree], r, A)
    <2>1. r.tree \in 1..Len(T2) /\ T2[r.tree] = T[r.tree]
      BY <1>1, <1>3
    <2> QED
      BY <1>3, <2>1 DEF readingOk
  <1> QED
    BY <1>2, <1>3 DEF readingOk

LEMMA FinishKeeps == CommitIndexInv /\ finishRebuild => CommitIndexInv'
  <1> SUFFICES ASSUME CommitIndexInv, finishRebuild
               PROVE  CommitIndexInv'
    OBVIOUS
  <1>1. PICK P, b, T : P = parents /\ b = build /\ T = trees
    OBVIOUS
  <1>2. b.phase = "iterate" /\ b.at = 0 /\ b.edges = {} /\ b.flushes = 0
    BY <1>1 DEF finishRebuild
  <1>3. historyOk(P) /\ buildTyped(b) /\ flushOk(b) /\ buildOk(P, T, b)
    BY <1>1, <1>2 DEF CommitIndexInv, buildOk
  <1>4. PICK N \in 0..Len(P) : walkOk(P, N, b)
    BY <1>2, <1>3 DEF buildOk
  <1>5. PICK ch : ch = IF b.bitmaps = {} THEN b.chunks ELSE Append(b.chunks, b.bitmaps)
    OBVIOUS
  <1>6. PICK M : M = IF b.streaming THEN _mergeChunks(ch) ELSE b.bitmaps
    OBVIOUS
  <1>7. M = collected(b)
    BY <1>3, <1>5, <1>6, AllCollected
  <1>8. PICK ids : ids = b.idToSha
    OBVIOUS
  <1>9. PICK t : t = [meta |-> {<<ids[i], i>> : i \in 1..Len(ids)},
                      fwd |-> {<<x[2], x[3]>> : x \in {y \in M : y[1] = "fwd"}},
                      rev |-> {<<x[2], x[3]>> : x \in {y \in M : y[1] = "rev"}},
                      frontier |-> b.frontier]
    OBVIOUS
  <1>10. trees' = Append(T, t)
    BY <1>1, <1>5, <1>6, <1>8, <1>9 DEF finishRebuild
  <1>11. treeOk(P, t)
    <2>1. /\ \A x : x \in t.meta <=> \E i \in 1..Len(ids) : x = <<ids[i], i>>
          /\ \A z : z \in t.fwd <=> \E x \in M : x[1] = "fwd" /\ z = <<x[2], x[3]>>
          /\ \A z : z \in t.rev <=> \E x \in M : x[1] = "rev" /\ z = <<x[2], x[3]>>
          /\ t.frontier = b.frontier
      BY <1>9
    <2>2. idsGiven(N, 0, ids) /\ entriesExact(P, N, 0, {}, ids, M) /\ b.frontier \in 0..N
      BY <1>2, <1>4, <1>7, <1>8 DEF walkOk
    <2> QED
      BY <1>3, <2>1, <2>2, TreeMade
  <1>12. PICK D : T \in Seq(D)
    BY <1>1 DEF CommitIndexInv
  <1>13. PICK T2 : T2 = Append(T, t)
    OBVIOUS
  <1>14. /\ Len(T) \in Nat /\ isSeq(T2) /\ Len(T2) = Len(T) + 1 /\ T2[Len(T) + 1] = t
         /\ \A i \in 1..Len(T) : T2[i] = T[i]
    BY <1>12, <1>13, OneMore
  <1>15. \A n \in 1..Len(T2) : treeOk(P, T2[n])
    <2>1. \A n \in 1..Len(T2) : n \in 1..Len(T) \/ n = Len(T) + 1
      BY <1>14
    <2>2. \A n \in 1..Len(T) : treeOk(P, T[n])
      BY <1>1 DEF CommitIndexInv
    <2> QED
      BY <1>11, <1>14, <2>1, <2>2
  <1>16. readingOk(P, T2, reader, queries)
    <2>1. readingOk(P, T, reader, queries)
      BY <1>1 DEF CommitIndexInv
    <2> QED
      BY <1>12, <1>13, <2>1, ReadingOfMore
  <1>17. buildOk(P, T2, build')
    <2>1. PICK ph : ph = IF b.reload THEN "written" ELSE "idle"
      OBVIOUS
    <2>2. build' = [emptyBuilder EXCEPT !.phase = ph] /\ ph \in {"idle", "written"}
      BY <1>1, <2>1 DEF finishRebuild
    <2>3. Len(T2) > 0
      BY <1>14
    <2> QED
      BY <2>2, <2>3, IdleBuilderOk
  <1>18. UNCHANGED <<parents, reader, queries>>
    BY DEF finishRebuild
  <1> QED
    BY <1>1, <1>3, <1>10, <1>13, <1>14, <1>15, <1>16, <1>17, <1>18 DEF CommitIndexInv, isSeq

----------------------------------------------------------------------------
(* The reader.                                                             *)

\* A reader that has just been set up knows nothing.
LEMMA SetupOk ==
    ASSUME NEW n \in 1..Len(trees), Len(trees) \in Nat, NEW strict \in BOOLEAN, setup(n, strict), NEW P
    PROVE  readingOk(P, trees, reader', queries')
  <1>1. PICK bad : reader' = [tree |-> n, strict |-> strict, cached |-> << >>, bad |-> bad,
                              known |-> FALSE, idToSha |-> {}]
    BY DEF setup
  <1>2. PICK r : r = reader'
    OBVIOUS
  <1>3. r = [tree |-> n, strict |-> strict, cached |-> << >>, bad |-> bad, known |-> FALSE, idToSha |-> {}]
    BY <1>1, <1>2
  <1>4. PICK D : D = {<< >>, bad, {}}
    OBVIOUS
  <1>5. r \in readerShape(D) /\ r.cached = << >> /\ r.idToSha = {} /\ r.known = FALSE /\ r.tree = n
    BY <1>3, <1>4 DEF readerShape
  <1>6. r.cached \in Seq({}) /\ Len(r.cached) = 0
    BY <1>5
  <1>7. readerOk(trees[n], r)
    <2>1. 1..Len(r.cached) = {}
      BY <1>6
    <2> QED
      BY <1>5, <1>6, <2>1 DEF readerOk, cacheOk, isSeq
  <1>8. PICK Q : Q = queries' /\ Q = << >>
    BY DEF setup
  <1>9. Q \in Seq({}) /\ 1..Len(Q) = {}
    BY <1>8
  <1>10. queriesOk(P, trees[n], r, Q)
    BY <1>5, <1>9 DEF queriesOk, isSeq
  <1> QED
    BY <1>2, <1>5, <1>7, <1>8, <1>10 DEF readingOk

LEMMA LoadKeeps == CommitIndexInv /\ load => CommitIndexInv'
  <1> SUFFICES ASSUME CommitIndexInv, load
               PROVE  CommitIndexInv'
    OBVIOUS
  <1>1. UNCHANGED <<parents, trees>>
    BY DEF load
  <1>2. Len(trees) \in Nat /\ Len(parents) \in Nat /\ \E D : trees \in Seq(D)
    BY LenProperties DEF CommitIndexInv, historyOk
  <1>3. PICK n \in 1..Len(trees), strict \in BOOLEAN, auto \in BOOLEAN :
         IF checkStaleness(trees[n].frontier, Len(parents)) /\ auto
         THEN rebuild(FALSE, 0, Len(parents), TRUE) /\ UNCHANGED <<reader, queries>>
         ELSE reader.tree # n /\ setup(n, strict) /\ UNCHANGED <<build, rebuilds>>
    BY DEF load
  <1>4. CASE rebuild(FALSE, 0, Len(parents), TRUE) /\ UNCHANGED <<reader, queries>>
    <2>1. Len(parents) \in 0..Len(parents)
      BY <1>2
    <2>2. buildOk(parents, trees, build')
      BY <1>4, <2>1, RebuildBegins
    <2> QED
      BY <1>1, <1>4, <2>2, BuilderOnly
  <1>5. CASE setup(n, strict) /\ UNCHANGED <<build, rebuilds>>
    <2>1. readingOk(parents, trees, reader', queries')
      BY <1>2, <1>5, SetupOk
    <2> QED
      BY <1>1, <1>5, <2>1 DEF CommitIndexInv
  <1> QED
    BY <1>3, <1>4, <1>5

LEMMA LoadRebuiltKeeps == CommitIndexInv /\ loadRebuilt => CommitIndexInv'
  <1> SUFFICES ASSUME CommitIndexInv, loadRebuilt
               PROVE  CommitIndexInv'
    OBVIOUS
  <1>1. UNCHANGED <<parents, trees>> /\ build' = emptyBuilder /\ build.phase = "written"
    BY DEF loadRebuilt
  <1>2. PICK strict \in BOOLEAN : setup(Len(trees), strict)
    BY DEF loadRebuilt
  <1>3. Len(trees) \in Nat /\ Len(trees) \in 1..Len(trees)
    <2>1. Len(trees) \in Nat
      BY LenProperties DEF CommitIndexInv
    <2>2. Len(trees) > 0
      BY <1>1 DEF CommitIndexInv, buildOk
    <2> QED
      BY <2>1, <2>2
  <1>4. readingOk(parents, trees, reader', queries')
    BY <1>2, <1>3, SetupOk
  <1>5. buildOk(parents, trees, build')
    BY <1>1, EmptyBuilderOk
  <1> QED
    BY <1>1, <1>4, <1>5 DEF CommitIndexInv

\* What is read of a shard, or found in the cache.
LEMMA ContentOk ==
    ASSUME NEW t, t = openTree, readerOk(t, reader), NEW path \in kinds \X {0, 1},
           NEW c \in shardContent(path)
    PROVE  c.ok \in BOOLEAN /\ (c.ok = TRUE => shardOk(t, reader, path, c.data))
  <1>1. PICK r : r = reader
    OBVIOUS
  <1>2. CASE cachedAt(path) # {}
    <2>1. PICK i \in cachedAt(path) : c = [ok |-> TRUE, data |-> r.cached[i].data]
      BY <1>1, <1>2 DEF shardContent
    <2>2. i \in 1..Len(r.cached) /\ r.cached[i].path = path
      BY <1>1, <2>1 DEF cachedAt
    <2>3. shardOk(t, r, path, r.cached[i].data)
      BY <1>1, <2>2 DEF readerOk, cacheOk
    <2> QED
      BY <1>1, <2>1, <2>3
  <1>3. CASE cachedAt(path) = {} /\ path \notin shardPaths(t)
    <2>1. c = [ok |-> TRUE, data |-> {}]
      BY <1>3 DEF shardContent
    <2>2. \A x \in t[path[1]] : Prefix(x[1]) # path[2]
      BY <1>3 DEF shardPaths
    <2> QED
      BY <2>1, <2>2 DEF shardOk
  <1>4. CASE cachedAt(path) = {} /\ path \in shardPaths(t)
    <2>1. \/ c = [ok |-> FALSE, data |-> {}]
          \/ path \notin r.bad /\ c = [ok |-> TRUE, data |-> {x \in t[path[1]] : Prefix(x[1]) = path[2]}]
          \/ path \in r.bad /\ ~r.strict /\ c = [ok |-> TRUE, data |-> {}]
      BY <1>1, <1>4 DEF shardContent
    <2>2. CASE c = [ok |-> FALSE, data |-> {}]
      BY <2>2
    <2>3. CASE path \notin r.bad /\ c = [ok |-> TRUE, data |-> {x \in t[path[1]] : Prefix(x[1]) = path[2]}]
      BY <2>3 DEF shardOk
    <2>4. CASE path \in r.bad /\ ~r.strict /\ c = [ok |-> TRUE, data |-> {}]
      <3>1. ~sound(r)
        BY <2>4 DEF sound
      <3> QED
        BY <1>1, <2>4, <3>1 DEF shardOk
    <2> QED
      BY <2>1, <2>2, <2>3, <2>4
  <1> QED
    BY <1>2, <1>3, <1>4

\* The entries of a cache, as a set.
LEMMA CacheOfSet ==
    ASSUME NEW t, NEW r, NEW D, \A e \in D : shardOk(t, r, e.path, e.data), NEW c \in Seq(D)
    PROVE  cacheOk(t, r, c)
  BY ElementOfSeq DEF cacheOk, isSeq

LEMMA SetOfCache ==
    ASSUME NEW t, NEW r, NEW c, cacheOk(t, r, c), NEW x, shardOk(t, r, x.path, x.data)
    PROVE  \E D : /\ c \in Seq(D) /\ x \in D
                  /\ \A e \in D : shardOk(t, r, e.path, e.data)
  <1>1. PICK C : c \in Seq(C)
    BY DEF cacheOk, isSeq
  <1>2. PICK D : D = {e \in C \cup {x} : shardOk(t, r, e.path, e.data)}
    OBVIOUS
  <1>3. \A i \in 1..Len(c) : c[i] \in D
    BY <1>1, <1>2, ElementOfSeq DEF cacheOk
  <1>4. c \in Seq(D)
    <2>1. /\ Len(c) \in Nat /\ c = [i \in 1..Len(c) |-> c[i]]
      BY <1>1, LenProperties
    <2>2. c \in [1..Len(c) -> D]
      BY <1>3, <2>1
    <2> QED
      BY <2>1, <2>2, SeqDef
  <1> QED
    BY <1>2, <1>4

LEMMA CachePut ==
    ASSUME NEW t, readerOk(t, reader), NEW path, NEW data, shardOk(t, reader, path, data)
    PROVE  cacheOk(t, reader, cachePut(path, data))
  <1>1. PICK x : x = [path |-> path, data |-> data]
    OBVIOUS
  <1>2. PICK c, r : c = reader.cached /\ r = reader
    OBVIOUS
  <1>3. cacheOk(t, r, c) /\ shardOk(t, r, x.path, x.data)
    BY <1>1, <1>2 DEF readerOk
  <1>4. PICK D : /\ c \in Seq(D) /\ x \in D
                 /\ \A e \in D : shardOk(t, r, e.path, e.data)
    BY <1>3, SetOfCache
  <1>5. PICK at : at = CHOOSE i \in cachedAt(path) : TRUE
    OBVIOUS
  <1>6. PICK rest : rest = IF cachedAt(path) = {} THEN c ELSE SubSeq(c, 1, at - 1) \o SubSeq(c, at + 1, Len(c))
    OBVIOUS
  <1>7. PICK used : used = Append(rest, x)
    OBVIOUS
  <1>8. PICK n : n = cachePut(path, data)
    OBVIOUS
  <1>9. n = IF path \notin shardPaths(openTree) THEN c
            ELSE IF Len(used) > maxCachedShards THEN Tail(used) ELSE used
    BY <1>1, <1>2, <1>5, <1>6, <1>7, <1>8 DEF cachePut
  <1>10. Len(c) \in Nat
    BY <1>4, LenProperties
  <1>11. rest \in Seq(D)
    <2>1. CASE cachedAt(path) = {}
      BY <1>4, <1>6, <2>1
    <2>2. CASE cachedAt(path) # {}
      <3>1. at \in cachedAt(path)
        BY <1>5, <2>2
      <3>2. at \in 1..Len(c)
        BY <1>2, <3>1 DEF cachedAt
      <3>3. at \in Int /\ at - 1 \in Int /\ at + 1 \in Int /\ Len(c) \in Int
        BY <1>10, <3>2
      <3>4. \A i \in 1..(at - 1) : i \in 1..Len(c)
        BY <1>10, <3>2
      <3>5. \A i \in (at + 1)..Len(c) : i \in 1..Len(c)
        BY <1>10, <3>2
      <3>6. \A i \in 1..Len(c) : c[i] \in D
        BY <1>4, ElementOfSeq
      <3>7. SubSeq(c, 1, at - 1) \in Seq(D)
        <4>1. \A i \in 1..(at - 1) : c[i] \in D
          BY <3>4, <3>6
        <4> QED
          BY <3>3, <4>1, SubSeqProperties
      <3>8. SubSeq(c, at + 1, Len(c)) \in Seq(D)
        <4>1. \A i \in (at + 1)..Len(c) : c[i] \in D
          BY <3>5, <3>6
        <4> QED
          BY <3>3, <4>1, SubSeqProperties
      <3>9. PICK u, v : u = SubSeq(c, 1, at - 1) /\ v = SubSeq(c, at + 1, Len(c))
        OBVIOUS
      <3>10. u \o v \in Seq(D)
        BY <3>7, <3>8, <3>9, ConcatProperties
      <3> QED
        BY <1>6, <2>2, <3>9, <3>10
    <2> QED
      BY <2>1, <2>2
  <1>12. used \in Seq(D) /\ used # << >>
    <2>1. /\ Append(rest, x) \in Seq(D) /\ Len(rest) \in Nat
          /\ Len(Append(rest, x)) = Len(rest) + 1
      BY <1>4, <1>11, AppendProperties, LenProperties
    <2>2. Len(used) # 0
      BY <1>7, <2>1
    <2> QED
      BY <1>7, <2>1, <2>2
  <1>13. Tail(used) \in Seq(D)
    BY <1>12, HeadTailProperties
  <1>14. n \in Seq(D)
    BY <1>4, <1>9, <1>12, <1>13
  <1>15. cacheOk(t, r, n)
    BY <1>4, <1>14, CacheOfSet
  <1> QED
    BY <1>2, <1>8, <1>15

\* The reader once it has cached a shard, and knows more ids.
readerTook(t, r, k, m, r2) ==
    /\ readerOk(t, r2) /\ r2.tree = r.tree /\ (sound(r2) <=> sound(r))
    /\ r2.known = k /\ r2.idToSha = m

LEMMA ReaderTakes ==
    ASSUME NEW t, NEW r, readerOk(t, r), NEW c, cacheOk(t, r, c), NEW k \in BOOLEAN, NEW m, m \subseteq t.meta,
           NEW r2, r2 = [[[r EXCEPT !.cached = c] EXCEPT !.known = k] EXCEPT !.idToSha = m]
    PROVE  readerTook(t, r, k, m, r2)
  <1>1. PICK D : r \in readerShape(D)
    BY DEF readerOk
  <1>2. /\ r2 \in readerShape(D \cup {c, m}) /\ r2.cached = c /\ r2.known = k /\ r2.idToSha = m
        /\ r2.tree = r.tree /\ r2.strict = r.strict /\ r2.bad = r.bad
    BY <1>1 DEF readerShape
  <1>3. sound(r2) <=> sound(r)
    BY <1>2 DEF sound
  <1>4. cacheOk(t, r2, r2.cached)
    BY <1>2, <1>3 DEF cacheOk, shardOk
  <1>5. readerOk(t, r2)
    BY <1>2, <1>4 DEF readerOk
  <1> QED
    BY <1>2, <1>3, <1>5 DEF readerTook

\* The commits of an index are the first ones.
LEMMA ExactAnswer ==
    ASSUME NEW P, historyOk(P), NEW t, treeOk(P, t), NEW N \in 0..Len(P), metaOk(N, t.meta),
           NEW sha, NEW kind, NEW s
    PROVE  s \in exactAnswer(P, t, sha, kind) <=>
             /\ sha \in 1..N
             /\ kind = "rev" => s \in P[sha]
             /\ kind # "rev" => s \in 1..N /\ sha \in P[s]
  <1>1. \A c : c \in {x[1] : x \in t.meta} <=> c \in 1..N
    BY DEF metaOk
  <1> QED
    BY <1>1 DEF exactAnswer

\* The mapping of the ids, as far as they are needed.
mapped(t, r, ids, m) == m \subseteq t.meta /\ (sound(r) /\ ids # {} => t.meta \subseteq m)

answersFor(P, t, r, sha, kind, a) ==
    /\ a \subseteq exactAnswer(P, t, sha, kind)
    /\ sound(r) => exactAnswer(P, t, sha, kind) \subseteq a

LEMMA AnswerExact ==
    ASSUME NEW P, historyOk(P), NEW t, treeOk(P, t), NEW r, NEW q, q.kind \in {"fwd", "rev"},
           idsFound(t, r, q), NEW m, mapped(t, r, q.ids, m)
    PROVE  answersFor(P, t, r, q.sha, q.kind, shasOf(q.ids, m))
  <1> SUFFICES ASSUME NEW a, a = shasOf(q.ids, m), NEW E, E = exactAnswer(P, t, q.sha, q.kind)
               PROVE  a \subseteq E /\ (sound(r) => E \subseteq a)
    BY DEF answersFor
  <1>1. PICK N \in 0..Len(P) :
      /\ t.frontier \in 0..N /\ metaOk(N, t.meta)
      /\ \A z \in t.fwd : z = <<z[1], z[2]>> /\ \E y \in t.meta : y[2] = z[2] /\ z[1] \in P[y[1]]
      /\ \A y \in t.meta, p \in 1..N : p \in P[y[1]] => <<p, y[2]>> \in t.fwd
      /\ \A z \in t.rev : /\ z = <<z[1], z[2]>> /\ z[1] \in 1..N
                          /\ \E x \in t.meta : x[2] = z[2] /\ x[1] \in P[z[1]]
      /\ \A x \in t.meta, c \in 1..N : x[1] \in P[c] => <<c, x[2]>> \in t.rev
    BY DEF treeOk
  <1>2. Len(P) \in Nat /\ N \in Nat /\ N <= Len(P) /\ Len(P) <= MaxCommit
    BY LenProperties DEF historyOk
  <1>3. \A c \in 1..N : P[c] \subseteq 1..N
    <2> SUFFICES ASSUME NEW c \in 1..N
                 PROVE  P[c] \subseteq 1..N
      OBVIOUS
    <2>1. P[c] \subseteq 1..(c - 1)
      BY <1>2 DEF historyOk
    <2> QED
      BY <1>2, <2>1
  <1>4. PICK sha : sha = q.sha
    OBVIOUS
  <1>5. \A s : s \in E <=> /\ sha \in 1..N
                           /\ q.kind = "rev" => s \in P[sha]
                           /\ q.kind # "rev" => s \in 1..N /\ sha \in P[s]
    BY <1>1, <1>4, ExactAnswer
  <1>6. \A x \in t.meta : x = <<x[1], x[2]>> /\ x[1] \in 1..N
    BY <1>1 DEF metaOk
  <1>7. \A x, y \in t.meta : x[1] = y[1] <=> x[2] = y[2]
    BY <1>1 DEF metaOk
  <1>8. \A c \in 1..N : \E x \in t.meta : x[1] = c
    BY <1>1 DEF metaOk
  <1>9. \A s : s \in a <=> s \in 1..MaxCommit /\ \E i \in q.ids : <<s, i>> \in m
    BY DEF shasOf
  <1>10. ASSUME NEW s \in a
         PROVE  s \in E
    <2>1. PICK i \in q.ids : <<s, i>> \in m
      BY <1>9, <1>10
    <2>2. PICK x \in t.meta : x = <<s, i>> /\ x[1] = s /\ x[2] = i
      BY <2>1 DEF mapped
    <2>3. CASE q.kind = "fwd"
      <3>0. <<sha, i>> \in t.fwd
        <4>1. \A j \in q.ids : <<q.sha, j>> \in t[q.kind]
          BY DEF idsFound
        <4> QED
          BY <1>4, <2>3, <4>1
      <3>1. PICK z \in t.fwd : z = <<sha, i>> /\ z[1] = sha /\ z[2] = i
        BY <3>0
      <3>2. PICK y \in t.meta : y[2] = i /\ sha \in P[y[1]]
        BY <1>1, <3>1
      <3>3. y[1] = s /\ s \in 1..N
        BY <1>6, <1>7, <2>2, <3>2
      <3>4. sha \in 1..N
        BY <1>3, <3>2, <3>3
      <3> QED
        BY <1>5, <2>3, <3>2, <3>3, <3>4
    <2>4. CASE q.kind = "rev"
      <3>0. <<sha, i>> \in t.rev
        <4>1. \A j \in q.ids : <<q.sha, j>> \in t[q.kind]
          BY DEF idsFound
        <4> QED
          BY <1>4, <2>4, <4>1
      <3>1. PICK z \in t.rev : z = <<sha, i>> /\ z[1] = sha /\ z[2] = i
        BY <3>0
      <3>2. sha \in 1..N /\ \E y \in t.meta : y[2] = i /\ y[1] \in P[sha]
        BY <1>1, <3>1
      <3>3. PICK y \in t.meta : y[2] = i /\ y[1] \in P[sha]
        BY <3>2
      <3>4. y[1] = s
        BY <1>7, <2>2, <3>3
      <3> QED
        BY <1>5, <2>4, <3>2, <3>3, <3>4
    <2> QED
      BY <2>3, <2>4
  <1>11. ASSUME sound(r), NEW s \in E
         PROVE  s \in a
    <2>1. sha \in 1..N /\ s \in 1..N
      BY <1>3, <1>5
    <2>2. PICK i : i \in q.ids /\ <<s, i>> \in t.meta
      <3>1. CASE q.kind = "fwd"
        <4>1. sha \in P[s]
          BY <1>5, <3>1
        <4>2. PICK y \in t.meta : y[1] = s
          BY <1>8, <2>1
        <4>3. y = <<s, y[2]>>
          BY <1>6, <4>2
        <4>4. PICK z \in t.fwd : z = <<sha, y[2]>>
          BY <1>1, <2>1, <4>1, <4>2
        <4>5. z \in t[q.kind] /\ z[1] = q.sha /\ z[2] = y[2]
          BY <1>4, <3>1, <4>4
        <4>6. y[2] \in q.ids
          BY <1>11, <4>5 DEF idsFound
        <4> QED
          BY <4>3, <4>6
      <3>2. CASE q.kind = "rev"
        <4>1. s \in P[sha]
          BY <1>5, <3>2
        <4>2. PICK x \in t.meta : x[1] = s
          BY <1>8, <2>1
        <4>3. x = <<s, x[2]>>
          BY <1>6, <4>2
        <4>4. PICK z \in t.rev : z = <<sha, x[2]>>
          BY <1>1, <2>1, <4>1, <4>2
        <4>5. z \in t[q.kind] /\ z[1] = q.sha /\ z[2] = x[2]
          BY <1>4, <3>2, <4>4
        <4>6. x[2] \in q.ids
          BY <1>11, <4>5 DEF idsFound
        <4> QED
          BY <4>3, <4>6
      <3> QED
        BY <3>1, <3>2
    <2>3. <<s, i>> \in m
      BY <1>11, <2>2 DEF mapped
    <2>4. s \in 1..MaxCommit
      BY <1>2, <2>1, CommitIndexAssumption
    <2> QED
      BY <1>9, <2>2, <2>3, <2>4
  <1> QED
    BY <1>10, <1>11

\* The last query goes on, the others are done.
LEMMA QueryMoves ==
    ASSUME NEW P, NEW t, NEW r, NEW Q, queriesOk(P, t, r, Q), NEW n \in 1..Len(Q), Q[n].phase # "done",
           NEW r2, sound(r2) <=> sound(r), NEW q2, queryOk(P, t, r2, q2),
           r2.known /\ q2.phase \in {"edges", "done"} /\ sound(r2) => t.meta \subseteq r2.idToSha,
           NEW Q2, Q2 = [Q EXCEPT ![n] = q2]
    PROVE  queriesOk(P, t, r2, Q2)
  <1>1. PICK D : Q \in Seq(D)
    BY DEF queriesOk, isSeq
  <1>2. PICK C : C = D \cup {q2}
    OBVIOUS
  <1>3. Q \in Seq(C) /\ q2 \in C /\ Len(Q) \in Nat
    BY <1>1, <1>2, SeqMonotonic, LenProperties
  <1>4. /\ Q2 \in Seq(C) /\ Len(Q2) = Len(Q)
        /\ \A j \in 1..Len(Q) : Q2[j] = IF j = n THEN q2 ELSE Q[j]
    BY <1>3, ExceptSeq
  <1>5. n = Len(Q)
    BY <1>3 DEF queriesOk
  <1>6. \A j \in 1..Len(Q) : j # n => j < Len(Q)
    BY <1>3, <1>5
  <1>7. ASSUME NEW j \in 1..Len(Q2)
        PROVE  queryOk(P, t, r2, Q2[j]) /\ (j < Len(Q2) => Q2[j].phase = "done")
    <2>1. CASE j = n
      BY <1>3, <1>4, <1>5, <1>7, <2>1
    <2>2. CASE j # n
      <3>1. PICK q : q = Q[j] /\ q = Q2[j]
        BY <1>4, <1>7, <2>2
      <3>2. queryOk(P, t, r, q) /\ q.phase = "done"
        BY <1>4, <1>6, <1>7, <2>2, <3>1 DEF queriesOk
      <3>3. queryOk(P, t, r2, q)
        BY <3>2 DEF queryOk, answerOk
      <3> QED
        BY <3>1, <3>2, <3>3
    <2> QED
      BY <2>1, <2>2
  <1>8. ASSUME r2.known /\ (\A j \in 1..Len(Q2) : Q2[j].phase \in {"edges", "done"}) /\ sound(r2)
        PROVE  t.meta \subseteq r2.idToSha
    <2>1. Q2[n] = q2 /\ n \in 1..Len(Q2)
      BY <1>4
    <2> QED
      BY <1>8, <2>1
  <1> QED
    BY <1>4, <1>7, <1>8 DEF queriesOk, isSeq

----------------------------------------------------------------------------
(* The queries.                                                            *)

LEMMA ReadingKept ==
    ASSUME CommitIndexInv, UNCHANGED <<parents, build, trees>>, NEW t, t = trees[reader.tree],
           reader.tree \in 1..Len(trees), reader'.tree = reader.tree,
           readerOk(t, reader'), queriesOk(parents, t, reader', queries')
    PROVE  CommitIndexInv'
  <1>1. readingOk(parents, trees, reader', queries')
    BY DEF readingOk
  <1> QED
    BY <1>1 DEF CommitIndexInv

\* What there is to know of a query.
LEMMA QueryFacts ==
    ASSUME CommitIndexInv, NEW n \in 1..Len(queries)
    PROVE  /\ reader.tree \in 1..Len(trees) /\ historyOk(parents) /\ Len(parents) \in Nat
           /\ treeOk(parents, openTree) /\ readerOk(openTree, reader)
           /\ queriesOk(parents, openTree, reader, queries)
           /\ queryOk(parents, openTree, reader, queries[n])
  <1>1. /\ reader.tree \in 1..Len(trees) /\ readerOk(trees[reader.tree], reader)
        /\ queriesOk(parents, trees[reader.tree], reader, queries)
    <2>1. queries # << >>
      OBVIOUS
    <2> QED
      BY <2>1 DEF CommitIndexInv, readingOk
  <1>2. treeOk(parents, trees[reader.tree]) /\ historyOk(parents)
    BY <1>1 DEF CommitIndexInv
  <1>3. queryOk(parents, trees[reader.tree], reader, queries[n])
    BY <1>1 DEF queriesOk
  <1>4. Len(parents) \in Nat
    BY <1>2, LenProperties DEF historyOk
  <1> QED
    BY <1>1, <1>2, <1>3, <1>4 DEF openTree

\* The reader takes what an action gives it.
LEMMA ReaderUpdated ==
    ASSUME NEW t, NEW r, readerOk(t, r), NEW c, cacheOk(t, r, c), NEW m, m \subseteq t.meta
    PROVE  /\ readerTook(t, r, r.known, r.idToSha, [r EXCEPT !.cached = c])
           /\ readerTook(t, r, TRUE, r.idToSha, [r EXCEPT !.cached = c, !.known = TRUE])
           /\ readerTook(t, r, r.known, m, [r EXCEPT !.idToSha = m, !.cached = c])
  <1>1. PICK D : r \in readerShape(D)
    BY DEF readerOk
  <1>2. r.idToSha \subseteq t.meta /\ r.known \in BOOLEAN
    BY <1>1 DEF readerOk, readerShape
  <1>3. PICK k, i : k = r.known /\ i = r.idToSha
    OBVIOUS
  <1>4. readerTook(t, r, k, i, [r EXCEPT !.cached = c])
    <2>1. PICK r2 : r2 = [[[r EXCEPT !.cached = c] EXCEPT !.known = k] EXCEPT !.idToSha = i]
      OBVIOUS
    <2>2. r2 = [r EXCEPT !.cached = c]
      BY <1>1, <1>3, <2>1 DEF readerShape
    <2>3. readerTook(t, r, k, i, r2)
      BY <1>2, <1>3, <2>1, ReaderTakes
    <2> QED
      BY <2>2, <2>3
  <1>5. readerTook(t, r, TRUE, i, [r EXCEPT !.cached = c, !.known = TRUE])
    <2>1. PICK r2 : r2 = [[[r EXCEPT !.cached = c] EXCEPT !.known = TRUE] EXCEPT !.idToSha = i]
      OBVIOUS
    <2>2. r2 = [r EXCEPT !.cached = c, !.known = TRUE]
      BY <1>1, <1>3, <2>1 DEF readerShape
    <2>3. readerTook(t, r, TRUE, i, r2)
      BY <1>2, <1>3, <2>1, ReaderTakes
    <2> QED
      BY <2>2, <2>3
  <1>6. readerTook(t, r, k, m, [r EXCEPT !.idToSha = m, !.cached = c])
    <2>1. PICK r2 : r2 = [[[r EXCEPT !.cached = c] EXCEPT !.known = k] EXCEPT !.idToSha = m]
      OBVIOUS
    <2>2. r2 = [r EXCEPT !.idToSha = m, !.cached = c]
      BY <1>1, <1>3, <2>1 DEF readerShape
    <2>3. readerTook(t, r, k, m, r2)
      BY <1>2, <1>3, <2>1, ReaderTakes
    <2> QED
      BY <2>2, <2>3
  <1> QED
    BY <1>3, <1>4, <1>5, <1>6

\* The entries of a commit in its shard.
LEMMA IdsRead ==
    ASSUME NEW P, NEW t, treeOk(P, t), NEW r, NEW sha, NEW kind \in {"fwd", "rev"}, NEW data,
           shardOk(t, r, <<kind, Prefix(sha)>>, data),
           NEW ids, ids = {x[2] : x \in {y \in data : y[1] = sha}}
    PROVE  /\ \A i \in ids : <<sha, i>> \in t[kind]
           /\ sound(r) => \A y \in t[kind] : y[1] = sha => y[2] \in ids
  <1>1. PICK S : S = t[kind]
    OBVIOUS
  <1>2. \A z \in S : z = <<z[1], z[2]>>
    <2>1. (\A z \in t.fwd : z = <<z[1], z[2]>>) /\ \A z \in t.rev : z = <<z[1], z[2]>>
      BY DEF treeOk
    <2>2. CASE kind = "fwd"
      BY <1>1, <2>1, <2>2
    <2>3. CASE kind = "rev"
      BY <1>1, <2>1, <2>3
    <2> QED
      BY <2>2, <2>3
  <1>3. data \subseteq S /\ (sound(r) => \A x \in S : Prefix(x[1]) = Prefix(sha) => x \in data)
    BY <1>1 DEF shardOk
  <1>4. \A i : i \in ids <=> \E y \in data : y[1] = sha /\ y[2] = i
    OBVIOUS
  <1>5. ASSUME NEW i \in ids
        PROVE  <<sha, i>> \in S
    <2>1. PICK y \in data : y[1] = sha /\ y[2] = i
      BY <1>4
    <2>2. y \in S /\ y = <<y[1], y[2]>>
      BY <1>2, <1>3
    <2> QED
      BY <2>1, <2>2
  <1>6. ASSUME sound(r), NEW y \in S, y[1] = sha
        PROVE  y[2] \in ids
    <2>1. y \in data
      BY <1>3, <1>6
    <2> QED
      BY <1>4, <1>6, <2>1
  <1> QED
    BY <1>1, <1>5, <1>6

LEMMA StartQueryKeeps == CommitIndexInv /\ startQuery /\ ~OverlapQueries /\ ~RetryQueries => CommitIndexInv'
  <1> SUFFICES ASSUME CommitIndexInv, startQuery, ~OverlapQueries, ~RetryQueries
               PROVE  CommitIndexInv'
    OBVIOUS
  <1>1. PICK P, t, r, Q : P = parents /\ t = trees[reader.tree] /\ r = reader /\ Q = queries
    OBVIOUS
  <1>2. r.tree \in 1..Len(trees) /\ readerOk(t, r) /\ queriesOk(P, t, r, Q)
    BY <1>1 DEF CommitIndexInv, readingOk, startQuery
  <1>3. \A n \in 1..Len(Q) : Q[n].phase = "done"
    <2>1. \A n \in 1..Len(Q) : Q[n].phase \in {"done", "failed"}
      BY <1>1 DEF startQuery, idleReader
    <2>2. \A n \in 1..Len(Q) : Q[n].phase # "failed"
      BY <1>1 DEF startQuery
    <2> QED
      BY <2>1, <2>2
  <1>4. PICK sha \in 1..Len(P), kind \in {"fwd", "rev"} :
           queries' = Append(Q, [sha |-> sha, kind |-> kind, phase |-> "edges", ids |-> {},
                                 todo |-> {}, answer |-> {}])
    BY <1>1 DEF startQuery
  <1>5. PICK q : q = [sha |-> sha, kind |-> kind, phase |-> "edges", ids |-> {}, todo |-> {}, answer |-> {}]
    OBVIOUS
  <1>6. PICK Q2 : Q2 = Append(Q, q)
    OBVIOUS
  <1>7. PICK D : Q \in Seq(D)
    BY <1>2 DEF queriesOk, isSeq
  <1>8. /\ Len(Q) \in Nat /\ isSeq(Q2) /\ Len(Q2) = Len(Q) + 1 /\ Q2[Len(Q) + 1] = q
        /\ \A i \in 1..Len(Q) : Q2[i] = Q[i]
    BY <1>6, <1>7, OneMore
  <1>9. queryOk(P, t, r, q)
    <2>1. PICK C : C = {kind, "edges", {}}
      OBVIOUS
    <2>2. Len(P) \in Nat
      BY <1>1, LenProperties DEF CommitIndexInv, historyOk
    <2>3. q \in queryShape(C) /\ q.sha = sha /\ q.kind = kind /\ q.phase = "edges"
      BY <1>5, <2>1, <2>2 DEF queryShape
    <2> QED
      BY <2>3 DEF queryOk
  <1>10. \A i \in 1..Len(Q2) : i \in 1..Len(Q) \/ i = Len(Q) + 1
    BY <1>8
  <1>11. \A i \in 1..Len(Q2) : queryOk(P, t, r, Q2[i]) /\ (i < Len(Q2) => Q2[i].phase = "done")
    <2>1. \A i \in 1..Len(Q) : queryOk(P, t, r, Q[i])
      BY <1>2 DEF queriesOk
    <2>2. \A i \in 1..Len(Q2) : i < Len(Q2) => i \in 1..Len(Q)
      BY <1>8
    <2> QED
      BY <1>3, <1>8, <1>9, <1>10, <2>1, <2>2
  <1>12. r.known /\ sound(r) => t.meta \subseteq r.idToSha
    BY <1>2, <1>3 DEF queriesOk
  <1>13. queriesOk(P, t, r, Q2)
    BY <1>8, <1>11, <1>12 DEF queriesOk
  <1>14. UNCHANGED <<parents, build, trees, reader>>
    BY DEF startQuery
  <1>15. queries' = Q2
    BY <1>4, <1>5, <1>6
  <1> QED
    BY <1>1, <1>2, <1>13, <1>14, <1>15, ReadingKept

\* A query that has gone on, with what the reader has learnt.
LEMMA QueryKept ==
    ASSUME CommitIndexInv, UNCHANGED <<parents, build, trees>>, NEW n \in 1..Len(queries),
           queries[n].phase # "done", NEW r2, reader' = r2, NEW k, NEW m, readerTook(openTree, reader, k, m, r2),
           NEW q2, queries' = [queries EXCEPT ![n] = q2], queryOk(parents, openTree, r2, q2),
           k /\ q2.phase \in {"edges", "done"} /\ sound(r2) => openTree.meta \subseteq m
    PROVE  CommitIndexInv'
  <1>1. PICK P, t, r, Q, Q2 : /\ P = parents /\ t = openTree /\ r = reader /\ Q = queries
                              /\ Q2 = [Q EXCEPT ![n] = q2]
    OBVIOUS
  <1>2. r.tree \in 1..Len(trees) /\ queriesOk(P, t, r, Q)
    BY <1>1, QueryFacts
  <1>3. /\ readerOk(t, r2) /\ r2.tree = r.tree /\ (sound(r2) <=> sound(r))
        /\ r2.known = k /\ r2.idToSha = m
    BY <1>1 DEF readerTook
  <1>4. queryOk(P, t, r2, q2) /\ Q[n].phase # "done" /\ n \in 1..Len(Q)
    BY <1>1
  <1>5. r2.known /\ q2.phase \in {"edges", "done"} /\ sound(r2) => t.meta \subseteq r2.idToSha
    BY <1>1, <1>3
  <1>6. queriesOk(P, t, r2, Q2)
    BY <1>1, <1>2, <1>3, <1>4, <1>5, QueryMoves
  <1>7. queries' = Q2
    BY <1>1
  <1>8. t = trees[reader.tree]
    BY <1>1 DEF openTree
  <1> QED
    BY <1>1, <1>2, <1>3, <1>6, <1>7, <1>8, ReadingKept

\* A query that fails.
LEMMA FailedOk ==
    ASSUME NEW P, NEW t, NEW r, NEW q, queryOk(P, t, r, q), NEW q2, q2 = [q EXCEPT !.phase = "failed"]
    PROVE  queryOk(P, t, r, q2) /\ q2.phase = "failed"
  <1>1. PICK D : q \in queryShape(D)
    BY DEF queryOk
  <1>2. q2 \in queryShape(D \cup {"failed"}) /\ q2.phase = "failed" /\ q2.sha = q.sha /\ q2.kind = q.kind
    BY <1>1 DEF queryShape
  <1> QED
    BY <1>2 DEF queryOk

sameSound(r, r2) == sound(r2) <=> sound(r)
answeredWith(q, ids, m) == [q EXCEPT !.phase = "done", !.answer = shasOf(ids, m)]

\* The ids of the entries of a commit.
found(t, r, sha, kind, ids) ==
    /\ \A i \in ids : <<sha, i>> \in t[kind]
    /\ sound(r) => \A y \in t[kind] : y[1] = sha => y[2] \in ids

\* A query that answers.
LEMMA AnsweredOk ==
    ASSUME NEW P, historyOk(P), NEW t, treeOk(P, t), NEW r, NEW r2, sameSound(r, r2), NEW q,
           queryOk(P, t, r, q), NEW ids, found(t, r, q.sha, q.kind, ids),
           NEW m, mapped(t, r, ids, m)
    PROVE  queryOk(P, t, r2, answeredWith(q, ids, m)) /\ answeredWith(q, ids, m).phase = "done"
  <1> SUFFICES ASSUME NEW q2, q2 = answeredWith(q, ids, m)
               PROVE  queryOk(P, t, r2, q2) /\ q2.phase = "done"
    OBVIOUS
  <1>0. q2 = [q EXCEPT !.phase = "done", !.answer = shasOf(ids, m)]
    BY DEF answeredWith
  <1>1. PICK D : q \in queryShape(D)
    BY DEF queryOk
  <1>2. PICK a : a = shasOf(ids, m)
    OBVIOUS
  <1>3. /\ q2 \in queryShape(D \cup {"done", a}) /\ q2.phase = "done" /\ q2.sha = q.sha /\ q2.kind = q.kind
        /\ q2.answer = a
    BY <1>0, <1>1, <1>2 DEF queryShape
  <1>4. PICK x : x = [sha |-> q.sha, kind |-> q.kind, ids |-> ids]
    OBVIOUS
  <1>5. x.sha = q.sha /\ x.kind = q.kind /\ x.ids = ids /\ q.kind \in {"fwd", "rev"}
    BY <1>4 DEF queryOk
  <1>6. idsFound(t, r, x)
    BY <1>5 DEF idsFound, found
  <1>7. mapped(t, r, x.ids, m) /\ x.kind \in {"fwd", "rev"}
    BY <1>5
  <1>8. answersFor(P, t, r, x.sha, x.kind, shasOf(x.ids, m))
    BY <1>6, <1>7, AnswerExact
  <1>9. answersFor(P, t, r, q.sha, q.kind, a)
    BY <1>2, <1>5, <1>8
  <1>10. answerOk(P, t, r2, q2)
    BY <1>3, <1>9 DEF answerOk, answersFor, sameSound
  <1> QED
    BY <1>3, <1>10 DEF queryOk

LEMMA AnswerKeeps == \A n \in 1..Len(queries) : CommitIndexInv /\ answer(n) => CommitIndexInv'
  <1> SUFFICES ASSUME NEW n \in 1..Len(queries), CommitIndexInv, answer(n)
               PROVE  CommitIndexInv'
    OBVIOUS
  <1>1. PICK P, t, r, q : P = parents /\ t = openTree /\ r = reader /\ q = queries[n]
    OBVIOUS
  <1>2. historyOk(P) /\ treeOk(P, t) /\ readerOk(t, r) /\ queryOk(P, t, r, q)
    BY <1>1, QueryFacts
  <1>3. q.phase = "mapping" /\ q.todo = {}
    BY <1>1 DEF answer
  <1>4. r.known /\ idsFound(t, r, q) /\ (sound(r) => t.meta \subseteq r.idToSha)
    BY <1>2, <1>3 DEF queryOk
  <1>5. PICK m, k, ids : m = r.idToSha /\ k = r.known /\ ids = q.ids
    OBVIOUS
  <1>6. m \subseteq t.meta
    BY <1>2, <1>5 DEF readerOk
  <1>7. PICK q2 : q2 = answeredWith(q, ids, m)
    OBVIOUS
  <1>8. queryOk(P, t, r, q2) /\ q2.phase = "done"
    <2>1. found(t, r, q.sha, q.kind, ids)
      BY <1>4, <1>5 DEF idsFound, found
    <2>2. mapped(t, r, ids, m)
      BY <1>4, <1>5, <1>6 DEF mapped
    <2>3. sameSound(r, r)
      BY DEF sameSound
    <2> QED
      BY <1>2, <1>7, <2>1, <2>2, <2>3, AnsweredOk
  <1>9. readerTook(t, r, k, m, r)
    BY <1>2, <1>5 DEF readerTook
  <1>10. queries' = [queries EXCEPT ![n] = q2] /\ UNCHANGED <<parents, build, trees>> /\ reader' = r
    BY <1>1, <1>5, <1>7 DEF answer, answeredWith
  <1>11. sound(r) => t.meta \subseteq m
    BY <1>4, <1>5
  <1>12. queries[n].phase # "done"
    BY <1>1, <1>3
  <1> QED
    BY <1>1, <1>8, <1>9, <1>10, <1>11, <1>12, QueryKept

LEMMA MappingKeeps == \A n \in 1..Len(queries) : CommitIndexInv /\ _buildIdToShaMapping(n) => CommitIndexInv'
  <1> SUFFICES ASSUME NEW n \in 1..Len(queries), CommitIndexInv, _buildIdToShaMapping(n)
               PROVE  CommitIndexInv'
    OBVIOUS
  <1>1. PICK P, t, r, q : P = parents /\ t = openTree /\ r = reader /\ q = queries[n]
    OBVIOUS
  <1>2. historyOk(P) /\ treeOk(P, t) /\ readerOk(t, r) /\ queryOk(P, t, r, q)
    BY <1>1, QueryFacts
  <1>3. q.phase = "mapping" /\ q.todo # {}
    BY <1>1 DEF _buildIdToShaMapping
  <1>4. /\ r.known /\ idsFound(t, r, q) /\ \A p \in q.todo : p \in kinds \X {0, 1} /\ p[1] = "meta"
        /\ sound(r) => \A x \in t.meta : <<"meta", Prefix(x[1])>> \notin q.todo => x \in r.idToSha
    BY <1>2, <1>3 DEF queryOk
  <1>5. PICK path : path = CHOOSE p \in q.todo : TRUE
    OBVIOUS
  <1>6. path \in q.todo /\ path \in kinds \X {0, 1} /\ path[1] = "meta"
    <2>1. path \in q.todo
      BY <1>3, <1>5
    <2> QED
      BY <1>4, <2>1
  <1>7. PICK c \in shardContent(path) :
             \/ /\ ~c.ok /\ queries' = [queries EXCEPT ![n] = [q EXCEPT !.phase = "failed"]]
                /\ UNCHANGED reader
             \/ /\ c.ok /\ queries' = [queries EXCEPT ![n] = [q EXCEPT !.todo = q.todo \ {path}]]
                /\ reader' = [reader EXCEPT !.idToSha = reader.idToSha \cup c.data,
                                            !.cached = cachePut(path, c.data)]
    <2> DEFINE p0 == CHOOSE p \in queries[n].todo : TRUE
    <2>1. PICK c \in shardContent(p0) :
             \/ /\ ~c.ok /\ queries' = [queries EXCEPT ![n] = [queries[n] EXCEPT !.phase = "failed"]]
                /\ UNCHANGED reader
             \/ /\ c.ok
                /\ queries' = [queries EXCEPT ![n] = [queries[n] EXCEPT !.todo = queries[n].todo \ {p0}]]
                /\ reader' = [reader EXCEPT !.idToSha = reader.idToSha \cup c.data,
                                            !.cached = cachePut(p0, c.data)]
      BY Zenon DEF _buildIdToShaMapping
    <2>2. path = p0
      BY <1>1, <1>5
    <2> HIDE DEF p0
    <2> QED
      BY <1>1, <2>1, <2>2
  <1>8. c.ok \in BOOLEAN /\ (c.ok = TRUE => shardOk(t, r, path, c.data))
    BY <1>1, <1>2, <1>6, ContentOk
  <1>9. UNCHANGED <<parents, build, trees>> /\ queries[n].phase # "done"
    BY <1>1, <1>3 DEF _buildIdToShaMapping
  <1>10. PICK k : k = r.known
    OBVIOUS
  <1>11. CASE queries' = [queries EXCEPT ![n] = [q EXCEPT !.phase = "failed"]] /\ UNCHANGED reader
    <2>1. PICK q2 : q2 = [q EXCEPT !.phase = "failed"]
      OBVIOUS
    <2>2. queryOk(P, t, r, q2) /\ q2.phase = "failed"
      BY <1>2, <2>1, FailedOk
    <2>3. PICK m : m = r.idToSha
      OBVIOUS
    <2>4. readerTook(t, r, k, m, r) /\ reader' = r
      BY <1>1, <1>2, <1>10, <1>11, <2>3 DEF readerTook
    <2>5. queries' = [queries EXCEPT ![n] = q2]
      BY <1>11, <2>1
    <2> QED
      BY <1>1, <1>9, <2>2, <2>4, <2>5, QueryKept
  <1>12. CASE /\ c.ok = TRUE /\ queries' = [queries EXCEPT ![n] = [q EXCEPT !.todo = q.todo \ {path}]]
              /\ reader' = [reader EXCEPT !.idToSha = reader.idToSha \cup c.data, !.cached = cachePut(path, c.data)]
    <2>1. PICK data, m, left, cp : /\ data = c.data /\ m = r.idToSha \cup c.data /\ left = q.todo \ {path}
                                   /\ cp = cachePut(path, c.data)
      OBVIOUS
    <2>2. shardOk(t, r, path, data) /\ data \subseteq t.meta
      <3>1. shardOk(t, r, path, data)
        BY <1>8, <1>12, <2>1
      <3> QED
        BY <1>6, <3>1 DEF shardOk
    <2>3. m \subseteq t.meta
      <3>1. r.idToSha \subseteq t.meta
        BY <1>2 DEF readerOk
      <3> QED
        BY <2>1, <2>2, <3>1
    <2>4. cacheOk(t, r, cp)
      <3>1. cacheOk(t, reader, cachePut(path, data))
        BY <1>1, <1>2, <2>2, CachePut
      <3> QED
        BY <1>1, <2>1, <3>1
    <2>5. PICK r2 : r2 = [r EXCEPT !.idToSha = m, !.cached = cp]
      OBVIOUS
    <2>6. readerTook(t, r, k, m, r2)
      BY <1>2, <1>10, <2>3, <2>4, <2>5, ReaderUpdated
    <2>7. reader' = r2
      BY <1>1, <1>12, <2>1, <2>5
    <2>8. PICK q2 : q2 = [q EXCEPT !.todo = left]
      OBVIOUS
    <2>9. queries' = [queries EXCEPT ![n] = q2]
      BY <1>12, <2>1, <2>8
    <2>10. PICK D : q \in queryShape(D)
      BY <1>2 DEF queryOk
    <2>11. /\ q2 \in queryShape(D \cup {left}) /\ q2.phase = "mapping" /\ q2.sha = q.sha /\ q2.kind = q.kind
           /\ q2.ids = q.ids /\ q2.todo = left
      BY <1>3, <2>8, <2>10 DEF queryShape
    <2>12. r2.known /\ r2.idToSha = m /\ (sound(r2) <=> sound(r))
      BY <1>4, <1>10, <2>6 DEF readerTook
    <2>13. idsFound(t, r2, q2)
      BY <1>4, <2>11, <2>12 DEF idsFound
    <2>14. ASSUME sound(r2), NEW x \in t.meta, <<"meta", Prefix(x[1])>> \notin q2.todo
           PROVE  x \in r2.idToSha
      <3>1. CASE <<"meta", Prefix(x[1])>> \notin q.todo
        BY <1>4, <2>1, <2>12, <2>14, <3>1
      <3>2. CASE <<"meta", Prefix(x[1])>> \in q.todo
        <4>1. path = <<"meta", Prefix(x[1])>>
          BY <2>1, <2>11, <2>14, <3>2
        <4>2. path[1] = "meta" /\ path[2] = Prefix(x[1])
          BY <4>1
        <4>3. x \in data
          BY <2>2, <2>12, <2>14, <4>2 DEF shardOk
        <4> QED
          BY <2>1, <2>12, <4>3
      <3> QED
        BY <3>1, <3>2
    <2>15. \A p \in q2.todo : p \in kinds \X {0, 1} /\ p[1] = "meta"
      BY <1>4, <2>1, <2>11
    <2>16. queryOk(P, t, r2, q2)
      BY <1>2, <2>11, <2>12, <2>13, <2>14, <2>15 DEF queryOk
    <2> QED
      BY <1>1, <1>9, <2>6, <2>7, <2>9, <2>11, <2>16, QueryKept
  <1> QED
    BY <1>7, <1>8, <1>11, <1>12

LEMMA EdgesKeep == \A n \in 1..Len(queries) : CommitIndexInv /\ _getEdges(n) => CommitIndexInv'
  <1> SUFFICES ASSUME NEW n \in 1..Len(queries), CommitIndexInv, _getEdges(n)
               PROVE  CommitIndexInv'
    OBVIOUS
  <1>1. PICK P, t, r, q : P = parents /\ t = openTree /\ r = reader /\ q = queries[n]
    OBVIOUS
  <1>2. /\ historyOk(P) /\ treeOk(P, t) /\ readerOk(t, r) /\ queryOk(P, t, r, q) /\ queriesOk(P, t, r, queries)
        /\ Len(P) \in Nat
    BY <1>1, QueryFacts
  <1>3. q.phase = "edges"
    BY <1>1 DEF _getEdges
  <1>4. PICK path : path = <<q.kind, Prefix(q.sha)>>
    OBVIOUS
  <1>5. path \in kinds \X {0, 1} /\ q.kind \in {"fwd", "rev"}
    BY <1>2, <1>4 DEF queryOk, kinds, Prefix
  <1>6. PICK c, ids :
          /\ c \in shardContent(path) /\ ids = {x[2] : x \in {y \in c.data : y[1] = q.sha}}
          /\ \/ /\ ~c.ok /\ queries' = [queries EXCEPT ![n] = [q EXCEPT !.phase = "failed"]]
                /\ UNCHANGED reader
             \/ /\ c.ok /\ ids # {} /\ ~reader.known
                /\ queries' = [queries EXCEPT ![n] =
                     [q EXCEPT !.phase = "mapping", !.ids = ids, !.todo = metaPaths]]
                /\ reader' = [reader EXCEPT !.cached = cachePut(path, c.data), !.known = TRUE]
             \/ /\ c.ok /\ (ids = {} \/ reader.known)
                /\ queries' = [queries EXCEPT ![n] = answeredWith(q, ids, reader.idToSha)]
                /\ reader' = [reader EXCEPT !.cached = cachePut(path, c.data)]
    <2> DEFINE p0 == <<queries[n].kind, Prefix(queries[n].sha)>>
               got(c) == {x[2] : x \in {y \in c.data : y[1] = queries[n].sha}}
    <2>1. PICK c \in shardContent(p0) :
             \/ /\ ~c.ok /\ queries' = [queries EXCEPT ![n] = [queries[n] EXCEPT !.phase = "failed"]]
                /\ UNCHANGED reader
             \/ /\ c.ok /\ got(c) # {} /\ ~reader.known
                /\ queries' = [queries EXCEPT ![n] =
                     [queries[n] EXCEPT !.phase = "mapping", !.ids = got(c), !.todo = metaPaths]]
                /\ reader' = [reader EXCEPT !.cached = cachePut(p0, c.data), !.known = TRUE]
             \/ /\ c.ok /\ (got(c) = {} \/ reader.known)
                /\ queries' = [queries EXCEPT ![n] =
                     [queries[n] EXCEPT !.phase = "done", !.answer = shasOf(got(c), reader.idToSha)]]
                /\ reader' = [reader EXCEPT !.cached = cachePut(p0, c.data)]
      BY Zenon DEF _getEdges
    <2>2. path = p0
      BY <1>1, <1>4
    <2>3. PICK ids : ids = got(c)
      OBVIOUS
    <2>4. ids = {x[2] : x \in {y \in c.data : y[1] = q.sha}}
      BY <1>1, <2>3
    <2> HIDE DEF p0, got
    <2> QED
      BY <1>1, <2>1, <2>2, <2>3, <2>4 DEF answeredWith
  <1>7. c.ok \in BOOLEAN /\ (c.ok = TRUE => shardOk(t, r, path, c.data))
    BY <1>1, <1>2, <1>5, <1>6, ContentOk
  <1>8. UNCHANGED <<parents, build, trees>> /\ queries[n].phase # "done"
    BY <1>1, <1>3 DEF _getEdges
  <1>9. PICK k, m : k = r.known /\ m = r.idToSha
    OBVIOUS
  <1>10. m \subseteq t.meta /\ k \in BOOLEAN
    BY <1>2, <1>9 DEF readerOk, readerShape
  <1>11. k = TRUE /\ sound(r) => t.meta \subseteq m
    <2>1. Len(queries) \in Nat
      BY <1>2, LenProperties DEF queriesOk, isSeq
    <2>2. \A i \in 1..Len(queries) : queries[i].phase \in {"edges", "done"}
      <3> SUFFICES ASSUME NEW i \in 1..Len(queries)
                   PROVE  queries[i].phase \in {"edges", "done"}
        OBVIOUS
      <3>1. \A j \in 1..Len(queries) : j < Len(queries) => queries[j].phase = "done"
        BY <1>2 DEF queriesOk
      <3>2. n = Len(queries)
        BY <1>8, <2>1, <3>1
      <3>3. i < Len(queries) \/ i = n
        BY <2>1, <3>2
      <3> QED
        BY <1>1, <1>3, <3>1, <3>3
    <2> QED
      BY <1>2, <1>9, <2>2 DEF queriesOk
  <1>12. CASE queries' = [queries EXCEPT ![n] = [q EXCEPT !.phase = "failed"]] /\ UNCHANGED reader
    <2>1. PICK q2 : q2 = [q EXCEPT !.phase = "failed"]
      OBVIOUS
    <2>2. queryOk(P, t, r, q2) /\ q2.phase = "failed"
      BY <1>2, <2>1, FailedOk
    <2>3. readerTook(t, r, k, m, r) /\ reader' = r
      BY <1>1, <1>2, <1>9, <1>12 DEF readerTook
    <2>4. queries' = [queries EXCEPT ![n] = q2]
      BY <1>12, <2>1
    <2> QED
      BY <1>1, <1>8, <2>2, <2>3, <2>4, QueryKept
  <1>13. ASSUME c.ok = TRUE
         PROVE  found(t, r, q.sha, q.kind, ids) /\ cacheOk(t, r, cachePut(path, c.data))
    <2>1. PICK data : data = c.data
      OBVIOUS
    <2>2. shardOk(t, r, path, data)
      BY <1>7, <1>13, <2>1
    <2>3. cacheOk(t, r, cachePut(path, data))
      BY <1>1, <1>2, <2>2, CachePut
    <2>4. PICK sha, kind : sha = q.sha /\ kind = q.kind
      OBVIOUS
    <2>5. shardOk(t, r, <<kind, Prefix(sha)>>, data) /\ kind \in {"fwd", "rev"}
      BY <1>4, <1>5, <2>2, <2>4
    <2>6. ids = {x[2] : x \in {y \in data : y[1] = sha}}
      BY <1>6, <2>1, <2>4
    <2>7. found(t, r, sha, kind, ids)
      BY <1>2, <2>5, <2>6, IdsRead DEF found
    <2> QED
      BY <2>1, <2>3, <2>4, <2>7
  <1>14. CASE /\ c.ok = TRUE
              /\ queries' = [queries EXCEPT ![n] =
                   [q EXCEPT !.phase = "mapping", !.ids = ids, !.todo = metaPaths]]
              /\ reader' = [reader EXCEPT !.cached = cachePut(path, c.data), !.known = TRUE]
    <2>1. PICK cp, left : cp = cachePut(path, c.data) /\ left = metaPaths
      OBVIOUS
    <2>2. cacheOk(t, r, cp) /\ found(t, r, q.sha, q.kind, ids)
      BY <1>13, <1>14, <2>1
    <2>3. PICK r2 : r2 = [r EXCEPT !.cached = cp, !.known = TRUE]
      OBVIOUS
    <2>4. readerTook(t, r, TRUE, m, r2)
      BY <1>2, <1>9, <1>10, <2>2, <2>3, ReaderUpdated
    <2>5. reader' = r2
      BY <1>1, <1>14, <2>1, <2>3
    <2>6. PICK q2 : q2 = [[[q EXCEPT !.phase = "mapping"] EXCEPT !.ids = ids] EXCEPT !.todo = left]
      OBVIOUS
    <2>7. queries' = [queries EXCEPT ![n] = q2]
      BY <1>14, <2>1, <2>6
    <2>8. PICK D : q \in queryShape(D)
      BY <1>2 DEF queryOk
    <2>9. /\ q2 \in queryShape(D \cup {"mapping", ids, left}) /\ q2.phase = "mapping" /\ q2.sha = q.sha
          /\ q2.kind = q.kind /\ q2.ids = ids /\ q2.todo = left
      BY <2>6, <2>8 DEF queryShape
    <2>10. r2.known = TRUE /\ r2.idToSha = m /\ (sound(r2) <=> sound(r))
      BY <2>4 DEF readerTook
    <2>11. idsFound(t, r2, q2)
      BY <2>2, <2>9, <2>10 DEF idsFound, found
    <2>12. \A p : p \in left <=> p \in kinds \X {0, 1} /\ (\E x \in t[p[1]] : Prefix(x[1]) = p[2]) /\ p[1] = "meta"
      BY <1>1, <2>1 DEF metaPaths, shardPaths
    <2>13. ASSUME NEW x \in t.meta
           PROVE  <<"meta", Prefix(x[1])>> \in left
      <3>1. x[1] \in Nat
        <4>1. PICK N \in 0..Len(P) : metaOk(N, t.meta)
          BY <1>2 DEF treeOk
        <4>2. x[1] \in 1..N /\ N \in Nat
          BY <1>2, <4>1 DEF metaOk
        <4> QED
          BY <4>2
      <3>2. PICK p : p = <<"meta", Prefix(x[1])>>
        OBVIOUS
      <3>3. p \in kinds \X {0, 1} /\ p[1] = "meta" /\ p[2] = Prefix(x[1])
        BY <3>1, <3>2 DEF kinds, Prefix
      <3>4. \E y \in t[p[1]] : Prefix(y[1]) = p[2]
        BY <3>3
      <3> QED
        BY <2>12, <3>2, <3>3, <3>4
    <2>14. \A p \in q2.todo : p \in kinds \X {0, 1} /\ p[1] = "meta"
      BY <2>9, <2>12
    <2>15. queryOk(P, t, r2, q2)
      BY <1>2, <2>9, <2>10, <2>11, <2>13, <2>14 DEF queryOk
    <2> QED
      BY <1>1, <1>8, <2>4, <2>5, <2>7, <2>9, <2>15, QueryKept
  <1>15. CASE /\ c.ok = TRUE /\ (ids = {} \/ r.known)
              /\ queries' = [queries EXCEPT ![n] = answeredWith(q, ids, reader.idToSha)]
              /\ reader' = [reader EXCEPT !.cached = cachePut(path, c.data)]
    <2>1. PICK cp : cp = cachePut(path, c.data)
      OBVIOUS
    <2>2. cacheOk(t, r, cp) /\ found(t, r, q.sha, q.kind, ids)
      BY <1>13, <1>15, <2>1
    <2>3. PICK r2 : r2 = [r EXCEPT !.cached = cp]
      OBVIOUS
    <2>4. readerTook(t, r, k, m, r2)
      BY <1>2, <1>9, <1>10, <2>2, <2>3, ReaderUpdated
    <2>5. reader' = r2
      BY <1>1, <1>15, <2>1, <2>3
    <2>6. PICK q2 : q2 = answeredWith(q, ids, m)
      OBVIOUS
    <2>7. queries' = [queries EXCEPT ![n] = q2]
      BY <1>1, <1>9, <1>15, <2>6
    <2>8. mapped(t, r, ids, m)
      BY <1>9, <1>10, <1>11, <1>15 DEF mapped
    <2>9. sameSound(r, r2)
      BY <2>4 DEF readerTook, sameSound
    <2>10. queryOk(P, t, r2, q2) /\ q2.phase = "done"
      BY <1>2, <2>2, <2>6, <2>8, <2>9, AnsweredOk
    <2>11. k /\ sound(r2) => t.meta \subseteq m
      BY <1>10, <1>11, <2>4 DEF readerTook
    <2> QED
      BY <1>1, <1>8, <2>4, <2>5, <2>7, <2>10, <2>11, QueryKept
  <1> QED
    BY <1>1, <1>6, <1>7, <1>12, <1>14, <1>15

----------------------------------------------------------------------------
(* What the invariant says.                                                *)

\* An exact tree holds the history.
holdsHistory(P, t, shas, edges) ==
    /\ 1..t.frontier \subseteq shas
    /\ \A x, y \in t.meta : (x[1] = y[1]) = (x[2] = y[2])
    /\ {e \in shas \X shas : \E y \in t.meta : y[1] = e[2] /\ <<e[1], y[2]>> \in t.fwd} = edges
    /\ {e \in shas \X shas : \E x \in t.meta : x[1] = e[1] /\ <<e[2], x[2]>> \in t.rev} = edges

LEMMA ExactTree ==
    ASSUME NEW P, historyOk(P), NEW t, treeOk(P, t), NEW shas, shas = {x[1] : x \in t.meta},
           NEW edges, edges = {e \in shas \X shas : e[1] \in P[e[2]]}
    PROVE  holdsHistory(P, t, shas, edges)
  <1>1. PICK N \in 0..Len(P) :
      /\ t.frontier \in 0..N /\ metaOk(N, t.meta)
      /\ \A z \in t.fwd : z = <<z[1], z[2]>> /\ \E y \in t.meta : y[2] = z[2] /\ z[1] \in P[y[1]]
      /\ \A y \in t.meta, p \in 1..N : p \in P[y[1]] => <<p, y[2]>> \in t.fwd
      /\ \A z \in t.rev : /\ z = <<z[1], z[2]>> /\ z[1] \in 1..N
                          /\ \E x \in t.meta : x[2] = z[2] /\ x[1] \in P[z[1]]
      /\ \A x \in t.meta, c \in 1..N : x[1] \in P[c] => <<c, x[2]>> \in t.rev
    BY DEF treeOk
  <1>2. Len(P) \in Nat /\ N \in Nat
    BY LenProperties DEF historyOk
  <1>3. \A c : c \in shas <=> c \in 1..N
    BY <1>1 DEF metaOk
  <1>4. \A x, y \in t.meta : x[1] = y[1] <=> x[2] = y[2]
    BY <1>1 DEF metaOk
  <1>5. \A c \in shas : \E x \in t.meta : x[1] = c
    OBVIOUS
  <1>6. 1..t.frontier \subseteq shas
    BY <1>1, <1>2, <1>3
  <1>7. {e \in shas \X shas : \E y \in t.meta : y[1] = e[2] /\ <<e[1], y[2]>> \in t.fwd} = edges
    <2>1. ASSUME NEW e \in shas \X shas, NEW y \in t.meta, y[1] = e[2], <<e[1], y[2]>> \in t.fwd
          PROVE  e[1] \in P[e[2]]
      <3>1. PICK z \in t.fwd : z = <<e[1], y[2]>>
        BY <2>1
      <3>2. PICK w \in t.meta : w[2] = z[2] /\ z[1] \in P[w[1]]
        BY <1>1
      <3>3. w[1] = y[1] /\ z[1] = e[1]
        BY <1>4, <3>1, <3>2
      <3> QED
        BY <2>1, <3>2, <3>3
    <2>2. ASSUME NEW e \in shas \X shas, e[1] \in P[e[2]]
          PROVE  \E y \in t.meta : y[1] = e[2] /\ <<e[1], y[2]>> \in t.fwd
      <3>1. e[1] \in 1..N /\ e[2] \in shas
        BY <1>3
      <3>2. PICK y \in t.meta : y[1] = e[2]
        BY <1>5, <3>1
      <3>3. <<e[1], y[2]>> \in t.fwd
        BY <1>1, <2>2, <3>1, <3>2
      <3> QED
        BY <3>2, <3>3
    <2> QED
      BY <2>1, <2>2
  <1>8. {e \in shas \X shas : \E x \in t.meta : x[1] = e[1] /\ <<e[2], x[2]>> \in t.rev} = edges
    <2>1. ASSUME NEW e \in shas \X shas, NEW x \in t.meta, x[1] = e[1], <<e[2], x[2]>> \in t.rev
          PROVE  e[1] \in P[e[2]]
      <3>1. PICK z \in t.rev : z = <<e[2], x[2]>>
        BY <2>1
      <3>2. PICK w \in t.meta : w[2] = z[2] /\ w[1] \in P[z[1]]
        BY <1>1
      <3>3. w[1] = x[1] /\ z[1] = e[2]
        BY <1>4, <3>1, <3>2
      <3> QED
        BY <2>1, <3>2, <3>3
    <2>2. ASSUME NEW e \in shas \X shas, e[1] \in P[e[2]]
          PROVE  \E x \in t.meta : x[1] = e[1] /\ <<e[2], x[2]>> \in t.rev
      <3>1. e[2] \in 1..N /\ e[1] \in shas
        BY <1>3
      <3>2. PICK x \in t.meta : x[1] = e[1]
        BY <1>5, <3>1
      <3>3. <<e[2], x[2]>> \in t.rev
        BY <1>1, <2>2, <3>1, <3>2
      <3> QED
        BY <3>2, <3>3
    <2> QED
      BY <2>1, <2>2
  <1>9. \A x, y \in t.meta : (x[1] = y[1]) = (x[2] = y[2])
    BY <1>4
  <1> QED
    BY <1>6, <1>7, <1>8, <1>9 DEF holdsHistory

LEMMA CommitIndexInvExact == CommitIndexInv => CommitIndexIsExact
  <1> SUFFICES ASSUME CommitIndexInv
               PROVE  CommitIndexIsExact
    OBVIOUS
  <1>1. treesHoldTheHistory
    <2> DEFINE visited(n) == {x[1] : x \in trees[n].meta}
               between(n) == {e \in visited(n) \X visited(n) : e[1] \in parents[e[2]]}
    <2> SUFFICES ASSUME NEW n \in 1..Len(trees)
                 PROVE  holdsHistory(parents, trees[n], visited(n), between(n))
      BY Zenon DEF treesHoldTheHistory, holdsHistory
    <2>0. PICK t, shas, edges : t = trees[n] /\ shas = visited(n) /\ edges = between(n)
      OBVIOUS
    <2>1. treeOk(parents, t) /\ historyOk(parents)
      BY <2>0 DEF CommitIndexInv
    <2>2. PICK P : P = parents
      OBVIOUS
    <2>3. shas = {x[1] : x \in t.meta} /\ edges = {e \in shas \X shas : e[1] \in P[e[2]]}
      BY <2>0, <2>2
    <2> HIDE DEF visited, between
    <2>4. holdsHistory(P, t, shas, edges)
      BY <2>1, <2>2, <2>3, ExactTree
    <2> QED
      BY <2>0, <2>2, <2>4
  <1>2. answersAreExact
    <2> DEFINE exact(n) == exactAnswer(parents, openTree, queries[n].sha, queries[n].kind)
    <2> SUFFICES ASSUME NEW n \in 1..Len(queries), queries[n].phase = "done"
                 PROVE  queries[n].answer \subseteq exact(n) /\ (sound(reader) => queries[n].answer = exact(n))
      BY Zenon DEF answersAreExact, exactAnswer, sound
    <2>1. queryOk(parents, openTree, reader, queries[n])
      BY QueryFacts
    <2>2. answerOk(parents, openTree, reader, queries[n])
      BY <2>1 DEF queryOk
    <2>3. queries[n].answer \subseteq exact(n) /\ (sound(reader) => exact(n) \subseteq queries[n].answer)
      BY <2>2 DEF answerOk
    <2> HIDE DEF exact
    <2> QED
      BY <2>3
  <1> QED
    BY <1>1, <1>2 DEF CommitIndexIsExact

LEMMA CommitIndexStarts == CommitIndexInit => CommitIndexInv
  <1> SUFFICES ASSUME CommitIndexInit
               PROVE  CommitIndexInv
    OBVIOUS
  <1>1. parents = << >> /\ trees = << >> /\ reader = noReader /\ queries = << >> /\ build = emptyBuilder
    BY DEF CommitIndexInit
  <1>2. historyOk(parents)
    BY <1>1, CommitIndexAssumption DEF historyOk
  <1>3. (\E D : trees \in Seq(D)) /\ 1..Len(trees) = {}
    <2>1. trees \in Seq({}) /\ Len(trees) = 0
      BY <1>1
    <2> QED
      BY <2>1
  <1>4. buildOk(parents, trees, build)
    BY <1>1, EmptyBuilderOk
  <1>5. readingOk(parents, trees, reader, queries)
    BY <1>1 DEF readingOk
  <1> QED
    BY <1>2, <1>3, <1>4, <1>5 DEF CommitIndexInv

LEMMA CommitIndexStep ==
    ASSUME ~OverlapAdds, ~OverlapQueries, ~RetryQueries, CommitIndexInv, [CommitIndexNext]_commitIndexVars
    PROVE  CommitIndexInv'
  <1>1. CASE UNCHANGED commitIndexVars
    BY <1>1 DEF CommitIndexInv, commitIndexVars
  <1>2. CASE newCommit
    BY <1>2, NewCommitKeeps
  <1>3. CASE startRebuild
    BY <1>3, StartRebuildKeeps
  <1>4. CASE registerNode
    BY <1>4, RegisterKeeps
  <1>5. CASE addParentEdge
    BY <1>5, AddEdgeKeeps
  <1>6. CASE endFlush
    BY <1>6, EndFlushKeeps
  <1>7. CASE finishRebuild
    BY <1>7, FinishKeeps
  <1>8. CASE failRebuild
    BY <1>8, FailRebuildKeeps
  <1>9. CASE load
    BY <1>9, LoadKeeps
  <1>10. CASE loadRebuilt
    BY <1>10, LoadRebuiltKeeps
  <1>11. CASE startQuery
    BY <1>11, StartQueryKeeps
  <1>12. ASSUME NEW n \in 1..Len(queries), _getEdges(n) \/ _buildIdToShaMapping(n) \/ answer(n)
         PROVE  CommitIndexInv'
    BY <1>12, EdgesKeep, MappingKeeps, AnswerKeeps
  <1> QED
    BY <1>1, <1>2, <1>3, <1>4, <1>5, <1>6, <1>7, <1>8, <1>9, <1>10, <1>11, <1>12 DEF CommitIndexNext

\* Whatever is flushed, cached, evicted or damaged, and whatever commits are
\* made meanwhile, an index holds the history it was built from and its
\* reader answers with it, if a flush is awaited before more edges are added,
\* the queries to a reader do not overlap and none follows one that failed
\* (StreamingBitmapIndexBuilder, IndexRebuildService, BitmapIndexReader).
THEOREM CommitIndexAlwaysExact ==
    ASSUME ~OverlapAdds, ~OverlapQueries, ~RetryQueries
    PROVE  CommitIndexSpec => []CommitIndexIsExact
  <1>1. CommitIndexInit => CommitIndexInv
    BY CommitIndexStarts
  <1>2. CommitIndexInv /\ [CommitIndexNext]_commitIndexVars => CommitIndexInv'
    BY CommitIndexStep
  <1>3. CommitIndexInv => CommitIndexIsExact
    BY CommitIndexInvExact
  <1> QED
    BY <1>1, <1>2, <1>3, PTL DEF CommitIndexSpec

=============================================================================
