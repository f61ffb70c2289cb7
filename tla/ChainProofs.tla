----------------------------- MODULE ChainProofs -----------------------------
(***************************************************************************)
(* Lemmas about Chains on which the proofs about Checkpoint and Sync rest. *)
(***************************************************************************)
EXTENDS Chains, TLAPS

----------------------------------------------------------------------------
(* Chains, states and their operators.                                     *)

\* the patches of ids are on the chains
Within(chains, ids) ==
    \A g \in ids : /\ g \in PatchId
                   /\ g[2] \in 1..Len(chains[g[1]])

\* The patches named are records, and what they add and remove is dots.
LEMMA PatchesOfChain ==
    ASSUME NEW c \in Chain, NEW ids, Within(c, ids)
    PROVE  /\ \A g \in ids : c[g[1]][g[2]] \in PatchRec
           /\ addsOf(c, ids) \in SUBSET Dot
           /\ removesOf(c, ids) \in SUBSET Dot
           /\ ids \in SUBSET PatchId
  <1>1. \A g \in ids : c[g[1]][g[2]] \in PatchRec
    BY DEF Within, Chain, PatchId
  <1> QED
    BY <1>1 DEF Within, addsOf, removesOf, PatchRec

\* Applying patches that exist to a state makes a state.
LEMMA AppliedType ==
    ASSUME NEW c \in Chain, NEW ids, Within(c, ids), NEW s \in StateRec
    PROVE  applied(s, c, ids) \in StateRec
  <1>1. /\ addsOf(c, ids) \in SUBSET Dot
        /\ removesOf(c, ids) \in SUBSET Dot
        /\ ids \in SUBSET PatchId
    BY PatchesOfChain
  <1>2. /\ s.set.entries \in SUBSET ({TheNode} \X Dot)
        /\ s.set.tombstones \in SUBSET Dot
        /\ s.got \in SUBSET PatchId
    BY DEF StateRec, ORSet
  <1>3. {TheNode} \X addsOf(c, ids) \in SUBSET ({TheNode} \X Dot)
    BY <1>1
  <1> QED
    BY <1>1, <1>2, <1>3 DEF applied, StateRec, ORSet

\* Compaction makes a state, of the same patches, whose entries and tombstones
\* were there before; what goes was both an entry and a tombstone.
LEMMA Compacted ==
    ASSUME NEW s \in StateRec
    PROVE  /\ executeGC(s) \in StateRec
           /\ executeGC(s).got = s.got
           /\ executeGC(s).set.entries \subseteq s.set.entries
           /\ executeGC(s).set.tombstones \subseteq s.set.tombstones
           /\ observedDots(executeGC(s)) = observedDots(s)
  <1> DEFINE vv   == computeAppliedVV(s.set)
             gone == {p \in s.set.entries : p[2] \in s.set.tombstones /\ vvContains(vv, p[2])}
  <1>1. executeGC(s) = [set |-> [entries    |-> s.set.entries \ gone,
                                 tombstones |-> s.set.tombstones \ {p[2] : p \in gone}],
                        got |-> s.got]
    <2> DEFINE compact == orsetCompact(s.set, vv)
    <2>1. compact = [entries    |-> s.set.entries \ gone,
                     tombstones |-> s.set.tombstones \ {p[2] : p \in gone}]
      BY Zenon DEF orsetCompact
    <2>2. executeGC(s) = [s EXCEPT !.set = compact]
      BY Zenon DEF executeGC
    <2> HIDE DEF compact
    <2>3. s = [set |-> s.set, got |-> s.got]
      BY DEF StateRec
    <2>4. [s EXCEPT !.set = compact] = [set |-> compact, got |-> s.got]
      BY <2>3
    <2> QED
      BY <2>1, <2>2, <2>4, Zenon
  <1>2. /\ s.set.entries \in SUBSET ({TheNode} \X Dot)
        /\ s.set.tombstones \in SUBSET Dot
        /\ s.got \in SUBSET PatchId
    BY DEF StateRec, ORSet
  <1> HIDE DEF vv
  <1>3. executeGC(s) \in StateRec
    BY <1>1, <1>2 DEF StateRec, ORSet
  <1>4. /\ executeGC(s).set.entries = s.set.entries \ gone
        /\ executeGC(s).set.tombstones = s.set.tombstones \ {p[2] : p \in gone}
    BY <1>1
  <1>5. ASSUME NEW d
        PROVE  d \in observedDots(executeGC(s)) <=> d \in observedDots(s)
    <2>1. \A p \in s.set.entries : p = <<TheNode, p[2]>>
      BY <1>2
    <2>2. d \in observedDots(s) <=> <<TheNode, d>> \in s.set.entries /\ d \notin s.set.tombstones
      BY <2>1 DEF observedDots, orsetGetDots
    <2>3. d \in observedDots(executeGC(s))
             <=> /\ <<TheNode, d>> \in s.set.entries \ gone
                 /\ d \notin s.set.tombstones \ {p[2] : p \in gone}
      BY <2>1, <1>4 DEF observedDots, orsetGetDots
    <2>4. d \in {p[2] : p \in gone} <=> <<TheNode, d>> \in gone
      BY <2>1
    <2>5. <<TheNode, d>> \in gone => d \in s.set.tombstones
      OBVIOUS
    <2>6. <<TheNode, d>> \in s.set.entries /\ d \notin s.set.tombstones => <<TheNode, d>> \notin gone
      BY <2>5
    <2> QED
      BY <2>2, <2>3, <2>4, <2>5, <2>6
  <1> QED
    BY <1>1, <1>3, <1>4, <1>5

\* the chains of d are those of c, or longer ones
Longer(c, d) ==
    \A x \in Writer : /\ Len(c[x]) \in Nat
                      /\ Len(d[x]) \in Nat
                      /\ Len(c[x]) <= Len(d[x])
                      /\ \A i \in 1..Len(c[x]) : d[x][i] = c[x][i]

\* the chains c, with a patch appended to that of w
grown(c, w, patch) == [c EXCEPT ![w] = Append(@, patch)]

\* A chain that a patch is appended to is longer by that patch.
LEMMA ChainGrows ==
    ASSUME NEW c \in Chain, NEW w \in Writer, NEW patch \in PatchRec, NEW d,
           d = grown(c, w, patch)
    PROVE  /\ d \in Chain
           /\ Longer(c, d)
           /\ Len(d[w]) = Len(c[w]) + 1
           /\ d[w][Len(c[w]) + 1] = patch
  <1>1. \A x \in Writer : c[x] \in Seq(PatchRec)
    BY DEF Chain
  <1>2. /\ Append(c[w], patch) \in Seq(PatchRec)
        /\ Len(Append(c[w], patch)) = Len(c[w]) + 1
        /\ \A i \in 1..Len(c[w]) : Append(c[w], patch)[i] = c[w][i]
        /\ Append(c[w], patch)[Len(c[w]) + 1] = patch
    BY <1>1
  <1>3. \A x \in Writer : d[x] = IF x = w THEN Append(c[w], patch) ELSE c[x]
    BY DEF Chain, grown
  <1>4. d \in Chain
    BY <1>1, <1>2, <1>3 DEF Chain, grown
  <1>5. ASSUME NEW x \in Writer
        PROVE  /\ Len(c[x]) \in Nat /\ Len(d[x]) \in Nat /\ Len(c[x]) <= Len(d[x])
               /\ \A i \in 1..Len(c[x]) : d[x][i] = c[x][i]
    <2>1. CASE x = w
      <3>1. d[w] = Append(c[w], patch) /\ c[w] \in Seq(PatchRec)
        BY <1>1, <1>3
      <3>2. Len(c[w]) \in Nat /\ Len(d[w]) = Len(c[w]) + 1
        BY <3>1
      <3>3. \A i \in 1..Len(c[w]) : d[w][i] = c[w][i]
        BY <1>2, <3>1, Zenon
      <3> QED
        BY <2>1, <3>2, <3>3
    <2>2. CASE x # w
      BY <1>1, <1>3, <2>2
    <2> QED
      BY <2>1, <2>2
  <1>6. Len(d[w]) = Len(c[w]) + 1 /\ d[w][Len(c[w]) + 1] = patch
    BY <1>2, <1>3
  <1> QED
    BY <1>4, <1>5, <1>6 DEF Longer

\* What the patches of ids are is the same on a longer chain.
LEMMA WithinGrows ==
    ASSUME NEW c \in Chain, NEW d, NEW ids, Within(c, ids), Longer(c, d)
    PROVE  /\ Within(d, ids)
           /\ addsOf(d, ids) = addsOf(c, ids)
           /\ removesOf(d, ids) = removesOf(c, ids)
  <1>1. \A g \in ids : g[1] \in Writer /\ g[2] \in 1..Len(c[g[1]])
    BY DEF Within, PatchId
  <1>2. Within(d, ids)
    BY <1>1 DEF Within, Longer
  <1>3. \A g \in ids : d[g[1]][g[2]] = c[g[1]][g[2]]
    BY <1>1 DEF Longer
  <1> QED
    BY <1>2, <1>3 DEF addsOf, removesOf

\* What a remove observes is dots of entries of the cached state.
LEMMA ObservedType ==
    ASSUME NEW s \in StateRec
    PROVE  /\ observedDots(s) \in SUBSET Dot
           /\ \A d \in observedDots(s) : <<TheNode, d>> \in s.set.entries
           /\ \A d : d \in observedDots(s)
                        <=> <<TheNode, d>> \in s.set.entries /\ d \notin s.set.tombstones
  <1>1. \A p \in s.set.entries : p = <<TheNode, p[2]>> /\ p[2] \in Dot
    BY DEF StateRec, ORSet
  <1> QED
    BY <1>1 DEF observedDots, orsetGetDots

\* Members of addsOf and removesOf.
LEMMA AddsRemoves ==
    ASSUME NEW c, NEW ids, NEW more, NEW d
    PROVE  /\ d \in addsOf(c, ids) <=> \E g \in ids : d \in c[g[1]][g[2]].adds
           /\ d \in removesOf(c, ids) <=> \E g \in ids : d \in c[g[1]][g[2]].removes
           /\ d \in addsOf(c, ids \cup more) <=> d \in addsOf(c, ids) \/ d \in addsOf(c, more)
           /\ d \in removesOf(c, ids \cup more)
                 <=> d \in removesOf(c, ids) \/ d \in removesOf(c, more)
  BY DEF addsOf, removesOf

===============================================================================
