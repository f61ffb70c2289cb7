-------------------------- MODULE PatchCommitProofs --------------------------
(***************************************************************************)
(* Proofs about PatchCommit, for any processes, writers and writer ids and *)
(* any bounds.                                                             *)
(***************************************************************************)
EXTENDS PatchCommit, TLAPS

----------------------------------------------------------------------------
(* The operators.                                                          *)

\* Version vectors are closed under the operations on them.
LEMMA VersionVectorOps ==
    ASSUME NEW a \in VersionVector, NEW b \in VersionVector, NEW w \in Writer,
           NEW n \in Nat
    PROVE  /\ createVersionVector \in VersionVector
           /\ vvIncrement(a, w) \in VersionVector
           /\ vvMerge(a, b) \in VersionVector
           /\ [a EXCEPT ![w] = maxOf(@, n)] \in VersionVector
           /\ [a EXCEPT ![w] = @ + n] \in VersionVector
  BY DEF VersionVector, createVersionVector, vvIncrement, vvMerge, maxOf

\* An increment and a merge never lower a counter.
LEMMA VersionVectorGrows ==
    ASSUME NEW a \in VersionVector, NEW b \in VersionVector, NEW w \in Writer,
           NEW n \in Nat, NEW x \in Writer
    PROVE  /\ a[x] \in Nat
           /\ a[x] <= vvIncrement(a, w)[x]
           /\ a[x] <= vvMerge(a, b)[x]
           /\ b[x] <= vvMerge(a, b)[x]
           /\ a[x] <= [a EXCEPT ![w] = maxOf(@, n)][x]
  BY DEF VersionVector, vvIncrement, vvMerge, maxOf

----------------------------------------------------------------------------
(* Types.  A landed builder knows its commit: without that the hook would  *)
(* read a commit that does not exist.                                      *)

LandedHasSha ==
    \A p \in Process, s \in Slot :
        builder[p][s] # None /\ builder[p][s].phase = "landed"
            => builder[p][s].sha # 0

TypeInv == TypeOK /\ LandedHasSha

\* The types of the fields of a commit, a builder and a materialization.
LEMMA CommitFields ==
    ASSUME TypeOK, NEW i \in Written
    PROVE  /\ commits[i] \in Commit
           /\ commits[i].writer \in Writer
           /\ commits[i].lamport \in Nat
           /\ commits[i].parent \in MaybeNone
           /\ commits[i].context \in VersionVector
           /\ commits[i].dots \in SUBSET Nat
           /\ commits[i].api \in Api
           /\ commits[i].asked \in SUBSET Written
           /\ commits[i].basis \in SUBSET Written
  <1>1. commits[i] \in Commit
    BY DEF TypeOK, Written
  <1> QED
    BY <1>1 DEF Commit

LEMMA BuilderFields ==
    ASSUME TypeOK, NEW p \in Process, NEW s \in Slot, builder[p][s] # None
    PROVE  /\ builder[p][s] \in BuilderRec
           /\ builder[p][s].phase \in Phase
           /\ builder[p][s].api \in Api
           /\ builder[p][s].lamport \in Nat
           /\ builder[p][s].expected \in MaybeNone
           /\ builder[p][s].vv \in VersionVector
           /\ builder[p][s].dots \in SUBSET Nat
           /\ builder[p][s].asked \in SUBSET Written
           /\ builder[p][s].basis \in SUBSET Written
           /\ builder[p][s].sha \in MaybeNone
  <1>1. builder[p][s] \in BuilderRec
    BY DEF TypeOK
  <1> QED
    BY <1>1 DEF BuilderRec

LEMMA LoadFields ==
    ASSUME TypeOK, NEW p \in Process, load[p] # None
    PROVE  /\ load[p] \in LoadRec
           /\ load[p].todo \in SUBSET Writer
           /\ load[p].at \in MaybeNone
           /\ load[p].got \in SUBSET Written
           /\ load[p].frontier \in VersionVector
           /\ load[p].lamport \in Nat
  <1>1. load[p] \in LoadRec
    BY DEF TypeOK
  <1> QED
    BY <1>1 DEF LoadRec

LEMMA LamportAtType ==
    ASSUME TypeOK, NEW i \in MaybeNone
    PROVE  lamportAt(i) \in Nat
  <1>1. i = 0 \/ i \in Written
    BY DEF MaybeNone, Written
  <1> QED
    BY <1>1, CommitFields DEF lamportAt

LEMMA NextLamportType ==
    ASSUME TypeOK, NEW p \in Process, NEW s \in Slot, builder[p][s] # None
    PROVE  nextLamport(p, builder[p][s]) \in Nat
  <1>1. lamportAt(builder[p][s].expected) \in Nat
    BY BuilderFields, LamportAtType
  <1> QED
    BY <1>1 DEF TypeOK, nextLamport, maxOf

LEMMA BaseType ==
    ASSUME TypeOK, NEW p \in Process, NEW api \in Api
    PROVE  /\ baseVV(p, api) \in VersionVector
           /\ baseVV(p, api)[WriterOf[p]] \in Nat
  BY ProcessAssumption DEF TypeOK, baseVV, VersionVector

LEMMA FoldPatchType ==
    ASSUME TypeOK, NEW f \in VersionVector, NEW i \in Written
    PROVE  foldPatch(f, commits[i]) \in VersionVector
  BY CommitFields, VersionVectorOps DEF foldPatch

\* While no commit is written, the sets that TypeOK is made of are the same.
LEMMA SameCommits ==
    ASSUME commits' = commits
    PROVE  /\ Written' = Written /\ MaybeNone' = MaybeNone
           /\ Commit' = Commit /\ BuilderRec' = BuilderRec /\ LoadRec' = LoadRec
  BY DEF Written, MaybeNone, Commit, BuilderRec, LoadRec

LEMMA InitType == Init => TypeInv
  <1> SUFFICES ASSUME Init PROVE TypeInv
    OBVIOUS
  <1>1. createVersionVector \in VersionVector
    BY DEF createVersionVector, VersionVector
  <1>2. Len(commits) = 0 /\ commits \in Seq(Commit)
    BY DEF Init
  <1> QED
    BY <1>1, <1>2 DEF Init, TypeInv, TypeOK, LandedHasSha, MaybeNone, Written

\* A step that puts a well-formed builder into one slot and writes nothing.
LEMMA SlotType ==
    ASSUME TypeInv, NEW p \in Process, NEW s \in Slot, NEW b \in BuilderRec,
           builder' = [builder EXCEPT ![p][s] = b], b.phase # "landed",
           busy' \in [Process -> SUBSET Api],
           UNCHANGED <<commits, ref, memory, load, loads, restarts>>
    PROVE  TypeInv'
  <1>1. TypeOK
    BY DEF TypeInv
  <1>2. builder' \in [Process -> [Slot -> BuilderRec \cup {None}]]
    BY <1>1 DEF TypeOK
  <1>3. TypeOK'
    BY <1>1, <1>2, SameCommits DEF memory, TypeOK
  <1>4. LandedHasSha'
    BY <1>1 DEF TypeInv, LandedHasSha, TypeOK
  <1> QED
    BY <1>3, <1>4 DEF TypeInv

LEMMA ReadHeadType ==
    ASSUME TypeInv, NEW p \in Process, NEW s \in Slot, NEW api \in Api,
           readHead(p, s, api)
    PROVE  TypeInv'
  <1>1. TypeOK
    BY DEF TypeInv
  <1>2. PICK b : /\ b = [phase |-> "head", api |-> api, lamport |-> 0,
                         expected |-> ref[WriterOf[p]],
                         vv |-> createVersionVector, dots |-> {},
                         asked |-> seen[p], basis |-> {}, sha |-> 0]
                 /\ builder' = [builder EXCEPT ![p][s] = b]
    BY DEF readHead
  <1>3. /\ ref[WriterOf[p]] \in MaybeNone /\ 0 \in MaybeNone
        /\ seen[p] \in SUBSET Written
    BY <1>1, ProcessAssumption DEF TypeOK, MaybeNone
  <1>4. createVersionVector \in VersionVector
    BY DEF createVersionVector, VersionVector
  <1>5. b \in BuilderRec
    BY <1>2, <1>3, <1>4 DEF BuilderRec, Phase
  <1>6. busy' \in [Process -> SUBSET Api]
    BY <1>1 DEF readHead, TypeOK
  <1>7. UNCHANGED <<commits, ref, memory, load, loads, restarts>>
    BY DEF readHead
  <1> QED
    BY <1>2, <1>5, <1>6, <1>7, SlotType

LEMMA TickType ==
    ASSUME TypeInv, NEW p \in Process, NEW s \in Slot, tick(p, s)
    PROVE  TypeInv'
  <1>1. TypeOK /\ builder[p][s] # None
    BY DEF TypeInv, tick
  <1>2. PICK b : /\ b = [builder[p][s] EXCEPT !.phase = "ticked",
                             !.lamport = nextLamport(p, builder[p][s])]
                 /\ builder' = [builder EXCEPT ![p][s] = b]
    BY <1>1 DEF tick, TypeOK
  <1>3. b \in BuilderRec /\ b.phase # "landed"
    BY <1>1, <1>2, BuilderFields, NextLamportType DEF BuilderRec, Phase
  <1>4. busy' \in [Process -> SUBSET Api]
    BY <1>1 DEF tick, TypeOK
  <1>5. UNCHANGED <<commits, ref, memory, load, loads, restarts>>
    BY DEF tick
  <1> QED
    BY <1>2, <1>3, <1>4, <1>5, SlotType

LEMMA CreateType ==
    ASSUME TypeInv, NEW p \in Process, NEW s \in Slot, NEW k \in 0..MaxAdds,
           create(p, s, k)
    PROVE  TypeInv'
  <1> DEFINE o == builder[p][s]
             base == baseVV(p, o.api)
             w == WriterOf[p]
             l == IF o.phase = "ticked" THEN o.lamport ELSE nextLamport(p, o)
             v == [base EXCEPT ![w] = @ + k]
             d == (base[w] + 1)..(base[w] + k)
  <1>1. TypeOK /\ o # None
    BY DEF TypeInv, create
  <1>2. PICK b : /\ b = [o EXCEPT !.phase = "open", !.lamport = l, !.vv = v,
                                  !.dots = d, !.basis = seen[p]]
                 /\ builder' = [builder EXCEPT ![p][s] = b]
    BY <1>1 DEF create
  <1>3. o \in BuilderRec /\ o.api \in Api
    BY <1>1, BuilderFields
  <1>4. k \in Nat /\ w \in Writer /\ base \in VersionVector /\ base[w] \in Nat
    BY <1>1, <1>3, BaseType, ProcessAssumption, BoundsAssumption
  <1>5. l \in Nat
    BY <1>1, BuilderFields, NextLamportType
  <1>6. v \in VersionVector
    BY <1>4, VersionVectorOps
  <1>7. d \in SUBSET Nat
    BY <1>4
  <1>8. seen[p] \in SUBSET Written
    BY <1>1 DEF TypeOK
  <1> HIDE DEF o, l, v, d
  <1>9. b \in BuilderRec /\ b.phase # "landed"
    BY <1>2, <1>3, <1>5, <1>6, <1>7, <1>8 DEF BuilderRec, Phase
  <1>10. busy' \in [Process -> SUBSET Api]
    BY <1>1 DEF create, TypeOK
  <1>11. UNCHANGED <<commits, ref, memory, load, loads, restarts>>
    BY DEF create
  <1> QED
    BY <1>2, <1>9, <1>10, <1>11, SlotType

\* openWriter, loadBegin, loadTip, loadCommit: only the memory of p moves.
LEMMA OpenWriterType ==
    ASSUME TypeInv, NEW p \in Process, openWriter(p)
    PROVE  TypeInv'
  <1>1. TypeOK'
    BY SameCommits DEF openWriter, TypeInv, TypeOK
  <1> QED
    BY <1>1 DEF openWriter, TypeInv, LandedHasSha

LEMMA ReleaseType ==
    ASSUME TypeInv, NEW p \in Process, NEW s \in Slot, release(p, s),
           commits' = commits
    PROVE  /\ builder' \in [Process -> [Slot -> BuilderRec \cup {None}]]'
           /\ busy' \in [Process -> SUBSET Api]
           /\ LandedHasSha'
  <1>1. TypeOK
    BY DEF TypeInv
  <1>2. builder' \in [Process -> [Slot -> BuilderRec \cup {None}]]'
    BY <1>1, SameCommits DEF release, TypeOK
  <1>3. busy' \in [Process -> SUBSET Api]
    BY <1>1 DEF release, TypeOK
  <1>4. LandedHasSha'
    BY <1>1 DEF release, TypeInv, LandedHasSha, TypeOK
  <1> QED
    BY <1>2, <1>3, <1>4

LEMMA ConflictType ==
    ASSUME TypeInv, NEW p \in Process, NEW s \in Slot, conflict(p, s)
    PROVE  TypeInv'
  <1>1. TypeOK /\ release(p, s) /\ commits' = commits
    BY DEF TypeInv, conflict
  <1>2. TypeOK'
    BY <1>1, SameCommits, ReleaseType DEF conflict, memory, TypeOK
  <1> QED
    BY <1>1, <1>2, ReleaseType DEF TypeInv

LEMMA FailType ==
    ASSUME TypeInv, NEW p \in Process, NEW s \in Slot, fail(p, s)
    PROVE  TypeInv'
  <1>1. TypeOK /\ release(p, s) /\ commits' = commits
    BY DEF TypeInv, fail
  <1>2. TypeOK'
    BY <1>1, SameCommits, ReleaseType DEF fail, memory, TypeOK
  <1> QED
    BY <1>1, <1>2, ReleaseType DEF TypeInv

LEMMA RetryType ==
    ASSUME TypeInv, NEW p \in Process, NEW s \in Slot, retry(p, s)
    PROVE  TypeInv'
  <1>1. TypeOK /\ builder[p][s] # None
    BY DEF TypeInv, retry
  <1>2. PICK b : /\ b = [builder[p][s] EXCEPT !.phase = "open"]
                 /\ builder' = [builder EXCEPT ![p][s] = b]
    BY <1>1 DEF retry, TypeOK
  <1>3. b \in BuilderRec /\ b.phase # "landed"
    BY <1>1, <1>2, BuilderFields DEF BuilderRec, Phase
  <1>4. busy' \in [Process -> SUBSET Api]
    BY <1>1 DEF retry, TypeOK
  <1>5. UNCHANGED <<commits, ref, memory, load, loads, restarts>>
    BY DEF retry
  <1> QED
    BY <1>2, <1>3, <1>4, <1>5, SlotType

LEMMA CheckType ==
    ASSUME TypeInv, NEW p \in Process, NEW s \in Slot, check(p, s)
    PROVE  TypeInv'
  <1>1. TypeOK /\ builder[p][s] # None
    BY DEF TypeInv, check
  <1>2. PICK b : /\ b = [builder[p][s] EXCEPT !.phase = "checked",
                             !.lamport = maxOf(@, lamportAt(ref[WriterOf[p]]) + 1)]
                 /\ builder' = [builder EXCEPT ![p][s] = b]
    BY <1>1 DEF check, TypeOK
  <1>3. lamportAt(ref[WriterOf[p]]) \in Nat
    BY <1>1, LamportAtType, ProcessAssumption DEF TypeOK
  <1>4. maxOf(builder[p][s].lamport, lamportAt(ref[WriterOf[p]]) + 1) \in Nat
    BY <1>1, <1>3, BuilderFields DEF maxOf
  <1>5. b \in BuilderRec /\ b.phase # "landed"
    BY <1>1, <1>2, <1>4, BuilderFields DEF BuilderRec, Phase
  <1>6. busy' \in [Process -> SUBSET Api]
    BY <1>1 DEF check, TypeOK
  <1>7. UNCHANGED <<commits, ref, memory, load, loads, restarts>>
    BY DEF check
  <1> QED
    BY <1>2, <1>5, <1>6, <1>7, SlotType

\* What land writes: one more commit, after all the others.
LEMMA LandWrites ==
    ASSUME TypeInv, NEW p \in Process, NEW s \in Slot, land(p, s)
    PROVE  /\ builder[p][s] # None /\ builder[p][s].phase = "checked"
           /\ Len(commits) \in Nat /\ Len(commits') = Len(commits) + 1
           /\ \A i \in Written : i \in Written' /\ commits'[i] = commits[i]
           /\ \A i \in Written' : i \in Written \/ i = Len(commits) + 1
           /\ Commit \subseteq Commit' /\ BuilderRec \subseteq BuilderRec'
           /\ LoadRec \subseteq LoadRec'
           /\ Written \subseteq Written' /\ MaybeNone \subseteq MaybeNone'
           /\ Len(commits) + 1 \in Written' /\ Len(commits) + 1 \in MaybeNone'
           /\ commits' \in Seq(Commit)
  <1>1. TypeOK /\ commits \in Seq(Commit)
    BY DEF TypeInv, TypeOK
  <1>2. PICK c :
              /\ c = [writer |-> WriterOf[p], lamport |-> builder[p][s].lamport,
                      parent |-> builder[p][s].expected, context |-> builder[p][s].vv,
                      dots |-> builder[p][s].dots, api |-> builder[p][s].api,
                      asked |-> builder[p][s].asked,
                      basis |-> builder[p][s].basis]
              /\ commits' = Append(commits, c)
    BY DEF land
  <1>3. builder[p][s] # None /\ builder[p][s].phase = "checked"
    BY DEF land
  <1>4. c \in Commit
    BY <1>1, <1>2, <1>3, BuilderFields, ProcessAssumption DEF Commit
  <1>5. /\ Len(commits) \in Nat /\ Len(commits') = Len(commits) + 1
        /\ \A i \in 1..Len(commits) : commits'[i] = commits[i]
        /\ commits' \in Seq(Commit)
    BY <1>1, <1>2, <1>4
  <1>6. /\ Written \subseteq Written' /\ MaybeNone \subseteq MaybeNone'
        /\ Len(commits) + 1 \in Written' /\ Len(commits) + 1 \in MaybeNone'
        /\ \A i \in Written' : i \in Written \/ i = Len(commits) + 1
    BY <1>5 DEF Written, MaybeNone
  <1>7. /\ Commit \subseteq Commit' /\ BuilderRec \subseteq BuilderRec'
        /\ LoadRec \subseteq LoadRec'
    BY <1>6 DEF Commit, BuilderRec, LoadRec
  <1> QED
    BY <1>2, <1>3, <1>5, <1>6, <1>7 DEF Written

LEMMA LandedCommit ==
    ASSUME TypeInv, NEW p \in Process, NEW s \in Slot, land(p, s)
    PROVE  LET c == commits'[Len(commits) + 1]
               b == builder[p][s]
           IN  /\ c.writer = WriterOf[p]
               /\ c.lamport = b.lamport /\ c.parent = b.expected
               /\ c.context = b.vv /\ c.dots = b.dots
               /\ c.api = b.api /\ c.asked = b.asked /\ c.basis = b.basis
  <1>1. commits \in Seq(Commit)
    BY DEF TypeInv, TypeOK
  <1> QED
    BY <1>1 DEF land

LEMMA LargerSeq ==
    ASSUME NEW S, NEW T, S \subseteq T, NEW q \in Seq(S)
    PROVE  q \in Seq(T)
  OBVIOUS

LEMMA LandType ==
    ASSUME TypeInv, NEW p \in Process, NEW s \in Slot, land(p, s)
    PROVE  TypeInv'
  <1>1. TypeOK
    BY DEF TypeInv
  <1>2. commits' \in Seq(Commit')
    BY LandWrites, LargerSeq
  <1>3. PICK b : /\ b = [builder[p][s] EXCEPT !.phase = "landed",
                                              !.sha = Len(commits) + 1]
                 /\ builder' = [builder EXCEPT ![p][s] = b]
    BY <1>1 DEF land, TypeOK
  <1>4. Len(commits) + 1 \in MaybeNone' /\ Len(commits) + 1 # 0
    <2>1. Len(commits) + 1 \in MaybeNone' /\ Len(commits) \in Nat
      BY LandWrites
    <2> QED
      BY <2>1
  <1>5. b \in BuilderRec' /\ b.sha # 0
    <2>1. builder[p][s] \in BuilderRec'
      BY <1>1, LandWrites, BuilderFields
    <2> QED
      BY <1>3, <1>4, <2>1 DEF BuilderRec, Phase
  <1>6. builder' \in [Process -> [Slot -> BuilderRec' \cup {None}]]
    <2>1. BuilderRec \subseteq BuilderRec'
      BY LandWrites
    <2>2. builder \in [Process -> [Slot -> BuilderRec' \cup {None}]]
      BY <1>1, <2>1 DEF TypeOK
    <2> QED
      BY <1>3, <1>5, <2>2
  <1>7. ref' \in [Writer -> MaybeNone']
    BY <1>1, <1>4, LandWrites DEF land, TypeOK
  <1>8. seen' \in [Process -> SUBSET Written'] /\ load' \in [Process -> LoadRec' \cup {None}]
    BY <1>1, LandWrites DEF land, memory, TypeOK
  <1>9. TypeOK'
    BY <1>1, <1>2, <1>6, <1>7, <1>8 DEF land, memory, TypeOK
  <1>10. LandedHasSha'
    BY <1>1, <1>3, <1>5 DEF TypeInv, LandedHasSha, TypeOK
  <1> QED
    BY <1>9, <1>10 DEF TypeInv

LEMMA SetMaterializedType ==
    ASSUME TypeOK, NEW p \in Process, NEW S \in SUBSET Written,
           NEW f \in VersionVector, NEW old \in VersionVector,
           setMaterializedState(p, S, f, old)
    PROVE  /\ vv' \in [Process -> VersionVector]
           /\ writerVV' \in [Process -> VersionVector]
           /\ writerMap' \in [Process -> {"none", "shared", "detached"}]
           /\ cache' \in [Process -> {"none", "clean", "dirty"}]
           /\ seen' \in [Process -> SUBSET Written]
           /\ frontier' \in [Process -> VersionVector]
  BY DEF setMaterializedState, TypeOK

LEMMA OnPatchCommittedType ==
    ASSUME TypeInv, NEW p \in Process, NEW s \in Slot, onPatchCommitted(p, s)
    PROVE  TypeInv'
  <1> DEFINE sha == builder[p][s].sha
             incremented == vvIncrement(vv[p], WriterOf[p])
  <1>1. TypeOK /\ release(p, s) /\ commits' = commits /\ builder[p][s] # None
    BY DEF TypeInv, onPatchCommitted
  <1>2. sha \in Written
    BY <1>1, BuilderFields DEF onPatchCommitted, TypeInv, LandedHasSha, MaybeNone,
                               Written
  <1>3. incremented \in VersionVector
    BY <1>1, VersionVectorOps, ProcessAssumption DEF TypeOK
  <1>4. maxObserved' \in [Process -> Nat]
    BY <1>1, <1>2, CommitFields DEF onPatchCommitted, maxOf, TypeOK
  <1>5. /\ vv' \in [Process -> VersionVector]
        /\ writerVV' \in [Process -> VersionVector]
        /\ writerMap' \in [Process -> {"none", "shared", "detached"}]
        /\ cache' \in [Process -> {"none", "clean", "dirty"}]
        /\ seen' \in [Process -> SUBSET Written]
        /\ frontier' \in [Process -> VersionVector]
    <2>1. CASE cache[p] = "clean"
      <3>1. foldPatch(frontier[p], commits[sha]) \in VersionVector
        BY <1>1, <1>2, FoldPatchType DEF TypeOK
      <3>2. seen[p] \cup {sha} \in SUBSET Written
        BY <1>1, <1>2 DEF TypeOK
      <3>3. setMaterializedState(p, seen[p] \cup {sha},
                foldPatch(frontier[p], commits[sha]), incremented)
        BY <2>1 DEF onPatchCommitted
      <3> QED
        BY <1>1, <1>3, <3>1, <3>2, <3>3, SetMaterializedType
    <2>2. CASE cache[p] # "clean"
      BY <1>1, <1>3, <2>2 DEF onPatchCommitted, TypeOK
    <2> QED
      BY <2>1, <2>2
  <1>6. TypeOK'
    BY <1>1, <1>4, <1>5, SameCommits, ReleaseType DEF onPatchCommitted, TypeOK
  <1> QED
    BY <1>1, <1>6, ReleaseType DEF TypeInv

LEMMA LoadBeginType ==
    ASSUME TypeInv, NEW p \in Process, loadBegin(p)
    PROVE  TypeInv'
  <1> DEFINE l == [todo |-> {w \in Writer : ref[w] # 0}, at |-> 0, got |-> {},
                   frontier |-> createVersionVector, lamport |-> 0]
  <1>1. TypeOK
    BY DEF TypeInv
  <1>2. l \in LoadRec
    <2>1. createVersionVector \in VersionVector /\ 0 \in MaybeNone
      BY <1>1 DEF createVersionVector, VersionVector, MaybeNone, TypeOK
    <2> QED
      BY <2>1 DEF LoadRec
  <1>3. load' \in [Process -> LoadRec \cup {None}]
    BY <1>1, <1>2 DEF loadBegin, TypeOK
  <1>4. TypeOK'
    BY <1>1, <1>3, SameCommits DEF loadBegin, memory, TypeOK
  <1> QED
    BY <1>4 DEF loadBegin, TypeInv, LandedHasSha

LEMMA LoadTipType ==
    ASSUME TypeInv, NEW p \in Process, NEW w \in Writer, loadTip(p, w)
    PROVE  TypeInv'
  <1>1. TypeOK /\ load[p] # None
    BY DEF TypeInv, loadTip
  <1>2. PICK l : /\ l = [load[p] EXCEPT !.todo = @ \ {w}, !.at = ref[w]]
                 /\ load' = [load EXCEPT ![p] = l]
    BY <1>1 DEF loadTip, TypeOK
  <1>3. l \in LoadRec
    <2>1. ref[w] \in MaybeNone
      BY <1>1 DEF TypeOK
    <2> QED
      BY <1>1, <1>2, <2>1, LoadFields DEF LoadRec
  <1>4. TypeOK'
    BY <1>1, <1>2, <1>3, SameCommits DEF loadTip, memory, TypeOK
  <1> QED
    BY <1>4 DEF loadTip, TypeInv, LandedHasSha

LEMMA LoadCommitType ==
    ASSUME TypeInv, NEW p \in Process, loadCommit(p)
    PROVE  TypeInv'
  <1> DEFINE c == commits[load[p].at]
  <1>1. TypeOK /\ load[p] # None /\ load[p].at \in Written
    BY LoadFields DEF TypeInv, loadCommit, MaybeNone, Written
  <1>2. PICK l : /\ l = [load[p] EXCEPT !.at = c.parent,
                                        !.got = @ \cup {load[p].at},
                                        !.frontier = foldPatch(@, c),
                                        !.lamport = maxOf(@, c.lamport)]
                 /\ load' = [load EXCEPT ![p] = l]
    BY <1>1 DEF loadCommit, TypeOK
  <1>3. /\ c.parent \in MaybeNone
        /\ load[p].got \cup {load[p].at} \in SUBSET Written
        /\ foldPatch(load[p].frontier, c) \in VersionVector
        /\ maxOf(load[p].lamport, c.lamport) \in Nat
    BY <1>1, LoadFields, CommitFields, FoldPatchType DEF maxOf
  <1>4. l \in LoadRec
    <2>1. load[p] \in LoadRec
      BY <1>1, LoadFields
    <2> HIDE DEF c
    <2> QED
      BY <1>2, <1>3, <2>1 DEF LoadRec
  <1>5. TypeOK'
    BY <1>1, <1>2, <1>4, SameCommits DEF loadCommit, memory, TypeOK
  <1> QED
    BY <1>5 DEF loadCommit, TypeInv, LandedHasSha

LEMMA LoadEndType ==
    ASSUME TypeInv, NEW p \in Process, loadEnd(p)
    PROVE  TypeInv'
  <1>1. TypeOK /\ load[p] # None
    BY DEF TypeInv, loadEnd
  <1>2. setMaterializedState(p, load[p].got, load[p].frontier, vv[p])
    BY DEF loadEnd
  <1>3. vv[p] \in VersionVector
    BY <1>1 DEF TypeOK
  <1>4. /\ vv' \in [Process -> VersionVector]
        /\ writerVV' \in [Process -> VersionVector]
        /\ writerMap' \in [Process -> {"none", "shared", "detached"}]
        /\ cache' \in [Process -> {"none", "clean", "dirty"}]
        /\ seen' \in [Process -> SUBSET Written]
        /\ frontier' \in [Process -> VersionVector]
    BY <1>1, <1>2, <1>3, LoadFields, SetMaterializedType
  <1>5. maxObserved' \in [Process -> Nat]
    BY <1>1, LoadFields DEF loadEnd, maxOf, TypeOK
  <1>6. load' \in [Process -> LoadRec \cup {None}]
    BY <1>1 DEF loadEnd, TypeOK
  <1>7. TypeOK'
    BY <1>1, <1>4, <1>5, <1>6, SameCommits DEF loadEnd, TypeOK
  <1> QED
    BY <1>7 DEF loadEnd, TypeInv, LandedHasSha

LEMMA RestartType ==
    ASSUME TypeInv, NEW p \in Process, restart(p)
    PROVE  TypeInv'
  <1>1. TypeOK /\ commits' = commits
    BY DEF TypeInv, restart
  <1>2. createVersionVector \in VersionVector
    BY DEF createVersionVector, VersionVector
  <1>3. builder' \in [Process -> [Slot -> BuilderRec \cup {None}]]
    BY <1>1 DEF restart, TypeOK
  <1>4. TypeOK'
    BY <1>1, <1>2, <1>3, SameCommits DEF restart, TypeOK
  <1>5. LandedHasSha'
    BY <1>1 DEF restart, TypeInv, LandedHasSha, TypeOK
  <1> QED
    BY <1>4, <1>5 DEF TypeInv

LEMMA StutterType == TypeInv /\ UNCHANGED vars => TypeInv'
  <1> SUFFICES ASSUME TypeInv, UNCHANGED vars PROVE TypeInv'
    OBVIOUS
  <1>1. TypeOK'
    BY SameCommits DEF vars, memory, TypeInv, TypeOK
  <1> QED
    BY <1>1 DEF vars, TypeInv, LandedHasSha

LEMMA NextType == TypeInv /\ [Next]_vars => TypeInv'
  <1> SUFFICES ASSUME TypeInv, [Next]_vars PROVE TypeInv'
    OBVIOUS
  <1>1. ASSUME NEW p \in Process, NEW s \in Slot, CommitProgress(p, s)
        PROVE  TypeInv'
    BY <1>1, TickType, CreateType, ConflictType, CheckType, LandType,
       OnPatchCommittedType DEF CommitProgress
  <1>2. ASSUME NEW p \in Process, LoadProgress(p) PROVE TypeInv'
    BY <1>2, LoadTipType, LoadCommitType, LoadEndType DEF LoadProgress
  <1>3. CASE Next
    BY <1>1, <1>2, <1>3, ReadHeadType, FailType, RetryType, OpenWriterType,
       LoadBeginType, RestartType DEF Next
  <1> QED
    BY <1>3, StutterType

\* Every variable stays in its type, and the hook of a landed commit always
\* finds that commit, whatever the interleaving of commits, materializations
\* and restarts.
THEOREM TypeCorrect == Spec => []TypeOK
  <1>1. TypeInv => TypeOK
    BY DEF TypeInv
  <1> QED
    BY <1>1, InitType, NextType, PTL DEF Spec

----------------------------------------------------------------------------
(* A step works on one builder, lands one, or is quiet: it writes nothing  *)
(* and at most drops builders.                                             *)

Quiet ==
    /\ commits' = commits
    /\ ref' = ref
    /\ \A p \in Process, s \in Slot :
          builder'[p][s] = None \/ builder'[p][s] = builder[p][s]

LEMMA QuietSteps ==
    ASSUME TypeInv, NEW p \in Process
    PROVE  /\ \A s \in Slot : conflict(p, s) \/ fail(p, s) \/ onPatchCommitted(p, s)
                 => Quiet
           /\ openWriter(p) \/ restart(p) => Quiet
           /\ loadBegin(p) \/ loadCommit(p) \/ loadEnd(p) => Quiet
           /\ \A w \in Writer : loadTip(p, w) => Quiet
           /\ UNCHANGED vars => Quiet
  <1>1. builder \in [Process -> [Slot -> BuilderRec \cup {None}]]
    BY DEF TypeInv, TypeOK
  <1>2. ASSUME NEW s \in Slot, conflict(p, s) \/ fail(p, s) \/ onPatchCommitted(p, s)
        PROVE  Quiet
    BY <1>1, <1>2 DEF conflict, fail, onPatchCommitted, release, Quiet
  <1>3. ASSUME restart(p) PROVE Quiet
    BY <1>1, <1>3 DEF restart, Quiet
  <1>4. openWriter(p) \/ loadBegin(p) \/ loadCommit(p) \/ loadEnd(p) => Quiet
    BY DEF openWriter, loadBegin, loadCommit, loadEnd, Quiet
  <1>5. ASSUME NEW w \in Writer, loadTip(p, w) PROVE Quiet
    BY <1>5 DEF loadTip, Quiet
  <1>6. UNCHANGED vars => Quiet
    BY DEF vars, Quiet
  <1> QED
    BY <1>2, <1>3, <1>4, <1>5, <1>6

OthersKept(p, s) ==
    \A q \in Process, t \in Slot :
        q # p \/ t # s => builder'[q][t] = builder[q][t]

\* only the builder in slot s of p changes
SlotOnly(p, s) ==
    /\ commits' = commits /\ ref' = ref
    /\ UNCHANGED memory /\ load' = load
    /\ OthersKept(p, s)

\* it goes on with the same call
SameCall(p, s) ==
    /\ builder[p][s] # None
    /\ builder'[p][s].expected = builder[p][s].expected
    /\ builder'[p][s].api = builder[p][s].api
    /\ builder'[p][s].asked = builder[p][s].asked

\* with the same content
SameContent(p, s) ==
    /\ builder'[p][s].vv = builder[p][s].vv
    /\ builder'[p][s].dots = builder[p][s].dots
    /\ builder'[p][s].basis = builder[p][s].basis

LEMMA ReadHeadFrame ==
    ASSUME TypeInv, NEW p \in Process, NEW s \in Slot, NEW api \in Api,
           readHead(p, s, api)
    PROVE  /\ SlotOnly(p, s)
           /\ builder'[p][s].phase = "head" /\ builder'[p][s].api = api
           /\ builder'[p][s].expected = ref[WriterOf[p]]
           /\ builder'[p][s].asked = seen[p]
           /\ builder'[p][s].dots = {} /\ builder'[p][s].basis = {}
  <1>1. builder \in [Process -> [Slot -> BuilderRec \cup {None}]]
    BY DEF TypeInv, TypeOK
  <1>2. SlotOnly(p, s)
    BY <1>1 DEF readHead, SlotOnly, OthersKept
  <1> QED
    BY <1>1, <1>2 DEF readHead

LEMMA TickFrame ==
    ASSUME TypeInv, NEW p \in Process, NEW s \in Slot, tick(p, s)
    PROVE  /\ SlotOnly(p, s) /\ SameCall(p, s) /\ SameContent(p, s)
           /\ builder[p][s].phase = "head" /\ builder'[p][s].phase = "ticked"
           /\ builder'[p][s].lamport = nextLamport(p, builder[p][s])
  <1>1. builder \in [Process -> [Slot -> BuilderRec \cup {None}]]
    BY DEF TypeInv, TypeOK
  <1>2. SlotOnly(p, s)
    BY <1>1 DEF tick, SlotOnly, OthersKept
  <1>3. builder[p][s] # None /\ builder[p][s] \in BuilderRec
    BY <1>1 DEF tick
  <1>4. builder'[p][s] = [builder[p][s] EXCEPT !.phase = "ticked",
                             !.lamport = nextLamport(p, builder[p][s])]
    BY <1>1 DEF tick
  <1>5. SameCall(p, s) /\ SameContent(p, s)
    BY <1>3, <1>4 DEF BuilderRec, SameCall, SameContent
  <1>6. /\ builder'[p][s].phase = "ticked"
        /\ builder'[p][s].lamport = nextLamport(p, builder[p][s])
    BY <1>3, <1>4 DEF BuilderRec
  <1> QED
    BY <1>2, <1>5, <1>6 DEF tick

\* The new dots are above the counter the builder starts from and within the one
\* it ends with.
LEMMA CreateFrame ==
    ASSUME TypeInv, NEW p \in Process, NEW s \in Slot, NEW k \in 0..MaxAdds,
           create(p, s, k)
    PROVE  /\ SlotOnly(p, s) /\ SameCall(p, s)
           /\ builder'[p][s].phase = "open"
           /\ builder'[p][s].basis = seen[p]
           /\ builder[p][s].api \in GraphApi =>
                 /\ builder[p][s].phase = "ticked"
                 /\ builder'[p][s].lamport = builder[p][s].lamport
           /\ \A d \in builder'[p][s].dots :
                 /\ d \in Nat /\ baseVV(p, builder[p][s].api)[WriterOf[p]] < d
                 /\ d <= builder'[p][s].vv[WriterOf[p]]
  <1> DEFINE o == builder[p][s]
             base == baseVV(p, o.api)
             w == WriterOf[p]
             l == IF o.phase = "ticked" THEN o.lamport ELSE nextLamport(p, o)
             v == [base EXCEPT ![w] = @ + k]
             ds == (base[w] + 1)..(base[w] + k)
  <1>1. builder \in [Process -> [Slot -> BuilderRec \cup {None}]]
    BY DEF TypeInv, TypeOK
  <1>2. SlotOnly(p, s)
    BY <1>1 DEF create, SlotOnly, OthersKept
  <1>3. o # None /\ o \in BuilderRec
    BY <1>1 DEF create
  <1>4. builder'[p][s] = [o EXCEPT !.phase = "open", !.lamport = l, !.vv = v,
                                   !.dots = ds, !.basis = seen[p]]
    BY <1>1 DEF create
  <1>5. /\ base \in VersionVector /\ base[w] \in Nat
        /\ k \in Nat /\ w \in Writer
    BY <1>3, BaseType, BuilderFields, ProcessAssumption, BoundsAssumption DEF TypeInv
  <1>6. v[w] = base[w] + k
    BY <1>5 DEF VersionVector
  <1>7. \A d \in ds : d \in Nat /\ base[w] < d /\ d <= v[w]
    BY <1>5, <1>6
  <1>8. o.api \in GraphApi => o.phase = "ticked"
    BY DEF create, GraphApi, WriterApi
  <1>9. o.phase = "ticked" => l = o.lamport
    OBVIOUS
  <1> HIDE DEF o, l, v, ds, base
  <1>10. /\ builder'[p][s].phase = "open" /\ builder'[p][s].lamport = l
         /\ builder'[p][s].vv = v /\ builder'[p][s].dots = ds
         /\ builder'[p][s].basis = seen[p]
         /\ builder'[p][s].expected = o.expected /\ builder'[p][s].api = o.api
         /\ builder'[p][s].asked = o.asked
    BY <1>3, <1>4 DEF BuilderRec
  <1>11. SameCall(p, s)
    BY <1>3, <1>10 DEF SameCall, o
  <1>12. \A d \in builder'[p][s].dots :
            d \in Nat /\ base[w] < d /\ d <= builder'[p][s].vv[w]
    BY <1>7, <1>10
  <1> QED
    BY <1>2, <1>8, <1>9, <1>10, <1>11, <1>12 DEF o, base

LEMMA CheckFrame ==
    ASSUME TypeInv, NEW p \in Process, NEW s \in Slot, check(p, s)
    PROVE  /\ SlotOnly(p, s) /\ SameCall(p, s) /\ SameContent(p, s)
           /\ builder[p][s].phase = "open" /\ builder'[p][s].phase = "checked"
           /\ builder[p][s].expected = ref[WriterOf[p]]
           /\ builder'[p][s].lamport
                = maxOf(builder[p][s].lamport, lamportAt(ref[WriterOf[p]]) + 1)
  <1>1. builder \in [Process -> [Slot -> BuilderRec \cup {None}]]
    BY DEF TypeInv, TypeOK
  <1>2. SlotOnly(p, s)
    BY <1>1 DEF check, SlotOnly, OthersKept
  <1>3. builder[p][s] # None /\ builder[p][s] \in BuilderRec
    BY <1>1 DEF check
  <1>4. builder'[p][s] = [builder[p][s] EXCEPT !.phase = "checked",
                   !.lamport = maxOf(@, lamportAt(ref[WriterOf[p]]) + 1)]
    BY <1>1 DEF check
  <1>5. SameCall(p, s) /\ SameContent(p, s)
    BY <1>3, <1>4 DEF BuilderRec, SameCall, SameContent
  <1>6. /\ builder'[p][s].phase = "checked"
        /\ builder'[p][s].lamport
             = maxOf(builder[p][s].lamport, lamportAt(ref[WriterOf[p]]) + 1)
    BY <1>3, <1>4 DEF BuilderRec
  <1> QED
    BY <1>2, <1>5, <1>6 DEF check

LEMMA RetryFrame ==
    ASSUME TypeInv, NEW p \in Process, NEW s \in Slot, retry(p, s)
    PROVE  /\ SlotOnly(p, s) /\ SameCall(p, s) /\ SameContent(p, s)
           /\ builder[p][s].phase = "checked" /\ builder'[p][s].phase = "open"
           /\ builder'[p][s].lamport = builder[p][s].lamport
  <1>1. builder \in [Process -> [Slot -> BuilderRec \cup {None}]]
    BY DEF TypeInv, TypeOK
  <1>2. SlotOnly(p, s)
    BY <1>1 DEF retry, SlotOnly, OthersKept
  <1>3. builder[p][s] # None /\ builder[p][s] \in BuilderRec
    BY <1>1 DEF retry
  <1>4. builder'[p][s] = [builder[p][s] EXCEPT !.phase = "open"]
    BY <1>1 DEF retry
  <1>5. SameCall(p, s) /\ SameContent(p, s)
    BY <1>3, <1>4 DEF BuilderRec, SameCall, SameContent
  <1>6. builder'[p][s].phase = "open" /\ builder'[p][s].lamport = builder[p][s].lamport
    BY <1>3, <1>4 DEF BuilderRec
  <1> QED
    BY <1>2, <1>5, <1>6 DEF retry

LEMMA LandFrame ==
    ASSUME TypeInv, NEW p \in Process, NEW s \in Slot, land(p, s)
    PROVE  /\ ref' = [ref EXCEPT ![WriterOf[p]] = Len(commits) + 1]
           /\ UNCHANGED memory /\ load' = load /\ OthersKept(p, s)
           /\ SameCall(p, s) /\ SameContent(p, s)
           /\ builder'[p][s].phase = "landed"
           /\ builder'[p][s].lamport = builder[p][s].lamport
  <1>1. builder \in [Process -> [Slot -> BuilderRec \cup {None}]]
    BY DEF TypeInv, TypeOK
  <1>2. OthersKept(p, s)
    BY <1>1 DEF land, OthersKept
  <1>3. builder[p][s] # None /\ builder[p][s] \in BuilderRec
    BY <1>1 DEF land
  <1>4. builder'[p][s] = [builder[p][s] EXCEPT !.phase = "landed",
                                              !.sha = Len(commits) + 1]
    BY <1>1 DEF land
  <1>5. SameCall(p, s) /\ SameContent(p, s)
    BY <1>3, <1>4 DEF BuilderRec, SameCall, SameContent
  <1>6. /\ builder'[p][s].phase = "landed"
        /\ builder'[p][s].lamport = builder[p][s].lamport
    BY <1>3, <1>4 DEF BuilderRec
  <1> QED
    BY <1>2, <1>5, <1>6 DEF land

LEMMA StepKinds ==
    ASSUME TypeInv, [Next]_vars
    PROVE  \/ \E p \in Process, s \in Slot : \E api \in Api : readHead(p, s, api)
           \/ \E p \in Process, s \in Slot : tick(p, s)
           \/ \E p \in Process, s \in Slot : \E k \in 0..MaxAdds : create(p, s, k)
           \/ \E p \in Process, s \in Slot : check(p, s)
           \/ \E p \in Process, s \in Slot : retry(p, s)
           \/ \E p \in Process, s \in Slot : land(p, s)
           \/ Quiet
  <1>1. CASE UNCHANGED vars
    BY <1>1 DEF vars, Quiet
  <1>2. CASE Next
    <2>1. PICK p \in Process :
             \/ \E s \in Slot, api \in Api : readHead(p, s, api)
             \/ \E s \in Slot : CommitProgress(p, s)
             \/ \E s \in Slot : fail(p, s)
             \/ \E s \in Slot : retry(p, s)
             \/ openWriter(p)
             \/ loadBegin(p)
             \/ LoadProgress(p)
             \/ restart(p)
      BY <1>2 DEF Next
    <2>2. ASSUME NEW s \in Slot, CommitProgress(p, s)
          PROVE  \/ tick(p, s) \/ (\E k \in 0..MaxAdds : create(p, s, k))
                 \/ check(p, s) \/ land(p, s) \/ Quiet
      BY <2>2, QuietSteps DEF CommitProgress
    <2>3. LoadProgress(p) => Quiet
      BY QuietSteps DEF LoadProgress
    <2> QED
      BY <2>1, <2>2, <2>3, QuietSteps
  <1> QED
    BY <1>1, <1>2

----------------------------------------------------------------------------
(* Chains ascend.  The clock of a builder is settled against the tip that  *)
(* its commit will name as parent, and the parent never changes            *)
(* afterwards: a ref that moves between check and land makes the chain     *)
(* fork but not descend.                                                   *)

RefsOwned ==
    \A w \in Writer : ref[w] # 0 => commits[ref[w]].writer = w

ExpectedOwned ==
    \A p \in Process, s \in Slot :
        builder[p][s] # None /\ builder[p][s].expected # 0 =>
            commits[builder[p][s].expected].writer = WriterOf[p]

CheckedAbove ==
    \A p \in Process, s \in Slot :
        /\ builder[p][s] # None
        /\ builder[p][s].expected # 0
        /\ builder[p][s].phase = "checked"
        => commits[builder[p][s].expected].lamport < builder[p][s].lamport

ChainInv == ChainsAscend /\ RefsOwned /\ ExpectedOwned /\ CheckedAbove

LEMMA ChainQuiet ==
    ASSUME TypeInv, ChainInv, Quiet
    PROVE  ChainInv'
  BY DEF ChainInv, Quiet, ChainsAscend, RefsOwned, ExpectedOwned, CheckedAbove

\* It is enough to look at the one builder a step works on.
LEMMA ChainSlot ==
    ASSUME ChainInv, NEW p \in Process, NEW s \in Slot, SlotOnly(p, s),
           builder'[p][s].expected # 0 =>
              commits[builder'[p][s].expected].writer = WriterOf[p],
           builder'[p][s].expected # 0 /\ builder'[p][s].phase = "checked" =>
              commits[builder'[p][s].expected].lamport < builder'[p][s].lamport
    PROVE  ChainInv'
  <1>1. ChainsAscend' /\ RefsOwned'
    BY DEF ChainInv, ChainsAscend, RefsOwned, SlotOnly
  <1>2. ExpectedOwned'
    BY DEF ChainInv, ExpectedOwned, SlotOnly, OthersKept
  <1>3. CheckedAbove'
    BY DEF ChainInv, CheckedAbove, SlotOnly, OthersKept
  <1> QED
    BY <1>1, <1>2, <1>3 DEF ChainInv

LEMMA ChainReadHead ==
    ASSUME TypeInv, ChainInv, NEW p \in Process, NEW s \in Slot, NEW api \in Api,
           readHead(p, s, api)
    PROVE  ChainInv'
  <1>1. /\ SlotOnly(p, s) /\ builder'[p][s].phase = "head"
        /\ builder'[p][s].expected = ref[WriterOf[p]]
    BY ReadHeadFrame
  <1>2. ref[WriterOf[p]] # 0 => commits[ref[WriterOf[p]]].writer = WriterOf[p]
    BY ProcessAssumption DEF ChainInv, RefsOwned
  <1> QED
    BY <1>1, <1>2, ChainSlot

LEMMA ChainCreate ==
    ASSUME TypeInv, ChainInv, NEW p \in Process, NEW s \in Slot,
           tick(p, s) \/ (\E k \in 0..MaxAdds : create(p, s, k)) \/ retry(p, s)
    PROVE  ChainInv'
  <1>1. SlotOnly(p, s) /\ SameCall(p, s) /\ builder'[p][s].phase # "checked"
    BY TickFrame, CreateFrame, RetryFrame
  <1>2. builder'[p][s].expected # 0 =>
           commits[builder'[p][s].expected].writer = WriterOf[p]
    BY <1>1 DEF SameCall, ChainInv, ExpectedOwned
  <1> QED
    BY <1>1, <1>2, ChainSlot

LEMMA ChainCheck ==
    ASSUME TypeInv, ChainInv, NEW p \in Process, NEW s \in Slot, check(p, s)
    PROVE  ChainInv'
  <1> DEFINE b == builder[p][s]
  <1>1. /\ SlotOnly(p, s) /\ SameCall(p, s) /\ b.expected = ref[WriterOf[p]]
        /\ builder'[p][s].lamport = maxOf(b.lamport, lamportAt(ref[WriterOf[p]]) + 1)
    BY CheckFrame
  <1>2. /\ b # None /\ builder'[p][s].expected = b.expected
        /\ builder'[p][s].expected # 0 =>
              commits[builder'[p][s].expected].writer = WriterOf[p]
    BY <1>1 DEF SameCall, ChainInv, ExpectedOwned
  <1>3. b.lamport \in Nat /\ lamportAt(b.expected) \in Nat
    BY <1>2, BuilderFields, LamportAtType DEF TypeInv
  <1>4. b.expected # 0 => commits[b.expected].lamport < builder'[p][s].lamport
    BY <1>1, <1>3 DEF lamportAt, maxOf
  <1> QED
    BY <1>1, <1>2, <1>4, ChainSlot

LEMMA ChainLand ==
    ASSUME TypeInv, ChainInv, NEW p \in Process, NEW s \in Slot, land(p, s)
    PROVE  ChainInv'
  <1> DEFINE b == builder[p][s]
             n == Len(commits) + 1
  <1>1. TypeOK
    BY DEF TypeInv
  <1>2. /\ b # None /\ b.phase = "checked"
        /\ n \in Nat /\ Written = 1..(n - 1) /\ Written' = 1..n
        /\ \A i \in Written : commits'[i] = commits[i]
        /\ commits'[n].writer = WriterOf[p] /\ commits'[n].lamport = b.lamport
        /\ commits'[n].parent = b.expected
    <2>1. /\ b # None /\ b.phase = "checked"
          /\ \A i \in Written : commits'[i] = commits[i]
          /\ Len(commits) \in Nat /\ Len(commits') = n
      BY LandWrites
    <2>2. /\ commits'[n].writer = WriterOf[p] /\ commits'[n].lamport = b.lamport
          /\ commits'[n].parent = b.expected
      BY LandedCommit
    <2> QED
      BY <2>1, <2>2 DEF Written
  <1>3. /\ ref' = [ref EXCEPT ![WriterOf[p]] = n]
        /\ builder'[p][s].expected = b.expected /\ builder'[p][s].phase = "landed"
        /\ OthersKept(p, s)
    BY LandFrame DEF SameCall
  <1>4. \A i \in MaybeNone : i # 0 => i \in Written /\ i < n
    BY <1>2 DEF MaybeNone, Written
  <1>5. ChainsAscend'
    <2>1. ASSUME NEW i \in Written, commits'[i].parent # 0
          PROVE  /\ commits'[i].parent < i
                 /\ commits'[commits'[i].parent].writer = commits'[i].writer
                 /\ commits'[commits'[i].parent].lamport < commits'[i].lamport
      BY <1>1, <1>2, <1>4, <2>1, CommitFields DEF ChainInv, ChainsAscend, Written
    <2>2. ASSUME commits'[n].parent # 0
          PROVE  /\ commits'[n].parent < n
                 /\ commits'[commits'[n].parent].writer = commits'[n].writer
                 /\ commits'[commits'[n].parent].lamport < commits'[n].lamport
      <3>1. b.expected \in Written /\ b.expected < n
        BY <1>1, <1>2, <1>4, <2>2, BuilderFields
      <3>2. /\ commits[b.expected].writer = WriterOf[p]
            /\ commits[b.expected].lamport < b.lamport
        BY <1>2, <2>2 DEF ChainInv, ExpectedOwned, CheckedAbove
      <3> QED
        BY <1>2, <3>1, <3>2
    <2>3. \A i \in Written' : i \in Written \/ i = n
      BY <1>2
    <2> QED
      BY <2>1, <2>2, <2>3 DEF ChainsAscend, Written
  <1>6. RefsOwned'
    <2>1. ASSUME NEW w \in Writer, ref'[w] # 0
          PROVE  commits'[ref'[w]].writer = w
      <3>1. CASE w = WriterOf[p]
        BY <1>1, <1>2, <1>3, <3>1 DEF TypeOK
      <3>2. CASE w # WriterOf[p]
        BY <1>1, <1>2, <1>3, <1>4, <2>1, <3>2 DEF TypeOK, ChainInv, RefsOwned
      <3> QED
        BY <3>1, <3>2
    <2> QED
      BY <2>1 DEF RefsOwned
  <1>7. ASSUME NEW q \in Process, NEW t \in Slot, builder'[q][t] # None,
               builder'[q][t].expected # 0
        PROVE  /\ commits'[builder'[q][t].expected].writer = WriterOf[q]
               /\ builder'[q][t].phase = "checked" =>
                     commits'[builder'[q][t].expected].lamport
                        < builder'[q][t].lamport
    <2>1. CASE q = p /\ t = s
      <3>1. b.expected \in Written
        BY <1>1, <1>2, <1>3, <1>4, <1>7, <2>1, BuilderFields
      <3> QED
        BY <1>2, <1>3, <1>7, <2>1, <3>1 DEF ChainInv, ExpectedOwned
    <2>2. CASE ~(q = p /\ t = s)
      <3>1. builder'[q][t] = builder[q][t]
        BY <1>3, <2>2 DEF OthersKept
      <3>2. builder[q][t].expected \in Written
        BY <1>1, <1>4, <1>7, <3>1, BuilderFields
      <3> QED
        BY <1>2, <1>7, <3>1, <3>2 DEF ChainInv, ExpectedOwned, CheckedAbove
    <2> QED
      BY <2>1, <2>2
  <1>8. ExpectedOwned' /\ CheckedAbove'
    BY <1>7 DEF ExpectedOwned, CheckedAbove
  <1> QED
    BY <1>5, <1>6, <1>8 DEF ChainInv

LEMMA InitChain == Init => ChainInv
  BY DEF Init, ChainInv, ChainsAscend, RefsOwned, ExpectedOwned, CheckedAbove

LEMMA NextChain == TypeInv /\ ChainInv /\ [Next]_vars => ChainInv'
  BY StepKinds, ChainReadHead, ChainCreate, ChainCheck, ChainLand, ChainQuiet

\* Along every writer chain the clock strictly increases and every commit is the
\* writer's own, for any number of processes that share a writer id, racing or
\* not (PatchBuilderV2.js commit).
THEOREM ChainsAscendAlways == Spec => []ChainsAscend
  <1>1. ChainInv => ChainsAscend
    BY DEF ChainInv
  <1> QED
    BY <1>1, InitType, NextType, InitChain, NextChain, PTL DEF Spec

----------------------------------------------------------------------------
(* Nothing is lost while no two processes share a writer id and patches    *)
(* come through one guarded entry point: the guard leaves one builder per  *)
(* writer in flight, so the ref cannot move between check and land.        *)

OneInFlight ==
    \A p \in Process, s \in Slot :
        builder[p][s] # None =>
            /\ builder[p][s].api \in busy[p]
            /\ \A t \in Slot : builder[p][t] # None => s = t

CheckedAtTip ==
    \A p \in Process, s \in Slot :
        builder[p][s] # None /\ builder[p][s].phase = "checked" =>
            builder[p][s].expected = ref[WriterOf[p]]

\* no commit has the tip of its chain as parent
TipIsLeaf ==
    \A i \in Written : commits[i].parent # ref[commits[i].writer]

LostInv == NoPatchLost /\ OneInFlight /\ CheckedAtTip /\ TipIsLeaf

\* one process per writer id, and only graph.patch() or only writer.commitPatch()
Exclusive ==
    /\ \A p, q \in Process : WriterOf[p] = WriterOf[q] => p = q
    /\ \E a : guarded(a) /\ Api = {a}

LEMMA LostLand ==
    ASSUME Exclusive, TypeInv, LostInv, NEW p \in Process, NEW s \in Slot, land(p, s)
    PROVE  LostInv'
  <1> DEFINE b == builder[p][s]
             n == Len(commits) + 1
             w == WriterOf[p]
  <1>1. TypeOK /\ w \in Writer
    BY ProcessAssumption DEF TypeInv
  <1>2. /\ b # None /\ b.phase = "checked"
        /\ \A i \in Written : commits'[i] = commits[i]
        /\ \A i \in Written' : i \in Written \/ i = n
        /\ Len(commits) \in Nat
    BY LandWrites
  <1>3. commits'[n].writer = w /\ commits'[n].parent = b.expected
    BY LandedCommit
  <1>4. /\ ref' = [ref EXCEPT ![w] = n]
        /\ builder'[p][s].phase = "landed" /\ builder'[p][s].api = b.api
        /\ OthersKept(p, s)
    BY LandFrame DEF SameCall
  <1>5. b.expected = ref[w]
    BY <1>2 DEF LostInv, CheckedAtTip
  <1>6. NoPatchLost'
    <2>1. ASSUME NEW i \in Written, NEW j \in Written,
                 commits'[i].writer = commits'[j].writer,
                 commits'[i].parent = commits'[j].parent
          PROVE  i = j
      BY <1>2, <2>1 DEF LostInv, NoPatchLost, Written
    <2>2. ASSUME NEW i \in Written, commits'[i].writer = w
          PROVE  commits'[i].parent # b.expected
      BY <1>2, <1>5, <2>2 DEF LostInv, TipIsLeaf
    <2> QED
      BY <1>2, <1>3, <2>1, <2>2 DEF NoPatchLost, Written
  <1>7. OneInFlight'
    <2>1. busy' = busy
      BY DEF land
    <2> QED
      BY <1>2, <1>4, <2>1 DEF LostInv, OneInFlight, OthersKept
  <1>8. CheckedAtTip'
    <2>1. ASSUME NEW q \in Process, NEW t \in Slot, builder'[q][t] # None,
                 builder'[q][t].phase = "checked"
          PROVE  builder'[q][t].expected = ref'[WriterOf[q]]
      <3>1. ~(q = p /\ t = s) /\ builder'[q][t] = builder[q][t]
        BY <1>4, <2>1 DEF OthersKept
      <3>2. q # p
        BY <1>2, <2>1, <3>1 DEF LostInv, OneInFlight
      <3>3. WriterOf[q] # w /\ WriterOf[q] \in Writer
        BY <3>2, ProcessAssumption DEF Exclusive
      <3> QED
        BY <1>1, <1>4, <2>1, <3>1, <3>3 DEF LostInv, CheckedAtTip, TypeOK
    <2> QED
      BY <2>1 DEF CheckedAtTip
  <1>9. TipIsLeaf'
    <2>1. ASSUME NEW i \in Written PROVE commits'[i].parent # ref'[commits'[i].writer]
      <3>1. commits[i].parent \in MaybeNone /\ commits[i].writer \in Writer
        BY <1>1, CommitFields
      <3>2. commits[i].parent # n
        BY <1>2, <3>1 DEF MaybeNone
      <3> QED
        BY <1>1, <1>2, <1>4, <3>1, <3>2 DEF LostInv, TipIsLeaf, TypeOK
    <2>2. commits'[n].parent # ref'[commits'[n].writer]
      <3>1. b.expected \in MaybeNone
        BY <1>1, <1>2, BuilderFields
      <3>2. ref'[w] = n
        BY <1>1, <1>4 DEF TypeOK
      <3>3. b.expected # n
        BY <1>2, <3>1 DEF MaybeNone
      <3> QED
        BY <1>3, <3>2, <3>3
    <2> QED
      BY <1>2, <2>1, <2>2 DEF TipIsLeaf
  <1> QED
    BY <1>6, <1>7, <1>8, <1>9 DEF LostInv

LEMMA LostReadHead ==
    ASSUME Exclusive, TypeInv, LostInv, NEW p \in Process, NEW s \in Slot,
           NEW api \in Api, readHead(p, s, api)
    PROVE  LostInv'
  <1>1. /\ SlotOnly(p, s)
        /\ builder'[p][s].phase = "head" /\ builder'[p][s].api = api
    BY ReadHeadFrame
  <1>2. guarded(api) /\ Api = {api}
    BY DEF Exclusive
  <1>3. /\ api \notin busy[p]
        /\ busy' = [busy EXCEPT ![p] = @ \cup {api}]
    BY <1>2 DEF readHead
  <1>4. \A t \in Slot : builder[p][t] = None
    BY <1>2, <1>3, BuilderFields DEF LostInv, OneInFlight, TypeInv
  <1>5. NoPatchLost' /\ TipIsLeaf'
    BY <1>1 DEF SlotOnly, LostInv, NoPatchLost, TipIsLeaf, Written
  <1>6. CheckedAtTip'
    BY <1>1 DEF SlotOnly, LostInv, CheckedAtTip, OthersKept
  <1>7. OneInFlight'
    <2>1. busy \in [Process -> SUBSET Api]
      BY DEF TypeInv, TypeOK
    <2>2. ASSUME NEW q \in Process, NEW t \in Slot, builder'[q][t] # None
          PROVE  /\ builder'[q][t].api \in busy'[q]
                 /\ \A u \in Slot : builder'[q][u] # None => t = u
      <3>1. CASE q = p
        BY <1>1, <1>3, <1>4, <2>1, <2>2, <3>1 DEF SlotOnly, OthersKept
      <3>2. CASE q # p
        BY <1>1, <1>3, <2>1, <2>2, <3>2 DEF SlotOnly, OthersKept, LostInv, OneInFlight
      <3> QED
        BY <3>1, <3>2
    <2> QED
      BY <2>2 DEF OneInFlight
  <1> QED
    BY <1>5, <1>6, <1>7 DEF LostInv

LEMMA LostSameCall ==
    ASSUME TypeInv, LostInv, NEW p \in Process, NEW s \in Slot,
           \/ tick(p, s) \/ (\E k \in 0..MaxAdds : create(p, s, k))
           \/ check(p, s) \/ retry(p, s)
    PROVE  LostInv'
  <1>1. /\ SlotOnly(p, s) /\ SameCall(p, s)
        /\ builder'[p][s].phase = "checked" => builder[p][s].expected = ref[WriterOf[p]]
    BY TickFrame, CreateFrame, CheckFrame, RetryFrame
  <1>2. busy' = busy
    BY DEF tick, create, check, retry
  <1>3. NoPatchLost' /\ TipIsLeaf'
    BY <1>1 DEF SlotOnly, LostInv, NoPatchLost, TipIsLeaf, Written
  <1>4. CheckedAtTip'
    BY <1>1 DEF SlotOnly, SameCall, LostInv, CheckedAtTip, OthersKept
  <1>5. OneInFlight'
    BY <1>1, <1>2 DEF SlotOnly, SameCall, LostInv, OneInFlight, OthersKept
  <1> QED
    BY <1>3, <1>4, <1>5 DEF LostInv

LEMMA LostQuiet ==
    ASSUME LostInv, Quiet
    PROVE  NoPatchLost' /\ TipIsLeaf' /\ CheckedAtTip'
  BY DEF LostInv, Quiet, NoPatchLost, TipIsLeaf, CheckedAtTip, Written

\* A process that drops a builder drops its guard, and keeps no other builder.
LEMMA InFlightRelease ==
    ASSUME TypeInv, LostInv, NEW p \in Process, NEW s \in Slot,
           builder[p][s] # None, release(p, s)
    PROVE  OneInFlight'
  <1>1. /\ builder \in [Process -> [Slot -> BuilderRec \cup {None}]]
        /\ busy \in [Process -> SUBSET Api]
    BY DEF TypeInv, TypeOK
  <1>2. /\ builder'[p][s] = None
        /\ \A q \in Process, t \in Slot :
               q # p \/ t # s => builder'[q][t] = builder[q][t]
        /\ \A q \in Process : q # p => busy'[q] = busy[q]
    BY <1>1 DEF release
  <1>3. \A t \in Slot : builder'[p][t] = None
    BY <1>2 DEF LostInv, OneInFlight
  <1> QED
    BY <1>2, <1>3 DEF LostInv, OneInFlight

LEMMA InFlightRest ==
    ASSUME TypeInv, LostInv, NEW p \in Process
    PROVE  /\ restart(p) => OneInFlight'
           /\ openWriter(p) \/ loadBegin(p) \/ loadCommit(p) \/ loadEnd(p)
                \/ (\E w \in Writer : loadTip(p, w)) \/ UNCHANGED vars
              => OneInFlight'
  <1>1. ASSUME restart(p) PROVE OneInFlight'
    <2>1. /\ builder \in [Process -> [Slot -> BuilderRec \cup {None}]]
          /\ busy \in [Process -> SUBSET Api]
      BY DEF TypeInv, TypeOK
    <2>2. /\ \A t \in Slot : builder'[p][t] = None
          /\ \A q \in Process : q # p => busy'[q] = busy[q] /\ builder'[q] = builder[q]
      BY <1>1, <2>1 DEF restart
    <2> QED
      BY <2>2 DEF LostInv, OneInFlight
  <1>2. ASSUME UNCHANGED <<busy, builder>> PROVE OneInFlight'
    BY <1>2 DEF LostInv, OneInFlight
  <1> QED
    BY <1>1, <1>2 DEF openWriter, loadBegin, loadCommit, loadEnd, loadTip, vars

LEMMA NextLost == Exclusive /\ TypeInv /\ LostInv /\ [Next]_vars => LostInv'
  <1> SUFFICES ASSUME Exclusive, TypeInv, LostInv, [Next]_vars PROVE LostInv'
    OBVIOUS
  <1>1. ASSUME OneInFlight', Quiet PROVE LostInv'
    BY <1>1, LostQuiet DEF LostInv
  <1>2. CASE UNCHANGED vars
    <2>1. ASSUME NEW p \in Process PROVE Quiet /\ OneInFlight'
      BY <1>2, QuietSteps, InFlightRest
    <2>2. CASE Process = {}
      BY <1>2, <2>2 DEF LostInv, OneInFlight, CheckedAtTip, NoPatchLost, TipIsLeaf,
                        Written, vars
    <2> QED
      BY <1>1, <2>1, <2>2
  <1>3. ASSUME NEW p \in Process, NEW s \in Slot,
               conflict(p, s) \/ fail(p, s) \/ onPatchCommitted(p, s)
        PROVE  LostInv'
    <2>1. builder[p][s] # None /\ release(p, s)
      BY <1>3 DEF conflict, fail, onPatchCommitted
    <2> QED
      BY <1>1, <1>3, <2>1, InFlightRelease, QuietSteps
  <1>4. ASSUME NEW p \in Process, LoadProgress(p) PROVE LostInv'
    BY <1>1, <1>4, InFlightRest, QuietSteps DEF LoadProgress
  <1>5. ASSUME NEW p \in Process, openWriter(p) \/ loadBegin(p) \/ restart(p)
        PROVE  LostInv'
    BY <1>1, <1>5, InFlightRest, QuietSteps
  <1>6. ASSUME NEW p \in Process, NEW s \in Slot, CommitProgress(p, s)
        PROVE  LostInv'
    BY <1>3, <1>6, LostSameCall, LostLand DEF CommitProgress
  <1>7. CASE Next
    BY <1>3, <1>4, <1>5, <1>6, <1>7, LostReadHead, LostSameCall DEF Next
  <1> QED
    BY <1>2, <1>7

LEMMA InitLost == Init => LostInv
  BY DEF Init, LostInv, NoPatchLost, OneInFlight, CheckedAtTip, TipIsLeaf, Written

\* Where every writer id belongs to one process and that process commits through
\* one guarded entry point, no commit is ever orphaned although updateRef moves
\* the ref unconditionally (PatchBuilderV2.js commit, patch.methods.js patch).
THEOREM NoPatchLostIfExclusive == Exclusive /\ Spec => []NoPatchLost
  <1>1. LostInv => NoPatchLost
    BY DEF LostInv
  <1> SUFFICES ASSUME Exclusive PROVE Spec => []NoPatchLost
    OBVIOUS
  <1>2. TypeInv /\ LostInv /\ [Next]_vars => LostInv'
    BY NextLost
  <1> QED
    BY <1>1, <1>2, InitType, NextType, InitLost, PTL DEF Spec

----------------------------------------------------------------------------
(* The clock of a patch created through the graph is above every patch in  *)
(* the state its author held: _maxObservedLamport bounds what the cached   *)
(* state holds, a materialization in progress scans all it has loaded, and *)
(* the bound never falls while a builder waits for its lamport.            *)

SeenObserved ==
    \A p \in Process : \A i \in seen[p] : commits[i].lamport <= maxObserved[p]

LoadObserved ==
    \A p \in Process : load[p] # None =>
        \A i \in load[p].got : commits[i].lamport <= load[p].lamport

AskedBelow ==
    \A p \in Process, s \in Slot :
        builder[p][s] # None /\ builder[p][s].api \in GraphApi =>
            \A i \in builder[p][s].asked :
                IF builder[p][s].phase = "head"
                THEN commits[i].lamport <= maxObserved[p]
                ELSE commits[i].lamport < builder[p][s].lamport

ClockInv == GraphClockIsCausal /\ SeenObserved /\ LoadObserved /\ AskedBelow

\* _maxObservedLamport never falls, except in a process that ends
ClockKept ==
    \A p \in Process :
        \/ maxObserved[p] <= maxObserved'[p] /\ maxObserved'[p] \in Nat
        \/ \A s \in Slot : builder'[p][s] = None

LEMMA ClockBuilders ==
    ASSUME TypeInv, ClockInv, Quiet, ClockKept
    PROVE  GraphClockIsCausal' /\ AskedBelow'
  <1>1. TypeOK
    BY DEF TypeInv
  <1>2. GraphClockIsCausal'
    BY DEF ClockInv, Quiet, GraphClockIsCausal
  <1>3. ASSUME NEW p \in Process, NEW s \in Slot, builder'[p][s] # None,
               builder'[p][s].api \in GraphApi, NEW i \in builder'[p][s].asked
        PROVE  IF builder'[p][s].phase = "head"
               THEN commits[i].lamport <= maxObserved'[p]
               ELSE commits[i].lamport < builder'[p][s].lamport
    <2>1. builder'[p][s] = builder[p][s]
      BY <1>3 DEF Quiet
    <2>2. /\ maxObserved[p] <= maxObserved'[p] /\ maxObserved'[p] \in Nat
          /\ maxObserved[p] \in Nat
      BY <1>1, <1>3 DEF ClockKept, TypeOK
    <2>3. commits[i].lamport \in Nat
      BY <1>1, <1>3, <2>1, BuilderFields, CommitFields
    <2>4. IF builder[p][s].phase = "head"
          THEN commits[i].lamport <= maxObserved[p]
          ELSE commits[i].lamport < builder[p][s].lamport
      BY <1>3, <2>1 DEF ClockInv, AskedBelow
    <2> QED
      BY <2>1, <2>2, <2>3, <2>4
  <1>4. AskedBelow'
    BY <1>3 DEF AskedBelow, Quiet
  <1> QED
    BY <1>2, <1>4

LEMMA ClockSlot ==
    ASSUME ClockInv, NEW p \in Process, NEW s \in Slot, SlotOnly(p, s),
           builder'[p][s].api \in GraphApi =>
              \A i \in builder'[p][s].asked :
                 IF builder'[p][s].phase = "head"
                 THEN commits[i].lamport <= maxObserved[p]
                 ELSE commits[i].lamport < builder'[p][s].lamport
    PROVE  ClockInv'
  <1>1. GraphClockIsCausal' /\ SeenObserved' /\ LoadObserved'
    BY DEF ClockInv, GraphClockIsCausal, SeenObserved, LoadObserved, SlotOnly, memory
  <1>2. AskedBelow'
    BY DEF ClockInv, AskedBelow, SlotOnly, OthersKept, memory
  <1> QED
    BY <1>1, <1>2 DEF ClockInv

LEMMA ClockReadHead ==
    ASSUME TypeInv, ClockInv, NEW p \in Process, NEW s \in Slot, NEW api \in Api,
           readHead(p, s, api)
    PROVE  ClockInv'
  <1>1. /\ SlotOnly(p, s) /\ builder'[p][s].phase = "head"
        /\ builder'[p][s].asked = seen[p]
    BY ReadHeadFrame
  <1>2. \A i \in seen[p] : commits[i].lamport <= maxObserved[p]
    BY DEF ClockInv, SeenObserved
  <1> QED
    BY <1>1, <1>2, ClockSlot

LEMMA ClockTick ==
    ASSUME TypeInv, ClockInv, NEW p \in Process, NEW s \in Slot, tick(p, s)
    PROVE  ClockInv'
  <1> DEFINE b == builder[p][s]
  <1>1. TypeOK
    BY DEF TypeInv
  <1>2. /\ SlotOnly(p, s) /\ SameCall(p, s) /\ b.phase = "head"
        /\ builder'[p][s].phase = "ticked"
        /\ builder'[p][s].lamport = nextLamport(p, b)
    BY TickFrame
  <1>3. b # None /\ builder'[p][s].asked = b.asked /\ b.api \in GraphApi
    BY <1>2 DEF SameCall, tick
  <1>4. maxObserved[p] \in Nat /\ lamportAt(b.expected) \in Nat
    BY <1>1, <1>3, BuilderFields, LamportAtType DEF TypeOK
  <1>5. nextLamport(p, b) \in Nat /\ maxObserved[p] < nextLamport(p, b)
    BY <1>3, <1>4 DEF nextLamport, maxOf
  <1>6. ASSUME NEW i \in b.asked PROVE commits[i].lamport < nextLamport(p, b)
    <2>1. commits[i].lamport <= maxObserved[p]
      BY <1>2, <1>3 DEF ClockInv, AskedBelow
    <2>2. commits[i].lamport \in Nat
      BY <1>1, <1>3, BuilderFields, CommitFields
    <2> QED
      BY <1>4, <1>5, <2>1, <2>2
  <1> HIDE DEF b
  <1> QED
    BY <1>2, <1>3, <1>6, ClockSlot

LEMMA ClockCreate ==
    ASSUME TypeInv, ClockInv, NEW p \in Process, NEW s \in Slot,
           (\E k \in 0..MaxAdds : create(p, s, k)) \/ retry(p, s)
    PROVE  ClockInv'
  <1> DEFINE b == builder[p][s]
  <1>1. /\ SlotOnly(p, s) /\ SameCall(p, s)
        /\ builder'[p][s].phase # "head"
        /\ b.api \in GraphApi => /\ builder'[p][s].lamport = b.lamport
                                 /\ b.phase # "head"
    BY CreateFrame, RetryFrame
  <1>2. b.api \in GraphApi => \A i \in b.asked : commits[i].lamport < b.lamport
    BY <1>1 DEF SameCall, ClockInv, AskedBelow
  <1>3. builder'[p][s].asked = b.asked /\ builder'[p][s].api = b.api
    BY <1>1 DEF SameCall
  <1> HIDE DEF b
  <1> QED
    BY <1>1, <1>2, <1>3, ClockSlot

LEMMA ClockCheck ==
    ASSUME TypeInv, ClockInv, NEW p \in Process, NEW s \in Slot, check(p, s)
    PROVE  ClockInv'
  <1> DEFINE b == builder[p][s]
  <1>1. TypeOK
    BY DEF TypeInv
  <1>2. /\ SlotOnly(p, s) /\ SameCall(p, s)
        /\ b.phase = "open" /\ builder'[p][s].phase = "checked"
        /\ builder'[p][s].lamport = maxOf(b.lamport, lamportAt(ref[WriterOf[p]]) + 1)
    BY CheckFrame
  <1>3. b # None /\ builder'[p][s].asked = b.asked /\ builder'[p][s].api = b.api
    BY <1>2 DEF SameCall
  <1>4. b.lamport \in Nat /\ lamportAt(ref[WriterOf[p]]) \in Nat
    BY <1>1, <1>3, BuilderFields, LamportAtType, ProcessAssumption DEF TypeOK
  <1>5. builder'[p][s].lamport \in Nat /\ b.lamport <= builder'[p][s].lamport
    BY <1>2, <1>4 DEF maxOf
  <1>6. ASSUME b.api \in GraphApi, NEW i \in b.asked
        PROVE  commits[i].lamport < builder'[p][s].lamport
    <2>1. commits[i].lamport < b.lamport
      BY <1>2, <1>3, <1>6 DEF ClockInv, AskedBelow
    <2>2. commits[i].lamport \in Nat
      BY <1>1, <1>3, BuilderFields, CommitFields
    <2> QED
      BY <1>4, <1>5, <2>1, <2>2
  <1> HIDE DEF b
  <1> QED
    BY <1>2, <1>3, <1>6, ClockSlot

LEMMA ClockLand ==
    ASSUME TypeInv, ClockInv, NEW p \in Process, NEW s \in Slot, land(p, s)
    PROVE  ClockInv'
  <1> DEFINE b == builder[p][s]
             n == Len(commits) + 1
  <1>1. TypeOK
    BY DEF TypeInv
  <1>2. /\ b # None /\ b.phase = "checked"
        /\ \A i \in Written : commits'[i] = commits[i]
        /\ \A i \in Written' : i \in Written \/ i = n
    BY LandWrites
  <1>3. /\ commits'[n].lamport = b.lamport /\ commits'[n].api = b.api
        /\ commits'[n].asked = b.asked
    BY LandedCommit
  <1>4. /\ UNCHANGED memory /\ load' = load
        /\ builder'[p][s].api = b.api /\ builder'[p][s].asked = b.asked
        /\ builder'[p][s].lamport = b.lamport /\ builder'[p][s].phase = "landed"
        /\ OthersKept(p, s)
    BY LandFrame DEF SameCall
  <1>5. GraphClockIsCausal'
    <2>1. ASSUME NEW i \in Written, commits'[i].api \in GraphApi,
                 NEW j \in commits'[i].asked
          PROVE  commits'[j].lamport < commits'[i].lamport
      <3>1. j \in Written /\ j \in commits[i].asked /\ commits[i].api \in GraphApi
        BY <1>1, <1>2, <2>1, CommitFields
      <3> QED
        BY <1>2, <3>1 DEF ClockInv, GraphClockIsCausal, Written
    <2>2. ASSUME b.api \in GraphApi, NEW j \in b.asked
          PROVE  commits'[j].lamport < b.lamport
      <3>1. j \in Written
        BY <1>1, <1>2, BuilderFields
      <3> QED
        BY <1>2, <2>2, <3>1 DEF ClockInv, AskedBelow
    <2> QED
      BY <1>2, <1>3, <2>1, <2>2 DEF GraphClockIsCausal, Written
  <1>6. SeenObserved'
    <2>1. seen \in [Process -> SUBSET Written]
      BY <1>1 DEF TypeOK
    <2> QED
      BY <1>2, <1>4, <2>1 DEF ClockInv, SeenObserved, memory
  <1>7. LoadObserved'
    <2>1. ASSUME NEW q \in Process, load[q] # None, NEW i \in load[q].got
          PROVE  commits'[i].lamport <= load[q].lamport
      <3>1. i \in Written
        BY <1>1, <2>1, LoadFields
      <3> QED
        BY <1>2, <2>1, <3>1 DEF ClockInv, LoadObserved
    <2> QED
      BY <1>4, <2>1 DEF LoadObserved
  <1>8. AskedBelow'
    <2>1. ASSUME NEW q \in Process, NEW t \in Slot, builder'[q][t] # None,
                 builder'[q][t].api \in GraphApi, NEW i \in builder'[q][t].asked
          PROVE  IF builder'[q][t].phase = "head"
                 THEN commits'[i].lamport <= maxObserved'[q]
                 ELSE commits'[i].lamport < builder'[q][t].lamport
      <3>1. maxObserved' = maxObserved
        BY <1>4 DEF memory
      <3>2. CASE q = p /\ t = s
        <4>1. i \in b.asked /\ b.api \in GraphApi /\ i \in Written
          BY <1>1, <1>2, <1>4, <2>1, <3>2, BuilderFields
        <4> QED
          BY <1>2, <1>4, <3>2, <4>1 DEF ClockInv, AskedBelow
      <3>3. CASE ~(q = p /\ t = s)
        <4>1. builder'[q][t] = builder[q][t]
          BY <1>4, <3>3 DEF OthersKept
        <4>2. i \in Written
          BY <1>1, <2>1, <4>1, BuilderFields
        <4> QED
          BY <1>2, <2>1, <3>1, <4>1, <4>2 DEF ClockInv, AskedBelow
      <3> QED
        BY <3>2, <3>3
    <2> QED
      BY <2>1 DEF AskedBelow
  <1> QED
    BY <1>5, <1>6, <1>7, <1>8 DEF ClockInv

LEMMA ClockHook ==
    ASSUME TypeInv, ClockInv, NEW p \in Process, NEW s \in Slot,
           onPatchCommitted(p, s)
    PROVE  ClockInv'
  <1> DEFINE sha == builder[p][s].sha
  <1>1. TypeOK /\ commits' = commits /\ load' = load /\ builder[p][s] # None
    BY DEF TypeInv, onPatchCommitted
  <1>2. sha \in Written
    BY <1>1, BuilderFields DEF onPatchCommitted, TypeInv, LandedHasSha, MaybeNone,
                               Written
  <1>3. commits[sha].lamport \in Nat
    BY <1>1, <1>2, CommitFields
  <1>4. maxObserved' = [maxObserved EXCEPT ![p] = maxOf(@, commits[sha].lamport)]
    BY DEF onPatchCommitted
  <1>5. \/ seen' = seen
        \/ seen' = [seen EXCEPT ![p] = seen[p] \cup {sha}]
    BY DEF onPatchCommitted, setMaterializedState
  <1>6. SeenObserved'
    <2>1. ASSUME NEW q \in Process, NEW i \in seen'[q]
          PROVE  commits[i].lamport <= maxObserved'[q]
      <3>1. /\ maxObserved[q] \in Nat /\ maxObserved'[q] \in Nat
            /\ maxObserved[q] <= maxObserved'[q]
        BY <1>1, <1>3, <1>4 DEF TypeOK, maxOf
      <3>2. CASE i \in seen[q]
        <4>1. commits[i].lamport \in Nat /\ commits[i].lamport <= maxObserved[q]
          BY <1>1, <3>2, CommitFields DEF TypeOK, ClockInv, SeenObserved
        <4> QED
          BY <3>1, <4>1
      <3>3. CASE i \notin seen[q]
        <4>1. q = p /\ i = sha
          BY <1>1, <1>5, <2>1, <3>3 DEF TypeOK
        <4> QED
          BY <1>1, <1>3, <1>4, <4>1 DEF TypeOK, maxOf
      <3> QED
        BY <3>2, <3>3
    <2> QED
      BY <1>1, <2>1 DEF SeenObserved
  <1>7. LoadObserved'
    BY <1>1 DEF ClockInv, LoadObserved
  <1>8. ClockKept
    BY <1>1, <1>3, <1>4 DEF ClockKept, TypeOK, maxOf
  <1> QED
    BY <1>6, <1>7, <1>8, QuietSteps, ClockBuilders DEF ClockInv

LEMMA ClockLoadCommit ==
    ASSUME TypeInv, ClockInv, NEW p \in Process, loadCommit(p)
    PROVE  ClockInv'
  <1> DEFINE c == commits[load[p].at]
  <1>1. TypeOK /\ load[p] # None /\ load[p].at \in Written
    BY LoadFields DEF TypeInv, loadCommit, MaybeNone, Written
  <1>2. load \in [Process -> LoadRec \cup {None}] /\ load[p] \in LoadRec
    BY <1>1 DEF TypeOK
  <1>3. load'[p] = [load[p] EXCEPT !.at = c.parent,
                                   !.got = @ \cup {load[p].at},
                                   !.frontier = foldPatch(@, c),
                                   !.lamport = maxOf(@, c.lamport)]
    BY <1>2 DEF loadCommit
  <1>4. /\ load'[p].got = load[p].got \cup {load[p].at}
        /\ load'[p].lamport = maxOf(load[p].lamport, c.lamport)
    BY <1>2, <1>3 DEF LoadRec
  <1>5. c.lamport \in Nat /\ load[p].lamport \in Nat
    BY <1>1, CommitFields, LoadFields
  <1>6. ASSUME NEW i \in load'[p].got
        PROVE  commits[i].lamport <= load'[p].lamport
    <2>1. CASE i = load[p].at
      BY <1>4, <1>5, <2>1 DEF maxOf
    <2>2. CASE i \in load[p].got
      <3>1. commits[i].lamport \in Nat /\ commits[i].lamport <= load[p].lamport
        BY <1>1, <2>2, LoadFields, CommitFields DEF ClockInv, LoadObserved
      <3> QED
        BY <1>4, <1>5, <3>1 DEF maxOf
    <2> QED
      BY <1>4, <1>6, <2>1, <2>2
  <1>7. LoadObserved'
    <2>1. \A q \in Process : q # p => load'[q] = load[q]
      BY <1>2 DEF loadCommit
    <2>2. commits' = commits
      BY DEF loadCommit
    <2> QED
      BY <1>6, <2>1, <2>2 DEF ClockInv, LoadObserved
  <1>8. SeenObserved'
    BY DEF ClockInv, SeenObserved, loadCommit, memory
  <1>9. ClockKept
    BY <1>1 DEF ClockKept, loadCommit, memory, TypeOK
  <1> QED
    BY <1>7, <1>8, <1>9, QuietSteps, ClockBuilders DEF ClockInv

LEMMA ClockLoadEnd ==
    ASSUME TypeInv, ClockInv, NEW p \in Process, loadEnd(p)
    PROVE  ClockInv'
  <1>1. TypeOK /\ commits' = commits /\ load[p] # None
    BY DEF TypeInv, loadEnd
  <1>2. /\ maxObserved' = [maxObserved EXCEPT ![p] = maxOf(@, load[p].lamport)]
        /\ seen' = [seen EXCEPT ![p] = load[p].got]
        /\ load' = [load EXCEPT ![p] = None]
    BY DEF loadEnd, setMaterializedState
  <1>3. /\ load[p].lamport \in Nat /\ maxObserved[p] \in Nat
        /\ load[p].got \in SUBSET Written
    BY <1>1, LoadFields DEF TypeOK
  <1>4. ASSUME NEW i \in load[p].got
        PROVE  commits[i].lamport <= maxObserved'[p]
    <2>1. commits[i].lamport \in Nat /\ commits[i].lamport <= load[p].lamport
      BY <1>1, <1>3, CommitFields DEF ClockInv, LoadObserved
    <2> QED
      BY <1>1, <1>2, <1>3, <2>1 DEF maxOf, TypeOK
  <1>5. SeenObserved'
    BY <1>1, <1>2, <1>4 DEF ClockInv, SeenObserved, TypeOK
  <1>6. LoadObserved'
    BY <1>1, <1>2 DEF ClockInv, LoadObserved, TypeOK
  <1>7. ClockKept
    BY <1>1, <1>2, <1>3 DEF ClockKept, TypeOK, maxOf
  <1> QED
    BY <1>5, <1>6, <1>7, QuietSteps, ClockBuilders DEF ClockInv

LEMMA ClockOther ==
    ASSUME TypeInv, ClockInv, NEW p \in Process
    PROVE  /\ \A s \in Slot : conflict(p, s) \/ fail(p, s) => ClockInv'
           /\ openWriter(p) \/ loadBegin(p) \/ restart(p) => ClockInv'
           /\ \A w \in Writer : loadTip(p, w) => ClockInv'
  <1>1. TypeOK
    BY DEF TypeInv
  <1>2. ASSUME Quiet, ClockKept, SeenObserved', LoadObserved' PROVE ClockInv'
    BY <1>2, ClockBuilders DEF ClockInv
  <1>3. ASSUME UNCHANGED <<commits, seen, maxObserved, load>>
        PROVE  ClockKept /\ SeenObserved' /\ LoadObserved'
    BY <1>1, <1>3 DEF ClockKept, ClockInv, SeenObserved, LoadObserved, TypeOK
  <1>4. ASSUME NEW s \in Slot, conflict(p, s) \/ fail(p, s) PROVE ClockInv'
    <2>1. UNCHANGED <<commits, seen, maxObserved, load>>
      BY <1>4 DEF conflict, fail, memory
    <2> QED
      BY <1>2, <1>3, <1>4, <2>1, QuietSteps
  <1>5. ASSUME openWriter(p) PROVE ClockInv'
    <2>1. UNCHANGED <<commits, seen, maxObserved, load>>
      BY <1>5 DEF openWriter
    <2> QED
      BY <1>2, <1>3, <1>5, <2>1, QuietSteps
  <1>6. ASSUME loadBegin(p) PROVE ClockInv'
    <2>1. SeenObserved' /\ LoadObserved'
      BY <1>1, <1>6 DEF loadBegin, memory, ClockInv, SeenObserved, LoadObserved, TypeOK
    <2>2. ClockKept
      BY <1>1, <1>6 DEF loadBegin, memory, ClockKept, TypeOK
    <2> QED
      BY <1>2, <1>6, <2>1, <2>2, QuietSteps
  <1>7. ASSUME restart(p) PROVE ClockInv'
    <2>1. SeenObserved' /\ LoadObserved'
      BY <1>1, <1>7 DEF restart, ClockInv, SeenObserved, LoadObserved, TypeOK
    <2>2. ClockKept
      BY <1>1, <1>7 DEF restart, ClockKept, TypeOK
    <2> QED
      BY <1>2, <1>7, <2>1, <2>2, QuietSteps
  <1>8. ASSUME NEW w \in Writer, loadTip(p, w) PROVE ClockInv'
    <2>1. load \in [Process -> LoadRec \cup {None}] /\ load[p] \in LoadRec
      BY <1>1, <1>8 DEF TypeOK, loadTip
    <2>2. load'[p] = [load[p] EXCEPT !.todo = @ \ {w}, !.at = ref[w]]
      BY <1>8, <2>1 DEF loadTip
    <2>3. load'[p].got = load[p].got /\ load'[p].lamport = load[p].lamport
      BY <2>1, <2>2 DEF LoadRec
    <2>4. load[p] # None /\ commits' = commits /\ UNCHANGED memory
          /\ \A q \in Process : q # p => load'[q] = load[q]
      BY <1>8, <2>1 DEF loadTip
    <2>5. SeenObserved' /\ LoadObserved'
      BY <2>3, <2>4 DEF memory, ClockInv, SeenObserved, LoadObserved
    <2>6. ClockKept
      BY <1>1, <2>4 DEF memory, ClockKept, TypeOK
    <2> QED
      BY <1>2, <1>8, <2>5, <2>6, QuietSteps
  <1> QED
    BY <1>4, <1>5, <1>6, <1>7, <1>8

LEMMA NextClock == TypeInv /\ ClockInv /\ [Next]_vars => ClockInv'
  <1> SUFFICES ASSUME TypeInv, ClockInv, [Next]_vars PROVE ClockInv'
    OBVIOUS
  <1>1. CASE UNCHANGED vars
    BY <1>1 DEF vars, memory, ClockInv, GraphClockIsCausal, SeenObserved, LoadObserved,
                AskedBelow
  <1>2. ASSUME NEW p \in Process, NEW s \in Slot, CommitProgress(p, s)
        PROVE  ClockInv'
    BY <1>2, ClockTick, ClockCreate, ClockCheck, ClockLand, ClockHook, ClockOther
    DEF CommitProgress
  <1>3. ASSUME NEW p \in Process, LoadProgress(p) PROVE ClockInv'
    BY <1>3, ClockLoadCommit, ClockLoadEnd, ClockOther DEF LoadProgress
  <1>4. CASE Next
    BY <1>2, <1>3, <1>4, ClockReadHead, ClockCreate, ClockOther DEF Next
  <1> QED
    BY <1>1, <1>4

LEMMA InitClock == Init => ClockInv
  BY DEF Init, ClockInv, GraphClockIsCausal, SeenObserved, LoadObserved, AskedBelow

\* A patch created by graph.createPatch() or graph.patch() has a lamport above
\* every patch in the state its author held when it asked for the builder,
\* whatever commits, materializations and restarts happen before it lands
\* (patch.methods.js _nextLamport, materialize.methods.js
\* scanPatchesForMaxLamport).
THEOREM GraphClockAlwaysCausal == Spec => []GraphClockIsCausal
  <1>1. ClockInv => GraphClockIsCausal
    BY DEF ClockInv
  <1> QED
    BY <1>1, InitType, NextType, InitClock, NextClock, PTL DEF Spec

----------------------------------------------------------------------------
(* The dots of a patch created through the graph are new to the cached     *)
(* state.  A dot never exceeds the context of its patch, and both the      *)
(* cached frontier and the version vector descend from every context they  *)
(* have absorbed.                                                          *)

LEMMA DescendsFold ==
    ASSUME TypeOK, NEW f \in VersionVector, NEW i \in Written
    PROVE  /\ vvDescends(foldPatch(f, commits[i]), f)
           /\ vvDescends(foldPatch(f, commits[i]), commits[i].context)
  <1> DEFINE c == commits[i]
             m == vvMerge(f, c.context)
  <1>1. c.context \in VersionVector /\ c.writer \in Writer /\ c.lamport \in Nat
    BY CommitFields
  <1>2. m \in VersionVector
    BY <1>1, VersionVectorOps
  <1>3. ASSUME NEW x \in Writer
        PROVE  m[x] <= foldPatch(f, c)[x] /\ f[x] <= m[x] /\ c.context[x] <= m[x]
    BY <1>1, <1>2, VersionVectorGrows DEF foldPatch
  <1>4. ASSUME NEW x \in Writer
        PROVE  /\ m[x] \in Nat /\ f[x] \in Nat /\ c.context[x] \in Nat
               /\ foldPatch(f, c)[x] \in Nat
    BY <1>1, <1>2, FoldPatchType DEF VersionVector
  <1> HIDE DEF m, c
  <1>5. ASSUME NEW x \in Writer
        PROVE  f[x] <= foldPatch(f, c)[x] /\ c.context[x] <= foldPatch(f, c)[x]
    BY <1>3, <1>4
  <1> QED
    BY <1>5 DEF vvDescends, c

LEMMA DescendsTrans ==
    ASSUME NEW a \in VersionVector, NEW b \in VersionVector, NEW c \in VersionVector,
           vvDescends(a, b), vvDescends(b, c)
    PROVE  vvDescends(a, c)
  <1>1. ASSUME NEW x \in Writer PROVE a[x] >= c[x]
    <2>1. a[x] \in Nat /\ b[x] \in Nat /\ c[x] \in Nat
      BY DEF VersionVector
    <2>2. a[x] >= b[x] /\ b[x] >= c[x]
      BY DEF vvDescends
    <2> QED
      BY <2>1, <2>2
  <1> QED
    BY <1>1 DEF vvDescends

LEMMA DescendsIncrement ==
    ASSUME NEW a \in VersionVector, NEW w \in Writer
    PROVE  vvDescends(vvIncrement(a, w), a)
  BY DEF vvDescends, vvIncrement, VersionVector

DotsBounded ==
    \A i \in Written : \A d \in commits[i].dots :
        d <= commits[i].context[commits[i].writer]

BuilderDotsBounded ==
    \A p \in Process, s \in Slot : builder[p][s] # None =>
        \A d \in builder[p][s].dots : d <= builder[p][s].vv[WriterOf[p]]

SeenCovered ==
    \A p \in Process : \A i \in seen[p] :
        /\ vvDescends(vv[p], commits[i].context)
        /\ vvDescends(frontier[p], commits[i].context)

LoadCovered ==
    \A p \in Process : load[p] # None =>
        \A i \in load[p].got : vvDescends(load[p].frontier, commits[i].context)

BasisDots ==
    \A p \in Process, s \in Slot :
        builder[p][s] # None /\ builder[p][s].api \in GraphApi =>
            \A i \in builder[p][s].basis :
                commits[i].writer = WriterOf[p] =>
                    commits[i].dots \cap builder[p][s].dots = {}

DotsInv ==
    /\ GraphDotsAreNew /\ DotsBounded /\ BuilderDotsBounded
    /\ SeenCovered /\ LoadCovered /\ BasisDots

LEMMA DotsBuilders ==
    ASSUME TypeInv, DotsInv, Quiet
    PROVE  GraphDotsAreNew' /\ DotsBounded' /\ BuilderDotsBounded' /\ BasisDots'
  <1>1. GraphDotsAreNew' /\ DotsBounded'
    BY DEF DotsInv, Quiet, GraphDotsAreNew, DotsBounded, Written
  <1>2. BuilderDotsBounded' /\ BasisDots'
    BY DEF DotsInv, Quiet, BuilderDotsBounded, BasisDots
  <1> QED
    BY <1>1, <1>2

LEMMA DotsSlot ==
    ASSUME DotsInv, NEW p \in Process, NEW s \in Slot, SlotOnly(p, s),
           \A d \in builder'[p][s].dots : d <= builder'[p][s].vv[WriterOf[p]],
           builder'[p][s].api \in GraphApi =>
              \A i \in builder'[p][s].basis :
                 commits[i].writer = WriterOf[p] =>
                    commits[i].dots \cap builder'[p][s].dots = {}
    PROVE  DotsInv'
  <1>1. GraphDotsAreNew' /\ DotsBounded'
    BY DEF DotsInv, GraphDotsAreNew, DotsBounded, Written, SlotOnly
  <1>2. SeenCovered' /\ LoadCovered'
    BY DEF DotsInv, SeenCovered, LoadCovered, memory, SlotOnly
  <1>3. BuilderDotsBounded'
    BY DEF DotsInv, BuilderDotsBounded, OthersKept, SlotOnly
  <1>4. BasisDots'
    BY DEF DotsInv, BasisDots, OthersKept, SlotOnly
  <1> QED
    BY <1>1, <1>2, <1>3, <1>4 DEF DotsInv

LEMMA DotsReadHead ==
    ASSUME TypeInv, DotsInv, NEW p \in Process, NEW s \in Slot, NEW api \in Api,
           readHead(p, s, api)
    PROVE  DotsInv'
  <1>1. SlotOnly(p, s) /\ builder'[p][s].dots = {} /\ builder'[p][s].basis = {}
    BY ReadHeadFrame
  <1> QED
    BY <1>1, DotsSlot

LEMMA DotsCreate ==
    ASSUME TypeInv, DotsInv, NEW p \in Process, NEW s \in Slot,
           NEW k \in 0..MaxAdds, create(p, s, k)
    PROVE  DotsInv'
  <1> DEFINE b == builder[p][s]
  <1>1. TypeOK
    BY DEF TypeInv
  <1>2. SlotOnly(p, s) /\ SameCall(p, s) /\ builder'[p][s].basis = seen[p]
    BY CreateFrame
  <1>3. \A d \in builder'[p][s].dots :
           /\ d \in Nat /\ baseVV(p, b.api)[WriterOf[p]] < d
           /\ d <= builder'[p][s].vv[WriterOf[p]]
    BY CreateFrame
  <1>4. b # None /\ builder'[p][s].api = b.api
    BY <1>2 DEF SameCall
  <1>5. ASSUME b.api \in GraphApi, NEW i \in seen[p], commits[i].writer = WriterOf[p]
        PROVE  commits[i].dots \cap builder'[p][s].dots = {}
    <2>1. i \in Written /\ WriterOf[p] \in Writer
      BY <1>1, ProcessAssumption DEF TypeOK
    <2>2. /\ commits[i].context[WriterOf[p]] \in Nat /\ vv[p][WriterOf[p]] \in Nat
          /\ commits[i].dots \in SUBSET Nat
      BY <1>1, <2>1, CommitFields DEF TypeOK, VersionVector
    <2>3. commits[i].context[WriterOf[p]] <= vv[p][WriterOf[p]]
      BY <2>1 DEF DotsInv, SeenCovered, vvDescends
    <2>4. \A d \in commits[i].dots : d <= vv[p][WriterOf[p]]
      BY <1>5, <2>1, <2>2, <2>3 DEF DotsInv, DotsBounded
    <2>5. \A d \in builder'[p][s].dots : d \in Nat /\ vv[p][WriterOf[p]] < d
      BY <1>3, <1>5 DEF baseVV
    <2> QED
      BY <2>2, <2>4, <2>5
  <1>6. \A d \in builder'[p][s].dots : d <= builder'[p][s].vv[WriterOf[p]]
    BY <1>3
  <1> HIDE DEF b
  <1> QED
    BY <1>2, <1>4, <1>5, <1>6, DotsSlot

LEMMA DotsSame ==
    ASSUME TypeInv, DotsInv, NEW p \in Process, NEW s \in Slot,
           tick(p, s) \/ check(p, s) \/ retry(p, s)
    PROVE  DotsInv'
  <1> DEFINE b == builder[p][s]
  <1>1. SlotOnly(p, s) /\ SameCall(p, s) /\ SameContent(p, s)
    BY TickFrame, CheckFrame, RetryFrame
  <1>2. /\ b # None /\ builder'[p][s].api = b.api /\ builder'[p][s].basis = b.basis
        /\ builder'[p][s].dots = b.dots /\ builder'[p][s].vv = b.vv
    BY <1>1 DEF SameCall, SameContent
  <1>3. \A d \in b.dots : d <= b.vv[WriterOf[p]]
    BY <1>2 DEF DotsInv, BuilderDotsBounded
  <1>4. b.api \in GraphApi =>
           \A i \in b.basis : commits[i].writer = WriterOf[p] =>
              commits[i].dots \cap b.dots = {}
    BY <1>2 DEF DotsInv, BasisDots
  <1> HIDE DEF b
  <1> QED
    BY <1>1, <1>2, <1>3, <1>4, DotsSlot

LEMMA DotsLand ==
    ASSUME TypeInv, DotsInv, NEW p \in Process, NEW s \in Slot, land(p, s)
    PROVE  DotsInv'
  <1> DEFINE b == builder[p][s]
             n == Len(commits) + 1
  <1>1. TypeOK
    BY DEF TypeInv
  <1>2. /\ b # None
        /\ \A i \in Written : commits'[i] = commits[i]
        /\ \A i \in Written' : i \in Written \/ i = n
    BY LandWrites
  <1>3. /\ commits'[n].writer = WriterOf[p] /\ commits'[n].api = b.api
        /\ commits'[n].basis = b.basis /\ commits'[n].dots = b.dots
        /\ commits'[n].context = b.vv
    BY LandedCommit
  <1>4. /\ UNCHANGED memory /\ load' = load
        /\ builder'[p][s].api = b.api /\ builder'[p][s].basis = b.basis
        /\ builder'[p][s].dots = b.dots /\ builder'[p][s].vv = b.vv
        /\ OthersKept(p, s)
    BY LandFrame DEF SameCall, SameContent
  <1>5. DotsBounded'
    <2>1. \A d \in b.dots : d <= b.vv[WriterOf[p]]
      BY <1>2 DEF DotsInv, BuilderDotsBounded
    <2> QED
      BY <1>2, <1>3, <2>1 DEF DotsInv, DotsBounded
  <1>6. GraphDotsAreNew'
    <2>1. ASSUME NEW i \in Written, commits'[i].api \in GraphApi,
                 NEW j \in commits'[i].basis, commits'[j].writer = commits'[i].writer
          PROVE  commits'[j].dots \cap commits'[i].dots = {}
      <3>1. j \in Written /\ j \in commits[i].basis /\ commits[i].api \in GraphApi
        BY <1>1, <1>2, <2>1, CommitFields
      <3> QED
        BY <1>2, <2>1, <3>1 DEF DotsInv, GraphDotsAreNew, Written
    <2>2. ASSUME b.api \in GraphApi, NEW j \in b.basis,
                 commits'[j].writer = WriterOf[p]
          PROVE  commits'[j].dots \cap b.dots = {}
      <3>1. j \in Written
        BY <1>1, <1>2, BuilderFields
      <3> QED
        BY <1>2, <2>2, <3>1 DEF DotsInv, BasisDots
    <2> QED
      BY <1>2, <1>3, <2>1, <2>2 DEF GraphDotsAreNew, Written
  <1>7. SeenCovered'
    <2>1. seen \in [Process -> SUBSET Written]
      BY <1>1 DEF TypeOK
    <2> QED
      BY <1>2, <1>4, <2>1 DEF DotsInv, SeenCovered, memory
  <1>8. LoadCovered'
    <2>1. ASSUME NEW q \in Process, load[q] # None, NEW i \in load[q].got
          PROVE  vvDescends(load[q].frontier, commits'[i].context)
      <3>1. i \in Written
        BY <1>1, <2>1, LoadFields
      <3> QED
        BY <1>2, <2>1, <3>1 DEF DotsInv, LoadCovered
    <2> QED
      BY <1>4, <2>1 DEF LoadCovered
  <1>9. BuilderDotsBounded'
    BY <1>2, <1>4 DEF DotsInv, BuilderDotsBounded, OthersKept
  <1>10. BasisDots'
    <2>1. ASSUME NEW q \in Process, NEW t \in Slot, builder'[q][t] # None,
                 builder'[q][t].api \in GraphApi, NEW i \in builder'[q][t].basis,
                 commits'[i].writer = WriterOf[q]
          PROVE  commits'[i].dots \cap builder'[q][t].dots = {}
      <3>1. /\ builder[q][t] # None /\ builder[q][t].api \in GraphApi
            /\ i \in builder[q][t].basis
            /\ builder'[q][t].dots = builder[q][t].dots
        BY <1>2, <1>4, <2>1 DEF OthersKept
      <3>2. i \in Written
        BY <1>1, <3>1, BuilderFields
      <3> QED
        BY <1>2, <2>1, <3>1, <3>2 DEF DotsInv, BasisDots
    <2> QED
      BY <2>1 DEF BasisDots
  <1> QED
    BY <1>5, <1>6, <1>7, <1>8, <1>9, <1>10 DEF DotsInv

LEMMA DotsHook ==
    ASSUME TypeInv, DotsInv, NEW p \in Process, NEW s \in Slot,
           onPatchCommitted(p, s)
    PROVE  DotsInv'
  <1> DEFINE sha == builder[p][s].sha
             inc == vvIncrement(vv[p], WriterOf[p])
             f   == foldPatch(frontier[p], commits[sha])
  <1>1. TypeOK /\ commits' = commits /\ load' = load /\ builder[p][s] # None
    BY DEF TypeInv, onPatchCommitted
  <1>2. sha \in Written
    BY <1>1, BuilderFields DEF onPatchCommitted, TypeInv, LandedHasSha, MaybeNone,
                               Written
  <1>3. /\ inc \in VersionVector /\ f \in VersionVector
        /\ vv[p] \in VersionVector /\ frontier[p] \in VersionVector
    BY <1>1, <1>2, FoldPatchType, VersionVectorOps, ProcessAssumption DEF TypeOK
  <1>4. \/ /\ seen' = [seen EXCEPT ![p] = seen[p] \cup {sha}]
           /\ frontier' = [frontier EXCEPT ![p] = f]
           /\ vv' = [vv EXCEPT ![p] = f]
        \/ /\ seen' = seen /\ frontier' = frontier
           /\ vv' = [vv EXCEPT ![p] = inc]
    BY DEF onPatchCommitted, setMaterializedState
  <1>5. ASSUME NEW i \in seen[p]
        PROVE  /\ vvDescends(f, commits[i].context)
               /\ vvDescends(inc, commits[i].context)
               /\ vvDescends(frontier[p], commits[i].context)
    <2>1. commits[i].context \in VersionVector
      BY <1>1, CommitFields DEF TypeOK
    <2>2. /\ vvDescends(vv[p], commits[i].context)
          /\ vvDescends(frontier[p], commits[i].context)
      BY DEF DotsInv, SeenCovered
    <2>3. vvDescends(inc, vv[p]) /\ vvDescends(f, frontier[p])
      BY <1>1, <1>2, <1>3, DescendsFold, DescendsIncrement, ProcessAssumption
    <2> QED
      BY <1>3, <2>1, <2>2, <2>3, DescendsTrans
  <1>6. vvDescends(f, commits[sha].context)
    BY <1>1, <1>2, <1>3, DescendsFold
  <1>7. SeenCovered'
    <2>1. ASSUME NEW q \in Process, NEW i \in seen'[q]
          PROVE  /\ vvDescends(vv'[q], commits[i].context)
                 /\ vvDescends(frontier'[q], commits[i].context)
      <3> HIDE DEF f, inc
      <3>1. CASE q = p
        BY <1>1, <1>4, <1>5, <1>6, <2>1, <3>1 DEF TypeOK
      <3>2. CASE q # p
        BY <1>1, <1>4, <2>1, <3>2 DEF TypeOK, DotsInv, SeenCovered
      <3> QED
        BY <3>1, <3>2
    <2> QED
      BY <1>1, <2>1 DEF SeenCovered
  <1>8. LoadCovered'
    BY <1>1 DEF DotsInv, LoadCovered
  <1> QED
    BY <1>7, <1>8, QuietSteps, DotsBuilders DEF DotsInv

LEMMA DotsLoadCommit ==
    ASSUME TypeInv, DotsInv, NEW p \in Process, loadCommit(p)
    PROVE  DotsInv'
  <1> DEFINE c == commits[load[p].at]
             f == foldPatch(load[p].frontier, c)
  <1>1. TypeOK /\ load[p] # None /\ load[p].at \in Written
    BY LoadFields DEF TypeInv, loadCommit, MaybeNone, Written
  <1>2. load \in [Process -> LoadRec \cup {None}] /\ load[p] \in LoadRec
    BY <1>1 DEF TypeOK
  <1>3. load'[p] = [load[p] EXCEPT !.at = c.parent,
                                   !.got = @ \cup {load[p].at},
                                   !.frontier = foldPatch(@, c),
                                   !.lamport = maxOf(@, c.lamport)]
    BY <1>2 DEF loadCommit
  <1>4. /\ load'[p].got = load[p].got \cup {load[p].at}
        /\ load'[p].frontier = f
    BY <1>2, <1>3 DEF LoadRec
  <1>5. f \in VersionVector /\ load[p].frontier \in VersionVector
    BY <1>1, FoldPatchType, LoadFields
  <1>6. ASSUME NEW i \in load'[p].got
        PROVE  vvDescends(load'[p].frontier, commits[i].context)
    <2>1. CASE i = load[p].at
      BY <1>1, <1>4, <1>5, <2>1, DescendsFold
    <2>2. CASE i \in load[p].got
      <3>1. commits[i].context \in VersionVector
        BY <1>1, <2>2, LoadFields, CommitFields
      <3>2. vvDescends(load[p].frontier, commits[i].context)
        BY <1>1, <2>2 DEF DotsInv, LoadCovered
      <3>3. vvDescends(f, load[p].frontier)
        BY <1>1, <1>5, DescendsFold
      <3> QED
        BY <1>4, <1>5, <3>1, <3>2, <3>3, DescendsTrans
    <2> QED
      BY <1>4, <1>6, <2>1, <2>2
  <1>7. LoadCovered'
    <2>1. \A q \in Process : q # p => load'[q] = load[q]
      BY <1>2 DEF loadCommit
    <2>2. commits' = commits
      BY DEF loadCommit
    <2> QED
      BY <1>6, <2>1, <2>2 DEF DotsInv, LoadCovered
  <1>8. SeenCovered'
    BY DEF DotsInv, SeenCovered, loadCommit, memory
  <1> QED
    BY <1>7, <1>8, QuietSteps, DotsBuilders DEF DotsInv

LEMMA DotsLoadEnd ==
    ASSUME TypeInv, DotsInv, NEW p \in Process, loadEnd(p)
    PROVE  DotsInv'
  <1>1. TypeOK /\ commits' = commits /\ load[p] # None
    BY DEF TypeInv, loadEnd
  <1>2. /\ seen' = [seen EXCEPT ![p] = load[p].got]
        /\ frontier' = [frontier EXCEPT ![p] = load[p].frontier]
        /\ vv' = [vv EXCEPT ![p] = load[p].frontier]
        /\ load' = [load EXCEPT ![p] = None]
    BY DEF loadEnd, setMaterializedState
  <1>3. \A i \in load[p].got : vvDescends(load[p].frontier, commits[i].context)
    BY <1>1 DEF DotsInv, LoadCovered
  <1>4. SeenCovered'
    BY <1>1, <1>2, <1>3 DEF DotsInv, SeenCovered, TypeOK
  <1>5. LoadCovered'
    BY <1>1, <1>2 DEF DotsInv, LoadCovered, TypeOK
  <1> QED
    BY <1>4, <1>5, QuietSteps, DotsBuilders DEF DotsInv

LEMMA DotsOther ==
    ASSUME TypeInv, DotsInv, NEW p \in Process
    PROVE  /\ \A s \in Slot : conflict(p, s) \/ fail(p, s) => DotsInv'
           /\ openWriter(p) \/ loadBegin(p) \/ restart(p) => DotsInv'
           /\ \A w \in Writer : loadTip(p, w) => DotsInv'
  <1>1. TypeOK
    BY DEF TypeInv
  <1>2. ASSUME Quiet, SeenCovered', LoadCovered' PROVE DotsInv'
    BY <1>2, DotsBuilders DEF DotsInv
  <1>3. ASSUME NEW s \in Slot, conflict(p, s) \/ fail(p, s) PROVE DotsInv'
    <2>1. SeenCovered' /\ LoadCovered'
      BY <1>3 DEF conflict, fail, memory, DotsInv, SeenCovered, LoadCovered
    <2> QED
      BY <1>2, <1>3, <2>1, QuietSteps
  <1>4. ASSUME openWriter(p) PROVE DotsInv'
    <2>1. SeenCovered' /\ LoadCovered'
      BY <1>4 DEF openWriter, DotsInv, SeenCovered, LoadCovered
    <2> QED
      BY <1>2, <1>4, <2>1, QuietSteps
  <1>5. ASSUME loadBegin(p) PROVE DotsInv'
    <2>1. SeenCovered' /\ LoadCovered'
      BY <1>1, <1>5 DEF loadBegin, memory, DotsInv, SeenCovered, LoadCovered, TypeOK
    <2> QED
      BY <1>2, <1>5, <2>1, QuietSteps
  <1>6. ASSUME restart(p) PROVE DotsInv'
    <2>1. SeenCovered' /\ LoadCovered'
      BY <1>1, <1>6 DEF restart, DotsInv, SeenCovered, LoadCovered, TypeOK
    <2> QED
      BY <1>2, <1>6, <2>1, QuietSteps
  <1>7. ASSUME NEW w \in Writer, loadTip(p, w) PROVE DotsInv'
    <2>1. load \in [Process -> LoadRec \cup {None}] /\ load[p] \in LoadRec
      BY <1>1, <1>7 DEF TypeOK, loadTip
    <2>2. load'[p] = [load[p] EXCEPT !.todo = @ \ {w}, !.at = ref[w]]
      BY <1>7, <2>1 DEF loadTip
    <2>3. load'[p].got = load[p].got /\ load'[p].frontier = load[p].frontier
      BY <2>1, <2>2 DEF LoadRec
    <2>4. load[p] # None /\ commits' = commits /\ UNCHANGED memory
          /\ \A q \in Process : q # p => load'[q] = load[q]
      BY <1>7, <2>1 DEF loadTip
    <2>5. SeenCovered' /\ LoadCovered'
      BY <2>3, <2>4 DEF memory, DotsInv, SeenCovered, LoadCovered
    <2> QED
      BY <1>2, <1>7, <2>5, QuietSteps
  <1> QED
    BY <1>3, <1>4, <1>5, <1>6, <1>7

LEMMA NextDots == TypeInv /\ DotsInv /\ [Next]_vars => DotsInv'
  <1> SUFFICES ASSUME TypeInv, DotsInv, [Next]_vars PROVE DotsInv'
    OBVIOUS
  <1>1. CASE UNCHANGED vars
    <2>1. SeenCovered' /\ LoadCovered' /\ Quiet
      BY <1>1 DEF vars, memory, DotsInv, SeenCovered, LoadCovered, Quiet
    <2> QED
      BY <2>1, DotsBuilders DEF DotsInv
  <1>2. ASSUME NEW p \in Process, NEW s \in Slot, CommitProgress(p, s)
        PROVE  DotsInv'
    BY <1>2, DotsSame, DotsCreate, DotsLand, DotsHook, DotsOther DEF CommitProgress
  <1>3. ASSUME NEW p \in Process, LoadProgress(p) PROVE DotsInv'
    BY <1>3, DotsLoadCommit, DotsLoadEnd, DotsOther DEF LoadProgress
  <1>4. CASE Next
    BY <1>2, <1>3, <1>4, DotsReadHead, DotsSame, DotsOther DEF Next
  <1> QED
    BY <1>1, <1>4

LEMMA InitDots == Init => DotsInv
  BY DEF Init, DotsInv, GraphDotsAreNew, DotsBounded, BuilderDotsBounded, SeenCovered,
         LoadCovered, BasisDots, Written

\* The adds of a patch created through the graph never reuse a dot of a patch of
\* the same writer in the author's cached state (patch.methods.js createPatch,
\* _onPatchCommitted; JoinReducer.js updateFrontierFromPatch).
THEOREM GraphDotsAlwaysNew == Spec => []GraphDotsAreNew
  <1>1. DotsInv => GraphDotsAreNew
    BY DEF DotsInv
  <1> QED
    BY <1>1, InitType, NextType, InitDots, NextDots, PTL DEF Spec

=============================================================================
