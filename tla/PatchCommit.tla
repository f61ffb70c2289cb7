----------------------------- MODULE PatchCommit -----------------------------
(***************************************************************************)
(* How patches get onto writer chains: the processes that open a graph,    *)
(* the ways they create a builder (graph.createPatch, graph.patch,         *)
(* writer.beginPatch, writer.commitPatch), the steps of commit() between   *)
(* its awaits, the hook that runs after it, and materialize() walking the  *)
(* chains meanwhile.                                                       *)
(* (PatchBuilderV2.js commit, warp/patch.methods.js, warp/Writer.js,       *)
(*  warp/materialize.methods.js, warp/materializeAdvanced.methods.js)      *)
(*                                                                         *)
(* A commit id is the commit's position in the sequence commits; 0 stands  *)
(* for "no commit".  Of a patch's content only its clock, its context and  *)
(* the dots of its adds are kept.                                          *)
(***************************************************************************)
EXTENDS Crdt, Sequences

CONSTANTS
    Process,      \* operating-system processes with the graph open
    WriterOf,     \* WriterOf[p]: the writer id that p uses
    Slot,         \* each process has one builder per slot
    Api,          \* the entry points in use
    MaxCommits,   \* bound on the commits ever written
    MaxAdds,      \* bound on the adds of one patch
    MaxLoads,     \* bound on the materializations of a process
    MaxRestarts   \* bound on the restarts of all processes

GraphApi  == {"createPatch", "patch"}
WriterApi == {"beginPatch", "commitPatch"}

ASSUME ProcessAssumption == WriterOf \in [Process -> Writer]
ASSUME ApiAssumption == Api \subseteq GraphApi \cup WriterApi
ASSUME BoundsAssumption ==
    /\ MaxCommits \in Nat /\ MaxAdds \in Nat /\ MaxLoads \in Nat
    /\ MaxRestarts \in Nat

VARIABLES
    commits,      \* all commit objects ever written to a writer ref
    ref,          \* ref[w]: the commit at w's ref
    vv,           \* vv[p]: the map that graph._versionVector points to
    writerVV,     \* writerVV[p]: the map a Writer of p captured, if detached
    writerMap,    \* "none", "shared" (it is the graph's map) or "detached"
    maxObserved,  \* maxObserved[p]: _maxObservedLamport
    cache,        \* cache[p]: "none", "clean" or "dirty" cached state
    seen,         \* seen[p]: the commits in the cached state
    frontier,     \* frontier[p]: the cached state's observedFrontier
    busy,         \* busy[p]: the guards _patchInProgress, _commitInProgress
    load,         \* load[p]: the materialization in progress
    loads,        \* loads[p]: how many materializations p has begun
    restarts,     \* how many processes have ended
    builder       \* builder[p][s]: the builder in slot s

memory == <<vv, writerVV, writerMap, maxObserved, cache, seen, frontier>>
vars == <<commits, ref, memory, busy, load, loads, restarts, builder>>

----------------------------------------------------------------------------
\* the commits written so far; 0 is no commit
Written   == 1..Len(commits)
MaybeNone == 0..Len(commits)

\* asked and basis are history fields: the commits in the cached state when the
\* call was made, and those in it when the builder was constructed.
Commit == [writer : Writer, lamport : Nat, parent : MaybeNone,
           context : VersionVector, dots : SUBSET Nat, api : Api,
           asked : SUBSET Written, basis : SUBSET Written]

\* A call that creates a builder has read the writer's ref ("head"), has taken
\* its lamport ("ticked"), has constructed the builder ("open"), has passed the
\* race check of commit() ("checked"), has moved the ref ("landed").
Phase == {"head", "ticked", "open", "checked", "landed"}

BuilderRec == [phase : Phase, api : Api, lamport : Nat, expected : MaybeNone,
               vv : VersionVector, dots : SUBSET Nat,
               asked : SUBSET Written, basis : SUBSET Written, sha : MaybeNone]

\* a materialization: the writers still to walk, the next commit of the
\* chain being walked, and what has been read so far
LoadRec == [todo : SUBSET Writer, at : MaybeNone, got : SUBSET Written,
            frontier : VersionVector, lamport : Nat]

TypeOK ==
    /\ commits \in Seq(Commit)
    /\ ref \in [Writer -> MaybeNone]
    /\ vv \in [Process -> VersionVector]
    /\ writerVV \in [Process -> VersionVector]
    /\ writerMap \in [Process -> {"none", "shared", "detached"}]
    /\ maxObserved \in [Process -> Nat]
    /\ cache \in [Process -> {"none", "clean", "dirty"}]
    /\ seen \in [Process -> SUBSET Written]
    /\ frontier \in [Process -> VersionVector]
    /\ busy \in [Process -> SUBSET Api]
    /\ load \in [Process -> LoadRec \cup {None}]
    /\ loads \in [Process -> Nat]
    /\ restarts \in Nat
    /\ builder \in [Process -> [Slot -> BuilderRec \cup {None}]]

Init ==
    /\ commits = << >>
    /\ ref = [w \in Writer |-> 0]
    /\ vv = [p \in Process |-> createVersionVector]
    /\ writerVV = [p \in Process |-> createVersionVector]
    /\ writerMap = [p \in Process |-> "none"]
    /\ maxObserved = [p \in Process |-> 0]
    /\ cache = [p \in Process |-> "none"]
    /\ seen = [p \in Process |-> {}]
    /\ frontier = [p \in Process |-> createVersionVector]
    /\ busy = [p \in Process |-> {}]
    /\ load = [p \in Process |-> None]
    /\ loads = [p \in Process |-> 0]
    /\ restarts = 0
    /\ builder = [p \in Process |-> [s \in Slot |-> None]]

\* the lamport in the message of a commit
lamportAt(sha) == IF sha = 0 THEN 0 ELSE commits[sha].lamport

----------------------------------------------------------------------------
(* Creating a builder.                                                     *)

\* graph.writer(): the new Writer shares the map that _versionVector is now
openWriter(p) ==
    /\ Api \cap WriterApi # {}
    /\ writerMap[p] # "shared"
    /\ writerMap' = [writerMap EXCEPT ![p] = "shared"]
    /\ UNCHANGED <<commits, ref, vv, writerVV, maxObserved, cache, seen, frontier,
                   busy, load, loads, restarts, builder>>

\* patch() and commitPatch() are not reentrant
guarded(api) == api \in {"patch", "commitPatch"}

\* The ref is read, as the parent the commit will expect.
readHead(p, s, api) ==
    /\ api \in Api
    /\ builder[p][s] = None
    /\ guarded(api) => api \notin busy[p]
    /\ api \in WriterApi => writerMap[p] # "none"
    /\ Len(commits) < MaxCommits
    /\ builder' = [builder EXCEPT ![p][s] =
          [phase |-> "head", api |-> api, lamport |-> 0,
           expected |-> ref[WriterOf[p]],
           vv |-> createVersionVector, dots |-> {},
           asked |-> seen[p], basis |-> {}, sha |-> 0]]
    /\ busy' = IF guarded(api) THEN [busy EXCEPT ![p] = @ \cup {api}] ELSE busy
    /\ UNCHANGED <<commits, ref, memory, load, loads, restarts>>

\* a mutant: a new patch continues its own chain, whatever has been observed
nextLamportOwnChain(p, b) == lamportAt(b.expected) + 1

\* the clock a new patch takes: _nextLamport, or Writer.beginPatch
nextLamport(p, b) ==
    IF b.api \in GraphApi
    THEN maxOf(lamportAt(b.expected), maxObserved[p]) + 1
    ELSE lamportAt(b.expected) + 1

\* _nextLamport returns to createPatch
tick(p, s) ==
    /\ builder[p][s] # None
    /\ builder[p][s].phase = "head"
    /\ builder[p][s].api \in GraphApi
    /\ builder' = [builder EXCEPT ![p][s].phase = "ticked",
                                  ![p][s].lamport = nextLamport(p, builder[p][s])]
    /\ UNCHANGED <<commits, ref, memory, busy, load, loads, restarts>>

\* the version vector a builder starts from
baseVV(p, api) ==
    IF api \in GraphApi \/ writerMap[p] = "shared" THEN vv[p] ELSE writerVV[p]

\* createPatch constructs the builder when it resumes; beginPatch does so right
\* after it has taken the lamport.  The callback then adds k elements; it works
\* on the builder alone, so construction and callback are one step.
create(p, s, k) ==
    /\ builder[p][s] # None
    /\ \/ builder[p][s].phase = "ticked"
       \/ builder[p][s].phase = "head" /\ builder[p][s].api \in WriterApi
    /\ LET b    == builder[p][s]
           w    == WriterOf[p]
           base == baseVV(p, b.api)
       IN  builder' = [builder EXCEPT ![p][s] =
              [b EXCEPT !.phase   = "open",
                        !.lamport = IF b.phase = "ticked" THEN @ ELSE nextLamport(p, b),
                        !.vv      = [base EXCEPT ![w] = @ + k],
                        !.dots    = (base[w] + 1)..(base[w] + k),
                        !.basis   = seen[p]]]
    /\ UNCHANGED <<commits, ref, memory, busy, load, loads, restarts>>

----------------------------------------------------------------------------
(* commit().                                                               *)

\* a mutant: the guard survives a failed commit
releaseSlotOnly(p, s) ==
    /\ builder' = [builder EXCEPT ![p][s] = None]
    /\ busy' = busy

\* the builder is done with, and the guard of its entry point released
release(p, s) ==
    /\ builder' = [builder EXCEPT ![p][s] = None]
    /\ busy' = [busy EXCEPT ![p] = @ \ {builder[p][s].api}]

\* WRITER_CAS_CONFLICT: the ref is not what it was when the builder was created
conflict(p, s) ==
    /\ builder[p][s] # None
    /\ builder[p][s].phase = "open"
    /\ ref[WriterOf[p]] # builder[p][s].expected
    /\ release(p, s)
    /\ UNCHANGED <<commits, ref, memory, load, loads, restarts>>

\* The call fails: the callback throws, the patch is empty, a Git call fails.
fail(p, s) ==
    /\ builder[p][s] # None
    /\ builder[p][s].phase # "landed"
    /\ release(p, s)
    /\ UNCHANGED <<commits, ref, memory, load, loads, restarts>>

\* A builder that the caller holds can be committed again after a failed Git call.
retry(p, s) ==
    /\ builder[p][s] # None
    /\ builder[p][s].phase = "checked"
    /\ ~guarded(builder[p][s].api)
    /\ builder' = [builder EXCEPT ![p][s].phase = "open"]
    /\ UNCHANGED <<commits, ref, memory, busy, load, loads, restarts>>

\* a mutant: the ref is not compared, and the lamport is the builder's
checkKeepingLamport(p, s) ==
    /\ builder[p][s] # None
    /\ builder[p][s].phase = "open"
    /\ builder' = [builder EXCEPT ![p][s].phase = "checked",
                                  ![p][s].expected = ref[WriterOf[p]]]
    /\ UNCHANGED <<commits, ref, memory, busy, load, loads, restarts>>

\* the ref is as expected: the lamport is settled against the parent
check(p, s) ==
    /\ builder[p][s] # None
    /\ builder[p][s].phase = "open"
    /\ ref[WriterOf[p]] = builder[p][s].expected
    /\ builder' = [builder EXCEPT
          ![p][s].phase = "checked",
          ![p][s].lamport = maxOf(@, lamportAt(ref[WriterOf[p]]) + 1)]
    /\ UNCHANGED <<commits, ref, memory, busy, load, loads, restarts>>

\* a mutant: the ref is not moved
landCommitOnly(p, s) ==
    /\ builder[p][s] # None
    /\ builder[p][s].phase = "checked"
    /\ LET b == builder[p][s]
       IN  commits' = Append(commits,
                [writer |-> WriterOf[p], lamport |-> b.lamport,
                 parent |-> b.expected, context |-> b.vv, dots |-> b.dots,
                 api |-> b.api, asked |-> b.asked, basis |-> b.basis])
    /\ builder' = [builder EXCEPT ![p][s].phase = "landed",
                                  ![p][s].sha = Len(commits) + 1]
    /\ UNCHANGED <<ref, memory, busy, load, loads, restarts>>

\* blob, tree and commit are written and updateRef moves the ref, whatever it
\* holds by now
land(p, s) ==
    /\ builder[p][s] # None
    /\ builder[p][s].phase = "checked"
    /\ LET b == builder[p][s]
       IN  commits' = Append(commits,
                [writer |-> WriterOf[p], lamport |-> b.lamport,
                 parent |-> b.expected, context |-> b.vv, dots |-> b.dots,
                 api |-> b.api, asked |-> b.asked, basis |-> b.basis])
    /\ ref' = [ref EXCEPT ![WriterOf[p]] = Len(commits) + 1]
    /\ builder' = [builder EXCEPT ![p][s].phase = "landed",
                                  ![p][s].sha = Len(commits) + 1]
    /\ UNCHANGED <<memory, busy, load, loads, restarts>>

\* observedFrontier after a patch is applied (JoinReducer updateFrontierFromPatch)
foldPatch(f, c) ==
    [vvMerge(f, c.context) EXCEPT ![c.writer] = maxOf(@, c.lamport)]

\* a mutant: the graph keeps its old map
setMaterializedStateKeepingMap(p, commitIds, f, oldMap) ==
    /\ cache' = [cache EXCEPT ![p] = "clean"]
    /\ seen' = [seen EXCEPT ![p] = commitIds]
    /\ frontier' = [frontier EXCEPT ![p] = f]
    /\ vv' = [vv EXCEPT ![p] = oldMap]
    /\ UNCHANGED <<writerVV, writerMap>>

\* _setMaterializedState: the cached state is clean and _versionVector becomes a
\* new map, so a Writer that shared the old one keeps the old one
setMaterializedState(p, commitIds, f, oldMap) ==
    /\ cache' = [cache EXCEPT ![p] = "clean"]
    /\ seen' = [seen EXCEPT ![p] = commitIds]
    /\ frontier' = [frontier EXCEPT ![p] = f]
    /\ vv' = [vv EXCEPT ![p] = f]
    /\ writerVV' = IF writerMap[p] = "shared"
                   THEN [writerVV EXCEPT ![p] = oldMap] ELSE writerVV
    /\ writerMap' = IF writerMap[p] = "shared"
                    THEN [writerMap EXCEPT ![p] = "detached"] ELSE writerMap

\* _onPatchCommitted
onPatchCommitted(p, s) ==
    /\ builder[p][s] # None
    /\ builder[p][s].phase = "landed"
    /\ LET sha == builder[p][s].sha
           incremented == vvIncrement(vv[p], WriterOf[p])
       IN  /\ maxObserved' = [maxObserved EXCEPT ![p] = maxOf(@, commits[sha].lamport)]
           /\ IF cache[p] = "clean"
              THEN setMaterializedState(p, seen[p] \cup {sha},
                        foldPatch(frontier[p], commits[sha]), incremented)
              ELSE /\ vv' = [vv EXCEPT ![p] = incremented]
                   /\ cache' = [cache EXCEPT ![p] = IF @ = "none" THEN "none" ELSE "dirty"]
                   /\ UNCHANGED <<writerVV, writerMap, seen, frontier>>
    /\ release(p, s)
    /\ UNCHANGED <<commits, ref, load, loads, restarts>>

----------------------------------------------------------------------------
(* materialize(): walk every chain from its tip to its root, then reduce.  *)

\* discoverWriters lists the refs there are
loadBegin(p) ==
    /\ load[p] = None
    /\ loads[p] < MaxLoads
    /\ load' = [load EXCEPT ![p] =
          [todo |-> {w \in Writer : ref[w] # 0}, at |-> 0, got |-> {},
           frontier |-> createVersionVector, lamport |-> 0]]
    /\ loads' = [loads EXCEPT ![p] = @ + 1]
    /\ UNCHANGED <<commits, ref, memory, busy, restarts, builder>>

\* _loadWriterPatches reads the ref of the next writer, in sorted order
loadTip(p, w) ==
    /\ load[p] # None
    /\ load[p].at = 0
    /\ w \in load[p].todo
    /\ \A x \in load[p].todo : w <= x
    /\ load' = [load EXCEPT ![p].todo = @ \ {w}, ![p].at = ref[w]]
    /\ UNCHANGED <<commits, ref, memory, busy, loads, restarts, builder>>

\* and follows the parents
loadCommit(p) ==
    /\ load[p] # None
    /\ load[p].at # 0
    /\ LET c == commits[load[p].at]
       IN  load' = [load EXCEPT ![p].at = c.parent,
                                ![p].got = @ \cup {load[p].at},
                                ![p].frontier = foldPatch(@, c),
                                ![p].lamport = maxOf(@, c.lamport)]
    /\ UNCHANGED <<commits, ref, memory, busy, loads, restarts, builder>>

\* scanPatchesForMaxLamport, reduceV5, _setMaterializedState
loadEnd(p) ==
    /\ load[p] # None
    /\ load[p].at = 0
    /\ load[p].todo = {}
    /\ maxObserved' = [maxObserved EXCEPT ![p] = maxOf(@, load[p].lamport)]
    /\ setMaterializedState(p, load[p].got, load[p].frontier, vv[p])
    /\ load' = [load EXCEPT ![p] = None]
    /\ UNCHANGED <<commits, ref, busy, loads, restarts, builder>>

----------------------------------------------------------------------------
\* p ends, at any point; its successor opens the graph and holds nothing
restart(p) ==
    /\ restarts < MaxRestarts
    /\ restarts' = restarts + 1
    /\ vv' = [vv EXCEPT ![p] = createVersionVector]
    /\ writerVV' = [writerVV EXCEPT ![p] = createVersionVector]
    /\ writerMap' = [writerMap EXCEPT ![p] = "none"]
    /\ maxObserved' = [maxObserved EXCEPT ![p] = 0]
    /\ cache' = [cache EXCEPT ![p] = "none"]
    /\ seen' = [seen EXCEPT ![p] = {}]
    /\ frontier' = [frontier EXCEPT ![p] = createVersionVector]
    /\ busy' = [busy EXCEPT ![p] = {}]
    /\ load' = [load EXCEPT ![p] = None]
    /\ builder' = [builder EXCEPT ![p] = [s \in Slot |-> None]]
    /\ UNCHANGED <<commits, ref, loads>>

\* the steps that carry on with a call already made
CommitProgress(p, s) ==
    \/ tick(p, s)
    \/ \E k \in 0..MaxAdds : create(p, s, k)
    \/ conflict(p, s)
    \/ check(p, s)
    \/ land(p, s)
    \/ onPatchCommitted(p, s)

LoadProgress(p) ==
    \/ \E w \in Writer : loadTip(p, w)
    \/ loadCommit(p)
    \/ loadEnd(p)

Next ==
    \E p \in Process :
        \/ \E s \in Slot, api \in Api : readHead(p, s, api)
        \/ \E s \in Slot : CommitProgress(p, s)
        \/ \E s \in Slot : fail(p, s)
        \/ \E s \in Slot : retry(p, s)
        \/ openWriter(p)
        \/ loadBegin(p)
        \/ LoadProgress(p)
        \/ restart(p)

Spec == Init /\ [][Next]_vars

\* Pending Git calls complete: whatever a process has begun goes on, one builder
\* and one materialization no slower than the others, until the process ends.
FairSpec ==
    /\ Spec
    /\ \A p \in Process : /\ \A s \in Slot : WF_vars(CommitProgress(p, s))
                           /\ WF_vars(LoadProgress(p))

----------------------------------------------------------------------------
(* Properties.                                                             *)

\* Along a writer chain the lamport clock strictly increases, whatever builders
\* were created, overtaken or retried meanwhile, and even where a race has made
\* the chain fork (PatchBuilderV2.js commit, "so the chain stays monotonic").
ChainsAscend ==
    \A i \in 1..Len(commits) :
        LET c == commits[i]
        IN  c.parent # 0 =>
                /\ c.parent < i
                /\ commits[c.parent].writer = c.writer
                /\ commits[c.parent].lamport < c.lamport

\* No two commits of a writer have the same parent: the chain that starts at the
\* ref holds every patch the writer has committed, and none is ever lost.
NoPatchLost ==
    \A i, j \in 1..Len(commits) :
        /\ commits[i].writer = commits[j].writer
        /\ commits[i].parent = commits[j].parent
        => i = j

\* A patch created through the graph has a lamport above that of every patch in
\* the state its author held when it asked for the builder, its own or another
\* writer's, whatever materializations and commits end before it lands.
GraphClockIsCausal ==
    \A i \in 1..Len(commits) :
        commits[i].api \in GraphApi =>
            \A j \in commits[i].asked : commits[j].lamport < commits[i].lamport

\* The adds of a patch created through the graph carry dots that no patch of the
\* writer in the author's cached state carries, although the counter that numbers
\* them is re-derived from contexts and lamports at every materialization.
GraphDotsAreNew ==
    \A i \in 1..Len(commits) :
        commits[i].api \in GraphApi =>
            \A j \in commits[i].basis :
                commits[j].writer = commits[i].writer =>
                    commits[j].dots \cap commits[i].dots = {}

\* graph.patch() and writer.commitPatch() always release their reentrancy guard:
\* whether the commit lands or is refused, the next call is not locked out.
GuardsAreReleased ==
    \A p \in Process : \A api \in Api : api \in busy[p] ~> api \notin busy[p]

=============================================================================
