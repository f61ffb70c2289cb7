----------------------------- MODULE Checkpoint -----------------------------
(***************************************************************************)
(* Checkpoints and garbage collection (warp/checkpoint.methods.js,         *)
(* services/CheckpointService.js, services/GCPolicy.js) and the            *)
(* materialization that starts from a checkpoint                           *)
(* (warp/materialize.methods.js): the calls of several processes on one    *)
(* repository, interleaved at their awaits.                                *)
(*                                                                         *)
(* _stateDirty is only set while there is no cached state, and every       *)
(* installation of a state clears it: a cached state is never dirty.       *)
(***************************************************************************)
EXTENDS Chains, FiniteSets

CONSTANTS
    CheckpointCached, \* whether createCheckpoint() is called on an instance
                      \* that holds a cached state
    RemoveOthers,     \* whether writers remove what others have added
    MaxPatches,       \* bound on the patches of all chains
    MaxCalls          \* bound on the calls of all processes

ASSUME UsageAssumption == CheckpointCached \in BOOLEAN /\ RemoveOthers \in BOOLEAN
ASSUME LimitsAssumption == MaxPatches \in Nat /\ MaxCalls \in Nat

VARIABLES
    chain,        \* chain[w]: the patches of writer w
    checkpoint,   \* the checkpoint at the checkpoint ref
    cached,       \* cached[p]: the cached state of process p
    call,         \* call[p]: the materialize() or createCheckpoint() under way
    calls         \* how many calls there have been

vars == <<chain, checkpoint, cached, call, calls>>

Process == Writer

tips == [w \in Writer |-> Len(chain[w])]

CheckpointRec == [frontier : Tips, state : StateRec]

\* no checkpoint is as good as one of nothing
emptyCheckpoint == [frontier |-> NoTips, state |-> emptyState]

\* A call reads the tips for a checkpoint's frontier ("frontier"), loads the
\* latest checkpoint ("base"), lists the writers ("list"), loads their patches
\* one writer after the other ("load"), has a state to publish ("publish").
\* asked is a history field: the tips when it began to materialize.
CallRec == [kind : {"materialize", "createCheckpoint"},
            phase : {"frontier", "base", "list", "load", "publish"},
            todo : SUBSET Writer, frontier : Tips, base : CheckpointRec,
            loaded : SUBSET PatchId, state : StateRec, asked : Tips]

TypeOK ==
    /\ chain \in Chain
    /\ checkpoint \in CheckpointRec
    /\ cached \in [Process -> StateRec \cup {None}]
    /\ call \in [Process -> CallRec \cup {None}]
    /\ calls \in Nat

Init ==
    /\ chain = [w \in Writer |-> << >>]
    /\ checkpoint = emptyCheckpoint
    /\ cached = [p \in Process |-> None]
    /\ call = [p \in Process |-> None]
    /\ calls = 0

\* the writers in todo are visited in sorted order
isNext(w, todo) == w \in todo /\ \A x \in todo : w <= x

someWriters == {w \in Writer : chain[w] # << >>}

----------------------------------------------------------------------------
(* Writing patches.                                                        *)

\* A commit lands on the chain of p, and _onPatchCommitted applies it to the
\* cached state, if there is one.
commit(p, adds, removes) ==
    /\ Cardinality(upTo(tips)) < MaxPatches
    /\ chain' = [chain EXCEPT ![p] = Append(@, [adds |-> adds, removes |-> removes])]
    /\ cached' = IF cached[p] = None THEN cached
                 ELSE [cached EXCEPT ![p] = applied(@, chain', {<<p, Len(chain[p]) + 1>>})]
    /\ UNCHANGED <<checkpoint, call, calls>>

addNode(p) == commit(p, {<<p, Len(chain[p]) + 1>>}, {})

\* the remove of a builder whose snapshot is the cached state
removeNode(p) ==
    /\ cached[p] # None
    /\ LET observed == {d \in observedDots(cached[p]) : RemoveOthers \/ d[1] = p}
       IN  observed # {} /\ commit(p, {}, observed)

----------------------------------------------------------------------------
(* materialize().                                                          *)

newCall(kind, phase, todo) ==
    [kind |-> kind, phase |-> phase, todo |-> todo, frontier |-> NoTips,
     base |-> emptyCheckpoint, loaded |-> {}, state |-> emptyState,
     asked |-> NoTips]

materialize(p) ==
    /\ call[p] = None
    /\ calls < MaxCalls
    /\ calls' = calls + 1
    /\ call' = [call EXCEPT ![p] = newCall("materialize", "base", {})]
    /\ UNCHANGED <<chain, checkpoint, cached>>

\* A checkpoint whose objects are missing counts for none.
_loadLatestCheckpoint(p) ==
    /\ call[p] # None
    /\ call[p].phase = "base"
    /\ \E base \in {checkpoint, emptyCheckpoint} :
          call' = [call EXCEPT ![p].phase = "list", ![p].base = base, ![p].asked = tips]
    /\ UNCHANGED <<chain, checkpoint, cached, calls>>

\* discoverWriters
discoverWriters(p) ==
    /\ call[p] # None
    /\ call[p].phase = "list"
    /\ call' = [call EXCEPT ![p].phase = "load", ![p].todo = someWriters]
    /\ UNCHANGED <<chain, checkpoint, cached, calls>>

\* a mutant: the patch after the checkpoint's is skipped
sinceCheckpointLate(p, w) ==
    {w} \X ((call[p].base.frontier[w] + 2)..Len(chain[w]))

\* the patches of w after the frontier of the checkpoint
sinceCheckpoint(p, w) ==
    {w} \X ((call[p].base.frontier[w] + 1)..Len(chain[w]))

\* _loadPatchesSince, one writer: the chain is walked from its tip back to the
\* checkpoint's head, which the tip descends from
_loadPatchesSince(p, w) ==
    /\ call[p] # None
    /\ call[p].phase = "load"
    /\ isNext(w, call[p].todo)
    /\ call' = [call EXCEPT ![p].todo = @ \ {w},
                            ![p].loaded = @ \cup sinceCheckpoint(p, w)]
    /\ UNCHANGED <<chain, checkpoint, cached, calls>>

\* what the patches loaded make of the checkpoint's state
reduced(p) == applied(call[p].base.state, chain, call[p].loaded)

\* the cached state is replaced by a compacted one when the policy says so
_maybeRunGC(state) == {state, executeGC(state)}

\* reduceV5, _setMaterializedState and _maybeRunGC
install(p) ==
    /\ call[p] # None
    /\ call[p].phase = "load"
    /\ call[p].todo = {}
    /\ \E state \in _maybeRunGC(reduced(p)) :
          cached' = [cached EXCEPT ![p] = state]
    /\ call' = [call EXCEPT ![p] =
          IF @.kind = "materialize" THEN None
          ELSE [newCall(@.kind, "publish", {}) EXCEPT !.frontier = call[p].frontier,
                                                      !.state = reduced(p)]]
    /\ UNCHANGED <<chain, checkpoint, calls>>

\* runGC on the cached state
runGC(p) ==
    /\ cached[p] # None
    /\ cached' = [cached EXCEPT ![p] = executeGC(@)]
    /\ UNCHANGED <<chain, checkpoint, call, calls>>

----------------------------------------------------------------------------
(* createCheckpoint().                                                     *)

createCheckpoint(p) ==
    /\ call[p] = None
    /\ cached[p] # None => CheckpointCached
    /\ calls < MaxCalls
    /\ calls' = calls + 1
    /\ call' = [call EXCEPT ![p] = newCall("createCheckpoint", "frontier", someWriters)]
    /\ UNCHANGED <<chain, checkpoint, cached>>

\* the tip of the next writer
readTip(p, w) ==
    /\ call[p] # None
    /\ call[p].phase = "frontier"
    /\ isNext(w, call[p].todo)
    /\ call' = [call EXCEPT ![p].todo = @ \ {w}, ![p].frontier[w] = Len(chain[w])]
    /\ UNCHANGED <<chain, checkpoint, cached, calls>>

\* a cached state is taken as it is, otherwise materialize() is called
takeState(p) ==
    /\ call[p] # None
    /\ call[p].phase = "frontier"
    /\ call[p].todo = {}
    /\ call' = [call EXCEPT ![p] =
          IF cached[p] # None THEN [@ EXCEPT !.phase = "publish", !.state = cached[p]]
          ELSE [@ EXCEPT !.phase = "base"]]
    /\ UNCHANGED <<chain, checkpoint, cached, calls>>

\* a mutant: the frontier is that of the moment
checkpointOfNow(p) ==
    [frontier |-> tips, state |-> executeGC(call[p].state)]

\* createV5: the state is compacted and paired with the frontier read before
createV5(p) ==
    [frontier |-> call[p].frontier, state |-> executeGC(call[p].state)]

\* the checkpoint is written and the checkpoint ref moved to it
publish(p) ==
    /\ call[p] # None
    /\ call[p].phase = "publish"
    /\ checkpoint' = createV5(p)
    /\ call' = [call EXCEPT ![p] = None]
    /\ UNCHANGED <<chain, cached, calls>>

----------------------------------------------------------------------------
\* a Git call of the method fails, and the method throws
fail(p) ==
    /\ call[p] # None
    /\ call' = [call EXCEPT ![p] = None]
    /\ UNCHANGED <<chain, checkpoint, cached, calls>>

\* p ends, at any point; its successor holds nothing
restart(p) ==
    /\ cached' = [cached EXCEPT ![p] = None]
    /\ call' = [call EXCEPT ![p] = None]
    /\ UNCHANGED <<chain, checkpoint, calls>>

Next ==
    \E p \in Process :
        \/ addNode(p)
        \/ removeNode(p)
        \/ materialize(p)
        \/ _loadLatestCheckpoint(p)
        \/ discoverWriters(p)
        \/ \E w \in Writer : _loadPatchesSince(p, w)
        \/ install(p)
        \/ runGC(p)
        \/ createCheckpoint(p)
        \/ \E w \in Writer : readTip(p, w)
        \/ takeState(p)
        \/ publish(p)
        \/ fail(p)
        \/ restart(p)

Spec == Init /\ [][Next]_vars

----------------------------------------------------------------------------
(* Properties.                                                             *)

\* The state in a checkpoint was reduced from every patch up to the checkpoint's
\* frontier: a materialization that starts from it replays only later patches,
\* so an earlier one that is not in the state is lost for good
\* (checkpoint.methods.js createCheckpoint, _loadPatchesSince).
CheckpointCoversFrontier == upTo(checkpoint.frontier) \subseteq checkpoint.state.got

\* A materialization that has visited every writer holds all the patches that
\* were committed when it was called, whatever checkpoint it started from and
\* whoever publishes another meanwhile (materialize.methods.js materialize).
MaterializeMissesNothing ==
    \A p \in Process :
        /\ call[p] # None
        /\ call[p].phase = "load"
        /\ call[p].todo = {}
        => upTo(call[p].asked) \subseteq reduced(p).got

\* Compaction is invisible: however often the cached state and the checkpoints it
\* goes back to were compacted, a node is alive exactly when replaying its patches
\* from nothing makes it so.  Nothing that was removed comes back (ORSet.js
\* orsetCompact, GCPolicy.js executeGC, CheckpointService.js createV5).
CompactionIsInvisible == \A p \in Process : cached[p] # None => isReplay(cached[p], chain)

=============================================================================
