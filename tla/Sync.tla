-------------------------------- MODULE Sync --------------------------------
(***************************************************************************)
(* Sync between peers that each have a repository of their own             *)
(* (services/SyncController.js, SyncProtocol.js, SyncTrustGate.js): a      *)
(* syncWith() is a request, an answer, a trust decision and an             *)
(* application, with commits, fetches, materializations, garbage           *)
(* collection and restarts between them.                                   *)
(*                                                                         *)
(* Patches that arrive by sync are applied to the cached state and not     *)
(* written to the repository; git fetch, which is external, moves refs and *)
(* leaves the cached state alone.  getFrontier() reads the refs of one     *)
(* repository in one step, and materialize() is one step: module           *)
(* Checkpoint has its awaits.                                              *)
(***************************************************************************)
EXTENDS Chains, FiniteSets

CONSTANTS
    HasIsAncestor, \* whether the persistence adapter offers isAncestor()
    Client,        \* the peers that call syncWith()
    Trusted,       \* the writers that the trust evaluator trusts
    Retries,       \* how often an attempt is retried
    MaxPatches,    \* bound on the patches of all chains
    MaxSyncs       \* bound on the calls of syncWith()

ASSUME PeersAssumption ==
    HasIsAncestor \in BOOLEAN /\ Client \subseteq Writer /\ Trusted \subseteq Writer
ASSUME LimitsAssumption == {Retries, MaxPatches, MaxSyncs} \subseteq Nat

VARIABLES
    chain,     \* chain[w]: the patches of writer w
    refs,      \* refs[x][w]: the ref of writer w in the repository of peer x
    cached,    \* cached[x]: the cached state of peer x
    session,   \* session[x]: the syncWith() under way at peer x
    syncs      \* how many there have been

vars == <<chain, refs, cached, session, syncs>>

Peer == Writer

Mode == {"off", "enforce"}

Response == [frontier : Tips, patches : SUBSET PatchId]

noResponse == [frontier |-> NoTips, patches |-> {}]

\* An attempt reads the local frontier ("connecting"), has sent it ("sent"), has
\* the answer ("received"), is past the trust gate ("admitted"), has applied the
\* patches ("applied").  complete is a history field: whether the cached state
\* lacked nothing of the request's frontier when the request was built.
Session == [peer : Peer, mode : Mode, attempt : Nat,
            phase : {"connecting", "sent", "received", "admitted", "applied"},
            request : Tips, response : Response, complete : BOOLEAN]

Init ==
    /\ chain = [w \in Writer |-> << >>]
    /\ refs = [x \in Peer |-> NoTips]
    /\ cached = [x \in Peer |-> None]
    /\ session = [x \in Peer |-> None]
    /\ syncs = 0

----------------------------------------------------------------------------
(* What goes on around a sync.                                             *)

\* A commit lands in the repository of x, and _onPatchCommitted applies it to
\* the cached state, if there is one.
commit(x, adds, removes) ==
    /\ Cardinality(UNION {{w} \X DOMAIN chain[w] : w \in Writer}) < MaxPatches
    /\ chain' = [chain EXCEPT ![x] = Append(@, [adds |-> adds, removes |-> removes])]
    /\ refs' = [refs EXCEPT ![x][x] = @ + 1]
    /\ cached' = IF cached[x] = None THEN cached
                 ELSE [cached EXCEPT ![x] = applied(@, chain', {<<x, Len(chain[x]) + 1>>})]
    /\ UNCHANGED <<session, syncs>>

addNode(x) == commit(x, {<<x, Len(chain[x]) + 1>>}, {})

\* the remove of a builder whose snapshot is the cached state
removeNode(x) ==
    /\ cached[x] # None
    /\ observedDots(cached[x]) # {}
    /\ commit(x, {}, observedDots(cached[x]))

\* git fetch of the ref of w from its own repository
fetch(x, w) ==
    /\ refs[w][w] > refs[x][w]
    /\ refs' = [refs EXCEPT ![x][w] = refs[w][w]]
    /\ UNCHANGED <<chain, cached, session, syncs>>

\* the state that the refs of x are reduced to
reduceV5(x) == applied(emptyState, chain, upTo(refs[x]))

materialize(x) ==
    /\ cached' = [cached EXCEPT ![x] = reduceV5(x)]
    /\ UNCHANGED <<chain, refs, session, syncs>>

\* runGC on the cached state
runGC(x) ==
    /\ cached[x] # None
    /\ cached' = [cached EXCEPT ![x] = executeGC(@)]
    /\ UNCHANGED <<chain, refs, session, syncs>>

\* x ends, at any point; its successor holds nothing
restart(x) ==
    /\ cached' = [cached EXCEPT ![x] = None]
    /\ session' = [session EXCEPT ![x] = None]
    /\ UNCHANGED <<chain, refs, syncs>>

----------------------------------------------------------------------------
(* syncWith().                                                             *)

at(x, phase) == session[x] # None /\ session[x].phase = phase

connecting(y, mode, attempt) ==
    [peer |-> y, mode |-> mode, attempt |-> attempt, phase |-> "connecting",
     request |-> NoTips, response |-> noResponse, complete |-> FALSE]

syncWith(x, y, mode) ==
    /\ x \in Client
    /\ session[x] = None
    /\ x # y
    /\ syncs < MaxSyncs
    /\ session' = [session EXCEPT ![x] = connecting(y, mode, 1)]
    /\ syncs' = syncs + 1
    /\ UNCHANGED <<chain, refs, cached>>

createSyncRequest(x) ==
    /\ at(x, "connecting")
    /\ session' = [session EXCEPT ![x].phase = "sent", ![x].request = refs[x],
          ![x].complete = cached[x] = None \/ upTo(refs[x]) \subseteq cached[x].got]
    /\ UNCHANGED <<chain, refs, cached, syncs>>

\* a mutant: a writer that the requester does not know is left out
computeSyncDeltaKnown(local, remote) ==
    UNION {{w} \X ((local[w] + 1)..remote[w]) : w \in {v \in Writer : local[v] > 0}}

\* The patches that local needs from remote: all those of a new writer, those
\* after its own head of any other.  If local is ahead there are none to load.
computeSyncDelta(local, remote) == between(local, remote)

\* Writers whose head at the requester is unknown here: isAncestor() throws on
\* an object that is not in the repository; without it the walk does not meet
\* the head and the writer is skipped as divergent.
unknownHeads(request, frontier) ==
    {w \in Writer : frontier[w] > 0 /\ request[w] > frontier[w]}

\* processSyncRequest at the peer
processSyncRequest(x) ==
    LET frontier == refs[session[x].peer]
    IN  /\ at(x, "sent")
        /\ HasIsAncestor => unknownHeads(session[x].request, frontier) = {}
        /\ session' = [session EXCEPT ![x].phase = "received",
              ![x].response = [frontier |-> frontier,
                               patches |-> computeSyncDelta(session[x].request, frontier)]]
        /\ UNCHANGED <<chain, refs, cached, syncs>>

\* The answer finds no cached state, and materialize() is called first.
materializeFirst(x) ==
    /\ at(x, "received")
    /\ cached[x] = None
    /\ cached' = [cached EXCEPT ![x] = reduceV5(x)]
    /\ UNCHANGED <<chain, refs, session, syncs>>

extractWritersFromPatches(patches) == {g[1] : g \in patches}

\* a mutant: one trusted writer is enough
allowedIfAny(mode, writers) ==
    mode = "enforce" /\ writers # {} => writers \cap Trusted # {}

\* SyncTrustGate.evaluate: "log-only" admits what "off" admits
allowed(mode, writers) == mode = "enforce" => writers \subseteq Trusted

evaluate(x) ==
    /\ at(x, "received")
    /\ cached[x] # None
    /\ allowed(session[x].mode, extractWritersFromPatches(session[x].response.patches))
    /\ session' = [session EXCEPT ![x].phase = "admitted"]
    /\ UNCHANGED <<chain, refs, cached, syncs>>

\* The patches go to the cached state of the moment, which is never lost between
\* the gate and here but by a restart.
applySyncResponse(x) ==
    /\ at(x, "admitted")
    /\ cached' = [cached EXCEPT ![x] = applied(@, chain, session[x].response.patches)]
    /\ session' = [session EXCEPT ![x] =
          [connecting(@.peer, @.mode, @.attempt) EXCEPT !.phase = "applied"]]
    /\ UNCHANGED <<chain, refs, syncs>>

complete(x) ==
    /\ at(x, "applied")
    /\ session' = [session EXCEPT ![x] = None]
    /\ UNCHANGED <<chain, refs, cached, syncs>>

\* A network error, a timeout or an error of the peer: a new attempt is made
\* with a new request, and a late answer to the old one is not read.
retry(x) ==
    /\ at(x, "sent")
    /\ session[x].attempt <= Retries
    /\ session' = [session EXCEPT ![x] = connecting(@.peer, @.mode, @.attempt + 1)]
    /\ UNCHANGED <<chain, refs, cached, syncs>>

\* The last attempt failed, the answer is not valid, the gate rejects it or
\* fails, an operation in it is unknown, or the call was aborted.
fail(x) ==
    /\ session[x] # None
    /\ ~ at(x, "applied")
    /\ session' = [session EXCEPT ![x] = None]
    /\ UNCHANGED <<chain, refs, cached, syncs>>

advance(x) ==
    \/ createSyncRequest(x)
    \/ processSyncRequest(x)
    \/ materializeFirst(x)
    \/ evaluate(x)
    \/ applySyncResponse(x)
    \/ complete(x)
    \/ retry(x)
    \/ fail(x)

Next ==
    \E x \in Peer :
        \/ addNode(x)
        \/ removeNode(x)
        \/ \E w \in Writer : fetch(x, w)
        \/ materialize(x)
        \/ runGC(x)
        \/ restart(x)
        \/ \E y \in Peer, mode \in Mode : syncWith(x, y, mode)
        \/ advance(x)

Spec == Init /\ [][Next]_vars

----------------------------------------------------------------------------
(* Properties.                                                             *)

\* When a sync has applied its answer, the cached state holds every patch that
\* the peer had when it answered, provided it held its own repository's patches
\* when it asked (SyncProtocol.js computeSyncDelta, applySyncResponse): nothing
\* that goes on meanwhile opens a gap.
SyncDelivers ==
    [][\A x \in Peer :
          applySyncResponse(x) /\ session[x].complete
              => upTo(session[x].response.frontier) \subseteq cached'[x].got]_vars

\* A sync that enforces trust brings no patch of an untrusted writer into the
\* cached state that is not in the repository anyway (SyncTrustGate.js).
UntrustedStaysOut ==
    [][\A x \in Peer :
          applySyncResponse(x) /\ session[x].mode = "enforce"
              => \A g \in cached'[x].got \ cached[x].got : g[1] \in Trusted]_vars

\* No sync and no compaction makes a node disappear: what a patch of the cached
\* state adds and none of its patches removes is alive (ORSet.js orsetCompact:
\* "Live dots must never be compacted").
LiveDotsStay ==
    \A x \in Peer :
        cached[x] # None
            => addsOf(chain, cached[x].got) \ removesOf(chain, cached[x].got)
                  \subseteq observedDots(cached[x])

\* Nothing that was removed comes back: after any syncs, repeated or late, and
\* any compactions, a dot that a patch of the cached state removes is not alive
\* (GUIDE.md: "GC never removes information that an unsynced writer might still
\* need"; ORSet.js: "only compact dots that ALL replicas have observed").
NothingComesBack ==
    \A x \in Peer :
        cached[x] # None
            => observedDots(cached[x]) \cap removesOf(chain, cached[x].got) = {}

=============================================================================
