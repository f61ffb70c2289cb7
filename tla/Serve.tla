------------------------------- MODULE Serve -------------------------------
(***************************************************************************)
(* WarpServeService: WebSocket sessions that share one graph instance.     *)
(* Clients open the graph, mutate, inspect and seek; the server answers    *)
(* each request and pushes the diffs that the instance notifies.  Handlers *)
(* of different requests interleave at their awaits.                       *)
(*                                                                         *)
(* Patches are numbers, in the order of their lamports; a state is a set   *)
(* of patches.  What a client sees is the last state that it was sent for  *)
(* open, with the diffs pushed since.                                      *)
(***************************************************************************)
EXTENDS Integers, FiniteSets

CONSTANTS
    Client,
    MaxPatches,       \* bound on the patches, of the server and of others
    MaxRequests,      \* bound on the requests
    OverlapMutates,   \* may a mutate begin while another is under way
    Seeks,            \* the ceilings that clients seek to
    ReplyGap          \* may handlers run between a materialization and its reply

VARIABLES
    chain,     \* the patches behind the refs
    made,      \* how many patches were made
    acknowledged,     \* the patches whose mutate was acknowledged
    shared,    \* the graph instance: [has, dirty, state, notified]
    session,   \* session[c]: [up, open, view]
    request,   \* request[c]: the request of c under way, or noRequest
    requests   \* how many requests there were

serveVars == <<chain, made, acknowledged, shared, session, request, requests>>

noRequest == [phase |-> "idle", kind |-> "none", ceiling |-> 0, got |-> {}, live |-> FALSE, patch |-> 0]
noSession == [up |-> FALSE, open |-> FALSE, view |-> {}]

ServeInit ==
    /\ chain = {} /\ made = 0 /\ acknowledged = {} /\ requests = 0
    /\ shared = [has |-> FALSE, dirty |-> FALSE, state |-> {}, notified |-> {}]
    /\ session = [c \in Client |-> noSession]
    /\ request = [c \in Client |-> noRequest]

_onConnection(c) ==
    /\ ~session[c].up /\ request[c] = noRequest
    /\ session' = [session EXCEPT ![c] = [noSession EXCEPT !.up = TRUE]]
    /\ UNCHANGED <<chain, made, acknowledged, shared, request, requests>>

\* the session is evicted; its requests run on without a reader
onClose(c) ==
    /\ session[c].up /\ session' = [session EXCEPT ![c] = noSession]
    /\ UNCHANGED <<chain, made, acknowledged, shared, request, requests>>

\* a patch of another writer
commitOutside ==
    /\ made < MaxPatches /\ made' = made + 1 /\ chain' = chain \cup {made + 1}
    /\ UNCHANGED <<acknowledged, shared, session, request, requests>>

----------------------------------------------------------------------------
(* Requests.                                                               *)

mutating == {c \in Client : request[c].phase \in {"create", "commit", "update"}}

\* _onMessage up to the first await.  Everything but open needs the graph to
\* be open in the session; a mutate is validated as a whole: errors change
\* nothing but the client's answer.
_onMessage(c) ==
    /\ session[c].up /\ request[c] = noRequest /\ requests < MaxRequests
    /\ requests' = requests + 1
    /\ \/ request' = [request EXCEPT ![c] = [noRequest EXCEPT !.phase = "read", !.kind = "open"]]
       \/ /\ session[c].open
          /\ \/ /\ OverlapMutates \/ mutating = {}
                /\ request' = [request EXCEPT ![c] = [noRequest EXCEPT !.phase = "create", !.kind = "mutate"]]
             \/ \E s \in Seeks :
                  request' = [request EXCEPT ![c] =
                                [noRequest EXCEPT !.phase = "read", !.kind = "seek", !.ceiling = s]]
             \/ request' = [request EXCEPT ![c] = [noRequest EXCEPT !.phase = "inspect", !.kind = "inspect"]]
    /\ UNCHANGED <<chain, made, acknowledged, shared, session>>

\* materialize reads the refs
readChain(c) ==
    /\ request[c].phase = "read"
    /\ request' = [request EXCEPT ![c].phase = "install",
                                  ![c].got = IF request[c].kind = "seek"
                                             THEN {p \in chain : p <= request[c].ceiling} ELSE chain]
    /\ UNCHANGED <<chain, made, acknowledged, shared, session, requests>>

\* a mutant: what is gone is not pushed
pushAdded(diff, ss) ==
    [c \in Client |-> IF ss[c].up /\ ss[c].open THEN [ss[c] EXCEPT !.view = @ \cup diff.added] ELSE ss[c]]

_broadcastDiff(diff, ss) ==
    [c \in Client |-> IF ss[c].up /\ ss[c].open
                      THEN [ss[c] EXCEPT !.view = (@ \ diff.removed) \cup diff.added]
                      ELSE ss[c]]

diffStates(before, after) == [added |-> after \ before, removed |-> before \ after]

\* _handleOpen once the graph is materialized, with the state as it is by now:
\* the session follows from here on
replyOpen(c, state, ss) ==
    IF ss[c].up THEN [ss EXCEPT ![c].open = TRUE, ![c].view = state] ELSE ss

\* the end of materialize: the state is installed, subscribers are notified,
\* the caller resumes.  A ceiling installs its state without notification.
installRead(c) ==
    /\ request[c].phase = "install"
    /\ LET r == request[c]
           pushed == IF r.kind = "seek" THEN session
                     ELSE _broadcastDiff(diffStates(shared.notified, r.got), session)
           cut == [x \in Client |-> [request[x] EXCEPT !.live = FALSE]]
       IN  /\ shared' = [has |-> TRUE, dirty |-> FALSE, state |-> r.got,
                         notified |-> IF r.kind = "seek" THEN shared.notified ELSE r.got]
           /\ IF ReplyGap /\ r.kind = "open"
              THEN /\ session' = pushed
                   /\ request' = [cut EXCEPT ![c] = [r EXCEPT !.phase = "reply", !.live = TRUE]]
              ELSE /\ session' = IF r.kind = "open" THEN replyOpen(c, r.got, pushed) ELSE pushed
                   /\ request' = [cut EXCEPT ![c] = noRequest]
    /\ UNCHANGED <<chain, made, acknowledged, requests>>

reply(c) ==
    /\ request[c].phase = "reply"
    /\ session' = replyOpen(c, request[c].got, session)
    /\ request' = [request EXCEPT ![c] = noRequest]
    /\ UNCHANGED <<chain, made, acknowledged, shared, requests>>

\* E_MATERIALIZE_FAILED, E_SEEK_FAILED
failRead(c) ==
    /\ request[c].phase = "read" /\ request' = [request EXCEPT ![c] = noRequest]
    /\ UNCHANGED <<chain, made, acknowledged, shared, session, requests>>

\* inspect reads the cached state, and materializes first if there is none that
\* is clean
_handleInspect(c) ==
    /\ request[c].phase = "inspect"
    /\ request' = [request EXCEPT ![c] = IF shared.has /\ ~shared.dirty THEN noRequest
                                         ELSE [@ EXCEPT !.phase = "read"]]
    /\ UNCHANGED <<chain, made, acknowledged, shared, session, requests>>

----------------------------------------------------------------------------
(* mutate: the chain of the instance's writer.  A patch of others never    *)
(* moves it; another mutate does.                                          *)

\* createPatch remembers the tip; got is the writer's chain it builds on
createPatch(c) ==
    /\ request[c].phase = "create" /\ made < MaxPatches /\ made' = made + 1
    /\ request' = [request EXCEPT ![c].phase = "commit", ![c].patch = made + 1, ![c].got = acknowledged]
    /\ UNCHANGED <<chain, acknowledged, shared, session, requests>>

\* commit: the ref is compared with the remembered tip
compareTip(c) ==
    /\ request[c].phase = "commit"
    /\ request' = [request EXCEPT ![c] = IF @.got = acknowledged THEN [@ EXCEPT !.phase = "update"] ELSE noRequest]
    /\ UNCHANGED <<chain, made, acknowledged, shared, session, requests>>

\* _onPatchCommitted: a clean state takes the patch, whoever holds the object
_onPatchCommitted(p) ==
    IF shared.has /\ ~shared.dirty THEN [shared EXCEPT !.state = @ \cup {p}]
    ELSE [shared EXCEPT !.dirty = TRUE]

\* updateRef, onCommitSuccess and the ack
updateRef(c) ==
    /\ request[c].phase = "update"
    /\ LET p == request[c].patch
           lost == acknowledged \ request[c].got
       IN  /\ chain' = (chain \ lost) \cup {p}
           /\ acknowledged' = acknowledged \cup {p}
           /\ shared' = _onPatchCommitted(p)
           /\ request' = [x \in Client |->
                IF x = c THEN noRequest
                ELSE IF request[x].live /\ shared.has /\ ~shared.dirty
                     THEN [request[x] EXCEPT !.got = @ \cup {p}] ELSE request[x]]
    /\ UNCHANGED <<made, session, requests>>

\* E_MUTATE_FAILED
failMutate(c) ==
    /\ request[c].phase \in {"create", "commit", "update"}
    /\ request' = [request EXCEPT ![c] = noRequest]
    /\ UNCHANGED <<chain, made, acknowledged, shared, session, requests>>

----------------------------------------------------------------------------

\* what the server does of itself
serverStep(c) ==
    \/ readChain(c) \/ installRead(c) \/ reply(c) \/ _handleInspect(c)
    \/ createPatch(c) \/ compareTip(c) \/ updateRef(c)

ServeNext ==
    \/ commitOutside
    \/ \E c \in Client : \/ _onConnection(c) \/ onClose(c) \/ _onMessage(c) \/ failRead(c)
                         \/ failMutate(c) \/ serverStep(c)

----------------------------------------------------------------------------
(* Properties.                                                             *)

\* A client that has the graph open has, from its first state and the diffs
\* pushed since, just what the instance notified last, although materializations
\* overlap, end out of order and take patches back, and clients come and go; an
\* acknowledged patch stays behind the refs (_handleOpen, _broadcastDiff,
\* _applyMutateOps)
ClientsFollowTheGraph ==
    /\ \A c \in Client : session[c].open => /\ session[c].view = shared.notified
                                             /\ session[c].view \subseteq chain
    /\ acknowledged \subseteq chain
=============================================================================
