--------------------------- MODULE ServicesProofs ---------------------------
(***************************************************************************)
(* What the services around the graph promise, for any number of clients,  *)
(* handlers, admins and requests: a server that enforces authentication    *)
(* answers only what it may and answers it once (SyncTransport), the       *)
(* WebSocket clients follow the graph (Serve), the chain of trust records  *)
(* verifies and loses nothing (TrustLedger), so does the chain of audit    *)
(* receipts (AuditLog), a seek shows the graph as of its ceiling (Seek),   *)
(* bisection finds a boundary in logarithmically many turns (Bisect), and  *)
(* the forks of a graph are isolated (Fork).                               *)
(***************************************************************************)
EXTENDS SyncTransport, Serve, TrustLedger, AuditLog, Seek, Bisect, Fork,
        FiniteSetTheorems, FunctionTheorems, SequenceTheorems, WellFoundedInduction, TLAPS

----------------------------------------------------------------------------
(* Sequences.                                                              *)

\* An appended sequence, element by element.
LEMMA Appended ==
    ASSUME NEW S, NEW s \in Seq(S), NEW e \in S
    PROVE  /\ Append(s, e) \in Seq(S)
           /\ Len(s) \in Nat /\ Len(Append(s, e)) = Len(s) + 1
           /\ \A i \in 1..Len(s) : s[i] \in S /\ Append(s, e)[i] = s[i]
           /\ Append(s, e)[Len(s) + 1] = e
  BY AppendProperties, LenProperties, ElementOfSeq

----------------------------------------------------------------------------
(* SyncTransport.                                                          *)

SyncRequest ==
    [nonce : Nonce, timestamp : Int, frontier : {x.frontier : x \in Shape}, defect : syncDefects]

Answer == [request : SyncRequest, auth : BOOLEAN, at : Int]

TransportTypeOK ==
    /\ clock \in Int
    /\ sent \in SUBSET SyncRequest
    /\ handling \in [Handler -> Seq(SyncRequest)]
    /\ nonceCache \in Seq(Nonce)
    /\ served \in Seq(Answer)

\* the nonce is in the cache, or was dropped from it
inMemory(n, kept, gone) == n \in gone \/ \E i \in 1..Len(kept) : kept[i] = n
remembered(n) == inMemory(n, nonceCache, evicted)

\* a request whose signature is being checked has passed the checks before
handlingInv ==
    \A h \in Handler : handling[h] # << >> => handling[h][1].defect \in {"none", "signature"}

admitted(r) == r.defect = "none" /\ r.frontier \subseteq allowedWriters

servedInv ==
    authMode = "enforce" =>
      \A i \in 1..Len(served) : admitted(served[i].request) /\ remembered(served[i].request.nonce)

onceInv ==
    authMode = "enforce" =>
      \A i, j \in 1..Len(served) :
        served[i].request.nonce = served[j].request.nonce /\ i # j =>
          served[i].request.nonce \in evicted

TransportInv == TransportTypeOK /\ handlingInv /\ servedInv /\ onceInv

TransportSpec == TransportInit /\ [][TransportNext]_transportVars

\* A nonce that is reserved is remembered, and no other is forgotten.
LEMMA Reserved ==
    ASSUME TransportTypeOK, NEW n \in Nonce, nonceIsNew(n), reserve(n)
    PROVE  /\ nonceCache' \in Seq(Nonce) /\ evicted \subseteq evicted'
           /\ inMemory(n, nonceCache', evicted')
           /\ \A m : remembered(m) => inMemory(m, nonceCache', evicted')
  <1> DEFINE all == Append(nonceCache, n)
  <1>1. lruDelete(nonceCache, n) = nonceCache
    BY DEF lruDelete, nonceIsNew
  <1>2. /\ nonceCache' = IF Len(all) > nonceCapacity THEN Tail(all) ELSE all
        /\ evicted' = IF Len(all) > nonceCapacity THEN evicted \cup {Head(all)} ELSE evicted
    BY <1>1 DEF reserve
  <1>3. /\ all \in Seq(Nonce) /\ all # << >> /\ Len(all) \in Nat /\ Len(all) >= 1
        /\ \E i \in 1..Len(all) : all[i] = n
        /\ \A i \in 1..Len(nonceCache) : i \in 1..Len(all) /\ all[i] = nonceCache[i]
    <2>1. nonceCache \in Seq(Nonce)
      BY DEF TransportTypeOK
    <2>2. /\ all \in Seq(Nonce) /\ Len(nonceCache) \in Nat /\ Len(all) = Len(nonceCache) + 1
          /\ \A i \in 1..Len(nonceCache) : all[i] = nonceCache[i]
          /\ all[Len(nonceCache) + 1] = n
      BY <2>1, Appended
    <2> HIDE DEF all
    <2> QED
      BY <2>2
  <1> HIDE DEF all
  <1>4. /\ Tail(all) \in Seq(Nonce) /\ Head(all) = all[1] /\ Len(Tail(all)) = Len(all) - 1
        /\ \A i \in 1..Len(Tail(all)) : Tail(all)[i] = all[i + 1]
    BY <1>3, HeadTailProperties
  <1>5. ASSUME NEW i \in 1..Len(all)
        PROVE  inMemory(all[i], nonceCache', evicted')
    <2>1. CASE ~(Len(all) > nonceCapacity)
      BY <1>2, <1>5, <2>1 DEF remembered, inMemory
    <2>2. CASE Len(all) > nonceCapacity /\ i = 1
      BY <1>2, <1>4, <2>2 DEF remembered, inMemory
    <2>3. CASE Len(all) > nonceCapacity /\ i # 1
      <3>1. i - 1 \in 1..Len(Tail(all)) /\ Tail(all)[i - 1] = all[i]
        BY <1>3, <1>4, <1>5, <2>3
      <3> QED
        BY <1>2, <2>3, <3>1 DEF remembered, inMemory
    <2> QED
      BY <2>1, <2>2, <2>3
  <1>6. nonceCache' \in Seq(Nonce) /\ evicted \subseteq evicted'
    BY <1>2, <1>3, <1>4
  <1> QED
    BY <1>3, <1>5, <1>6 DEF remembered, inMemory

\* A request that is answered in the mode "enforce" was authenticated.
LEMMA Answered ==
    ASSUME TransportTypeOK, NEW r \in SyncRequest, NEW ok \in BOOLEAN, answer(r, ok)
    PROVE  /\ served' \in Seq(Answer)
           /\ \/ served' = served
              \/ /\ authMode = "enforce" => ok /\ r.frontier \subseteq allowedWriters
                 /\ Len(served) \in Nat /\ Len(served') = Len(served) + 1
                 /\ \A i \in 1..Len(served) : served'[i] = served[i]
                 /\ served'[Len(served) + 1].request = r
  <1> DEFINE new == [request |-> r, auth |-> ok, at |-> clock]
  <1>1. served \in Seq(Answer) /\ new \in Answer /\ new.request = r
    BY DEF TransportTypeOK, Answer
  <1>2. \/ served' = served
        \/ /\ served' = Append(served, new)
           /\ authMode = "enforce" => ok /\ r.frontier \subseteq allowedWriters
    BY DEF answer, verifyWriters
  <1> HIDE DEF new
  <1> QED
    BY <1>1, <1>2, Appended

LEMMA SignKeeps ==
    ASSUME TransportInv, signSyncRequest
    PROVE  TransportInv'
  <1>1. PICK n \in Nonce, x \in Shape :
          sent' = sent \cup {[nonce |-> n, timestamp |-> clock + x.offset,
                             frontier |-> x.frontier, defect |-> x.defect]}
    BY DEF signSyncRequest
  <1>2. clock + x.offset \in Int /\ x.defect \in syncDefects
    BY ShapeAssumption DEF TransportInv, TransportTypeOK
  <1>3. [nonce |-> n, timestamp |-> clock + x.offset, frontier |-> x.frontier,
         defect |-> x.defect] \in SyncRequest
    BY <1>2 DEF SyncRequest
  <1> QED
    BY <1>1, <1>3 DEF signSyncRequest, TransportInv, TransportTypeOK, handlingInv, servedInv,
                      onceInv, remembered, inMemory

\* A step that answers r and forgets no nonce keeps what is known of the
\* answers, if r may be answered, is remembered after it and, unless its nonce
\* was dropped, was not before.
LEMMA AnswerKeeps ==
    ASSUME TransportInv, NEW r \in SyncRequest, NEW ok \in BOOLEAN, answer(r, ok),
           authMode' = authMode,
           evicted \subseteq evicted', \A m : remembered(m) => inMemory(m, nonceCache', evicted'),
           authMode = "enforce" /\ ok =>
             /\ r.defect = "none" /\ inMemory(r.nonce, nonceCache', evicted')
             /\ remembered(r.nonce) => r.nonce \in evicted
    PROVE  served' \in Seq(Answer) /\ servedInv' /\ onceInv'
  <1> DEFINE N == Len(served)
  <1>1. TransportTypeOK /\ servedInv /\ onceInv
    BY DEF TransportInv
  <1>2. /\ served' \in Seq(Answer)
        /\ \/ served' = served
           \/ /\ authMode = "enforce" => ok /\ r.frontier \subseteq allowedWriters
              /\ N \in Nat /\ Len(served') = N + 1
              /\ \A i \in 1..N : served'[i] = served[i]
              /\ served'[N + 1].request = r
    BY <1>1, Answered
  <1>3. CASE served' = served
    <2>1. \A i \in 1..Len(served) : remembered(served[i].request.nonce) =>
             inMemory(served[i].request.nonce, nonceCache', evicted')
      OBVIOUS
    <2>2. servedInv'
      BY <1>1, <1>3, <2>1 DEF servedInv, remembered
    <2>3. onceInv'
      BY <1>1, <1>3 DEF onceInv
    <2> QED
      BY <1>2, <2>2, <2>3
  <1>4. CASE served' # served
    <2>1. /\ authMode = "enforce" => ok /\ r.frontier \subseteq allowedWriters
          /\ N \in Nat /\ Len(served') = N + 1
          /\ \A i \in 1..N : served'[i] = served[i]
          /\ served'[N + 1].request = r
      BY <1>2, <1>4
    <2> HIDE DEF N
    <2>2. servedInv'
      <3> SUFFICES ASSUME authMode = "enforce", NEW i \in 1..(N + 1)
                   PROVE  admitted(served'[i].request) /\ inMemory(served'[i].request.nonce, nonceCache', evicted')
        BY <2>1 DEF servedInv, remembered
      <3>1. CASE i \in 1..N
        BY <1>1, <2>1, <3>1 DEF servedInv, N
      <3>2. CASE i = N + 1
        BY <2>1, <3>2 DEF admitted
      <3> QED
        BY <2>1, <3>1, <3>2
    <2>3. onceInv'
      <3> SUFFICES ASSUME authMode = "enforce", NEW i \in 1..(N + 1), NEW j \in 1..(N + 1),
                          served'[i].request.nonce = served'[j].request.nonce, i # j
                   PROVE  served'[i].request.nonce \in evicted'
        BY <2>1 DEF onceInv
      <3>0. \A k \in 1..N : remembered(served[k].request.nonce)
        BY <1>1 DEF servedInv, N
      <3>1. CASE i \in 1..N /\ j \in 1..N
        BY <1>1, <2>1, <3>1 DEF onceInv, N
      <3>2. CASE i = N + 1 /\ j \in 1..N
        BY <2>1, <3>0, <3>2
      <3>3. CASE j = N + 1 /\ i \in 1..N
        BY <2>1, <3>0, <3>3
      <3> QED
        BY <2>1, <3>1, <3>2, <3>3
    <2> QED
      BY <1>2, <2>2, <2>3
  <1> QED
    BY <1>3, <1>4

LEMMA HandleKeeps ==
    ASSUME TransportInv, NEW h \in Handler, NEW r \in sent, _handleRequest(h, r)
    PROVE  TransportInv'
  <1>1. r \in SyncRequest /\ TransportTypeOK
    BY DEF TransportInv, TransportTypeOK
  <1>2. /\ UNCHANGED <<clock, authMode, sent, nonceCache, evicted>>
        /\ \/ UNCHANGED <<handling, served>>
           \/ /\ r.defect \notin requestErrors /\ _validateHeaders(r) /\ _resolveKey(r)
              /\ handling' = [handling EXCEPT ![h] = <<r>>] /\ UNCHANGED served
           \/ answer(r, FALSE) /\ UNCHANGED handling
    BY DEF _handleRequest
  <1>3. CASE UNCHANGED <<handling, served>>
    BY <1>2, <1>3 DEF TransportInv, TransportTypeOK, handlingInv, servedInv, onceInv, remembered, inMemory
  <1>4. CASE /\ r.defect \notin requestErrors /\ _validateHeaders(r) /\ _resolveKey(r)
             /\ handling' = [handling EXCEPT ![h] = <<r>>] /\ UNCHANGED served
    <2>1. r.defect \in syncDefects
      BY <1>1 DEF SyncRequest
    <2>2. r.defect \in {"none", "signature"}
      BY <1>4, <2>1 DEF syncDefects, requestErrors, _validateHeaders, _resolveKey
    <2>3. <<r>> \in Seq(SyncRequest) /\ <<r>>[1] = r
      BY <1>1
    <2>4. handling' \in [Handler -> Seq(SyncRequest)] /\ handlingInv'
      BY <1>1, <1>4, <2>2, <2>3 DEF TransportInv, TransportTypeOK, handlingInv
    <2> QED
      BY <1>2, <1>4, <2>4 DEF TransportInv, TransportTypeOK, servedInv, onceInv, remembered, inMemory
  <1>5. CASE answer(r, FALSE) /\ UNCHANGED handling
    <2>1. evicted \subseteq evicted' /\ \A m : remembered(m) => inMemory(m, nonceCache', evicted')
      BY <1>2 DEF remembered, inMemory
    <2>2. served' \in Seq(Answer) /\ servedInv' /\ onceInv'
      BY <1>1, <1>2, <1>5, <2>1, AnswerKeeps
    <2> QED
      BY <1>2, <1>5, <2>2 DEF TransportInv, TransportTypeOK, handlingInv
  <1> QED
    BY <1>2, <1>3, <1>4, <1>5

LEMMA VerifyKeeps ==
    ASSUME TransportInv, NEW h \in Handler, verify(h)
    PROVE  TransportInv'
  <1> DEFINE r == handling[h][1]
             ok == _verifySignature(r) /\ nonceIsNew(r.nonce)
  <1>1. TransportTypeOK /\ handlingInv
    BY DEF TransportInv
  <1>2. /\ handling[h] # << >> /\ UNCHANGED <<clock, authMode, sent>>
        /\ IF ok THEN reserve(r.nonce) ELSE UNCHANGED <<nonceCache, evicted>>
        /\ answer(r, ok)
        /\ handling' = [handling EXCEPT ![h] = << >>]
    BY DEF verify
  <1>3. r \in SyncRequest /\ r.defect \in {"none", "signature"}
    <2>1. handling[h] \in Seq(SyncRequest)
      BY <1>1 DEF TransportTypeOK
    <2> QED
      BY <1>1, <1>2, <2>1 DEF handlingInv
  <1>4. r.nonce \in Nonce
    BY <1>3 DEF SyncRequest
  <1>5. handling' \in [Handler -> Seq(SyncRequest)] /\ handlingInv'
    BY <1>1, <1>2 DEF TransportTypeOK, handlingInv
  <1> HIDE DEF r
  <1>6. ASSUME ok
        PROVE  r.defect = "none" /\ (remembered(r.nonce) => r.nonce \in evicted)
    BY <1>3, <1>6 DEF _verifySignature, nonceIsNew, remembered, inMemory
  <1>7. /\ nonceCache' \in Seq(Nonce) /\ evicted \subseteq evicted'
        /\ \A m : remembered(m) => inMemory(m, nonceCache', evicted')
        /\ ok => inMemory(r.nonce, nonceCache', evicted')
    <2>1. CASE ok
      BY <1>1, <1>2, <1>4, <2>1, Reserved
    <2>2. CASE ~ok
      BY <1>1, <1>2, <2>2 DEF TransportTypeOK, remembered, inMemory
    <2> QED
      BY <2>1, <2>2
  <1>8. ok \in BOOLEAN
    BY DEF _verifySignature, nonceIsNew
  <1> HIDE DEF ok
  <1>9. served' \in Seq(Answer) /\ servedInv' /\ onceInv'
    BY <1>2, <1>3, <1>6, <1>7, <1>8, AnswerKeeps
  <1> QED
    BY <1>1, <1>2, <1>5, <1>7, <1>9 DEF TransportInv, TransportTypeOK

\* A server that enforces authentication answers only requests that it may,
\* and each of them once unless its nonce was dropped: for any clients,
\* handlers and requests, and whatever the capacity of the nonce cache.
THEOREM ServedAlwaysAdmitted == TransportSpec => []ServedRequestsWereAdmitted
  <1>1. TransportInit => TransportInv
    BY EmptySeq DEF TransportInit, TransportInv, TransportTypeOK, handlingInv, servedInv, onceInv
  <1>2. TransportInv /\ [TransportNext]_transportVars => TransportInv'
    <2> SUFFICES ASSUME TransportInv, [TransportNext]_transportVars
                 PROVE  TransportInv'
      OBVIOUS
    <2>1. CASE passTime
      <3>1. clock' \in Int
        BY <2>1 DEF passTime, TransportInv, TransportTypeOK
      <3> QED
        BY <2>1, <3>1 DEF passTime, TransportInv, TransportTypeOK, handlingInv, servedInv, onceInv,
                          remembered
    <2>2. CASE UNCHANGED transportVars
      BY <2>2 DEF transportVars, TransportInv, TransportTypeOK, handlingInv, servedInv, onceInv,
                  remembered, inMemory
    <2> QED
      BY <2>1, <2>2, SignKeeps, HandleKeeps, VerifyKeeps DEF TransportNext
  <1>3. TransportInv => ServedRequestsWereAdmitted
    BY DEF TransportInv, servedInv, onceInv, admitted, ServedRequestsWereAdmitted
  <1> QED
    BY <1>1, <1>2, <1>3, PTL DEF TransportSpec

----------------------------------------------------------------------------
(* Serve, where one mutate runs at a time and an open is answered at once. *)

Phase == {"idle", "read", "install", "inspect", "create", "commit", "update", "reply"}
MutatePhase == {"create", "commit", "update"}

ServeRequest ==
    [phase : Phase, kind : {"none", "open", "mutate", "seek", "inspect"}, ceiling : Seeks \cup {0},
     got : SUBSET Nat, live : BOOLEAN, patch : Nat]

Session == [up : BOOLEAN, open : BOOLEAN, view : SUBSET Nat]

SharedGraph == [has : BOOLEAN, dirty : BOOLEAN, state : SUBSET Nat, notified : SUBSET Nat]

ServeTypeOK ==
    /\ chain \in SUBSET Nat /\ made \in Nat /\ acknowledged \in SUBSET Nat
    /\ shared \in SharedGraph
    /\ session \in [Client -> Session]
    /\ request \in [Client -> ServeRequest]

\* an open session follows what was notified
sessionInv ==
    \A c \in Client : session[c].open => session[c].up /\ session[c].view = shared.notified

\* what was read to be installed, and what was notified, is behind the refs
readInv ==
    /\ shared.notified \subseteq chain
    /\ \A c \in Client : request[c].phase = "install" => request[c].got \subseteq chain

\* one mutate at a time, whose comparison with the tip still holds
mutateInv ==
    /\ acknowledged \subseteq chain
    /\ \A c, d \in Client :
         request[c].phase \in MutatePhase /\ request[d].phase \in MutatePhase => c = d
    /\ \A c \in Client : request[c].phase = "update" => request[c].got = acknowledged

\* no open waits for its reply
replyInv == \A c \in Client : request[c].phase # "reply" /\ ~request[c].live

ServeInv == ServeTypeOK /\ sessionInv /\ readInv /\ mutateInv /\ replyInv

ServeSpec == ServeInit /\ [][ServeNext]_serveVars

LEMMA NoRequestType ==
    /\ noRequest \in ServeRequest /\ noRequest.phase = "idle" /\ ~noRequest.live
    /\ noSession \in Session /\ ~noSession.open
  BY DEF noRequest, ServeRequest, Phase, noSession, Session

\* A step that changes the request of one client and nothing else, and begins
\* no mutate while another is under way.
LEMMA RequestKeeps ==
    ASSUME ServeInv, NEW c \in Client, NEW q \in ServeRequest,
           request' = [request EXCEPT ![c] = q],
           UNCHANGED <<chain, acknowledged, shared, session>>, made' \in Nat,
           q.phase # "reply", ~q.live,
           q.phase = "install" => q.got \subseteq chain,
           q.phase = "update" => q.got = acknowledged,
           q.phase \in MutatePhase =>
             \A d \in Client : request[d].phase \in MutatePhase => d = c
    PROVE  ServeInv'
  <1>1. /\ request \in [Client -> ServeRequest]
        /\ \A d \in Client : request'[d] = IF d = c THEN q ELSE request[d]
    BY DEF ServeInv, ServeTypeOK
  <1>2. ServeTypeOK'
    BY <1>1 DEF ServeInv, ServeTypeOK
  <1>3. sessionInv'
    BY DEF ServeInv, sessionInv
  <1>4. readInv'
    BY <1>1 DEF ServeInv, readInv
  <1>5. mutateInv'
    <2>1. \A d, e \in Client :
            request'[d].phase \in MutatePhase /\ request'[e].phase \in MutatePhase => d = e
      BY <1>1 DEF ServeInv, mutateInv
    <2>2. \A d \in Client : request'[d].phase = "update" => request'[d].got = acknowledged
      BY <1>1 DEF ServeInv, mutateInv
    <2> QED
      BY <2>1, <2>2 DEF ServeInv, mutateInv
  <1>6. replyInv'
    BY <1>1 DEF ServeInv, replyInv
  <1> QED
    BY <1>2, <1>3, <1>4, <1>5, <1>6 DEF ServeInv

\* A session that is opened anew, or closed.
LEMMA SessionKeeps ==
    ASSUME ServeInv, NEW c \in Client, NEW s \in Session, ~s.open,
           session' = [session EXCEPT ![c] = s],
           UNCHANGED <<chain, made, acknowledged, shared, request>>
    PROVE  ServeInv'
  <1>1. /\ session \in [Client -> Session]
        /\ \A d \in Client : session'[d] = IF d = c THEN s ELSE session[d]
    BY DEF ServeInv, ServeTypeOK
  <1>2. ServeTypeOK'
    BY <1>1 DEF ServeInv, ServeTypeOK
  <1>3. sessionInv'
    BY <1>1 DEF ServeInv, sessionInv
  <1> QED
    BY <1>2, <1>3 DEF ServeInv, readInv, mutateInv, replyInv

LEMMA MessageKeeps ==
    ASSUME ~OverlapMutates, ServeInv, NEW c \in Client, _onMessage(c)
    PROVE  ServeInv'
  <1>1. UNCHANGED <<chain, made, acknowledged, shared, session>> /\ made \in Nat
    BY DEF _onMessage, ServeInv, ServeTypeOK
  <1>2. PICK q : /\ request' = [request EXCEPT ![c] = q]
                 /\ \/ q = [noRequest EXCEPT !.phase = "read", !.kind = "open"]
                    \/ mutating = {} /\ q = [noRequest EXCEPT !.phase = "create", !.kind = "mutate"]
                    \/ \E s \in Seeks : q = [noRequest EXCEPT !.phase = "read", !.kind = "seek", !.ceiling = s]
                    \/ q = [noRequest EXCEPT !.phase = "inspect", !.kind = "inspect"]
    BY Zenon DEF _onMessage
  <1>3. q \in ServeRequest /\ ~q.live /\ q.phase \in {"read", "create", "inspect"}
    <2>1. noRequest \in ServeRequest /\ ~noRequest.live
      BY NoRequestType
    <2>2. ASSUME NEW s \in Seeks, q = [noRequest EXCEPT !.phase = "read", !.kind = "seek", !.ceiling = s]
          PROVE  q \in ServeRequest /\ ~q.live /\ q.phase = "read"
      BY <2>1, <2>2 DEF ServeRequest, Phase
    <2>3. ASSUME NEW t \in {"read", "create", "inspect"}, NEW k \in {"open", "mutate", "inspect"},
                 q = [noRequest EXCEPT !.phase = t, !.kind = k]
          PROVE  q \in ServeRequest /\ ~q.live /\ q.phase = t
      BY <2>1, <2>3 DEF ServeRequest, Phase
    <2> QED
      BY <1>2, <2>2, <2>3
  <1>4. q.phase = "create" => mutating = {}
    BY <1>2 DEF noRequest
  <1>5. q.phase \in MutatePhase => \A d \in Client : request[d].phase \in MutatePhase => d = c
    BY <1>3, <1>4 DEF mutating, MutatePhase
  <1> QED
    BY <1>1, <1>2, <1>3, <1>5, RequestKeeps

\* What the requests under way do to themselves.
LEMMA WorkKeeps ==
    ASSUME ServeInv, NEW c \in Client,
           readChain(c) \/ failRead(c) \/ _handleInspect(c) \/ createPatch(c) \/ compareTip(c)
             \/ failMutate(c)
    PROVE  ServeInv'
  <1>t. /\ request[c] \in ServeRequest /\ ~request[c].live
        /\ chain \in SUBSET Nat /\ acknowledged \in SUBSET Nat /\ made \in Nat
    BY DEF ServeInv, ServeTypeOK, replyInv
  <1>m. request[c].phase \in MutatePhase => \A d \in Client : request[d].phase \in MutatePhase => d = c
    BY DEF ServeInv, mutateInv
  <1>1. CASE readChain(c)
    <2> DEFINE got == IF request[c].kind = "seek" THEN {p \in chain : p <= request[c].ceiling} ELSE chain
               q == [request[c] EXCEPT !.phase = "install", !.got = got]
    <2>1. got \subseteq chain /\ got \in SUBSET Nat
      BY <1>t
    <2> HIDE DEF got
    <2>2. /\ request' = [request EXCEPT ![c] = q]
          /\ UNCHANGED <<chain, made, acknowledged, shared, session>>
      BY <1>1, <1>t DEF readChain, got, ServeInv, ServeTypeOK
    <2>3. q \in ServeRequest /\ q.phase = "install" /\ q.got = got /\ ~q.live
      BY <1>t, <2>1 DEF ServeRequest, Phase
    <2> HIDE DEF q
    <2> QED
      BY <1>t, <2>1, <2>2, <2>3, RequestKeeps DEF MutatePhase
  <1>2. CASE failRead(c) \/ failMutate(c)
    <2>1. /\ request' = [request EXCEPT ![c] = noRequest]
          /\ UNCHANGED <<chain, made, acknowledged, shared, session>>
      BY <1>2 DEF failRead, failMutate
    <2> QED
      BY <1>t, <2>1, NoRequestType, RequestKeeps DEF MutatePhase
  <1>3. CASE _handleInspect(c)
    <2> DEFINE q == IF shared.has /\ ~shared.dirty THEN noRequest ELSE [request[c] EXCEPT !.phase = "read"]
    <2>1. /\ request' = [request EXCEPT ![c] = q]
          /\ UNCHANGED <<chain, made, acknowledged, shared, session>>
      BY <1>3 DEF _handleInspect
    <2>2. q \in ServeRequest /\ q.phase \in {"idle", "read"} /\ ~q.live
      BY <1>t, NoRequestType DEF ServeRequest, Phase
    <2> HIDE DEF q
    <2> QED
      BY <1>t, <2>1, <2>2, RequestKeeps DEF MutatePhase
  <1>4. CASE createPatch(c)
    <2> DEFINE n == made + 1
               q == [request[c] EXCEPT !.phase = "commit", !.patch = n, !.got = acknowledged]
    <2>0. n \in Nat /\ made' = n
      BY <1>4, <1>t DEF createPatch
    <2>1. /\ request' = [request EXCEPT ![c] = q] /\ request[c].phase = "create"
          /\ UNCHANGED <<chain, acknowledged, shared, session>>
      <3>1. /\ request' = [request EXCEPT ![c].phase = "commit", ![c].patch = n, ![c].got = acknowledged]
            /\ request[c].phase = "create" /\ UNCHANGED <<chain, acknowledged, shared, session>>
        BY <1>4 DEF createPatch
      <3> HIDE DEF n
      <3>2. request \in [Client -> ServeRequest]
        BY DEF ServeInv, ServeTypeOK
      <3> QED
        BY <3>1, <3>2
    <2> HIDE DEF n
    <2>2. q \in ServeRequest /\ q.phase = "commit" /\ ~q.live
      BY <1>t, <2>0 DEF ServeRequest, Phase
    <2> HIDE DEF q
    <2> QED
      BY <1>m, <2>0, <2>1, <2>2, RequestKeeps DEF MutatePhase
  <1>5. CASE compareTip(c)
    <2> DEFINE q == IF request[c].got = acknowledged THEN [request[c] EXCEPT !.phase = "update"] ELSE noRequest
    <2>1. /\ request' = [request EXCEPT ![c] = q] /\ request[c].phase = "commit"
          /\ UNCHANGED <<chain, made, acknowledged, shared, session>>
      BY <1>5 DEF compareTip
    <2>2. /\ q \in ServeRequest /\ q.phase \in {"idle", "update"} /\ ~q.live
          /\ q.phase = "update" => q.got = acknowledged
      BY <1>t, NoRequestType DEF ServeRequest, Phase
    <2> HIDE DEF q
    <2> QED
      BY <1>t, <1>m, <2>1, <2>2, RequestKeeps DEF MutatePhase
  <1> QED
    BY <1>1, <1>2, <1>3, <1>4, <1>5

\* The diff of what was notified last and what is notified now takes an open
\* session from the one to the other.
LEMMA Broadcast ==
    ASSUME ServeInv, NEW got \in SUBSET Nat
    PROVE  LET pushed == _broadcastDiff(diffStates(shared.notified, got), session)
           IN  /\ pushed \in [Client -> Session]
               /\ \A d \in Client : /\ pushed[d].up = session[d].up
                                    /\ pushed[d].open => pushed[d].up /\ pushed[d].view = got
  <1> DEFINE diff == diffStates(shared.notified, got)
             pushed == _broadcastDiff(diff, session)
  <1>1. diff.added = got \ shared.notified /\ diff.removed = shared.notified \ got
    BY DEF diffStates
  <1>2. shared.notified \in SUBSET Nat /\ session \in [Client -> Session]
    BY DEF ServeInv, ServeTypeOK, SharedGraph
  <1> HIDE DEF diff
  <1>3. ASSUME NEW d \in Client
        PROVE  /\ pushed[d] \in Session /\ pushed[d].up = session[d].up
               /\ pushed[d].open => pushed[d].up /\ pushed[d].view = got
    <2>1. session[d] \in Session /\ (session[d].open => session[d].up /\ session[d].view = shared.notified)
      BY <1>2 DEF ServeInv, sessionInv
    <2>2. pushed[d] = IF session[d].up /\ session[d].open
                      THEN [session[d] EXCEPT !.view = (@ \ diff.removed) \cup diff.added]
                      ELSE session[d]
      BY DEF _broadcastDiff
    <2>3. CASE session[d].open
      <3>1. (session[d].view \ diff.removed) \cup diff.added = got
        BY <1>1, <2>1, <2>3
      <3>2. pushed[d] = [session[d] EXCEPT !.view = got]
        BY <2>1, <2>2, <2>3, <3>1
      <3> QED
        BY <2>1, <3>2 DEF Session
    <2>4. CASE ~session[d].open
      BY <2>1, <2>2, <2>4 DEF Session
    <2> QED
      BY <2>3, <2>4
  <1>4. pushed \in [Client -> Session]
    <2>1. pushed = [d \in Client |-> pushed[d]]
      BY DEF _broadcastDiff
    <2> QED
      BY <1>3, <2>1
  <1> QED
    BY <1>3, <1>4 DEF diff

\* The end of a materialization.
LEMMA InstallKeeps ==
    ASSUME ~ReplyGap, ServeInv, NEW c \in Client, installRead(c)
    PROVE  ServeInv'
  <1> DEFINE r == request[c]
             pushed == IF r.kind = "seek" THEN session
                       ELSE _broadcastDiff(diffStates(shared.notified, r.got), session)
             told == IF r.kind = "seek" THEN shared.notified ELSE r.got
  <1>t. /\ r \in ServeRequest /\ r.got \in SUBSET Nat /\ shared.notified \in SUBSET Nat
        /\ session \in [Client -> Session] /\ request \in [Client -> ServeRequest]
        /\ \A x \in Client : request[x] \in ServeRequest /\ ~request[x].live /\ request[x].phase # "reply"
    BY DEF ServeInv, ServeTypeOK, ServeRequest, SharedGraph, replyInv
  <1>1. /\ r.phase = "install" /\ UNCHANGED <<chain, made, acknowledged>>
        /\ shared' = [has |-> TRUE, dirty |-> FALSE, state |-> r.got, notified |-> told]
        /\ session' = IF r.kind = "open" THEN replyOpen(c, r.got, pushed) ELSE pushed
        /\ request' = [[x \in Client |-> [request[x] EXCEPT !.live = FALSE]] EXCEPT ![c] = noRequest]
    BY DEF installRead
  <1>2. /\ told \in SUBSET Nat /\ told \subseteq chain
        /\ r.kind # "seek" => told = r.got
    BY <1>1, <1>t DEF ServeInv, readInv
  <1>3. /\ pushed \in [Client -> Session]
        /\ \A d \in Client : /\ pushed[d].up = session[d].up
                             /\ pushed[d].open => pushed[d].up /\ pushed[d].view = told
    <2>1. CASE r.kind = "seek"
      BY <1>t, <2>1 DEF ServeInv, sessionInv
    <2>2. CASE r.kind # "seek"
      BY <1>t, <2>2, Broadcast
    <2> QED
      BY <2>1, <2>2
  <1> HIDE DEF pushed, told
  <1>4. /\ session' \in [Client -> Session]
        /\ \A d \in Client : session'[d].open => session'[d].up /\ session'[d].view = told
    <2>1. CASE r.kind # "open" \/ ~pushed[c].up
      BY <1>1, <1>3, <2>1 DEF replyOpen
    <2>2. CASE r.kind = "open" /\ pushed[c].up
      <3>1. session' = [pushed EXCEPT ![c].open = TRUE, ![c].view = r.got] /\ told = r.got
        BY <1>1, <1>2, <2>2 DEF replyOpen
      <3>2. pushed[c] \in Session /\ r.got \in SUBSET Nat
        BY <1>3, <1>t
      <3> HIDE DEF r
      <3>3. \A d \in Client : d # c => session'[d] = pushed[d]
        BY <1>3, <3>1
      <3>4. session'[c] = [pushed[c] EXCEPT !.open = TRUE, !.view = r.got]
        BY <1>3, <3>1
      <3>5. /\ session'[c] \in Session /\ session'[c].up = pushed[c].up
            /\ session'[c].open = TRUE /\ session'[c].view = r.got
        BY <3>2, <3>4 DEF Session
      <3>6. session' \in [Client -> Session]
        BY <1>3, <3>1, <3>3, <3>5
      <3> QED
        BY <1>3, <2>2, <3>1, <3>3, <3>5, <3>6
    <2> QED
      BY <2>1, <2>2
  <1>5. \A d \in Client : request'[d] = IF d = c THEN noRequest ELSE request[d]
    <2>1. \A x \in Client : [request[x] EXCEPT !.live = FALSE] = request[x]
      BY <1>t DEF ServeRequest
    <2> QED
      BY <1>1, <2>1
  <1>6. request' \in [Client -> ServeRequest]
    BY <1>1, <1>5, <1>t, NoRequestType
  <1>7. shared'.notified = told /\ shared' \in SharedGraph
    BY <1>1, <1>2, <1>t DEF SharedGraph
  <1>8. ServeTypeOK'
    BY <1>1, <1>4, <1>6, <1>7 DEF ServeInv, ServeTypeOK
  <1>9. sessionInv'
    BY <1>4, <1>7 DEF sessionInv
  <1>10. readInv'
    BY <1>1, <1>2, <1>5, <1>7, NoRequestType DEF ServeInv, readInv
  <1>11. mutateInv'
    BY <1>1, <1>5, NoRequestType DEF ServeInv, mutateInv, MutatePhase
  <1>12. replyInv'
    BY <1>5, <1>t, NoRequestType DEF replyInv
  <1> QED
    BY <1>8, <1>9, <1>10, <1>11, <1>12 DEF ServeInv

\* The patch of a mutate: the ref still holds what it was compared with.
LEMMA UpdateKeeps ==
    ASSUME ServeInv, NEW c \in Client, updateRef(c)
    PROVE  ServeInv'
  <1> DEFINE p == request[c].patch
  <1>t. /\ p \in Nat /\ request[c].phase = "update" /\ request[c].got = acknowledged
        /\ shared \in SharedGraph /\ request \in [Client -> ServeRequest]
        /\ \A x \in Client : request[x] \in ServeRequest /\ ~request[x].live
    BY DEF ServeInv, ServeTypeOK, ServeRequest, updateRef, mutateInv, replyInv
  <1>1. /\ chain' = chain \cup {p} /\ acknowledged' = acknowledged \cup {p}
        /\ shared' = _onPatchCommitted(p)
        /\ UNCHANGED <<made, session>>
    BY <1>t DEF updateRef
  <1>2. request' = [x \in Client |-> IF x = c THEN noRequest ELSE request[x]]
    BY <1>t DEF updateRef
  <1> HIDE DEF p
  <1>3. shared' \in SharedGraph /\ shared'.notified = shared.notified
    BY <1>1, <1>t DEF _onPatchCommitted, SharedGraph
  <1>4. \A d \in Client : d # c => request[d].phase \notin MutatePhase
    BY <1>t DEF ServeInv, mutateInv, MutatePhase
  <1>5. /\ request' \in [Client -> ServeRequest]
        /\ \A d \in Client : request'[d] = IF d = c THEN noRequest ELSE request[d]
    BY <1>2, <1>t, NoRequestType
  <1>6. ServeTypeOK'
    BY <1>1, <1>3, <1>5, <1>t DEF ServeInv, ServeTypeOK
  <1>7. sessionInv'
    BY <1>1, <1>3 DEF ServeInv, sessionInv
  <1>8. readInv'
    BY <1>1, <1>3, <1>5, NoRequestType DEF ServeInv, readInv
  <1>9. mutateInv'
    BY <1>1, <1>4, <1>5, NoRequestType DEF ServeInv, mutateInv, MutatePhase
  <1>10. replyInv'
    BY <1>5, <1>t, NoRequestType DEF ServeInv, replyInv
  <1> QED
    BY <1>6, <1>7, <1>8, <1>9, <1>10 DEF ServeInv

\* Where one mutate runs at a time and an open is answered as soon as the
\* graph is materialized, every client that has the graph open follows it, and
\* an acknowledged patch stays: for any number of clients, patches and requests.
THEOREM ClientsAlwaysFollow ==
    ASSUME ~OverlapMutates, ~ReplyGap
    PROVE  ServeSpec => []ClientsFollowTheGraph
  <1>1. ServeInit => ServeInv
    <2> SUFFICES ASSUME ServeInit
                 PROVE  ServeInv
      OBVIOUS
    <2>1. ServeTypeOK /\ shared.notified = {}
      BY NoRequestType DEF ServeInit, ServeTypeOK, SharedGraph
    <2> QED
      BY <2>1, NoRequestType DEF ServeInit, ServeInv, sessionInv, readInv, mutateInv, replyInv, MutatePhase
  <1>2. ServeInv /\ [ServeNext]_serveVars => ServeInv'
    <2> SUFFICES ASSUME ServeInv, [ServeNext]_serveVars
                 PROVE  ServeInv'
      OBVIOUS
    <2>1. CASE UNCHANGED serveVars
      BY <2>1 DEF serveVars, ServeInv, ServeTypeOK, sessionInv, readInv, mutateInv, replyInv
    <2>2. CASE commitOutside
      <3>1. made' \in Nat /\ chain' \in SUBSET Nat /\ chain \subseteq chain'
        BY <2>2 DEF commitOutside, ServeInv, ServeTypeOK
      <3> QED
        BY <2>2, <3>1 DEF commitOutside, ServeInv, ServeTypeOK, sessionInv, readInv, mutateInv, replyInv
    <2>3. ASSUME NEW c \in Client, _onConnection(c) \/ onClose(c)
          PROVE  ServeInv'
      <3>1. PICK s \in Session : ~s.open /\ session' = [session EXCEPT ![c] = s]
        BY <2>3, NoRequestType DEF _onConnection, onClose, noSession, Session
      <3> QED
        BY <2>3, <3>1, SessionKeeps DEF _onConnection, onClose
    <2>4. ASSUME NEW c \in Client, reply(c)
          PROVE  FALSE
      BY <2>4 DEF reply, ServeInv, replyInv
    <2> QED
      BY <2>1, <2>2, <2>3, <2>4, MessageKeeps, WorkKeeps, InstallKeeps, UpdateKeeps
         DEF ServeNext, serverStep
  <1>3. ServeInv => ClientsFollowTheGraph
    BY DEF ServeInv, sessionInv, readInv, mutateInv, ClientsFollowTheGraph
  <1> QED
    BY <1>1, <1>2, <1>3, PTL DEF ServeSpec

----------------------------------------------------------------------------
(* Induction over the natural numbers, for sets.                           *)

LEMMA SetInduction ==
    ASSUME NEW T, 0 \in T, \A n \in Nat : n \in T => n + 1 \in T
    PROVE  Nat \subseteq T
  <1> DEFINE R == OpToRel(<, Nat)
             F == Nat \ T
  <1>1. SUFFICES ASSUME F # {}
                 PROVE  FALSE
    OBVIOUS
  <1>2. IsWellFoundedOn(R, Nat)
    BY NatLessThanWellFounded, Zenon
  <1>3. PICK x \in F : \A y \in F : ~(<<y, x>> \in R)
    <2> HIDE DEF R
    <2> QED
      BY <1>1, <1>2, WFMin
  <1>4. x \in Nat /\ x # 0 /\ x - 1 \in Nat
    OBVIOUS
  <1>5. x - 1 \in F
    BY <1>4
  <1>6. <<x - 1, x>> \in R
    <2>1. x - 1 < x
      BY <1>4
    <2> QED
      BY <1>4, <2>1, Zenon DEF OpToRel
  <1> QED
    BY <1>3, <1>5, <1>6

----------------------------------------------------------------------------
(* TrustLedger: the fold of a chain of records.                            *)

\* f is the sequence of the states after the first n records
isFold(f, s, n) ==
    f = [i \in 0..n |-> IF i = 0 THEN createTrustState ELSE processRecord(f[i - 1], s[i])]

LEMMA FoldValues ==
    ASSUME NEW f, NEW s, NEW n \in Nat, isFold(f, s, n)
    PROVE  /\ f[0] = createTrustState
           /\ \A i \in 0..n : i # 0 => f[i] = processRecord(f[i - 1], s[i])
  <1> DEFINE g == [i \in 0..n |-> IF i = 0 THEN createTrustState ELSE processRecord(f[i - 1], s[i])]
  <1>1. f = g
    BY DEF isFold
  <1>2. g[0] = createTrustState
    OBVIOUS
  <1>3. \A i \in 0..n : i # 0 => g[i] = processRecord(f[i - 1], s[i])
    OBVIOUS
  <1> HIDE DEF g
  <1> QED
    BY <1>1, <1>2, <1>3

\* There is a fold of any length.
LEMMA FoldExists ==
    ASSUME NEW s, NEW N \in Nat
    PROVE  \E f : isFold(f, s, N)
  <1> DEFINE T == {n \in Nat : \E f : isFold(f, s, n)}
  <1>1. 0 \in T
    <2> DEFINE f == [i \in 0..0 |-> createTrustState]
    <2>1. isFold(f, s, 0)
      BY DEF isFold
    <2> QED
      BY <2>1
  <1>2. ASSUME NEW n \in Nat, n \in T
        PROVE  n + 1 \in T
    <2>1. PICK f : isFold(f, s, n)
      BY <1>2
    <2> DEFINE g == [i \in 0..(n + 1) |-> IF i = n + 1 THEN processRecord(f[n], s[n + 1]) ELSE f[i]]
    <2>2. /\ f[0] = createTrustState
          /\ \A i \in 0..n : i # 0 => f[i] = processRecord(f[i - 1], s[i])
      BY <2>1, FoldValues
    <2>3. /\ g[n + 1] = processRecord(f[n], s[n + 1])
          /\ \A i \in 0..n : g[i] = f[i]
      OBVIOUS
    <2>4. g = [i \in 0..(n + 1) |-> g[i]]
      OBVIOUS
    <2> HIDE DEF g
    <2>5. ASSUME NEW i \in 0..(n + 1)
          PROVE  g[i] = IF i = 0 THEN createTrustState ELSE processRecord(g[i - 1], s[i])
      <3>1. CASE i = 0
        BY <2>2, <2>3, <3>1
      <3>2. CASE i = n + 1
        BY <2>3, <3>2
      <3>3. CASE i # 0 /\ i # n + 1
        <4>1. i \in 0..n /\ i - 1 \in 0..n
          BY <3>3
        <4> QED
          BY <2>2, <2>3, <3>3, <4>1
      <3> QED
        BY <3>1, <3>2, <3>3
    <2>6. isFold(g, s, n + 1)
      BY <2>4, <2>5 DEF isFold
    <2> QED
      BY <2>6
  <1> HIDE DEF T
  <1>3. N \in T
    BY <1>1, <1>2, SetInduction
  <1> QED
    BY <1>3 DEF T

\* Two folds agree where their records do.
LEMMA FoldUnique ==
    ASSUME NEW f, NEW g, NEW s, NEW t, NEW m \in Nat, NEW n \in Nat, NEW N \in Nat,
           isFold(f, s, m), isFold(g, t, n), N <= m, N <= n,
           \A i \in 1..N : s[i] = t[i]
    PROVE  f[N] = g[N]
  <1> DEFINE T == {k \in Nat : k <= N => f[k] = g[k]}
  <1>1. /\ f[0] = createTrustState /\ g[0] = createTrustState
        /\ \A i \in 0..m : i # 0 => f[i] = processRecord(f[i - 1], s[i])
        /\ \A i \in 0..n : i # 0 => g[i] = processRecord(g[i - 1], t[i])
    BY FoldValues
  <1>2. 0 \in T
    BY <1>1
  <1>3. ASSUME NEW k \in Nat, k \in T
        PROVE  k + 1 \in T
    <2>1. CASE k + 1 <= N
      <3>1. /\ k + 1 \in 0..m /\ k + 1 \in 0..n /\ k + 1 \in 1..N /\ k + 1 # 0 /\ (k + 1) - 1 = k
            /\ k <= N
        BY <2>1
      <3>2. f[k] = g[k]
        BY <1>3, <3>1
      <3>3. f[k + 1] = processRecord(f[k], s[k + 1]) /\ g[k + 1] = processRecord(g[k], t[k + 1])
        BY <1>1, <3>1
      <3> QED
        BY <3>1, <3>2, <3>3
    <2>2. CASE ~(k + 1 <= N)
      BY <2>2
    <2> QED
      BY <2>1, <2>2
  <1> HIDE DEF T
  <1>4. N \in T
    BY <1>2, <1>3, SetInduction
  <1> QED
    BY <1>4 DEF T

\* buildState is a fold.
LEMMA BuildIsFold ==
    ASSUME NEW s, Len(s) \in Nat
    PROVE  \E f : isFold(f, s, Len(s)) /\ buildState(s) = f[Len(s)]
  <1> DEFINE st == CHOOSE f : isFold(f, s, Len(s))
  <1>1. isFold(st, s, Len(s))
    BY FoldExists
  <1>2. buildState(s) = st[Len(s)]
    BY DEF buildState, isFold
  <1> QED
    BY <1>1, <1>2

\* The state after one record more.
LEMMA BuildAppend ==
    ASSUME NEW S, NEW s \in Seq(S), NEW r \in S
    PROVE  buildState(Append(s, r)) = processRecord(buildState(s), r)
  <1> DEFINE t == Append(s, r)
             n == Len(s)
  <1>1. /\ n \in Nat /\ Len(t) = n + 1 /\ t[n + 1] = r
        /\ \A i \in 1..n : s[i] = t[i]
    BY Appended
  <1> HIDE DEF t, n
  <1>2. PICK f : isFold(f, s, n) /\ buildState(s) = f[n]
    BY <1>1, BuildIsFold DEF n
  <1>3. PICK g : isFold(g, t, n + 1) /\ buildState(t) = g[n + 1]
    BY <1>1, BuildIsFold
  <1>4. f[n] = g[n]
    BY <1>1, <1>2, <1>3, FoldUnique
  <1>5. g[n + 1] = processRecord(g[n], t[n + 1])
    <2>1. n + 1 \in Nat /\ n + 1 \in 0..(n + 1) /\ n + 1 # 0 /\ (n + 1) - 1 = n
      BY <1>1
    <2> QED
      BY <1>3, <2>1, FoldValues
  <1> QED
    BY <1>1, <1>2, <1>3, <1>4, <1>5 DEF t

LEMMA BuildEmpty == buildState(<< >>) = createTrustState
  <1>1. Len(<< >>) = 0
    OBVIOUS
  <1>2. PICK f : isFold(f, << >>, 0) /\ buildState(<< >>) = f[0]
    BY <1>1, BuildIsFold
  <1> QED
    BY <1>2, FoldValues

----------------------------------------------------------------------------
(* TrustLedger: the invariant.                                             *)

\* what stands for a missing record is no record id
NoneIsNoId == \A r : computeRecordId(r) # None

TrustState ==
    [active : SUBSET SigningKey, revoked : SUBSET SigningKey,
     bound : SUBSET (Subject \X SigningKey), unbound : SUBSET (Subject \X SigningKey), errors : Nat]

\* an append under way has these fields
AppendFrom(D) ==
    [pc : {"readTip", "swap", "check"}, record : D, parent : D, attempt : D, retries : D,
     resign : D, moved : BOOLEAN]

appendShape(x) == \E D : x \in AppendFrom(D)

TrustShape ==
    /\ \E S : trustRef \in Seq(S)
    /\ append = [a \in Admin |-> append[a]]
    /\ \A a \in Admin : append[a] # None => appendShape(append[a])
    /\ rebased \in BOOLEAN

\* the chain verifies, and holds what was acknowledged
linked(s) ==
    \A i \in 1..Len(s) :
      /\ TrustRecordSchema(s[i]) /\ verifyRecordId(s[i])
      /\ s[i].prev = IF i = 1 THEN None ELSE s[i - 1].recordId
distinctIds(s) == \A i, j \in 1..Len(s) : s[i].recordId = s[j].recordId => i = j
chainInv == linked(trustRef) /\ distinctIds(trustRef)
ackedInv == \A x \in acked : \E i \in 1..Len(trustRef) : trustRef[i].recordId = x

\* what is about to be swapped in was accepted
acceptedInv ==
    \A a \in Admin : append[a] # None /\ append[a].pc \in {"swap", "check"} =>
      accepts(append[a].record, append[a].parent)

\* the record is valid at the end of s
fits(r, s) == r.prev = tipId(s) /\ processRecord(buildState(s), r).errors = buildState(s).errors

\* a record that was not moved is valid behind some prefix of the chain
composedInv ==
    \A a \in Admin : append[a] # None /\ ~append[a].moved =>
      \E n \in 0..Len(trustRef) : fits(append[a].record, SubSeq(trustRef, 1, n))

is(s, i, t, k) == s[i].recordType = t /\ s[i].keyId = k

\* what a chain without refused records says of its state
keyEvidence(s, st) ==
    /\ \A k \in st.active : k \notin st.revoked /\ \E i \in 1..Len(s) : is(s, i, "KEY_ADD", k)
    /\ \A n \in 1..Len(s) : s[n].recordType = "KEY_REVOKE" => s[n].keyId \in st.revoked

bindEvidence(s, w, k) ==
    \E i, j \in 1..Len(s) :
      /\ i < j /\ is(s, i, "KEY_ADD", k) /\ is(s, j, "WRITER_BIND_ADD", k) /\ s[j].writerId = w
      /\ \A n \in (j + 1)..Len(s) : ~(is(s, n, "WRITER_BIND_REVOKE", k) /\ s[n].writerId = w)

evidence(s, st) ==
    /\ st \in TrustState
    /\ st.errors = 0 => keyEvidence(s, st) /\ \A b \in st.bound : bindEvidence(s, b[1], b[2])

evidenceInv ==
    /\ evidence(trustRef, buildState(trustRef))
    /\ ~rebased => buildState(trustRef).errors = 0

TrustInv ==
    TrustShape /\ chainInv /\ ackedInv /\ acceptedInv /\ composedInv /\ evidenceInv

TrustSpec == TrustInit /\ [][TrustNext]_trustVars

\* A record that is processed leaves a trust state.
LEMMA ProcessType ==
    ASSUME NEW st \in TrustState, NEW r, TrustRecordSchema(r)
    PROVE  processRecord(st, r) \in TrustState /\ processRecord(st, r).errors >= st.errors
  <1>1. /\ r.recordType \in recordTypes /\ r.keyId \in SigningKey
        /\ r.recordType \in {"WRITER_BIND_ADD", "WRITER_BIND_REVOKE"} => r.writerId \in Subject
    BY DEF TrustRecordSchema, recordTypes
  <1>2. refuse(st) \in TrustState /\ refuse(st).errors >= st.errors
    BY DEF refuse, TrustState
  <1>3. CASE r.recordType = "KEY_ADD"
    <2>1. handleKeyAdd(r, st) \in TrustState /\ handleKeyAdd(r, st).errors >= st.errors
      BY <1>1, <1>2 DEF handleKeyAdd, TrustState
    <2> QED
      BY <1>2, <1>3, <2>1 DEF processRecord
  <1>4. CASE r.recordType = "KEY_REVOKE"
    <2> DEFINE A == st.active \ {r.keyId}
               R == st.revoked \cup {r.keyId}
               t == [st EXCEPT !.active = A, !.revoked = R]
    <2>a. A \in SUBSET SigningKey /\ R \in SUBSET SigningKey
      BY <1>1 DEF TrustState
    <2>b. handleKeyRevoke(r, st) = refuse(st) \/ handleKeyRevoke(r, st) = t
      BY DEF handleKeyRevoke
    <2> HIDE DEF A, R
    <2>c. t \in TrustState /\ t.errors = st.errors /\ st.errors \in Nat
      <3>1. t \in TrustState
        BY <2>a DEF TrustState
      <3>2. t.errors = st.errors /\ st.errors \in Nat
        BY DEF TrustState
      <3> QED
        BY <3>1, <3>2
    <2> HIDE DEF t
    <2>1. handleKeyRevoke(r, st) \in TrustState /\ handleKeyRevoke(r, st).errors >= st.errors
      BY <1>2, <2>b, <2>c
    <2> QED
      BY <1>2, <1>4, <2>1 DEF processRecord
  <1>5. CASE r.recordType = "WRITER_BIND_ADD"
    <2>1. handleBindAdd(r, st) \in TrustState /\ handleBindAdd(r, st).errors >= st.errors
      BY <1>1, <1>2, <1>5 DEF handleBindAdd, TrustState
    <2> QED
      BY <1>2, <1>5, <2>1 DEF processRecord
  <1>6. CASE r.recordType = "WRITER_BIND_REVOKE"
    <2> DEFINE b == <<r.writerId, r.keyId>>
               B == st.bound \ {b}
               U == st.unbound \cup {b}
               t == [st EXCEPT !.bound = B, !.unbound = U]
    <2>a. B \in SUBSET (Subject \X SigningKey) /\ U \in SUBSET (Subject \X SigningKey)
      BY <1>1, <1>6 DEF TrustState
    <2>b. handleBindRevoke(r, st) = refuse(st) \/ handleBindRevoke(r, st) = t
      BY DEF handleBindRevoke
    <2> HIDE DEF b, B, U
    <2>c. t \in TrustState /\ t.errors = st.errors /\ st.errors \in Nat
      <3>1. t \in TrustState
        BY <2>a DEF TrustState
      <3>2. t.errors = st.errors /\ st.errors \in Nat
        BY DEF TrustState
      <3> QED
        BY <3>1, <3>2
    <2> HIDE DEF t
    <2>1. handleBindRevoke(r, st) \in TrustState /\ handleBindRevoke(r, st).errors >= st.errors
      BY <1>2, <2>b, <2>c
    <2> QED
      BY <1>2, <1>6, <2>1 DEF processRecord
  <1> QED
    BY <1>1, <1>3, <1>4, <1>5, <1>6 DEF recordTypes

\* A record that is not refused does what it says.
LEMMA ProcessEffect ==
    ASSUME NEW st \in TrustState, NEW r, TrustRecordSchema(r), processRecord(st, r).errors = st.errors
    PROVE  LET k == r.keyId
               b == <<r.writerId, r.keyId>>
               t == processRecord(st, r)
           IN  /\ r.recordType = "KEY_ADD" =>
                    k \notin st.revoked /\ t = [st EXCEPT !.active = @ \cup {k}]
               /\ r.recordType = "KEY_REVOKE" =>
                    t = [st EXCEPT !.active = @ \ {k}, !.revoked = @ \cup {k}]
               /\ r.recordType = "WRITER_BIND_ADD" =>
                    k \in st.active /\ t = [st EXCEPT !.bound = @ \cup {b}]
               /\ r.recordType = "WRITER_BIND_REVOKE" =>
                    t = [st EXCEPT !.bound = @ \ {b}, !.unbound = @ \cup {b}]
  <1>1. refuse(st).errors # st.errors
    BY DEF refuse, TrustState
  <1>2. validateRecordCryptography(r, st)
    BY <1>1 DEF processRecord
  <1>3. CASE r.recordType = "KEY_ADD"
    BY <1>1, <1>2, <1>3 DEF processRecord, handleKeyAdd
  <1>4. CASE r.recordType = "KEY_REVOKE"
    BY <1>1, <1>2, <1>4 DEF processRecord, handleKeyRevoke
  <1>5. CASE r.recordType = "WRITER_BIND_ADD"
    BY <1>1, <1>2, <1>5 DEF processRecord, handleBindAdd
  <1>6. CASE r.recordType = "WRITER_BIND_REVOKE"
    BY <1>1, <1>2, <1>6 DEF processRecord, handleBindRevoke
  <1> QED
    BY <1>3, <1>4, <1>5, <1>6 DEF TrustRecordSchema, recordTypes

\* The keys and bindings after a record that is not refused.
LEMMA ProcessFields ==
    ASSUME NEW st \in TrustState, NEW r, TrustRecordSchema(r), processRecord(st, r).errors = st.errors
    PROVE  LET k == r.keyId
               b == <<r.writerId, r.keyId>>
               t == processRecord(st, r)
           IN  /\ t.active = IF r.recordType = "KEY_ADD" THEN st.active \cup {k}
                             ELSE IF r.recordType = "KEY_REVOKE" THEN st.active \ {k} ELSE st.active
               /\ t.revoked = IF r.recordType = "KEY_REVOKE" THEN st.revoked \cup {k} ELSE st.revoked
               /\ t.bound = IF r.recordType = "WRITER_BIND_ADD" THEN st.bound \cup {b}
                            ELSE IF r.recordType = "WRITER_BIND_REVOKE" THEN st.bound \ {b} ELSE st.bound
               /\ r.recordType = "KEY_ADD" => k \notin st.revoked
               /\ r.recordType = "WRITER_BIND_ADD" => k \in st.active
  <1> DEFINE k == r.keyId
             b == <<r.writerId, r.keyId>>
             t == processRecord(st, r)
  <1>1. /\ r.recordType = "KEY_ADD" =>
             k \notin st.revoked /\ t = [st EXCEPT !.active = @ \cup {k}]
        /\ r.recordType = "KEY_REVOKE" =>
             t = [st EXCEPT !.active = @ \ {k}, !.revoked = @ \cup {k}]
        /\ r.recordType = "WRITER_BIND_ADD" =>
             k \in st.active /\ t = [st EXCEPT !.bound = @ \cup {b}]
        /\ r.recordType = "WRITER_BIND_REVOKE" =>
             t = [st EXCEPT !.bound = @ \ {b}, !.unbound = @ \cup {b}]
    BY ProcessEffect
  <1> HIDE DEF t, k, b
  <1>2. r.recordType \in recordTypes
    BY DEF TrustRecordSchema
  <1>3. CASE r.recordType = "KEY_ADD"
    BY <1>1, <1>3 DEF TrustState, t, k, b
  <1>4. CASE r.recordType = "KEY_REVOKE"
    BY <1>1, <1>4 DEF TrustState, t, k, b
  <1>5. CASE r.recordType = "WRITER_BIND_ADD"
    BY <1>1, <1>5 DEF TrustState, t, k, b
  <1>6. CASE r.recordType = "WRITER_BIND_REVOKE"
    BY <1>1, <1>6 DEF TrustState, t, k, b
  <1> QED
    BY <1>2, <1>3, <1>4, <1>5, <1>6 DEF recordTypes

\* The evidence grows with the chain.
LEMMA EvidenceStep ==
    ASSUME NEW S, NEW s \in Seq(S), NEW r \in S, NEW st, TrustRecordSchema(r), evidence(s, st)
    PROVE  evidence(Append(s, r), processRecord(st, r))
  <1> DEFINE t == Append(s, r)
             u == processRecord(st, r)
             N == Len(s)
  <1>1. /\ N \in Nat /\ Len(t) = N + 1 /\ t[N + 1] = r
        /\ \A i \in 1..N : t[i] = s[i]
    BY Appended
  <1>2. st \in TrustState /\ u \in TrustState /\ u.errors >= st.errors
    BY ProcessType DEF evidence
  <1> HIDE DEF t, N
  <1>3. SUFFICES ASSUME u.errors = 0
                 PROVE  keyEvidence(t, u) /\ \A b \in u.bound : bindEvidence(t, b[1], b[2])
    BY <1>2 DEF evidence, t
  <1>4. st.errors = 0 /\ u.errors = st.errors
    BY <1>2, <1>3 DEF TrustState
  <1>5. keyEvidence(s, st) /\ \A b \in st.bound : bindEvidence(s, b[1], b[2])
    BY <1>4 DEF evidence
  <1>6. /\ u.active = IF r.recordType = "KEY_ADD" THEN st.active \cup {r.keyId}
                      ELSE IF r.recordType = "KEY_REVOKE" THEN st.active \ {r.keyId} ELSE st.active
        /\ u.revoked = IF r.recordType = "KEY_REVOKE" THEN st.revoked \cup {r.keyId} ELSE st.revoked
        /\ u.bound = IF r.recordType = "WRITER_BIND_ADD" THEN st.bound \cup {<<r.writerId, r.keyId>>}
                     ELSE IF r.recordType = "WRITER_BIND_REVOKE" THEN st.bound \ {<<r.writerId, r.keyId>>}
                     ELSE st.bound
        /\ r.recordType = "KEY_ADD" => r.keyId \notin st.revoked
        /\ r.recordType = "WRITER_BIND_ADD" => r.keyId \in st.active
    BY <1>2, <1>4, ProcessFields
  <1>7. \A i \in 1..N : i \in 1..(N + 1)
    BY <1>1
  <1>8. N + 1 \in 1..(N + 1) /\ \A i \in 1..(N + 1) : i \in 1..N \/ i = N + 1
    BY <1>1
  <1> HIDE DEF u
  <1>9. keyEvidence(t, u)
    <2>1. ASSUME NEW k \in u.active
          PROVE  k \notin u.revoked /\ \E i \in 1..Len(t) : is(t, i, "KEY_ADD", k)
      <3>1. CASE k \in st.active
        <4>1. PICK i \in 1..N : is(s, i, "KEY_ADD", k)
          BY <1>5, <3>1 DEF keyEvidence, N
        <4>2. is(t, i, "KEY_ADD", k) /\ i \in 1..Len(t)
          BY <1>1, <1>7, <4>1 DEF is
        <4>3. k \notin st.revoked
          BY <1>5, <3>1 DEF keyEvidence
        <4> QED
          BY <1>6, <2>1, <4>2, <4>3
      <3>2. CASE k \notin st.active
        <4>1. r.recordType = "KEY_ADD" /\ k = r.keyId
          BY <1>6, <2>1, <3>2
        <4>2. is(t, N + 1, "KEY_ADD", k)
          BY <1>1, <4>1 DEF is
        <4> QED
          BY <1>1, <1>6, <1>8, <4>1, <4>2
      <3> QED
        BY <3>1, <3>2
    <2>2. ASSUME NEW n \in 1..(N + 1), t[n].recordType = "KEY_REVOKE"
          PROVE  t[n].keyId \in u.revoked
      <3>1. CASE n \in 1..N
        <4>1. s[n].recordType = "KEY_REVOKE" /\ t[n].keyId = s[n].keyId
          BY <1>1, <2>2, <3>1
        <4>2. s[n].keyId \in st.revoked
          BY <1>5, <3>1, <4>1 DEF keyEvidence, N
        <4> QED
          BY <1>6, <4>1, <4>2
      <3>2. CASE n = N + 1
        BY <1>1, <1>6, <2>2, <3>2
      <3> QED
        BY <1>8, <3>1, <3>2
    <2> QED
      BY <1>1, <2>1, <2>2 DEF keyEvidence
  <1>10. ASSUME NEW b \in u.bound
         PROVE  bindEvidence(t, b[1], b[2])
    <2>1. CASE b \in st.bound
      <3>1. PICK i \in 1..N, j \in 1..N :
               /\ i < j /\ is(s, i, "KEY_ADD", b[2]) /\ is(s, j, "WRITER_BIND_ADD", b[2])
               /\ s[j].writerId = b[1]
               /\ \A n \in (j + 1)..N : ~(is(s, n, "WRITER_BIND_REVOKE", b[2]) /\ s[n].writerId = b[1])
        BY <1>5, <2>1 DEF bindEvidence, N
      <3>2. is(t, i, "KEY_ADD", b[2]) /\ is(t, j, "WRITER_BIND_ADD", b[2]) /\ t[j].writerId = b[1]
        BY <1>1, <3>1 DEF is
      <3>3. ASSUME NEW n \in (j + 1)..(N + 1), is(t, n, "WRITER_BIND_REVOKE", b[2]), t[n].writerId = b[1]
            PROVE  FALSE
        <4>1. CASE n = N + 1
          <5>1. r.recordType = "WRITER_BIND_REVOKE" /\ r.keyId = b[2] /\ r.writerId = b[1]
            BY <1>1, <3>3, <4>1 DEF is
          <5>2. b = <<b[1], b[2]>>
            BY <1>2, <2>1 DEF TrustState
          <5> QED
            BY <1>6, <1>10, <5>1, <5>2
        <4>2. CASE n # N + 1
          <5>1. n \in (j + 1)..N /\ n \in 1..N
            BY <1>1, <3>1, <4>2
          <5>2. is(s, n, "WRITER_BIND_REVOKE", b[2]) /\ s[n].writerId = b[1]
            BY <1>1, <3>3, <5>1 DEF is
          <5> QED
            BY <3>1, <5>1, <5>2
        <4> QED
          BY <4>1, <4>2
      <3> QED
        BY <1>1, <1>7, <3>1, <3>2, <3>3 DEF bindEvidence
    <2>2. CASE b \notin st.bound
      <3>1. r.recordType = "WRITER_BIND_ADD" /\ b[1] = r.writerId /\ b[2] = r.keyId /\ b[2] \in st.active
        BY <1>6, <1>10, <2>2
      <3>2. PICK i \in 1..N : is(s, i, "KEY_ADD", b[2])
        BY <1>5, <3>1 DEF keyEvidence, N
      <3>3. is(t, i, "KEY_ADD", b[2]) /\ i < N + 1 /\ i \in 1..(N + 1)
        BY <1>1, <3>2 DEF is
      <3>4. is(t, N + 1, "WRITER_BIND_ADD", b[2]) /\ t[N + 1].writerId = b[1]
        BY <1>1, <3>1 DEF is
      <3>5. (N + 1 + 1)..(N + 1) = {}
        BY <1>1
      <3> QED
        BY <1>1, <1>8, <3>3, <3>4, <3>5 DEF bindEvidence
    <2> QED
      BY <2>1, <2>2
  <1> QED
    BY <1>9, <1>10

----------------------------------------------------------------------------
(* TrustLedger: the steps.                                                 *)

\* The first n elements of a sequence.
LEMMA Prefixes ==
    ASSUME NEW S, NEW s \in Seq(S), NEW n \in 0..Len(s)
    PROVE  /\ SubSeq(s, 1, n) \in Seq(S) /\ Len(SubSeq(s, 1, n)) = n
           /\ \A i \in 1..n : SubSeq(s, 1, n)[i] = s[i]
  <1>1. Len(s) \in Nat /\ n \in Nat /\ n <= Len(s)
    BY LenProperties
  <1>2. \A i \in 1..n : s[i] \in S
    BY <1>1, ElementOfSeq
  <1>3. /\ SubSeq(s, 1, n) \in Seq(S)
        /\ Len(SubSeq(s, 1, n)) = IF 1 <= n THEN n - 1 + 1 ELSE 0
        /\ \A i \in 1..(n - 1 + 1) : SubSeq(s, 1, n)[i] = s[1 + i - 1]
    BY <1>1, <1>2, SubSeqProperties
  <1> QED
    BY <1>1, <1>3

\* The prefixes of a sequence stay when it is appended to.
LEMMA PrefixStays ==
    ASSUME NEW S, NEW s \in Seq(S), NEW e \in S, NEW n \in 0..Len(s)
    PROVE  SubSeq(Append(s, e), 1, n) = SubSeq(s, 1, n) /\ n \in 0..Len(Append(s, e))
  <1> DEFINE t == Append(s, e)
  <1>1. /\ t \in Seq(S) /\ Len(s) \in Nat /\ Len(t) = Len(s) + 1
        /\ \A i \in 1..Len(s) : t[i] = s[i]
    BY Appended
  <1> HIDE DEF t
  <1>2. n \in 0..Len(t) /\ \A i \in 1..n : i \in 1..Len(s)
    BY <1>1
  <1>3. /\ SubSeq(s, 1, n) \in Seq(S) /\ Len(SubSeq(s, 1, n)) = n
        /\ \A i \in 1..n : SubSeq(s, 1, n)[i] = s[i]
    BY Prefixes
  <1>4. /\ SubSeq(t, 1, n) \in Seq(S) /\ Len(SubSeq(t, 1, n)) = n
        /\ \A i \in 1..n : SubSeq(t, 1, n)[i] = t[i]
    BY <1>1, <1>2, Prefixes
  <1>5. SubSeq(t, 1, n) = SubSeq(s, 1, n)
    BY <1>1, <1>2, <1>3, <1>4, SeqEqual
  <1> QED
    BY <1>2, <1>5 DEF t

\* The id at the end of a prefix names its length.
LEMMA TipNamesPrefix ==
    ASSUME NoneIsNoId, NEW S, NEW s \in Seq(S), linked(s), distinctIds(s), NEW n \in 0..Len(s),
           tipId(SubSeq(s, 1, n)) = tipId(s)
    PROVE  SubSeq(s, 1, n) = s
  <1> DEFINE p == SubSeq(s, 1, n)
  <1>1. Len(s) \in Nat /\ n \in Nat /\ n <= Len(s)
    BY LenProperties
  <1>2. p \in Seq(S) /\ Len(p) = n /\ \A i \in 1..n : p[i] = s[i]
    BY Prefixes
  <1>f. SubSeq(s, 1, Len(s)) = s
    BY SubSeqFull
  <1>3. SUFFICES n = Len(s)
    BY <1>f
  <1> HIDE DEF p
  <1>4. \A q \in Seq(S) : q = << >> <=> Len(q) = 0
    BY EmptySeq
  <1>5. \A i \in 1..Len(s) : s[i].recordId # None
    BY DEF linked, verifyRecordId, NoneIsNoId
  <1>6. CASE Len(s) = 0
    BY <1>1, <1>6
  <1>7. CASE Len(s) # 0
    <2>1. tipId(s) = s[Len(s)].recordId /\ Len(s) \in 1..Len(s)
      BY <1>1, <1>4, <1>7 DEF tipId
    <2>2. tipId(s) # None
      BY <1>5, <2>1
    <2>3. n # 0
      <3>1. ASSUME n = 0
            PROVE  tipId(p) = None
        BY <1>2, <1>4, <3>1 DEF tipId
      <3> QED
        BY <2>2, <3>1 DEF p
    <2>4. n \in 1..n /\ n \in 1..Len(s)
      BY <1>1, <2>3
    <2>5. tipId(p) = s[n].recordId
      BY <1>2, <1>4, <2>3, <2>4 DEF tipId
    <2>6. s[n].recordId = s[Len(s)].recordId
      BY <2>1, <2>5 DEF p
    <2> QED
      BY <2>1, <2>4, <2>6 DEF distinctIds
  <1> QED
    BY <1>6, <1>7

\* A chain is linked after a record that its end accepts.
LEMMA LinkStep ==
    ASSUME NoneIsNoId, NEW S, NEW s \in Seq(S), NEW r \in S, linked(s), distinctIds(s), accepts(r, s)
    PROVE  linked(Append(s, r)) /\ distinctIds(Append(s, r))
  <1> DEFINE t == Append(s, r)
             N == Len(s)
  <1>1. /\ N \in Nat /\ Len(t) = N + 1 /\ t[N + 1] = r
        /\ \A i \in 1..N : t[i] = s[i]
    BY Appended
  <1>0. s = << >> <=> N = 0
    BY EmptySeq
  <1>a. TrustRecordSchema(r) /\ verifyRecordId(r) /\ r.prev = IF N = 0 THEN None ELSE s[N].recordId
    BY <1>0 DEF accepts, tipId
  <1>b. \A i \in 1..N : /\ TrustRecordSchema(s[i]) /\ verifyRecordId(s[i])
                        /\ s[i].prev = IF i = 1 THEN None ELSE s[i - 1].recordId
    BY DEF linked
  <1>d. \A i, j \in 1..N : s[i].recordId = s[j].recordId => i = j
    BY DEF distinctIds
  <1> HIDE DEF t, N
  <1>2. linked(t)
    <2>1. ASSUME NEW i \in 1..(N + 1)
          PROVE  /\ TrustRecordSchema(t[i]) /\ verifyRecordId(t[i])
                 /\ t[i].prev = IF i = 1 THEN None ELSE t[i - 1].recordId
      <3>1. CASE i \in 1..N
        <4>1. i # 1 => i - 1 \in 1..N
          BY <1>1, <3>1
        <4> QED
          BY <1>1, <1>b, <3>1, <4>1
      <3>2. CASE i = N + 1
        <4>1. (i = 1 <=> N = 0) /\ i - 1 = N /\ (N # 0 => N \in 1..N)
          BY <1>1, <3>2
        <4> QED
          BY <1>1, <1>a, <3>2, <4>1
      <3> QED
        BY <1>1, <3>1, <3>2
    <2> QED
      BY <1>1, <2>1 DEF linked
  <1>3. ASSUME NEW i \in 1..N, s[i].recordId = r.recordId
        PROVE  FALSE
    <2>1. s[i].prev = r.prev
      <3>1. computeRecordId(s[i]) = computeRecordId(r)
        BY <1>a, <1>b, <1>3 DEF verifyRecordId
      <3> QED
        BY <3>1 DEF computeRecordId
    <2>2. N # 0 /\ N \in 1..N
      BY <1>1, <1>3
    <2>3. s[N].recordId # None
      BY <1>b, <2>2 DEF verifyRecordId, NoneIsNoId
    <2>4. i # 1 /\ s[i - 1].recordId = s[N].recordId
      BY <1>a, <1>b, <1>3, <2>1, <2>2, <2>3
    <2>5. i - 1 \in 1..N /\ i - 1 # N
      BY <1>1, <1>3, <2>4
    <2> QED
      BY <1>d, <2>2, <2>4, <2>5
  <1>4. distinctIds(t)
    <2>1. ASSUME NEW i \in 1..(N + 1), NEW j \in 1..(N + 1), t[i].recordId = t[j].recordId
          PROVE  i = j
      <3>1. CASE i \in 1..N /\ j \in 1..N
        BY <1>1, <1>d, <2>1, <3>1
      <3>2. CASE i \in 1..N /\ j = N + 1
        BY <1>1, <1>3, <2>1, <3>2
      <3>3. CASE i = N + 1 /\ j \in 1..N
        BY <1>1, <1>3, <2>1, <3>3
      <3> QED
        BY <1>1, <3>1, <3>2, <3>3
    <2> QED
      BY <1>1, <2>1 DEF distinctIds
  <1> QED
    BY <1>2, <1>4 DEF t

\* What holds of the chain after a record has landed.
LEMMA LandStep ==
    ASSUME NoneIsNoId, TrustInv, NEW a \in Admin, append[a] # None, append[a].pc = "swap",
           swaps(append[a].parent), landRecord(a)
    PROVE  /\ \E S : trustRef' \in Seq(S)
           /\ rebased' \in BOOLEAN
           /\ chainInv' /\ evidenceInv'
           /\ \A n \in 0..Len(trustRef) :
                n \in 0..Len(trustRef') /\ SubSeq(trustRef', 1, n) = SubSeq(trustRef, 1, n)
           /\ \A i \in 1..Len(trustRef) : i \in 1..Len(trustRef') /\ trustRef'[i] = trustRef[i]
           /\ \E i \in 1..Len(trustRef') : trustRef'[i] = append[a].record
  <1> DEFINE r == append[a].record
  <1>1. PICK Q : trustRef \in Seq(Q)
    BY DEF TrustInv, TrustShape
  <1> DEFINE S == Q \cup {r}
  <1>2. trustRef \in Seq(S) /\ r \in S
    BY <1>1, SeqMonotonic
  <1>3. trustRef' = Append(trustRef, r) /\ rebased' = (rebased \/ append[a].moved)
    BY DEF landRecord, swaps
  <1>4. accepts(r, trustRef)
    BY DEF TrustInv, acceptedInv, swaps
  <1>5. /\ linked(trustRef) /\ distinctIds(trustRef)
        /\ evidence(trustRef, buildState(trustRef))
        /\ ~rebased => buildState(trustRef).errors = 0
        /\ append[a].moved \in BOOLEAN /\ rebased \in BOOLEAN
        /\ ~append[a].moved => \E n \in 0..Len(trustRef) : fits(r, SubSeq(trustRef, 1, n))
    BY DEF TrustInv, chainInv, evidenceInv, composedInv, TrustShape, appendShape, AppendFrom
  <1> HIDE DEF r, S
  <1>6. linked(trustRef') /\ distinctIds(trustRef')
    BY <1>2, <1>3, <1>4, <1>5, LinkStep
  <1>7. buildState(trustRef') = processRecord(buildState(trustRef), r)
    BY <1>2, <1>3, BuildAppend
  <1>8. evidence(trustRef', buildState(trustRef'))
    BY <1>2, <1>3, <1>4, <1>5, <1>7, EvidenceStep DEF accepts
  <1>9. ASSUME ~rebased'
        PROVE  buildState(trustRef').errors = 0
    <2>1. ~rebased /\ ~append[a].moved
      BY <1>3, <1>5, <1>9
    <2>2. PICK n \in 0..Len(trustRef) : fits(r, SubSeq(trustRef, 1, n))
      BY <1>5, <2>1
    <2>3. tipId(SubSeq(trustRef, 1, n)) = tipId(trustRef)
      BY <1>4, <2>2 DEF accepts, fits
    <2>4. SubSeq(trustRef, 1, n) = trustRef
      BY <1>2, <1>5, <2>3, TipNamesPrefix
    <2>5. processRecord(buildState(trustRef), r).errors = buildState(trustRef).errors
      BY <2>2, <2>4 DEF fits
    <2> QED
      BY <1>5, <1>7, <2>1, <2>5
  <1>10. \A n \in 0..Len(trustRef) :
           n \in 0..Len(trustRef') /\ SubSeq(trustRef', 1, n) = SubSeq(trustRef, 1, n)
    BY <1>2, <1>3, PrefixStays
  <1>11. /\ trustRef' \in Seq(S) /\ Len(trustRef) \in Nat /\ Len(trustRef') = Len(trustRef) + 1
         /\ \A i \in 1..Len(trustRef) : trustRef'[i] = trustRef[i]
         /\ trustRef'[Len(trustRef) + 1] = r
    BY <1>2, <1>3, Appended
  <1>12. /\ \A i \in 1..Len(trustRef) : i \in 1..Len(trustRef')
         /\ Len(trustRef) + 1 \in 1..Len(trustRef')
    BY <1>11
  <1>13. chainInv' /\ evidenceInv'
    BY <1>6, <1>8, <1>9 DEF chainInv, evidenceInv
  <1>14. rebased' \in BOOLEAN
    BY <1>3, <1>5
  <1> QED
    BY <1>10, <1>11, <1>12, <1>13, <1>14 DEF r

\* A step that leaves the chain and changes one append, to none or to one
\* that was accepted where it says so and is composed on a prefix or moved.
LEMMA AppendChange ==
    ASSUME TrustInv, NEW a \in Admin, NEW x,
           append' = [append EXCEPT ![a] = x],
           UNCHANGED <<trustRef, acked, rebased>>,
           x # None => /\ appendShape(x)
                       /\ x.pc \in {"swap", "check"} => accepts(x.record, x.parent)
                       /\ ~x.moved => \E n \in 0..Len(trustRef) : fits(x.record, SubSeq(trustRef, 1, n))
    PROVE  TrustInv'
  <1>1. append = [b \in Admin |-> append[b]]
    BY DEF TrustInv, TrustShape
  <1>2. \A b \in Admin : append'[b] = IF b = a THEN x ELSE append[b]
    BY <1>1
  <1>3. append' = [b \in Admin |-> append'[b]]
    BY <1>1, <1>2
  <1>4. TrustShape'
    <2>1. \A b \in Admin : append'[b] # None => appendShape(append'[b])
      BY <1>2 DEF TrustInv, TrustShape
    <2>2. \E S : trustRef' \in Seq(S)
      BY DEF TrustInv, TrustShape
    <2> QED
      BY <1>3, <2>1, <2>2 DEF TrustInv, TrustShape
  <1>5. acceptedInv'
    BY <1>2 DEF TrustInv, acceptedInv
  <1>6. composedInv'
    BY <1>2 DEF TrustInv, composedInv
  <1>7. chainInv' /\ ackedInv' /\ evidenceInv'
    BY DEF TrustInv, chainInv, ackedInv, evidenceInv
  <1> QED
    BY <1>4, <1>5, <1>6, <1>7 DEF TrustInv

\* The updates of an append under way keep its fields.
LEMMA AppendToCheck ==
    ASSUME NEW x, appendShape(x), NEW y, y = [x EXCEPT !.pc = "check"]
    PROVE  /\ appendShape(y) /\ y.pc = "check" /\ y.record = x.record
           /\ y.parent = x.parent /\ y.moved = x.moved
  <1>1. PICK D : x \in AppendFrom(D)
    BY DEF appendShape
  <1>2. y \in AppendFrom(D)
    BY <1>1 DEF AppendFrom
  <1>3. y.pc = "check" /\ y.record = x.record /\ y.parent = x.parent /\ y.moved = x.moved
    BY <1>1 DEF AppendFrom
  <1> QED
    BY <1>2, <1>3 DEF appendShape

LEMMA AppendAgain ==
    ASSUME NEW x, appendShape(x), NEW y,
           y = [[x EXCEPT !.pc = "swap"] EXCEPT !.attempt = @ + 1]
    PROVE  /\ appendShape(y) /\ y.pc = "swap" /\ y.record = x.record
           /\ y.parent = x.parent /\ y.moved = x.moved
  <1>1. PICK C : x \in AppendFrom(C)
    BY DEF appendShape
  <1> DEFINE t == [x EXCEPT !.pc = "swap"].attempt + 1
             D == C \cup {t}
  <1>2. y = [[x EXCEPT !.pc = "swap"] EXCEPT !.attempt = t]
    OBVIOUS
  <1> HIDE DEF t
  <1>3. x \in AppendFrom(D)
    BY <1>1 DEF AppendFrom
  <1>4. t \in D
    OBVIOUS
  <1> HIDE DEF D
  <1>5. y \in AppendFrom(D)
    BY <1>2, <1>3, <1>4 DEF AppendFrom
  <1>6. y.pc = "swap" /\ y.record = x.record /\ y.parent = x.parent /\ y.moved = x.moved
    BY <1>2, <1>3, <1>4 DEF AppendFrom
  <1> QED
    BY <1>5, <1>6 DEF appendShape

LEMMA AppendRebuilt ==
    ASSUME NEW x, appendShape(x), NEW i, NEW s, NEW y,
           y = [[[[x EXCEPT !.pc = "readTip"] EXCEPT !.retries = i] EXCEPT !.moved = TRUE]
                 EXCEPT !.record = s]
    PROVE  appendShape(y) /\ y.pc = "readTip" /\ y.moved = TRUE
  <1>1. PICK C : x \in AppendFrom(C)
    BY DEF appendShape
  <1> DEFINE D == C \cup {i, s}
  <1>2. x \in AppendFrom(D)
    BY <1>1 DEF AppendFrom
  <1>3. i \in D /\ s \in D
    OBVIOUS
  <1> HIDE DEF D
  <1>4. y \in AppendFrom(D)
    BY <1>2, <1>3 DEF AppendFrom
  <1>5. y.pc = "readTip" /\ y.moved = TRUE
    BY <1>2, <1>3 DEF AppendFrom
  <1> QED
    BY <1>4, <1>5 DEF appendShape

\* An admin that looks at the chain, and composes a record at its end.
LEMMA ComposeKeeps ==
    ASSUME TrustInv, NEW a \in Admin, compose(a)
    PROVE  TrustInv'
  <1>1. PICK r, n, b : /\ r.prev = tipId(trustRef)
                       /\ processRecord(buildState(trustRef), r).errors = buildState(trustRef).errors
                       /\ append' = [append EXCEPT ![a] =
                            [pc |-> "readTip", record |-> r, parent |-> << >>, attempt |-> 1,
                             retries |-> n, resign |-> b, moved |-> FALSE]]
    <2> DEFINE tip == tipId(trustRef)
               rec(t, k, i, w) ==
                 sign([recordType |-> t, keyId |-> k, writerId |-> w, issuerKeyId |-> i,
                       prev |-> tip, recordId |-> None, signature |-> None])
    <2>1. \E t \in recordTypes, k \in SigningKey, i \in SigningKey, w \in Subject \cup {None},
             retries \in {0, maxRetries}, resign \in BOOLEAN :
             /\ TrustRecordSchema(rec(t, k, i, w))
             /\ processRecord(buildState(trustRef), rec(t, k, i, w)).errors = buildState(trustRef).errors
             /\ retries = 0 => ~resign
             /\ append' = [append EXCEPT ![a] =
                  [pc |-> "readTip", record |-> rec(t, k, i, w), parent |-> << >>, attempt |-> 1,
                   retries |-> retries, resign |-> resign, moved |-> FALSE]]
      BY Zenon DEF compose
    <2>2. \A t, k, i, w : rec(t, k, i, w).prev = tip
      <3> HIDE DEF tip
      <3> QED
        BY DEF sign
    <2> HIDE DEF rec
    <2>3. PICK t, k, i, w, retries, resign :
             /\ processRecord(buildState(trustRef), rec(t, k, i, w)).errors = buildState(trustRef).errors
             /\ append' = [append EXCEPT ![a] =
                  [pc |-> "readTip", record |-> rec(t, k, i, w), parent |-> << >>, attempt |-> 1,
                   retries |-> retries, resign |-> resign, moved |-> FALSE]]
      BY <2>1, Zenon
    <2>4. rec(t, k, i, w).prev = tipId(trustRef)
      BY <2>2
    <2> QED
      BY <2>3, <2>4, Zenon
  <1> DEFINE x == [pc |-> "readTip", record |-> r, parent |-> << >>, attempt |-> 1,
                   retries |-> n, resign |-> b, moved |-> FALSE]
  <1>2. UNCHANGED <<trustRef, acked, rebased>>
    BY DEF compose
  <1>3. appendShape(x) /\ x.pc = "readTip" /\ x.record = r
    <2> DEFINE D == {r, << >>, 1, n, b}
    <2>1. x \in AppendFrom(D)
      BY DEF AppendFrom
    <2>2. x.pc = "readTip" /\ x.record = r
      OBVIOUS
    <2> HIDE DEF x, D
    <2> QED
      BY <2>1, <2>2 DEF appendShape
  <1>4. Len(trustRef) \in 0..Len(trustRef) /\ SubSeq(trustRef, 1, Len(trustRef)) = trustRef
    <2>1. PICK S : trustRef \in Seq(S)
      BY DEF TrustInv, TrustShape
    <2> QED
      BY <2>1, SubSeqFull, LenProperties
  <1>5. fits(r, SubSeq(trustRef, 1, Len(trustRef)))
    BY <1>1, <1>4 DEF fits
  <1>6. append' = [append EXCEPT ![a] = x]
    BY <1>1
  <1> HIDE DEF x
  <1> QED
    BY <1>2, <1>3, <1>4, <1>5, <1>6, AppendChange

\* A record that is accepted is ready to be swapped in.
LEMMA AppendRecordKeeps ==
    ASSUME TrustInv, NEW a \in Admin, appendRecord(a)
    PROVE  TrustInv'
  <1> DEFINE p == append[a]
  <1>1. p # None /\ p.pc = "readTip" /\ UNCHANGED <<trustRef, acked, rebased>>
    BY DEF appendRecord
  <1>2. /\ appendShape(p) /\ append = [b \in Admin |-> append[b]]
        /\ ~p.moved => \E n \in 0..Len(trustRef) : fits(p.record, SubSeq(trustRef, 1, n))
    BY <1>1 DEF TrustInv, TrustShape, composedInv
  <1>3. CASE append' = [append EXCEPT ![a] = None]
    BY <1>1, <1>3, AppendChange
  <1>4. CASE /\ accepts(p.record, trustRef)
             /\ append' = [append EXCEPT ![a].pc = "swap", ![a].parent = trustRef, ![a].attempt = 1]
    <2>1. PICK x : x = [[[p EXCEPT !.pc = "swap"] EXCEPT !.parent = trustRef] EXCEPT !.attempt = 1]
      OBVIOUS
    <2>2. append' = [append EXCEPT ![a] = x]
      BY <1>2, <1>4, <2>1
    <2>3. /\ appendShape(x) /\ x.record = p.record /\ x.parent = trustRef /\ x.moved = p.moved
      <3> HIDE DEF p
      <3>1. PICK C : p \in AppendFrom(C)
        BY <1>2 DEF appendShape
      <3> DEFINE D == C \cup {trustRef, 1}
      <3>2. p \in AppendFrom(D)
        BY <3>1 DEF AppendFrom
      <3>3. trustRef \in D /\ 1 \in D
        OBVIOUS
      <3> HIDE DEF D
      <3>4. x \in AppendFrom(D)
        BY <2>1, <3>2, <3>3 DEF AppendFrom
      <3>5. x.record = p.record /\ x.parent = trustRef /\ x.moved = p.moved
        BY <2>1, <3>2, <3>3 DEF AppendFrom
      <3> QED
        BY <3>4, <3>5 DEF appendShape
    <2> QED
      BY <1>1, <1>2, <1>4, <2>2, <2>3, AppendChange
  <1> QED
    BY <1>3, <1>4 DEF appendRecord, done

\* After a swap that failed or was not answered the append is tried again,
\* given up, or rebuilt.
LEMMA CheckKeeps ==
    ASSUME TrustInv, NEW a \in Admin, check(a)
    PROVE  TrustInv'
  <1> DEFINE p == append[a]
  <1>1. p # None /\ p.pc = "check" /\ UNCHANGED <<trustRef, acked, rebased>>
    BY DEF check
  <1>2. /\ appendShape(p) /\ append = [b \in Admin |-> append[b]]
        /\ accepts(p.record, p.parent)
        /\ ~p.moved => \E n \in 0..Len(trustRef) : fits(p.record, SubSeq(trustRef, 1, n))
    BY <1>1 DEF TrustInv, TrustShape, composedInv, acceptedInv
  <1>3. CASE append' = [append EXCEPT ![a] = None]
    BY <1>1, <1>3, AppendChange
  <1>4. CASE append' = [append EXCEPT ![a].pc = "swap", ![a].attempt = @ + 1]
    <2> DEFINE x == [[p EXCEPT !.pc = "swap"] EXCEPT !.attempt = @ + 1]
    <2>1. append' = [append EXCEPT ![a] = x]
      BY <1>2, <1>4
    <2>2. /\ appendShape(x) /\ x.record = p.record /\ x.parent = p.parent /\ x.moved = p.moved
      BY <1>2, AppendAgain
    <2> HIDE DEF x
    <2> QED
      BY <1>1, <1>2, <1>4, <2>1, <2>2, AppendChange
  <1>5. CASE append' = [append EXCEPT ![a] =
               [p EXCEPT !.pc = "readTip", !.retries = @ - 1, !.moved = TRUE,
                         !.record = rebuild(@, trustRef, p.resign)]]
    <2> DEFINE n == [p EXCEPT !.pc = "readTip"].retries - 1
               q == [[[p EXCEPT !.pc = "readTip"] EXCEPT !.retries = n] EXCEPT !.moved = TRUE]
               r == rebuild(q.record, trustRef, p.resign)
               y == [q EXCEPT !.record = r]
    <2>1. append' = [append EXCEPT ![a] = y]
      BY <1>2, <1>5
    <2> HIDE DEF n, r
    <2>2. appendShape(y) /\ y.pc = "readTip" /\ y.moved = TRUE
      BY <1>2, AppendRebuilt
    <2> HIDE DEF y
    <2> QED
      BY <1>1, <2>1, <2>2, AppendChange
  <1> QED
    BY <1>3, <1>4, <1>5 DEF check, done

\* A swap that is done and answered, done without an answer, or not done.
LEMMA SwapKeeps ==
    ASSUME NoneIsNoId, TrustInv, NEW a \in Admin, swap(a)
    PROVE  TrustInv'
  <1> DEFINE p == append[a]
  <1>1. p # None /\ p.pc = "swap"
    BY DEF swap
  <1>2. /\ appendShape(p) /\ append = [b \in Admin |-> append[b]]
        /\ accepts(p.record, p.parent)
        /\ ~p.moved => \E n \in 0..Len(trustRef) : fits(p.record, SubSeq(trustRef, 1, n))
    BY <1>1 DEF TrustInv, TrustShape, composedInv, acceptedInv
  <1>3. PICK x : x = [p EXCEPT !.pc = "check"]
    OBVIOUS
  <1>4. appendShape(x) /\ x.pc = "check" /\ x.record = p.record /\ x.parent = p.parent /\ x.moved = p.moved
    <2> HIDE DEF p
    <2> QED
      BY <1>2, <1>3, AppendToCheck
  <1>5. CASE /\ append' = [append EXCEPT ![a].pc = "check"]
             /\ UNCHANGED <<trustRef, acked, rebased>>
    <2>1. append' = [append EXCEPT ![a] = x]
      BY <1>2, <1>3, <1>5
    <2> QED
      BY <1>2, <1>4, <1>5, <2>1, AppendChange
  <1>6. ASSUME swaps(p.parent), landRecord(a), NEW y, append' = [append EXCEPT ![a] = y],
               y # None => y = x,
               \A id \in acked' : id \in acked \/ id = p.record.recordId
        PROVE  TrustInv'
    <2>1. /\ \E S : trustRef' \in Seq(S)
          /\ rebased' \in BOOLEAN
          /\ chainInv' /\ evidenceInv'
          /\ \A n \in 0..Len(trustRef) :
               n \in 0..Len(trustRef') /\ SubSeq(trustRef', 1, n) = SubSeq(trustRef, 1, n)
          /\ \A i \in 1..Len(trustRef) : i \in 1..Len(trustRef') /\ trustRef'[i] = trustRef[i]
          /\ \E i \in 1..Len(trustRef') : trustRef'[i] = p.record
      BY <1>1, <1>6, LandStep
    <2>2. \A b \in Admin : append'[b] = IF b = a THEN y ELSE append[b]
      BY <1>2, <1>6
    <2>3. append' = [b \in Admin |-> append'[b]]
      BY <1>2, <1>6, <2>2
    <2>4. TrustShape'
      <3>1. \A b \in Admin : append'[b] # None => appendShape(append'[b])
        BY <1>4, <1>6, <2>2 DEF TrustInv, TrustShape
      <3> QED
        BY <2>1, <2>3, <3>1 DEF TrustShape
    <2>5. ackedInv'
      <3> SUFFICES ASSUME NEW id \in acked'
                   PROVE  \E i \in 1..Len(trustRef') : trustRef'[i].recordId = id
        BY DEF ackedInv
      <3>1. CASE id = p.record.recordId
        BY <2>1, <3>1
      <3>2. CASE id \in acked
        <4>1. PICK i \in 1..Len(trustRef) : trustRef[i].recordId = id
          BY <3>2 DEF TrustInv, ackedInv
        <4> QED
          BY <2>1, <4>1
      <3> QED
        BY <1>6, <3>1, <3>2
    <2>6. acceptedInv'
      <3> SUFFICES ASSUME NEW b \in Admin, append'[b] # None, append'[b].pc \in {"swap", "check"}
                   PROVE  accepts(append'[b].record, append'[b].parent)
        BY DEF acceptedInv
      <3>1. CASE b = a
        BY <1>2, <1>4, <1>6, <2>2, <3>1
      <3>2. CASE b # a
        BY <2>2, <3>2 DEF TrustInv, acceptedInv
      <3> QED
        BY <3>1, <3>2
    <2>7. composedInv'
      <3> SUFFICES ASSUME NEW b \in Admin, append'[b] # None, ~append'[b].moved
                   PROVE  \E n \in 0..Len(trustRef') : fits(append'[b].record, SubSeq(trustRef', 1, n))
        BY DEF composedInv
      <3>1. append[b] # None /\ ~append[b].moved /\ append'[b].record = append[b].record
        BY <1>1, <1>4, <1>6, <2>2
      <3>2. PICK n \in 0..Len(trustRef) : fits(append[b].record, SubSeq(trustRef, 1, n))
        BY <3>1 DEF TrustInv, composedInv
      <3>3. n \in 0..Len(trustRef') /\ SubSeq(trustRef', 1, n) = SubSeq(trustRef, 1, n)
        BY <2>1, <3>2
      <3> QED
        BY <3>1, <3>2, <3>3
    <2> QED
      BY <2>1, <2>4, <2>5, <2>6, <2>7 DEF TrustInv
  <1>7. CASE swaps(p.parent) /\ landRecord(a) /\ done(a) /\ acked' = acked \cup {p.record.recordId}
    BY <1>6, <1>7 DEF done
  <1>8. CASE /\ swaps(p.parent) /\ landRecord(a) /\ UNCHANGED acked
             /\ append' = [append EXCEPT ![a].pc = "check"]
    <2>1. append' = [append EXCEPT ![a] = x]
      BY <1>2, <1>3, <1>8
    <2> QED
      BY <1>6, <1>8, <2>1
  <1> QED
    BY <1>5, <1>7, <1>8 DEF swap

\* What the invariant says of the verdicts about writers.
LEMMA EvidenceSuffices ==
    ASSUME TrustInv
    PROVE  TrustFollowsItsChain
  <1> DEFINE st == buildState(trustRef)
             N == 1..Len(trustRef)
  <1>1. PICK S : trustRef \in Seq(S)
    BY DEF TrustInv, TrustShape
  <1>2. Len(trustRef) \in Nat
    BY <1>1, LenProperties
  <1>3. verifyChain(trustRef) = {}
    <2> SUFFICES ASSUME NEW i \in N
                 PROVE  /\ TrustRecordSchema(trustRef[i]) /\ verifyRecordId(trustRef[i])
                        /\ ~ \E j \in 1..(i - 1) : trustRef[j].recordId = trustRef[i].recordId
                        /\ trustRef[i].prev = IF i = 1 THEN None ELSE trustRef[i - 1].recordId
      BY DEF verifyChain
    <2>1. /\ TrustRecordSchema(trustRef[i]) /\ verifyRecordId(trustRef[i])
          /\ trustRef[i].prev = IF i = 1 THEN None ELSE trustRef[i - 1].recordId
      BY DEF TrustInv, chainInv, linked
    <2>2. ASSUME NEW j \in 1..(i - 1), trustRef[j].recordId = trustRef[i].recordId
          PROVE  FALSE
      <3>1. j \in N /\ j # i
        BY <1>2
      <3> QED
        BY <2>2, <3>1 DEF TrustInv, chainInv, distinctIds
    <2> QED
      BY <2>1, <2>2
  <1>4. trustChainVerifies
    BY <1>3 DEF trustChainVerifies, TrustInv, ackedInv
  <1>5. evidence(trustRef, st) /\ (~rebased => st.errors = 0)
    BY DEF TrustInv, evidenceInv
  <1>6. ASSUME NEW w \in Subject,
               evaluateTrust(trustRef).reasons[w] = "WRITER_BOUND_TO_ACTIVE_KEY"
        PROVE  \E k \in SigningKey, i, j \in N :
                 /\ i < j /\ is(trustRef, i, "KEY_ADD", k)
                 /\ is(trustRef, j, "WRITER_BIND_ADD", k) /\ trustRef[j].writerId = w
                 /\ \A n \in N : ~is(trustRef, n, "KEY_REVOKE", k)
                 /\ \A n \in (j + 1)..Len(trustRef) :
                      ~(is(trustRef, n, "WRITER_BIND_REVOKE", k) /\ trustRef[n].writerId = w)
    <2>1. evaluateTrust(trustRef).reasons = evaluateWriters(st)
      BY <1>3 DEF evaluateTrust
    <2> HIDE DEF st
    <2>2. st \in TrustState
      BY <1>5 DEF evidence
    <2>3. evaluateWriters(st)[w] = IF st.errors > 0 THEN "TRUST_RECORD_CHAIN_INVALID"
                                   ELSE evaluateSingleWriter(w, st)
      BY DEF evaluateWriters
    <2>4. st.errors = 0 /\ evaluateSingleWriter(w, st) = "WRITER_BOUND_TO_ACTIVE_KEY"
      BY <1>6, <2>1, <2>2, <2>3 DEF TrustState
    <2>5. {b[2] : b \in {c \in st.bound : c[1] = w}} \cap st.active # {}
      BY <2>4 DEF evaluateSingleWriter
    <2>6. PICK b \in st.bound : b[1] = w /\ b[2] \in st.active
      BY <2>5
    <2> DEFINE k == b[2]
    <2>7. k \in SigningKey
      BY <2>2, <2>6 DEF TrustState
    <2>8. keyEvidence(trustRef, st) /\ bindEvidence(trustRef, w, k)
      BY <1>5, <2>4, <2>6 DEF evidence
    <2> HIDE DEF k
    <2>9. k \in st.active
      BY <2>6 DEF k
    <2>10. \A n \in N : ~is(trustRef, n, "KEY_REVOKE", k)
      BY <2>8, <2>9 DEF keyEvidence, is
    <2> QED
      BY <2>7, <2>8, <2>10 DEF bindEvidence
  <1>7. trustMatchesEvidence
    <2> SUFFICES \A w \in Subject :
                   evaluateTrust(trustRef).reasons[w] = "WRITER_BOUND_TO_ACTIVE_KEY" =>
                     \E k \in SigningKey, i, j \in N :
                       /\ i < j /\ is(trustRef, i, "KEY_ADD", k)
                       /\ is(trustRef, j, "WRITER_BIND_ADD", k) /\ trustRef[j].writerId = w
                       /\ \A n \in N : ~is(trustRef, n, "KEY_REVOKE", k)
                       /\ \A n \in (j + 1)..Len(trustRef) :
                            ~(is(trustRef, n, "WRITER_BIND_REVOKE", k) /\ trustRef[n].writerId = w)
      BY <1>5, Zenon DEF trustMatchesEvidence, is
    <2> QED
      BY <1>6
  <1> QED
    BY <1>4, <1>7 DEF TrustFollowsItsChain

\* For any admins, keys and writers, whatever appends race, lose their answer
\* or are retried: the chain behind the trust ref verifies and keeps every
\* record that an append has answered for, a writer is trusted only on the
\* evidence of the records, and no record that stands where it was composed
\* is refused (TrustRecordService.appendRecord, _persistRecord, verifyChain;
\* TrustStateBuilder; TrustEvaluator).
THEOREM TrustAlwaysFollows ==
    ASSUME NoneIsNoId
    PROVE  TrustSpec => []TrustFollowsItsChain
  <1>1. TrustInit => TrustInv
    <2> SUFFICES ASSUME TrustInit
                 PROVE  TrustInv
      OBVIOUS
    <2>1. /\ trustRef = << >> /\ append = [a \in Admin |-> None] /\ acked = {} /\ rebased = FALSE
      BY DEF TrustInit
    <2>2. trustRef \in Seq({}) /\ Len(trustRef) = 0
      BY <2>1
    <2>3. TrustShape
      <3>1. \A a \in Admin : append[a] = None
        BY <2>1
      <3>2. append = [a \in Admin |-> append[a]]
        BY <2>1, <3>1
      <3> QED
        BY <2>1, <2>2, <3>1, <3>2 DEF TrustShape
    <2>4. chainInv /\ ackedInv
      BY <2>1, <2>2 DEF chainInv, linked, distinctIds, ackedInv
    <2>5. acceptedInv /\ composedInv
      BY <2>1 DEF acceptedInv, composedInv
    <2>6. buildState(trustRef) = createTrustState
      BY <2>1, BuildEmpty
    <2>7. /\ createTrustState \in TrustState /\ createTrustState.errors = 0
          /\ createTrustState.active = {} /\ createTrustState.bound = {}
      BY DEF createTrustState, TrustState
    <2>8. evidenceInv
      BY <2>2, <2>6, <2>7 DEF evidenceInv, evidence, keyEvidence
    <2> QED
      BY <2>3, <2>4, <2>5, <2>8 DEF TrustInv
  <1>2. TrustInv /\ [TrustNext]_trustVars => TrustInv'
    <2> SUFFICES ASSUME TrustInv, [TrustNext]_trustVars
                 PROVE  TrustInv'
      OBVIOUS
    <2>1. CASE UNCHANGED trustVars
      BY <2>1 DEF trustVars, TrustInv, TrustShape, chainInv, ackedInv, acceptedInv, composedInv,
                  evidenceInv
    <2>2. ASSUME NEW a \in Admin, compose(a)
          PROVE  TrustInv'
      BY <2>2, ComposeKeeps
    <2>3. ASSUME NEW a \in Admin, appendRecord(a)
          PROVE  TrustInv'
      BY <2>3, AppendRecordKeeps
    <2>4. ASSUME NEW a \in Admin, swap(a)
          PROVE  TrustInv'
      BY <2>4, SwapKeeps
    <2>5. ASSUME NEW a \in Admin, check(a)
          PROVE  TrustInv'
      BY <2>5, CheckKeeps
    <2> QED
      BY <2>1, <2>2, <2>3, <2>4, <2>5 DEF TrustNext
  <1>3. TrustInv => TrustFollowsItsChain
    BY EvidenceSuffices
  <1> QED
    BY <1>1, <1>2, <1>3, PTL DEF TrustSpec

----------------------------------------------------------------------------
(* Time travel.  What is remembered is related to the refs by three        *)
(* predicates on the lamports L of the patches behind them.                *)

SeekSpec == SeekInit /\ [][SeekNext]_seekVars

patchesIn(L, f, c) ==
    {p \in SeekWriter \X (1..MaxCommits) : p[2] <= f[p[1]] /\ (c = null \/ L[p[1]][p[2]] <= c)}

frontierIn(L) == [w \in SeekWriter |-> Len(L[w])]

Lamports == [SeekWriter -> Seq(Nat \ {0})]

\* The frontier f was that of the refs at some time.
past(L, f) == f \in [SeekWriter -> Int] /\ \A w \in SeekWriter : f[w] <= Len(L[w])

\* All the patches up to c that f has, and of later ones none above c.
holds(L, S, f, c) == patchesIn(L, f, c) \subseteq S /\ S \subseteq patchesIn(L, frontierIn(L), c)

entryOk(L, e) ==
    past(L, e.key[2]) /\ holds(L, e.state, e.key[2], e.key[1]) /\ e.index = e.state

indexOk(L, ix) == (\E D : ix \in Seq(D)) /\ \A k \in 1..Len(ix) : entryOk(L, ix[k])

tickOk(c) == c \in Int \ {null}

instShape(D) ==
    [has : BOOLEAN, dirty : BOOLEAN, state : D, ceiling : D, frontier : D, prov : D,
     hasProv : BOOLEAN, degraded : BOOLEAN, index : D, joined : BOOLEAN, answer : D]

\* What an instance remembers for the present frontier.
stateOk(L, g) ==
    g.has /\ ~g.dirty /\ ~g.joined /\ g.ceiling # null /\ g.frontier = frontierIn(L)
      => g.state = patchesIn(L, g.frontier, g.ceiling) /\ g.index = g.state

answerOk(L, g) ==
    g.answer # none /\ ~g.joined =>
      past(L, g.answer.since) /\ holds(L, g.answer.state, g.answer.since, g.answer.ceiling)

provOk(g) == g.has /\ ~g.dirty /\ ~g.joined /\ g.hasProv /\ ~g.degraded => g.prov = g.state

instOk(L, g) ==
    /\ \E D : g \in instShape(D)
    /\ past(L, g.frontier) /\ stateOk(L, g) /\ answerOk(L, g) /\ provOk(g)

jobShape(D) ==
    [ceiling : D, frontier : D, receipts : BOOLEAN, got : D, phase : D,
     todo : SUBSET SeekWriter, entry : D, index : D]

withEntry == {"touch", "delete", "touching", "deleting"}

\* A materialization for a ceiling has what it has walked.
walkOk(L, j) ==
    /\ tickOk(j.ceiling)
    /\ j.got \subseteq patchesIn(L, frontierIn(L), j.ceiling)
    /\ \A p \in patchesIn(L, j.frontier, j.ceiling) : p[1] \in j.todo \/ p \in j.got

foundOk(L, j) == j.phase \in withEntry =>
    entryOk(L, j.entry) /\ j.entry.key = <<j.ceiling, j.frontier>>

jobOk(L, j) ==
    /\ \E D : j \in jobShape(D)
    /\ past(L, j.frontier) /\ indexOk(L, j.index)
    /\ j.ceiling = null => j.phase = "walk"
    /\ j.ceiling # null => walkOk(L, j)
    /\ foundOk(L, j)

putShape(D) == [kind : D, phase : D, index : D, entry : D]

putOk(L, m) ==
    /\ (\E D : m \in putShape(D)) /\ m.kind = "set"
    /\ indexOk(L, m.index) /\ entryOk(L, m.entry)

cursorOk(L, x) ==
    /\ past(L, x.frontier) /\ tickOk(x.tick)
    /\ x.frontier = frontierIn(L) => x.count = Cardinality(patchesIn(L, x.frontier, x.tick))

cmdShape(D) == [action : D, tick : D, prev : D, frontier : D, started : BOOLEAN]

commandOk(L, x) ==
    /\ \E D : x \in cmdShape(D)
    /\ tickOk(x.tick) /\ past(L, x.frontier)
    /\ x.prev # none => cursorOk(L, x.prev)

\* x has the tick of command y and is not older.
follows(x, y) ==
    x.ceiling = y.tick /\ \A w \in SeekWriter : y.frontier[w] <= x.frontier[w]

\* The command and the instance it works with.
cliOk ==
    /\ job[Cli] # none => cmd # none /\ cmd.started
    /\ ~inst[Cli].dirty /\ ~inst[Cli].joined
    /\ cmd # none /\ cmd.started /\ job[Cli] = none => inst[Cli].has /\ follows(inst[Cli], cmd)
    /\ cmd # none /\ cmd.started /\ job[Cli] # none => follows(job[Cli], cmd)

SeekIInv ==
    /\ lamports \in Lamports
    /\ DOMAIN inst = Instance /\ inst = [i \in Instance |-> inst[i]]
    /\ \A i \in Instance : instOk(lamports, inst[i])
    /\ DOMAIN job = Instance /\ job = [i \in Instance |-> job[i]]
    /\ \A i \in Instance : job[i] # none => jobOk(lamports, job[i])
    /\ \A m \in puts : putOk(lamports, m)
    /\ indexOk(lamports, cache)
    /\ cursor # none => cursorOk(lamports, cursor)
    /\ saved # none => cursorOk(lamports, saved)
    /\ cmd # none => commandOk(lamports, cmd)
    /\ cliOk

----------------------------------------------------------------------------
(* The refs only grow.                                                     *)

grown(L, M) ==
    /\ L \in Lamports /\ M \in Lamports
    /\ \A w \in SeekWriter : /\ Len(L[w]) <= Len(M[w])
                             /\ \A i \in 1..Len(L[w]) : M[w][i] = L[w][i]

\* The frontier of the refs is one of theirs.
LEMMA FrontierIsPast ==
    ASSUME NEW L \in Lamports
    PROVE  past(L, frontierIn(L)) /\ \A w \in SeekWriter : Len(L[w]) \in Nat
  BY LenProperties DEF past, frontierIn, Lamports

\* Patches behind an earlier frontier stay as they are; the others only grow.
LEMMA PatchesStay ==
    ASSUME NEW L, NEW M, grown(L, M), NEW f, past(L, f), NEW c
    PROVE  /\ past(M, f)
           /\ patchesIn(M, f, c) = patchesIn(L, f, c)
           /\ patchesIn(L, f, c) \subseteq patchesIn(L, frontierIn(L), c)
           /\ patchesIn(L, frontierIn(L), c) \subseteq patchesIn(M, frontierIn(M), c)
           /\ f = frontierIn(M) => f = frontierIn(L)
  <1>1. \A w \in SeekWriter : /\ Len(L[w]) \in Nat /\ Len(M[w]) \in Nat /\ Len(L[w]) <= Len(M[w])
                              /\ f[w] \in Int /\ f[w] <= Len(L[w])
                              /\ frontierIn(L)[w] = Len(L[w]) /\ frontierIn(M)[w] = Len(M[w])
    BY LenProperties DEF grown, Lamports, past, frontierIn
  <1>2. past(M, f)
    BY <1>1 DEF past
  <1>3. \A w \in SeekWriter, i \in 1..MaxCommits : i <= Len(L[w]) => M[w][i] = L[w][i]
    BY <1>1, SeekAssumption DEF grown
  <1>4. \A w \in SeekWriter, i \in 1..MaxCommits : i \in Int
    BY SeekAssumption
  <1>5. \A w \in SeekWriter, i \in 1..MaxCommits : i <= f[w] => i <= Len(L[w]) /\ i <= Len(M[w])
    BY <1>1, <1>4
  <1>6. \A p \in SeekWriter \X (1..MaxCommits) : /\ p[1] \in SeekWriter /\ p[2] \in 1..MaxCommits
                                                /\ p[2] <= f[p[1]] => L[p[1]][p[2]] = M[p[1]][p[2]]
    BY <1>3, <1>5
  <1>7. patchesIn(M, f, c) = patchesIn(L, f, c)
    BY <1>6 DEF patchesIn
  <1>8. patchesIn(L, f, c) \subseteq patchesIn(L, frontierIn(L), c)
    BY <1>1, <1>5 DEF patchesIn
  <1>9. patchesIn(L, frontierIn(L), c) \subseteq patchesIn(M, frontierIn(M), c)
    <2> SUFFICES ASSUME NEW p \in patchesIn(L, frontierIn(L), c)
                 PROVE  p \in patchesIn(M, frontierIn(M), c)
      OBVIOUS
    <2>1. p \in SeekWriter \X (1..MaxCommits) /\ p[1] \in SeekWriter /\ p[2] \in 1..MaxCommits
          /\ p[2] \in Int
      BY SeekAssumption DEF patchesIn
    <2>2. p[2] <= Len(L[p[1]]) /\ (c = null \/ L[p[1]][p[2]] <= c)
      BY <1>1, <2>1 DEF patchesIn
    <2>3. p[2] <= frontierIn(M)[p[1]] /\ M[p[1]][p[2]] = L[p[1]][p[2]]
      BY <1>1, <1>3, <2>1, <2>2
    <2> QED
      BY <2>1, <2>2, <2>3 DEF patchesIn
  <1>10. ASSUME f = frontierIn(M)
         PROVE  f = frontierIn(L)
    <2>1. \A w \in SeekWriter : f[w] = Len(L[w])
      BY <1>1, <1>10
    <2> QED
      BY <2>1 DEF past, frontierIn
  <1> QED
    BY <1>2, <1>7, <1>8, <1>9, <1>10

LEMMA Unchanged ==
    ASSUME NEW L \in Lamports
    PROVE  grown(L, L)
  BY LenProperties DEF grown, Lamports

LEMMA HoldsStays ==
    ASSUME NEW L, NEW M, grown(L, M), NEW S, NEW f, NEW c, past(L, f), holds(L, S, f, c)
    PROVE  past(M, f) /\ holds(M, S, f, c)
  BY PatchesStay DEF holds

\* What holds for the present frontier is exact.
LEMMA HoldsNow ==
    ASSUME NEW L \in Lamports, NEW S, NEW c
    PROVE  holds(L, S, frontierIn(L), c) <=> S = patchesIn(L, frontierIn(L), c)
  BY DEF holds

LEMMA EntryStays ==
    ASSUME NEW L, NEW M, grown(L, M), NEW e, entryOk(L, e)
    PROVE  entryOk(M, e)
  BY HoldsStays DEF entryOk

LEMMA IndexStays ==
    ASSUME NEW L, NEW M, grown(L, M), NEW ix, indexOk(L, ix)
    PROVE  indexOk(M, ix)
  BY EntryStays DEF indexOk

LEMMA InstStays ==
    ASSUME NEW L, NEW M, grown(L, M), NEW g, instOk(L, g)
    PROVE  instOk(M, g)
  <1>1. past(M, g.frontier)
    BY PatchesStay DEF instOk
  <1>2. stateOk(M, g)
    BY PatchesStay DEF instOk, stateOk
  <1>3. answerOk(M, g)
    BY HoldsStays DEF instOk, answerOk
  <1> QED
    BY <1>1, <1>2, <1>3 DEF instOk

LEMMA JobStays ==
    ASSUME NEW L, NEW M, grown(L, M), NEW j, jobOk(L, j)
    PROVE  jobOk(M, j)
  <1>1. past(M, j.frontier) /\ indexOk(M, j.index)
    BY PatchesStay, IndexStays DEF jobOk
  <1>2. j.ceiling # null => walkOk(M, j)
    BY PatchesStay DEF jobOk, walkOk
  <1>3. foundOk(M, j)
    BY EntryStays DEF jobOk, foundOk
  <1> QED
    BY <1>1, <1>2, <1>3 DEF jobOk

LEMMA PutStays ==
    ASSUME NEW L, NEW M, grown(L, M), NEW m, putOk(L, m)
    PROVE  putOk(M, m)
  BY EntryStays, IndexStays DEF putOk

LEMMA CursorStays ==
    ASSUME NEW L, NEW M, grown(L, M), NEW x, cursorOk(L, x)
    PROVE  cursorOk(M, x)
  BY PatchesStay DEF cursorOk

LEMMA CommandStays ==
    ASSUME NEW L, NEW M, grown(L, M), NEW x, commandOk(L, x)
    PROVE  commandOk(M, x)
  BY PatchesStay, CursorStays DEF commandOk

----------------------------------------------------------------------------
(* The points a command can go to.                                         *)

\* A nonempty set of natural numbers has a least element.
LEMMA LeastPoint ==
    ASSUME NEW S, S \subseteq Nat, S # {}
    PROVE  \E x \in S : \A y \in S : x <= y
  <1> DEFINE R == OpToRel(<, Nat)
  <1>1. IsWellFoundedOn(R, Nat)
    BY NatLessThanWellFounded, Zenon
  <1>2. PICK x \in S : \A y \in S : ~(<<y, x>> \in R)
    <2> HIDE DEF R
    <2> QED
      BY <1>1, WFMin
  <1>3. \A y \in S : y < x => <<y, x>> \in R
    BY Zenon DEF OpToRel
  <1>4. \A y \in S : ~(y < x) /\ y \in Nat /\ x \in Nat
    BY <1>2, <1>3
  <1> QED
    BY <1>4

LEMMA AddOne ==
    ASSUME NEW S, NEW x, IsFiniteSet(S), x \notin S
    PROVE  Cardinality(S \cup {x}) = Cardinality(S) + 1
  BY FS_AddElement

\* In a finite set of natural numbers every position is taken.
LEMMA Ranks ==
    ASSUME NEW P, IsFiniteSet(P), P \subseteq Nat
    PROVE  \A k \in Nat : k < Cardinality(P) => \E x \in P : Cardinality({y \in P : y < x}) = k
  <1> DEFINE below(x) == {y \in P : y < x}
             T == {k \in Nat : k < Cardinality(P) => \E x \in P : Cardinality(below(x)) = k}
  <1>0. Cardinality(P) \in Nat /\ \A x : IsFiniteSet(below(x)) /\ Cardinality(below(x)) \in Nat
    BY FS_CardinalityType, FS_Subset
  <1>00. \A y \in P : y \in Nat
    OBVIOUS
  <1>1. 0 \in T
    <2> SUFFICES ASSUME 0 < Cardinality(P)
                 PROVE  \E x \in P : Cardinality(below(x)) = 0
      OBVIOUS
    <2>1. P # {}
      BY FS_EmptySet, <1>0
    <2>2. PICK x \in P : \A y \in P : x <= y
      BY <2>1, LeastPoint
    <2>3. below(x) = {}
      <3>1. \A y \in P : ~(y < x)
        BY <1>00, <2>2
      <3> QED
        BY <3>1
    <2> QED
      BY <2>3, FS_EmptySet
  <1>2. ASSUME NEW k \in Nat, k \in T
        PROVE  k + 1 \in T
    <2> SUFFICES ASSUME k + 1 < Cardinality(P)
                 PROVE  \E x \in P : Cardinality(below(x)) = k + 1
      OBVIOUS
    <2>1. PICK x \in P : Cardinality(below(x)) = k
      BY <1>0, <1>2
    <2>2. x \notin below(x) /\ x \in Nat
      OBVIOUS
    <2>3. Cardinality(below(x) \cup {x}) = k + 1
      <3> HIDE DEF below
      <3> QED
        BY <1>0, <2>1, <2>2, AddOne
    <2>4. {y \in P : x < y} # {}
      <3>1. SUFFICES ASSUME {y \in P : x < y} = {}
                     PROVE  FALSE
        OBVIOUS
      <3>2. P = below(x) \cup {x}
        <4>1. \A y \in P : y < x \/ y = x
          BY <1>00, <2>2, <3>1
        <4> QED
          BY <4>1
      <3> HIDE DEF below
      <3> QED
        BY <1>0, <2>3, <3>2
    <2>5. PICK z \in {y \in P : x < y} : \A y \in {y \in P : x < y} : z <= y
      <3>1. {y \in P : x < y} \subseteq Nat
        OBVIOUS
      <3> QED
        BY <2>4, <3>1, LeastPoint
    <2>6. below(z) = below(x) \cup {x}
      <3>1. \A y \in P : y < z <=> y < x \/ y = x
        BY <1>00, <2>2, <2>5
      <3> QED
        BY <3>1
    <2> QED
      BY <2>3, <2>5, <2>6
  <1> HIDE DEF T
  <1>3. Nat \subseteq T
    BY <1>1, <1>2, SetInduction
  <1> QED
    BY <1>3 DEF T

LEMMA GreatestPoint ==
    ASSUME NEW P, IsFiniteSet(P), P \subseteq Nat, P # {}
    PROVE  \E x \in P : \A y \in P : y <= x
  <1>0. Cardinality(P) \in Nat /\ Cardinality(P) # 0
    BY FS_CardinalityType, FS_EmptySet
  <1>1. PICK x \in P : Cardinality({y \in P : y < x}) = Cardinality(P) - 1
    <2>1. Cardinality(P) - 1 \in Nat /\ Cardinality(P) - 1 < Cardinality(P)
      BY <1>0
    <2> QED
      BY <2>1, Ranks
  <1> DEFINE B == {y \in P : y < x}
  <1>2. B \subseteq P /\ x \notin B /\ x \in Nat
    OBVIOUS
  <1>3. IsFiniteSet(B) /\ Cardinality(B \cup {x}) = Cardinality(P)
    <2>1. IsFiniteSet(B) /\ Cardinality(B) = Cardinality(P) - 1
      BY <1>1, <1>2, FS_Subset
    <2> HIDE DEF B
    <2> QED
      BY <1>0, <1>2, <2>1, AddOne
  <1>4. B \cup {x} = P
    <2>1. B \cup {x} \subseteq P
      BY <1>2
    <2> HIDE DEF B
    <2> QED
      BY <1>3, <2>1, FS_Subset
  <1>5. \A y \in P : y = x \/ y < x
    BY <1>4
  <1> QED
    BY <1>2, <1>5

LEMMA MaxTick ==
    ASSUME NEW T, IsFiniteSet(T), T \subseteq Nat
    PROVE  maxTick(T) \in T \cup {0}
  <1>1. IsFiniteSet(T \cup {0}) /\ T \cup {0} \subseteq Nat /\ T \cup {0} # {}
    BY FS_AddElement
  <1>2. \E x \in T \cup {0} : \A y \in T \cup {0} : y <= x
    BY <1>1, GreatestPoint
  <1>3. \E x \in T \cup {0} : \A y \in T : y <= x
    BY <1>2
  <1> QED
    BY <1>3, Zenon DEF maxTick

LEMMA DeltaPoint ==
    ASSUME NEW T, IsFiniteSet(T), T \subseteq Nat, NEW current, NEW d \in Int
    PROVE  resolveDelta(T, current, d) \in T \cup {0}
  <1> DEFINE points == T \cup {0}
             base == IF current \in points THEN current ELSE 0
             rank(x) == Cardinality({y \in points : y < x})
             wanted == rank(base) + d
             place == IF wanted < 0 THEN 0
                      ELSE IF wanted >= Cardinality(points) THEN Cardinality(points) - 1 ELSE wanted
  <1>1. IsFiniteSet(points) /\ points \subseteq Nat /\ points # {}
    BY FS_AddElement
  <1>2. Cardinality(points) \in Nat /\ Cardinality(points) # 0
    BY <1>1, FS_CardinalityType, FS_EmptySet
  <1>3. rank(base) \in Nat
    <2>1. {y \in points : y < base} \subseteq points
      OBVIOUS
    <2> HIDE DEF points, base
    <2> QED
      BY <1>1, <2>1, FS_Subset, FS_CardinalityType
  <1>4. place \in Nat /\ place < Cardinality(points)
    <2>1. wanted \in Int
      <3> HIDE DEF rank, base, points
      <3> QED
        BY <1>3
    <2> HIDE DEF wanted, points
    <2> QED
      BY <1>2, <2>1
  <1>5. \E x \in points : rank(x) = place
    <2> HIDE DEF points, place
    <2> QED
      BY <1>1, <1>4, Ranks
  <1>6. resolveDelta(T, current, d) = CHOOSE x \in points : rank(x) = place
    BY Zenon DEF resolveDelta
  <1> HIDE DEF points, rank, place
  <1>7. (CHOOSE x \in points : rank(x) = place) \in points
    BY <1>5, Zenon
  <1> QED
    BY <1>6, <1>7 DEF points

\* The ticks behind the refs are finitely many lamports.
LEMMA TicksFinite ==
    ASSUME lamports \in Lamports
    PROVE  IsFiniteSet(discoverTicks(getFrontierNow)) /\ discoverTicks(getFrontierNow) \subseteq Nat
  <1> DEFINE Q == {q \in SeekWriter \X (1..MaxCommits) : q[2] <= getFrontierNow[q[1]]}
  <1>1. IsFiniteSet(SeekWriter \X (1..MaxCommits))
    <2>1. IsFiniteSet(1..MaxCommits)
      BY SeekAssumption, FS_Interval
    <2> QED
      BY <2>1, SeekAssumption, FS_Product
  <1>2. IsFiniteSet(Q)
    BY <1>1, FS_Subset
  <1>3. IsFiniteSet({lamports[p[1]][p[2]] : p \in Q})
    <2> DEFINE V == {lamports[p[1]][p[2]] : p \in Q}
               h == [p \in Q |-> lamports[p[1]][p[2]]]
    <2>1. h \in [Q -> V] /\ \A v \in V : \E p \in Q : h[p] = v
      <3> HIDE DEF Q
      <3> QED
        OBVIOUS
    <2> HIDE DEF Q, V, h
    <2>2. h \in Surjection(Q, V)
      BY <2>1, Fun_IsSurj
    <2>3. IsFiniteSet(V)
      BY <1>2, <2>2, FS_Surjection
    <2> QED
      BY <2>3 DEF V
  <1>4. \A p \in Q : lamports[p[1]][p[2]] \in Nat
    <2> SUFFICES ASSUME NEW p \in Q
                 PROVE  lamports[p[1]][p[2]] \in Nat
      OBVIOUS
    <2>1. p[1] \in SeekWriter /\ p[2] \in 1..MaxCommits /\ p[2] \in Nat \ {0}
          /\ p[2] <= Len(lamports[p[1]])
      BY SeekAssumption DEF getFrontierNow
    <2>2. lamports[p[1]] \in Seq(Nat \ {0}) /\ Len(lamports[p[1]]) \in Nat
      BY <2>1, LenProperties DEF Lamports
    <2>3. p[2] \in 1..Len(lamports[p[1]])
      BY <2>1, <2>2
    <2> QED
      BY <2>2, <2>3, ElementOfSeq
  <1> QED
    BY <1>3, <1>4 DEF discoverTicks

LEMMA TargetTicks ==
    ASSUME lamports \in Lamports,
           cursor # none => tickOk(cursor.tick), saved # none => tickOk(saved.tick),
           NEW x \in seekTargets(discoverTicks(getFrontierNow))
    PROVE  tickOk(x.tick)
  <1> DEFINE T == discoverTicks(getFrontierNow)
             current == IF cursor = none THEN 0 ELSE cursor.tick
  <1>1. maxTick(T) \in Nat /\ \A d \in Int : resolveDelta(T, current, d) \in Nat
    <2>1. IsFiniteSet(T) /\ T \subseteq Nat
      BY TicksFinite
    <2> HIDE DEF T, current
    <2>2. maxTick(T) \in T \cup {0}
      BY <2>1, MaxTick
    <2>3. \A d \in Int : resolveDelta(T, current, d) \in T \cup {0}
      BY <2>1, DeltaPoint
    <2> QED
      BY <2>1, <2>2, <2>3, 0 \in Nat
  <1> HIDE DEF T
  <1>2. \/ \E n \in Ceiling : x = [action |-> "tick", tick |-> IF n <= maxTick(T) THEN n ELSE maxTick(T)]
        \/ \E d \in {-1, 1} : x = [action |-> "tick", tick |-> resolveDelta(T, current, d)]
        \/ x = [action |-> "latest", tick |-> maxTick(T)]
        \/ saved # none /\ x = [action |-> "load", tick |-> saved.tick]
        \/ cursor # none /\ x = [action |-> "status", tick |-> cursor.tick]
    BY DEF seekTargets, T
  <1> HIDE DEF current
  <1>3. CASE \E n \in Ceiling : x = [action |-> "tick", tick |-> IF n <= maxTick(T) THEN n ELSE maxTick(T)]
    BY <1>1, <1>3, SeekAssumption DEF tickOk, null
  <1>4. CASE \E d \in {-1, 1} : x = [action |-> "tick", tick |-> resolveDelta(T, current, d)]
    BY <1>1, <1>4 DEF tickOk, null
  <1> QED
    BY <1>1, <1>2, <1>3, <1>4 DEF tickOk, null

----------------------------------------------------------------------------
(* The index of the seek cache.                                            *)

LEMMA PartOk ==
    ASSUME NEW L, NEW ix, indexOk(L, ix), NEW m \in 1..(Len(ix) + 1), NEW n \in (m - 1)..Len(ix)
    PROVE  indexOk(L, SubSeq(ix, m, n))
  <1>1. PICK D : ix \in Seq(D)
    BY DEF indexOk
  <1>2. Len(ix) \in Nat /\ m \in Int /\ n \in Int /\ m >= 1 /\ n <= Len(ix)
    BY <1>1, LenProperties
  <1>3. /\ SubSeq(ix, m, n) \in Seq(D) /\ Len(SubSeq(ix, m, n)) = n - m + 1
        /\ \A i \in 1..(n - m + 1) : SubSeq(ix, m, n)[i] = ix[m + i - 1]
    BY <1>1, SubSeqProperties
  <1>4. \A i \in 1..(n - m + 1) : m + i - 1 \in 1..Len(ix)
    BY <1>2
  <1>5. \A i \in 1..Len(SubSeq(ix, m, n)) : entryOk(L, SubSeq(ix, m, n)[i])
    BY <1>3, <1>4 DEF indexOk
  <1> QED
    BY <1>3, <1>5 DEF indexOk

LEMMA JoinedOk ==
    ASSUME NEW L, NEW ix, indexOk(L, ix), NEW iy, indexOk(L, iy)
    PROVE  indexOk(L, ix \o iy)
  <1>1. PICK D : ix \in Seq(D)
    BY DEF indexOk
  <1>2. PICK E : iy \in Seq(E)
    BY DEF indexOk
  <1>3. ix \in Seq(D \cup E) /\ iy \in Seq(D \cup E)
    BY <1>1, <1>2, SeqMonotonic
  <1>4. Len(ix) \in Nat /\ Len(iy) \in Nat
    BY <1>3, LenProperties
  <1>5. /\ ix \o iy \in Seq(D \cup E) /\ Len(ix \o iy) = Len(ix) + Len(iy)
        /\ \A i \in 1..(Len(ix) + Len(iy)) :
             (ix \o iy)[i] = IF i <= Len(ix) THEN ix[i] ELSE iy[i - Len(ix)]
    BY <1>3, ConcatProperties
  <1>6. \A i \in 1..Len(ix \o iy) : entryOk(L, (ix \o iy)[i])
    <2> SUFFICES ASSUME NEW i \in 1..Len(ix \o iy)
                 PROVE  entryOk(L, (ix \o iy)[i])
      OBVIOUS
    <2>1. CASE i <= Len(ix)
      <3>1. i \in 1..Len(ix) /\ (ix \o iy)[i] = ix[i]
        BY <1>4, <1>5, <2>1
      <3> QED
        BY <3>1 DEF indexOk
    <2>2. CASE ~(i <= Len(ix))
      <3>1. i - Len(ix) \in 1..Len(iy) /\ (ix \o iy)[i] = iy[i - Len(ix)]
        BY <1>4, <1>5, <2>2
      <3> QED
        BY <3>1 DEF indexOk
    <2> QED
      BY <2>1, <2>2
  <1> QED
    BY <1>5, <1>6 DEF indexOk

LEMMA SingleOk ==
    ASSUME NEW L, NEW e
    PROVE  /\ indexOk(L, << >>)
           /\ entryOk(L, e) => indexOk(L, <<e>>)
  <1>1. << >> \in Seq({}) /\ Len(<< >>) = 0 /\ <<e>> \in Seq({e}) /\ Len(<<e>>) = 1 /\ <<e>>[1] = e
    OBVIOUS
  <1>2. \A k \in 1..0 : FALSE
    OBVIOUS
  <1>3. \A k \in 1..1 : k = 1
    OBVIOUS
  <1>4. indexOk(L, << >>)
    BY <1>1, <1>2 DEF indexOk
  <1>5. entryOk(L, e) => indexOk(L, <<e>>)
    BY <1>1, <1>3 DEF indexOk
  <1> QED
    BY <1>4, <1>5

\* An entry that the index has under a key is a good one.
LEMMA EntryOfOk ==
    ASSUME NEW L, NEW ix, indexOk(L, ix), NEW key
    PROVE  /\ indexOk(L, entryOf(ix, key)) /\ indexOk(L, without(ix, key))
           /\ entryOf(ix, key) # << >> =>
                entryOk(L, entryOf(ix, key)[1]) /\ entryOf(ix, key)[1].key = key
  <1>0. Len(ix) \in Nat
    BY LenProperties DEF indexOk
  <1>1. CASE ~hasKey(ix, key)
    BY <1>1, SingleOk DEF entryOf, without
  <1>2. CASE hasKey(ix, key)
    <2>1. placeOf(ix, key) \in 1..Len(ix) /\ ix[placeOf(ix, key)].key = key
      BY <1>2, Zenon DEF hasKey, placeOf
    <2> PICK k \in 1..Len(ix) : k = placeOf(ix, key)
      BY <2>1
    <2>2. entryOk(L, ix[k]) /\ ix[k].key = key
      BY <2>1 DEF indexOk
    <2>3. entryOf(ix, key) = <<ix[k]>>
      BY <1>2 DEF entryOf
    <2>4. without(ix, key) = SubSeq(ix, 1, k - 1) \o SubSeq(ix, k + 1, Len(ix))
      BY <1>2, Zenon DEF without
    <2>5. /\ 1 \in 1..(Len(ix) + 1) /\ k - 1 \in (1 - 1)..Len(ix)
          /\ k + 1 \in 1..(Len(ix) + 1) /\ Len(ix) \in ((k + 1) - 1)..Len(ix)
      BY <1>0
    <2>6. indexOk(L, SubSeq(ix, 1, k - 1)) /\ indexOk(L, SubSeq(ix, k + 1, Len(ix)))
      BY <2>5, PartOk
    <2>7. indexOk(L, without(ix, key))
      BY <2>4, <2>6, JoinedOk
    <2>8. entryOf(ix, key)[1] = ix[k]
      BY <2>3
    <2> QED
      BY <2>2, <2>3, <2>7, <2>8, SingleOk
  <1> QED
    BY <1>1, <1>2

LEMMA EnforceOk ==
    ASSUME NEW L, NEW ix, indexOk(L, ix)
    PROVE  indexOk(L, _enforceMaxEntries(ix))
  <1>0. Len(ix) \in Nat
    BY LenProperties DEF indexOk
  <1>1. CASE Len(ix) <= maxEntries
    BY <1>1 DEF _enforceMaxEntries
  <1>2. CASE ~(Len(ix) <= maxEntries)
    <2>1. Len(ix) - maxEntries + 1 \in 1..(Len(ix) + 1) /\ Len(ix) \in (Len(ix) - maxEntries + 1 - 1)..Len(ix)
      BY <1>0, <1>2, SeekAssumption
    <2>2. indexOk(L, SubSeq(ix, Len(ix) - maxEntries + 1, Len(ix)))
      BY <2>1, PartOk
    <2> QED
      BY <1>2, <2>2 DEF _enforceMaxEntries
  <1> QED
    BY <1>1, <1>2

LEMMA MutateOk ==
    ASSUME NEW L, NEW ix, indexOk(L, ix), NEW m, m.kind \in {"set", "touch", "delete"},
           m.kind = "set" => entryOk(L, m.entry)
    PROVE  indexOk(L, mutate(m, ix))
  <1>1. indexOk(L, without(ix, m.entry.key)) /\ indexOk(L, entryOf(ix, m.entry.key))
    BY EntryOfOk
  <1>2. CASE m.kind = "set"
    <2>1. PICK iy : iy = without(ix, m.entry.key)
      OBVIOUS
    <2>2. PICK e : e = m.entry
      OBVIOUS
    <2>3. indexOk(L, iy) /\ entryOk(L, e)
      BY <1>1, <1>2, <2>1, <2>2
    <2>4. indexOk(L, iy \o <<e>>)
      BY <2>3, SingleOk, JoinedOk
    <2>5. Append(iy, e) = iy \o <<e>>
      <3>1. PICK D : iy \in Seq(D)
        BY <2>3 DEF indexOk
      <3>2. iy \in Seq(D \cup {e}) /\ e \in D \cup {e}
        BY <3>1, SeqMonotonic
      <3> QED
        BY <3>2, AppendIsConcat
    <2>6. indexOk(L, _enforceMaxEntries(Append(iy, e)))
      BY <2>4, <2>5, EnforceOk
    <2>7. mutate(m, ix) = _enforceMaxEntries(Append(iy, e))
      BY <1>2, <2>1, <2>2 DEF mutate
    <2> QED
      BY <2>6, <2>7
  <1>3. CASE m.kind = "touch"
    BY <1>1, <1>3, JoinedOk DEF mutate
  <1>4. CASE m.kind = "delete"
    BY <1>1, <1>4 DEF mutate
  <1> QED
    BY <1>2, <1>3, <1>4

----------------------------------------------------------------------------
(* What install, answering, withProvenance and degrade leave behind.       *)

LEMMA InstallFields ==
    ASSUME NEW g, \E D : g \in instShape(D)
    PROVE  \A S, c, f :
             /\ \E E : install(g, S, c, f) \in instShape(E)
             /\ install(g, S, c, f).has = TRUE /\ install(g, S, c, f).dirty = FALSE
             /\ install(g, S, c, f).joined = FALSE /\ install(g, S, c, f).state = S
             /\ install(g, S, c, f).index = S /\ install(g, S, c, f).ceiling = c
             /\ install(g, S, c, f).frontier = f /\ install(g, S, c, f).answer = g.answer
  <1> TAKE S, c, f
  <1> PICK D : g \in instShape(D)
    OBVIOUS
  <1>1. install(g, S, c, f) \in instShape(D \cup {S, c, f})
    BY DEF install, instShape
  <1>2. /\ install(g, S, c, f).has = TRUE /\ install(g, S, c, f).dirty = FALSE
        /\ install(g, S, c, f).joined = FALSE /\ install(g, S, c, f).state = S
        /\ install(g, S, c, f).index = S /\ install(g, S, c, f).ceiling = c
        /\ install(g, S, c, f).frontier = f /\ install(g, S, c, f).answer = g.answer
    BY DEF install, instShape
  <1> QED
    BY <1>1, <1>2

LEMMA AnsweringFields ==
    ASSUME NEW D, NEW g \in instShape(D), NEW c, NEW f, NEW h, h = answering(g, c, f)
    PROVE  /\ \E E : h \in instShape(E)
           /\ h.has = g.has /\ h.dirty = g.dirty /\ h.joined = g.joined /\ h.state = g.state
           /\ h.index = g.index /\ h.ceiling = g.ceiling /\ h.frontier = g.frontier
           /\ h.prov = g.prov /\ h.hasProv = g.hasProv /\ h.degraded = g.degraded
           /\ h.answer.ceiling = c /\ h.answer.since = f /\ h.answer.state = g.state
  <1>1. PICK a : a = [ceiling |-> c, since |-> f, state |-> g.state]
    OBVIOUS
  <1>2. a.ceiling = c /\ a.since = f /\ a.state = g.state
    BY <1>1
  <1>3. h = [g EXCEPT !.answer = a]
    BY <1>1, Zenon DEF answering
  <1>4. /\ h \in instShape(D \cup {a})
        /\ h.has = g.has /\ h.dirty = g.dirty /\ h.joined = g.joined /\ h.state = g.state
        /\ h.index = g.index /\ h.ceiling = g.ceiling /\ h.frontier = g.frontier
        /\ h.prov = g.prov /\ h.hasProv = g.hasProv /\ h.degraded = g.degraded /\ h.answer = a
    BY <1>3 DEF instShape
  <1> QED
    BY <1>2, <1>4

LEMMA ProvenanceFields ==
    ASSUME NEW D, NEW g \in instShape(D), NEW P, NEW h,
           h = withProvenance(g, P) \/ h = degrade(g)
    PROVE  /\ \E E : h \in instShape(E)
           /\ h.has = g.has /\ h.dirty = g.dirty /\ h.joined = g.joined /\ h.state = g.state
           /\ h.index = g.index /\ h.ceiling = g.ceiling /\ h.frontier = g.frontier
           /\ h.answer = g.answer
           /\ h.degraded \/ h.prov = P
  <1>0. h \in instShape(D \cup {P, {}})
    BY DEF withProvenance, degrade, instShape
  <1>1. CASE h = withProvenance(g, P)
    BY <1>0, <1>1 DEF withProvenance, instShape
  <1>2. CASE h = degrade(g)
    BY <1>0, <1>2 DEF degrade, instShape
  <1> QED
    BY <1>1, <1>2

\* A result that is remembered under its frontier and handed out.
LEMMA ResultOk ==
    ASSUME NEW L \in Lamports, NEW g, instOk(L, g), NEW S, NEW c, NEW f, past(L, f), holds(L, S, f, c),
           NEW h, \/ h = withProvenance(answering(install(g, S, c, f), c, f), S)
                  \/ h = degrade(answering(install(g, S, c, f), c, f))
    PROVE  /\ instOk(L, h) /\ h.has /\ ~h.dirty /\ ~h.joined /\ h.ceiling = c /\ h.frontier = f
           /\ h.state = S /\ h.index = S
  <1>1. PICK D : g \in instShape(D)
    BY DEF instOk
  <1>2. PICK h1 : h1 = install(g, S, c, f)
    OBVIOUS
  <1>3. PICK h2 : h2 = answering(h1, c, f)
    OBVIOUS
  <1>4. /\ \E E : h1 \in instShape(E)
        /\ h1.has = TRUE /\ h1.dirty = FALSE /\ h1.joined = FALSE /\ h1.state = S /\ h1.index = S
        /\ h1.ceiling = c /\ h1.frontier = f
    <2>1. \E E : g \in instShape(E)
      BY <1>1
    <2>2. \A S1, c1, f1 :
             /\ \E E : install(g, S1, c1, f1) \in instShape(E)
             /\ install(g, S1, c1, f1).has = TRUE /\ install(g, S1, c1, f1).dirty = FALSE
             /\ install(g, S1, c1, f1).joined = FALSE /\ install(g, S1, c1, f1).state = S1
             /\ install(g, S1, c1, f1).index = S1 /\ install(g, S1, c1, f1).ceiling = c1
             /\ install(g, S1, c1, f1).frontier = f1 /\ install(g, S1, c1, f1).answer = g.answer
      BY <2>1, InstallFields, Zenon
    <2>3. /\ \E E : install(g, S, c, f) \in instShape(E)
          /\ install(g, S, c, f).has = TRUE /\ install(g, S, c, f).dirty = FALSE
          /\ install(g, S, c, f).joined = FALSE /\ install(g, S, c, f).state = S
          /\ install(g, S, c, f).index = S /\ install(g, S, c, f).ceiling = c
          /\ install(g, S, c, f).frontier = f /\ install(g, S, c, f).answer = g.answer
      BY <2>2
    <2> HIDE <2>2
    <2> QED
      BY <1>2, <2>3
  <1>5. /\ \E E : h2 \in instShape(E)
        /\ h2.has = TRUE /\ h2.dirty = FALSE /\ h2.joined = FALSE /\ h2.state = S /\ h2.index = S
        /\ h2.ceiling = c /\ h2.frontier = f
        /\ h2.answer.ceiling = c /\ h2.answer.since = f /\ h2.answer.state = S
    <2> HIDE <1>2
    <2> QED
      BY <1>3, <1>4, AnsweringFields
  <1>6. h = withProvenance(h2, S) \/ h = degrade(h2)
    BY <1>2, <1>3
  <1>7. PICK E : h2 \in instShape(E)
    BY <1>5
  <1>8. /\ \E F : h \in instShape(F)
        /\ h.has = TRUE /\ h.dirty = FALSE /\ h.joined = FALSE /\ h.state = S /\ h.index = S
        /\ h.ceiling = c /\ h.frontier = f /\ h.answer = h2.answer
        /\ h.degraded \/ h.prov = S
    BY <1>5, <1>6, <1>7, ProvenanceFields
  <1>9. stateOk(L, h)
    BY <1>8, HoldsNow DEF stateOk
  <1>10. answerOk(L, h)
    BY <1>5, <1>8 DEF answerOk
  <1>11. provOk(h)
    BY <1>8 DEF provOk
  <1> QED
    BY <1>8, <1>9, <1>10, <1>11 DEF instOk

\* A result that is remembered but not handed out under a ceiling.
LEMMA LatestOk ==
    ASSUME NEW L \in Lamports, NEW g, instOk(L, g), NEW S, NEW c, NEW f, past(L, f),
           c # null => holds(L, S, f, c), ~g.joined,
           NEW h, h = withProvenance(install(g, S, c, f), S)
    PROVE  /\ instOk(L, h) /\ h.has /\ ~h.dirty /\ ~h.joined /\ h.ceiling = c /\ h.frontier = f
  <1>1. PICK D : g \in instShape(D)
    BY DEF instOk
  <1>2. PICK h1 : h1 = install(g, S, c, f)
    OBVIOUS
  <1>3. /\ \E E : h1 \in instShape(E)
        /\ h1.has = TRUE /\ h1.dirty = FALSE /\ h1.joined = FALSE /\ h1.state = S /\ h1.index = S
        /\ h1.ceiling = c /\ h1.frontier = f /\ h1.answer = g.answer
    <2>1. \E E : g \in instShape(E)
      BY <1>1
    <2>2. \A S1, c1, f1 :
             /\ \E E : install(g, S1, c1, f1) \in instShape(E)
             /\ install(g, S1, c1, f1).has = TRUE /\ install(g, S1, c1, f1).dirty = FALSE
             /\ install(g, S1, c1, f1).joined = FALSE /\ install(g, S1, c1, f1).state = S1
             /\ install(g, S1, c1, f1).index = S1 /\ install(g, S1, c1, f1).ceiling = c1
             /\ install(g, S1, c1, f1).frontier = f1 /\ install(g, S1, c1, f1).answer = g.answer
      BY <2>1, InstallFields, Zenon
    <2>3. /\ \E E : install(g, S, c, f) \in instShape(E)
          /\ install(g, S, c, f).has = TRUE /\ install(g, S, c, f).dirty = FALSE
          /\ install(g, S, c, f).joined = FALSE /\ install(g, S, c, f).state = S
          /\ install(g, S, c, f).index = S /\ install(g, S, c, f).ceiling = c
          /\ install(g, S, c, f).frontier = f /\ install(g, S, c, f).answer = g.answer
      BY <2>2
    <2> HIDE <2>2
    <2> QED
      BY <1>2, <2>3
  <1>4. h = withProvenance(h1, S)
    BY <1>2
  <1>5. /\ \E E : h \in instShape(E)
        /\ h.has = TRUE /\ h.dirty = FALSE /\ h.joined = FALSE /\ h.state = S /\ h.index = S
        /\ h.ceiling = c /\ h.frontier = f /\ h.answer = g.answer
        /\ h.degraded \/ h.prov = S
    <2> HIDE <1>2
    <2> QED
      BY <1>3, <1>4, ProvenanceFields
  <1>6. stateOk(L, h) /\ provOk(h)
    BY <1>5, HoldsNow DEF stateOk, provOk
  <1>7. answerOk(L, h)
    BY <1>5 DEF answerOk, instOk
  <1> QED
    BY <1>5, <1>6, <1>7 DEF instOk

\* Nothing is behind the refs up to a ceiling of zero, or before any commit.
LEMMA NothingThere ==
    ASSUME NEW L \in Lamports, NEW c, tickOk(c), NEW f, past(L, f),
           c <= 0 \/ \A w \in SeekWriter : f[w] = 0
    PROVE  patchesIn(L, f, c) = {}
  <1>1. SUFFICES ASSUME NEW p \in SeekWriter \X (1..MaxCommits), p[2] <= f[p[1]], L[p[1]][p[2]] <= c
                 PROVE  FALSE
    BY DEF patchesIn, tickOk
  <1>2. /\ p[1] \in SeekWriter /\ p[2] \in Nat \ {0} /\ f[p[1]] \in Int /\ f[p[1]] <= Len(L[p[1]])
        /\ L[p[1]] \in Seq(Nat \ {0})
    BY SeekAssumption DEF past, Lamports
  <1>3. p[2] \in 1..Len(L[p[1]])
    BY <1>1, <1>2, LenProperties
  <1>4. L[p[1]][p[2]] \in Nat \ {0}
    BY <1>2, <1>3, ElementOfSeq
  <1> QED
    BY <1>1, <1>2, <1>4 DEF tickOk

----------------------------------------------------------------------------
(* Commits and foreign states.                                             *)

LEMMA SameNames ==
    /\ getFrontierNow = frontierIn(lamports)
    /\ \A f, c : patchesUpTo(f, c) = patchesIn(lamports, f, c)
  BY DEF getFrontierNow, frontierIn, patchesUpTo, patchesIn

LEMMA CommitGrows ==
    ASSUME lamports \in Lamports, NEW w \in SeekWriter, NEW t \in newLamports(w),
           lamports' = [lamports EXCEPT ![w] = Append(@, t)]
    PROVE  grown(lamports, lamports') /\ Len(lamports'[w]) = Len(lamports[w]) + 1
  <1>1. t \in Nat \ {0}
    <2> DEFINE seen == UNION {{lamports[v][i] : i \in 1..Len(lamports[v])} : v \in SeekWriter}
               last == IF lamports[w] = << >> THEN 0 ELSE lamports[w][Len(lamports[w])]
    <2>1. seen \subseteq Nat
      <3> SUFFICES ASSUME NEW v \in SeekWriter, NEW i \in 1..Len(lamports[v])
                   PROVE  lamports[v][i] \in Nat
        OBVIOUS
      <3>1. lamports[v] \in Seq(Nat \ {0})
        BY DEF Lamports
      <3> QED
        BY <3>1, ElementOfSeq
    <2>2. newLamports(w) = {x + 1 : x \in {y \in seen \cup {0} : y >= last}}
      BY Zenon DEF newLamports
    <2> HIDE DEF seen, last
    <2>3. PICK x \in {y \in seen \cup {0} : y >= last} : t = x + 1
      BY <2>2
    <2>4. x \in Nat
      BY <2>1, <2>3
    <2> QED
      BY <2>3, <2>4
  <1>2. lamports[w] \in Seq(Nat \ {0})
    BY DEF Lamports
  <1>3. PICK s : s = Append(lamports[w], t)
    OBVIOUS
  <1>4. /\ s \in Seq(Nat \ {0}) /\ Len(s) = Len(lamports[w]) + 1 /\ Len(lamports[w]) \in Nat
        /\ \A i \in 1..Len(lamports[w]) : s[i] = lamports[w][i]
    BY <1>1, <1>2, <1>3, AppendProperties, LenProperties
  <1>5. /\ lamports' \in Lamports /\ lamports'[w] = s
        /\ \A v \in SeekWriter : v # w => lamports'[v] = lamports[v]
    BY <1>3, <1>4 DEF Lamports
  <1>6. \A v \in SeekWriter : Len(lamports[v]) \in Nat
    BY LenProperties DEF Lamports
  <1>7. \A v \in SeekWriter : /\ Len(lamports[v]) <= Len(lamports'[v])
                              /\ \A i \in 1..Len(lamports[v]) : lamports'[v][i] = lamports[v][i]
    <2> TAKE v \in SeekWriter
    <2>1. CASE v = w
      BY <1>4, <1>5, <2>1
    <2>2. CASE v # w
      BY <1>5, <1>6, <2>2
    <2> QED
      BY <2>1, <2>2
  <1> QED
    BY <1>4, <1>5, <1>7 DEF grown

\* Everything but the instances is as good after the refs have grown.
restOk(L) ==
    /\ \A i \in Instance : job[i] # none => jobOk(L, job[i])
    /\ \A m \in puts : putOk(L, m)
    /\ indexOk(L, cache)
    /\ cursor # none => cursorOk(L, cursor)
    /\ saved # none => cursorOk(L, saved)
    /\ cmd # none => commandOk(L, cmd)

LEMMA RestStays ==
    ASSUME NEW L, NEW M, grown(L, M), restOk(L)
    PROVE  restOk(M)
  BY JobStays, PutStays, IndexStays, CursorStays, CommandStays DEF restOk

LEMMA CommitElsewhereKeeps ==
    ASSUME SeekIInv, NEW w \in SeekWriter, commitElsewhere(w)
    PROVE  SeekIInv'
  <1>1. PICK t \in newLamports(w) : lamports' = [lamports EXCEPT ![w] = Append(@, t)]
    BY DEF commitElsewhere
  <1>2. lamports \in Lamports
    BY DEF SeekIInv
  <1>3. grown(lamports, lamports') /\ lamports' \in Lamports
    BY <1>1, <1>2, CommitGrows DEF grown
  <1>4. restOk(lamports')
    <2>1. restOk(lamports)
      BY DEF SeekIInv, restOk
    <2> QED
      BY <1>3, <2>1, RestStays
  <1>5. \A i \in Instance : instOk(lamports', inst[i])
    BY <1>3, InstStays DEF SeekIInv
  <1>6. UNCHANGED <<inst, job, puts, cache, cursor, saved, cmd>>
    BY DEF commitElsewhere
  <1> QED
    BY <1>3, <1>4, <1>5, <1>6 DEF SeekIInv, restOk, cliOk

\* The own patch is added to a clean state, which is then behind the refs.
LEMMA CommitHereKeeps ==
    ASSUME SeekIInv, commitHere
    PROVE  SeekIInv'
  <1> DEFINE g == inst[Lib]
             new == <<LibWriter, Len(lamports[LibWriter]) + 1>>
             hit == [g EXCEPT !.state = @ \cup {new}, !.index = @ \cup {new},
                              !.prov = IF g.hasProv THEN @ \cup {new} ELSE @]
             miss == [g EXCEPT !.dirty = TRUE]
  <1>0. LibWriter \in SeekWriter /\ Lib \in Instance /\ Cli \in Instance /\ Lib # Cli
    BY SeekAssumption DEF Instance
  <1>1. PICK t \in newLamports(LibWriter) :
          lamports' = [lamports EXCEPT ![LibWriter] = Append(@, t)]
    BY DEF commitHere
  <1>2. lamports \in Lamports
    BY DEF SeekIInv
  <1>3. /\ grown(lamports, lamports') /\ lamports' \in Lamports
        /\ Len(lamports'[LibWriter]) = Len(lamports[LibWriter]) + 1
    BY <1>0, <1>1, <1>2, CommitGrows DEF grown
  <1>4. restOk(lamports')
    <2>1. restOk(lamports)
      BY DEF SeekIInv, restOk
    <2> QED
      BY <1>3, <2>1, RestStays
  <1>5. \A i \in Instance : instOk(lamports', inst[i])
    BY <1>3, InstStays DEF SeekIInv
  <1>6. UNCHANGED <<job, puts, cache, cursor, saved, cmd>>
    BY DEF commitHere
  <1>7. inst' = [inst EXCEPT ![Lib] = IF g.has /\ ~g.dirty THEN hit ELSE miss]
    BY DEF commitHere
  <1>8. PICK D : g \in instShape(D)
    BY <1>0, <1>5 DEF instOk
  <1>9. past(lamports, g.frontier) /\ instOk(lamports', g)
    BY <1>0, <1>5 DEF SeekIInv, instOk
  <1>10. ASSUME NEW h, h = hit
         PROVE  instOk(lamports', h)
    <2>1. PICK a, b, c : /\ a = g.state \cup {new} /\ b = g.index \cup {new}
                         /\ c = (IF g.hasProv THEN g.prov \cup {new} ELSE g.prov)
      OBVIOUS
    <2>2. h = [g EXCEPT !.state = a, !.index = b, !.prov = c]
      BY <1>10, <2>1, Zenon
    <2> HIDE DEF g, hit, miss, new
    <2>3. /\ h \in instShape(D \cup {a, b, c})
          /\ h.has = g.has /\ h.dirty = g.dirty /\ h.joined = g.joined /\ h.state = a /\ h.index = b
          /\ h.ceiling = g.ceiling /\ h.frontier = g.frontier /\ h.prov = c
          /\ h.hasProv = g.hasProv /\ h.degraded = g.degraded /\ h.answer = g.answer
      BY <1>8, <2>2 DEF instShape
    <2>4. h.frontier # frontierIn(lamports')
      <3>1. frontierIn(lamports')[LibWriter] = Len(lamports[LibWriter]) + 1
        BY <1>0, <1>3 DEF frontierIn
      <3>2. g.frontier[LibWriter] \in Int /\ g.frontier[LibWriter] <= Len(lamports[LibWriter])
            /\ Len(lamports[LibWriter]) \in Nat
        BY <1>0, <1>2, <1>9, FrontierIsPast DEF past
      <3> QED
        BY <2>3, <3>1, <3>2
    <2>5. stateOk(lamports', h)
      BY <2>4 DEF stateOk
    <2>6. answerOk(lamports', h)
      BY <1>9, <2>3 DEF instOk, answerOk
    <2>7. provOk(h)
      BY <1>9, <2>1, <2>3 DEF instOk, provOk
    <2> QED
      BY <1>9, <2>3, <2>5, <2>6, <2>7 DEF instOk
  <1>11. ASSUME NEW h, h = miss
         PROVE  instOk(lamports', h)
    <2>1. h = [g EXCEPT !.dirty = TRUE]
      BY <1>11
    <2> HIDE DEF g, hit, miss, new
    <2>2. /\ h \in instShape(D) /\ h.dirty = TRUE
          /\ h.joined = g.joined /\ h.frontier = g.frontier /\ h.answer = g.answer
      BY <1>8, <2>1 DEF instShape
    <2> QED
      BY <1>9, <2>2 DEF instOk, stateOk, answerOk, provOk
  <1> HIDE DEF g, hit, miss, new
  <1>12. instOk(lamports', inst'[Lib]) /\ \A i \in Instance : i # Lib => inst'[i] = inst[i]
    <2>1. /\ inst'[Lib] = IF g.has /\ ~g.dirty THEN hit ELSE miss
          /\ \A i \in Instance : i # Lib => inst'[i] = inst[i]
      BY <1>0, <1>7 DEF SeekIInv
    <2> QED
      BY <2>1, <1>10, <1>11
  <1>13. DOMAIN inst' = Instance /\ inst' = [i \in Instance |-> inst'[i]]
    BY <1>0, <1>7 DEF SeekIInv
  <1>14. cliOk'
    BY <1>0, <1>6, <1>12 DEF SeekIInv, cliOk
  <1> QED
    BY <1>3, <1>4, <1>5, <1>6, <1>12, <1>13, <1>14 DEF SeekIInv, restOk

\* A foreign state takes the answer and the claim on the ceiling away.
LEMMA JoinKeeps ==
    ASSUME SeekIInv, join
    PROVE  SeekIInv'
  <1>0. Lib \in Instance /\ Cli \in Instance /\ Lib # Cli
    BY SeekAssumption DEF Instance
  <1>1. PICK c \in Ceiling :
          inst' = [inst EXCEPT ![Lib].state = @ \cup patchesUpTo(getFrontierNow, c),
                               ![Lib].joined = TRUE, ![Lib].dirty = FALSE, ![Lib].answer = none]
    BY DEF join
  <1>2. UNCHANGED <<lamports, job, puts, cache, cursor, saved, cmd>>
    BY DEF join
  <1>3. PICK g, a : g = inst[Lib] /\ a = g.state \cup patchesUpTo(getFrontierNow, c)
    OBVIOUS
  <1>4. PICK D : g \in instShape(D)
    BY <1>0, <1>3 DEF SeekIInv, instOk
  <1>5. PICK h : h = [g EXCEPT !.state = a, !.joined = TRUE, !.dirty = FALSE, !.answer = none]
    OBVIOUS
  <1>6. inst' = [inst EXCEPT ![Lib] = h]
    BY <1>1, <1>3, <1>5 DEF SeekIInv
  <1>7. /\ h \in instShape(D \cup {a, none})
        /\ h.joined = TRUE /\ h.frontier = g.frontier /\ h.answer = none
    BY <1>4, <1>5 DEF instShape
  <1>8. instOk(lamports, h)
    BY <1>0, <1>3, <1>7 DEF SeekIInv, instOk, stateOk, answerOk, provOk
  <1> HIDE <1>5
  <1>9. /\ DOMAIN inst' = Instance /\ inst' = [i \in Instance |-> inst'[i]]
        /\ inst'[Lib] = h /\ \A i \in Instance : i # Lib => inst'[i] = inst[i]
    BY <1>0, <1>6 DEF SeekIInv
  <1>10. cliOk'
    BY <1>0, <1>2, <1>9 DEF SeekIInv, cliOk
  <1> QED
    BY <1>2, <1>8, <1>9, <1>10 DEF SeekIInv

LEMMA ClearCacheKeeps ==
    ASSUME SeekIInv, clearCache
    PROVE  SeekIInv'
  <1>1. cache' = << >> /\ UNCHANGED <<lamports, inst, job, puts, cursor, saved, cmd>>
    BY DEF clearCache
  <1>2. indexOk(lamports, << >>)
    BY SingleOk
  <1> QED
    BY <1>1, <1>2 DEF SeekIInv, cliOk

LEMMA PutReadKeeps ==
    ASSUME SeekIInv, NEW m \in puts, putRead(m)
    PROVE  SeekIInv'
  <1>1. /\ puts' = (puts \ {m}) \cup {[m EXCEPT !.phase = "write", !.index = cache]}
        /\ UNCHANGED <<lamports, inst, job, cache, cursor, saved, cmd>>
    BY DEF putRead
  <1>2. PICK D : m \in putShape(D)
    BY DEF SeekIInv, putOk
  <1>3. PICK n : n = [m EXCEPT !.phase = "write", !.index = cache]
    OBVIOUS
  <1>4. n \in putShape(D \cup {"write", cache}) /\ n.index = cache /\ n.entry = m.entry /\ n.kind = m.kind
    BY <1>2, <1>3 DEF putShape
  <1>5. putOk(lamports, n)
    BY <1>4 DEF SeekIInv, putOk
  <1>6. \A x \in puts' : putOk(lamports, x)
    BY <1>1, <1>3, <1>5 DEF SeekIInv
  <1> QED
    BY <1>1, <1>6 DEF SeekIInv, cliOk

LEMMA PutWriteKeeps ==
    ASSUME SeekIInv, NEW m \in puts, putWrite(m)
    PROVE  SeekIInv'
  <1>1. UNCHANGED <<lamports, inst, job, cursor, saved, cmd>>
    BY DEF putWrite
  <1>2. PICK D : m \in putShape(D)
    BY DEF SeekIInv, putOk
  <1>3. PICK n : n = [m EXCEPT !.phase = "read", !.index = << >>]
    OBVIOUS
  <1>4. putOk(lamports, n)
    <2>1. n \in putShape(D \cup {"read", << >>}) /\ n.index = << >> /\ n.entry = m.entry /\ n.kind = m.kind
      BY <1>2, <1>3 DEF putShape
    <2> QED
      BY <2>1, SingleOk DEF SeekIInv, putOk
  <1>5. indexOk(lamports, mutate(m, m.index))
    <2>1. m.kind = "set" /\ indexOk(lamports, m.index) /\ entryOk(lamports, m.entry)
      BY <1>2 DEF SeekIInv, putOk
    <2> QED
      BY <2>1, MutateOk
  <1>6. cache' = cache \/ cache' = mutate(m, m.index)
    BY DEF putWrite
  <1>7. \A x \in puts' : x \in puts \/ x = n
    BY <1>3 DEF putWrite
  <1>8. indexOk(lamports, cache') /\ \A x \in puts' : putOk(lamports, x)
    BY <1>4, <1>5, <1>6, <1>7 DEF SeekIInv
  <1> QED
    BY <1>1, <1>8 DEF SeekIInv, cliOk

----------------------------------------------------------------------------
(* Materializations.                                                       *)

\* A change of one instance or its job; what else changes is good again.
LEMMA OneInstance ==
    ASSUME SeekIInv, NEW i \in Instance, NEW h, NEW j,
           inst' = [inst EXCEPT ![i] = h], job' = [job EXCEPT ![i] = j],
           UNCHANGED <<lamports, cursor, saved, cmd>>,
           instOk(lamports, h), j # none => jobOk(lamports, j),
           indexOk(lamports, cache'), \A m \in puts' : putOk(lamports, m),
           i = Cli =>
             /\ ~h.dirty /\ ~h.joined
             /\ j # none => cmd # none /\ cmd.started
             /\ cmd # none /\ cmd.started /\ j = none => h.has /\ follows(h, cmd)
             /\ cmd # none /\ cmd.started /\ j # none => follows(j, cmd)
    PROVE  SeekIInv'
  <1>0. Cli \in Instance
    BY DEF Instance
  <1>1. /\ DOMAIN inst' = Instance /\ inst' = [k \in Instance |-> inst'[k]]
        /\ inst'[i] = h /\ \A k \in Instance : k # i => inst'[k] = inst[k]
    BY DEF SeekIInv
  <1>2. /\ DOMAIN job' = Instance /\ job' = [k \in Instance |-> job'[k]]
        /\ job'[i] = j /\ \A k \in Instance : k # i => job'[k] = job[k]
    BY DEF SeekIInv
  <1>3. cliOk'
    <2>1. CASE i = Cli
      BY <1>1, <1>2, <2>1 DEF cliOk
    <2>2. CASE i # Cli
      <3>1. inst'[Cli] = inst[Cli] /\ job'[Cli] = job[Cli]
        BY <1>0, <1>1, <1>2, <2>2
      <3> QED
        BY <3>1 DEF cliOk, SeekIInv
    <2> QED
      BY <2>1, <2>2
  <1>4. \A k \in Instance : instOk(lamports, inst'[k]) /\ (job'[k] # none => jobOk(lamports, job'[k]))
    <2> TAKE k \in Instance
    <2> QED
      BY <1>1, <1>2 DEF SeekIInv
  <1> QED
    BY <1>1, <1>2, <1>3, <1>4 DEF SeekIInv

\* The same, with no change of the instance or none of its job.
LEMMA NoChange ==
    ASSUME SeekIInv, NEW i \in Instance
    PROVE  inst = [inst EXCEPT ![i] = inst[i]] /\ job = [job EXCEPT ![i] = job[i]]
  BY DEF SeekIInv

newJob(c, f, receipts, phase, todo) ==
    [ceiling |-> c, frontier |-> f, receipts |-> receipts, got |-> {}, phase |-> phase,
     todo |-> todo, entry |-> none, index |-> << >>]

\* A materialization begins: the writers with patches are still to be walked.
LEMMA NewJob ==
    ASSUME NEW L \in Lamports, NEW c, c = null \/ tickOk(c), NEW f, past(L, f),
           NEW phase \in {"walk", "lookup"}, c = null => phase = "walk",
           NEW todo \in SUBSET SeekWriter, c # null => \A w \in SeekWriter \ todo : f[w] <= 0,
           NEW receipts \in BOOLEAN, NEW j,
           j = newJob(c, f, receipts, phase, todo)
    PROVE  jobOk(L, j) /\ j.ceiling = c /\ j.frontier = f
  <1>1. /\ j.ceiling = c /\ j.frontier = f /\ j.got = {} /\ j.phase = phase /\ j.todo = todo
        /\ j.index = << >>
    BY DEF newJob
  <1>2. j \in jobShape({c, f, {}, phase, none, << >>})
    BY DEF jobShape, newJob
  <1>3. indexOk(L, j.index)
    BY <1>1, SingleOk
  <1>4. c # null => walkOk(L, j)
    <2> SUFFICES ASSUME c # null, NEW p \in patchesIn(L, f, c)
                 PROVE  p[1] \in todo
      BY <1>1 DEF walkOk
    <2>1. p[1] \in SeekWriter /\ p[2] \in Nat \ {0} /\ p[2] <= f[p[1]] /\ f[p[1]] \in Int
      BY SeekAssumption DEF patchesIn, past
    <2> QED
      BY <2>1
  <1>5. foundOk(L, j)
    BY <1>1 DEF foundOk, withEntry
  <1> QED
    BY <1>1, <1>2, <1>3, <1>4, <1>5 DEF jobOk

LEMMA Basics ==
    ASSUME SeekIInv
    PROVE  /\ lamports \in Lamports /\ indexOk(lamports, cache) /\ \A m \in puts : putOk(lamports, m)
           /\ \A i \in Instance : instOk(lamports, inst[i])
           /\ getFrontierNow = frontierIn(lamports) /\ past(lamports, getFrontierNow)
           /\ \A w \in SeekWriter : getFrontierNow[w] \in Nat
           /\ \A f, c : patchesUpTo(f, c) = patchesIn(lamports, f, c)
           /\ Lib \in Instance /\ Cli \in Instance /\ Lib # Cli
  <1>1. lamports \in Lamports
    BY DEF SeekIInv
  <1>2. \A w \in SeekWriter : getFrontierNow[w] \in Nat
    BY <1>1, FrontierIsPast DEF getFrontierNow
  <1> QED
    BY <1>1, <1>2, FrontierIsPast, SameNames, SeekAssumption DEF SeekIInv, Instance

LEMMA MaterializeAtCeilingKeeps ==
    ASSUME SeekIInv, NEW c \in Ceiling, NEW receipts \in BOOLEAN,
           materializeAtCeiling(Lib, c, receipts)
    PROVE  SeekIInv'
  <1> DEFINE f == getFrontierNow
             g == inst[Lib]
  <1>0. /\ lamports \in Lamports /\ Lib \in Instance /\ Lib # Cli /\ instOk(lamports, g)
        /\ past(lamports, f) /\ f = frontierIn(lamports) /\ tickOk(c) /\ c # null
        /\ \A w \in SeekWriter : f[w] \in Nat
        /\ indexOk(lamports, cache) /\ \A m \in puts : putOk(lamports, m)
    BY Basics, SeekAssumption DEF tickOk, null
  <1>1. UNCHANGED <<lamports, puts, cache, cursor, saved, cmd>> /\ job[Lib] = none
    BY DEF materializeAtCeiling
  <1>2. inst = [inst EXCEPT ![Lib] = inst[Lib]] /\ job = [job EXCEPT ![Lib] = job[Lib]]
    BY <1>0, NoChange
  <1>3. CASE /\ memoryHit(g, c, f) /\ ~receipts
             /\ inst' = [inst EXCEPT ![Lib] = answering(g, c, f)] /\ UNCHANGED job
    <2>1. PICK h : h = answering(g, c, f)
      OBVIOUS
    <2>2. PICK D : g \in instShape(D)
      BY <1>0 DEF instOk
    <2> HIDE DEF f, g
    <2>3. /\ \E E : h \in instShape(E)
          /\ h.has = g.has /\ h.dirty = g.dirty /\ h.joined = g.joined /\ h.state = g.state
          /\ h.index = g.index /\ h.ceiling = g.ceiling /\ h.frontier = g.frontier
          /\ h.prov = g.prov /\ h.hasProv = g.hasProv /\ h.degraded = g.degraded
          /\ h.answer.ceiling = c /\ h.answer.since = f /\ h.answer.state = g.state
      BY <2>1, <2>2, AnsweringFields
    <2>4. g.has /\ ~g.dirty /\ g.ceiling = c /\ g.frontier = f
      BY <1>3 DEF memoryHit
    <2>5. stateOk(lamports, h) /\ provOk(h) /\ past(lamports, h.frontier)
      BY <1>0, <2>3 DEF instOk, stateOk, provOk
    <2>6. answerOk(lamports, h)
      <3> SUFFICES ASSUME ~g.joined
                   PROVE  holds(lamports, g.state, f, c)
        BY <1>0, <2>3 DEF answerOk
      <3>1. g.state = patchesIn(lamports, f, c)
        BY <1>0, <2>4 DEF instOk, stateOk
      <3> QED
        BY <1>0, <3>1, HoldsNow
    <2>7. instOk(lamports, h)
      BY <2>3, <2>5, <2>6 DEF instOk
    <2>8. inst' = [inst EXCEPT ![Lib] = h] /\ job' = [job EXCEPT ![Lib] = none]
      BY <1>1, <1>2, <1>3, <2>1
    <2> HIDE <2>1
    <2> QED
      BY <1>0, <1>1, <2>7, <2>8, OneInstance
  <1>4. CASE /\ (c <= 0 \/ \A w \in SeekWriter : f[w] = 0)
             /\ inst' = [inst EXCEPT ![Lib] = withProvenance(answering(install(g, {}, c, f), c, f), {})]
             /\ UNCHANGED job
    <2>1. PICK h : h = withProvenance(answering(install(g, {}, c, f), c, f), {})
      OBVIOUS
    <2> HIDE DEF f, g
    <2>2. patchesIn(lamports, f, c) = {}
      BY <1>0, <1>4, NothingThere
    <2>3. holds(lamports, {}, f, c)
      BY <1>0, <2>2, HoldsNow
    <2>4. instOk(lamports, h)
      BY <1>0, <2>1, <2>3, ResultOk
    <2>5. inst' = [inst EXCEPT ![Lib] = h] /\ job' = [job EXCEPT ![Lib] = none]
      BY <1>1, <1>2, <1>4, <2>1
    <2> HIDE <2>1
    <2> QED
      BY <1>0, <1>1, <2>4, <2>5, OneInstance
  <1>5. CASE /\ job' = [job EXCEPT ![Lib] =
                  [ceiling |-> c, frontier |-> f, receipts |-> receipts, got |-> {},
                   phase |-> IF receipts THEN "walk" ELSE "lookup",
                   todo |-> {w \in SeekWriter : f[w] > 0}, entry |-> none, index |-> << >>]]
             /\ UNCHANGED inst
    <2>1. PICK phase \in {"walk", "lookup"} : phase = IF receipts THEN "walk" ELSE "lookup"
      OBVIOUS
    <2>2. PICK T : T = {w \in SeekWriter : f[w] > 0}
      OBVIOUS
    <2>3. PICK j : j = newJob(c, f, receipts, phase, T)
      OBVIOUS
    <2>4. T \in SUBSET SeekWriter /\ \A w \in SeekWriter \ T : f[w] <= 0
      BY <1>0, <2>2
    <2>5. job' = [job EXCEPT ![Lib] = j] /\ inst' = [inst EXCEPT ![Lib] = inst[Lib]]
      BY <1>2, <1>5, <2>1, <2>2, <2>3 DEF newJob
    <2> HIDE DEF f
    <2>6. jobOk(lamports, j)
      BY <1>0, <2>3, <2>4, NewJob
    <2> HIDE <2>3
    <2> QED
      BY <1>0, <1>1, <2>5, <2>6, OneInstance DEF g
  <1> QED
    BY <1>3, <1>4, <1>5 DEF materializeAtCeiling

LEMMA MaterializeKeeps ==
    ASSUME SeekIInv, materialize(Lib)
    PROVE  SeekIInv'
  <1>0. /\ lamports \in Lamports /\ Lib \in Instance /\ Lib # Cli /\ instOk(lamports, inst[Lib])
        /\ indexOk(lamports, cache) /\ \A m \in puts : putOk(lamports, m)
    BY Basics
  <1>1. UNCHANGED <<lamports, inst, puts, cache, cursor, saved, cmd>>
    BY DEF materialize
  <1>2. PICK j : j = newJob(null, noFrontier, FALSE, "walk", SeekWriter)
    OBVIOUS
  <1>3. job' = [job EXCEPT ![Lib] = j] /\ inst' = [inst EXCEPT ![Lib] = inst[Lib]]
    BY <1>0, <1>1, <1>2, NoChange DEF materialize, newJob
  <1>4. past(lamports, noFrontier)
    BY <1>0, FrontierIsPast DEF past, noFrontier, null
  <1>5. jobOk(lamports, j)
    BY <1>0, <1>2, <1>4, NewJob
  <1> HIDE <1>2
  <1> QED
    BY <1>0, <1>1, <1>3, <1>5, OneInstance

LEMMA FinishLatestKeeps ==
    ASSUME SeekIInv, finishLatest(Lib)
    PROVE  SeekIInv'
  <1>0. /\ lamports \in Lamports /\ Lib \in Instance /\ Lib # Cli /\ instOk(lamports, inst[Lib])
        /\ indexOk(lamports, cache) /\ \A m \in puts : putOk(lamports, m)
    BY Basics
  <1>1. UNCHANGED <<lamports, puts, cache, cursor, saved, cmd>> /\ job' = [job EXCEPT ![Lib] = none]
    BY DEF finishLatest
  <1>2. PICK g, S, h1, h2, h : /\ g = inst[Lib] /\ S = job[Lib].got
                               /\ h1 = install(g, S, null, noFrontier)
                               /\ h2 = withProvenance(h1, S) /\ h = [h2 EXCEPT !.answer = none]
    OBVIOUS
  <1>3. inst' = [inst EXCEPT ![Lib] = h]
    BY <1>2 DEF finishLatest
  <1>4. \E D : g \in instShape(D)
    BY <1>0, <1>2 DEF instOk
  <1>5. /\ \E E : h1 \in instShape(E)
        /\ h1.state = S /\ h1.ceiling = null /\ h1.frontier = noFrontier /\ h1.joined = FALSE
    <2>1. \A S1, c1, f1 :
             /\ \E E : install(g, S1, c1, f1) \in instShape(E)
             /\ install(g, S1, c1, f1).has = TRUE /\ install(g, S1, c1, f1).dirty = FALSE
             /\ install(g, S1, c1, f1).joined = FALSE /\ install(g, S1, c1, f1).state = S1
             /\ install(g, S1, c1, f1).index = S1 /\ install(g, S1, c1, f1).ceiling = c1
             /\ install(g, S1, c1, f1).frontier = f1 /\ install(g, S1, c1, f1).answer = g.answer
      BY <1>4, InstallFields, Zenon
    <2> QED
      BY <1>2, <2>1
  <1>6. PICK E : h1 \in instShape(E)
    BY <1>5
  <1>7. /\ \E F : h2 \in instShape(F)
        /\ h2.state = S /\ h2.ceiling = null /\ h2.frontier = noFrontier /\ h2.joined = FALSE
        /\ h2.degraded \/ h2.prov = S
    BY <1>2, <1>5, <1>6, ProvenanceFields
  <1>8. PICK F : h2 \in instShape(F)
    BY <1>7
  <1>9. /\ h \in instShape(F \cup {none}) /\ h.answer = none
        /\ h.state = h2.state /\ h.ceiling = h2.ceiling /\ h.frontier = h2.frontier
        /\ h.degraded = h2.degraded /\ h.prov = h2.prov
    BY <1>2, <1>8 DEF instShape
  <1>10. past(lamports, noFrontier)
    BY <1>0, FrontierIsPast DEF past, noFrontier, null
  <1>11. instOk(lamports, h)
    BY <1>7, <1>9, <1>10 DEF instOk, stateOk, answerOk, provOk
  <1> HIDE <1>2
  <1> QED
    BY <1>0, <1>1, <1>3, <1>11, OneInstance

\* A job goes on: its ceiling and its frontier stay.
LEMMA JobGoesOn ==
    ASSUME SeekIInv, NEW i \in Instance, job[i] # none, NEW j,
           job' = [job EXCEPT ![i] = j], jobOk(lamports, j),
           j.ceiling = job[i].ceiling, j.frontier = job[i].frontier,
           UNCHANGED <<lamports, inst, puts, cursor, saved, cmd>>, indexOk(lamports, cache')
    PROVE  SeekIInv'
  <1>1. inst' = [inst EXCEPT ![i] = inst[i]]
    BY NoChange
  <1>2. i = Cli => /\ ~inst[i].dirty /\ ~inst[i].joined /\ cmd # none /\ cmd.started
                   /\ follows(job[i], cmd)
    BY DEF SeekIInv, cliOk
  <1>3. i = Cli => follows(j, cmd)
    BY <1>2 DEF follows
  <1>4. instOk(lamports, inst[i]) /\ \A m \in puts' : putOk(lamports, m)
    BY DEF SeekIInv
  <1>5. /\ ~inst[i].dirty \/ i # Cli
        /\ i = Cli =>
             /\ ~inst[i].dirty /\ ~inst[i].joined
             /\ j # none => cmd # none /\ cmd.started
             /\ cmd # none /\ cmd.started /\ j # none => follows(j, cmd)
    BY <1>2, <1>3
  <1>6. j = none => i # Cli
    <2>1. SUFFICES ASSUME j = none, i = Cli
                   PROVE  FALSE
      OBVIOUS
    <2>2. PICK D : j \in jobShape(D)
      BY DEF jobOk
    <2>3. DOMAIN j = {"ceiling", "frontier", "receipts", "got", "phase", "todo", "entry", "index"}
      BY <2>2 DEF jobShape
    <2>4. DOMAIN none = {"none"}
      BY DEF none
    <2> QED
      BY <2>1, <2>3, <2>4
  <1> QED
    BY <1>1, <1>4, <1>5, <1>6, OneInstance

LEMMA LookupKeeps ==
    ASSUME SeekIInv, NEW i \in Instance, lookup(i)
    PROVE  SeekIInv'
  <1>0. job[i] # none /\ job[i].phase = "lookup" /\ jobOk(lamports, job[i]) /\ indexOk(lamports, cache)
    BY DEF lookup, SeekIInv
  <1>1. UNCHANGED <<lamports, inst, puts, cache, cursor, saved, cmd>>
    BY DEF lookup
  <1>2. PICK D : job[i] \in jobShape(D)
    BY <1>0 DEF jobOk
  <1>3. PICK hit : hit = entryOf(cache, buildSeekCacheKey(job[i].ceiling, job[i].frontier))
    OBVIOUS
  <1>4. CASE hit = << >>
    <2>1. PICK j : j = [job[i] EXCEPT !.phase = "walk"]
      OBVIOUS
    <2>2. /\ j \in jobShape(D \cup {"walk"})
          /\ j.ceiling = job[i].ceiling /\ j.frontier = job[i].frontier /\ j.got = job[i].got
          /\ j.todo = job[i].todo /\ j.index = job[i].index /\ j.phase = "walk"
      BY <1>2, <2>1 DEF jobShape
    <2>3. jobOk(lamports, j)
      BY <1>0, <2>2 DEF jobOk, walkOk, foundOk, withEntry
    <2>4. job' = [job EXCEPT ![i] = j]
      BY <1>3, <1>4, <2>1 DEF lookup, SeekIInv
    <2> HIDE <2>1
    <2> QED
      BY <1>0, <1>1, <2>2, <2>3, <2>4, JobGoesOn
  <1>5. CASE hit # << >>
    <2>1. PICK kind \in {"touch", "delete"} :
            job' = [job EXCEPT ![i].phase = kind, ![i].entry = hit[1]]
      BY <1>3, <1>5 DEF lookup
    <2>2. PICK e : e = hit[1]
      OBVIOUS
    <2>3. PICK j : j = [job[i] EXCEPT !.phase = kind, !.entry = e]
      OBVIOUS
    <2>4. entryOk(lamports, e) /\ e.key = <<job[i].ceiling, job[i].frontier>>
      <3>1. /\ entryOk(lamports, hit[1])
            /\ hit[1].key = buildSeekCacheKey(job[i].ceiling, job[i].frontier)
        BY <1>0, <1>3, <1>5, EntryOfOk
      <3> QED
        BY <2>2, <3>1 DEF buildSeekCacheKey
    <2>5. /\ j \in jobShape(D \cup {kind, e})
          /\ j.ceiling = job[i].ceiling /\ j.frontier = job[i].frontier /\ j.got = job[i].got
          /\ j.todo = job[i].todo /\ j.index = job[i].index /\ j.phase = kind /\ j.entry = e
      BY <1>2, <2>3 DEF jobShape
    <2>6. j.ceiling # null
      BY <1>0, <2>5 DEF jobOk
    <2>7. jobOk(lamports, j)
      BY <1>0, <2>4, <2>5, <2>6 DEF jobOk, walkOk, foundOk
    <2>8. job' = [job EXCEPT ![i] = j]
      BY <2>1, <2>2, <2>3 DEF SeekIInv
    <2> HIDE <2>3
    <2> QED
      BY <1>0, <1>1, <2>5, <2>7, <2>8, JobGoesOn
  <1> QED
    BY <1>4, <1>5

LEMMA AccessReadKeeps ==
    ASSUME SeekIInv, NEW i \in Instance, accessRead(i)
    PROVE  SeekIInv'
  <1>0. /\ job[i] # none /\ job[i].phase \in {"touch", "delete"}
        /\ jobOk(lamports, job[i]) /\ indexOk(lamports, cache)
    BY DEF accessRead, SeekIInv
  <1>1. UNCHANGED <<lamports, inst, puts, cache, cursor, saved, cmd>>
    BY DEF accessRead
  <1>2. PICK D : job[i] \in jobShape(D)
    BY <1>0 DEF jobOk
  <1>3. PICK phase \in {"touching", "deleting"} :
          phase = IF job[i].phase = "touch" THEN "touching" ELSE "deleting"
    OBVIOUS
  <1>4. PICK j : j = [job[i] EXCEPT !.phase = phase, !.index = cache]
    OBVIOUS
  <1>5. /\ j \in jobShape(D \cup {phase, cache})
        /\ j.ceiling = job[i].ceiling /\ j.frontier = job[i].frontier /\ j.got = job[i].got
        /\ j.todo = job[i].todo /\ j.index = cache /\ j.phase = phase /\ j.entry = job[i].entry
    BY <1>2, <1>4 DEF jobShape
  <1>6. jobOk(lamports, j)
    BY <1>0, <1>5 DEF jobOk, walkOk, foundOk, withEntry
  <1>7. job' = [job EXCEPT ![i] = j]
    BY <1>3, <1>4 DEF accessRead, SeekIInv
  <1> HIDE <1>4
  <1> QED
    BY <1>0, <1>1, <1>5, <1>6, <1>7, JobGoesOn

LEMMA WalkChainKeeps ==
    ASSUME SeekIInv, NEW i \in Instance, NEW w \in SeekWriter, walkChain(i, w)
    PROVE  SeekIInv'
  <1>0. /\ job[i] # none /\ job[i].phase = "walk" /\ jobOk(lamports, job[i]) /\ indexOk(lamports, cache)
        /\ lamports \in Lamports
    BY DEF walkChain, SeekIInv
  <1>1. UNCHANGED <<lamports, inst, puts, cache, cursor, saved, cmd>>
    BY DEF walkChain
  <1>2. PICK D : job[i] \in jobShape(D)
    BY <1>0 DEF jobOk
  <1>3. PICK T, G : /\ T = job[i].todo \ {w}
                    /\ G = job[i].got \cup {p \in patchesUpTo(getFrontierNow, job[i].ceiling) : p[1] = w}
    OBVIOUS
  <1>4. PICK j : j = [job[i] EXCEPT !.todo = T, !.got = G]
    OBVIOUS
  <1>5. T \in SUBSET SeekWriter
    BY <1>2, <1>3 DEF jobShape
  <1>6. /\ j \in jobShape(D \cup {G})
        /\ j.ceiling = job[i].ceiling /\ j.frontier = job[i].frontier /\ j.got = G
        /\ j.todo = T /\ j.index = job[i].index /\ j.phase = "walk"
    BY <1>0, <1>2, <1>4, <1>5 DEF jobShape
  <1>7. ASSUME j.ceiling # null
        PROVE  walkOk(lamports, j)
    <2> DEFINE c == job[i].ceiling
               f == job[i].frontier
    <2>1. walkOk(lamports, job[i]) /\ past(lamports, f)
      BY <1>0, <1>6, <1>7 DEF jobOk
    <2>2. patchesUpTo(getFrontierNow, c) = patchesIn(lamports, frontierIn(lamports), c)
      BY SameNames
    <2>3. patchesIn(lamports, f, c) \subseteq patchesIn(lamports, frontierIn(lamports), c)
      BY <1>0, <2>1, Unchanged, PatchesStay
    <2> HIDE DEF c, f
    <2>4. G \subseteq patchesIn(lamports, frontierIn(lamports), c)
      BY <1>3, <2>1, <2>2 DEF walkOk, c
    <2>5. ASSUME NEW p \in patchesIn(lamports, f, c)
          PROVE  p[1] \in T \/ p \in G
      BY <1>3, <2>1, <2>2, <2>3 DEF walkOk, c, f
    <2> QED
      BY <1>6, <2>1, <2>4, <2>5 DEF walkOk, c, f
  <1>8. jobOk(lamports, j)
    BY <1>0, <1>6, <1>7 DEF jobOk, foundOk, withEntry
  <1>9. job' = [job EXCEPT ![i] = j]
    BY <1>3, <1>4 DEF walkChain, SeekIInv
  <1> HIDE <1>4
  <1> QED
    BY <1>0, <1>1, <1>6, <1>8, <1>9, JobGoesOn

\* A job ends with a result for its ceiling.
LEMMA JobEnds ==
    ASSUME SeekIInv, NEW i \in Instance, job[i] # none, job[i].ceiling # null, NEW h,
           inst' = [inst EXCEPT ![i] = h], job' = [job EXCEPT ![i] = none],
           instOk(lamports, h), h.has, ~h.dirty, ~h.joined,
           h.ceiling = job[i].ceiling, h.frontier = job[i].frontier,
           UNCHANGED <<lamports, cursor, saved, cmd>>,
           indexOk(lamports, cache'), \A m \in puts' : putOk(lamports, m)
    PROVE  SeekIInv'
  <1>1. i = Cli => cmd # none /\ cmd.started /\ follows(job[i], cmd)
    BY DEF SeekIInv, cliOk
  <1>2. i = Cli => follows(h, cmd)
    BY <1>1 DEF follows
  <1> QED
    BY <1>1, <1>2, OneInstance

LEMMA FinishCeilingKeeps ==
    ASSUME SeekIInv, NEW i \in Instance, finishCeiling(i)
    PROVE  SeekIInv'
  <1>0. /\ job[i] # none /\ job[i].phase = "walk" /\ jobOk(lamports, job[i]) /\ job[i].ceiling # null
        /\ job[i].todo = {} /\ lamports \in Lamports /\ instOk(lamports, inst[i])
        /\ indexOk(lamports, cache) /\ \A m \in puts : putOk(lamports, m)
    BY DEF finishCeiling, SeekIInv
  <1>1. UNCHANGED <<lamports, cache, cursor, saved, cmd>> /\ job' = [job EXCEPT ![i] = none]
    BY DEF finishCeiling
  <1>2. PICK D : job[i] \in jobShape(D)
    BY <1>0 DEF jobOk
  <1>3. PICK G, c, f : G = job[i].got /\ c = job[i].ceiling /\ f = job[i].frontier
    OBVIOUS
  <1>4. PICK j : j = [job[i] EXCEPT !.frontier = frontierOf(job[i])]
    OBVIOUS
  <1>5. j.got = G /\ j.ceiling = c /\ j.frontier = f /\ j.receipts = job[i].receipts
    BY <1>2, <1>3, <1>4 DEF jobShape, frontierOf
  <1>6. past(lamports, f) /\ holds(lamports, G, f, c)
    BY <1>0, <1>3 DEF jobOk, walkOk, holds
  <1>7. PICK h : h = withProvenance(answering(install(inst[i], G, c, f), c, f), G)
    OBVIOUS
  <1>8. inst' = [inst EXCEPT ![i] = h] /\ puts' = puts \cup _persistSeekCacheEntry(j)
    BY <1>3, <1>4, <1>5, <1>7 DEF finishCeiling
  <1>9. instOk(lamports, h) /\ h.has /\ ~h.dirty /\ ~h.joined /\ h.ceiling = c /\ h.frontier = f
    BY <1>0, <1>6, <1>7, ResultOk
  <1>10. \A m \in puts' : putOk(lamports, m)
    <2> SUFFICES ASSUME NEW m \in _persistSeekCacheEntry(j)
                 PROVE  putOk(lamports, m)
      BY <1>0, <1>8
    <2>1. PICK key : key = <<c, f>>
      OBVIOUS
    <2>2. PICK e : e = [key |-> key, state |-> G, index |-> G]
      OBVIOUS
    <2>3. m = [kind |-> "set", phase |-> "read", index |-> << >>, entry |-> e]
      BY <1>5, <2>1, <2>2 DEF _persistSeekCacheEntry, buildSeekCacheKey
    <2>4. e.key = key /\ e.state = G /\ e.index = G /\ key[1] = c /\ key[2] = f
      BY <2>1, <2>2
    <2>5. entryOk(lamports, e)
      BY <1>6, <2>4 DEF entryOk
    <2> HIDE <2>2
    <2>6. m \in putShape({"set", "read", << >>, e}) /\ m.kind = "set" /\ m.index = << >> /\ m.entry = e
      BY <2>3 DEF putShape
    <2> QED
      BY <2>5, <2>6, SingleOk DEF putOk
  <1> HIDE <1>4, <1>7
  <1>11. indexOk(lamports, cache')
    BY <1>0, <1>1
  <1> QED
    BY <1>0, <1>1, <1>3, <1>8, <1>9, <1>10, <1>11, JobEnds

LEMMA AccessWriteKeeps ==
    ASSUME SeekIInv, NEW i \in Instance, accessWrite(i)
    PROVE  SeekIInv'
  <1>0. /\ job[i] # none /\ job[i].phase \in {"touching", "deleting"} /\ jobOk(lamports, job[i])
        /\ lamports \in Lamports /\ instOk(lamports, inst[i])
        /\ indexOk(lamports, cache) /\ \A m \in puts : putOk(lamports, m)
    BY DEF accessWrite, SeekIInv
  <1>1. UNCHANGED <<lamports, puts, cursor, saved, cmd>>
    BY DEF accessWrite
  <1>2. PICK D : job[i] \in jobShape(D)
    BY <1>0 DEF jobOk
  <1>3. PICK e, c, f, S : e = job[i].entry /\ c = job[i].ceiling /\ f = job[i].frontier /\ S = e.state
    OBVIOUS
  <1>4. PICK kind \in {"touch", "delete"} : kind = IF job[i].phase = "touching" THEN "touch" ELSE "delete"
    OBVIOUS
  <1>5. PICK m : m = [kind |-> kind, entry |-> e]
    OBVIOUS
  <1>6. PICK written : written = mutate(m, job[i].index)
    OBVIOUS
  <1>7. indexOk(lamports, written) /\ indexOk(lamports, without(written, e.key))
    <2>1. m.kind = kind /\ m.entry = e /\ indexOk(lamports, job[i].index)
      BY <1>0, <1>5 DEF jobOk
    <2>2. indexOk(lamports, written)
      BY <1>6, <2>1, MutateOk
    <2> QED
      BY <2>2, EntryOfOk
  <1>8. /\ c # null /\ entryOk(lamports, e) /\ e.key[1] = c /\ e.key[2] = f
        /\ past(lamports, f) /\ holds(lamports, S, f, c) /\ e.index = S
    <2>1. entryOk(lamports, e) /\ e.key = <<c, f>> /\ c # null
      BY <1>0, <1>3 DEF jobOk, foundOk, withEntry
    <2>2. e.key[1] = c /\ e.key[2] = f
      BY <2>1
    <2> QED
      BY <1>3, <2>1, <2>2 DEF entryOk
  <1>9. PICK r : r = degrade(answering(install(inst[i], S, c, f), c, f))
    OBVIOUS
  <1>10. /\ instOk(lamports, r) /\ r.has /\ ~r.dirty /\ ~r.joined /\ r.ceiling = c /\ r.frontier = f
         /\ r.state = S /\ r.index = S
    BY <1>0, <1>8, <1>9, ResultOk
  <1>11. \/ /\ cache' = written
            /\ \E index \in {e.index, e.state} : inst' = [inst EXCEPT ![i] = [r EXCEPT !.index = index]]
            /\ job' = [job EXCEPT ![i] = none]
         \/ /\ cache' \in {written, without(written, e.key)} /\ UNCHANGED inst
            /\ job' = [job EXCEPT ![i].phase = "walk", ![i].entry = none, ![i].index = << >>]
         \/ /\ UNCHANGED <<cache, inst>>
            /\ \E phase \in {"delete", "walk"} :
                 job' = [job EXCEPT ![i].phase = phase, ![i].index = << >>]
    BY <1>3, <1>4, <1>5, <1>6, <1>9 DEF accessWrite
  <1> HIDE <1>5, <1>6, <1>9
  <1>12. CASE /\ cache' = written
              /\ \E index \in {e.index, e.state} : inst' = [inst EXCEPT ![i] = [r EXCEPT !.index = index]]
              /\ job' = [job EXCEPT ![i] = none]
    <2>1. inst' = [inst EXCEPT ![i] = [r EXCEPT !.index = S]]
      BY <1>3, <1>8, <1>12
    <2>2. [r EXCEPT !.index = S] = r
      <3>1. PICK E : r \in instShape(E)
        BY <1>10 DEF instOk
      <3> QED
        BY <1>10, <3>1 DEF instShape
    <2>3. inst' = [inst EXCEPT ![i] = r]
      BY <2>1, <2>2
    <2> QED
      BY <1>0, <1>1, <1>3, <1>7, <1>8, <1>10, <1>12, <2>3, JobEnds
  <1>13. CASE /\ cache' \in {written, without(written, e.key)} /\ UNCHANGED inst
              /\ job' = [job EXCEPT ![i].phase = "walk", ![i].entry = none, ![i].index = << >>]
    <2>1. PICK j : j = [job[i] EXCEPT !.phase = "walk", !.entry = none, !.index = << >>]
      OBVIOUS
    <2>2. /\ j \in jobShape(D \cup {"walk", none, << >>})
          /\ j.ceiling = job[i].ceiling /\ j.frontier = job[i].frontier /\ j.got = job[i].got
          /\ j.todo = job[i].todo /\ j.index = << >> /\ j.phase = "walk"
      BY <1>2, <2>1 DEF jobShape
    <2>3. jobOk(lamports, j)
      BY <1>0, <2>2, SingleOk DEF jobOk, walkOk, foundOk, withEntry
    <2>4. job' = [job EXCEPT ![i] = j] /\ indexOk(lamports, cache')
      BY <1>7, <1>13, <2>1 DEF SeekIInv
    <2> HIDE <2>1
    <2> QED
      BY <1>0, <1>1, <1>13, <2>2, <2>3, <2>4, JobGoesOn
  <1>14. CASE /\ UNCHANGED <<cache, inst>>
              /\ \E phase \in {"delete", "walk"} :
                   job' = [job EXCEPT ![i].phase = phase, ![i].index = << >>]
    <2>1. PICK phase \in {"delete", "walk"} :
            job' = [job EXCEPT ![i].phase = phase, ![i].index = << >>]
      BY <1>14
    <2>2. PICK j : j = [job[i] EXCEPT !.phase = phase, !.index = << >>]
      OBVIOUS
    <2>3. /\ j \in jobShape(D \cup {phase, << >>})
          /\ j.ceiling = job[i].ceiling /\ j.frontier = job[i].frontier /\ j.got = job[i].got
          /\ j.todo = job[i].todo /\ j.index = << >> /\ j.phase = phase /\ j.entry = job[i].entry
      BY <1>2, <2>2 DEF jobShape
    <2>4. jobOk(lamports, j)
      BY <1>0, <1>3, <1>8, <2>3, SingleOk DEF jobOk, walkOk, foundOk, withEntry
    <2>5. job' = [job EXCEPT ![i] = j] /\ indexOk(lamports, cache')
      BY <1>0, <1>14, <2>1, <2>2 DEF SeekIInv
    <2> HIDE <2>2
    <2> QED
      BY <1>0, <1>1, <1>14, <2>3, <2>4, <2>5, JobGoesOn
  <1> QED
    BY <1>11, <1>12, <1>13, <1>14

----------------------------------------------------------------------------
(* The seek command.                                                       *)

LEMMA FreshOk ==
    ASSUME NEW L \in Lamports
    PROVE  instOk(L, freshInstance) /\ ~freshInstance.dirty /\ ~freshInstance.joined
  <1>1. /\ freshInstance.has = FALSE /\ freshInstance.frontier = noFrontier
        /\ freshInstance.answer = none /\ freshInstance.dirty = FALSE /\ freshInstance.joined = FALSE
    BY DEF freshInstance
  <1>2. freshInstance \in instShape({{}, null, noFrontier, none})
    BY DEF freshInstance, instShape
  <1>3. past(L, noFrontier)
    BY FrontierIsPast DEF past, noFrontier, null
  <1> QED
    BY <1>1, <1>2, <1>3 DEF instOk, stateOk, answerOk, provOk

LEMMA StartSeekKeeps ==
    ASSUME SeekIInv, startSeek
    PROVE  SeekIInv'
  <1>0. /\ lamports \in Lamports /\ Cli \in Instance /\ past(lamports, getFrontierNow)
        /\ instOk(lamports, freshInstance) /\ ~freshInstance.dirty /\ ~freshInstance.joined
    BY Basics, FreshOk
  <1>1. PICK x \in seekTargets(discoverTicks(getFrontierNow)) :
          /\ cmd' = [action |-> x.action, tick |-> x.tick, prev |-> cursor,
                     frontier |-> getFrontierNow, started |-> FALSE]
          /\ cursor' = IF x.action = "latest" THEN none ELSE cursor
    BY DEF startSeek
  <1>2. /\ inst' = [inst EXCEPT ![Cli] = freshInstance] /\ cmd = none
        /\ UNCHANGED <<lamports, job, puts, cache, saved>>
    BY DEF startSeek
  <1>3. tickOk(x.tick)
    BY <1>0, TargetTicks DEF SeekIInv, cursorOk
  <1>4. PICK a, t, f : a = x.action /\ t = x.tick /\ f = getFrontierNow
    OBVIOUS
  <1>5. cmd' = [action |-> a, tick |-> t, prev |-> cursor, frontier |-> f, started |-> FALSE]
    BY <1>1, <1>4
  <1>6. /\ cmd' \in cmdShape({a, t, cursor, f}) /\ cmd'.tick = t /\ cmd'.prev = cursor
        /\ cmd'.frontier = f /\ cmd'.started = FALSE
    BY <1>5 DEF cmdShape
  <1>7. commandOk(lamports, cmd')
    BY <1>0, <1>3, <1>4, <1>6 DEF commandOk, SeekIInv
  <1>8. /\ DOMAIN inst' = Instance /\ inst' = [i \in Instance |-> inst'[i]]
        /\ inst'[Cli] = freshInstance /\ \A i \in Instance : i # Cli => inst'[i] = inst[i]
    BY <1>0, <1>2 DEF SeekIInv
  <1>9. job[Cli] = none
    BY <1>2 DEF SeekIInv, cliOk
  <1>10. cliOk'
    BY <1>0, <1>2, <1>6, <1>8, <1>9 DEF cliOk
  <1>11. cursor' # none => cursorOk(lamports, cursor')
    BY <1>1 DEF SeekIInv
  <1>12. \A i \in Instance : instOk(lamports, inst'[i])
    <2> TAKE i \in Instance
    <2> QED
      BY <1>0, <1>8 DEF SeekIInv
  <1> QED
    BY <1>2, <1>7, <1>8, <1>10, <1>11, <1>12 DEF SeekIInv

LEMMA RunSeekKeeps ==
    ASSUME SeekIInv, runSeek
    PROVE  SeekIInv'
  <1> DEFINE f == getFrontierNow
  <1>0. /\ lamports \in Lamports /\ Cli \in Instance /\ past(lamports, f) /\ f = frontierIn(lamports)
        /\ \A w \in SeekWriter : f[w] \in Nat
        /\ instOk(lamports, inst[Cli]) /\ ~inst[Cli].dirty /\ ~inst[Cli].joined
    BY Basics DEF SeekIInv, cliOk
  <1>1. /\ cmd # none /\ ~cmd.started /\ job[Cli] = none /\ cmd' = [cmd EXCEPT !.started = TRUE]
        /\ UNCHANGED <<lamports, puts, cache, cursor, saved>>
    BY DEF runSeek
  <1>2. commandOk(lamports, cmd)
    BY <1>1 DEF SeekIInv
  <1>3. PICK D : cmd \in cmdShape(D)
    BY <1>2 DEF commandOk
  <1>4. /\ cmd' \in cmdShape(D) /\ cmd'.tick = cmd.tick /\ cmd'.prev = cmd.prev
        /\ cmd'.frontier = cmd.frontier /\ cmd'.started = TRUE
    BY <1>1, <1>3 DEF cmdShape
  <1>5. commandOk(lamports, cmd')
    BY <1>2, <1>4 DEF commandOk
  <1>6. cmd' # none
    <2>1. DOMAIN cmd' = {"action", "tick", "prev", "frontier", "started"}
      BY <1>4 DEF cmdShape
    <2>2. DOMAIN none = {"none"}
      BY DEF none
    <2> QED
      BY <2>1, <2>2
  <1>7. tickOk(cmd.tick) /\ \A w \in SeekWriter : cmd.frontier[w] <= f[w]
    BY <1>0, <1>2 DEF commandOk, past, frontierIn
  <1> DEFINE c == cmd.tick
             g == inst[Cli]
  <1>8. CASE /\ cmd.tick <= 0 \/ \A w \in SeekWriter : f[w] = 0
             /\ inst' = [inst EXCEPT ![Cli] = withProvenance(install(g, {}, c, f), {})]
             /\ UNCHANGED job
    <2>1. PICK h : h = withProvenance(install(g, {}, c, f), {})
      OBVIOUS
    <2>2. /\ inst' = [inst EXCEPT ![Cli] = h]
      BY <1>8, <2>1
    <2> HIDE DEF f, g, c
    <2>3. holds(lamports, {}, f, c)
      <3>1. patchesIn(lamports, f, c) = {}
        BY <1>0, <1>7, <1>8, NothingThere DEF c
      <3> QED
        BY <1>0, <3>1, HoldsNow
    <2>4. instOk(lamports, h) /\ h.has /\ ~h.dirty /\ ~h.joined /\ h.ceiling = c /\ h.frontier = f
      BY <1>0, <2>1, <2>3, LatestOk DEF g
    <2>5. follows(h, cmd')
      BY <1>4, <1>7, <2>4 DEF follows, c
    <2>6. /\ DOMAIN inst' = Instance /\ inst' = [i \in Instance |-> inst'[i]]
          /\ inst'[Cli] = h /\ \A i \in Instance : i # Cli => inst'[i] = inst[i]
      BY <1>0, <2>2 DEF SeekIInv
    <2>7. cliOk'
      BY <1>1, <1>8, <2>4, <2>5, <2>6 DEF cliOk
    <2>8. \A i \in Instance : instOk(lamports, inst'[i])
      <3> TAKE i \in Instance
      <3> QED
        BY <1>0, <2>4, <2>6 DEF SeekIInv
    <2> QED
      BY <1>1, <1>5, <1>8, <2>6, <2>7, <2>8 DEF SeekIInv
  <1>9. CASE /\ job' = [job EXCEPT ![Cli] =
                  [ceiling |-> c, frontier |-> f, receipts |-> FALSE, got |-> {}, phase |-> "lookup",
                   todo |-> {w \in SeekWriter : f[w] > 0}, entry |-> none, index |-> << >>]]
             /\ UNCHANGED inst
    <2>1. PICK T : T = {w \in SeekWriter : f[w] > 0}
      OBVIOUS
    <2>2. PICK j : j = newJob(c, f, FALSE, "lookup", T)
      OBVIOUS
    <2>3. T \in SUBSET SeekWriter /\ \A w \in SeekWriter \ T : f[w] <= 0
      BY <1>0, <2>1
    <2>4. job' = [job EXCEPT ![Cli] = j]
      BY <1>9, <2>1, <2>2 DEF newJob
    <2> HIDE DEF f, g, c
    <2>5. jobOk(lamports, j) /\ j.ceiling = c /\ j.frontier = f
      <3>1. tickOk(c)
        BY <1>7 DEF c
      <3>2. FALSE \in BOOLEAN /\ "lookup" \in {"walk", "lookup"} /\ c # null
        BY <3>1 DEF tickOk
      <3>3. PICK L, cc, ff, r, ph : L = lamports /\ cc = c /\ ff = f /\ r = FALSE /\ ph = "lookup"
        OBVIOUS
      <3>4. /\ L \in Lamports /\ tickOk(cc) /\ cc # null /\ past(L, ff) /\ r \in BOOLEAN
            /\ ph \in {"walk", "lookup"} /\ \A w \in SeekWriter \ T : ff[w] <= 0
            /\ j = newJob(cc, ff, r, ph, T)
        BY <1>0, <2>2, <2>3, <3>1, <3>2, <3>3
      <3>5. jobOk(L, j) /\ j.ceiling = cc /\ j.frontier = ff
        <4> HIDE <3>3
        <4> QED
          BY <2>3, <3>4, NewJob
      <3> QED
        BY <3>3, <3>5
    <2> HIDE <2>2
    <2>6. follows(j, cmd')
      BY <1>4, <1>7, <2>5 DEF follows, c
    <2>7. /\ DOMAIN job' = Instance /\ job' = [i \in Instance |-> job'[i]]
          /\ job'[Cli] = j /\ \A i \in Instance : i # Cli => job'[i] = job[i]
      BY <1>0, <2>4 DEF SeekIInv
    <2>8. j # none
      <3>1. PICK E : j \in jobShape(E)
        BY <2>5 DEF jobOk
      <3>2. DOMAIN j = {"ceiling", "frontier", "receipts", "got", "phase", "todo", "entry", "index"}
        BY <3>1 DEF jobShape
      <3>3. DOMAIN none = {"none"}
        BY DEF none
      <3> QED
        BY <3>2, <3>3
    <2>9. cliOk'
      BY <1>0, <1>4, <1>6, <1>9, <2>6, <2>7, <2>8 DEF cliOk
    <2>10. \A i \in Instance : job'[i] # none => jobOk(lamports, job'[i])
      <3> TAKE i \in Instance
      <3> QED
        BY <2>5, <2>7 DEF SeekIInv
    <2> QED
      BY <1>1, <1>5, <1>9, <2>7, <2>9, <2>10 DEF SeekIInv
  <1> QED
    BY <1>8, <1>9 DEF runSeek

\* A command that has run shows the patches up to its tick.
LEMMA CommandExact ==
    ASSUME SeekIInv, cmd # none, cmd.started, job[Cli] = none, cmd.frontier = frontierIn(lamports)
    PROVE  inst[Cli].state = patchesIn(lamports, cmd.frontier, cmd.tick)
  <1> DEFINE g == inst[Cli]
  <1>0. lamports \in Lamports /\ Cli \in Instance /\ instOk(lamports, g) /\ commandOk(lamports, cmd)
    BY Basics DEF SeekIInv
  <1>1. g.has /\ ~g.dirty /\ ~g.joined /\ follows(g, cmd)
    BY DEF SeekIInv, cliOk
  <1>2. g.ceiling = cmd.tick /\ g.ceiling # null
    BY <1>0, <1>1 DEF follows, commandOk, tickOk
  <1>3. g.frontier = frontierIn(lamports)
    <2>1. \A w \in SeekWriter : /\ Len(lamports[w]) \in Nat /\ g.frontier[w] \in Int
                                /\ g.frontier[w] <= Len(lamports[w]) /\ Len(lamports[w]) <= g.frontier[w]
      BY <1>0, <1>1, FrontierIsPast DEF follows, instOk, past, frontierIn
    <2>2. \A w \in SeekWriter : g.frontier[w] = Len(lamports[w])
      BY <2>1
    <2>3. g.frontier \in [SeekWriter -> Int]
      BY <1>0 DEF instOk, past
    <2> HIDE DEF g
    <2> QED
      BY <2>2, <2>3 DEF frontierIn
  <1> QED
    BY <1>0, <1>1, <1>2, <1>3 DEF instOk, stateOk

LEMMA EndSeekKeeps ==
    ASSUME SeekIInv, endSeek
    PROVE  SeekIInv'
  <1>1. /\ cmd # none /\ cmd.started /\ job[Cli] = none /\ cmd' = none
        /\ UNCHANGED <<lamports, inst, job, puts, cache, saved>>
    BY DEF endSeek
  <1>2. PICK t, n, f : t = cmd.tick /\ n = Cardinality(inst[Cli].state) /\ f = cmd.frontier
    OBVIOUS
  <1>3. PICK new : new = [tick |-> t, count |-> n, frontier |-> f]
    OBVIOUS
  <1>4. new.tick = t /\ new.count = n /\ new.frontier = f
    BY <1>3
  <1>5. cursor' = cursor \/ cursor' = new
    BY <1>2, <1>3 DEF endSeek
  <1>6. commandOk(lamports, cmd)
    BY <1>1 DEF SeekIInv
  <1>7. f = frontierIn(lamports) => n = Cardinality(patchesIn(lamports, f, t))
    BY <1>1, <1>2, CommandExact
  <1>8. cursorOk(lamports, new)
    BY <1>2, <1>4, <1>6, <1>7 DEF cursorOk, commandOk
  <1>9. cursor' # none => cursorOk(lamports, cursor')
    BY <1>5, <1>8 DEF SeekIInv
  <1>10. cliOk'
    BY <1>1 DEF SeekIInv, cliOk
  <1> QED
    BY <1>1, <1>9, <1>10 DEF SeekIInv

LEMMA CursorKeeps ==
    ASSUME SeekIInv, saveCursor \/ dropCursor
    PROVE  SeekIInv'
  <1>1. UNCHANGED <<lamports, inst, job, puts, cache, cursor, cmd>> /\ saved' \in {cursor, none}
    BY DEF saveCursor, dropCursor
  <1> QED
    BY <1>1 DEF SeekIInv, cliOk

----------------------------------------------------------------------------

LEMMA SeekStarts == SeekInit => SeekIInv
  <1> SUFFICES ASSUME SeekInit
               PROVE  SeekIInv
    OBVIOUS
  <1>1. lamports \in Lamports
    BY DEF SeekInit, Lamports
  <1>2. \A i \in Instance : inst[i] = freshInstance /\ job[i] = none
    BY DEF SeekInit
  <1>3. /\ DOMAIN inst = Instance /\ inst = [i \in Instance |-> inst[i]]
        /\ DOMAIN job = Instance /\ job = [i \in Instance |-> job[i]]
    BY DEF SeekInit
  <1>4. cliOk
    BY <1>1, <1>2, FreshOk DEF cliOk, Instance, SeekInit
  <1> QED
    BY <1>1, <1>2, <1>3, <1>4, FreshOk, SingleOk DEF SeekIInv, SeekInit

LEMMA SeekStep == SeekIInv /\ [SeekNext]_seekVars => SeekIInv'
  <1> SUFFICES ASSUME SeekIInv, [SeekNext]_seekVars
               PROVE  SeekIInv'
    OBVIOUS
  <1>1. ASSUME NEW w \in SeekWriter \ {LibWriter}, commitElsewhere(w) PROVE SeekIInv'
    BY <1>1, CommitElsewhereKeeps
  <1>2. CASE commitHere
    BY <1>2, CommitHereKeeps
  <1>3. CASE join
    BY <1>3, JoinKeeps
  <1>4. CASE clearCache
    BY <1>4, ClearCacheKeeps
  <1>5. ASSUME NEW m \in puts, putRead(m) \/ putWrite(m) PROVE SeekIInv'
    BY <1>5, PutReadKeeps, PutWriteKeeps
  <1>6. ASSUME NEW c \in Ceiling, NEW receipts \in BOOLEAN, materializeAtCeiling(Lib, c, receipts)
        PROVE  SeekIInv'
    BY <1>6, MaterializeAtCeilingKeeps
  <1>7. CASE materialize(Lib) \/ finishLatest(Lib)
    BY <1>7, MaterializeKeeps, FinishLatestKeeps
  <1>8. ASSUME NEW i \in Instance, lookup(i) \/ accessRead(i) \/ accessWrite(i) \/ finishCeiling(i)
        PROVE  SeekIInv'
    BY <1>8, LookupKeeps, AccessReadKeeps, AccessWriteKeeps, FinishCeilingKeeps
  <1>9. ASSUME NEW i \in Instance, NEW w \in SeekWriter, walkChain(i, w) PROVE SeekIInv'
    BY <1>9, WalkChainKeeps
  <1>10. CASE startSeek \/ runSeek \/ endSeek
    BY <1>10, StartSeekKeeps, RunSeekKeeps, EndSeekKeeps
  <1>11. CASE saveCursor \/ dropCursor
    BY <1>11, CursorKeeps
  <1>12. CASE UNCHANGED seekVars
    BY <1>12 DEF SeekIInv, cliOk, seekVars
  <1> QED
    BY <1>1, <1>2, <1>3, <1>4, <1>5, <1>6, <1>7, <1>8, <1>9, <1>10, <1>11, <1>12 DEF SeekNext

LEMMA SeekSuffices == SeekIInv => SeekAnswersAreExact
  <1> SUFFICES ASSUME SeekIInv
               PROVE  SeekAnswersAreExact
    OBVIOUS
  <1>0. /\ lamports \in Lamports /\ getFrontierNow = frontierIn(lamports)
        /\ \A f, c : patchesUpTo(f, c) = patchesIn(lamports, f, c)
        /\ \A i \in Instance : instOk(lamports, inst[i])
        /\ indexOk(lamports, cache)
    BY Basics
  <1>1. \A i \in Instance :
          LET g == inst[i]
          IN  g.has /\ ~g.dirty /\ ~g.joined /\ g.ceiling # null /\ g.frontier = getFrontierNow
                => g.state = patchesUpTo(g.frontier, g.ceiling) /\ g.index = g.state
    BY <1>0 DEF instOk, stateOk
  <1>2. \A i \in Instance : inst[i].answer # none /\ ~inst[i].joined =>
          LET a == inst[i].answer
          IN  /\ patchesUpTo(a.since, a.ceiling) \subseteq a.state
              /\ a.state \subseteq patchesUpTo(getFrontierNow, a.ceiling)
    BY <1>0 DEF instOk, answerOk, holds
  <1>3. \A k \in 1..Len(cache) :
          LET key == cache[k].key
          IN  key[2] = getFrontierNow => cache[k].state = patchesUpTo(key[2], key[1])
    <2> TAKE k \in 1..Len(cache)
    <2>1. entryOk(lamports, cache[k])
      BY <1>0 DEF indexOk
    <2> QED
      BY <1>0, <2>1, HoldsNow DEF entryOk
  <1>4. ASSUME cmd # none, cmd.started, job[Cli] = none, cmd.frontier = getFrontierNow
        PROVE  LET d == computeSeekStateDiff(cmd.prev, Cardinality(inst[Cli].state), cmd.frontier)
               IN  d = none \/ d.count = Cardinality(patchesUpTo(cmd.frontier, cmd.tick))
                                           - Cardinality(patchesUpTo(cmd.frontier, cmd.prev.tick))
    <2>1. PICK n, p, f : n = Cardinality(inst[Cli].state) /\ p = cmd.prev /\ f = cmd.frontier
      OBVIOUS
    <2>2. n = Cardinality(patchesUpTo(f, cmd.tick))
      BY <1>0, <1>4, <2>1, CommandExact
    <2>3. p # none /\ p.frontier = f => p.count = Cardinality(patchesUpTo(f, p.tick))
      BY <1>0, <1>4, <2>1 DEF SeekIInv, commandOk, cursorOk
    <2>4. PICK d : d = computeSeekStateDiff(p, n, f)
      OBVIOUS
    <2>5. CASE p = none \/ p.frontier # f
      BY <2>1, <2>5 DEF computeSeekStateDiff
    <2>6. CASE ~(p = none \/ p.frontier # f)
      <3>1. d = [count |-> n - p.count]
        BY <2>4, <2>6 DEF computeSeekStateDiff
      <3>2. d.count = n - p.count
        BY <3>1
      <3>3. d.count = Cardinality(patchesUpTo(f, cmd.tick)) - Cardinality(patchesUpTo(f, p.tick))
        BY <2>2, <2>3, <2>6, <3>2
      <3> QED
        BY <2>1, <2>4, <3>3
    <2> QED
      BY <2>5, <2>6
  <1>5. cursor # none /\ cursor.frontier = getFrontierNow
          => cursor.count = Cardinality(patchesUpTo(cursor.frontier, cursor.tick))
    BY <1>0 DEF SeekIInv, cursorOk
  <1>6. answersMatchTheirCeiling
    BY <1>1, <1>2, <1>3, <1>4, <1>5 DEF answersMatchTheirCeiling
  <1>7. provenanceMatchesState
    BY <1>0 DEF provenanceMatchesState, instOk, provOk
  <1> QED
    BY <1>6, <1>7 DEF SeekAnswersAreExact

\* What an instance of the library and a seek command show for a ceiling is
\* the state of exactly the patches at or below it that the refs of that
\* moment had: for any writers, commits and calls in between, whatever the
\* persistent cache holds (materialize with a ceiling, CheckpointController
\* and the seek cache, the cursor of bin/cli/commands/seek)
THEOREM SeekAlwaysExact == SeekSpec => []SeekAnswersAreExact
  BY SeekStarts, SeekStep, SeekSuffices, PTL DEF SeekSpec

----------------------------------------------------------------------------
(* Audit receipts.                                                         *)

\* Every receipt names the commit that Git has as the parent.
parentsNamed(c) == \A i \in 1..Len(c) : c[i].prevAuditCommit = upToReceipt(c, i - 1)

descending(c) == \A i \in 1..Len(c) : _validateChainLink(c, i)

\* What is known of the receipt r that the process with the service v writes.
receiptOk(r, v) ==
    /\ r.pc \in {"build", "write", "swap"}
    /\ r.pc \in {"write", "swap"} => r.prevAuditCommit = v.prevAuditCommit
    /\ r.pc = "swap" => r.parents = v.prevAuditCommit

receiptShape(D) == [pc : D, tick : Int, prevAuditCommit : D, parents : D, retry : BOOLEAN]
serviceShape(D) == [prevAuditCommit : D, expectedOldRef : D, degraded : BOOLEAN, retrying : BOOLEAN]

\* Until two receipts were under way at once, the one that is is the newest.
newest(c, R, t) ==
    /\ \A i \in 1..Len(c) : c[i].tick <= t
    /\ \A s \in Slot : R[s] # None =>
         /\ \A r \in Slot : R[r] # None => r = s
         /\ R[s].tick = t /\ \A i \in 1..Len(c) : c[i].tick < t
    /\ descending(c)

outcomes(D) == [committed : D, skipped : D, failed : D, refused : D]

serviceOk(v) == \E D : v \in serviceShape(D) /\ v.expectedOldRef = v.prevAuditCommit

AuditInv ==
    /\ tick \in Int /\ overlap \in BOOLEAN
    /\ svc = [p \in Service |-> svc[p]] /\ receipt = [s \in Slot |-> receipt[s]]
    /\ \A p \in Service : serviceOk(svc[p])
    /\ \A s \in Slot : receipt[s] # None =>
         (\E D : receipt[s] \in receiptShape(D)) /\ receiptOk(receipt[s], svc[s[1]])
    /\ \A r, s \in Slot : r[1] = s[1] /\ receipt[r] # None /\ receipt[s] # None => r = s
    /\ \E D : auditRef \in Seq(D)
    /\ \A i \in 1..Len(auditRef) : auditRef[i].tick \in Int
    /\ parentsNamed(auditRef)
    /\ ~overlap => newest(auditRef, receipt, tick)
    /\ \E D : audited \in outcomes(D)
    /\ audited.committed = receiptsOf(auditRef)

LEMMA AuditStarts == AuditInit => AuditInv
  <1> SUFFICES ASSUME AuditInit
               PROVE  AuditInv
    OBVIOUS
  <1>1. auditRef = << >> /\ auditRef \in Seq({}) /\ Len(auditRef) = 0
    BY DEF AuditInit, noCommit
  <1>2. serviceOk(newService(noCommit))
    <2>1. PICK v : v = newService(noCommit)
      OBVIOUS
    <2>2. v \in serviceShape({noCommit}) /\ v.expectedOldRef = v.prevAuditCommit
      BY <2>1 DEF newService, serviceShape
    <2> QED
      BY <2>1, <2>2 DEF serviceOk
  <1>3. /\ svc = [p \in Service |-> newService(noCommit)] /\ receipt = [s \in Slot |-> None]
        /\ overlap = FALSE /\ audited = [committed |-> {}, skipped |-> {}, failed |-> {}, refused |-> {}]
    BY DEF AuditInit
  <1>4. tick \in Int
    BY AuditAssumption DEF AuditInit
  <1>5. parentsNamed(auditRef) /\ descending(auditRef) /\ receiptsOf(auditRef) = {}
    BY <1>1 DEF parentsNamed, descending, receiptsOf
  <1>6. newest(auditRef, receipt, tick)
    BY <1>1, <1>3, <1>5 DEF newest
  <1>7. svc = [p \in Service |-> svc[p]] /\ receipt = [s \in Slot |-> receipt[s]]
        /\ \A p \in Service : serviceOk(svc[p])
    BY <1>2, <1>3
  <1>8. audited \in outcomes({{}}) /\ audited.committed = {}
    BY <1>3 DEF outcomes
  <1>9. \A s \in Slot : receipt[s] = None
    BY <1>3
  <1>10. \A i \in 1..Len(auditRef) : auditRef[i].tick \in Int
    BY <1>1
  <1> QED
    BY <1>1, <1>3, <1>4, <1>5, <1>6, <1>7, <1>8, <1>9, <1>10 DEF AuditInv

\* The walk from the tip of such a chain can only end at the first receipt
\* or at one whose tick is not below the next.
LEMMA WalkEnds ==
    ASSUME NEW c, NEW D, c \in Seq(D), parentsNamed(c), NEW e \in verifyAuditChain(c, noCommit)
    PROVE  e = "TICK_MONOTONICITY" /\ ~descending(c)
  <1>0. Len(c) \in Nat /\ noCommit = << >>
    BY LenProperties DEF noCommit
  <1>1. PICK i \in 1..Len(c) : ~goesOn(c, i, noCommit) /\ e \in endOfWalk(c, i, noCommit)
    BY DEF verifyAuditChain, _walkChain
  <1>2. upToReceipt(c, i) # noCommit
    <2>1. Len(SubSeq(c, 1, i)) = i
      BY <1>0, SubSeqProperties
    <2>2. Len(<< >>) = 0
      OBVIOUS
    <2> QED
      BY <1>0, <2>1, <2>2 DEF upToReceipt
  <1>3. c[i].prevAuditCommit = upToReceipt(c, i - 1)
    BY DEF parentsNamed
  <1>4. CASE ~_validateChainLink(c, i)
    BY <1>1, <1>4 DEF endOfWalk, descending
  <1>5. CASE _validateChainLink(c, i)
    <2>1. c[i].prevAuditCommit = noCommit
      BY <1>1, <1>2, <1>3, <1>5 DEF goesOn
    <2>2. i = 1
      <3>1. SUFFICES ASSUME i # 1
                     PROVE  FALSE
        OBVIOUS
      <3>2. i - 1 \in 1..Len(c) /\ 1 <= i - 1
        BY <1>0, <3>1
      <3>3. Len(SubSeq(c, 1, i - 1)) = i - 1
        BY <1>0, <3>2, SubSeqProperties
      <3>4. Len(<< >>) = 0
        OBVIOUS
      <3> QED
        BY <1>0, <1>3, <2>1, <3>2, <3>3, <3>4 DEF upToReceipt
    <2>3. endOfWalk(c, i, noCommit) = {}
      BY <1>2, <1>5, <2>1, <2>2 DEF endOfWalk
    <2> QED
      BY <1>1, <2>3
  <1> QED
    BY <1>4, <1>5

LEMMA AuditSuffices == AuditInv => AuditChainVerifies
  <1> SUFFICES ASSUME AuditInv
               PROVE  AuditChainVerifies
    OBVIOUS
  <1>1. \A e \in verifyAuditChain(auditRef, noCommit) : e = "TICK_MONOTONICITY" /\ ~descending(auditRef)
    BY WalkEnds DEF AuditInv
  <1>2. ~overlap => descending(auditRef)
    BY DEF AuditInv, newest
  <1> QED
    BY <1>1, <1>2 DEF AuditChainVerifies, AuditInv

\* What a step of slot s must leave behind for the invariant: it changes its
\* own receipt and its own process's service, and the chain stays.
LEMMA OneSlot ==
    ASSUME AuditInv, NEW s \in Slot, NEW r, NEW v,
           receipt' = [receipt EXCEPT ![s] = r], svc' = [svc EXCEPT ![s[1]] = v], serviceOk(v),
           r # None => /\ \E D : r \in receiptShape(D)
                       /\ receiptOk(r, v) /\ receipt[s] # None /\ r.tick = receipt[s].tick,
           receipt[s] # None,
           UNCHANGED <<auditRef, tick, overlap>>,
           \E D : audited' \in outcomes(D), audited'.committed = audited.committed
    PROVE  AuditInv'
  <1>1. /\ receipt' = [x \in Slot |-> receipt'[x]] /\ receipt'[s] = r
        /\ \A x \in Slot : x # s => receipt'[x] = receipt[x]
    BY DEF AuditInv
  <1>2. /\ svc' = [p \in Service |-> svc'[p]] /\ svc'[s[1]] = v
        /\ \A p \in Service : p # s[1] => svc'[p] = svc[p]
    BY AuditAssumption DEF AuditInv
  <1>3. \A p \in Service : serviceOk(svc'[p])
    BY <1>2 DEF AuditInv
  <1>4. \A x \in Slot : receipt'[x] # None => receipt[x] # None /\ receipt'[x].tick = receipt[x].tick
    BY <1>1
  <1>5. ASSUME NEW x \in Slot, receipt'[x] # None
        PROVE  (\E D : receipt'[x] \in receiptShape(D)) /\ receiptOk(receipt'[x], svc'[x[1]])
    <2>1. CASE x = s
      BY <1>1, <1>2, <1>5, <2>1
    <2>2. CASE x # s
      <3>1. receipt'[x] = receipt[x] /\ x[1] \in Service /\ x[1] # s[1]
        BY <1>1, <1>5, <2>2, AuditAssumption DEF AuditInv
      <3> QED
        BY <1>2, <1>5, <3>1 DEF AuditInv
    <2> QED
      BY <2>1, <2>2
  <1>6. \A x, y \in Slot : x[1] = y[1] /\ receipt'[x] # None /\ receipt'[y] # None => x = y
    BY <1>4 DEF AuditInv
  <1>7. ~overlap => newest(auditRef, receipt', tick)
    BY <1>4 DEF newest, AuditInv
  <1> QED
    BY <1>1, <1>2, <1>3, <1>5, <1>6, <1>7 DEF AuditInv

\* A receipt under way is a record.
LEMMA UnderWay ==
    ASSUME AuditInv, NEW s \in Slot, ~idle(s)
    PROVE  /\ \E D, E : receipt[s] \in receiptShape(D) /\ svc[s[1]] \in serviceShape(E)
           /\ svc[s[1]].expectedOldRef = svc[s[1]].prevAuditCommit /\ s[1] \in Service
           /\ receiptOk(receipt[s], svc[s[1]]) /\ receipt[s] # None
  BY AuditAssumption DEF AuditInv, serviceOk, idle

LEMMA OutcomeStays ==
    ASSUME AuditInv, NEW why \in {"skipped", "failed", "refused"}, NEW t,
           audited' = [audited EXCEPT ![why] = @ \cup {t}]
    PROVE  (\E D : audited' \in outcomes(D)) /\ audited'.committed = audited.committed
  <1>1. PICK D : audited \in outcomes(D)
    BY DEF AuditInv
  <1>2. PICK x : x = audited[why] \cup {t}
    OBVIOUS
  <1>3. audited' = [audited EXCEPT ![why] = x]
    BY <1>2
  <1>4. audited' \in outcomes(D \cup {x}) /\ audited'.committed = audited.committed
    BY <1>1, <1>3 DEF outcomes
  <1> QED
    BY <1>4

LEMMA OutcomeKept ==
    ASSUME AuditInv, audited' = audited
    PROVE  (\E D : audited' \in outcomes(D)) /\ audited'.committed = audited.committed
  BY DEF AuditInv

\* A receipt that fails leaves its slot.
LEMMA ThrowKeeps ==
    ASSUME AuditInv, NEW s \in Slot, ~idle(s), NEW why \in {"failed", "refused"}, throw(s, why),
           UNCHANGED <<auditRef, tick, overlap>>
    PROVE  AuditInv'
  <1>1. PICK D, E : receipt[s] \in receiptShape(D) /\ svc[s[1]] \in serviceShape(E)
    BY UnderWay
  <1>2. PICK u : u = svc[s[1]]
    OBVIOUS
  <1>3. PICK v : v = IF receipt[s].retry THEN [u EXCEPT !.degraded = TRUE, !.retrying = FALSE] ELSE u
    OBVIOUS
  <1>4. v \in serviceShape(E) /\ v.expectedOldRef = u.expectedOldRef /\ v.prevAuditCommit = u.prevAuditCommit
    BY <1>1, <1>2, <1>3 DEF serviceShape
  <1>5. serviceOk(v)
    BY <1>2, <1>4, UnderWay DEF serviceOk
  <1>6. svc' = [svc EXCEPT ![s[1]] = v]
    <2>1. CASE receipt[s].retry
      <3>1. svc' = [svc EXCEPT ![s[1]] = [[svc[s[1]] EXCEPT !.degraded = TRUE] EXCEPT !.retrying = FALSE]]
        BY <2>1, UnderWay DEF throw, AuditInv
      <3> QED
        BY <1>2, <1>3, <2>1, <3>1
    <2>2. CASE ~receipt[s].retry
      BY <1>2, <1>3, <2>2 DEF throw, AuditInv
    <2> QED
      BY <2>1, <2>2
  <1>7. receipt' = [receipt EXCEPT ![s] = None]
    BY DEF throw
  <1>8. (\E F : audited' \in outcomes(F)) /\ audited'.committed = audited.committed
    BY OutcomeStays DEF throw
  <1> QED
    BY <1>5, <1>6, <1>7, <1>8, UnderWay, OneSlot

LEMMA BuildKeeps ==
    ASSUME AuditInv, NEW s \in Slot, buildReceiptRecord(s)
    PROVE  AuditInv'
  <1>0. ~idle(s) /\ UNCHANGED <<auditRef, tick, overlap>>
    BY DEF buildReceiptRecord
  <1>1. CASE throw(s, IF receipt[s].retry THEN "failed" ELSE "refused")
    BY <1>0, <1>1, ThrowKeeps
  <1>2. CASE /\ receipt' = [receipt EXCEPT ![s].pc = "write",
                                           ![s].prevAuditCommit = svc[s[1]].prevAuditCommit]
             /\ UNCHANGED <<svc, audited>>
    <2>1. PICK D, E : receipt[s] \in receiptShape(D) /\ svc[s[1]] \in serviceShape(E)
      BY <1>0, UnderWay
    <2>2. PICK v, q : v = svc[s[1]] /\ q = receipt[s]
      OBVIOUS
    <2>3. PICK p : p = v.prevAuditCommit
      OBVIOUS
    <2>4. PICK r : r = [[q EXCEPT !.pc = "write"] EXCEPT !.prevAuditCommit = p]
      OBVIOUS
    <2>5. receipt' = [receipt EXCEPT ![s] = r]
      BY <1>2, <2>2, <2>3, <2>4 DEF AuditInv
    <2>6. r \in receiptShape(D \cup {"write", p}) /\ r.pc = "write" /\ r.prevAuditCommit = p /\ r.tick = q.tick
      BY <2>1, <2>2, <2>4 DEF receiptShape
    <2>8. receiptOk(r, v)
      BY <2>3, <2>6 DEF receiptOk
    <2>9. svc' = [svc EXCEPT ![s[1]] = v] /\ serviceOk(v)
      BY <1>0, <1>2, <2>2, UnderWay DEF AuditInv
    <2>10. (\E F : audited' \in outcomes(F)) /\ audited'.committed = audited.committed
      BY <1>2, OutcomeKept
    <2> QED
      BY <1>0, <2>2, <2>5, <2>6, <2>8, <2>9, <2>10, UnderWay, OneSlot
  <1> QED
    BY <1>1, <1>2 DEF buildReceiptRecord

LEMMA WriteKeeps ==
    ASSUME AuditInv, NEW s \in Slot, writeReceipt(s)
    PROVE  AuditInv'
  <1>0. ~idle(s) /\ receipt[s].pc = "write" /\ UNCHANGED <<auditRef, tick, overlap>>
    BY DEF writeReceipt
  <1>1. CASE throw(s, "failed")
    BY <1>0, <1>1, ThrowKeeps
  <1>2. CASE /\ receipt' = [receipt EXCEPT ![s].pc = "swap", ![s].parents = svc[s[1]].prevAuditCommit]
             /\ UNCHANGED <<svc, audited, mishaps>>
    <2>1. PICK D, E : receipt[s] \in receiptShape(D) /\ svc[s[1]] \in serviceShape(E)
      BY <1>0, UnderWay
    <2>2. PICK v, q : v = svc[s[1]] /\ q = receipt[s]
      OBVIOUS
    <2>3. PICK p : p = v.prevAuditCommit
      OBVIOUS
    <2>4. PICK r : r = [[q EXCEPT !.pc = "swap"] EXCEPT !.parents = p]
      OBVIOUS
    <2>5. receipt' = [receipt EXCEPT ![s] = r]
      BY <1>2, <2>2, <2>3, <2>4 DEF AuditInv
    <2>6. /\ r \in receiptShape(D \cup {"swap", p}) /\ r.pc = "swap" /\ r.parents = p
          /\ r.prevAuditCommit = q.prevAuditCommit /\ r.tick = q.tick
      BY <2>1, <2>2, <2>4 DEF receiptShape
    <2>7. q.prevAuditCommit = p
      BY <1>0, <2>2, <2>3, UnderWay DEF receiptOk
    <2>8. receiptOk(r, v)
      BY <2>3, <2>6, <2>7 DEF receiptOk
    <2>9. svc' = [svc EXCEPT ![s[1]] = v] /\ serviceOk(v)
      BY <1>0, <1>2, <2>2, UnderWay DEF AuditInv
    <2>10. (\E F : audited' \in outcomes(F)) /\ audited'.committed = audited.committed
      BY <1>2, OutcomeKept
    <2> QED
      BY <1>0, <2>2, <2>5, <2>6, <2>8, <2>9, <2>10, UnderWay, OneSlot
  <1> QED
    BY <1>1, <1>2 DEF writeReceipt

LEMMA RefreshKeeps ==
    ASSUME AuditInv, NEW s \in Slot, ~idle(s), refreshTip(s), audited' = audited,
           UNCHANGED <<auditRef, tick, overlap>>
    PROVE  AuditInv'
  <1>1. PICK D, E : receipt[s] \in receiptShape(D) /\ svc[s[1]] \in serviceShape(E)
    BY UnderWay
  <1>2. PICK u, q, a : u = svc[s[1]] /\ q = receipt[s] /\ a = auditRef
    OBVIOUS
  <1>3. PICK v, r : /\ v = [[[u EXCEPT !.prevAuditCommit = a] EXCEPT !.expectedOldRef = a] EXCEPT !.retrying = TRUE]
                    /\ r = [[q EXCEPT !.pc = "build"] EXCEPT !.retry = TRUE]
    OBVIOUS
  <1>4. svc' = [svc EXCEPT ![s[1]] = v] /\ receipt' = [receipt EXCEPT ![s] = r]
    BY <1>2, <1>3, UnderWay DEF refreshTip, AuditInv
  <1>5. v \in serviceShape(E \cup {a}) /\ v.expectedOldRef = v.prevAuditCommit
    BY <1>1, <1>2, <1>3 DEF serviceShape
  <1>6. serviceOk(v)
    BY <1>5 DEF serviceOk
  <1>7. r \in receiptShape(D \cup {"build"}) /\ r.pc = "build" /\ r.tick = q.tick
    BY <1>1, <1>2, <1>3 DEF receiptShape
  <1>8. receiptOk(r, v)
    BY <1>7 DEF receiptOk
  <1>9. (\E F : audited' \in outcomes(F)) /\ audited'.committed = audited.committed
    BY OutcomeKept
  <1> QED
    BY <1>2, <1>4, <1>6, <1>7, <1>8, <1>9, UnderWay, OneSlot

\* A receipt that names the chain it is put behind keeps it linked, and in the
\* order of the ticks when it is the newest.
LEMMA ReceiptAppended ==
    ASSUME NEW c, NEW C, c \in Seq(C), NEW e, NEW d, d = Append(c, e),
           parentsNamed(c), e.prevAuditCommit = c, e.tick \in Int, \A i \in 1..Len(c) : c[i].tick \in Int
    PROVE  /\ \E D : d \in Seq(D)
           /\ \A i \in 1..Len(d) : d[i].tick \in Int
           /\ parentsNamed(d) /\ receiptsOf(d) = receiptsOf(c) \cup {e.tick}
           /\ (\A i \in 1..Len(c) : c[i].tick < e.tick) =>
                /\ \A i \in 1..Len(d) : d[i].tick <= e.tick
                /\ descending(c) => descending(d)
  <1>1. PICK D : D = C \cup {e}
    OBVIOUS
  <1>2. c \in Seq(D) /\ e \in D
    BY <1>1, SeqMonotonic
  <1>3. PICK n : n = Len(c) /\ n \in Nat
    BY <1>2, LenProperties
  <1>4. /\ d \in Seq(D) /\ Len(d) = n + 1 /\ d[n + 1] = e
        /\ \A i \in 1..n : d[i] = c[i]
    BY <1>2, <1>3, AppendProperties
  <1>5. \A i \in 1..n + 1 : i \in 1..n \/ i = n + 1
    BY <1>3
  <1>6. \A i \in 1..n + 1 : d[i].tick \in Int
    BY <1>3, <1>4, <1>5
  <1>7. parentsNamed(d)
    <2> SUFFICES ASSUME NEW i \in 1..n + 1
                 PROVE  d[i].prevAuditCommit = upToReceipt(d, i - 1)
      BY <1>4 DEF parentsNamed
    <2>1. upToReceipt(d, i - 1) = upToReceipt(c, i - 1)
      <3>1. PICK m : m = i - 1 /\ m \in 0..Len(c)
        BY <1>3
      <3>2. SubSeq(d, 1, m) = SubSeq(c, 1, m)
        BY <1>2, <3>1, PrefixStays
      <3> QED
        BY <3>1, <3>2 DEF upToReceipt
    <2>2. CASE i \in 1..n
      BY <1>3, <1>4, <2>1, <2>2 DEF parentsNamed
    <2>3. CASE i = n + 1
      <3>1. i - 1 = Len(c)
        BY <1>3, <2>3
      <3>2. SubSeq(c, 1, Len(c)) = c
        BY <1>2, SubSeqFull
      <3> QED
        BY <1>4, <2>1, <2>3, <3>1, <3>2 DEF upToReceipt
    <2> QED
      BY <1>5, <2>2, <2>3
  <1>8. receiptsOf(d) = receiptsOf(c) \cup {e.tick}
    <2>1. \A t \in receiptsOf(d) : t \in receiptsOf(c) \cup {e.tick}
      BY <1>3, <1>4, <1>5 DEF receiptsOf
    <2>2. \A t \in receiptsOf(c) : t \in receiptsOf(d)
      <3> SUFFICES ASSUME NEW i \in 1..n
                   PROVE  c[i].tick \in receiptsOf(d)
        BY <1>3 DEF receiptsOf
      <3>1. i \in 1..Len(d) /\ d[i].tick = c[i].tick
        BY <1>3, <1>4
      <3> QED
        BY <3>1 DEF receiptsOf
    <2>3. e.tick \in receiptsOf(d)
      <3>1. n + 1 \in 1..Len(d) /\ d[n + 1].tick = e.tick
        BY <1>3, <1>4
      <3> QED
        BY <3>1 DEF receiptsOf
    <2> QED
      BY <2>1, <2>2, <2>3
  <1>9. ASSUME \A i \in 1..n : c[i].tick < e.tick
        PROVE  /\ \A i \in 1..n + 1 : d[i].tick <= e.tick
               /\ descending(c) => descending(d)
    <2>1. \A i \in 1..n + 1 : d[i].tick <= e.tick
      BY <1>3, <1>4, <1>5, <1>9
    <2>2. ASSUME descending(c), NEW i \in 1..n + 1
          PROVE  i < n + 1 => d[i].tick < d[i + 1].tick
      <3>1. CASE i < n
        <4>1. i \in 1..n /\ i + 1 \in 1..n
          BY <1>3, <3>1
        <4>2. c[i].tick < c[i + 1].tick
          BY <1>3, <2>2, <3>1, <4>1 DEF descending, _validateChainLink
        <4> QED
          BY <1>4, <4>1, <4>2
      <3>2. CASE i = n
        BY <1>3, <1>4, <1>9, <3>2
      <3> QED
        BY <1>3, <3>1, <3>2
    <2> QED
      BY <1>4, <2>1, <2>2 DEF descending, _validateChainLink
  <1> QED
    BY <1>3, <1>4, <1>6, <1>7, <1>8, <1>9

\* The compare-and-swap that succeeds puts the receipt behind the tip.
LEMMA SwapDone ==
    ASSUME AuditInv, NEW s \in Slot, ~idle(s), receipt[s].pc = "swap",
           auditRef = svc[s[1]].expectedOldRef, auditRef' = commitOf(receipt[s]),
           svc' = [svc EXCEPT ![s[1]].prevAuditCommit = auditRef', ![s[1]].expectedOldRef = auditRef',
                              ![s[1]].retrying = @ /\ ~receipt[s].retry],
           audited' = [audited EXCEPT !.committed = @ \cup {receipt[s].tick}],
           receipt' = [receipt EXCEPT ![s] = None], UNCHANGED <<tick, overlap>>
    PROVE  AuditInv'
  <1>1. PICK D, E : receipt[s] \in receiptShape(D) /\ svc[s[1]] \in serviceShape(E)
    BY UnderWay
  <1>2. PICK u, q, c, d, t : u = svc[s[1]] /\ q = receipt[s] /\ c = auditRef /\ d = auditRef' /\ t = q.tick
    OBVIOUS
  <1>3. q.prevAuditCommit = c /\ q.parents = c /\ t \in Int
    BY <1>1, <1>2, UnderWay DEF receiptOk, receiptShape
  <1>4. PICK e : e = [tick |-> t, prevAuditCommit |-> c]
    OBVIOUS
  <1>5. d = Append(c, e) /\ e.tick = t /\ e.prevAuditCommit = c
    BY <1>2, <1>3, <1>4 DEF commitOf
  <1>6. PICK C : c \in Seq(C)
    BY <1>2 DEF AuditInv
  <1>7. parentsNamed(c) /\ \A i \in 1..Len(c) : c[i].tick \in Int
    BY <1>2 DEF AuditInv
  <1>8. /\ \E F : d \in Seq(F)
        /\ \A i \in 1..Len(d) : d[i].tick \in Int
        /\ parentsNamed(d) /\ receiptsOf(d) = receiptsOf(c) \cup {t}
        /\ (\A i \in 1..Len(c) : c[i].tick < t) =>
             /\ \A i \in 1..Len(d) : d[i].tick <= t
             /\ descending(c) => descending(d)
    <2>1. e.tick \in Int
      BY <1>3, <1>5
    <2> QED
      BY <1>5, <1>6, <1>7, <2>1, ReceiptAppended
  <1>9. /\ receipt' = [x \in Slot |-> receipt'[x]] /\ receipt'[s] = None
        /\ \A x \in Slot : x # s => receipt'[x] = receipt[x]
    BY DEF AuditInv
  <1>10. PICK g : g = (u.retrying /\ ~q.retry)
    OBVIOUS
  <1>11. g \in BOOLEAN
    BY <1>10
  <1>12. PICK v : v = [[[u EXCEPT !.prevAuditCommit = d] EXCEPT !.expectedOldRef = d] EXCEPT !.retrying = g]
    OBVIOUS
  <1>13. svc' = [svc EXCEPT ![s[1]] = v]
    <2>1. svc' = [svc EXCEPT ![s[1]] =
             [[[svc[s[1]] EXCEPT !.prevAuditCommit = auditRef'] EXCEPT !.expectedOldRef = auditRef']
               EXCEPT !.retrying = svc[s[1]].retrying /\ ~receipt[s].retry]]
      BY UnderWay DEF AuditInv
    <2> QED
      BY <1>2, <1>10, <1>12, <2>1
  <1>14. v \in serviceShape(E \cup {d}) /\ v.expectedOldRef = v.prevAuditCommit
    BY <1>1, <1>2, <1>11, <1>12 DEF serviceShape
  <1>15. /\ svc' = [p \in Service |-> svc'[p]] /\ svc'[s[1]] = v
         /\ \A p \in Service : p # s[1] => svc'[p] = svc[p]
    BY <1>13, AuditAssumption DEF AuditInv
  <1>16. \A p \in Service : serviceOk(svc'[p])
    BY <1>14, <1>15 DEF AuditInv, serviceOk
  <1>17. ASSUME NEW x \in Slot, receipt'[x] # None
         PROVE  (\E F : receipt'[x] \in receiptShape(F)) /\ receiptOk(receipt'[x], svc'[x[1]])
    <2>1. x # s
      BY <1>9, <1>17
    <2>2. receipt'[x] = receipt[x] /\ receipt[s] # None
      BY <1>9, <2>1 DEF idle
    <2>3. x[1] \in Service /\ x[1] # s[1]
      BY <1>17, <2>1, <2>2, AuditAssumption DEF AuditInv
    <2> QED
      BY <1>15, <1>17, <2>2, <2>3 DEF AuditInv
  <1>18. \A x, y \in Slot : x[1] = y[1] /\ receipt'[x] # None /\ receipt'[y] # None => x = y
    BY <1>9 DEF AuditInv
  <1>19. ~overlap => newest(d, receipt', tick)
    <2> SUFFICES ASSUME ~overlap
                 PROVE  newest(d, receipt', tick)
      OBVIOUS
    <2>1. /\ \A r \in Slot : receipt[r] # None => r = s
          /\ t = tick /\ descending(c) /\ \A i \in 1..Len(c) : c[i].tick < t
      <3>1. newest(c, receipt, tick) /\ receipt[s] # None
        BY <1>2 DEF AuditInv, idle
      <3> QED
        BY <1>2, <3>1 DEF newest
    <2>2. \A r \in Slot : receipt'[r] = None
      BY <1>9, <2>1
    <2> QED
      BY <1>8, <2>1, <2>2 DEF newest
  <1>20. (\E F : audited' \in outcomes(F)) /\ audited'.committed = receiptsOf(d)
    <2>1. PICK F : audited \in outcomes(F)
      BY DEF AuditInv
    <2>2. PICK x : x = audited.committed \cup {t}
      OBVIOUS
    <2>3. audited' = [audited EXCEPT !.committed = x]
      BY <1>2, <2>2
    <2>4. audited' \in outcomes(F \cup {x}) /\ audited'.committed = x
      BY <2>1, <2>3 DEF outcomes
    <2>5. x = receiptsOf(d)
      BY <1>2, <1>8, <2>2 DEF AuditInv
    <2> QED
      BY <2>4, <2>5
  <1>21. tick' \in Int /\ overlap' \in BOOLEAN /\ tick' = tick /\ overlap' = overlap
    BY DEF AuditInv
  <1> QED
    <2>1. /\ \E F : auditRef' \in Seq(F)
          /\ \A i \in 1..Len(auditRef') : auditRef'[i].tick \in Int
          /\ parentsNamed(auditRef')
      BY <1>2, <1>8
    <2>2. ~overlap' => newest(auditRef', receipt', tick')
      BY <1>2, <1>19, <1>21
    <2>3. (\E F : audited' \in outcomes(F)) /\ audited'.committed = receiptsOf(auditRef')
      BY <1>2, <1>20
    <2>4. /\ parentsNamed(auditRef)' = parentsNamed(auditRef') /\ receiptsOf(auditRef)' = receiptsOf(auditRef')
          /\ newest(auditRef, receipt, tick)' = newest(auditRef', receipt', tick')
      OBVIOUS
    <2> QED
      BY <1>9, <1>15, <1>16, <1>17, <1>18, <1>21, <2>1, <2>2, <2>3, <2>4 DEF AuditInv

LEMMA AuditSwapKeeps ==
    ASSUME AuditInv, NEW s \in Slot, swapAuditRef(s)
    PROVE  AuditInv'
  <1>1. CASE /\ auditRef = svc[s[1]].expectedOldRef
             /\ auditRef' = commitOf(receipt[s])
             /\ svc' = [svc EXCEPT ![s[1]].prevAuditCommit = auditRef',
                                   ![s[1]].expectedOldRef = auditRef',
                                   ![s[1]].retrying = @ /\ ~receipt[s].retry]
             /\ audited' = [audited EXCEPT !.committed = @ \cup {receipt[s].tick}]
             /\ receipt' = [receipt EXCEPT ![s] = None]
    BY <1>1, SwapDone DEF swapAuditRef
  <1>2. CASE throw(s, "failed") /\ UNCHANGED auditRef
    BY <1>2, ThrowKeeps DEF swapAuditRef
  <1>3. CASE refreshTip(s) /\ UNCHANGED audited /\ UNCHANGED auditRef
    BY <1>3, RefreshKeeps DEF swapAuditRef
  <1> QED
    BY <1>1, <1>2, <1>3 DEF swapAuditRef

\* A receipt is begun only in a process that writes none: this is where the
\* calls of commit() must not interleave.
LEMMA CommitKeeps ==
    ASSUME ~Interleave, AuditInv, NEW s \in Slot, commitReceipt(s)
    PROVE  AuditInv'
  <1>1. /\ receipt[s] = None /\ \A r \in Slot : r[1] = s[1] => receipt[r] = None
        /\ tick' = tick + 1 /\ tick \in Int /\ UNCHANGED <<auditRef, svc>>
        /\ overlap' \in BOOLEAN /\ (~overlap' => ~overlap /\ \A r \in Slot : receipt[r] = None)
    BY DEF commitReceipt, idle, AuditInv
  <1>2. ~overlap => (\A i \in 1..Len(auditRef) : auditRef[i].tick <= tick) /\ descending(auditRef)
    BY DEF AuditInv, newest
  <1>3. (\A i \in 1..Len(auditRef) : auditRef[i].tick <= tick) =>
          \A i \in 1..Len(auditRef) : auditRef[i].tick <= tick + 1 /\ auditRef[i].tick < tick + 1
    <2> SUFFICES ASSUME \A i \in 1..Len(auditRef) : auditRef[i].tick <= tick, NEW i \in 1..Len(auditRef)
                 PROVE  auditRef[i].tick <= tick + 1 /\ auditRef[i].tick < tick + 1
      OBVIOUS
    <2>1. auditRef[i].tick \in Int /\ auditRef[i].tick <= tick
      BY DEF AuditInv
    <2> QED
      BY <1>1, <2>1
  <1>4. CASE audited' = [audited EXCEPT !.skipped = @ \cup {tick + 1}] /\ UNCHANGED receipt
    <2>1. (\E D : audited' \in outcomes(D)) /\ audited'.committed = audited.committed
      BY <1>4, OutcomeStays
    <2>2. ~overlap' => newest(auditRef, receipt, tick')
      BY <1>1, <1>2, <1>3 DEF newest
    <2>3. tick' \in Int
      BY <1>1
    <2>4. newest(auditRef, receipt, tick)' = newest(auditRef, receipt, tick')
      BY <1>1, <1>4
    <2>5. parentsNamed(auditRef)' = parentsNamed(auditRef) /\ receiptsOf(auditRef)' = receiptsOf(auditRef)
      BY <1>1
    <2> QED
      BY <1>1, <1>4, <2>1, <2>2, <2>3, <2>4, <2>5 DEF AuditInv
  <1>5. CASE /\ receipt' = [receipt EXCEPT ![s] =
                  [pc |-> "build", tick |-> tick + 1, prevAuditCommit |-> noCommit,
                   parents |-> noCommit, retry |-> FALSE]]
             /\ UNCHANGED audited
    <2>1. PICK r : r = [pc |-> "build", tick |-> tick + 1, prevAuditCommit |-> noCommit,
                        parents |-> noCommit, retry |-> FALSE]
      OBVIOUS
    <2>2. r \in receiptShape({"build", noCommit}) /\ r.pc = "build" /\ r.tick = tick + 1
      BY <1>1, <2>1 DEF receiptShape
    <2>3. /\ receipt' = [x \in Slot |-> receipt'[x]] /\ receipt'[s] = r
          /\ \A x \in Slot : x # s => receipt'[x] = receipt[x]
      BY <1>5, <2>1 DEF AuditInv
    <2>4. \A x \in Slot : receipt'[x] # None =>
            (\E D : receipt'[x] \in receiptShape(D)) /\ receiptOk(receipt'[x], svc[x[1]])
      <3>1. receiptOk(r, svc[s[1]])
        BY <2>2 DEF receiptOk
      <3>2. \E D : r \in receiptShape(D)
        BY <2>2
      <3> QED
        BY <2>3, <3>1, <3>2 DEF AuditInv
    <2>5. \A x, y \in Slot : x[1] = y[1] /\ receipt'[x] # None /\ receipt'[y] # None => x = y
      BY <1>1, <2>3 DEF AuditInv
    <2>6. ~overlap' => newest(auditRef, receipt', tick')
      <3> SUFFICES ASSUME ~overlap'
                   PROVE  newest(auditRef, receipt', tick')
        OBVIOUS
      <3>1. \A x \in Slot : receipt'[x] # None => x = s
        BY <1>1, <2>3
      <3> QED
        BY <1>1, <1>2, <1>3, <2>2, <2>3, <3>1 DEF newest
    <2>7. (\E D : audited' \in outcomes(D)) /\ audited'.committed = audited.committed
      BY <1>5, OutcomeKept
    <2>8. tick' \in Int
      BY <1>1
    <2>9. /\ newest(auditRef, receipt, tick)' = newest(auditRef, receipt', tick')
          /\ parentsNamed(auditRef)' = parentsNamed(auditRef) /\ receiptsOf(auditRef)' = receiptsOf(auditRef)
      BY <1>1
    <2> QED
      BY <1>1, <2>3, <2>4, <2>5, <2>6, <2>7, <2>8, <2>9 DEF AuditInv
  <1> QED
    BY <1>4, <1>5 DEF commitReceipt

\* A restart drops the receipts of the process and reads the tip, or misses it.
LEMMA RestartKeeps ==
    ASSUME AuditInv, NEW p \in Service, restartService(p)
    PROVE  AuditInv'
  <1>1. PICK tip : svc' = [svc EXCEPT ![p] = newService(tip)]
    BY DEF restartService
  <1>2. UNCHANGED <<auditRef, tick, audited, overlap>>
    BY DEF restartService
  <1>3. serviceOk(newService(tip))
    <2>1. PICK v : v = newService(tip)
      OBVIOUS
    <2>2. v \in serviceShape({tip}) /\ v.expectedOldRef = v.prevAuditCommit
      BY <2>1 DEF newService, serviceShape
    <2> QED
      BY <2>1, <2>2 DEF serviceOk
  <1>4. /\ svc' = [x \in Service |-> svc'[x]] /\ \A x \in Service : x # p => svc'[x] = svc[x]
        /\ \A x \in Service : serviceOk(svc'[x])
    BY <1>1, <1>3 DEF AuditInv
  <1>5. /\ receipt' = [x \in Slot |-> receipt'[x]]
        /\ \A x \in Slot : receipt'[x] # None => x[1] # p /\ receipt'[x] = receipt[x]
    BY DEF restartService
  <1>6. \A x \in Slot : receipt'[x] # None =>
          (\E D : receipt'[x] \in receiptShape(D)) /\ receiptOk(receipt'[x], svc'[x[1]])
    BY <1>4, <1>5, AuditAssumption DEF AuditInv
  <1>7. \A x, y \in Slot : x[1] = y[1] /\ receipt'[x] # None /\ receipt'[y] # None => x = y
    BY <1>5 DEF AuditInv
  <1>8. ~overlap => newest(auditRef, receipt', tick)
    BY <1>5 DEF newest, AuditInv
  <1>9. /\ newest(auditRef, receipt, tick)' = newest(auditRef, receipt', tick)
        /\ parentsNamed(auditRef)' = parentsNamed(auditRef) /\ receiptsOf(auditRef)' = receiptsOf(auditRef)
    BY <1>2
  <1> QED
    BY <1>2, <1>4, <1>5, <1>6, <1>7, <1>8, <1>9 DEF AuditInv

LEMMA AuditStep == ~Interleave /\ AuditInv /\ [AuditNext]_auditVars => AuditInv'
  <1> SUFFICES ASSUME ~Interleave, AuditInv, [AuditNext]_auditVars
               PROVE  AuditInv'
    OBVIOUS
  <1>1. ASSUME NEW s \in Slot, commitReceipt(s)
        PROVE  AuditInv'
    BY <1>1, CommitKeeps
  <1>2. ASSUME NEW s \in Slot, buildReceiptRecord(s)
        PROVE  AuditInv'
    BY <1>2, BuildKeeps
  <1>3. ASSUME NEW s \in Slot, writeReceipt(s)
        PROVE  AuditInv'
    BY <1>3, WriteKeeps
  <1>4. ASSUME NEW s \in Slot, swapAuditRef(s)
        PROVE  AuditInv'
    BY <1>4, AuditSwapKeeps
  <1>5. ASSUME NEW p \in Service, restartService(p)
        PROVE  AuditInv'
    BY <1>5, RestartKeeps
  <1>6. CASE UNCHANGED auditVars
    BY <1>6 DEF auditVars, AuditInv, newest, descending, _validateChainLink, parentsNamed,
                upToReceipt, receiptsOf, receiptOk
  <1> QED
    BY <1>1, <1>2, <1>3, <1>4, <1>5, <1>6 DEF AuditNext

\* As long as a process does not begin a receipt while it still writes another,
\* whatever writes fail and whichever processes restart, the verifier accepts
\* the chain of receipts (but for the order of two that were under way at
\* once), and no committed receipt leaves it (AuditReceiptService,
\* AuditVerifierService).
THEOREM AuditAlwaysVerifies ==
    ASSUME ~Interleave
    PROVE  AuditSpec => []AuditChainVerifies
  <1>1. AuditInit => AuditInv
    BY AuditStarts
  <1>2. AuditInv /\ [AuditNext]_auditVars => AuditInv'
    BY AuditStep
  <1>3. AuditInv => AuditChainVerifies
    BY AuditSuffices
  <1> QED
    BY <1>1, <1>2, <1>3, PTL DEF AuditSpec

----------------------------------------------------------------------------
(* Powers of two.                                                         *)

\* Powers of two, by the sets of subsets.
LEMMA PowerDoubles ==
    ASSUME NEW n \in Nat
    PROVE  2^n \in Nat /\ 2^(n + 1) = 2 * 2^n
  <1> DEFINE S == 1..n
             x == n + 1
             T == 1..(n + 1)
             A == SUBSET S
             B == {X \in SUBSET T : x \in X}
  <1>1. IsFiniteSet(S) /\ Cardinality(S) = n /\ IsFiniteSet(T) /\ Cardinality(T) = n + 1
    BY FS_Interval
  <1>2. /\ IsFiniteSet(A) /\ Cardinality(A) = 2^n
        /\ IsFiniteSet(SUBSET T) /\ Cardinality(SUBSET T) = 2^(n + 1)
    BY <1>1, FS_SUBSET
  <1>3. x \notin S /\ T = S \cup {x}
    OBVIOUS
  <1> HIDE DEF S, T, x
  <1>4. SUBSET T = A \cup B /\ A \cap B = {}
    BY <1>3
  <1>5. ExistsBijection(A, B)
    <2> DEFINE f == [X \in A |-> X \cup {x}]
    <2>1. f \in [A -> B]
      BY <1>3
    <2>2. \A X, Y \in A : f[X] = f[Y] => X = Y
      BY <1>3
    <2>3. \A Y \in B : \E X \in A : f[X] = Y
      <3> SUFFICES ASSUME NEW Y \in B
                   PROVE  \E X \in A : f[X] = Y
        OBVIOUS
      <3>1. Y \ {x} \in A /\ (Y \ {x}) \cup {x} = Y
        BY <1>3
      <3> QED
        BY <3>1
    <2> HIDE DEF f, A, B
    <2>4. f \in Bijection(A, B)
      BY <2>1, <2>2, <2>3 DEF Bijection, Injection, Surjection, IsInjective
    <2> QED
      BY <2>4 DEF ExistsBijection
  <1> HIDE DEF A, B
  <1>6. IsFiniteSet(B) /\ Cardinality(B) = Cardinality(A)
    BY <1>2, <1>5, FS_Bijection
  <1>7. Cardinality(A \cup B) = Cardinality(A) + Cardinality(B) - Cardinality(A \cap B)
    BY <1>2, <1>6, FS_Union
  <1>8. Cardinality(A \cap B) = 0 /\ Cardinality(A) \in Nat
    BY <1>2, <1>4, FS_EmptySet, FS_CardinalityType
  <1>9. Cardinality(SUBSET T) = Cardinality(A \cup B)
    BY <1>4, Zenon
  <1>10. Cardinality(SUBSET T) = 2 * Cardinality(A)
    BY <1>6, <1>7, <1>8, <1>9
  <1> QED
    BY <1>2, <1>8, <1>10, Zenon

LEMMA PowerOfZero == 2^0 = 1
  <1>1. IsFiniteSet({}) /\ Cardinality({}) = 0
    BY FS_EmptySet
  <1>2. Cardinality(SUBSET {}) = 2^0
    BY <1>1, FS_SUBSET
  <1>3. SUBSET {} = {{}}
    OBVIOUS
  <1>4. Cardinality({{}}) = 1
    BY FS_Singleton
  <1> QED
    BY <1>2, <1>3, <1>4

----------------------------------------------------------------------------
(* Bisect.                                                                 *)

Search ==
    [phase : {"idle", "range-error", "search", "found"}, good : Nat, bad : Nat, first : Nat,
     lo : Nat, hi : Nat, steps : Nat]

BisectTypeOK == ticks \in Seq(Int) /\ verdicts \in Seq(BOOLEAN) /\ bisect \in Search

\* the lamports of a chain ascend
ascends == /\ Len(ticks) = Len(verdicts)
           /\ \A i, j \in 1..Len(ticks) : i < j => ticks[i] < ticks[j]

started == bisect.phase \in {"search", "found"}

\* the upper end of the window is bad, what is below the lower one is good
windowInv ==
    started =>
      /\ 1 <= bisect.good /\ bisect.good < bisect.bad /\ bisect.bad <= Len(ticks)
      /\ bisect.first = bisect.good + 1
      /\ bisect.lo <= bisect.hi /\ bisect.hi <= bisect.bad - bisect.good - 1
      /\ ~verdicts[bisect.first + bisect.hi] /\ verdicts[bisect.first + bisect.lo - 1]
      /\ bisect.phase = "found" => bisect.lo = bisect.hi

\* every turn halves the window
turns(s, w, n) == 2^s * w <= n - 1 /\ (s = 0 \/ 2^s <= 2 * (n - 1))
turnsInv ==
    /\ started => turns(bisect.steps, bisect.hi - bisect.lo, bisect.bad - bisect.good)
    /\ ~started => bisect.steps = 0

BisectInv == BisectTypeOK /\ ascends /\ windowInv /\ turnsInv

BisectSpec == BisectInit /\ [][BisectNext]_bisectVars

\* The state at the lamport of a patch is the state at that patch.
LEMMA TestIsVerdict ==
    ASSUME BisectTypeOK, ascends, NEW k \in 1..Len(ticks)
    PROVE  testFn(ticks[k]) = verdicts[k]
  <1>1. Len(ticks) \in Nat /\ \A i \in 1..Len(ticks) : ticks[i] \in Int
    BY LenProperties, ElementOfSeq DEF BisectTypeOK
  <1>2. k \in chainAt(ticks[k]) /\ \A j \in chainAt(ticks[k]) : j \in Int /\ j <= k
    <2> SUFFICES ASSUME NEW j \in chainAt(ticks[k])
                 PROVE  j \in Int /\ j <= k
      BY <1>1 DEF chainAt
    <2>1. j \in 1..Len(ticks) /\ ticks[j] <= ticks[k]
      BY DEF chainAt
    <2> QED
      BY <1>1, <2>1 DEF ascends
  <1> DEFINE m == CHOOSE i \in chainAt(ticks[k]) : \A j \in chainAt(ticks[k]) : j <= i
  <1>3. m \in chainAt(ticks[k]) /\ \A j \in chainAt(ticks[k]) : j <= m
    BY <1>2
  <1> HIDE DEF m
  <1>4. m = k
    BY <1>2, <1>3
  <1> QED
    BY <1>4 DEF testFn, m

\* One turn halves what is left.
LEMMA TurnHalves ==
    ASSUME NEW s \in Nat, NEW w \in Nat, NEW v \in Nat, NEW n \in Nat,
           turns(s, w, n), w >= 1, 2 * v <= w
    PROVE  turns(s + 1, v, n)
  <1> DEFINE p == 2^s
  <1>1. p \in Nat /\ 2^(s + 1) = 2 * p
    BY PowerDoubles
  <1>2. p * w <= n - 1
    BY DEF turns
  <1> HIDE DEF p
  <1>3. (2 * p) * v <= p * w
    <2>1. PICK d \in Nat : w = 2 * v + d
      <3>1. w - 2 * v \in Nat /\ w = 2 * v + (w - 2 * v)
        OBVIOUS
      <3> QED
        BY <3>1
    <2>2. p * w = p * (2 * v) + p * d
      BY <1>1, <2>1
    <2>3. p * d >= 0 /\ p * d \in Nat
      BY <1>1, <2>1
    <2>4. p * (2 * v) = (2 * p) * v /\ (2 * p) * v \in Nat
      BY <1>1
    <2> QED
      BY <2>2, <2>3, <2>4
  <1>4. p <= p * w
    <2>1. PICK e \in Nat : w = e + 1
      <3>1. w - 1 \in Nat /\ w = (w - 1) + 1
        OBVIOUS
      <3> QED
        BY <3>1
    <2>2. p * w = p * e + p /\ p * e \in Nat
      BY <1>1, <2>1
    <2> QED
      BY <1>1, <2>2
  <1>5. p * w \in Nat /\ (2 * p) * v \in Nat
    BY <1>1
  <1>6. (2 * p) * v <= n - 1 /\ 2 * p <= 2 * (n - 1)
    BY <1>1, <1>2, <1>3, <1>4, <1>5
  <1> QED
    BY <1>1, <1>6, Zenon DEF turns

\* The window lies within the chain.
LEMMA WindowInside ==
    ASSUME NEW g \in Nat, NEW b \in Nat, NEW f \in Nat, NEW l \in Nat, NEW h \in Nat, NEW n \in Nat,
           1 <= g, b <= n, f = g + 1, l <= h, h <= b - g - 1
    PROVE  f + h \in 1..n /\ f + l - 1 \in 1..n /\ f + l \in 1..n
  OBVIOUS

LEMMA ExtendKeeps ==
    ASSUME BisectInv, extendChain
    PROVE  BisectInv'
  <1>1. PICK gap \in Int, v \in BOOLEAN :
           /\ gap >= 1
           /\ ticks' = Append(ticks, gap + (IF ticks = << >> THEN 0 ELSE ticks[Len(ticks)]))
           /\ verdicts' = Append(verdicts, v)
    BY DEF extendChain
  <1>2. bisect' = bisect
    BY DEF extendChain
  <1>3. ticks \in Seq(Int) /\ verdicts \in Seq(BOOLEAN) /\ Len(ticks) = Len(verdicts)
    BY DEF BisectInv, BisectTypeOK, ascends
  <1> DEFINE t == gap + (IF ticks = << >> THEN 0 ELSE ticks[Len(ticks)])
  <1>4. Len(ticks) \in Nat /\ \A i \in 1..Len(ticks) : ticks[i] \in Int
    BY <1>3, LenProperties, ElementOfSeq
  <1>5. t \in Int /\ \A i \in 1..Len(ticks) : ticks[i] < t
    <2>1. CASE ticks = << >>
      BY <2>1
    <2>2. CASE ticks # << >>
      <3>1. Len(ticks) \in 1..Len(ticks)
        BY <1>3, <1>4, <2>2, EmptySeq
      <3>2. ticks[Len(ticks)] \in Int /\ t = gap + ticks[Len(ticks)]
        BY <1>4, <2>2, <3>1
      <3>3. \A i \in 1..Len(ticks) : ticks[i] <= ticks[Len(ticks)]
        BY <1>4, <3>1 DEF BisectInv, ascends
      <3> QED
        BY <1>1, <1>4, <3>2, <3>3
    <2> QED
      BY <2>1, <2>2
  <1>6. ticks' = Append(ticks, t)
    BY <1>1
  <1> HIDE DEF t
  <1>7. /\ ticks' \in Seq(Int) /\ Len(ticks') = Len(ticks) + 1
        /\ \A i \in 1..Len(ticks) : ticks'[i] = ticks[i]
        /\ ticks'[Len(ticks) + 1] = t
    BY <1>3, <1>5, <1>6, Appended
  <1>8. /\ verdicts' \in Seq(BOOLEAN) /\ Len(verdicts') = Len(verdicts) + 1
        /\ \A i \in 1..Len(verdicts) : verdicts'[i] = verdicts[i]
    BY <1>1, <1>3, Appended
  <1>9. BisectTypeOK'
    BY <1>2, <1>7, <1>8 DEF BisectInv, BisectTypeOK
  <1>10. ascends'
    <2> SUFFICES ASSUME NEW i \in 1..Len(ticks'), NEW j \in 1..Len(ticks'), i < j
                 PROVE  ticks'[i] < ticks'[j]
      BY <1>3, <1>7, <1>8 DEF ascends
    <2>1. i \in 1..Len(ticks) /\ (j \in 1..Len(ticks) \/ j = Len(ticks) + 1)
      BY <1>4, <1>7
    <2> QED
      BY <1>5, <1>7, <2>1 DEF BisectInv, ascends
  <1>11. windowInv'
    <2> SUFFICES ASSUME started
                 PROVE  windowInv'
      BY <1>2 DEF windowInv, started
    <2>1. windowInv /\ bisect \in Search
      BY DEF BisectInv, BisectTypeOK
    <2>2. /\ bisect.first + bisect.hi \in 1..Len(verdicts)
          /\ bisect.first + bisect.lo - 1 \in 1..Len(verdicts)
      <3>1. /\ 1 <= bisect.good /\ bisect.good < bisect.bad /\ bisect.bad <= Len(ticks)
            /\ bisect.first = bisect.good + 1
            /\ bisect.lo <= bisect.hi /\ bisect.hi <= bisect.bad - bisect.good - 1
        BY <2>1 DEF windowInv
      <3>2. /\ bisect.good \in Nat /\ bisect.bad \in Nat /\ bisect.first \in Nat
            /\ bisect.lo \in Nat /\ bisect.hi \in Nat
        BY <2>1 DEF Search
      <3> QED
        BY <1>3, <1>4, <3>1, <3>2, WindowInside
    <2>3. /\ verdicts'[bisect.first + bisect.hi] = verdicts[bisect.first + bisect.hi]
          /\ verdicts'[bisect.first + bisect.lo - 1] = verdicts[bisect.first + bisect.lo - 1]
      BY <1>8, <2>2
    <2>4. bisect.bad <= Len(ticks')
      BY <1>4, <1>7, <2>1 DEF windowInv, Search
    <2> QED
      BY <1>2, <2>1, <2>3, <2>4 DEF windowInv
  <1>12. turnsInv'
    BY <1>2 DEF BisectInv, turnsInv, started
  <1> QED
    BY <1>9, <1>10, <1>11, <1>12 DEF BisectInv

LEMMA RunKeeps ==
    ASSUME BisectInv, run
    PROVE  BisectInv'
  <1>1. UNCHANGED <<ticks, verdicts>>
    BY DEF run
  <1>2. PICK good, bad \in 1..MaxChain :
         /\ good \in 1..Len(ticks) => verdicts[good]
         /\ bad \in 1..Len(ticks) => ~verdicts[bad]
         /\ bisect' = IF resolveCandidates(good, bad) = {} THEN [noBisect EXCEPT !.phase = "range-error"]
                      ELSE [phase |-> "search", good |-> good, bad |-> bad, first |-> good + 1,
                            lo |-> 0, hi |-> bad - good - 1, steps |-> 0]
    BY DEF run
  <1>3. Len(ticks) \in Nat
    BY LenProperties DEF BisectInv, BisectTypeOK
  <1>4. CASE resolveCandidates(good, bad) = {}
    <2>1. bisect' = [noBisect EXCEPT !.phase = "range-error"]
      BY <1>2, <1>4
    <2>2. bisect' \in Search /\ bisect'.phase = "range-error" /\ bisect'.steps = 0
      BY <2>1 DEF noBisect, Search
    <2> QED
      BY <1>1, <2>2 DEF BisectInv, BisectTypeOK, ascends, windowInv, turnsInv, started
  <1>5. CASE resolveCandidates(good, bad) # {}
    <2>1. good \in 1..Len(ticks) /\ bad \in 1..Len(ticks) /\ good < bad
      BY <1>5 DEF resolveCandidates
    <2>2. PICK h \in Nat : h = bad - good - 1
      BY <1>3, <2>1
    <2>3. bisect' = [phase |-> "search", good |-> good, bad |-> bad, first |-> good + 1,
                     lo |-> 0, hi |-> h, steps |-> 0]
      BY <1>2, <1>5, <2>2
    <2>4. bisect' \in Search
      BY <1>3, <2>1, <2>3 DEF Search
    <2>5. /\ bisect'.phase = "search" /\ bisect'.good = good /\ bisect'.bad = bad
          /\ bisect'.first = good + 1 /\ bisect'.lo = 0 /\ bisect'.hi = h /\ bisect'.steps = 0
      BY <2>3
    <2>6. good + 1 + h = bad /\ good + 1 + 0 - 1 = good
      BY <1>3, <2>1, <2>2
    <2>7. verdicts[good] /\ ~verdicts[bad]
      BY <1>2, <2>1
    <2>8. windowInv'
      BY <1>1, <1>3, <2>1, <2>2, <2>5, <2>6, <2>7 DEF windowInv, started
    <2>9. turns(0, h - 0, bad - good)
      <3>1. 1 * (h - 0) <= bad - good - 1
        BY <1>3, <2>1, <2>2
      <3> QED
        BY <3>1, PowerOfZero, Zenon DEF turns
    <2>10. turnsInv'
      BY <2>5, <2>9, Zenon DEF turnsInv, started
    <2> QED
      BY <1>1, <2>4, <2>8, <2>10 DEF BisectInv, BisectTypeOK, ascends
  <1> QED
    BY <1>4, <1>5

LEMMA TurnKeeps ==
    ASSUME BisectInv, _binarySearch
    PROVE  BisectInv'
  <1> DEFINE mid == (bisect.lo + bisect.hi) \div 2
             k == bisect.first + mid
             ok == testFn(ticks[k])
  <1>1. /\ bisect.phase = "search" /\ bisect.lo < bisect.hi
        /\ bisect' = [halve(bisect, mid, ok) EXCEPT !.steps = @ + 1]
        /\ UNCHANGED <<ticks, verdicts>>
    BY DEF _binarySearch
  <1>2. bisect \in Search /\ windowInv /\ started /\ Len(ticks) \in Nat
    BY <1>1, LenProperties DEF BisectInv, BisectTypeOK, started
  <1>3. /\ bisect.good \in Nat /\ bisect.bad \in Nat /\ bisect.first \in Nat
        /\ bisect.lo \in Nat /\ bisect.hi \in Nat /\ bisect.steps \in Nat
    BY <1>2 DEF Search
  <1>4. mid \in Nat /\ bisect.lo <= mid /\ mid < bisect.hi
    BY <1>1, <1>3
  <1>5. 2 * (mid - bisect.lo) <= bisect.hi - bisect.lo /\ 2 * (bisect.hi - (mid + 1)) <= bisect.hi - bisect.lo
    BY <1>1, <1>3
  <1> HIDE DEF mid
  <1> DEFINE d == bisect.hi - bisect.lo
             n == bisect.bad - bisect.good
  <1>6. k \in 1..Len(ticks) /\ d \in Nat /\ d >= 1 /\ n \in Nat
    <2>1. /\ 1 <= bisect.good /\ bisect.good < bisect.bad /\ bisect.bad <= Len(ticks)
          /\ bisect.first = bisect.good + 1 /\ bisect.hi <= bisect.bad - bisect.good - 1
      BY <1>2 DEF windowInv
    <2>2. mid <= bisect.hi
      BY <1>3, <1>4
    <2>3. k \in 1..Len(ticks)
      BY <1>2, <1>3, <1>4, <2>1, <2>2, WindowInside
    <2> QED
      BY <1>1, <1>3, <2>1, <2>3
  <1>7. ok = verdicts[k]
    BY <1>6, TestIsVerdict DEF BisectInv
  <1>8. d \in Nat /\ d >= 1 /\ n \in Nat /\ turns(bisect.steps, d, n)
    BY <1>2, <1>6, Zenon DEF BisectInv, turnsInv
  <1>9. PICK t \in Nat : t = bisect.steps + 1
    BY <1>3
  <1>10. CASE ok
    <2>1. PICK l \in Nat : l = mid + 1
      BY <1>4
    <2>2. bisect' = [[bisect EXCEPT !.lo = l] EXCEPT !.steps = t]
      BY <1>1, <1>2, <1>9, <1>10, <2>1 DEF halve, Search
    <2>3. bisect' \in Search
      BY <1>2, <2>1, <1>9, <2>2 DEF Search
    <2>4. /\ bisect'.phase = bisect.phase /\ bisect'.good = bisect.good /\ bisect'.bad = bisect.bad
          /\ bisect'.first = bisect.first /\ bisect'.hi = bisect.hi
          /\ bisect'.lo = l /\ bisect'.steps = t
      BY <1>2, <2>2 DEF Search
    <2>5. l <= bisect.hi /\ bisect.first + l - 1 = k /\ verdicts[k]
      BY <1>3, <1>4, <1>7, <1>10, <2>1
    <2>6. windowInv'
      BY <1>1, <1>2, <2>4, <2>5 DEF windowInv, started
    <2>7. PICK v \in Nat : v = bisect.hi - l
      BY <1>3, <2>1, <2>5
    <2>8. 2 * v <= d
      BY <1>3, <1>5, <2>1, <2>7
    <2>9. turns(t, v, n)
      <3> HIDE DEF d, n
      <3> QED
        BY <1>3, <1>8, <1>9, <2>7, <2>8, TurnHalves
    <2>10. turnsInv'
      BY <1>2, <2>4, <2>7, <2>9, Zenon DEF turnsInv, started
    <2> QED
      BY <1>1, <2>3, <2>6, <2>10 DEF BisectInv, BisectTypeOK, ascends
  <1>11. CASE ~ok
    <2>2. bisect' = [[bisect EXCEPT !.hi = mid] EXCEPT !.steps = t]
      BY <1>1, <1>2, <1>9, <1>11 DEF halve, Search
    <2>3. bisect' \in Search
      BY <1>2, <1>4, <1>9, <2>2 DEF Search
    <2>4. /\ bisect'.phase = bisect.phase /\ bisect'.good = bisect.good /\ bisect'.bad = bisect.bad
          /\ bisect'.first = bisect.first /\ bisect'.lo = bisect.lo
          /\ bisect'.hi = mid /\ bisect'.steps = t
      BY <1>2, <2>2 DEF Search
    <2>5. mid <= bisect.bad - bisect.good - 1 /\ ~verdicts[k]
      BY <1>2, <1>3, <1>4, <1>7, <1>11 DEF windowInv
    <2>6. windowInv'
      BY <1>1, <1>2, <1>4, <2>4, <2>5 DEF windowInv, started
    <2>7. PICK v \in Nat : v = mid - bisect.lo
      BY <1>3, <1>4
    <2>8. 2 * v <= d
      BY <1>3, <1>5, <2>7
    <2>9. turns(t, v, n)
      <3> HIDE DEF d, n
      <3> QED
        BY <1>3, <1>8, <1>9, <2>7, <2>8, TurnHalves
    <2>10. turnsInv'
      BY <1>2, <2>4, <2>7, <2>9, Zenon DEF turnsInv, started
    <2> QED
      BY <1>1, <2>3, <2>6, <2>10 DEF BisectInv, BisectTypeOK, ascends
  <1> QED
    BY <1>10, <1>11

LEMMA FoundKeeps ==
    ASSUME BisectInv, foundResult
    PROVE  BisectInv'
  <1>1. /\ bisect.phase = "search" /\ bisect.lo >= bisect.hi /\ bisect' = [bisect EXCEPT !.phase = "found"]
        /\ UNCHANGED <<ticks, verdicts>>
    BY DEF foundResult
  <1>2. bisect \in Search /\ windowInv /\ started
    BY <1>1 DEF BisectInv, BisectTypeOK, started
  <1>3. bisect' \in Search
    BY <1>1, <1>2 DEF Search
  <1>4. /\ bisect'.phase = "found" /\ bisect'.good = bisect.good /\ bisect'.bad = bisect.bad
        /\ bisect'.first = bisect.first /\ bisect'.lo = bisect.lo /\ bisect'.hi = bisect.hi
        /\ bisect'.steps = bisect.steps
    BY <1>1, <1>2 DEF Search
  <1>5. windowInv'
    <2>1. bisect.lo = bisect.hi
      BY <1>1, <1>2 DEF windowInv, Search
    <2> QED
      BY <1>1, <1>2, <1>4, <2>1 DEF windowInv, started
  <1>6. turnsInv'
    BY <1>2, <1>4, Zenon DEF BisectInv, turnsInv, started
  <1> QED
    BY <1>1, <1>3, <1>5, <1>6 DEF BisectInv, BisectTypeOK, ascends

\* On a chain of any length that grows during the search, whatever the test
\* says of the patches between: the search ends at a bad patch whose
\* predecessor is good, after at most log2 of the candidates turns, rounded
\* up (BisectService.run, _binarySearch, resolveCandidates).
THEOREM BisectAlwaysFinds == BisectSpec => []BisectFindsBoundary
  <1>1. BisectInit => BisectInv
    <2> SUFFICES ASSUME BisectInit
                 PROVE  BisectInv
      OBVIOUS
    <2>1. ticks = << >> /\ verdicts = << >> /\ bisect = noBisect
      BY DEF BisectInit
    <2>2. bisect \in Search /\ bisect.phase = "idle" /\ bisect.steps = 0
      BY <2>1 DEF noBisect, Search
    <2> QED
      BY <2>1, <2>2 DEF BisectInv, BisectTypeOK, ascends, windowInv, turnsInv, started
  <1>2. BisectInv /\ [BisectNext]_bisectVars => BisectInv'
    <2> SUFFICES ASSUME BisectInv, [BisectNext]_bisectVars
                 PROVE  BisectInv'
      OBVIOUS
    <2>1. CASE UNCHANGED bisectVars
      BY <2>1 DEF bisectVars, BisectInv, BisectTypeOK, ascends, windowInv, turnsInv, started
    <2> QED
      BY <2>1, ExtendKeeps, RunKeeps, TurnKeeps, FoundKeeps DEF BisectNext
  <1>3. BisectInv => BisectFindsBoundary
    <2> SUFFICES ASSUME BisectInv
                 PROVE  BisectFindsBoundary
      OBVIOUS
    <2>1. ASSUME bisect.phase = "found"
          PROVE  ~verdicts[bisect.first + bisect.lo] /\ verdicts[bisect.first + bisect.lo - 1]
      BY <2>1 DEF BisectInv, windowInv, started
    <2> DEFINE p == 2^bisect.steps
               n == bisect.bad - bisect.good
    <2>2. ASSUME bisect.steps # 0
          PROVE  p < 2 * n
      <3>1. started /\ p <= 2 * (n - 1)
        BY <2>2, Zenon DEF BisectInv, turnsInv, turns
      <3>2. bisect.steps \in Nat /\ n \in Int
        BY DEF BisectInv, BisectTypeOK, Search
      <3>3. p \in Nat
        BY <3>2, PowerDoubles
      <3> HIDE DEF p, n
      <3> QED
        BY <3>1, <3>2, <3>3
    <2> QED
      BY <2>1, <2>2, Zenon DEF BisectFindsBoundary
  <1> QED
    BY <1>1, <1>2, <1>3, PTL DEF BisectSpec

----------------------------------------------------------------------------
(* Fork: ancestry.                                                         *)

CommitRec == [parent : Nat, graph : GraphName]

\* every commit is above its parent
repoOK(r) == r \in Seq(CommitRec) /\ \A i \in 1..Len(r) : r[i].parent < i

\* h gives the ancestors of the first n commits, each with itself
isPast(h, r, n) == h = [i \in 0..n |-> IF i = 0 THEN {} ELSE {i} \cup h[r[i].parent]]

pastOf(r) == CHOOSE h : isPast(h, r, Len(r))

LEMMA RepoFacts ==
    ASSUME NEW r, repoOK(r)
    PROVE  /\ Len(r) \in Nat
           /\ \A i \in 1..Len(r) : r[i] \in CommitRec /\ r[i].parent \in 0..(i - 1) /\ r[i].graph \in GraphName
  <1>1. r \in Seq(CommitRec) /\ \A i \in 1..Len(r) : r[i].parent < i
    BY DEF repoOK
  <1>2. Len(r) \in Nat /\ \A i \in 1..Len(r) : r[i] \in CommitRec
    BY <1>1, LenProperties, ElementOfSeq
  <1>3. \A i \in 1..Len(r) : r[i].parent \in Nat /\ r[i].graph \in GraphName
    BY <1>2 DEF CommitRec
  <1> QED
    BY <1>1, <1>2, <1>3

LEMMA PastEquations ==
    ASSUME NEW h, NEW r, NEW n \in Nat, isPast(h, r, n)
    PROVE  h[0] = {} /\ \A i \in 1..n : h[i] = {i} \cup h[r[i].parent]
  <1> DEFINE g == [i \in 0..n |-> IF i = 0 THEN {} ELSE {i} \cup h[r[i].parent]]
  <1>1. h = g
    BY DEF isPast
  <1>2. g[0] = {} /\ \A i \in 1..n : g[i] = {i} \cup h[r[i].parent]
    OBVIOUS
  <1> HIDE DEF g
  <1> QED
    BY <1>1, <1>2

LEMMA PastExists ==
    ASSUME NEW r, repoOK(r)
    PROVE  isPast(pastOf(r), r, Len(r))
  <1> DEFINE T == {n \in Nat : n <= Len(r) => \E h : isPast(h, r, n)}
  <1>1. /\ Len(r) \in Nat
        /\ \A i \in 1..Len(r) : r[i].parent \in 0..(i - 1)
    BY RepoFacts
  <1>2. 0 \in T
    <2> DEFINE h == [i \in 0..0 |-> {}]
    <2>1. isPast(h, r, 0)
      BY DEF isPast
    <2> QED
      BY <2>1
  <1>3. ASSUME NEW n \in Nat, n \in T
        PROVE  n + 1 \in T
    <2> SUFFICES ASSUME n + 1 <= Len(r)
                 PROVE  \E h : isPast(h, r, n + 1)
      OBVIOUS
    <2>1. PICK h : isPast(h, r, n)
      BY <1>1, <1>3
    <2> DEFINE q == r[n + 1].parent
               g == [i \in 0..(n + 1) |-> IF i = n + 1 THEN {n + 1} \cup h[q] ELSE h[i]]
    <2>2. h[0] = {} /\ \A i \in 1..n : h[i] = {i} \cup h[r[i].parent]
      BY <2>1, PastEquations
    <2>3. q \in 0..n /\ \A i \in 1..n : r[i].parent \in 0..n
      BY <1>1
    <2> HIDE DEF q
    <2>4. /\ g[n + 1] = {n + 1} \cup h[q]
          /\ \A i \in 0..n : g[i] = h[i]
          /\ g = [i \in 0..(n + 1) |-> g[i]]
      OBVIOUS
    <2> HIDE DEF g
    <2>5. ASSUME NEW i \in 0..(n + 1)
          PROVE  g[i] = IF i = 0 THEN {} ELSE {i} \cup g[r[i].parent]
      <3>1. CASE i = 0
        BY <2>2, <2>4, <3>1
      <3>2. CASE i = n + 1
        <4>1. g[q] = h[q]
          BY <2>3, <2>4
        <4>2. r[i].parent = q /\ i # 0
          BY <3>2 DEF q
        <4>3. g[i] = {i} \cup g[r[i].parent]
          BY <2>4, <3>2, <4>1, <4>2
        <4> QED
          BY <4>2, <4>3
      <3>3. CASE i # 0 /\ i # n + 1
        <4>1. i \in 0..n /\ i \in 1..n
          BY <3>3
        <4>2. g[r[i].parent] = h[r[i].parent] /\ g[i] = h[i]
          BY <2>3, <2>4, <4>1
        <4> QED
          BY <2>2, <3>3, <4>1, <4>2
      <3> QED
        BY <3>1, <3>2, <3>3
    <2>6. isPast(g, r, n + 1)
      BY <2>4, <2>5 DEF isPast
    <2> QED
      BY <2>6
  <1> HIDE DEF T
  <1>4. Len(r) \in T
    BY <1>1, <1>2, <1>3, SetInduction
  <1>5. \E h : isPast(h, r, Len(r))
    BY <1>1, <1>4 DEF T
  <1> QED
    BY <1>5 DEF pastOf

\* The ancestors of a commit are those of its parent and itself.
LEMMA PastUnfolds ==
    ASSUME NEW r, repoOK(r)
    PROVE  /\ pastOf(r)[0] = {}
           /\ \A i \in 1..Len(r) : pastOf(r)[i] = {i} \cup pastOf(r)[r[i].parent]
  BY PastExists, PastEquations, RepoFacts

LEMMA PastBelow ==
    ASSUME NEW r, repoOK(r), NEW c \in 0..Len(r)
    PROVE  pastOf(r)[c] \subseteq 1..c
  <1> DEFINE P == pastOf(r)
             T == {n \in Nat : \A i \in 0..n : i <= Len(r) => P[i] \subseteq 1..i}
  <1>1. /\ Len(r) \in Nat
        /\ \A i \in 1..Len(r) : r[i].parent \in 0..(i - 1)
    BY RepoFacts
  <1>2. P[0] = {} /\ \A i \in 1..Len(r) : P[i] = {i} \cup P[r[i].parent]
    BY PastUnfolds
  <1> HIDE DEF P
  <1>3. 0 \in T
    BY <1>2
  <1>4. ASSUME NEW n \in Nat, n \in T
        PROVE  n + 1 \in T
    <2> SUFFICES ASSUME NEW i \in 0..(n + 1), i <= Len(r)
                 PROVE  P[i] \subseteq 1..i
      OBVIOUS
    <2>1. CASE i \in 0..n
      BY <1>4, <2>1
    <2>2. CASE i = n + 1
      <3> DEFINE q == r[i].parent
      <3>1. i \in 1..Len(r) /\ q \in 0..(i - 1)
        BY <1>1, <2>2
      <3>2. P[i] = {i} \cup P[q]
        BY <1>2, <3>1
      <3> HIDE DEF q
      <3>3. q \in 0..n /\ q <= Len(r)
        BY <1>1, <2>2, <3>1
      <3>4. P[q] \subseteq 1..q
        BY <1>4, <3>3
      <3>5. 1..q \subseteq 1..i /\ i \in 1..i
        BY <1>1, <3>1
      <3> QED
        BY <3>2, <3>4, <3>5
    <2> QED
      BY <2>1, <2>2
  <1> HIDE DEF T
  <1>5. c \in Nat /\ c \in T
    BY <1>1, <1>3, <1>4, SetInduction
  <1>6. P[c] \subseteq 1..c
    BY <1>1, <1>5 DEF T
  <1> QED
    BY <1>6 DEF P

\* The ancestors of an ancestor are ancestors.
LEMMA PastTransitive ==
    ASSUME NEW r, repoOK(r), NEW c \in 0..Len(r), NEW a \in pastOf(r)[c]
    PROVE  pastOf(r)[a] \subseteq pastOf(r)[c]
  <1> DEFINE P == pastOf(r)
             T == {n \in Nat : \A i \in 0..n : i <= Len(r) => \A x \in P[i] : P[x] \subseteq P[i]}
  <1>1. /\ Len(r) \in Nat
        /\ \A i \in 1..Len(r) : r[i].parent \in 0..(i - 1)
    BY RepoFacts
  <1>2. P[0] = {} /\ \A i \in 1..Len(r) : P[i] = {i} \cup P[r[i].parent]
    BY PastUnfolds
  <1>0. a \in P[c]
    OBVIOUS
  <1> HIDE DEF P
  <1>3. 0 \in T
    BY <1>2
  <1>4. ASSUME NEW n \in Nat, n \in T
        PROVE  n + 1 \in T
    <2> SUFFICES ASSUME NEW i \in 0..(n + 1), i <= Len(r), NEW x \in P[i]
                 PROVE  P[x] \subseteq P[i]
      OBVIOUS
    <2>1. CASE i \in 0..n
      BY <1>4, <2>1
    <2>2. CASE i = n + 1
      <3> DEFINE q == r[i].parent
      <3>1. i \in 1..Len(r) /\ q \in 0..(i - 1)
        BY <1>1, <2>2
      <3>2. P[i] = {i} \cup P[q]
        BY <1>2, <3>1
      <3> HIDE DEF q
      <3>3. q \in 0..n /\ q <= Len(r)
        BY <1>1, <2>2, <3>1
      <3>4. \A y \in P[q] : P[y] \subseteq P[q]
        BY <1>4, <3>3
      <3> QED
        BY <3>2, <3>4
    <2> QED
      BY <2>1, <2>2
  <1> HIDE DEF T
  <1>5. c \in Nat /\ c \in T
    BY <1>1, <1>3, <1>4, SetInduction
  <1>6. P[a] \subseteq P[c]
    BY <1>0, <1>1, <1>5 DEF T
  <1> QED
    BY <1>6 DEF P

\* A new commit changes no ancestry.
LEMMA PastGrows ==
    ASSUME NEW r, repoOK(r), NEW e \in CommitRec, e.parent \in 0..Len(r)
    PROVE  LET s == Append(r, e)
           IN  /\ repoOK(s) /\ Len(s) = Len(r) + 1
               /\ \A i \in 1..Len(r) : s[i] = r[i]
               /\ s[Len(r) + 1] = e
               /\ \A i \in 0..Len(r) : pastOf(s)[i] = pastOf(r)[i]
               /\ pastOf(s)[Len(r) + 1] = {Len(r) + 1} \cup pastOf(r)[e.parent]
  <1> DEFINE s == Append(r, e)
             p == e.parent
             P == pastOf(r)
             Q == pastOf(s)
             T == {n \in Nat : \A i \in 0..n : i <= Len(r) => Q[i] = P[i]}
  <1>1. /\ Len(r) \in Nat
        /\ \A i \in 1..Len(r) : r[i].parent \in 0..(i - 1)
    BY RepoFacts
  <1>2. e.parent = p /\ p \in 0..Len(r)
    OBVIOUS
  <1>3. /\ s \in Seq(CommitRec) /\ Len(s) = Len(r) + 1
        /\ \A i \in 1..Len(r) : s[i] = r[i]
        /\ s[Len(r) + 1] = e
    <2>1. r \in Seq(CommitRec)
      BY DEF repoOK
    <2> QED
      BY <2>1, Appended
  <1> HIDE DEF s, p
  <1>4. repoOK(s)
    <2> SUFFICES ASSUME NEW i \in 1..Len(s)
                 PROVE  s[i].parent < i
      BY <1>3 DEF repoOK
    <2>1. i \in 1..Len(r) \/ i = Len(r) + 1
      BY <1>1, <1>3
    <2> QED
      BY <1>1, <1>2, <1>3, <2>1
  <1>5. /\ P[0] = {} /\ \A i \in 1..Len(r) : P[i] = {i} \cup P[r[i].parent]
        /\ Q[0] = {} /\ \A i \in 1..Len(s) : Q[i] = {i} \cup Q[s[i].parent]
    BY <1>4, PastUnfolds
  <1> HIDE DEF P, Q
  <1>6. 0 \in T
    <2>1. Q[0] = P[0]
      BY <1>5
    <2> QED
      BY <2>1
  <1>7. ASSUME NEW n \in Nat, n \in T
        PROVE  n + 1 \in T
    <2> SUFFICES ASSUME NEW i \in 0..(n + 1), i <= Len(r)
                 PROVE  Q[i] = P[i]
      OBVIOUS
    <2>1. CASE i \in 0..n
      BY <1>7, <2>1
    <2>2. CASE i = n + 1
      <3> DEFINE q == r[i].parent
      <3>1. i \in 1..Len(r) /\ q \in 0..(i - 1) /\ i \in 1..Len(s) /\ s[i].parent = q
        BY <1>1, <1>3, <2>2
      <3>2. P[i] = {i} \cup P[q] /\ Q[i] = {i} \cup Q[q]
        BY <1>5, <3>1
      <3> HIDE DEF q
      <3>3. q \in 0..n /\ q <= Len(r)
        BY <1>1, <2>2, <3>1
      <3>4. Q[q] = P[q]
        BY <1>7, <3>3
      <3> QED
        BY <3>2, <3>4
    <2> QED
      BY <2>1, <2>2
  <1> HIDE DEF T
  <1>8. Nat \subseteq T
    BY <1>6, <1>7, SetInduction
  <1>9. \A i \in 0..Len(r) : Q[i] = P[i]
    <2>1. Len(r) \in T
      BY <1>1, <1>8
    <2> QED
      BY <1>1, <2>1 DEF T
  <1>10. Q[Len(r) + 1] = {Len(r) + 1} \cup P[p]
    <2>1. Len(r) + 1 \in 1..Len(s)
      BY <1>1, <1>3
    <2>2. Q[Len(r) + 1] = {Len(r) + 1} \cup Q[p]
      BY <1>2, <1>3, <1>5, <2>1
    <2>3. Q[p] = P[p]
      BY <1>2, <1>9
    <2> QED
      BY <2>2, <2>3
  <1> QED
    BY <1>2, <1>3, <1>4, <1>9, <1>10 DEF P, Q, s, p

----------------------------------------------------------------------------
(* Fork: the invariant.                                                    *)

Call ==
    [phase : {"none", "validated", "free", "done"}, name : GraphName \cup {""},
     writer : ForkWriter \cup {""}, at : Nat]

ForkTypeOK ==
    /\ repoOK(repo)
    /\ heads \in [GraphName -> [ForkWriter -> 0..Len(repo)]]
    /\ forking \in [Caller -> Call]
    /\ ckpt = [g \in GraphName |-> ckpt[g]]

\* a call names a graph, a writer and a commit
callOK(x) == x.name \in GraphName /\ x.writer \in ForkWriter /\ x.at \in 1..Len(repo)
callInv == \A c \in Caller : forking[c].phase # "none" => callOK(forking[c])

\* a name that was found free stays free until the fork has it
headless(g) == \A w \in ForkWriter : heads[g][w] = 0
freeInv == \A c \in Caller : forking[c].phase = "free" => headless(forking[c].name)
aloneInv == \A c, d \in Caller : underWay(c) /\ underWay(d) => c = d

\* what a graph shows is its own or came with a fork
shows(r, H, g, x) == \E w \in ForkWriter : x \in pastOf(r)[H[g][w]]
own(r, g, x) == x \in 1..Len(r) /\ r[x].graph = g
forked(r, F, g, x) ==
    \E c \in Caller : F[c].phase = "done" /\ F[c].name = g /\ x \in pastOf(r)[F[c].at]
isolatedInv ==
    \A g \in GraphName : \A x :
      shows(repo, heads, g, x) <=> own(repo, g, x) \/ forked(repo, forking, g, x)

\* a checkpoint's frontier lies on the chains, and its state is what that shows
ckptAt(k, r, H, g) ==
    \E s \in {2, 4}, f \in [ForkWriter -> Nat] : \E S :
      /\ k = [schema |-> s, frontier |-> f, state |-> S]
      /\ \A x : x \in S <=> \E w \in ForkWriter : x \in pastOf(r)[f[w]]
      /\ \A w \in ForkWriter : f[w] = 0 \/ (H[g][w] # 0 /\ f[w] \in pastOf(r)[H[g][w]])
      /\ \E w \in ForkWriter : H[g][w] # 0
ckptInv == \A g \in GraphName : ckpt[g] = noCheckpoint \/ ckptAt(ckpt[g], repo, heads, g)

ForkInv == ForkTypeOK /\ callInv /\ freeInv /\ aloneInv /\ isolatedInv /\ ckptInv

ForkSpec == ForkInit /\ [][ForkNext]_forkVars

LEMMA HistoryIs == \A c : history(c) = pastOf(repo)[c]
  BY Zenon DEF history, pastOf, isPast

\* A step of a call that does not end it in a fork.
LEMMA CallChange ==
    ASSUME ForkInv, NEW c \in Caller, NEW x \in Call,
           forking' = [forking EXCEPT ![c] = x], UNCHANGED <<repo, heads, ckpt>>,
           forking[c].phase # "done", x.phase # "done",
           x.phase # "none" => callOK(x),
           x.phase = "free" => headless(x.name),
           x.phase \in {"validated", "free"} => \A d \in Caller : underWay(d) => d = c
    PROVE  ForkInv'
  <1>1. forking \in [Caller -> Call]
    BY DEF ForkInv, ForkTypeOK
  <1>2. forking' \in [Caller -> Call] /\ \A d \in Caller : forking'[d] = IF d = c THEN x ELSE forking[d]
    BY <1>1
  <1>3. ForkTypeOK'
    BY <1>2 DEF ForkInv, ForkTypeOK
  <1>4. callInv'
    BY <1>2 DEF ForkInv, callInv, callOK
  <1>5. freeInv'
    BY <1>2 DEF ForkInv, freeInv, headless
  <1>6. aloneInv'
    <2> SUFFICES ASSUME NEW d \in Caller, NEW e \in Caller,
                        forking'[d].phase \in {"validated", "free"}, forking'[e].phase \in {"validated", "free"}
                 PROVE  d = e
      BY DEF aloneInv, underWay
    <2> QED
      BY <1>2 DEF ForkInv, aloneInv, underWay
  <1>7. isolatedInv'
    <2>1. \A g, y : forked(repo, forking', g, y) <=> forked(repo, forking, g, y)
      BY <1>2 DEF forked
    <2> QED
      BY <2>1 DEF ForkInv, isolatedInv
  <1>8. ckptInv'
    BY DEF ForkInv, ckptInv
  <1> QED
    BY <1>3, <1>4, <1>5, <1>6, <1>7, <1>8 DEF ForkInv

LEMMA NoCall == noCall \in Call /\ noCall.phase = "none"
  BY DEF noCall, Call

LEMMA StartKeeps ==
    ASSUME ~OverlapForks, ForkInv, NEW c \in Caller, startFork(c)
    PROVE  ForkInv'
  <1>1. PICK name \in GraphName, w \in ForkWriter, at \in 1..MaxForkCommits, valid \in BOOLEAN :
          /\ valid => at \in 1..Len(repo)
          /\ forking' = [forking EXCEPT ![c] =
               IF valid THEN [phase |-> "validated", name |-> name, writer |-> w, at |-> at]
               ELSE noCall]
    <2>1. PICK g, name \in GraphName, from, w \in ForkWriter, at \in 1..MaxForkCommits :
            forking' = [forking EXCEPT ![c] =
               IF from \in writersOf(g) /\ at \in 1..Len(repo) /\ _isAncestor(at, heads[g][from])
               THEN [phase |-> "validated", name |-> name, writer |-> w, at |-> at]
               ELSE noCall]
      BY Zenon DEF startFork
    <2> DEFINE valid == from \in writersOf(g) /\ at \in 1..Len(repo) /\ _isAncestor(at, heads[g][from])
    <2>2. valid \in BOOLEAN /\ (valid => at \in 1..Len(repo))
      OBVIOUS
    <2>3. forking' = [forking EXCEPT ![c] =
               IF valid THEN [phase |-> "validated", name |-> name, writer |-> w, at |-> at]
               ELSE noCall]
      BY <2>1
    <2> HIDE DEF valid
    <2> QED
      BY <2>2, <2>3, Zenon
  <1>2. /\ forking[c].phase = "none" /\ UNCHANGED <<repo, heads, ckpt>>
        /\ \A x \in Caller : ~underWay(x)
    BY DEF startFork
  <1>3. CASE valid
    <2>1. Len(repo) \in Nat
      BY RepoFacts DEF ForkInv, ForkTypeOK
    <2> DEFINE x == [phase |-> "validated", name |-> name, writer |-> w, at |-> at]
    <2>2. x \in Call /\ x.phase = "validated" /\ callOK(x)
      <3>1. at \in 1..Len(repo)
        BY <1>1, <1>3, Zenon
      <3>2. at \in Nat
        BY <2>1, <3>1
      <3> QED
        BY <3>1, <3>2 DEF Call, callOK
    <2>3. forking' = [forking EXCEPT ![c] = x]
      BY <1>1, <1>3
    <2> HIDE DEF x
    <2> QED
      BY <1>2, <2>2, <2>3, CallChange
  <1>4. CASE ~valid
    <2>1. forking' = [forking EXCEPT ![c] = noCall]
      BY <1>1, <1>4
    <2> QED
      BY <1>2, <2>1, NoCall, CallChange
  <1> QED
    BY <1>3, <1>4

LEMMA CheckNameKeeps ==
    ASSUME ~OverlapForks, ForkInv, NEW c \in Caller, checkForkName(c)
    PROVE  ForkInv'
  <1> DEFINE p == forking[c]
  <1>1. /\ p.phase = "validated" /\ UNCHANGED <<repo, heads, ckpt>>
        /\ forking' = [forking EXCEPT ![c] =
             IF nameIsFree(p.name, p.writer) THEN [p EXCEPT !.phase = "free"] ELSE noCall]
    BY DEF checkForkName, ForkInv, ForkTypeOK
  <1>2. p \in Call /\ callOK(p) /\ \A d \in Caller : underWay(d) => d = c
    BY <1>1 DEF ForkInv, ForkTypeOK, callInv, aloneInv, underWay
  <1>3. CASE nameIsFree(p.name, p.writer)
    <2>1. PICK x : x = [p EXCEPT !.phase = "free"]
      OBVIOUS
    <2>2. headless(p.name)
      BY <1>3 DEF nameIsFree, writersOf, headless
    <2>3. forking' = [forking EXCEPT ![c] = x]
      BY <1>1, <1>3, <2>1
    <2> HIDE DEF p
    <2>4. x \in Call /\ x.phase = "free" /\ x.name = p.name /\ x.writer = p.writer /\ x.at = p.at
      BY <1>2, <2>1 DEF Call
    <2>5. callOK(x) /\ headless(x.name)
      BY <1>2, <2>2, <2>4 DEF callOK
    <2> QED
      BY <1>1, <1>2, <2>3, <2>4, <2>5, CallChange DEF p
  <1>4. CASE ~nameIsFree(p.name, p.writer)
    <2>1. forking' = [forking EXCEPT ![c] = noCall]
      BY <1>1, <1>4
    <2> QED
      BY <1>1, <2>1, NoCall, CallChange
  <1> QED
    BY <1>3, <1>4

\* The ref of the fork is set: the graph of that name shows the history of
\* the fork point.
LEMMA ForkRefKeeps ==
    ASSUME ForkInv, NEW c \in Caller, createForkRef(c)
    PROVE  ForkInv'
  <1> DEFINE p == forking[c]
             k == p.name
             v == p.writer
             a == p.at
  <1>1. p.phase = "free" /\ UNCHANGED <<repo, ckpt>>
    BY DEF createForkRef
  <1>2. CASE UNCHANGED heads /\ forking' = [forking EXCEPT ![c] = noCall]
    BY <1>1, <1>2, NoCall, CallChange
  <1>3. CASE /\ heads' = [heads EXCEPT ![k][v] = a]
             /\ forking' = [forking EXCEPT ![c].phase = "done"]
    <2>1. /\ p \in Call /\ k \in GraphName /\ v \in ForkWriter /\ a \in 1..Len(repo)
          /\ \A w \in ForkWriter : heads[k][w] = 0
          /\ \A d \in Caller : underWay(d) => d = c
      BY <1>1 DEF ForkInv, ForkTypeOK, callInv, callOK, freeInv, headless, aloneInv, underWay
    <2>2. /\ repoOK(repo) /\ Len(repo) \in Nat
          /\ heads \in [GraphName -> [ForkWriter -> 0..Len(repo)]] /\ forking \in [Caller -> Call]
      BY RepoFacts DEF ForkInv, ForkTypeOK
    <2>3. pastOf(repo)[0] = {}
      BY <2>2, PastUnfolds
    <2>4. PICK y : y = [p EXCEPT !.phase = "done"]
      OBVIOUS
    <2>5. forking' = [forking EXCEPT ![c] = y]
      BY <1>3, <2>2, <2>4
    <2> HIDE DEF p
    <2>6. y \in Call /\ y.phase = "done" /\ y.name = k /\ y.writer = v /\ y.at = a
      BY <2>1, <2>4 DEF Call
    <2> HIDE DEF k, v, a
    <2>7. forking' \in [Caller -> Call] /\ \A d \in Caller : forking'[d] = IF d = c THEN y ELSE forking[d]
      BY <2>2, <2>5, <2>6
    <2>8. /\ heads' \in [GraphName -> [ForkWriter -> 0..Len(repo)]]
          /\ heads'[k][v] = a
          /\ \A w \in ForkWriter : w # v => heads'[k][w] = 0
          /\ \A g \in GraphName : g # k => heads'[g] = heads[g]
      BY <1>3, <2>1, <2>2 DEF k, v, a
    <2>9. ForkTypeOK'
      BY <1>1, <2>7, <2>8 DEF ForkInv, ForkTypeOK
    <2>10. callInv'
      <3>1. callOK(y)
        BY <2>1, <2>6 DEF callOK
      <3> QED
        BY <1>1, <2>7, <3>1 DEF ForkInv, callInv, callOK
    <2>11. freeInv' /\ aloneInv'
      <3>1. \A d \in Caller : ~(forking'[d].phase \in {"validated", "free"})
        BY <2>1, <2>6, <2>7 DEF underWay
      <3> QED
        BY <3>1 DEF freeInv, aloneInv, underWay
    <2>12. isolatedInv'
      <3> SUFFICES ASSUME NEW g \in GraphName, NEW x
                   PROVE  shows(repo, heads', g, x) <=> own(repo, g, x) \/ forked(repo, forking', g, x)
        BY <1>1 DEF isolatedInv
      <3>1. shows(repo, heads, g, x) <=> own(repo, g, x) \/ forked(repo, forking, g, x)
        BY DEF ForkInv, isolatedInv
      <3>2. forked(repo, forking', g, x) <=> forked(repo, forking, g, x) \/ (g = k /\ x \in pastOf(repo)[a])
        BY <1>1, <2>6, <2>7 DEF forked, p
      <3>3. CASE g = k
        <4>1. ~shows(repo, heads, g, x)
          BY <2>1, <2>3, <3>3 DEF shows
        <4>2. shows(repo, heads', g, x) <=> x \in pastOf(repo)[a]
          BY <2>1, <2>3, <2>8, <3>3 DEF shows
        <4> QED
          BY <3>1, <3>2, <3>3, <4>1, <4>2
      <3>4. CASE g # k
        <4>1. shows(repo, heads', g, x) <=> shows(repo, heads, g, x)
          BY <2>8, <3>4 DEF shows
        <4> QED
          BY <3>1, <3>2, <3>4, <4>1
      <3> QED
        BY <3>3, <3>4
    <2>13. ckptInv'
      <3> SUFFICES ASSUME NEW g \in GraphName, ckpt[g] # noCheckpoint
                   PROVE  ckptAt(ckpt[g], repo, heads', g)
        BY <1>1 DEF ckptInv
      <3>1. ckptAt(ckpt[g], repo, heads, g)
        BY DEF ForkInv, ckptInv
      <3>2. g # k
        BY <2>1, <3>1 DEF ckptAt
      <3>3. heads'[g] = heads[g]
        BY <2>8, <3>2
      <3> QED
        BY <3>1, <3>3, Zenon DEF ckptAt
    <2> QED
      BY <2>9, <2>10, <2>11, <2>12, <2>13 DEF ForkInv
  <1> QED
    BY <1>2, <1>3 DEF createForkRef

\* A commit is shown by its graph and by no other.
LEMMA ForkCommitKeeps ==
    ASSUME ~OverlapForks, ForkInv, NEW g \in GraphName, NEW w \in ForkWriter, commitIn(g, w)
    PROVE  ForkInv'
  <1> DEFINE n == Len(repo)
             p == heads[g][w]
  <1>1. /\ quietName(g) /\ UNCHANGED <<forking, ckpt>>
        /\ repo' = Append(repo, [parent |-> p, graph |-> g])
        /\ heads' = [heads EXCEPT ![g][w] = n + 1]
    BY DEF commitIn
  <1>2. /\ repoOK(repo) /\ n \in Nat
        /\ heads \in [GraphName -> [ForkWriter -> 0..n]] /\ forking \in [Caller -> Call]
        /\ p \in 0..n
    BY RepoFacts DEF ForkInv, ForkTypeOK
  <1>3. /\ repoOK(repo') /\ Len(repo') = n + 1
        /\ \A i \in 1..n : repo'[i] = repo[i]
        /\ repo'[n + 1].graph = g
        /\ \A i \in 0..n : pastOf(repo')[i] = pastOf(repo)[i]
        /\ pastOf(repo')[n + 1] = {n + 1} \cup pastOf(repo)[p]
    <2>1. PICK e : e = [parent |-> p, graph |-> g]
      OBVIOUS
    <2> HIDE DEF n, p
    <2>2. e \in CommitRec /\ e.parent = p /\ e.graph = g
      BY <1>2, <2>1 DEF CommitRec
    <2>3. repo' = Append(repo, e) /\ p \in 0..Len(repo)
      BY <1>1, <1>2, <2>1 DEF n
    <2>4. e.parent \in 0..Len(repo) /\ repoOK(repo)
      BY <1>2, <2>2, <2>3
    <2> DEFINE s == Append(repo, e)
    <2>5. /\ repoOK(s) /\ Len(s) = Len(repo) + 1
          /\ \A i \in 1..Len(repo) : s[i] = repo[i]
          /\ s[Len(repo) + 1] = e
          /\ \A i \in 0..Len(repo) : pastOf(s)[i] = pastOf(repo)[i]
          /\ pastOf(s)[Len(repo) + 1] = {Len(repo) + 1} \cup pastOf(repo)[e.parent]
      BY <2>2, <2>4, PastGrows
    <2>6. repo' = s
      BY <2>3
    <2> HIDE DEF s
    <2> QED
      BY <2>2, <2>5, <2>6 DEF n
  <1>4. /\ heads' \in [GraphName -> [ForkWriter -> 0..(n + 1)]]
        /\ heads'[g][w] = n + 1
        /\ \A v \in ForkWriter : v # w => heads'[g][v] = heads[g][v]
        /\ \A k \in GraphName : k # g => heads'[k] = heads[k]
    BY <1>1, <1>2
  <1>5. \A k \in GraphName, v \in ForkWriter : heads[k][v] \in 0..n
    BY <1>2
  <1> HIDE DEF n, p
  <1>6. ForkTypeOK'
    BY <1>1, <1>3, <1>4 DEF ForkInv, ForkTypeOK
  <1>7. callInv'
    <2>1. 1..n \subseteq 1..Len(repo')
      BY <1>2, <1>3
    <2> QED
      BY <1>1, <2>1 DEF ForkInv, callInv, callOK, n
  <1>8. freeInv'
    <2> SUFFICES ASSUME NEW c \in Caller, forking[c].phase = "free"
                 PROVE  \A v \in ForkWriter : heads'[forking[c].name][v] = 0
      BY <1>1 DEF freeInv, headless
    <2>1. headless(forking[c].name) /\ forking[c].name \in GraphName /\ underWay(c)
      BY DEF ForkInv, freeInv, callInv, callOK, underWay
    <2>2. forking[c].name # g
      BY <1>1, <2>1 DEF quietName, writersOf, headless
    <2> QED
      BY <1>4, <2>1, <2>2 DEF headless
  <1>9. aloneInv'
    BY <1>1 DEF ForkInv, aloneInv, underWay
  <1>10. isolatedInv'
    <2> SUFFICES ASSUME NEW k \in GraphName, NEW x
                 PROVE  shows(repo', heads', k, x) <=> own(repo', k, x) \/ forked(repo', forking, k, x)
      BY <1>1 DEF isolatedInv
    <2>1. shows(repo, heads, k, x) <=> own(repo, k, x) \/ forked(repo, forking, k, x)
      BY DEF ForkInv, isolatedInv
    <2>2. forked(repo', forking, k, x) <=> forked(repo, forking, k, x)
      <3>1. \A c \in Caller : forking[c].phase = "done" => forking[c].at \in 0..n
        BY <1>2 DEF ForkInv, callInv, callOK, n
      <3> QED
        BY <1>3, <3>1 DEF forked
    <2>3. own(repo', k, x) <=> own(repo, k, x) \/ (x = n + 1 /\ k = g)
      <3>1. x \in 1..(n + 1) <=> x \in 1..n \/ x = n + 1
        BY <1>2
      <3>2. n + 1 \notin 1..n
        BY <1>2
      <3> QED
        BY <1>3, <3>1, <3>2 DEF own, n
    <2>4. CASE k = g
      <3>1. \A v \in ForkWriter : v # w => pastOf(repo')[heads'[g][v]] = pastOf(repo)[heads[g][v]]
        BY <1>3, <1>4, <1>5
      <3>2. pastOf(repo')[heads'[g][w]] = {n + 1} \cup pastOf(repo)[heads[g][w]]
        BY <1>3, <1>4 DEF p
      <3>3. shows(repo', heads', g, x) <=> shows(repo, heads, g, x) \/ x = n + 1
        BY <3>1, <3>2 DEF shows
      <3> QED
        BY <2>1, <2>2, <2>3, <2>4, <3>3
    <2>5. CASE k # g
      <3>1. \A v \in ForkWriter : pastOf(repo')[heads'[k][v]] = pastOf(repo)[heads[k][v]]
        BY <1>3, <1>4, <1>5, <2>5
      <3>2. shows(repo', heads', k, x) <=> shows(repo, heads, k, x)
        BY <3>1 DEF shows
      <3> QED
        BY <2>1, <2>2, <2>3, <2>5, <3>2
    <2> QED
      BY <2>4, <2>5
  <1>11. ckptInv'
    <2> SUFFICES ASSUME NEW k \in GraphName, ckpt[k] # noCheckpoint
                 PROVE  ckptAt(ckpt[k], repo', heads', k)
      BY <1>1 DEF ckptInv
    <2>1. ckptAt(ckpt[k], repo, heads, k)
      BY DEF ForkInv, ckptInv
    <2>1a. PICK s \in {2, 4}, f \in [ForkWriter -> Nat] : \E S :
            /\ ckpt[k] = [schema |-> s, frontier |-> f, state |-> S]
            /\ \A x : x \in S <=> \E v \in ForkWriter : x \in pastOf(repo)[f[v]]
            /\ \A v \in ForkWriter : f[v] = 0 \/ (heads[k][v] # 0 /\ f[v] \in pastOf(repo)[heads[k][v]])
            /\ \E v \in ForkWriter : heads[k][v] # 0
      BY <2>1 DEF ckptAt
    <2>2. PICK S :
            /\ ckpt[k] = [schema |-> s, frontier |-> f, state |-> S]
            /\ \A x : x \in S <=> \E v \in ForkWriter : x \in pastOf(repo)[f[v]]
            /\ \A v \in ForkWriter : f[v] = 0 \/ (heads[k][v] # 0 /\ f[v] \in pastOf(repo)[heads[k][v]])
            /\ \E v \in ForkWriter : heads[k][v] # 0
      BY <2>1a
    <2>3. \A v \in ForkWriter : pastOf(repo)[heads[k][v]] \subseteq 0..n
      <3> SUFFICES ASSUME NEW v \in ForkWriter
                   PROVE  pastOf(repo)[heads[k][v]] \subseteq 0..n
        OBVIOUS
      <3>1. pastOf(repo)[heads[k][v]] \subseteq 1..heads[k][v]
        BY <1>2, <1>5, PastBelow DEF n
      <3>2. heads[k][v] \in 0..n
        BY <1>5
      <3>3. 1..heads[k][v] \subseteq 0..n
        BY <1>2, <3>2
      <3> QED
        BY <3>1, <3>3
    <2>4. \A v \in ForkWriter : f[v] \in 0..n
      <3>1. 0 \in 0..n
        BY <1>2
      <3> QED
        BY <2>2, <2>3, <3>1
    <2>5. \A v \in ForkWriter : pastOf(repo')[f[v]] = pastOf(repo)[f[v]]
      BY <1>3, <2>4
    <2>6. \A v \in ForkWriter : pastOf(repo)[heads[k][v]] \subseteq pastOf(repo')[heads'[k][v]]
      <3> SUFFICES ASSUME NEW v \in ForkWriter
                   PROVE  pastOf(repo)[heads[k][v]] \subseteq pastOf(repo')[heads'[k][v]]
        OBVIOUS
      <3>1. CASE k = g /\ v = w
        BY <1>3, <1>4, <3>1 DEF p
      <3>2. CASE ~(k = g /\ v = w)
        <4>1. heads'[k][v] = heads[k][v]
          BY <1>4, <3>2
        <4> QED
          BY <1>3, <1>5, <4>1
      <3> QED
        BY <3>1, <3>2
    <2>7. \A v \in ForkWriter : heads[k][v] # 0 => heads'[k][v] # 0
      <3>1. n + 1 # 0
        BY <1>2
      <3> QED
        BY <1>4, <3>1
    <2>8. \A x : x \in S <=> \E v \in ForkWriter : x \in pastOf(repo')[f[v]]
      BY <2>2, <2>5
    <2>9. \A v \in ForkWriter : f[v] = 0 \/ (heads'[k][v] # 0 /\ f[v] \in pastOf(repo')[heads'[k][v]])
      BY <2>2, <2>6, <2>7
    <2>10. \E v \in ForkWriter : heads'[k][v] # 0
      BY <2>2, <2>7
    <2> QED
      BY <2>2, <2>8, <2>9, <2>10, Zenon DEF ckptAt
  <1> QED
    BY <1>6, <1>7, <1>8, <1>9, <1>10, <1>11 DEF ForkInv

LEMMA CheckpointKeeps ==
    ASSUME ForkInv, NEW g \in GraphName, NEW schema \in {2, 4}, checkpointGraph(g, schema)
    PROVE  ForkInv'
  <1> DEFINE S == shown(g)
             f == heads[g]
             k == [schema |-> schema, frontier |-> f, state |-> S]
  <1>1. /\ writersOf(g) # {} /\ ckpt' = [ckpt EXCEPT ![g] = k]
        /\ UNCHANGED <<repo, heads, forking>>
    BY DEF checkpointGraph
  <1>2. /\ repoOK(repo) /\ Len(repo) \in Nat /\ ckpt = [h \in GraphName |-> ckpt[h]]
        /\ heads \in [GraphName -> [ForkWriter -> 0..Len(repo)]]
    BY RepoFacts DEF ForkInv, ForkTypeOK
  <1>3. f \in [ForkWriter -> 0..Len(repo)] /\ f \in [ForkWriter -> Nat]
    BY <1>2
  <1>4. \A x : x \in S <=> \E w \in ForkWriter : x \in pastOf(repo)[f[w]]
    BY HistoryIs DEF shown
  <1>5. \A w \in ForkWriter : f[w] = 0 \/ (heads[g][w] # 0 /\ f[w] \in pastOf(repo)[heads[g][w]])
    <2> SUFFICES ASSUME NEW w \in ForkWriter, f[w] # 0
                 PROVE  f[w] \in pastOf(repo)[f[w]]
      OBVIOUS
    <2>1. f[w] \in 1..Len(repo)
      BY <1>2, <1>3
    <2> QED
      BY <1>2, <2>1, PastUnfolds
  <1>6. \E w \in ForkWriter : heads[g][w] # 0
    BY <1>1 DEF writersOf
  <1> HIDE DEF S
  <1>7. ckptAt(k, repo, heads, g)
    <2> HIDE DEF f
    <2> QED
      BY <1>3, <1>4, <1>5, <1>6, Zenon DEF ckptAt
  <1> HIDE DEF k
  <1>8. ckpt' = [h \in GraphName |-> ckpt'[h]] /\ \A h \in GraphName : ckpt'[h] = IF h = g THEN k ELSE ckpt[h]
    BY <1>1, <1>2
  <1>9. ckptInv'
    BY <1>1, <1>7, <1>8 DEF ForkInv, ckptInv
  <1>10. ForkTypeOK'
    BY <1>1, <1>8 DEF ForkInv, ForkTypeOK
  <1>11. callInv' /\ freeInv' /\ aloneInv' /\ isolatedInv'
    BY <1>1 DEF ForkInv, callInv, callOK, freeInv, headless, aloneInv, underWay, isolatedInv
  <1> QED
    BY <1>9, <1>10, <1>11 DEF ForkInv

\* What the invariant says of a graph, its forks and its checkpoint.
LEMMA InvIsolates ==
    ASSUME ForkInv
    PROVE  ForksAreIsolated
  <1> SUFFICES ASSUME NEW g \in GraphName
               PROVE  /\ shown(g) = {i \in 1..Len(repo) : repo[i].graph = g} \cup
                           UNION {history(p) : p \in {forking[c].at :
                             c \in {x \in Caller : forking[x].phase = "done" /\ forking[x].name = g}}}
                      /\ ckpt[g] # noCheckpoint =>
                           /\ _loadPatchesSince(g, ckpt[g]).ok
                           /\ ckpt[g].state \cup _loadPatchesSince(g, ckpt[g]).patches = shown(g)
    BY Zenon DEF ForksAreIsolated
  <1>1. /\ repoOK(repo) /\ Len(repo) \in Nat
        /\ heads \in [GraphName -> [ForkWriter -> 0..Len(repo)]]
    BY RepoFacts DEF ForkInv, ForkTypeOK
  <1>2. \A x : x \in shown(g) <=> shows(repo, heads, g, x)
    BY HistoryIs DEF shown, shows
  <1>3. shown(g) = {i \in 1..Len(repo) : repo[i].graph = g} \cup
                     UNION {history(p) : p \in {forking[c].at :
                       c \in {x \in Caller : forking[x].phase = "done" /\ forking[x].name = g}}}
    <2> DEFINE O == {i \in 1..Len(repo) : repo[i].graph = g}
               F == UNION {history(p) : p \in {forking[c].at :
                       c \in {x \in Caller : forking[x].phase = "done" /\ forking[x].name = g}}}
    <2>1. \A x : x \in O <=> own(repo, g, x)
      BY DEF own
    <2>2. \A x : x \in F <=> forked(repo, forking, g, x)
      BY HistoryIs DEF forked
    <2>3. \A x : shows(repo, heads, g, x) <=> own(repo, g, x) \/ forked(repo, forking, g, x)
      BY DEF ForkInv, isolatedInv
    <2> HIDE DEF O, F
    <2>4. shown(g) = O \cup F
      <3> DEFINE Z == shown(g)
      <3>1. \A x : x \in Z <=> x \in O \/ x \in F
        BY <1>2, <2>1, <2>2, <2>3
      <3> HIDE DEF Z
      <3>2. Z = O \cup F
        BY <3>1
      <3> QED
        BY <3>2 DEF Z
    <2> QED
      BY <2>4 DEF O, F
  <1>4. ASSUME ckpt[g] # noCheckpoint
        PROVE  /\ _loadPatchesSince(g, ckpt[g]).ok
               /\ ckpt[g].state \cup _loadPatchesSince(g, ckpt[g]).patches = shown(g)
    <2> DEFINE P == pastOf(repo)
               h(w) == heads[g][w]
    <2>1. ckptAt(ckpt[g], repo, heads, g)
      BY <1>4 DEF ForkInv, ckptInv
    <2>1a. PICK s \in {2, 4}, f \in [ForkWriter -> Nat] : \E S :
            /\ ckpt[g] = [schema |-> s, frontier |-> f, state |-> S]
            /\ \A x : x \in S <=> \E w \in ForkWriter : x \in P[f[w]]
            /\ \A w \in ForkWriter : f[w] = 0 \/ (h(w) # 0 /\ f[w] \in P[h(w)])
      BY <2>1 DEF ckptAt
    <2>2. PICK S :
            /\ ckpt[g] = [schema |-> s, frontier |-> f, state |-> S]
            /\ \A x : x \in S <=> \E w \in ForkWriter : x \in P[f[w]]
            /\ \A w \in ForkWriter : f[w] = 0 \/ (h(w) # 0 /\ f[w] \in P[h(w)])
      BY <2>1a
    <2>3. ckpt[g].schema = s /\ ckpt[g].frontier = f /\ ckpt[g].state = S
      BY <2>2
    <2>4. \A w \in ForkWriter : h(w) \in 0..Len(repo)
      BY <1>1
    <2>5. P[0] = {} /\ \A w \in ForkWriter : P[f[w]] \subseteq P[h(w)]
      <3>1. P[0] = {}
        BY <1>1, PastUnfolds
      <3>2. ASSUME NEW w \in ForkWriter, f[w] \in P[h(w)]
            PROVE  P[f[w]] \subseteq P[h(w)]
        <4> HIDE DEF h
        <4> QED
          BY <1>1, <2>4, <3>2, PastTransitive
      <3> HIDE DEF P, h
      <3> QED
        BY <2>2, <3>1, <3>2
    <2> DEFINE new(w) == patchesBackTo(heads[g][w], f[w])
               since == _loadPatchesSince(g, ckpt[g])
    <2>6. \A w \in ForkWriter : \A x : x \in new(w) <=> x \in P[h(w)] /\ x \notin P[f[w]]
      <3> SUFFICES ASSUME NEW w \in ForkWriter, NEW x
                   PROVE  x \in new(w) <=> x \in P[h(w)] /\ x \notin P[f[w]]
        OBVIOUS
      <3>1. CASE f[w] = 0
        BY <2>5, <3>1, HistoryIs DEF patchesBackTo, _isAncestor
      <3>2. CASE f[w] # 0
        <4>1. h(w) # 0 /\ f[w] \in P[h(w)]
          BY <2>2, <3>2
        <4>2. _isAncestor(f[w], h(w))
          BY <3>2, <4>1, HistoryIs DEF _isAncestor
        <4> QED
          BY <4>2, HistoryIs DEF patchesBackTo
      <3> QED
        BY <3>1, <3>2
    <2>7. /\ since.ok = \A w \in writersOf(g) :
                          new(w) # {} => _validatePatchAgainstCheckpoint(w, heads[g][w], ckpt[g])
          /\ since.patches = UNION {new(w) : w \in writersOf(g)}
      BY <2>3 DEF _loadPatchesSince
    <2>8. since.ok
      <3> SUFFICES ASSUME NEW w \in writersOf(g), new(w) # {}
                   PROVE  _validatePatchAgainstCheckpoint(w, heads[g][w], ckpt[g])
        BY <2>7
      <3>1. w \in ForkWriter /\ h(w) # 0
        BY DEF writersOf
      <3>2. f[w] # h(w)
        BY <2>6, <3>1
      <3>3. f[w] = 0 \/ _isAncestor(f[w], heads[g][w])
        BY <2>2, <3>1, HistoryIs DEF _isAncestor
      <3>4. f[w] = 0 \/ _relationToCheckpointHead(f[w], heads[g][w]) = "ahead"
        <4> SUFFICES ASSUME f[w] # 0
                     PROVE  _relationToCheckpointHead(f[w], heads[g][w]) = "ahead"
          OBVIOUS
        <4>1. f[w] \in P[h(w)] /\ h(w) \in 0..Len(repo)
          BY <2>2, <2>4, <3>1
        <4>2. P[h(w)] \subseteq 1..h(w)
          BY <1>1, <4>1, PastBelow
        <4>3. f[w] \in 0..Len(repo) /\ f[w] < h(w)
          <5> HIDE DEF P, h
          <5> QED
            BY <1>1, <3>2, <4>1, <4>2
        <4>4. P[f[w]] \subseteq 1..f[w]
          BY <1>1, <4>3, PastBelow
        <4>5. h(w) \notin P[f[w]]
          <5>1. h(w) \notin 1..f[w]
            <6> HIDE DEF h
            <6> QED
              BY <1>1, <4>1, <4>3
          <5> QED
            BY <4>4, <5>1
        <4>6. ~_isAncestor(heads[g][w], f[w])
          BY <4>5, HistoryIs DEF _isAncestor
        <4>7. _isAncestor(f[w], heads[g][w])
          BY <3>3
        <4> QED
          BY <3>2, <4>6, <4>7 DEF _relationToCheckpointHead
      <3> QED
        BY <2>3, <3>4 DEF _validatePatchAgainstCheckpoint
    <2>9. \A x : x \in since.patches <=> \E w \in ForkWriter : x \in P[h(w)] /\ x \notin P[f[w]]
      <3>1. \A x : x \in since.patches <=> \E w \in writersOf(g) : x \in new(w)
        BY <2>7
      <3> HIDE DEF new, since
      <3>2. \A w \in ForkWriter : w \notin writersOf(g) => P[h(w)] = {}
        BY <2>5 DEF writersOf
      <3>3. writersOf(g) \subseteq ForkWriter
        BY DEF writersOf
      <3> HIDE DEF P, h
      <3> QED
        BY <2>6, <3>1, <3>2, <3>3
    <2>10. \A x : x \in shown(g) <=> \E w \in ForkWriter : x \in P[h(w)]
      BY <1>2 DEF shows
    <2>11. \A x : x \in S \cup since.patches <=> x \in shown(g)
      <3> HIDE DEF P, h, since
      <3> QED
        BY <2>2, <2>5, <2>9, <2>10
    <2>12. S \cup since.patches = shown(g)
      <3> DEFINE Y == shown(g)
                 Z == since.patches
      <3>1. \A x : x \in S \cup Z <=> x \in Y
        BY <2>11
      <3> HIDE DEF Y, Z
      <3>2. S \cup Z = Y
        BY <3>1
      <3> QED
        BY <3>2 DEF Y, Z
    <2> QED
      BY <2>3, <2>8, <2>12
  <1> QED
    BY <1>3, <1>4

\* Where no name is taken while a fork is under way, for any graphs, writers
\* and callers: a graph shows its own commits and those up to the points it
\* was forked at, and replay on its checkpoint is accepted and gives the same
\* (fork, _loadPatchesSince, _validatePatchAgainstCheckpoint).
THEOREM ForksAlwaysIsolated ==
    ASSUME ~OverlapForks
    PROVE  ForkSpec => []ForksAreIsolated
  <1>1. ForkInit => ForkInv
    <2> SUFFICES ASSUME ForkInit
                 PROVE  ForkInv
      OBVIOUS
    <2>1. /\ repo = << >> /\ heads = [g \in GraphName |-> [w \in ForkWriter |-> 0]]
          /\ forking = [c \in Caller |-> noCall] /\ ckpt = [g \in GraphName |-> noCheckpoint]
      BY DEF ForkInit
    <2>2. repoOK(repo) /\ Len(repo) = 0
      BY <2>1 DEF repoOK
    <2>3. pastOf(repo)[0] = {}
      BY <2>2, PastUnfolds
    <2>4. \A c \in Caller : forking[c] = noCall /\ forking[c].phase = "none"
      BY <2>1, NoCall
    <2>5. \A g \in GraphName : ckpt[g] = noCheckpoint /\ \A w \in ForkWriter : heads[g][w] = 0
      BY <2>1
    <2>6. ForkTypeOK
      <3>1. heads \in [GraphName -> [ForkWriter -> 0..Len(repo)]]
        BY <2>1, <2>2
      <3>2. forking \in [Caller -> Call]
        BY <2>1, NoCall
      <3>3. ckpt = [g \in GraphName |-> ckpt[g]]
        BY <2>1, <2>5
      <3> QED
        BY <2>2, <3>1, <3>2, <3>3 DEF ForkTypeOK
    <2>7. callInv /\ freeInv /\ aloneInv
      BY <2>4 DEF callInv, freeInv, aloneInv, underWay
    <2>8. isolatedInv
      <3> SUFFICES ASSUME NEW g \in GraphName, NEW x
                   PROVE  ~shows(repo, heads, g, x) /\ ~own(repo, g, x) /\ ~forked(repo, forking, g, x)
        BY DEF isolatedInv
      <3>1. ~shows(repo, heads, g, x)
        BY <2>3, <2>5 DEF shows
      <3>2. ~own(repo, g, x) /\ ~forked(repo, forking, g, x)
        BY <2>2, <2>4 DEF own, forked
      <3> QED
        BY <3>1, <3>2
    <2>9. ckptInv
      BY <2>5 DEF ckptInv
    <2> QED
      BY <2>6, <2>7, <2>8, <2>9 DEF ForkInv
  <1>2. ForkInv /\ [ForkNext]_forkVars => ForkInv'
    <2> SUFFICES ASSUME ForkInv, [ForkNext]_forkVars
                 PROVE  ForkInv'
      OBVIOUS
    <2>1. CASE UNCHANGED forkVars
      BY <2>1 DEF forkVars, ForkInv, ForkTypeOK, callInv, callOK, freeInv, headless, aloneInv, underWay,
                  isolatedInv, ckptInv
    <2>2. ASSUME NEW g \in GraphName, NEW w \in ForkWriter, commitIn(g, w)
          PROVE  ForkInv'
      BY <2>2, ForkCommitKeeps
    <2>3. ASSUME NEW g \in GraphName, NEW schema \in {2, 4}, checkpointGraph(g, schema)
          PROVE  ForkInv'
      BY <2>3, CheckpointKeeps
    <2>4. ASSUME NEW c \in Caller, startFork(c)
          PROVE  ForkInv'
      BY <2>4, StartKeeps
    <2>5. ASSUME NEW c \in Caller, checkForkName(c)
          PROVE  ForkInv'
      BY <2>5, CheckNameKeeps
    <2>6. ASSUME NEW c \in Caller, createForkRef(c)
          PROVE  ForkInv'
      BY <2>6, ForkRefKeeps
    <2> QED
      BY <2>1, <2>2, <2>3, <2>4, <2>5, <2>6 DEF ForkNext
  <1>3. ForkInv => ForksAreIsolated
    BY InvIsolates
  <1> QED
    BY <1>1, <1>2, <1>3, PTL DEF ForkSpec

=============================================================================
