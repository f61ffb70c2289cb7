--------------------------- MODULE SyncTransport ---------------------------
(***************************************************************************)
(* The HTTP side of a sync: a request is signed by the client, may arrive  *)
(* late, twice or never, and is checked by HttpSyncServer and              *)
(* SyncAuthService before processSyncRequest answers it.  Signature checks *)
(* are asynchronous, so requests are handled concurrently.  What the       *)
(* answer holds is module Sync.                                            *)
(***************************************************************************)
EXTENDS Integers, Sequences, FiniteSets

CONSTANTS
    Nonce,             \* the nonces that clients draw, each once
    Handler,           \* requests handled at the same time
    Shape,             \* the requests that clients make: [frontier, defect, offset]
    allowedWriters,    \* the writers that the server admits
    AuthModes,         \* "enforce", "log-only", or "none" without a key
    maxClockSkewMs,
    nonceCapacity,
    MaxTime            \* bound on the clock

VARIABLES
    clock,      \* the clock of the server
    authMode,
    sent,       \* the requests on the network, for good: each may come again
    handling,   \* handling[h]: << >>, or <<request>> while its signature is checked
    nonceCache, \* LRUCache of nonces, the oldest first
    evicted,    \* the nonces that were dropped from it
    served      \* the requests that were answered, in order

transportVars == <<clock, authMode, sent, handling, nonceCache, evicted, served>>

\* what can be wrong with a request, in the order in which it is noticed
syncDefects ==
    {"none", "content-type", "route", "method", "size", "json", "header", "key", "signature"}

ASSUME ShapeAssumption == \A x \in Shape : x.defect \in syncDefects /\ x.offset \in Int

TransportInit ==
    /\ clock = 0 /\ authMode \in AuthModes /\ sent = {}
    /\ handling = [h \in Handler |-> << >>]
    /\ nonceCache = << >> /\ evicted = {} /\ served = << >>

\* signSyncRequest by a client whose clock is off; every attempt of a retry
\* draws a new nonce
signSyncRequest ==
    /\ \E n \in Nonce \ {r.nonce : r \in sent}, x \in Shape :
         sent' = sent \cup {[nonce |-> n, timestamp |-> clock + x.offset,
                            frontier |-> x.frontier, defect |-> x.defect]}
    /\ UNCHANGED <<clock, authMode, handling, nonceCache, evicted, served>>

passTime ==
    /\ clock < MaxTime /\ clock' = clock + 1
    /\ UNCHANGED <<authMode, sent, handling, nonceCache, evicted, served>>

----------------------------------------------------------------------------
(* HttpSyncServer.                                                         *)

\* the checks before authorization: checkContentType, validateRoute,
\* checkBodySize, parseBody
requestErrors == {"content-type", "route", "method", "size", "json"}

_validateHeaders(r) == r.defect # "header"

_validateFreshness(r) == clock - r.timestamp \in -maxClockSkewMs..maxClockSkewMs

_resolveKey(r) == r.defect # "key"

_verifySignature(r) == r.defect # "signature"

\* verifyWriters: everyone the frontier names
verifyWriters(W) == W \subseteq allowedWriters

\* a mutant: the nonce is not looked up
nonceIsNewAlways(n) == TRUE

\* _reserveNonce has not seen the nonce
nonceIsNew(n) == \A i \in 1..Len(nonceCache) : nonceCache[i] # n

\* delete of the Map behind the LRU cache
lruDelete(s, n) ==
    IF \E i \in 1..Len(s) : s[i] = n
    THEN LET i == CHOOSE j \in 1..Len(s) : s[j] = n
         IN  SubSeq(s, 1, i - 1) \o SubSeq(s, i + 1, Len(s))
    ELSE s

\* set of the LRU cache: the key moves to the end, and past the capacity the
\* oldest one is dropped
reserve(n) ==
    LET all == Append(lruDelete(nonceCache, n), n)
        full == Len(all) > nonceCapacity
    IN  /\ nonceCache' = IF full THEN Tail(all) ELSE all
        /\ evicted' = IF full THEN evicted \cup {Head(all)} ELSE evicted

\* enforceWriters, then processSyncRequest: a failure is only noted in the
\* mode "log-only"
answer(r, authOk) ==
    LET ok == authMode = "none" \/ authMode = "log-only" \/ (authOk /\ verifyWriters(r.frontier))
    IN  served' = IF ok THEN Append(served, [request |-> r, auth |-> authOk, at |-> clock])
                  ELSE served

\* _handleRequest up to the first await: a request that fails here has its
\* answer; without auth, or past a noted failure, it is served
_handleRequest(h, r) ==
    /\ handling[h] = << >> /\ r \in sent /\ Len(served) < 2 * Cardinality(Nonce)
    /\ LET early == _validateHeaders(r) /\ _validateFreshness(r) /\ _resolveKey(r)
       IN  \/ r.defect \in requestErrors /\ UNCHANGED <<handling, served>>
           \/ /\ r.defect \notin requestErrors /\ authMode # "none" /\ early
              /\ handling' = [handling EXCEPT ![h] = <<r>>]
              /\ UNCHANGED served
           \/ /\ r.defect \notin requestErrors /\ (authMode = "none" \/ ~early)
              /\ answer(r, FALSE)
              /\ UNCHANGED handling
    /\ UNCHANGED <<clock, authMode, sent, nonceCache, evicted>>

\* the signature is known to be good or bad; a nonce is reserved only then
verify(h) ==
    /\ handling[h] # << >>
    /\ LET r == handling[h][1]
           ok == _verifySignature(r) /\ nonceIsNew(r.nonce)
       IN  /\ IF ok THEN reserve(r.nonce) ELSE UNCHANGED <<nonceCache, evicted>>
           /\ answer(r, ok)
    /\ handling' = [handling EXCEPT ![h] = << >>]
    /\ UNCHANGED <<clock, authMode, sent>>

TransportNext ==
    \/ signSyncRequest \/ passTime
    \/ \E h \in Handler : verify(h) \/ \E r \in sent : _handleRequest(h, r)

----------------------------------------------------------------------------
(* Properties.                                                             *)

\* A server that enforces authentication answers a request only once, however
\* often it arrives and however the checks of its copies interleave, unless
\* its nonce was dropped from the cache meanwhile; and only with a good key
\* and signature and a frontier of admitted writers (SyncAuthService.verify,
\* HttpSyncServer._authorize)
ServedRequestsWereAdmitted ==
    authMode = "enforce" =>
      \A i \in 1..Len(served) :
        LET r == served[i].request
        IN  /\ r.defect = "none" /\ r.frontier \subseteq allowedWriters
            /\ \A j \in 1..Len(served) :
                 served[j].request.nonce = r.nonce /\ i # j => r.nonce \in evicted
=============================================================================
