---------------------------- MODULE TrustLedger ----------------------------
(***************************************************************************)
(* The trust records of a graph: a chain of signed records behind one ref, *)
(* appended to by compare-and-swap (TrustRecordService), folded to a state *)
(* of keys and bindings (TrustStateBuilder) by which writers are judged    *)
(* (TrustEvaluator, AuditVerifierService.evaluateTrust).                   *)
(*                                                                         *)
(* A commit stands for its history, so the ref holds a sequence of         *)
(* records.  A hash is the thing hashed; a signature is the signing key    *)
(* with what it signed.  Admins append concurrently; a compare-and-swap    *)
(* may fail for no reason, or succeed and have its answer lost.            *)
(***************************************************************************)
EXTENDS Naturals, Sequences, FiniteSets

CONSTANTS
    Admin,              \* processes that append records
    SigningKey,         \* the keys, each held by every admin
    Subject,            \* the writers that keys are bound to
    None,
    MAX_CAS_ATTEMPTS,   \* tries of one compare-and-swap
    maxRetries,         \* rebuilds of a record after a conflict
    MaxRecords,         \* bound on the chain
    MaxAppends,         \* bound on the appends of one admin
    AdminFaults         \* bound on failed or lost answers

VARIABLES
    trustRef,   \* the chain of records
    append,     \* append[a]: the append that a has under way, or None
    appends,    \* the appends begun by each admin
    acked,      \* the record ids that an append has returned for
    faults,
    rebased     \* a record was appended elsewhere than where it was composed

trustVars == <<trustRef, append, appends, acked, faults, rebased>>

----------------------------------------------------------------------------
(* Records.                                                                *)

recordTypes == {"KEY_ADD", "KEY_REVOKE", "WRITER_BIND_ADD", "WRITER_BIND_REVOKE"}

\* unsignedRecordForId: everything but the id and the signature
computeRecordId(r) == <<r.recordType, r.keyId, r.writerId, r.issuerKeyId, r.prev>>

verifyRecordId(r) == r.recordId = computeRecordId(r)

computeSignaturePayload(r) == <<r.recordId, r.prev>>

\* what the caller of an append does: the id, then the signature over it
sign(r) ==
    LET s == [r EXCEPT !.recordId = computeRecordId(r)]
    IN  [s EXCEPT !.signature = <<r.issuerKeyId, computeSignaturePayload(s)>>]

\* the per-type subjects: a key record names no writer
TrustRecordSchema(r) ==
    /\ r.recordType \in recordTypes /\ r.keyId \in SigningKey /\ r.issuerKeyId \in SigningKey
    /\ IF r.recordType \in {"KEY_ADD", "KEY_REVOKE"} THEN r.writerId = None
       ELSE r.writerId \in Subject

_verifySignatureEnvelope(r) == r.signature # None

\* verifyChain: the indices with an error
verifyChain(records) ==
    {i \in 1..Len(records) :
       \/ ~TrustRecordSchema(records[i]) \/ ~verifyRecordId(records[i])
       \/ \E j \in 1..(i - 1) : records[j].recordId = records[i].recordId
       \/ records[i].prev # (IF i = 1 THEN None ELSE records[i - 1].recordId)}

----------------------------------------------------------------------------
(* buildState: a record that is refused leaves an error and nothing else.  *)

createTrustState == [active |-> {}, revoked |-> {}, bound |-> {}, unbound |-> {}, errors |-> 0]

refuse(st) == [st EXCEPT !.errors = @ + 1]

\* the signature must be by the issuer, whose key must be active, or be the
\* key that the record adds
validateRecordCryptography(r, st) ==
    /\ (r.recordType = "KEY_ADD" /\ r.issuerKeyId = r.keyId) \/ r.issuerKeyId \in st.active
    /\ r.signature = <<r.issuerKeyId, computeSignaturePayload(r)>>

handleKeyAdd(r, st) ==
    IF r.keyId \in st.revoked \/ r.keyId \in st.active THEN refuse(st)
    ELSE [st EXCEPT !.active = @ \cup {r.keyId}]

handleKeyRevoke(r, st) ==
    IF r.keyId \in st.revoked \/ r.keyId \notin st.active THEN refuse(st)
    ELSE [st EXCEPT !.active = @ \ {r.keyId}, !.revoked = @ \cup {r.keyId}]

handleBindAdd(r, st) ==
    IF r.keyId \in st.revoked \/ r.keyId \notin st.active THEN refuse(st)
    ELSE [st EXCEPT !.bound = @ \cup {<<r.writerId, r.keyId>>}]

handleBindRevoke(r, st) ==
    IF <<r.writerId, r.keyId>> \notin st.bound THEN refuse(st)
    ELSE [st EXCEPT !.bound = @ \ {<<r.writerId, r.keyId>>},
                    !.unbound = @ \cup {<<r.writerId, r.keyId>>}]

processRecord(st, r) ==
    IF ~validateRecordCryptography(r, st) THEN refuse(st)
    ELSE CASE r.recordType = "KEY_ADD" -> handleKeyAdd(r, st)
           [] r.recordType = "KEY_REVOKE" -> handleKeyRevoke(r, st)
           [] r.recordType = "WRITER_BIND_ADD" -> handleBindAdd(r, st)
           [] r.recordType = "WRITER_BIND_REVOKE" -> handleBindRevoke(r, st)

buildState(records) ==
    LET st[i \in 0..Len(records)] ==
          IF i = 0 THEN createTrustState ELSE processRecord(st[i - 1], records[i])
    IN  st[Len(records)]

----------------------------------------------------------------------------
(* Judging writers.                                                        *)

evaluateSingleWriter(w, st) ==
    LET keys == {b[2] : b \in {c \in st.bound : c[1] = w}}
    IN  IF keys = {} THEN IF \E b \in st.unbound : b[1] = w THEN "BINDING_REVOKED"
                          ELSE "WRITER_HAS_NO_ACTIVE_BINDING"
        ELSE IF keys \cap st.active # {} THEN "WRITER_BOUND_TO_ACTIVE_KEY"
        ELSE "WRITER_BOUND_KEY_REVOKED"

\* one refused record, and nobody is trusted
evaluateWriters(st) ==
    [w \in Subject |-> IF st.errors > 0 THEN "TRUST_RECORD_CHAIN_INVALID"
                       ELSE evaluateSingleWriter(w, st)]

deriveTrustVerdict(status, reasons) ==
    IF status = "not_configured" THEN "not_configured"
    ELSE IF status = "error" \/ \E w \in Subject : reasons[w] # "WRITER_BOUND_TO_ACTIVE_KEY"
         THEN "fail" ELSE "pass"

evaluateTrust(records) ==
    LET reasons == IF verifyChain(records) # {}
                   THEN [w \in Subject |-> "TRUST_RECORD_CHAIN_INVALID"]
                   ELSE evaluateWriters(buildState(records))
        status == IF records = << >> THEN "not_configured"
                  ELSE IF \E w \in Subject : reasons[w] = "TRUST_RECORD_CHAIN_INVALID"
                  THEN "error" ELSE "configured"
    IN  [reasons |-> reasons, trustVerdict |-> deriveTrustVerdict(status, reasons)]

----------------------------------------------------------------------------
(* Appending.                                                              *)

TrustInit ==
    /\ trustRef = << >> /\ append = [a \in Admin |-> None] /\ appends = [a \in Admin |-> 0]
    /\ acked = {} /\ faults = 0 /\ rebased = FALSE

tipId(records) == IF records = << >> THEN None ELSE records[Len(records)].recordId

\* An admin looks at the chain, decides on a record that is valid there and
\* calls appendRecord, or appendRecordWithRetry with or without a signer.
compose(a) ==
    /\ append[a] = None /\ appends[a] < MaxAppends /\ Len(trustRef) < MaxRecords
    /\ \E t \in recordTypes, k \in SigningKey, i \in SigningKey, w \in Subject \cup {None},
          retries \in {0, maxRetries}, resign \in BOOLEAN :
         LET r == sign([recordType |-> t, keyId |-> k, writerId |-> w, issuerKeyId |-> i,
                        prev |-> tipId(trustRef), recordId |-> None, signature |-> None])
         IN  /\ TrustRecordSchema(r)
             /\ processRecord(buildState(trustRef), r).errors = buildState(trustRef).errors
             /\ retries = 0 => ~resign
             /\ append' = [append EXCEPT ![a] =
                  [pc |-> "readTip", record |-> r, parent |-> << >>, attempt |-> 1,
                   retries |-> retries, resign |-> resign, moved |-> FALSE]]
    /\ appends' = [appends EXCEPT ![a] = @ + 1]
    /\ UNCHANGED <<trustRef, acked, faults, rebased>>

done(a) == append' = [append EXCEPT ![a] = None]

\* the checks of appendRecord, the last of them against the tip
accepts(r, tip) ==
    /\ TrustRecordSchema(r) /\ verifyRecordId(r) /\ _verifySignatureEnvelope(r)
    /\ r.prev = tipId(tip)

\* appendRecord: a refusal is thrown, whatever the retries
appendRecord(a) ==
    /\ append[a] # None /\ append[a].pc = "readTip"
    /\ \/ /\ accepts(append[a].record, trustRef)
          /\ append' = [append EXCEPT ![a].pc = "swap", ![a].parent = trustRef, ![a].attempt = 1]
       \/ ~accepts(append[a].record, trustRef) /\ done(a)
    /\ UNCHANGED <<trustRef, appends, acked, faults, rebased>>

\* a mutant: the ref is moved whatever it holds
swapsAlways(parent) == TRUE

\* compareAndSwapRef succeeds only on the ref it expects
swaps(parent) == trustRef = parent

landRecord(a) ==
    /\ trustRef' = Append(append[a].parent, append[a].record)
    /\ rebased' = (rebased \/ append[a].moved)

\* _persistRecord: the swap is done and answered, done without an answer, or
\* not done
swap(a) ==
    /\ append[a] # None /\ append[a].pc = "swap"
    /\ \/ /\ swaps(append[a].parent) /\ landRecord(a) /\ done(a)
          /\ acked' = acked \cup {append[a].record.recordId}
          /\ UNCHANGED faults
       \/ /\ swaps(append[a].parent) /\ landRecord(a) /\ faults < AdminFaults
          /\ faults' = faults + 1
          /\ append' = [append EXCEPT ![a].pc = "check"]
          /\ UNCHANGED acked
       \/ /\ swaps(append[a].parent) => faults < AdminFaults
          /\ faults' = IF swaps(append[a].parent) THEN faults + 1 ELSE faults
          /\ append' = [append EXCEPT ![a].pc = "check"]
          /\ UNCHANGED <<trustRef, acked, rebased>>
    /\ UNCHANGED appends

\* the caller of a retry: prev is set to the tip; the id and the signature
\* are made again only with a signer
rebuild(r, tip, resign) ==
    LET s == [r EXCEPT !.prev = tipId(tip)] IN IF resign THEN sign(s) ELSE s

\* After a failed swap the ref is read again: unchanged, the same commit is
\* tried again; changed, it is a conflict, for the caller to retry or throw.
check(a) ==
    /\ append[a] # None /\ append[a].pc = "check"
    /\ LET p == append[a]
       IN  \/ /\ trustRef = p.parent /\ p.attempt < MAX_CAS_ATTEMPTS
              /\ append' = [append EXCEPT ![a].pc = "swap", ![a].attempt = @ + 1]
           \/ /\ \/ trustRef = p.parent /\ p.attempt = MAX_CAS_ATTEMPTS
                 \/ trustRef # p.parent /\ p.retries = 0
              /\ done(a)
           \/ /\ trustRef # p.parent /\ p.retries > 0
              /\ append' = [append EXCEPT ![a] =
                   [p EXCEPT !.pc = "readTip", !.retries = @ - 1, !.moved = TRUE,
                             !.record = rebuild(@, trustRef, p.resign)]]
    /\ UNCHANGED <<trustRef, appends, acked, faults, rebased>>

TrustNext == \E a \in Admin : compose(a) \/ appendRecord(a) \/ swap(a) \/ check(a)

----------------------------------------------------------------------------
(* Properties.                                                             *)

\* whatever appends race, fail and are retried, the chain behind the ref
\* passes verifyChain and holds every record that an append has answered for
\* (TrustRecordService)
trustChainVerifies ==
    /\ verifyChain(trustRef) = {}
    /\ acked \subseteq {trustRef[i].recordId : i \in 1..Len(trustRef)}

\* a writer is trusted only by a key that was added and never revoked, bound
\* to it by a record that no later record takes back; and a chain whose
\* records were all composed where they stand has no refused record
\* (TrustStateBuilder, TrustEvaluator, the prev-link check of appendRecord)
trustMatchesEvidence ==
    LET is(i, t, k) == trustRef[i].recordType = t /\ trustRef[i].keyId = k
        N == 1..Len(trustRef)
    IN  /\ \A w \in Subject :
             evaluateTrust(trustRef).reasons[w] = "WRITER_BOUND_TO_ACTIVE_KEY" =>
               \E k \in SigningKey, i, j \in N :
                 /\ i < j /\ is(i, "KEY_ADD", k)
                 /\ is(j, "WRITER_BIND_ADD", k) /\ trustRef[j].writerId = w
                 /\ \A n \in N : ~is(n, "KEY_REVOKE", k)
                 /\ \A n \in (j + 1)..Len(trustRef) :
                      ~(is(n, "WRITER_BIND_REVOKE", k) /\ trustRef[n].writerId = w)
        /\ ~rebased => buildState(trustRef).errors = 0

\* The chain behind the trust ref verifies and loses no acknowledged record,
\* and the verdicts about writers follow from the records on it
\* (TrustRecordService.appendRecord, verifyChain; TrustStateBuilder;
\* TrustEvaluator)
TrustFollowsItsChain == trustChainVerifies /\ trustMatchesEvidence
=============================================================================
