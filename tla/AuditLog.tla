------------------------------ MODULE AuditLog ------------------------------
(***************************************************************************)
(* The audit receipts of one writer: a chain of commits behind the audit   *)
(* ref, one receipt for each data commit, written by AuditReceiptService   *)
(* after the data commit has succeeded and checked by                      *)
(* AuditVerifierService.                                                   *)
(*                                                                         *)
(* A commit is the sequence of the receipts on its line of Git parents,    *)
(* its own last, so it stands for its own hash; the empty one is the       *)
(* missing ref and the zero hash.  A receipt is [tick, prevAuditCommit].   *)
(* The processes of the writer each have a service.  Writes may fail, and  *)
(* a process may restart.  The verifier also judges the trust records of   *)
(* module TrustLedger (evaluateTrust).                                     *)
(***************************************************************************)
EXTENDS TrustLedger, Integers

CONSTANTS
    Service,       \* the processes of the writer
    MaxTicks,      \* bound on the data commits
    FirstTicks,    \* the lamports that the first data commit may have
    AuditFaults,   \* bound on failed writes and failed reads
    Slot,          \* the receipts a process may be writing: <<process, number>>
    Interleave     \* commit() may be called while an earlier one is pending

ASSUME AuditAssumption ==
    /\ FirstTicks \subseteq Int /\ Interleave \in BOOLEAN
    /\ \A s \in Slot : s[1] \in Service

VARIABLES
    auditRef,   \* the tip of the audit chain
    svc,        \* svc[p]: the fields of the service of process p
    receipt,    \* receipt[s]: the receipt being written in slot s, or None
    tick,       \* the lamport of the last data commit
    audited,    \* data commits by how their receipt ended
    mishaps,
    overlap     \* two receipts have been under way at once

noCommit == << >>

auditVars == <<auditRef, svc, receipt, tick, audited, mishaps, overlap>>

\* the constructor, then init(): the tip is read, or taken to be missing
newService(tip) ==
    [prevAuditCommit |-> tip, expectedOldRef |-> tip, degraded |-> FALSE, retrying |-> FALSE]

AuditInit ==
    /\ auditRef = noCommit /\ svc = [p \in Service |-> newService(noCommit)]
    /\ receipt = [s \in Slot |-> None]
    /\ tick \in {t - 1 : t \in FirstTicks}
    /\ audited = [committed |-> {}, skipped |-> {}, failed |-> {}, refused |-> {}]
    /\ mishaps = 0 /\ overlap = FALSE

idle(s) == receipt[s] = None

----------------------------------------------------------------------------
(* AuditReceiptService.                                                    *)

\* commit(): the tick receipt of a data commit of this process.  A degraded
\* service skips it.
commitReceipt(s) ==
    /\ tick < MaxTicks /\ idle(s)
    /\ Interleave \/ \A r \in Slot : r[1] = s[1] => idle(r)
    /\ tick' = tick + 1
    /\ overlap' = (overlap \/ \E r \in Slot : ~idle(r))
    /\ \/ /\ svc[s[1]].degraded
          /\ audited' = [audited EXCEPT !.skipped = @ \cup {tick + 1}]
          /\ UNCHANGED receipt
       \/ /\ ~svc[s[1]].degraded
          /\ receipt' = [receipt EXCEPT ![s] =
               [pc |-> "build", tick |-> tick + 1, prevAuditCommit |-> noCommit,
                parents |-> noCommit, retry |-> FALSE]]
          /\ UNCHANGED audited
    /\ UNCHANGED <<auditRef, svc, mishaps>>

\* an error leaves _commitInner: in a retry it degrades the service, else it
\* is only counted
throw(s, why) ==
    /\ svc' = IF receipt[s].retry
              THEN [svc EXCEPT ![s[1]].degraded = TRUE, ![s[1]].retrying = FALSE] ELSE svc
    /\ audited' = [audited EXCEPT ![why] = @ \cup {receipt[s].tick}]
    /\ receipt' = [receipt EXCEPT ![s] = None]

\* buildReceiptRecord: only the first tick may follow the zero hash
canBuild(prev, t) == prev = noCommit => t = 1

\* the receipt is built from the cached tip
buildReceiptRecord(s) ==
    /\ ~idle(s) /\ receipt[s].pc = "build"
    /\ \/ /\ canBuild(svc[s[1]].prevAuditCommit, receipt[s].tick)
          /\ receipt' = [receipt EXCEPT ![s].pc = "write",
                                        ![s].prevAuditCommit = svc[s[1]].prevAuditCommit]
          /\ UNCHANGED <<svc, audited>>
       \/ /\ ~canBuild(svc[s[1]].prevAuditCommit, receipt[s].tick)
          /\ throw(s, IF receipt[s].retry THEN "failed" ELSE "refused")
    /\ UNCHANGED <<auditRef, tick, mishaps, overlap>>

\* blob, tree and commit; the parent is the cached tip of now
writeReceipt(s) ==
    /\ ~idle(s) /\ receipt[s].pc = "write"
    /\ \/ /\ receipt' = [receipt EXCEPT ![s].pc = "swap",
                                        ![s].parents = svc[s[1]].prevAuditCommit]
          /\ UNCHANGED <<svc, audited, mishaps>>
       \/ /\ mishaps < AuditFaults /\ mishaps' = mishaps + 1
          /\ throw(s, "failed")
    /\ UNCHANGED <<auditRef, tick, overlap>>

commitOf(r) == Append(r.parents, [tick |-> r.tick, prevAuditCommit |-> r.prevAuditCommit])

\* a mutant: the refused commit is swapped in over the fresh tip
refreshTipOnly(s) ==
    /\ svc' = [svc EXCEPT ![s[1]].expectedOldRef = auditRef, ![s[1]].retrying = TRUE]
    /\ receipt' = [receipt EXCEPT ![s].pc = "swap", ![s].retry = TRUE]

\* _retryAfterCasConflict: the tip is read again and the receipt built anew
refreshTip(s) ==
    /\ svc' = [svc EXCEPT ![s[1]].prevAuditCommit = auditRef,
                          ![s[1]].expectedOldRef = auditRef, ![s[1]].retrying = TRUE]
    /\ receipt' = [receipt EXCEPT ![s].pc = "build", ![s].retry = TRUE]

\* compareAndSwapRef against the cached ref; the first failure is retried
swapAuditRef(s) ==
    /\ ~idle(s) /\ receipt[s].pc = "swap"
    /\ \/ /\ auditRef = svc[s[1]].expectedOldRef
          /\ auditRef' = commitOf(receipt[s])
          /\ svc' = [svc EXCEPT ![s[1]].prevAuditCommit = auditRef', ![s[1]].expectedOldRef = auditRef',
                                ![s[1]].retrying = @ /\ ~receipt[s].retry]
          /\ audited' = [audited EXCEPT !.committed = @ \cup {receipt[s].tick}]
          /\ receipt' = [receipt EXCEPT ![s] = None]
          /\ UNCHANGED mishaps
       \/ /\ IF auditRef = svc[s[1]].expectedOldRef
             THEN mishaps < AuditFaults /\ mishaps' = mishaps + 1
             ELSE UNCHANGED mishaps
          /\ \/ svc[s[1]].retrying /\ throw(s, "failed")
             \/ ~svc[s[1]].retrying /\ refreshTip(s) /\ UNCHANGED audited
          /\ UNCHANGED auditRef
    /\ UNCHANGED <<tick, overlap>>

\* the process restarts; a read of the tip that fails counts as no chain
restartService(p) ==
    /\ mishaps < AuditFaults /\ mishaps' = mishaps + 1
    /\ \E tip \in {auditRef, noCommit} : svc' = [svc EXCEPT ![p] = newService(tip)]
    /\ receipt' = [s \in Slot |-> IF s[1] = p THEN None ELSE receipt[s]]
    /\ UNCHANGED <<auditRef, tick, audited, overlap>>

AuditNext ==
    \/ \E s \in Slot : \/ commitReceipt(s) \/ buildReceiptRecord(s)
                       \/ writeReceipt(s) \/ swapAuditRef(s)
    \/ \E p \in Service : restartService(p)

AuditSpec == AuditInit /\ [][AuditNext]_auditVars

----------------------------------------------------------------------------
(* AuditVerifierService: the walk from the tip c, and what it finds.       *)

\* the commit that ends with the i-th receipt of c
upToReceipt(c, i) == SubSeq(c, 1, i)

\* _validateChainLink: walking back, ticks descend
_validateChainLink(c, i) == i < Len(c) => c[i].tick < c[i + 1].tick

\* the walk goes on to the commit before if receipt and Git parent name it
goesOn(c, i, since) ==
    /\ _validateChainLink(c, i) /\ upToReceipt(c, i) # since
    /\ c[i].prevAuditCommit # noCommit /\ c[i].prevAuditCommit = upToReceipt(c, i - 1)

\* the error with which the walk ends at the i-th receipt
endOfWalk(c, i, since) ==
    IF ~_validateChainLink(c, i) THEN {"TICK_MONOTONICITY"}
    ELSE IF upToReceipt(c, i) = since THEN {}
    ELSE IF c[i].prevAuditCommit = noCommit
    THEN IF i # 1 THEN {"GENESIS_HAS_PARENTS"} ELSE IF since # noCommit THEN {"SINCE_NOT_FOUND"} ELSE {}
    ELSE IF i = 1 THEN {"CONTINUATION_NO_PARENT"} ELSE {"GIT_PARENT_MISMATCH"}

_walkChain(c, since) ==
    UNION {endOfWalk(c, i, since) : i \in {k \in 1..Len(c) : /\ ~goesOn(c, k, since)
                                                           /\ \A j \in k + 1..Len(c) : goesOn(c, j, since)}}

verifyAuditChain(tip, since) == IF tip = noCommit THEN {} ELSE _walkChain(tip, since)

receiptsOf(c) == {c[i].tick : i \in 1..Len(c)}

----------------------------------------------------------------------------
(* Properties.                                                             *)

\* The verifier finds nothing wrong with the chain, except receipts in another
\* order than their ticks once two processes wrote at the same time; and every
\* receipt that was committed stays on the chain (AuditReceiptService,
\* AuditVerifierService)
AuditChainVerifies ==
    /\ verifyAuditChain(auditRef, noCommit) \subseteq
         (IF overlap THEN {"TICK_MONOTONICITY"} ELSE {})
    /\ audited.committed = receiptsOf(auditRef)
=============================================================================
