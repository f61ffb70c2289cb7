----------------------------- MODULE Provenance -----------------------------
(***************************************************************************)
(* What the history of a graph is used for besides its state: the          *)
(* provenance index and the slices made from it, payloads of patches,      *)
(* wormholes that stand for a range of one writer's chain, and boundary    *)
(* transition records.  Writers commit meanwhile.                          *)
(*                                                                         *)
(* A patch is <<w, i>>, the i-th commit of writer w; states are sets of    *)
(* patches and payloads sequences of them.                                 *)
(***************************************************************************)
EXTENDS Integers, Sequences, FiniteSets
LOCAL INSTANCE SequencesExt

CONSTANTS
    HistWriter, Entity,
    PatchShape,    \* what a patch may read and write: [reads, writes]
    Key,           \* HMAC keys
    MaxHistory     \* bound on the patches

VARIABLES
    hist,      \* hist[w]: the patches of w: [lamport, reads, writes]
    prov,      \* the provenance index of an instance
    stored,    \* the one in the latest checkpoint, with its frontier; or << >>
    records    \* boundary transition records, with the key they were made with

provenanceVars == <<hist, prov, stored, records>>

committed == {<<w, i>> \in HistWriter \X (1..MaxHistory) : i <= Len(hist[w])}
at(p) == hist[p[1]][p[2]]

----------------------------------------------------------------------------
(* ProvenanceIndex: entity to patches.                                     *)

emptyProvenance == [e \in Entity |-> {}]

addPatch(ix, p, reads, writes) ==
    [e \in Entity |-> IF e \in reads \cup writes THEN ix[e] \cup {p} ELSE ix[e]]

patchesFor(ix, e) == ix[e]

addPatches(ix, P) ==
    [e \in Entity |-> ix[e] \cup {p \in P : e \in at(p).reads \cup at(p).writes}]

ProvenanceInit ==
    /\ hist = [w \in HistWriter |-> << >>] /\ prov = emptyProvenance
    /\ stored = << >> /\ records = {}

\* the patch is applied to the instance as well (_onPatchCommitted); records
\* hold all that they are verified with, so they come after the history
commitPatch(w) ==
    /\ Cardinality(committed) < MaxHistory /\ records = {}
    /\ \E shape \in PatchShape, t \in 1..MaxHistory :
         /\ \A i \in 1..Len(hist[w]) : hist[w][i].lamport < t
         /\ t <= 1 + Cardinality(committed)
         /\ hist' = [hist EXCEPT ![w] = Append(@, [lamport |-> t, reads |-> shape.reads, writes |-> shape.writes])]
         /\ prov' = addPatch(prov, <<w, Len(hist[w]) + 1>>, shape.reads, shape.writes)
    /\ UNCHANGED <<stored, records>>

checkpointProvenance ==
    /\ records = {}
    /\ stored' = <<[index |-> prov, frontier |-> [w \in HistWriter |-> Len(hist[w])]]>>
    /\ UNCHANGED <<hist, prov, records>>

\* a mutant: only the patches since the checkpoint
patchesSinceOnly(ck, P) == addPatches(emptyProvenance, P)

\* materialize from a checkpoint: its index, and the patches since
indexSince(ck, P) == addPatches(ck.index, P)

\* a restarted instance builds its index again
restartProvenance ==
    /\ prov' = IF stored = << >> THEN addPatches(emptyProvenance, committed)
               ELSE indexSince(stored[1], {p \in committed : p[2] > stored[1].frontier[p[1]]})
    /\ UNCHANGED <<hist, stored, records>>

----------------------------------------------------------------------------
(* Slices.                                                                 *)

\* the loop of _computeBackwardCone: queue of entities, visited ones, cone
RECURSIVE coneLoop(_, _, _)
coneLoop(queue, visited, cone) ==
    IF queue = << >> THEN cone
    ELSE LET e == Head(queue)
             new == patchesFor(prov, e) \ cone
             reads == UNION {at(p).reads : p \in new} \ (visited \cup {e})
         IN  IF e \in visited THEN coneLoop(Tail(queue), visited, cone)
             ELSE coneLoop(Tail(queue) \o SetToSeq(reads), visited \cup {e}, cone \cup new)

_computeBackwardCone(e) == coneLoop(<<e>>, {}, {})

(* ProvenancePayload: a sequence of patches with their replay.              *)

concat(a, b) == IF a = << >> THEN b ELSE IF b = << >> THEN a ELSE a \o b
replay(payload, state) == state \cup Range(payload)

\* by lamport; ties are settled by writer and sha
_sortPatchesCausally(P) ==
    SetToSortSeq(P, LAMBDA p, q : at(p).lamport < at(q).lamport)

\* the payload that a slice is replayed from
materializeSlice(e) == _sortPatchesCausally(_computeBackwardCone(e))

----------------------------------------------------------------------------
(* Wormholes.                                                              *)

\* collectPatchRange walks from the newer end to the older: an error unless
\* the older one is reached before the chain ends
RECURSIVE collectPatchRange(_, _)
collectPatchRange(from, p) ==
    IF p = from THEN <<p>>
    ELSE IF p[2] = 1 THEN << >>
    ELSE LET rest == collectPatchRange(from, <<p[1], p[2] - 1>>)
         IN  IF rest = << >> THEN << >> ELSE <<p>> \o rest

\* createWormhole: oldest first; << >> for a range error
createWormhole(from, to) ==
    LET found == collectPatchRange(from, to)
    IN  IF found = << >> THEN << >>
        ELSE <<[fromSha |-> from, toSha |-> to, writerId |-> to[1], payload |-> Reverse(found),
                patchCount |-> Len(found)]>>

\* composeWormholes with persistence: consecutive, of one writer
composeWormholes(a, b) ==
    IF a.writerId # b.writerId \/ b.fromSha[2] = 1 \/ a.toSha # <<b.fromSha[1], b.fromSha[2] - 1>>
    THEN << >>
    ELSE <<[fromSha |-> a.fromSha, toSha |-> b.toSha, writerId |-> a.writerId,
            payload |-> concat(a.payload, b.payload), patchCount |-> a.patchCount + b.patchCount]>>

replayWormhole(w, state) == replay(w.payload, state)

----------------------------------------------------------------------------
(* Boundary transition records.  The hash of a state stands for the state, *)
(* and a tag for the key and the fields it was computed over.              *)

btrFields == {"h_in", "h_out", "U_0", "P", "t"}

computeHmac(r, key) == [key |-> key, over |-> [f \in btrFields |-> r[f]]]

createBTR(initial, payload, key, t) ==
    LET r == [h_in |-> initial, h_out |-> replay(payload, initial), U_0 |-> initial,
              P |-> payload, t |-> t]
    IN  [h_in |-> r.h_in, h_out |-> r.h_out, U_0 |-> r.U_0, P |-> r.P, t |-> r.t,
         kappa |-> computeHmac(r, key)]

replayBTR(r) == replay(r.P, r.U_0)

\* a mutant: the payload is not covered
verifyHmacWithoutP(r, key) ==
    r.kappa.key = key /\ \A f \in btrFields \ {"P"} : r.kappa.over[f] = r[f]

verifyHmac(r, key) == r.kappa = computeHmac(r, key)

verifyBTR(r, key, verifyReplay) ==
    verifyHmac(r, key) /\ (verifyReplay => replayBTR(r) = r.h_out)

\* a record of a writer's chain after the state of the others
recordBTR ==
    /\ records = {}
    /\ \E w \in HistWriter, key \in Key :
         /\ Len(hist[w]) > 0
         /\ records' = {createBTR({p \in committed : p[1] # w},
                                  createWormhole(<<w, 1>>, <<w, Len(hist[w])>>)[1].payload, key, 0)}
    /\ UNCHANGED <<hist, prov, stored>>

\* one field of a stored record is not what it was
alterBTR ==
    /\ Cardinality(records) = 1
    /\ \E r \in records :
         \E x \in {[r EXCEPT !.P = Tail(@)], [r EXCEPT !.U_0 = {}], [r EXCEPT !.h_out = {}],
                   [r EXCEPT !.t = 1], [r EXCEPT !.h_in = committed]} :
           records' = {r, x}
    /\ UNCHANGED <<hist, prov, stored>>

----------------------------------------------------------------------------
ProvenanceNext ==
    \/ \E w \in HistWriter : commitPatch(w)
    \/ checkpointProvenance \/ restartProvenance
    \/ recordBTR \/ alterBTR

----------------------------------------------------------------------------
(* Properties.                                                             *)

inChainOrder(payload) ==
    \A i, j \in 1..Len(payload) :
      payload[i][1] = payload[j][1] /\ payload[i][2] < payload[j][2] => i < j

\* The index of an instance that committed, restarted from a checkpoint or
\* started anew lists every patch under everything it reads or writes; a
\* slice is the least set of patches that has those of its entity and, with
\* a patch, those of everything the patch reads, replayed in the order of
\* the chains (ProvenanceIndex, _computeBackwardCone, _sortPatchesCausally)
SlicesAreCausallyClosed ==
    /\ prov = addPatches(emptyProvenance, committed)
    /\ \A e \in Entity :
         LET cone == _computeBackwardCone(e)
             closed(P) == /\ {p \in committed : e \in at(p).reads \cup at(p).writes} \subseteq P
                          /\ \A p \in P, q \in committed :
                               at(p).reads \cap (at(q).reads \cup at(q).writes) # {} => q \in P
         IN  /\ closed(cone) /\ \A P \in SUBSET cone : closed(P) => P = cone
             /\ inChainOrder(materializeSlice(e)) /\ replay(materializeSlice(e), {}) = cone

\* Wormholes of consecutive ranges compose to the one of the whole range,
\* others do not compose; replayed, a wormhole adds its range.  A record that
\* verifies replays to its h_out, and was not altered (createWormhole,
\* composeWormholes, verifyBTR)
wormholesCompose ==
    \A a, b \in committed :
      LET x == createWormhole(a, b)
      IN  /\ (x # << >>) = (a[1] = b[1] /\ a[2] <= b[2])
          /\ x # << >> => /\ replayWormhole(x[1], {}) = {p \in committed : p[1] = a[1] /\ p[2] \in a[2]..b[2]}
                         /\ \A c, d \in committed : c[1] = d[1] /\ c[2] <= d[2] =>
                              composeWormholes(x[1], createWormhole(c, d)[1]) =
                                IF b[1] = c[1] /\ c[2] = b[2] + 1 THEN createWormhole(a, d) ELSE << >>

RecordsReplay ==
    /\ wormholesCompose
    /\ \A r \in records, key \in Key, v \in BOOLEAN :
         verifyBTR(r, key, v) => /\ replayBTR(r) = r.h_out /\ r.h_in = r.U_0
                                 /\ \A q \in records : verifyBTR(q, key, v) => q = r
=============================================================================
