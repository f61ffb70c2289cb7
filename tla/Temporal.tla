------------------------------ MODULE Temporal ------------------------------
(***************************************************************************)
(* graph.temporal: always() and eventually() replay the history of one     *)
(* node from a lamport tick on, starting from the latest checkpoint if     *)
(* that is early enough.  A query reads the chains, then the checkpoint;   *)
(* writers commit, and patches of others arrive, in between.               *)
(*                                                                         *)
(* A patch is <<w, i>>, the i-th of writer w; a state is the set of the    *)
(* patches applied, from which the node, its property and the observed     *)
(* frontier follow (JoinReducer).                                          *)
(***************************************************************************)
EXTENDS Integers, Sequences, FiniteSets

CONSTANTS
    TickWriter,    \* numbers, in the order of the writer ids
    Status,        \* the values of the property that predicates look at
    Wanted,        \* the values that predicates ask for
    FillerAdds,    \* how many other nodes a patch may add
    Sinces,        \* the values of options.since
    MaxTickPatches \* bound on the patches

ASSUME TemporalAssumption ==
    /\ Wanted \subseteq Status /\ FillerAdds \subseteq Nat /\ Sinces \subseteq Nat
    /\ TickWriter \subseteq Nat /\ IsFiniteSet(TickWriter)

VARIABLES
    tickChain, \* tickChain[w]: the chain of w
    latest,    \* the latest checkpoint's state: << >> or <<patches>>
    asked      \* the query that runs: << >> or a record

temporalVars == <<tickChain, latest, asked>>

greatest(S) == CHOOSE x \in S \cup {0} : \A y \in S \cup {0} : y <= x

patchOf(p) == tickChain[p[1]][p[2]]
upTo(lens) == UNION {{<<w, i>> : i \in 1..lens[w]} : w \in TickWriter}
everyPatch == upTo([w \in TickWriter |-> Len(tickChain[w])])

----------------------------------------------------------------------------
(* States.                                                                 *)

\* lamports and dot counters share the frontier: a patch's context counts
\* the adds of each writer, and its own lamport is folded in as a counter
observedFrontier(S) ==
    [w \in TickWriter |->
       greatest({patchOf(p).context[w] : p \in S}
                  \cup {patchOf(p).lamport : p \in {q \in S : q[1] = w}})]

_maxLamportFromState(S) == greatest({observedFrontier(S)[w] : w \in TickWriter})

\* (lamport, writer): lamports grow along a chain, so shas never decide
patchBefore(p, q) ==
    \/ patchOf(p).lamport < patchOf(q).lamport
    \/ patchOf(p).lamport = patchOf(q).lamport /\ p[1] < q[1]

exists(S) ==
    \E p \in S : /\ patchOf(p).op = "add"
                 /\ \A r \in S : p \notin patchOf(r).observed

writesStatus(S) == {p \in S : patchOf(p).op \in Status}

\* the snapshot's status, "unset" if it was never written
statusIn(S) ==
    IF writesStatus(S) = {} THEN "unset"
    ELSE patchOf(CHOOSE p \in writesStatus(S) :
                   \A q \in writesStatus(S) : p = q \/ patchBefore(q, p)).op

extractNodeSnapshot(S) == [exists |-> exists(S), status |-> IF exists(S) THEN statusIn(S) ELSE "unset"]

predicateHolds(snapshot, v) == snapshot.status = v

\* an answer is returned at once: what happens later is not in it
answered == asked # << >> /\ asked[1].done

----------------------------------------------------------------------------
(* Writers and checkpoints.                                                *)

TemporalInit ==
    /\ tickChain = [w \in TickWriter |-> << >>]
    /\ latest = << >> /\ asked = << >>

\* The author knows its own chain and part of the others'; its lamport is
\* above what it knows, and its dots continue its frontier.  That the patch
\* reaches this repository only now is when it is committed here.
commitTick(w) ==
    /\ Cardinality(everyPatch) < MaxTickPatches /\ ~answered
    /\ \E lens \in [TickWriter -> 0..MaxTickPatches], op \in {"add", "remove"} \cup Status,
          filler \in FillerAdds :
         /\ \A v \in TickWriter : lens[v] <= Len(tickChain[v])
         /\ lens[w] = Len(tickChain[w])
         /\ LET known == upTo(lens)
                seen == observedFrontier(known)
            IN  tickChain' = [tickChain EXCEPT ![w] = Append(@,
                  [lamport |-> 1 + greatest({patchOf(p).lamport : p \in known}),
                   context |-> [seen EXCEPT ![w] = @ + filler + (IF op = "add" THEN 1 ELSE 0)],
                   op |-> op,
                   observed |-> IF op = "remove"
                                THEN {p \in known : patchOf(p).op = "add"} ELSE {}])]
    /\ UNCHANGED <<latest, asked>>

\* createCheckpoint on a fresh materialization
checkpointTick ==
    /\ everyPatch # {} /\ latest # <<everyPatch>> /\ ~answered
    /\ latest' = <<everyPatch>> /\ UNCHANGED <<tickChain, asked>>

----------------------------------------------------------------------------
(* Queries.                                                                *)

\* the patches of S in the order of replay, as the prefixes after each one
\* from the first in the range on; base: the state replay starts from
replayed(base, S, since) ==
    {base \cup {q \in S : q = p \/ patchBefore(q, p)} : p \in {q \in S : patchOf(q).lamport >= since}}

\* a mutant: the patches up to since are skipped instead
resolveAfterSince(S, since, ck) ==
    IF since > 0 /\ ck # << >> /\ _maxLamportFromState(ck[1]) <= since
    THEN [state |-> ck[1], checkpointMaxLamport |-> _maxLamportFromState(ck[1]),
          rest |-> {p \in S : patchOf(p).lamport > since}]
    ELSE [state |-> {}, checkpointMaxLamport |-> -1, rest |-> S]

\* the state to start from, the patches still to apply, and the boundary
_resolveStart(S, since, ck) ==
    IF since > 0 /\ ck # << >> /\ _maxLamportFromState(ck[1]) <= since
    THEN [state |-> ck[1], checkpointMaxLamport |-> _maxLamportFromState(ck[1]),
          rest |-> {p \in S : patchOf(p).lamport > _maxLamportFromState(ck[1])}]
    ELSE [state |-> {}, checkpointMaxLamport |-> -1, rest |-> S]

\* the states whose snapshot is looked at, the checkpoint's own included if
\* it ends at since
evaluated(S, since, ck) ==
    LET start == _resolveStart(S, since, ck)
    IN  replayed(start.state, start.rest, since)
          \cup (IF start.checkpointMaxLamport = since THEN {start.state} ELSE {})

\* false as well if the node never existed in the range
always(S, since, ck, v) ==
    LET snapshots == {s \in {extractNodeSnapshot(T) : T \in evaluated(S, since, ck)} : s.exists}
    IN  snapshots # {} /\ \A s \in snapshots : predicateHolds(s, v)

eventually(S, since, ck, v) ==
    \E T \in evaluated(S, since, ck) :
      extractNodeSnapshot(T).exists /\ predicateHolds(extractNodeSnapshot(T), v)

\* _loadAllPatches
beginTemporal ==
    /\ asked = << >>
    /\ \E since \in Sinces, v \in Wanted, op \in {"always", "eventually"} :
         asked' = <<[patches |-> everyPatch, since |-> since, value |-> v, op |-> op,
                     done |-> FALSE, answer |-> FALSE, used |-> << >>]>>
    /\ UNCHANGED <<tickChain, latest>>

\* _loadCheckpoint and the replay
answerTemporal ==
    /\ asked # << >> /\ ~asked[1].done
    /\ LET a == asked[1]
       IN  asked' = <<[a EXCEPT !.done = TRUE, !.used = latest,
                         !.answer = IF a.op = "always" THEN always(a.patches, a.since, latest, a.value)
                                    ELSE eventually(a.patches, a.since, latest, a.value)]>>
    /\ UNCHANGED <<tickChain, latest>>

returnTemporal ==
    asked # << >> /\ asked[1].done /\ asked' = << >> /\ UNCHANGED <<tickChain, latest>>

TemporalNext ==
    \/ \E w \in TickWriter : commitTick(w)
    \/ checkpointTick \/ beginTemporal \/ answerTemporal \/ returnTemporal

TemporalSpec == TemporalInit /\ [][TemporalNext]_temporalVars

----------------------------------------------------------------------------
(* Properties.                                                             *)

\* what the comment on _resolveStart demands of a checkpoint
closedTick(ck, S) == \A p \in S : patchOf(p).lamport <= _maxLamportFromState(ck) => p \in ck

\* the boundary is one patch, whose lamport gave the checkpoint its tick
singleBoundary(ck) ==
    Cardinality({p \in ck : patchOf(p).lamport >= _maxLamportFromState(ck)}) = 1

\* A query that starts from a checkpoint answers what a replay of the whole
\* history would, if the checkpoint closes its tick, holds nothing newer
\* than the patches the query has read, and, where the tick is the since of
\* the query, ends with one patch of that tick (TemporalQuery._resolveStart,
\* always, eventually)
TemporalAnswersAreExact ==
    asked # << >> /\ asked[1].done /\ asked[1].used # << >> =>
      LET a == asked[1]
          ck == a.used[1]
      IN  closedTick(ck, a.patches) /\ ck \subseteq a.patches
            /\ (_maxLamportFromState(ck) = a.since => singleBoundary(ck)) =>
          (a.answer <=> IF a.op = "always" THEN always(a.patches, a.since, << >>, a.value)
                        ELSE eventually(a.patches, a.since, << >>, a.value))

\* "ALL patches with lamport <= maxLamport are included in the checkpoint
\* state" (the comment on TemporalQuery._resolveStart)
CheckpointTicksAreClosed == latest # << >> => closedTick(latest[1], everyPatch)
=============================================================================
