-------------------------------- MODULE Seek --------------------------------
(***************************************************************************)
(* Time travel: materialize({ceiling}) of a graph instance, with the cache *)
(* in the instance, the persistent seek cache that instances share through *)
(* a ref (CasSeekCacheAdapter), and the cursors of the seek command.       *)
(* Writers commit meanwhile.                                               *)
(*                                                                         *)
(* A patch is <<w, i>>, the i-th of writer w, and a state is the set of    *)
(* the patches it was reduced from: module Replication shows that they     *)
(* determine it.  An index is named by the state it was built from, and    *)
(* provenance by the patches it lists.  A frontier gives the number of     *)
(* patches behind each ref.                                                *)
(***************************************************************************)
EXTENDS Integers, Sequences, FiniteSets

CONSTANTS
    SeekWriter,
    Lib, Cli,       \* a long-lived instance, and the one of a seek command
    LibWriter,      \* the writer of Lib
    Ceiling,        \* the ceilings that are asked for
    MaxCommits,     \* bound on the commits of all writers
    MaxCalls,       \* bound on calls and commands
    maxEntries      \* of the seek cache

\* -1 stands for the ceiling null
ASSUME SeekAssumption ==
    /\ IsFiniteSet(SeekWriter) /\ LibWriter \in SeekWriter /\ Lib # Cli
    /\ Ceiling \subseteq Int \ {-1} /\ MaxCommits \in Nat /\ maxEntries \in Nat

VARIABLES
    lamports,   \* lamports[w]: those of the patches of w
    inst,       \* inst[i]: what an instance has cached
    job,        \* job[i]: the materialization under way, or none
    puts,       \* cache entries that are being stored
    cache,      \* the index behind the seek cache ref, least recently used first
    cursor,     \* the active cursor, or none
    saved,      \* the saved cursor, or none
    cmd,        \* the seek command under way, or none
    calls       \* how many calls and commands there were

seekVars == <<lamports, inst, job, puts, cache, cursor, saved, cmd, calls>>

Instance == {Lib, Cli}
none == [none |-> TRUE]
null == -1

getFrontierNow == [w \in SeekWriter |-> Len(lamports[w])]
noFrontier == [w \in SeekWriter |-> null]

\* the patches behind a frontier, up to a ceiling
patchesUpTo(f, c) ==
    {p \in SeekWriter \X (1..MaxCommits) : p[2] <= f[p[1]] /\ (c = null \/ lamports[p[1]][p[2]] <= c)}

freshInstance ==
    [has |-> FALSE, dirty |-> FALSE, state |-> {}, ceiling |-> null, frontier |-> noFrontier,
     prov |-> {}, hasProv |-> FALSE, degraded |-> FALSE, index |-> {}, joined |-> FALSE, answer |-> none]

SeekInit ==
    /\ lamports = [w \in SeekWriter |-> << >>]
    /\ inst = [i \in Instance |-> freshInstance]
    /\ job = [i \in Instance |-> none]
    /\ puts = {} /\ cache = << >> /\ cursor = none /\ saved = none /\ cmd = none /\ calls = 0

----------------------------------------------------------------------------
(* Commits.                                                                *)

commits == Cardinality(patchesUpTo(getFrontierNow, null))

called == calls < MaxCalls /\ calls' = calls + 1

\* one more than the highest lamport the author has seen, its own included
newLamports(w) ==
    LET seen == UNION {{lamports[v][i] : i \in 1..Len(lamports[v])} : v \in SeekWriter}
        last == IF lamports[w] = << >> THEN 0 ELSE lamports[w][Len(lamports[w])]
    IN  {x + 1 : x \in {y \in seen \cup {0} : y >= last}}

\* by another process, whatever it has seen of the others
commitElsewhere(w) ==
    /\ commits < MaxCommits
    /\ \E t \in newLamports(w) : lamports' = [lamports EXCEPT ![w] = Append(@, t)]
    /\ UNCHANGED <<inst, job, puts, cache, cursor, saved, cmd, calls>>

\* by Lib: _onPatchCommitted applies the patch to a clean state, whatever its
\* ceiling
commitHere ==
    /\ commits < MaxCommits /\ job[Lib] = none
    /\ \E t \in newLamports(LibWriter) :
         lamports' = [lamports EXCEPT ![LibWriter] = Append(@, t)]
    /\ LET g == inst[Lib]
           new == <<LibWriter, Len(lamports[LibWriter]) + 1>>
       IN  inst' = [inst EXCEPT ![Lib] =
                      IF g.has /\ ~g.dirty
                      THEN [g EXCEPT !.state = @ \cup {new}, !.index = @ \cup {new},
                                     !.prov = IF g.hasProv THEN @ \cup {new} ELSE @]
                      ELSE [g EXCEPT !.dirty = TRUE]]
    /\ UNCHANGED <<job, puts, cache, cursor, saved, cmd, calls>>

\* join with a state from elsewhere: the ceiling of the cache stays as it was
join ==
    /\ inst[Lib].has /\ job[Lib] = none /\ called
    /\ \E c \in Ceiling :
         inst' = [inst EXCEPT ![Lib].state = @ \cup patchesUpTo(getFrontierNow, c),
                              ![Lib].joined = TRUE, ![Lib].dirty = FALSE,
                              ![Lib].answer = none]
    /\ UNCHANGED <<lamports, job, puts, cache, cursor, saved, cmd>>

----------------------------------------------------------------------------
(* The seek cache.  Its index is read, changed and written back with a     *)
(* plain updateRef, so that one of two changes at a time can be lost.      *)

buildSeekCacheKey(c, f) == <<c, f>>

hasKey(ix, key) == \E k \in 1..Len(ix) : ix[k].key = key
placeOf(ix, key) == CHOOSE k \in 1..Len(ix) : ix[k].key = key

\* the index is an object: a key has at most one entry
entryOf(ix, key) == IF hasKey(ix, key) THEN <<ix[placeOf(ix, key)]>> ELSE << >>
without(ix, key) ==
    IF ~hasKey(ix, key) THEN ix
    ELSE SubSeq(ix, 1, placeOf(ix, key) - 1) \o SubSeq(ix, placeOf(ix, key) + 1, Len(ix))

\* _enforceMaxEntries, the least recently used first
_enforceMaxEntries(ix) ==
    IF Len(ix) <= maxEntries THEN ix ELSE SubSeq(ix, Len(ix) - maxEntries + 1, Len(ix))

\* what set, get and delete do to the index
mutate(m, ix) ==
    CASE m.kind = "set" -> _enforceMaxEntries(Append(without(ix, m.entry.key), m.entry))
      [] m.kind = "touch" -> without(ix, m.entry.key) \o entryOf(ix, m.entry.key)
      [] m.kind = "delete" -> without(ix, m.entry.key)

\* the two halves of _mutateIndex for an entry that is being stored
putRead(m) ==
    /\ m \in puts /\ m.phase = "read"
    /\ puts' = (puts \ {m}) \cup {[m EXCEPT !.phase = "write", !.index = cache]}
    /\ UNCHANGED <<lamports, inst, job, cache, cursor, saved, cmd, calls>>

\* a failure is retried with a fresh read; in the end it is swallowed
putWrite(m) ==
    /\ m \in puts /\ m.phase = "write"
    /\ \/ cache' = mutate(m, m.index) /\ puts' = puts \ {m}
       \/ UNCHANGED cache /\ puts' = (puts \ {m}) \cup {[m EXCEPT !.phase = "read", !.index = << >>]}
       \/ UNCHANGED cache /\ puts' = puts \ {m}
    /\ UNCHANGED <<lamports, inst, job, cursor, saved, cmd, calls>>

clearCache ==
    /\ cache # << >> /\ cache' = << >> /\ called
    /\ UNCHANGED <<lamports, inst, job, puts, cursor, saved, cmd>>

----------------------------------------------------------------------------
(* materialize.                                                            *)

\* a caller gets the state for ceiling c; since is the frontier at its call
answering(g, c, since) == [g EXCEPT !.answer = [ceiling |-> c, since |-> since, state |-> g.state]]

install(g, state, c, f) ==
    [g EXCEPT !.has = TRUE, !.dirty = FALSE, !.state = state, !.index = state,
              !.ceiling = c, !.frontier = f, !.joined = FALSE]

withProvenance(g, patches) == [g EXCEPT !.prov = patches, !.hasProv = TRUE, !.degraded = FALSE]

\* a state from the cache has no provenance
degrade(g) == [g EXCEPT !.prov = {}, !.hasProv = TRUE, !.degraded = TRUE]

memoryHit(g, c, f) == g.has /\ ~g.dirty /\ g.ceiling = c /\ g.frontier = f

\* _materializeWithCeiling up to the cache: the frontier is read first
materializeAtCeiling(i, c, receipts) ==
    /\ job[i] = none /\ called
    /\ LET f == getFrontierNow
           g == inst[i]
       IN  \/ /\ memoryHit(g, c, f) /\ ~receipts
              /\ inst' = [inst EXCEPT ![i] = answering(g, c, f)]
              /\ UNCHANGED job
           \/ /\ ~(memoryHit(g, c, f) /\ ~receipts) /\ (c <= 0 \/ \A w \in SeekWriter : f[w] = 0)
              /\ inst' = [inst EXCEPT ![i] = withProvenance(answering(install(g, {}, c, f), c, f), {})]
              /\ UNCHANGED job
           \/ /\ ~(memoryHit(g, c, f) /\ ~receipts) /\ c > 0 /\ \E w \in SeekWriter : f[w] > 0
              /\ job' = [job EXCEPT ![i] =
                           [ceiling |-> c, frontier |-> f, receipts |-> receipts, got |-> {},
                            phase |-> IF receipts THEN "walk" ELSE "lookup",
                            todo |-> {w \in SeekWriter : f[w] > 0}, entry |-> none, index |-> << >>]]
              /\ UNCHANGED inst
    /\ UNCHANGED <<lamports, puts, cache, cursor, saved, cmd>>

\* get: the entry of the key.  What it stores can be restored, or is gone.
lookup(i) ==
    /\ job[i] # none /\ job[i].phase = "lookup"
    /\ LET hit == entryOf(cache, buildSeekCacheKey(job[i].ceiling, job[i].frontier))
       IN  IF hit = << >> THEN job' = [job EXCEPT ![i].phase = "walk"]
           ELSE \E kind \in {"touch", "delete"} :
                  job' = [job EXCEPT ![i].phase = kind, ![i].entry = hit[1]]
    /\ UNCHANGED <<lamports, inst, puts, cache, cursor, saved, cmd, calls>>

\* lastAccessedAt, or the removal of a dead entry: the index is read again
accessRead(i) ==
    /\ job[i] # none /\ job[i].phase \in {"touch", "delete"}
    /\ job' = [job EXCEPT ![i].phase = IF @ = "touch" THEN "touching" ELSE "deleting",
                          ![i].index = cache]
    /\ UNCHANGED <<lamports, inst, puts, cache, cursor, saved, cmd, calls>>

\* _restoreIndexFromCache may fail: then the index built for the state stays
accessWrite(i) ==
    /\ job[i] # none /\ job[i].phase \in {"touching", "deleting"}
    /\ LET j == job[i]
           e == j.entry
           touching == j.phase = "touching"
           kind == IF touching THEN "touch" ELSE "delete"
           written == mutate([kind |-> kind, entry |-> e], j.index)
           restored == degrade(answering(install(inst[i], e.state, j.ceiling, j.frontier),
                                         j.ceiling, j.frontier))
       IN  \/ /\ touching /\ cache' = written
              /\ \E index \in {e.index, e.state} :
                   inst' = [inst EXCEPT ![i] = [restored EXCEPT !.index = index]]
              /\ job' = [job EXCEPT ![i] = none]
           \* the payload does not decode: self-heal, then walk the chains
           \/ /\ touching /\ cache' = without(written, e.key)
              /\ job' = [job EXCEPT ![i].phase = "walk", ![i].entry = none, ![i].index = << >>]
              /\ UNCHANGED inst
           \/ /\ ~touching /\ cache' = written
              /\ job' = [job EXCEPT ![i].phase = "walk", ![i].entry = none, ![i].index = << >>]
              /\ UNCHANGED inst
           \* the write of the index fails for good
           \/ /\ UNCHANGED <<cache, inst>>
              /\ job' = [job EXCEPT ![i].phase = IF touching THEN "delete" ELSE "walk",
                                    ![i].index = << >>]
    /\ UNCHANGED <<lamports, puts, cursor, saved, cmd, calls>>

\* the chain of one writer, from its tip as it is now
walkChain(i, w) ==
    /\ job[i] # none /\ job[i].phase = "walk" /\ w \in job[i].todo
    /\ job' = [job EXCEPT ![i].todo = @ \ {w},
                          ![i].got = @ \cup {p \in patchesUpTo(getFrontierNow, job[i].ceiling) : p[1] = w}]
    /\ UNCHANGED <<lamports, inst, puts, cache, cursor, saved, cmd, calls>>

\* the entry is stored without waiting for it
_persistSeekCacheEntry(j) ==
    IF j.receipts \/ j.got = {} THEN {}
    ELSE {[kind |-> "set", phase |-> "read", index |-> << >>,
           entry |-> [key |-> buildSeekCacheKey(j.ceiling, j.frontier), state |-> j.got, index |-> j.got]]}

\* a mutant: the frontier is read again once the chains were walked
frontierAfterwards(j) == getFrontierNow

\* the frontier that the result is remembered under
frontierOf(j) == j.frontier

finishCeiling(i) ==
    /\ job[i] # none /\ job[i].phase = "walk" /\ job[i].todo = {} /\ job[i].ceiling # null
    /\ LET j == [job[i] EXCEPT !.frontier = frontierOf(job[i])]
       IN  /\ inst' = [inst EXCEPT ![i] =
                         withProvenance(answering(install(inst[i], j.got, j.ceiling, j.frontier),
                                                  j.ceiling, job[i].frontier), j.got)]
           /\ puts' = puts \cup _persistSeekCacheEntry(j)
    /\ job' = [job EXCEPT ![i] = none]
    /\ UNCHANGED <<lamports, cache, cursor, saved, cmd, calls>>

\* materialize without a ceiling, from the tips
materialize(i) ==
    /\ job[i] = none /\ called
    /\ job' = [job EXCEPT ![i] =
                 [ceiling |-> null, frontier |-> noFrontier, receipts |-> FALSE, got |-> {},
                  phase |-> "walk", todo |-> SeekWriter, entry |-> none, index |-> << >>]]
    /\ UNCHANGED <<lamports, inst, puts, cache, cursor, saved, cmd>>

finishLatest(i) ==
    /\ job[i] # none /\ job[i].ceiling = null /\ job[i].todo = {}
    /\ inst' = [inst EXCEPT ![i] =
                  [withProvenance(install(inst[i], job[i].got, null, noFrontier), job[i].got)
                     EXCEPT !.answer = none]]
    /\ job' = [job EXCEPT ![i] = none]
    /\ UNCHANGED <<lamports, puts, cache, cursor, saved, cmd, calls>>

----------------------------------------------------------------------------
(* The seek command: a process of its own, with a fresh instance.          *)

\* the ticks behind a frontier (discoverTicks)
discoverTicks(f) == {lamports[p[1]][p[2]] : p \in {q \in SeekWriter \X (1..MaxCommits) : q[2] <= f[q[1]]}}

maxTick(T) == CHOOSE x \in T \cup {0} : \A y \in T : y <= x

\* resolveTickValue with +N or -N: N points from the current one, clamped
resolveDelta(T, current, d) ==
    LET points == T \cup {0}
        base == IF current \in points THEN current ELSE 0
        rank(x) == Cardinality({y \in points : y < x})
        wanted == rank(base) + d
    IN  CHOOSE x \in points :
          rank(x) = IF wanted < 0 THEN 0
                    ELSE IF wanted >= Cardinality(points) THEN Cardinality(points) - 1 ELSE wanted

\* the tick a command goes to: --tick n, --tick +1, --tick -1, --latest, --load
\* or, without arguments, the active one
seekTargets(T) ==
    LET current == IF cursor = none THEN 0 ELSE cursor.tick
    IN  {[action |-> "tick", tick |-> IF n <= maxTick(T) THEN n ELSE maxTick(T)] : n \in Ceiling}
          \cup {[action |-> "tick", tick |-> resolveDelta(T, current, d)] : d \in {-1, 1}}
          \cup {[action |-> "latest", tick |-> maxTick(T)]}
          \cup (IF saved = none THEN {} ELSE {[action |-> "load", tick |-> saved.tick]})
          \cup (IF cursor = none THEN {} ELSE {[action |-> "status", tick |-> cursor.tick]})

\* handleSeek reads the cursor, then the ticks; --latest clears the cursor
\* before it materializes
startSeek ==
    /\ cmd = none /\ called
    /\ \E x \in seekTargets(discoverTicks(getFrontierNow)) :
         /\ cmd' = [action |-> x.action, tick |-> x.tick, prev |-> cursor,
                    frontier |-> getFrontierNow, started |-> FALSE]
         /\ cursor' = IF x.action = "latest" THEN none ELSE cursor
    /\ inst' = [inst EXCEPT ![Cli] = freshInstance]
    /\ UNCHANGED <<lamports, job, puts, cache, saved>>

runSeek ==
    /\ cmd # none /\ ~cmd.started /\ job[Cli] = none
    /\ LET f == getFrontierNow
       IN  \/ /\ cmd.tick <= 0 \/ \A w \in SeekWriter : f[w] = 0
              /\ inst' = [inst EXCEPT ![Cli] = withProvenance(install(inst[Cli], {}, cmd.tick, f), {})]
              /\ UNCHANGED job
           \/ /\ cmd.tick > 0 /\ \E w \in SeekWriter : f[w] > 0
              /\ job' = [job EXCEPT ![Cli] =
                           [ceiling |-> cmd.tick, frontier |-> f, receipts |-> FALSE, got |-> {},
                            phase |-> "lookup", todo |-> {w \in SeekWriter : f[w] > 0},
                            entry |-> none, index |-> << >>]]
              /\ UNCHANGED inst
    /\ cmd' = [cmd EXCEPT !.started = TRUE]
    /\ UNCHANGED <<lamports, puts, cache, cursor, saved, calls>>

\* the cursor that is written holds the counts of the state and the frontier
\* that the ticks were read from; the status rewrites it only if it differs
endSeek ==
    /\ cmd # none /\ cmd.started /\ job[Cli] = none
    /\ LET new == [tick |-> cmd.tick, count |-> Cardinality(inst[Cli].state), frontier |-> cmd.frontier]
       IN  cursor' = IF cmd.action = "latest" THEN cursor ELSE new
    /\ cmd' = none
    /\ UNCHANGED <<lamports, inst, job, puts, cache, saved, calls>>

saveCursor ==
    /\ cursor # none /\ saved # cursor /\ saved' = cursor /\ called
    /\ UNCHANGED <<lamports, inst, job, puts, cache, cursor, cmd>>

dropCursor ==
    /\ saved # none /\ saved' = none /\ called
    /\ UNCHANGED <<lamports, inst, job, puts, cache, cursor, cmd>>

\* the change in counts that a command shows: only against a cursor of the
\* same frontier
computeSeekStateDiff(prev, next, f) ==
    IF prev = none \/ prev.frontier # f THEN none ELSE [count |-> next - prev.count]

----------------------------------------------------------------------------

SeekNext ==
    \/ \E w \in SeekWriter \ {LibWriter} : commitElsewhere(w)
    \/ commitHere \/ join \/ clearCache
    \/ \E m \in puts : putRead(m) \/ putWrite(m)
    \/ \E c \in Ceiling, receipts \in BOOLEAN : materializeAtCeiling(Lib, c, receipts)
    \/ materialize(Lib) \/ finishLatest(Lib)
    \/ \E i \in Instance : \/ lookup(i) \/ accessRead(i) \/ accessWrite(i) \/ finishCeiling(i)
                           \/ \E w \in SeekWriter : walkChain(i, w)
    \/ startSeek \/ runSeek \/ endSeek \/ saveCursor \/ dropCursor

----------------------------------------------------------------------------
(* Properties.                                                             *)

\* materialize({ceiling}) answers with all patches up to the ceiling that were
\* there when it was called, and none above it.  What is remembered for a
\* ceiling and the present frontier is exactly the patches up to it: in an
\* instance (unless a foreign state was joined), in the seek cache, whoever
\* stored it and whatever was lost or retried, in the counts of a cursor and
\* the difference that a command shows (_materializeWithCeiling,
\* CasSeekCacheAdapter.get, computeSeekStateDiff)
answersMatchTheirCeiling ==
    /\ \A i \in Instance :
         LET g == inst[i]
         IN  g.has /\ ~g.dirty /\ ~g.joined /\ g.ceiling # null /\ g.frontier = getFrontierNow
               => g.state = patchesUpTo(g.frontier, g.ceiling) /\ g.index = g.state
    /\ \A i \in Instance : inst[i].answer # none /\ ~inst[i].joined =>
         LET a == inst[i].answer
         IN  /\ patchesUpTo(a.since, a.ceiling) \subseteq a.state
             /\ a.state \subseteq patchesUpTo(getFrontierNow, a.ceiling)
    /\ \A k \in 1..Len(cache) :
         LET key == cache[k].key
         IN  key[2] = getFrontierNow => cache[k].state = patchesUpTo(key[2], key[1])
    /\ cmd # none /\ cmd.started /\ job[Cli] = none /\ cmd.frontier = getFrontierNow =>
         LET d == computeSeekStateDiff(cmd.prev, Cardinality(inst[Cli].state), cmd.frontier)
         IN  d = none \/ d.count = Cardinality(patchesUpTo(cmd.frontier, cmd.tick))
                                     - Cardinality(patchesUpTo(cmd.frontier, cmd.prev.tick))
    /\ cursor # none /\ cursor.frontier = getFrontierNow
         => cursor.count = Cardinality(patchesUpTo(cursor.frontier, cursor.tick))

\* what patchesFor and materializeSlice are answered from lists the patches
\* of the cached state, or is known to be degraded (_provenanceDegraded)
provenanceMatchesState ==
    \A i \in Instance :
      LET g == inst[i]
      IN  g.has /\ ~g.dirty /\ ~g.joined /\ g.hasProv /\ ~g.degraded => g.prov = g.state

\* Time travel shows the past as it was: every answer, remembered state,
\* cached entry, cursor and provenance index holds the patches up to its
\* ceiling (_materializeWithCeiling, CasSeekCacheAdapter, handleSeek)
SeekAnswersAreExact == answersMatchTheirCeiling /\ provenanceMatchesState
=============================================================================
