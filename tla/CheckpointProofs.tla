-------------------------- MODULE CheckpointProofs --------------------------
(***************************************************************************)
(* Proofs about Checkpoint, for any set of writers, each with its process, *)
(* and any number of patches and of calls.                                 *)
(***************************************************************************)
EXTENDS Checkpoint, ChainProofs, TLAPS

----------------------------------------------------------------------------
(* Types.  The patches a call has loaded are on the chains: without that   *)
(* there would be no patch to apply.                                       *)

LoadedWithin ==
    \A p \in Process : call[p] # None => Within(chain, call[p].loaded)

TypeInv == TypeOK /\ LoadedWithin

\* The fields of a call.
LEMMA CallFields ==
    ASSUME TypeOK, NEW p \in Process, call[p] # None
    PROVE  /\ call[p] \in CallRec
           /\ call[p].kind \in {"materialize", "createCheckpoint"}
           /\ call[p].phase \in {"frontier", "base", "list", "load", "publish"}
           /\ call[p].todo \in SUBSET Writer
           /\ call[p].frontier \in Tips
           /\ call[p].base \in CheckpointRec
           /\ call[p].base.frontier \in Tips
           /\ call[p].base.state \in StateRec
           /\ call[p].loaded \in SUBSET PatchId
           /\ call[p].state \in StateRec
           /\ call[p].asked \in Tips
  <1>1. call[p] \in CallRec
    BY DEF TypeOK
  <1> QED
    BY <1>1 DEF CallRec, CheckpointRec

LEMMA EmptyTypes ==
    /\ NoTips \in Tips
    /\ emptyState \in StateRec
    /\ emptyCheckpoint \in CheckpointRec
  BY DEF NoTips, Tips, emptyState, StateRec, ORSet, createORSet, emptyCheckpoint, CheckpointRec

LEMMA NewCallType ==
    ASSUME NEW kind \in {"materialize", "createCheckpoint"},
           NEW phase \in {"frontier", "base", "publish"}, NEW todo \in SUBSET Writer
    PROVE  newCall(kind, phase, todo) \in CallRec
  BY EmptyTypes DEF newCall, CallRec

LEMMA InitType == Init => TypeInv
  <1> SUFFICES ASSUME Init PROVE TypeInv
    OBVIOUS
  <1>1. chain \in Chain
    BY DEF Init, Chain
  <1> QED
    BY <1>1, EmptyTypes DEF Init, TypeInv, TypeOK, LoadedWithin

\* A commit appends one patch, and applies it to the cached state if there is one.
LEMMA CommitStep ==
    ASSUME TypeOK, NEW p \in Process, NEW adds \in SUBSET Dot, NEW removes \in SUBSET Dot,
           commit(p, adds, removes)
    PROVE  /\ chain' \in Chain
           /\ Longer(chain, chain')
           /\ Len(chain'[p]) = Len(chain[p]) + 1
           /\ chain'[p][Len(chain[p]) + 1] = [adds |-> adds, removes |-> removes]
           /\ \A x \in Writer : x # p => chain'[x] = chain[x]
           /\ Within(chain', {<<p, Len(chain[p]) + 1>>})
           /\ UNCHANGED <<checkpoint, call, calls>>
           /\ cached' \in [Process -> StateRec \cup {None}]
           /\ \A q \in Process : q # p \/ cached[q] = None => cached'[q] = cached[q]
           /\ cached[p] # None =>
                 cached'[p] = applied(cached[p], chain', {<<p, Len(chain[p]) + 1>>})
  <1> DEFINE patch == [adds |-> adds, removes |-> removes]
             id    == <<p, Len(chain[p]) + 1>>
  <1>1. patch \in PatchRec /\ chain \in Chain /\ p \in Writer
    BY DEF PatchRec, TypeOK, Process
  <1>2. chain' = grown(chain, p, patch)
    BY DEF commit, grown
  <1>3. /\ chain' \in Chain
        /\ Longer(chain, chain')
        /\ Len(chain'[p]) = Len(chain[p]) + 1
        /\ chain'[p][Len(chain[p]) + 1] = patch
    <2> HIDE DEF patch
    <2> QED BY <1>1, <1>2, ChainGrows
  <1>4. \A x \in Writer : x # p => chain'[x] = chain[x]
    BY <1>1, <1>2 DEF Chain, grown
  <1>5. Within(chain', {id})
    BY <1>1, <1>3 DEF Within, PatchId, Longer
  <1>6. cached' = IF cached[p] = None THEN cached
                  ELSE [cached EXCEPT ![p] = applied(cached[p], chain', {id})]
    BY DEF commit
  <1>7. cached[p] # None => applied(cached[p], chain', {id}) \in StateRec
    BY <1>3, <1>5, AppliedType DEF TypeOK
  <1>8. cached' \in [Process -> StateRec \cup {None}]
    BY <1>6, <1>7 DEF TypeOK
  <1>9. /\ \A q \in Process : q # p \/ cached[q] = None => cached'[q] = cached[q]
        /\ cached[p] # None => cached'[p] = applied(cached[p], chain', {id})
    <2> HIDE DEF id
    <2> QED BY <1>6 DEF TypeOK
  <1> QED
    BY <1>3, <1>4, <1>5, <1>8, <1>9 DEF commit

LEMMA TipsType ==
    ASSUME TypeOK
    PROVE  /\ tips \in Tips
           /\ \A w \in Writer : tips[w] = Len(chain[w])
           /\ someWriters \in SUBSET Writer
  BY DEF TypeOK, Chain, tips, Tips, someWriters

----------------------------------------------------------------------------
(* The steps of the calls, field by field.                                 *)

\* only the call of p changes
OnlyCall(p) ==
    /\ \A q \in Process : q # p => call'[q] = call[q]
    /\ UNCHANGED <<chain, checkpoint, cached>>

TypedCall(p) == call' \in [Process -> CallRec \cup {None}] /\ call'[p] \in CallRec

\* A call begins with nothing loaded.
LEMMA BeginStep ==
    ASSUME TypeOK, NEW p \in Process, materialize(p) \/ createCheckpoint(p)
    PROVE  /\ OnlyCall(p)
           /\ TypedCall(p)
           /\ calls' \in Nat
           /\ call'[p].loaded = {}
           /\ call'[p].frontier = NoTips
           /\ call'[p].base = emptyCheckpoint
           /\ call'[p].state = emptyState
           /\ materialize(p) => call'[p].phase = "base"
           /\ createCheckpoint(p) => call'[p].phase = "frontier"
  <1>1. CASE materialize(p)
    <2> DEFINE new == newCall("materialize", "base", {})
    <2>1. new \in CallRec
      BY NewCallType
    <2>2. call' = [call EXCEPT ![p] = new] /\ calls' = calls + 1 /\ UNCHANGED <<chain, checkpoint, cached>>
      BY <1>1 DEF materialize
    <2>3. /\ new.loaded = {} /\ new.frontier = NoTips /\ new.base = emptyCheckpoint
          /\ new.state = emptyState /\ new.phase = "base"
      BY DEF newCall
    <2>4. createCheckpoint(p) => new.phase = "frontier"
      <3>1. ASSUME createCheckpoint(p) PROVE FALSE
        <4>1. newCall("createCheckpoint", "frontier", someWriters).phase = "frontier"
          BY DEF newCall
        <4>2. call'[p] = newCall("createCheckpoint", "frontier", someWriters)
          BY <3>1 DEF createCheckpoint, TypeOK
        <4>3. call'[p] = new
          BY <2>2 DEF TypeOK
        <4> QED
          BY <2>3, <4>1, <4>2, <4>3
      <3> QED
        BY <3>1
    <2> HIDE DEF new
    <2> QED
      BY <1>1, <2>1, <2>2, <2>3, <2>4 DEF OnlyCall, TypedCall, TypeOK
  <1>2. CASE createCheckpoint(p) /\ ~ materialize(p)
    <2> DEFINE new == newCall("createCheckpoint", "frontier", someWriters)
    <2>1. new \in CallRec
      BY NewCallType, TipsType
    <2>2. call' = [call EXCEPT ![p] = new] /\ calls' = calls + 1 /\ UNCHANGED <<chain, checkpoint, cached>>
      BY <1>2 DEF createCheckpoint
    <2>3. /\ new.loaded = {} /\ new.frontier = NoTips /\ new.base = emptyCheckpoint
          /\ new.state = emptyState /\ new.phase = "frontier"
      BY DEF newCall
    <2> HIDE DEF new
    <2> QED
      BY <1>2, <2>1, <2>2, <2>3 DEF OnlyCall, TypedCall, TypeOK
  <1> QED
    BY <1>1, <1>2

LEMMA LoadLatestStep ==
    ASSUME TypeOK, NEW p \in Process, _loadLatestCheckpoint(p)
    PROVE  /\ OnlyCall(p)
           /\ TypedCall(p)
           /\ call[p] # None /\ call[p].phase = "base"
           /\ call'[p].phase = "list"
           /\ call'[p].base \in {checkpoint, emptyCheckpoint}
           /\ call'[p].asked = tips
           /\ call'[p].loaded = call[p].loaded
           /\ call'[p].frontier = call[p].frontier
           /\ call'[p].state = call[p].state
  <1>1. PICK base \in {checkpoint, emptyCheckpoint} :
            call' = [call EXCEPT ![p].phase = "list", ![p].base = base, ![p].asked = tips]
    BY DEF _loadLatestCheckpoint
  <1>2. base \in CheckpointRec /\ tips \in Tips
    BY EmptyTypes, TipsType DEF TypeOK
  <1>3. call[p] \in CallRec /\ call[p] # None
    BY CallFields DEF _loadLatestCheckpoint
  <1>4. call'[p] = [call[p] EXCEPT !.phase = "list", !.base = base, !.asked = tips]
    BY <1>1 DEF TypeOK
  <1>5. call'[p] \in CallRec
    BY <1>2, <1>3, <1>4 DEF CallRec
  <1>6. \A q \in Process : q # p => call'[q] = call[q]
    BY <1>1 DEF TypeOK
  <1>7. TypedCall(p)
    BY <1>1, <1>5, <1>6 DEF TypeOK, TypedCall
  <1>8. /\ call'[p].phase = "list"
        /\ call'[p].base = base
        /\ call'[p].asked = tips
        /\ call'[p].loaded = call[p].loaded
        /\ call'[p].frontier = call[p].frontier
        /\ call'[p].state = call[p].state
    BY <1>3, <1>4 DEF CallRec
  <1> QED
    BY <1>6, <1>7, <1>8 DEF OnlyCall, _loadLatestCheckpoint

LEMMA DiscoverStep ==
    ASSUME TypeOK, NEW p \in Process, discoverWriters(p)
    PROVE  /\ OnlyCall(p)
           /\ TypedCall(p)
           /\ call[p] # None /\ call[p].phase = "list"
           /\ call'[p].phase = "load"
           /\ call'[p].todo = someWriters
           /\ call'[p].base = call[p].base
           /\ call'[p].asked = call[p].asked
           /\ call'[p].loaded = call[p].loaded
           /\ call'[p].frontier = call[p].frontier
           /\ call'[p].state = call[p].state
  <1>1. call' = [call EXCEPT ![p].phase = "load", ![p].todo = someWriters]
    BY DEF discoverWriters
  <1>2. someWriters \in SUBSET Writer
    BY TipsType
  <1>3. call[p] \in CallRec /\ call[p] # None
    BY CallFields DEF discoverWriters
  <1>4. call'[p] = [call[p] EXCEPT !.phase = "load", !.todo = someWriters]
    BY <1>1 DEF TypeOK
  <1>5. call'[p] \in CallRec
    BY <1>2, <1>3, <1>4 DEF CallRec
  <1>6. \A q \in Process : q # p => call'[q] = call[q]
    BY <1>1 DEF TypeOK
  <1>7. TypedCall(p)
    BY <1>1, <1>5, <1>6 DEF TypeOK, TypedCall
  <1>8. /\ call'[p].phase = "load"
        /\ call'[p].todo = someWriters
        /\ call'[p].base = call[p].base
        /\ call'[p].asked = call[p].asked
        /\ call'[p].loaded = call[p].loaded
        /\ call'[p].frontier = call[p].frontier
        /\ call'[p].state = call[p].state
    BY <1>3, <1>4 DEF CallRec
  <1> QED
    BY <1>6, <1>7, <1>8 DEF OnlyCall, discoverWriters

LEMMA LoadSinceStep ==
    ASSUME TypeOK, NEW p \in Process, NEW w \in Writer, _loadPatchesSince(p, w)
    PROVE  /\ OnlyCall(p)
           /\ TypedCall(p)
           /\ call[p] # None /\ call[p].phase = "load"
           /\ call'[p].phase = "load"
           /\ call'[p].todo = call[p].todo \ {w}
           /\ call'[p].loaded = call[p].loaded \cup sinceCheckpoint(p, w)
           /\ Within(chain, sinceCheckpoint(p, w))
           /\ call'[p].base = call[p].base
           /\ call'[p].asked = call[p].asked
           /\ call'[p].frontier = call[p].frontier
           /\ call'[p].state = call[p].state
  <1> DEFINE since == sinceCheckpoint(p, w)
  <1>1. call' = [call EXCEPT ![p].todo = @ \ {w}, ![p].loaded = @ \cup since]
    BY DEF _loadPatchesSince
  <1>2. call[p] \in CallRec /\ call[p] # None /\ call[p].base.frontier \in Tips
    BY CallFields DEF _loadPatchesSince
  <1>3. Within(chain, since) /\ since \in SUBSET PatchId
    <2>1. Len(chain[w]) \in Nat /\ call[p].base.frontier[w] \in Nat
      BY <1>2 DEF TypeOK, Chain, Tips
    <2>2. ASSUME NEW g \in since
          PROVE  g \in PatchId /\ g[2] \in 1..Len(chain[g[1]])
      <3>1. /\ g = <<g[1], g[2]>> /\ g[1] = w
            /\ g[2] \in (call[p].base.frontier[w] + 1)..Len(chain[w])
        BY <2>2 DEF sinceCheckpoint
      <3>2. g[2] \in Nat /\ g[2] \in 1..Len(chain[w])
        BY <2>1, <3>1
      <3> QED
        BY <3>1, <3>2 DEF PatchId
    <2> QED
      BY <2>2 DEF Within
  <1> HIDE DEF since
  <1>4. call'[p] = [call[p] EXCEPT !.todo = @ \ {w}, !.loaded = @ \cup since]
    BY <1>1 DEF TypeOK
  <1>5. call'[p] \in CallRec
    BY <1>2, <1>3, <1>4 DEF CallRec
  <1>6. \A q \in Process : q # p => call'[q] = call[q]
    BY <1>1 DEF TypeOK
  <1>7. TypedCall(p)
    BY <1>1, <1>5, <1>6 DEF TypeOK, TypedCall
  <1>8. /\ call'[p].phase = call[p].phase
        /\ call'[p].todo = call[p].todo \ {w}
        /\ call'[p].loaded = call[p].loaded \cup since
        /\ call'[p].base = call[p].base
        /\ call'[p].asked = call[p].asked
        /\ call'[p].frontier = call[p].frontier
        /\ call'[p].state = call[p].state
    BY <1>2, <1>4 DEF CallRec
  <1> QED
    BY <1>3, <1>6, <1>7, <1>8 DEF OnlyCall, _loadPatchesSince, since

LEMMA ReadTipStep ==
    ASSUME TypeOK, NEW p \in Process, NEW w \in Writer, readTip(p, w)
    PROVE  /\ OnlyCall(p)
           /\ TypedCall(p)
           /\ call[p] # None /\ call[p].phase = "frontier"
           /\ call'[p].phase = "frontier"
           /\ call'[p].frontier = [call[p].frontier EXCEPT ![w] = Len(chain[w])]
           /\ call'[p].loaded = call[p].loaded
           /\ call'[p].base = call[p].base
           /\ call'[p].state = call[p].state
  <1> DEFINE new == [call[p].frontier EXCEPT ![w] = Len(chain[w])]
  <1>1. call' = [call EXCEPT ![p].todo = @ \ {w}, ![p].frontier[w] = Len(chain[w])]
    BY DEF readTip
  <1>2. call[p] \in CallRec /\ call[p] # None /\ call[p].frontier \in Tips
    BY CallFields DEF readTip
  <1>3. new \in Tips
    <2>1. Len(chain[w]) \in Nat
      BY DEF TypeOK, Chain
    <2> QED
      BY <1>2, <2>1 DEF Tips
  <1>4. call'[p] = [call[p] EXCEPT !.todo = @ \ {w}, !.frontier = new]
    BY <1>1, <1>2 DEF TypeOK, CallRec
  <1> HIDE DEF new
  <1>5. call'[p] \in CallRec
    BY <1>2, <1>3, <1>4 DEF CallRec
  <1>6. \A q \in Process : q # p => call'[q] = call[q]
    BY <1>1 DEF TypeOK
  <1>7. TypedCall(p)
    BY <1>1, <1>5, <1>6 DEF TypeOK, TypedCall
  <1>8. /\ call'[p].phase = call[p].phase
        /\ call'[p].frontier = new
        /\ call'[p].loaded = call[p].loaded
        /\ call'[p].base = call[p].base
        /\ call'[p].state = call[p].state
    BY <1>2, <1>4 DEF CallRec
  <1> QED
    BY <1>6, <1>7, <1>8 DEF OnlyCall, readTip, new

\* The state comes from the cache, or the call goes on to materialize.
LEMMA TakeStateStep ==
    ASSUME TypeOK, NEW p \in Process, takeState(p)
    PROVE  /\ OnlyCall(p)
           /\ TypedCall(p)
           /\ call[p] # None /\ call[p].phase = "frontier"
           /\ cached[p] # None => call'[p].phase = "publish" /\ call'[p].state = cached[p]
           /\ cached[p] = None => call'[p].phase = "base" /\ call'[p].state = call[p].state
           /\ call'[p].frontier = call[p].frontier
           /\ call'[p].loaded = call[p].loaded
           /\ call'[p].base = call[p].base
  <1>1. call' = [call EXCEPT ![p] =
                    IF cached[p] # None THEN [call[p] EXCEPT !.phase = "publish", !.state = cached[p]]
                    ELSE [call[p] EXCEPT !.phase = "base"]]
    BY DEF takeState
  <1>2. call[p] \in CallRec /\ call[p] # None
    BY CallFields DEF takeState
  <1>3. \A q \in Process : q # p => call'[q] = call[q]
    BY <1>1 DEF TypeOK
  <1>4. CASE cached[p] # None
    <2>1. call'[p] = [call[p] EXCEPT !.phase = "publish", !.state = cached[p]]
      BY <1>1, <1>4 DEF TypeOK
    <2>2. cached[p] \in StateRec
      BY <1>4 DEF TypeOK
    <2>3. call'[p] \in CallRec
      BY <1>2, <2>1, <2>2 DEF CallRec
    <2>4. TypedCall(p)
      BY <1>1, <1>3, <2>3 DEF TypeOK, TypedCall
    <2>5. /\ call'[p].phase = "publish"
          /\ call'[p].state = cached[p]
          /\ call'[p].frontier = call[p].frontier
          /\ call'[p].loaded = call[p].loaded
          /\ call'[p].base = call[p].base
      BY <1>2, <2>1 DEF CallRec
    <2> QED
      BY <1>3, <1>4, <2>4, <2>5 DEF OnlyCall, takeState
  <1>5. CASE cached[p] = None
    <2>1. call'[p] = [call[p] EXCEPT !.phase = "base"]
      BY <1>1, <1>5 DEF TypeOK
    <2>2. call'[p] \in CallRec
      BY <1>2, <2>1 DEF CallRec
    <2>3. TypedCall(p)
      BY <1>1, <1>3, <2>2 DEF TypeOK, TypedCall
    <2>4. /\ call'[p].phase = "base"
          /\ call'[p].state = call[p].state
          /\ call'[p].frontier = call[p].frontier
          /\ call'[p].loaded = call[p].loaded
          /\ call'[p].base = call[p].base
      BY <1>2, <2>1 DEF CallRec
    <2> QED
      BY <1>3, <1>5, <2>3, <2>4 DEF OnlyCall, takeState
  <1> QED
    BY <1>4, <1>5

\* The patches applied to the checkpoint's state are the ones loaded.
LEMMA ReducedType ==
    ASSUME TypeInv, NEW p \in Process, call[p] # None
    PROVE  /\ reduced(p) \in StateRec
           /\ reduced(p).got = call[p].base.state.got \cup call[p].loaded
  <1>1. reduced(p) \in StateRec
    BY CallFields, AppliedType DEF TypeInv, TypeOK, LoadedWithin, reduced
  <1> QED
    BY <1>1 DEF reduced, applied

\* The state installed may have been compacted; the one that goes into a checkpoint
\* has not been yet.
LEMMA InstallStep ==
    ASSUME TypeInv, NEW p \in Process, install(p)
    PROVE  /\ call[p] # None /\ call[p].phase = "load" /\ call[p].todo = {}
           /\ \A q \in Process : q # p => call'[q] = call[q] /\ cached'[q] = cached[q]
           /\ cached'[p] \in {reduced(p), executeGC(reduced(p))}
           /\ cached' \in [Process -> StateRec \cup {None}]
           /\ call' \in [Process -> CallRec \cup {None}]
           /\ call'[p] # None => /\ call'[p].phase = "publish"
                                 /\ call'[p].state = reduced(p)
                                 /\ call'[p].frontier = call[p].frontier
                                 /\ call'[p].loaded = {}
                                 /\ call'[p].base = emptyCheckpoint
           /\ UNCHANGED <<chain, checkpoint, calls>>
  <1> DEFINE blank == newCall(call[p].kind, "publish", {})
             new   == [blank EXCEPT !.frontier = call[p].frontier, !.state = reduced(p)]
             next  == IF call[p].kind = "materialize" THEN None ELSE new
  <1>1. call[p] \in CallRec /\ call[p] # None /\ call[p].frontier \in Tips
        /\ call[p].kind \in {"materialize", "createCheckpoint"}
    BY CallFields DEF install, TypeInv
  <1>2. reduced(p) \in StateRec /\ executeGC(reduced(p)) \in StateRec
    BY <1>1, ReducedType, Compacted
  <1>3. PICK state \in {reduced(p), executeGC(reduced(p))} :
            cached' = [cached EXCEPT ![p] = state]
    BY DEF install, _maybeRunGC
  <1>4. call' = [call EXCEPT ![p] = next]
    BY DEF install
  <1>5. blank \in CallRec /\ blank.loaded = {} /\ blank.base = emptyCheckpoint
        /\ blank.phase = "publish"
    BY <1>1, NewCallType DEF newCall
  <1> HIDE DEF blank
  <1>6. /\ new \in CallRec
        /\ new.phase = "publish" /\ new.state = reduced(p)
        /\ new.frontier = call[p].frontier
        /\ new.loaded = {} /\ new.base = emptyCheckpoint
    BY <1>1, <1>2, <1>5 DEF CallRec
  <1> HIDE DEF new
  <1>7. cached' \in [Process -> StateRec \cup {None}] /\ cached'[p] = state
        /\ \A q \in Process : q # p => cached'[q] = cached[q]
    BY <1>2, <1>3 DEF TypeInv, TypeOK
  <1>8. /\ call' \in [Process -> CallRec \cup {None}]
        /\ call'[p] = next
        /\ \A q \in Process : q # p => call'[q] = call[q]
    BY <1>4, <1>6 DEF TypeInv, TypeOK
  <1> QED
    BY <1>6, <1>7, <1>8 DEF install

LEMMA PublishStep ==
    ASSUME TypeOK, NEW p \in Process, publish(p)
    PROVE  /\ call[p] # None /\ call[p].phase = "publish"
           /\ \A q \in Process : q # p => call'[q] = call[q]
           /\ call'[p] = None
           /\ call' \in [Process -> CallRec \cup {None}]
           /\ checkpoint' \in CheckpointRec
           /\ checkpoint'.frontier = call[p].frontier
           /\ checkpoint'.state = executeGC(call[p].state)
           /\ UNCHANGED <<chain, cached, calls>>
  <1>1. call[p] # None /\ call[p].frontier \in Tips /\ call[p].state \in StateRec
    BY CallFields DEF publish
  <1>2. executeGC(call[p].state) \in StateRec
    BY <1>1, Compacted
  <1>3. checkpoint' = [frontier |-> call[p].frontier, state |-> executeGC(call[p].state)]
    BY DEF publish, createV5
  <1>4. /\ checkpoint' \in CheckpointRec
        /\ checkpoint'.frontier = call[p].frontier
        /\ checkpoint'.state = executeGC(call[p].state)
    BY <1>1, <1>2, <1>3 DEF CheckpointRec
  <1> QED
    BY <1>4 DEF publish, TypeOK

LEMMA RunGCStep ==
    ASSUME TypeOK, NEW p \in Process, runGC(p)
    PROVE  /\ cached[p] # None
           /\ cached[p] \in StateRec
           /\ cached'[p] = executeGC(cached[p])
           /\ \A q \in Process : q # p => cached'[q] = cached[q]
           /\ cached' \in [Process -> StateRec \cup {None}]
           /\ UNCHANGED <<chain, checkpoint, call, calls>>
  <1>1. cached[p] \in StateRec
    BY DEF TypeOK, runGC
  <1>2. executeGC(cached[p]) \in StateRec
    BY <1>1, Compacted
  <1> QED
    BY <1>1, <1>2 DEF TypeOK, runGC

\* A call that fails, and a process that ends, leave nothing behind.
LEMMA DropStep ==
    ASSUME TypeOK, NEW p \in Process, fail(p) \/ restart(p)
    PROVE  /\ call'[p] = None
           /\ \A q \in Process : q # p => call'[q] = call[q]
           /\ call' \in [Process -> CallRec \cup {None}]
           /\ \A q \in Process : cached'[q] \in {cached[q], None}
           /\ cached' \in [Process -> StateRec \cup {None}]
           /\ UNCHANGED <<chain, checkpoint, calls>>
  BY DEF TypeOK, fail, restart

\* The two kinds of commit: of an add, and of a remove of observed dots.
LEMMA WriteStep ==
    ASSUME TypeOK, NEW p \in Process, addNode(p) \/ removeNode(p)
    PROVE  \E adds, removes \in SUBSET Dot :
              /\ commit(p, adds, removes)
              /\ adds \subseteq {<<p, Len(chain[p]) + 1>>}
              /\ removes # {} => cached[p] # None
              /\ \A d \in removes : d \in observedDots(cached[p]) /\ (RemoveOthers \/ d[1] = p)
  <1>1. CASE addNode(p)
    <2>1. Len(chain[p]) \in Nat /\ p \in Writer
      BY DEF TypeOK, Chain, Process
    <2>2. {<<p, Len(chain[p]) + 1>>} \in SUBSET Dot
      BY <2>1 DEF Dot
    <2>3. commit(p, {<<p, Len(chain[p]) + 1>>}, {})
      BY <1>1 DEF addNode
    <2> QED
      BY <2>2, <2>3
  <1>2. CASE removeNode(p)
    <2> DEFINE observed == {d \in observedDots(cached[p]) : RemoveOthers \/ d[1] = p}
    <2>1. cached[p] # None /\ commit(p, {}, observed)
      BY <1>2 DEF removeNode
    <2>2. observed \in SUBSET Dot
      BY <2>1, ObservedType DEF TypeOK
    <2> QED
      BY <2>1, <2>2
  <1> QED
    BY <1>1, <1>2

----------------------------------------------------------------------------
(* Types hold.                                                             *)

LEMMA NextType == TypeInv /\ [Next]_vars => TypeInv'
  <1> SUFFICES ASSUME TypeInv, [Next]_vars PROVE TypeInv'
    OBVIOUS
  <1> USE DEF TypeInv
  <1>1. ASSUME NEW p \in Process, addNode(p) \/ removeNode(p) PROVE TypeInv'
    <2>1. PICK adds \in SUBSET Dot, removes \in SUBSET Dot : commit(p, adds, removes)
      BY <1>1, WriteStep
    <2>2. /\ chain' \in Chain /\ Longer(chain, chain')
          /\ cached' \in [Process -> StateRec \cup {None}]
          /\ UNCHANGED <<checkpoint, call, calls>>
      BY <2>1, CommitStep
    <2>3. LoadedWithin'
      BY <2>2, WithinGrows DEF TypeOK, LoadedWithin
    <2> QED
      BY <2>2, <2>3 DEF TypeOK
  <1>2. ASSUME NEW p \in Process, OnlyCall(p), TypedCall(p), calls' \in Nat,
               Within(chain, call'[p].loaded)
        PROVE  TypeInv'
    BY <1>2 DEF OnlyCall, TypedCall, TypeOK, LoadedWithin
  <1>3. ASSUME NEW p \in Process, materialize(p) \/ createCheckpoint(p) PROVE TypeInv'
    <2>1. Within(chain, {})
      BY DEF Within
    <2> QED
      BY <1>2, <1>3, <2>1, BeginStep
  <1>4. ASSUME NEW p \in Process, _loadLatestCheckpoint(p) PROVE TypeInv'
    BY <1>2, <1>4, LoadLatestStep DEF LoadedWithin, TypeOK, _loadLatestCheckpoint
  <1>5. ASSUME NEW p \in Process, discoverWriters(p) PROVE TypeInv'
    BY <1>2, <1>5, DiscoverStep DEF LoadedWithin, TypeOK, discoverWriters
  <1>6. ASSUME NEW p \in Process, NEW w \in Writer, _loadPatchesSince(p, w) PROVE TypeInv'
    <2>1. Within(chain, call'[p].loaded)
      BY <1>6, LoadSinceStep DEF LoadedWithin, Within
    <2> QED
      BY <1>2, <1>6, <2>1, LoadSinceStep DEF TypeOK, _loadPatchesSince
  <1>7. ASSUME NEW p \in Process, NEW w \in Writer, readTip(p, w) PROVE TypeInv'
    BY <1>2, <1>7, ReadTipStep DEF LoadedWithin, TypeOK, readTip
  <1>8. ASSUME NEW p \in Process, takeState(p) PROVE TypeInv'
    BY <1>2, <1>8, TakeStateStep DEF LoadedWithin, TypeOK, takeState
  <1>9. ASSUME NEW p \in Process, install(p) PROVE TypeInv'
    <2>1. Within(chain, {})
      BY DEF Within
    <2> QED
      BY <1>9, <2>1, InstallStep DEF TypeOK, LoadedWithin
  <1>10. ASSUME NEW p \in Process, publish(p) PROVE TypeInv'
    BY <1>10, PublishStep DEF TypeOK, LoadedWithin
  <1>11. ASSUME NEW p \in Process, runGC(p) PROVE TypeInv'
    BY <1>11, RunGCStep DEF TypeOK, LoadedWithin
  <1>12. ASSUME NEW p \in Process, fail(p) \/ restart(p) PROVE TypeInv'
    BY <1>12, DropStep DEF TypeOK, LoadedWithin
  <1>13. CASE UNCHANGED vars
    BY <1>13 DEF vars, TypeOK, LoadedWithin
  <1>14. CASE Next
    BY <1>14, <1>1, <1>3, <1>4, <1>5, <1>6, <1>7, <1>8, <1>9, <1>10, <1>11, <1>12 DEF Next
  <1> QED
    BY <1>13, <1>14

\* Every reachable state is well typed: the states of the caches, the calls and the
\* checkpoint are made of dots and of patches that exist (CheckpointService.js
\* createV5, materialize.methods.js materialize).
THEOREM CheckpointTypeCorrect == Spec => []TypeOK
  <1>1. TypeInv => TypeOK
    BY DEF TypeInv
  <1> QED
    BY <1>1, InitType, NextType, PTL DEF Spec

----------------------------------------------------------------------------
(* Checkpoints cover their frontiers.  The reason is an order of events: a *)
(* frontier is read, then the call begins to materialize, then the patches *)
(* of each writer are loaded.  So what is loaded reaches at least to the   *)
(* tips of the beginning, and those are at least the frontier's.  A cached *)
(* state is older than the frontier, which is why it must not be taken.    *)

Covers(frontier, ids) == \A w \in Writer : \A k \in 1..frontier[w] : <<w, k>> \in ids

BelowTips(c, frontier) == \A w \in Writer : frontier[w] <= Len(c[w])

CallCovered(p) ==
    /\ Covers(call[p].base.frontier, call[p].base.state.got)
    /\ BelowTips(chain, call[p].frontier)
    /\ call[p].phase = "frontier" => cached[p] = None
    /\ call[p].phase \in {"list", "load"} =>
          /\ BelowTips(chain, call[p].asked)
          /\ \A w \in Writer : call[p].frontier[w] <= call[p].asked[w]
    /\ call[p].phase = "load" =>
          \A w \in Writer \ call[p].todo : \A k \in 1..call[p].asked[w] :
              <<w, k>> \in call[p].base.state.got \cup call[p].loaded
    /\ call[p].phase = "publish" => Covers(call[p].frontier, call[p].state.got)

CoverInv ==
    /\ Covers(checkpoint.frontier, checkpoint.state.got)
    /\ \A p \in Process : call[p] # None => CallCovered(p)

\* Covering, writer by writer, is what the properties say of all patches at once.
LEMMA CoversUpTo ==
    ASSUME NEW f \in Tips, NEW ids, Covers(f, ids)
    PROVE  upTo(f) \subseteq ids
  <1>1. ASSUME NEW g \in upTo(f) PROVE g \in ids
    <2>1. PICK w \in Writer : g \in {w} \X ((NoTips[w] + 1)..f[w])
      BY <1>1 DEF upTo, between
    <2>2. g = <<w, g[2]>> /\ g[2] \in (NoTips[w] + 1)..f[w]
      BY <2>1
    <2>3. NoTips[w] = 0
      BY DEF NoTips
    <2>4. g[2] \in 1..f[w]
      BY <2>2, <2>3 DEF Tips
    <2> QED
      BY <2>2, <2>4 DEF Covers
  <1> QED
    BY <1>1

LEMMA EmptyCovers ==
    /\ \A ids : Covers(NoTips, ids)
    /\ Covers(emptyCheckpoint.frontier, emptyCheckpoint.state.got)
    /\ \A c \in Chain : BelowTips(c, NoTips)
  <1>1. \A w \in Writer : NoTips[w] = 0
    BY DEF NoTips
  <1>2. emptyCheckpoint.frontier = NoTips
    BY DEF emptyCheckpoint
  <1>3. \A c \in Chain, w \in Writer : Len(c[w]) \in Nat
    BY DEF Chain
  <1> QED
    BY <1>1, <1>2, <1>3 DEF Covers, BelowTips

LEMMA BelowTipsGrows ==
    ASSUME NEW c \in Chain, NEW d, Longer(c, d), NEW f \in Tips, BelowTips(c, f)
    PROVE  BelowTips(d, f)
  <1>1. ASSUME NEW w \in Writer PROVE f[w] <= Len(d[w])
    <2>1. f[w] \in Nat /\ f[w] <= Len(c[w])
      BY DEF Tips, BelowTips
    <2>2. Len(c[w]) \in Nat /\ Len(d[w]) \in Nat /\ Len(c[w]) <= Len(d[w])
      BY DEF Longer
    <2> QED
      BY <2>1, <2>2
  <1> QED
    BY <1>1 DEF BelowTips

LEMMA InitCover == Init => CoverInv
  BY EmptyCovers DEF Init, CoverInv

\* A call that covers what it should has loaded all the patches of its beginning.
LEMMA LoadedCovers ==
    ASSUME TypeInv, CoverInv, NEW p \in Process, call[p] # None,
           call[p].phase = "load", call[p].todo = {}
    PROVE  /\ Covers(call[p].asked, reduced(p).got)
           /\ Covers(call[p].frontier, reduced(p).got)
  <1>1. CallCovered(p)
    BY DEF CoverInv
  <1>2. reduced(p).got = call[p].base.state.got \cup call[p].loaded
    BY ReducedType
  <1>3. Covers(call[p].asked, reduced(p).got)
    BY <1>1, <1>2 DEF CallCovered, Covers
  <1>4. ASSUME NEW w \in Writer, NEW k \in 1..call[p].frontier[w]
        PROVE  k \in 1..call[p].asked[w]
    <2>1. call[p].frontier[w] <= call[p].asked[w]
      BY <1>1 DEF CallCovered
    <2>2. call[p].frontier[w] \in Nat /\ call[p].asked[w] \in Nat
      BY CallFields DEF TypeInv, Tips
    <2> QED
      BY <2>1, <2>2
  <1> QED
    BY <1>3, <1>4 DEF Covers

LEMMA NextCover == ~ CheckpointCached /\ TypeInv /\ CoverInv /\ [Next]_vars => CoverInv'
  <1> SUFFICES ASSUME ~ CheckpointCached, TypeInv, CoverInv, [Next]_vars PROVE CoverInv'
    OBVIOUS
  <1>t. TypeOK
    BY DEF TypeInv
  <1>1. ASSUME NEW p \in Process, addNode(p) \/ removeNode(p) PROVE CoverInv'
    <2>1. PICK adds \in SUBSET Dot, removes \in SUBSET Dot : commit(p, adds, removes)
      BY <1>t, <1>1, WriteStep
    <2>2. /\ chain \in Chain /\ Longer(chain, chain')
          /\ UNCHANGED <<checkpoint, call>>
          /\ \A q \in Process : cached[q] = None => cached'[q] = cached[q]
      BY <1>t, <2>1, CommitStep DEF TypeOK
    <2>3. ASSUME NEW q \in Process, call[q] # None PROVE CallCovered(q)'
      <3>1. CallCovered(q) /\ call[q].frontier \in Tips /\ call[q].asked \in Tips
        BY <1>t, <2>3, CallFields DEF CoverInv
      <3>2. BelowTips(chain', call[q].frontier)
        BY <2>2, <3>1, BelowTipsGrows DEF CallCovered
      <3>3. call[q].phase \in {"list", "load"} => BelowTips(chain', call[q].asked)
        BY <2>2, <3>1, BelowTipsGrows DEF CallCovered
      <3> QED
        BY <2>2, <3>1, <3>2, <3>3 DEF CallCovered
    <2> QED
      BY <2>2, <2>3 DEF CoverInv
  <1>2. ASSUME NEW p \in Process, OnlyCall(p), call'[p] # None => CallCovered(p)'
        PROVE  CoverInv'
    BY <1>2 DEF OnlyCall, CoverInv, CallCovered
  <1>3. ASSUME NEW p \in Process, materialize(p) \/ createCheckpoint(p) PROVE CoverInv'
    <2>1. createCheckpoint(p) => cached[p] = None
      BY DEF createCheckpoint
    <2>2. chain \in Chain
      BY <1>t DEF TypeOK
    <2> QED
      BY <1>t, <1>2, <1>3, <2>1, <2>2, BeginStep, EmptyCovers DEF CallCovered, OnlyCall
  <1>4. ASSUME NEW p \in Process, _loadLatestCheckpoint(p) PROVE CoverInv'
    <2>1. /\ OnlyCall(p) /\ call[p] # None
          /\ call'[p].phase = "list"
          /\ call'[p].base \in {checkpoint, emptyCheckpoint}
          /\ call'[p].asked = tips
          /\ call'[p].frontier = call[p].frontier
          /\ chain' = chain
      BY <1>t, <1>4, LoadLatestStep DEF OnlyCall
    <2>2. CallCovered(p)
      BY <2>1 DEF CoverInv
    <2>3. Covers(call'[p].base.frontier, call'[p].base.state.got)
      BY <2>1, EmptyCovers DEF CoverInv
    <2>4. \A w \in Writer : tips[w] = Len(chain[w]) /\ tips[w] \in Nat
      BY <1>t, TipsType DEF Tips
    <2>5. BelowTips(chain, tips) /\ \A w \in Writer : call[p].frontier[w] <= tips[w]
      BY <2>2, <2>4 DEF BelowTips, CallCovered
    <2> QED
      BY <1>2, <2>1, <2>2, <2>3, <2>5 DEF CallCovered
  <1>5. ASSUME NEW p \in Process, discoverWriters(p) PROVE CoverInv'
    <2>1. /\ OnlyCall(p) /\ call[p] # None /\ call[p].phase = "list"
          /\ call'[p].phase = "load"
          /\ call'[p].todo = someWriters
          /\ call'[p].base = call[p].base
          /\ call'[p].asked = call[p].asked
          /\ call'[p].frontier = call[p].frontier
          /\ chain' = chain
      BY <1>t, <1>5, DiscoverStep DEF OnlyCall
    <2>2. CallCovered(p)
      BY <2>1 DEF CoverInv
    <2>3. ASSUME NEW w \in Writer, w \notin someWriters, NEW k \in 1..call[p].asked[w]
          PROVE  FALSE
      <3>1. Len(chain[w]) = 0
        BY <2>3 DEF someWriters
      <3>2. call[p].asked[w] <= 0
        BY <2>1, <2>2, <3>1 DEF CallCovered, BelowTips
      <3>3. call[p].asked[w] \in Nat
        BY <1>t, <2>1, CallFields DEF Tips
      <3> QED
        BY <2>3, <3>2, <3>3
    <2> QED
      BY <1>2, <2>1, <2>2, <2>3 DEF CallCovered
  <1>6. ASSUME NEW p \in Process, NEW w \in Writer, _loadPatchesSince(p, w) PROVE CoverInv'
    <2>1. /\ OnlyCall(p) /\ call[p] # None /\ call[p].phase = "load"
          /\ call'[p].phase = "load"
          /\ call'[p].todo = call[p].todo \ {w}
          /\ call'[p].loaded = call[p].loaded \cup sinceCheckpoint(p, w)
          /\ call'[p].base = call[p].base
          /\ call'[p].asked = call[p].asked
          /\ call'[p].frontier = call[p].frontier
          /\ chain' = chain
      BY <1>t, <1>6, LoadSinceStep DEF OnlyCall
    <2>2. CallCovered(p)
      BY <2>1 DEF CoverInv
    <2>3. ASSUME NEW k \in 1..call[p].asked[w]
          PROVE  <<w, k>> \in call[p].base.state.got \cup sinceCheckpoint(p, w)
      <3>1. /\ call[p].asked[w] \in Nat /\ call[p].base.frontier[w] \in Nat
            /\ Len(chain[w]) \in Nat
        BY <1>t, <2>1, CallFields DEF Tips, TypeOK, Chain
      <3>2. call[p].asked[w] <= Len(chain[w])
        BY <2>1, <2>2 DEF CallCovered, BelowTips
      <3>3. CASE k <= call[p].base.frontier[w]
        BY <2>2, <3>1, <3>3 DEF CallCovered, Covers
      <3>4. CASE k > call[p].base.frontier[w]
        <4>1. k \in (call[p].base.frontier[w] + 1)..Len(chain[w])
          BY <3>1, <3>2, <3>4
        <4> QED
          BY <4>1 DEF sinceCheckpoint
      <3> QED
        BY <3>1, <3>3, <3>4
    <2>4. ASSUME NEW x \in Writer \ (call[p].todo \ {w}), NEW k \in 1..call[p].asked[x]
          PROVE  <<x, k>> \in call[p].base.state.got \cup (call[p].loaded \cup sinceCheckpoint(p, w))
      <3>1. CASE x = w
        BY <2>3, <3>1
      <3>2. CASE x # w
        BY <2>1, <2>2, <3>2 DEF CallCovered
      <3> QED
        BY <3>1, <3>2
    <2> QED
      BY <1>2, <2>1, <2>2, <2>4 DEF CallCovered
  <1>7. ASSUME NEW p \in Process, NEW w \in Writer, readTip(p, w) PROVE CoverInv'
    <2>1. /\ OnlyCall(p) /\ call[p] # None /\ call[p].phase = "frontier"
          /\ call'[p].phase = "frontier"
          /\ call'[p].frontier = [call[p].frontier EXCEPT ![w] = Len(chain[w])]
          /\ call'[p].base = call[p].base
          /\ chain' = chain /\ cached' = cached
      BY <1>t, <1>7, ReadTipStep DEF OnlyCall
    <2>2. CallCovered(p) /\ call[p].frontier \in Tips /\ Len(chain[w]) \in Nat
      BY <1>t, <2>1, CallFields DEF CoverInv, TypeOK, Chain
    <2>3. BelowTips(chain, call'[p].frontier)
      BY <2>1, <2>2 DEF CallCovered, BelowTips, Tips
    <2> QED
      BY <1>2, <2>1, <2>2, <2>3 DEF CallCovered
  <1>8. ASSUME NEW p \in Process, takeState(p) PROVE CoverInv'
    <2>1. /\ OnlyCall(p) /\ call[p] # None /\ call[p].phase = "frontier"
          /\ cached[p] = None => call'[p].phase = "base"
          /\ call'[p].frontier = call[p].frontier
          /\ call'[p].base = call[p].base
          /\ chain' = chain
      BY <1>t, <1>8, TakeStateStep DEF OnlyCall
    <2>2. CallCovered(p)
      BY <2>1 DEF CoverInv
    <2>3. call'[p].phase = "base"
      BY <2>1, <2>2 DEF CallCovered
    <2> QED
      BY <1>2, <2>1, <2>2, <2>3 DEF CallCovered
  <1>9. ASSUME NEW p \in Process, install(p) PROVE CoverInv'
    <2>1. /\ call[p] # None /\ call[p].phase = "load" /\ call[p].todo = {}
          /\ \A q \in Process : q # p => call'[q] = call[q] /\ cached'[q] = cached[q]
          /\ call'[p] # None => /\ call'[p].phase = "publish"
                                /\ call'[p].state = reduced(p)
                                /\ call'[p].frontier = call[p].frontier
                                /\ call'[p].base = emptyCheckpoint
          /\ chain' = chain /\ checkpoint' = checkpoint
      BY <1>9, InstallStep
    <2>2. CallCovered(p) /\ Covers(call[p].frontier, reduced(p).got)
      BY <2>1, LoadedCovers DEF CoverInv
    <2>3. call'[p] # None => CallCovered(p)'
      BY <2>1, <2>2, EmptyCovers DEF CallCovered
    <2> QED
      BY <2>1, <2>3 DEF CoverInv, CallCovered
  <1>10. ASSUME NEW p \in Process, publish(p) PROVE CoverInv'
    <2>1. /\ call[p] # None /\ call[p].phase = "publish"
          /\ \A q \in Process : q # p => call'[q] = call[q]
          /\ call'[p] = None
          /\ checkpoint'.frontier = call[p].frontier
          /\ checkpoint'.state = executeGC(call[p].state)
          /\ chain' = chain /\ cached' = cached
      BY <1>t, <1>10, PublishStep
    <2>2. checkpoint'.state.got = call[p].state.got
      BY <1>t, <2>1, CallFields, Compacted
    <2>3. Covers(call[p].frontier, call[p].state.got)
      BY <2>1 DEF CoverInv, CallCovered
    <2> QED
      BY <2>1, <2>2, <2>3 DEF CoverInv, CallCovered
  <1>11. ASSUME NEW p \in Process, runGC(p) PROVE CoverInv'
    BY <1>t, <1>11, RunGCStep DEF CoverInv, CallCovered
  <1>12. ASSUME NEW p \in Process, fail(p) \/ restart(p) PROVE CoverInv'
    BY <1>t, <1>12, DropStep DEF CoverInv, CallCovered
  <1>13. CASE UNCHANGED vars
    BY <1>13 DEF vars, CoverInv, CallCovered
  <1>14. CASE Next
    BY <1>14, <1>1, <1>3, <1>4, <1>5, <1>6, <1>7, <1>8, <1>9, <1>10, <1>11, <1>12 DEF Next
  <1> QED
    BY <1>13, <1>14

\* If createCheckpoint() is never called on an instance that holds a cached state,
\* the state of a checkpoint is reduced from every patch up to its frontier, for any
\* interleaving of commits, materializations, checkpoints and restarts
\* (checkpoint.methods.js createCheckpoint, CheckpointService.js createV5).
THEOREM CheckpointAlwaysCovers ==
    ~ CheckpointCached /\ Spec => []CheckpointCoversFrontier
  <1>1. TypeInv /\ CoverInv => CheckpointCoversFrontier
    <2> SUFFICES ASSUME TypeInv, CoverInv PROVE CheckpointCoversFrontier
      OBVIOUS
    <2>1. checkpoint.frontier \in Tips
      BY DEF TypeInv, TypeOK, CheckpointRec
    <2> QED
      BY <2>1, CoversUpTo DEF CoverInv, CheckpointCoversFrontier
  <1> SUFFICES ASSUME ~ CheckpointCached PROVE Spec => []CheckpointCoversFrontier
    OBVIOUS
  <1>2. TypeInv /\ CoverInv /\ [Next]_vars => CoverInv'
    BY NextCover
  <1> QED
    BY <1>1, <1>2, InitType, NextType, InitCover, PTL DEF Spec

\* Under the same condition no materialization misses a patch that was committed
\* when it was called, whatever checkpoint it starts from
\* (materialize.methods.js materialize, checkpoint.methods.js _loadPatchesSince).
THEOREM MaterializeNeverMisses ==
    ~ CheckpointCached /\ Spec => []MaterializeMissesNothing
  <1>1. TypeInv /\ CoverInv => MaterializeMissesNothing
    <2> SUFFICES ASSUME TypeInv, CoverInv, NEW p \in Process, call[p] # None,
                        call[p].phase = "load", call[p].todo = {}
                 PROVE  upTo(call[p].asked) \subseteq reduced(p).got
      BY DEF MaterializeMissesNothing
    <2>1. call[p].asked \in Tips
      BY CallFields DEF TypeInv
    <2> QED
      BY <2>1, LoadedCovers, CoversUpTo
  <1> SUFFICES ASSUME ~ CheckpointCached PROVE Spec => []MaterializeMissesNothing
    OBVIOUS
  <1>2. TypeInv /\ CoverInv /\ [Next]_vars => CoverInv'
    BY NextCover
  <1> QED
    BY <1>1, <1>2, InitType, NextType, InitCover, PTL DEF Spec

----------------------------------------------------------------------------
(* Compaction is invisible.  A compacted state has forgotten dots that its *)
(* patches add and remove.  Replaying an add of such a dot would bring it  *)
(* back, unless the patch that removes it is replayed too: a writer        *)
(* removes its own dots only, later on its own chain, and what is loaded   *)
(* of a chain reaches beyond every patch of it in the checkpoint's state.  *)

\* a patch adds the dot of its position and removes dots of earlier positions
ChainShape(c) ==
    \A w \in Writer : \A k \in 1..Len(c[w]) :
        /\ c[w][k].adds \subseteq {<<w, k>>}
        /\ \A d \in c[w][k].removes : d[1] = w /\ d[2] < k

\* a state whose patches exist, which holds nothing they do not bring, and in which
\* the same dots are alive as in their replay
Sound(s, c) ==
    /\ Within(c, s.got)
    /\ \A d : <<TheNode, d>> \in s.set.entries => d \in addsOf(c, s.got)
    /\ s.set.tombstones \subseteq removesOf(c, s.got)
    /\ isReplay(s, c)

\* of the patches of a chain that are in got, the ids hold all after one they hold
UpwardIn(got, ids) ==
    \A g \in ids : \A h \in got : h[1] = g[1] /\ h[2] >= g[2] => h \in ids

ReplayInv ==
    /\ ChainShape(chain)
    /\ Sound(checkpoint.state, chain)
    /\ \A p \in Process : cached[p] # None => Sound(cached[p], chain)
    /\ \A p \in Process : call[p] # None =>
          /\ Sound(call[p].base.state, chain)
          /\ Sound(call[p].state, chain)
          /\ UpwardIn(call[p].base.state.got, call[p].loaded)
          /\ call[p].phase \in {"frontier", "base"} => call[p].loaded = {}

LEMMA EmptySound ==
    /\ \A c : Sound(emptyState, c)
    /\ emptyCheckpoint.state = emptyState
  <1>1. /\ emptyState.got = {}
        /\ emptyState.set.entries = {}
        /\ emptyState.set.tombstones = {}
    BY DEF emptyState, createORSet
  <1>2. \A c : addsOf(c, {}) = {} /\ removesOf(c, {}) = {} /\ Within(c, {})
    BY DEF addsOf, removesOf, Within
  <1>3. observedDots(emptyState) = {}
    BY <1>1 DEF observedDots, orsetGetDots
  <1> QED
    BY <1>1, <1>2, <1>3 DEF Sound, isReplay, emptyCheckpoint

LEMMA CompactedSound ==
    ASSUME NEW s \in StateRec, NEW c, Sound(s, c)
    PROVE  Sound(executeGC(s), c)
  BY Compacted DEF Sound, isReplay

LEMMA SoundGrows ==
    ASSUME NEW c \in Chain, NEW d, Longer(c, d), NEW s \in StateRec, Sound(s, c)
    PROVE  Sound(s, d)
  <1>1. Within(c, s.got)
    BY DEF Sound
  <1>2. /\ Within(d, s.got)
        /\ addsOf(d, s.got) = addsOf(c, s.got)
        /\ removesOf(d, s.got) = removesOf(c, s.got)
    BY <1>1, WithinGrows
  <1> QED
    BY <1>2 DEF Sound, isReplay

\* Replaying patches on a sound state makes a sound state, if what it replays of a
\* chain reaches beyond the state's own patches of that chain.
LEMMA AppliedSound ==
    ASSUME NEW c \in Chain, ChainShape(c), NEW s \in StateRec, Sound(s, c),
           NEW ids, Within(c, ids), UpwardIn(s.got, ids)
    PROVE  Sound(applied(s, c, ids), c)
  <1> DEFINE new == applied(s, c, ids)
             A(x) == addsOf(c, x)
             R(x) == removesOf(c, x)
  <1>1. /\ new \in StateRec
        /\ new.got = s.got \cup ids
        /\ new.set.entries = s.set.entries \cup ({TheNode} \X A(ids))
        /\ new.set.tombstones = s.set.tombstones \cup R(ids)
    BY AppliedType DEF applied
  <1> HIDE DEF new
  <1>2. \A d : <<TheNode, d>> \in new.set.entries <=> <<TheNode, d>> \in s.set.entries \/ d \in A(ids)
    BY <1>1
  <1>3. Within(c, new.got)
    BY <1>1 DEF Sound, Within
  <1>4. \A d : d \in A(new.got) <=> d \in A(s.got) \/ d \in A(ids)
    BY <1>1, AddsRemoves
  <1>5. \A d : d \in R(new.got) <=> d \in R(s.got) \/ d \in R(ids)
    BY <1>1, AddsRemoves
  <1>6. ASSUME NEW d, d \in A(ids), d \in R(s.got) PROVE d \in R(ids)
    <2>1. PICK g \in ids : d \in c[g[1]][g[2]].adds
      BY <1>6, AddsRemoves
    <2>2. PICK h \in s.got : d \in c[h[1]][h[2]].removes
      BY <1>6, AddsRemoves
    <2>3. g[1] \in Writer /\ g[2] \in 1..Len(c[g[1]])
      BY DEF Within, PatchId
    <2>4. h[1] \in Writer /\ h[2] \in 1..Len(c[h[1]])
      BY DEF Sound, Within, PatchId
    <2>5. d = <<g[1], g[2]>>
      BY <2>1, <2>3 DEF ChainShape
    <2>6. d[1] = h[1] /\ d[2] < h[2]
      BY <2>2, <2>4 DEF ChainShape
    <2>7. Len(c[g[1]]) \in Nat /\ Len(c[h[1]]) \in Nat
      BY <2>3, <2>4 DEF Chain
    <2>8. h[1] = g[1] /\ h[2] >= g[2]
      BY <2>3, <2>4, <2>5, <2>6, <2>7
    <2>9. h \in ids
      BY <2>8 DEF UpwardIn
    <2> QED
      BY <2>2, <2>9, AddsRemoves
  <1> DEFINE live(x, d) == <<TheNode, d>> \in x.set.entries /\ d \notin x.set.tombstones
  <1>7. \A d : live(s, d) <=> d \in A(s.got) /\ d \notin R(s.got)
    <2>1. \A d : d \in observedDots(s) <=> live(s, d)
      BY ObservedType
    <2> QED
      BY <2>1 DEF Sound, isReplay
  <1>8. /\ \A d : <<TheNode, d>> \in s.set.entries => d \in A(s.got)
        /\ \A d : d \in s.set.tombstones => d \in R(s.got)
    BY DEF Sound
  <1>9. \A d : d \in new.set.tombstones <=> d \in s.set.tombstones \/ d \in R(ids)
    BY <1>1
  <1> HIDE DEF A, R
  <1>10. \A d : live(new, d) <=> d \in A(new.got) /\ d \notin R(new.got)
    BY <1>2, <1>4, <1>5, <1>6, <1>7, <1>8, <1>9, Zenon
  <1>11. isReplay(new, c)
    <2>1. \A d : d \in observedDots(new) <=> live(new, d)
      BY <1>1, ObservedType
    <2>2. observedDots(new) = A(new.got) \ R(new.got)
      BY <1>10, <2>1
    <2> QED
      BY <2>2 DEF isReplay, A, R
  <1>12. /\ \A d : <<TheNode, d>> \in new.set.entries => d \in A(new.got)
         /\ new.set.tombstones \subseteq R(new.got)
    BY <1>2, <1>4, <1>5, <1>8, <1>9
  <1> QED
    BY <1>3, <1>11, <1>12 DEF Sound, A, R, new

LEMMA InitReplay == Init => ReplayInv
  <1> SUFFICES ASSUME Init PROVE ReplayInv
    OBVIOUS
  <1>1. ChainShape(chain)
    BY DEF Init, ChainShape
  <1> QED
    BY <1>1, EmptySound DEF Init, ReplayInv

\* A commit keeps the shape of the chains: what it removes its cached state holds,
\* so patches of its own chain, which are earlier, have added it.
LEMMA CommitShape ==
    ASSUME ~ RemoveOthers, TypeInv, ReplayInv, NEW p \in Process,
           NEW adds \in SUBSET Dot, NEW removes \in SUBSET Dot,
           commit(p, adds, removes),
           adds \subseteq {<<p, Len(chain[p]) + 1>>},
           removes # {} => cached[p] # None,
           \A d \in removes : d \in observedDots(cached[p]) /\ (RemoveOthers \/ d[1] = p)
    PROVE  ChainShape(chain')
  <1> DEFINE n == Len(chain[p])
  <1>1. /\ Longer(chain, chain')
        /\ Len(chain'[p]) = n + 1
        /\ chain'[p][n + 1] = [adds |-> adds, removes |-> removes]
        /\ \A x \in Writer : x # p => chain'[x] = chain[x]
    BY CommitStep DEF TypeInv
  <1>2. p \in Writer /\ n \in Nat
    BY DEF TypeInv, TypeOK, Chain, Process
  <1>3. ASSUME NEW d \in removes PROVE d[1] = p /\ d[2] < n + 1
    <2>1. cached[p] \in StateRec /\ Sound(cached[p], chain)
      BY <1>3 DEF TypeInv, TypeOK, ReplayInv
    <2>2. d \in addsOf(chain, cached[p].got)
      BY <1>3, <2>1, ObservedType DEF Sound
    <2>3. PICK g \in cached[p].got : d \in chain[g[1]][g[2]].adds
      BY <2>2, AddsRemoves
    <2>4. g[1] \in Writer /\ g[2] \in 1..Len(chain[g[1]])
      BY <2>1 DEF Sound, Within, PatchId
    <2>5. d = <<g[1], g[2]>>
      BY <2>3, <2>4 DEF ReplayInv, ChainShape
    <2>6. d[1] = p
      BY <1>3
    <2>7. g[1] = p /\ g[2] \in 1..n
      BY <2>4, <2>5, <2>6
    <2> QED
      BY <1>2, <2>5, <2>7
  <1>4. ASSUME NEW w \in Writer, NEW k \in 1..Len(chain'[w])
        PROVE  /\ chain'[w][k].adds \subseteq {<<w, k>>}
               /\ \A d \in chain'[w][k].removes : d[1] = w /\ d[2] < k
    <2>1. CASE w = p /\ k = n + 1
      BY <1>1, <1>3, <2>1
    <2>2. CASE ~ (w = p /\ k = n + 1)
      <3>1. k \in 1..Len(chain[w])
        BY <1>1, <1>2, <1>4, <2>2
      <3>2. chain'[w][k] = chain[w][k]
        BY <1>1, <3>1 DEF Longer
      <3> QED
        BY <3>1, <3>2 DEF ReplayInv, ChainShape
    <2> QED
      BY <2>1, <2>2
  <1> QED
    BY <1>4 DEF ChainShape

LEMMA NextReplay == ~ RemoveOthers /\ TypeInv /\ ReplayInv /\ [Next]_vars => ReplayInv'
  <1> SUFFICES ASSUME ~ RemoveOthers, TypeInv, ReplayInv, [Next]_vars PROVE ReplayInv'
    OBVIOUS
  <1>t. TypeOK /\ chain \in Chain /\ checkpoint.state \in StateRec
        /\ \A q \in Process : cached[q] # None => cached[q] \in StateRec
    BY DEF TypeInv, TypeOK, CheckpointRec
  <1>1. ASSUME NEW p \in Process, addNode(p) \/ removeNode(p) PROVE ReplayInv'
    <2> DEFINE id == <<p, Len(chain[p]) + 1>>
    <2>1. PICK adds \in SUBSET Dot, removes \in SUBSET Dot :
              /\ commit(p, adds, removes)
              /\ adds \subseteq {<<p, Len(chain[p]) + 1>>}
              /\ removes # {} => cached[p] # None
              /\ \A d \in removes : d \in observedDots(cached[p]) /\ (RemoveOthers \/ d[1] = p)
      BY <1>t, <1>1, WriteStep
    <2>2. /\ chain' \in Chain
          /\ Longer(chain, chain')
          /\ Within(chain', {id})
          /\ UNCHANGED <<checkpoint, call>>
          /\ \A q \in Process : q # p \/ cached[q] = None => cached'[q] = cached[q]
          /\ cached[p] # None => cached'[p] = applied(cached[p], chain', {id})
      BY <1>t, <2>1, CommitStep
    <2>3. ChainShape(chain')
      BY <2>1, CommitShape
    <2>4. \A s \in StateRec : Sound(s, chain) => Sound(s, chain')
      BY <1>t, <2>2, SoundGrows
    <2>5. ASSUME cached[p] # None PROVE Sound(applied(cached[p], chain', {id}), chain')
      <3>1. cached[p] \in StateRec /\ Sound(cached[p], chain) /\ Sound(cached[p], chain')
        BY <1>t, <2>4, <2>5 DEF ReplayInv
      <3>2. ASSUME NEW h \in cached[p].got, h[1] = p, h[2] >= Len(chain[p]) + 1 PROVE FALSE
        <4>1. h[2] \in 1..Len(chain[p])
          BY <3>1, <3>2 DEF Sound, Within
        <4>2. Len(chain[p]) \in Nat
          BY <1>t DEF Chain, Process
        <4> QED
          BY <3>2, <4>1, <4>2
      <3>3. UpwardIn(cached[p].got, {id})
        BY <3>2 DEF UpwardIn
      <3> HIDE DEF id
      <3> QED
        BY <2>2, <2>3, <3>1, <3>3, AppliedSound
    <2> HIDE DEF id
    <2>6. ASSUME NEW q \in Process, cached'[q] # None PROVE Sound(cached'[q], chain')
      BY <1>t, <2>2, <2>4, <2>5, <2>6 DEF ReplayInv
    <2>7. ASSUME NEW q \in Process, call[q] # None
          PROVE  Sound(call[q].base.state, chain') /\ Sound(call[q].state, chain')
      BY <1>t, <2>4, <2>7, CallFields DEF ReplayInv
    <2>8. Sound(checkpoint.state, chain')
      BY <1>t, <2>4 DEF ReplayInv
    <2> QED
      BY <2>2, <2>3, <2>6, <2>7, <2>8 DEF ReplayInv
  <1>2. ASSUME NEW p \in Process, OnlyCall(p),
               Sound(call'[p].base.state, chain), Sound(call'[p].state, chain),
               UpwardIn(call'[p].base.state.got, call'[p].loaded),
               call'[p].phase \in {"frontier", "base"} => call'[p].loaded = {}
        PROVE  ReplayInv'
    BY <1>2 DEF OnlyCall, ReplayInv
  <1>3. ASSUME NEW p \in Process, materialize(p) \/ createCheckpoint(p) PROVE ReplayInv'
    <2>1. UpwardIn(emptyCheckpoint.state.got, {})
      BY DEF UpwardIn
    <2> QED
      BY <1>t, <1>2, <1>3, <2>1, BeginStep, EmptySound
  <1>4. ASSUME NEW p \in Process, _loadLatestCheckpoint(p) PROVE ReplayInv'
    <2>1. /\ OnlyCall(p) /\ call[p] # None /\ call[p].phase = "base"
          /\ call'[p].base \in {checkpoint, emptyCheckpoint}
          /\ call'[p].loaded = call[p].loaded
          /\ call'[p].state = call[p].state
      BY <1>t, <1>4, LoadLatestStep
    <2>2. Sound(call'[p].base.state, chain) /\ Sound(call'[p].state, chain)
      BY <2>1, EmptySound DEF ReplayInv
    <2>3. call[p].loaded = {}
      BY <2>1 DEF ReplayInv
    <2>4. UpwardIn(call'[p].base.state.got, {})
      BY DEF UpwardIn
    <2> QED
      BY <1>2, <2>1, <2>2, <2>3, <2>4
  <1>5. ASSUME NEW p \in Process, discoverWriters(p) PROVE ReplayInv'
    BY <1>t, <1>2, <1>5, DiscoverStep DEF ReplayInv
  <1>6. ASSUME NEW p \in Process, NEW w \in Writer, _loadPatchesSince(p, w) PROVE ReplayInv'
    <2> DEFINE since == sinceCheckpoint(p, w)
               got   == call[p].base.state.got
    <2>1. /\ OnlyCall(p) /\ call[p] # None
          /\ call'[p].phase = "load"
          /\ call'[p].loaded = call[p].loaded \cup since
          /\ call'[p].base = call[p].base
          /\ call'[p].state = call[p].state
      BY <1>t, <1>6, LoadSinceStep
    <2>2. /\ Sound(call[p].base.state, chain) /\ Sound(call[p].state, chain)
          /\ UpwardIn(got, call[p].loaded)
      BY <2>1 DEF ReplayInv
    <2>3. ASSUME NEW g \in since, NEW h \in got, h[1] = g[1], h[2] >= g[2]
          PROVE  h \in since
      <3>1. call[p].base.frontier[w] \in Nat /\ Len(chain[w]) \in Nat
        BY <1>t, <2>1, CallFields DEF Tips, Chain
      <3>2. g[1] = w /\ g[2] \in (call[p].base.frontier[w] + 1)..Len(chain[w])
        BY <2>3 DEF sinceCheckpoint
      <3>3. h \in PatchId /\ h[2] \in 1..Len(chain[h[1]])
        BY <2>2, <2>3 DEF Sound, Within
      <3>4. h[1] = w /\ h = <<w, h[2]>>
        BY <2>3, <3>2, <3>3 DEF PatchId
      <3>5. h[2] \in (call[p].base.frontier[w] + 1)..Len(chain[w])
        BY <2>3, <3>1, <3>2, <3>3, <3>4
      <3> QED
        BY <3>4, <3>5 DEF sinceCheckpoint
    <2> HIDE DEF since
    <2>4. UpwardIn(got, call[p].loaded \cup since)
      BY <2>2, <2>3 DEF UpwardIn
    <2> QED
      BY <1>2, <2>1, <2>2, <2>4
  <1>7. ASSUME NEW p \in Process, NEW w \in Writer, readTip(p, w) PROVE ReplayInv'
    BY <1>t, <1>2, <1>7, ReadTipStep DEF ReplayInv
  <1>8. ASSUME NEW p \in Process, takeState(p) PROVE ReplayInv'
    BY <1>t, <1>2, <1>8, TakeStateStep DEF ReplayInv
  <1>9. ASSUME NEW p \in Process, install(p) PROVE ReplayInv'
    <2>1. /\ call[p] # None
          /\ \A q \in Process : q # p => call'[q] = call[q] /\ cached'[q] = cached[q]
          /\ cached'[p] \in {reduced(p), executeGC(reduced(p))}
          /\ call'[p] # None => /\ call'[p].phase = "publish"
                                /\ call'[p].state = reduced(p)
                                /\ call'[p].loaded = {}
                                /\ call'[p].base = emptyCheckpoint
          /\ chain' = chain /\ checkpoint' = checkpoint
      BY <1>9, InstallStep
    <2>2. Sound(reduced(p), chain)
      <3>1. /\ call[p].base.state \in StateRec
            /\ Sound(call[p].base.state, chain)
            /\ Within(chain, call[p].loaded)
            /\ UpwardIn(call[p].base.state.got, call[p].loaded)
            /\ ChainShape(chain)
        BY <1>t, <2>1, CallFields DEF TypeInv, LoadedWithin, ReplayInv
      <3> QED
        BY <1>t, <3>1, AppliedSound DEF reduced
    <2>3. Sound(executeGC(reduced(p)), chain)
      BY <2>1, <2>2, ReducedType, CompactedSound
    <2>4. UpwardIn(emptyCheckpoint.state.got, {})
      BY DEF UpwardIn
    <2> QED
      BY <2>1, <2>2, <2>3, <2>4, EmptySound DEF ReplayInv
  <1>10. ASSUME NEW p \in Process, publish(p) PROVE ReplayInv'
    <2>1. /\ call[p] # None /\ call'[p] = None
          /\ \A q \in Process : q # p => call'[q] = call[q]
          /\ checkpoint'.state = executeGC(call[p].state)
          /\ chain' = chain /\ cached' = cached
      BY <1>t, <1>10, PublishStep
    <2>2. Sound(executeGC(call[p].state), chain)
      BY <1>t, <2>1, CallFields, CompactedSound DEF ReplayInv
    <2> QED
      BY <2>1, <2>2 DEF ReplayInv
  <1>11. ASSUME NEW p \in Process, runGC(p) PROVE ReplayInv'
    <2>1. Sound(executeGC(cached[p]), chain)
      BY <1>t, <1>11, RunGCStep, CompactedSound DEF ReplayInv
    <2> QED
      BY <1>t, <1>11, <2>1, RunGCStep DEF ReplayInv
  <1>12. ASSUME NEW p \in Process, fail(p) \/ restart(p) PROVE ReplayInv'
    BY <1>t, <1>12, DropStep DEF ReplayInv
  <1>13. CASE UNCHANGED vars
    BY <1>13 DEF vars, ReplayInv
  <1>14. CASE Next
    BY <1>14, <1>1, <1>3, <1>4, <1>5, <1>6, <1>7, <1>8, <1>9, <1>10, <1>11, <1>12 DEF Next
  <1> QED
    BY <1>13, <1>14

\* If writers remove only what they have added, compaction is invisible: however
\* often cached states and checkpoints are compacted and patches replayed on them,
\* the dots alive in a cached state are those alive in a replay of its patches from
\* nothing (ORSet.js orsetCompact, GCPolicy.js executeGC, checkpoint.methods.js
\* _loadPatchesSince).  createCheckpoint() may be called on a cached state.
THEOREM CompactionAlwaysInvisible == ~ RemoveOthers /\ Spec => []CompactionIsInvisible
  <1>1. ReplayInv => CompactionIsInvisible
    BY DEF ReplayInv, Sound, CompactionIsInvisible
  <1> SUFFICES ASSUME ~ RemoveOthers PROVE Spec => []CompactionIsInvisible
    OBVIOUS
  <1>2. TypeInv /\ ReplayInv /\ [Next]_vars => ReplayInv'
    BY NextReplay
  <1> QED
    BY <1>1, <1>2, InitType, NextType, InitReplay, PTL DEF Spec

=============================================================================
