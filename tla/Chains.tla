------------------------------- MODULE Chains -------------------------------
(***************************************************************************)
(* Writer chains as checkpoints, garbage collection and sync see them.     *)
(*                                                                         *)
(* Each writer id belongs to one process, so its chain is linear (theorem  *)
(* NoPatchLostIfExclusive of PatchCommitProofs): a patch is named          *)
(* <<writer, position>>, and a tip is a length of a chain, 0 if there is   *)
(* no ref.  Patches add and remove one node, whose OR-set is the state;    *)
(* a dot is numbered by the position of the patch that adds it.            *)
(***************************************************************************)
EXTENDS Crdt, Sequences

TheNode == "n"

PatchRec == [adds : SUBSET Dot, removes : SUBSET Dot]

Chain == [Writer -> Seq(PatchRec)]

Tips == [Writer -> Nat]

PatchId == Writer \X Nat

NoTips == [w \in Writer |-> 0]

\* the patches after one frontier up to another
between(from, to) == UNION {{w} \X ((from[w] + 1)..to[w]) : w \in Writer}

upTo(frontier) == between(NoTips, frontier)

addsOf(chain, ids)    == UNION {chain[g[1]][g[2]].adds : g \in ids}
removesOf(chain, ids) == UNION {chain[g[1]][g[2]].removes : g \in ids}

\* A state.  got is a history field: the patches it was reduced from.
StateRec == [set : ORSet({TheNode}), got : SUBSET PatchId]

ASSUME NoneIsNoState == None \notin StateRec

emptyState == [set |-> createORSet, got |-> {}]

\* Patches are applied to a state: adds and removes of an OR-set commute.
applied(state, chain, ids) ==
    [set |-> [entries    |-> state.set.entries \cup ({TheNode} \X addsOf(chain, ids)),
              tombstones |-> state.set.tombstones \cup removesOf(chain, ids)],
     got |-> state.got \cup ids]

\* the largest counter of each writer among the dots of a set
computeAppliedVV(set) ==
    [w \in Writer |->
        LET counters == {0} \cup {e[2][2] : e \in {x \in set.entries : x[2][1] = w}}
        IN  CHOOSE n \in counters : \A m \in counters : m <= n]

\* executeGC: every tombstoned dot up to the state's own version vector goes
executeGC(state) == [state EXCEPT !.set = orsetCompact(@, computeAppliedVV(@))]

\* the dots that a remove of the node observes in a state
observedDots(state) == orsetGetDots(state.set, TheNode)

\* the dots alive in a state are those that its patches add and none removes
isReplay(state, chain) ==
    observedDots(state) = addsOf(chain, state.got) \ removesOf(chain, state.got)

=============================================================================
