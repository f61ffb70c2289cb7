-------------------------------- MODULE Fork --------------------------------
(***************************************************************************)
(* Forks of a graph in one repository: fork() checks a point of a writer's *)
(* chain and that the name is free, and lets a writer ref of the new graph *)
(* point to it.  Writers of all graphs commit meanwhile, checkpoints are   *)
(* made, and patches since a checkpoint are checked against its frontier.  *)
(*                                                                         *)
(* Commits are 1, 2, ... as they are made, each above its parent.          *)
(***************************************************************************)
EXTENDS Integers, Sequences

CONSTANTS
    GraphName, ForkWriter,
    Caller,           \* those who call fork, until it succeeds
    MaxForkCommits,   \* bound on the commits
    OverlapForks      \* may a name be taken while a fork is under way

VARIABLES
    repo,     \* repo[c]: the commit c: [parent, graph]
    heads,    \* heads[g][w]: the ref of writer w in graph g, 0 if none
    forking,  \* forking[c]: the call of a caller: [phase, name, writer, at]
    ckpt      \* ckpt[g]: the latest checkpoint: [schema, frontier, state], or none

forkVars == <<repo, heads, forking, ckpt>>

\* of a caller that has not called, or whose call failed and left nothing
noCall == [phase |-> "none", name |-> "", writer |-> "", at |-> 0]
noCheckpoint == [schema |-> 0]

ForkInit ==
    /\ repo = << >>
    /\ heads = [g \in GraphName |-> [w \in ForkWriter |-> 0]]
    /\ forking = [c \in Caller |-> noCall]
    /\ ckpt = [g \in GraphName |-> noCheckpoint]

----------------------------------------------------------------------------
(* Ancestry.                                                               *)

\* a commit and its ancestors
history(c) ==
    LET h[i \in 0..Len(repo)] == IF i = 0 THEN {} ELSE {i} \cup h[repo[i].parent]
    IN  h[c]

\* _isAncestor, along the first parents
_isAncestor(ancestor, descendant) ==
    ancestor # 0 /\ descendant # 0 /\ ancestor \in history(descendant)

\* discoverWriters, listRefs
writersOf(g) == {w \in ForkWriter : heads[g][w] # 0}

\* what a materialization of the graph reduces
shown(g) == UNION {history(heads[g][w]) : w \in ForkWriter}

_relationToCheckpointHead(ckHead, incoming) ==
    CASE incoming = ckHead -> "same"
      [] incoming # ckHead /\ _isAncestor(ckHead, incoming) -> "ahead"
      [] incoming # ckHead /\ _isAncestor(incoming, ckHead) -> "behind"
      [] OTHER -> "diverged"

\* a checkpoint of schema 4 is not looked at
_validatePatchAgainstCheckpoint(w, incoming, ck) ==
    \/ ck.schema \notin {2, 3}
    \/ ck.frontier[w] = 0
    \/ _relationToCheckpointHead(ck.frontier[w], incoming) = "ahead"

\* _loadWriterPatches: from the tip back to stop, or to the first commit
patchesBackTo(tip, stop) ==
    history(tip) \ (IF _isAncestor(stop, tip) THEN history(stop) ELSE {})

\* _loadPatchesSince: [ok, patches]; the tip of a writer that has new patches
\* is validated
_loadPatchesSince(g, ck) ==
    LET new(w) == patchesBackTo(heads[g][w], ck.frontier[w])
    IN  [ok |-> \A w \in writersOf(g) :
                  new(w) # {} => _validatePatchAgainstCheckpoint(w, heads[g][w], ck),
         patches |-> UNION {new(w) : w \in writersOf(g)}]

----------------------------------------------------------------------------
(* What goes on around a fork.                                             *)

underWay(c) == forking[c].phase \in {"validated", "free"}

\* a new graph of the name is not started while a fork is about to be
quietName(g) ==
    OverlapForks \/ writersOf(g) # {} \/ \A c \in Caller : underWay(c) => forking[c].name # g

\* one process for each writer: the commit lands above the ref
commitIn(g, w) ==
    /\ Len(repo) < MaxForkCommits /\ quietName(g)
    /\ repo' = Append(repo, [parent |-> heads[g][w], graph |-> g])
    /\ heads' = [heads EXCEPT ![g][w] = Len(repo) + 1]
    /\ UNCHANGED <<forking, ckpt>>

\* createCheckpoint, of a fresh materialization; 4 is one with an index
checkpointGraph(g, schema) ==
    /\ writersOf(g) # {} /\ ckpt[g] # [schema |-> schema, frontier |-> heads[g], state |-> shown(g)]
    /\ ckpt' = [ckpt EXCEPT ![g] = [schema |-> schema, frontier |-> heads[g], state |-> shown(g)]]
    /\ UNCHANGED <<repo, heads, forking>>

----------------------------------------------------------------------------
(* fork({ from, at, forkName, forkWriterId })                              *)

\* validated, or an error: the chains only grow, so that what one
\* of these reads finds is so when the next one is made
startFork(c) ==
    /\ forking[c].phase = "none"
    /\ OverlapForks \/ \A x \in Caller : ~underWay(x)
    /\ \E g, name \in GraphName, from, w \in ForkWriter, at \in 1..MaxForkCommits :
         LET valid == /\ from \in writersOf(g)
                      /\ at \in 1..Len(repo)               \* nodeExists
                      /\ _isAncestor(at, heads[g][from])
         IN  forking' = [forking EXCEPT ![c] =
               IF valid THEN [phase |-> "validated", name |-> name, writer |-> w, at |-> at]
               ELSE noCall]
    /\ UNCHANGED <<repo, heads, ckpt>>

\* a mutant: only the own ref counts
refIsFree(name, w) == heads[name][w] = 0

\* E_FORK_ALREADY_EXISTS if the name has any refs
nameIsFree(name, w) == writersOf(name) = {}

checkForkName(c) ==
    /\ forking[c].phase = "validated"
    /\ forking' = [forking EXCEPT ![c] =
                     IF nameIsFree(@.name, @.writer) THEN [@ EXCEPT !.phase = "free"] ELSE noCall]
    /\ UNCHANGED <<repo, heads, ckpt>>

\* updateRef, whatever the ref holds by now; then the new graph is opened
createForkRef(c) ==
    /\ forking[c].phase = "free"
    /\ \/ /\ heads' = [heads EXCEPT ![forking[c].name][forking[c].writer] = forking[c].at]
          /\ forking' = [forking EXCEPT ![c].phase = "done"]
       \/ /\ UNCHANGED heads                               \* a Git call fails
          /\ forking' = [forking EXCEPT ![c] = noCall]
    /\ UNCHANGED <<repo, ckpt>>

ForkNext ==
    \/ \E g \in GraphName :
         \/ \E w \in ForkWriter : commitIn(g, w)
         \/ \E schema \in {2, 4} : checkpointGraph(g, schema)
    \/ \E c \in Caller : startFork(c) \/ checkForkName(c) \/ createForkRef(c)

----------------------------------------------------------------------------

\* A graph shows its own commits and, if it was forked, the history up to the
\* fork point: nothing that the source, another fork or another writer did
\* before or after, and nothing of what it had is lost.  Replay on any of its
\* checkpoints is accepted and gives the same as replay of the whole chains
\* (fork, _loadPatchesSince, _validatePatchAgainstCheckpoint)
ForksAreIsolated ==
    \A g \in GraphName :
      LET own == {i \in 1..Len(repo) : repo[i].graph = g}
          points == {forking[c].at : c \in {x \in Caller : forking[x].phase = "done" /\ forking[x].name = g}}
          since == _loadPatchesSince(g, ckpt[g])
      IN  /\ shown(g) = own \cup UNION {history(p) : p \in points}
          /\ ckpt[g] # noCheckpoint => since.ok /\ ckpt[g].state \cup since.patches = shown(g)
=============================================================================
