----------------------------- MODULE MCDerived -----------------------------
(* Instances of what is derived from a graph and its history for TLC: the   *)
(* sharded index of nodes and edges, the index of commits, provenance,      *)
(* bisection and forks.  They share no state: each behaviour is one of one  *)
(* of them.                                                                 *)
EXTENDS ShardedIndex, CommitIndex, Provenance, Bisect, Fork

CONSTANTS na, nb, nc, nd

\* three nodes share a shard that has ids for two, a fourth has the next one
MCShardKey == [n \in Node |-> IF n = nd THEN 1 ELSE 0]

\* edges across the shards, within one, two labels of a pair, a loop
MCEdges == {{}, {<<na, nd, "x">>, <<na, nd, "y">>, <<nd, nb, "x">>},
            {<<na, nd, "y">>, <<nb, nb, "x">>, <<na, nb, "x">>}}

MCGraph ==
    {[nodes |-> N, edges |-> E, props |-> {}] :
        N \in {{na}, {na, nd}, {na, nb, nd}, {na, nb, nc}}, E \in MCEdges}
      \cup {[nodes |-> {na, nb, nd}, edges |-> E, props |-> P] : E \in {{}, {<<na, nd, "x">>}},
              P \in {{<<na, "k", 1>>}, {<<na, "k", 2>>, <<nc, "k", 1>>}}}

\* a writes first, b is made from it, c from b
MCPatchShape ==
    {[reads |-> {}, writes |-> {"a"}], [reads |-> {"a"}, writes |-> {"b"}],
     [reads |-> {"b"}, writes |-> {"c"}]}

VARIABLE component

mcVars == <<component, shardedVars, commitIndexVars, provenanceVars, bisectVars, forkVars>>

Init == /\ component \in {"sharded", "commits", "provenance", "bisect", "fork"}
        /\ ShardedInit /\ CommitIndexInit /\ ProvenanceInit /\ BisectInit /\ ForkInit
        /\ component # "sharded" => graph = [nodes |-> {na}, edges |-> {}, props |-> {}]

Next ==
    /\ UNCHANGED component
    /\ \/ /\ component = "sharded" /\ ShardedNext
          /\ UNCHANGED <<commitIndexVars, provenanceVars, bisectVars, forkVars>>
       \/ /\ component = "commits" /\ CommitIndexNext
          /\ UNCHANGED <<shardedVars, provenanceVars, bisectVars, forkVars>>
       \/ /\ component = "provenance" /\ ProvenanceNext
          /\ UNCHANGED <<shardedVars, commitIndexVars, bisectVars, forkVars>>
       \/ /\ component = "bisect" /\ BisectNext
          /\ UNCHANGED <<shardedVars, commitIndexVars, provenanceVars, forkVars>>
       \/ /\ component = "fork" /\ ForkNext
          /\ UNCHANGED <<shardedVars, commitIndexVars, provenanceVars, bisectVars>>

Spec == Init /\ [][Next]_mcVars
=============================================================================
