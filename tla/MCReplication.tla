--------------------------- MODULE MCReplication ---------------------------
(* Instances of Replication for TLC. *)
EXTENDS Replication

CONSTANTS n1, l1, k1, v1

\* Two replicas, each with its writer: any two concurrent patches reach a
\* replica in both orders.
MCWriter == 1..2

\* nodes that come and go; three writes of one property; edges with their
\* properties, and the removal of their nodes
MCMenu ==
    {[methods |-> {"addNode", "removeNode"}, via |-> {"sync"}, maxOps |-> 2, shas |-> {1, 2},
      inOrder |-> TRUE],
     [methods |-> {"setProperty"}, via |-> {"materialize"}, maxOps |-> 1, shas |-> {1, 2, 3},
      inOrder |-> FALSE],
     [methods |-> {"addEdge", "removeEdge", "removeNode", "setEdgeProperty"}, via |-> {"join"},
      maxOps |-> 2, shas |-> {1, 2}, inOrder |-> TRUE]}
=============================================================================
