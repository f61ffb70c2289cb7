----------------------------- MODULE MCLiveView -----------------------------
(* Instances of LiveView for TLC. *)
EXTENDS LiveView

CONSTANTS na, nb, l, k, v1, v2, s1

\* two nodes with an edge, and a property
MCSeed == <<[do |-> "addNode", node |-> na], [do |-> "addNode", node |-> nb],
            [do |-> "addEdge", edge |-> <<na, nb, l>>],
            [do |-> "setProperty", node |-> nb, key |-> k, value |-> v1]>>

\* the watched node is the one that never changes: its edges do
MCPattern == {{na}}

MCIntent ==
    {<<[do |-> "removeNode", node |-> nb]>>, <<[do |-> "addNode", node |-> nb]>>,
     <<[do |-> "removeNode", node |-> nb], [do |-> "addNode", node |-> nb]>>,
     <<[do |-> "removeEdge", edge |-> <<na, nb, l>>]>>,
     <<[do |-> "addEdge", edge |-> <<nb, na, l>>]>>,
     <<[do |-> "setProperty", node |-> nb, key |-> k, value |-> v2]>>}
=============================================================================
