------------------------------ MODULE MCReads ------------------------------
(* Instances of GraphReads, Query, Content and Temporal for TLC.  They share
   no state: each behaviour is one of one of them. *)
EXTENDS GraphReads, Query, Content, Temporal

----------------------------------------------------------------------------
(* GraphReads: all arcs between different nodes with the light label, a
   heavy parallel one, and a loop; a step with label 2 costs more than a
   detour, and weight 0 makes ties. *)
MCNode == 1..4
MCPossible == {e \in MCNode \X MCNode \X {1} : e[1] # e[2] /\ e # <<4, 1, 1>>}
                \cup {<<1, 2, 2>>, <<3, 3, 1>>}
MCEdgeWeight == <<1, 3>>
MCNodeWeight == <<1, 2, 0, 1>>

----------------------------------------------------------------------------
(* Query: two ids share a first letter and two a last; a cycle, a loop and a
   parallel edge; one property is a number here and a string there. *)
MCua == <<"u", "a">>
MCub == <<"u", "b">>
MCxb == <<"x", "b">>
MCNodeId == {MCua, MCub, MCxb}
MCEdgeId == {<<MCua, MCub, "l">>, <<MCub, MCxb, "l">>, <<MCxb, MCua, "m">>,
             <<MCub, MCub, "l">>, <<MCua, MCub, "m">>}
MCPropKey == {"p", "q"}
MCPropValue == {<<"number", 1>>, <<"string", 1>>}

MCProps(a, b) ==
    [n \in MCNodeId |->
       [k \in MCPropKey |-> CASE k = "p" /\ n = MCua -> a
                              [] k = "p" /\ n = MCub -> b
                              [] k = "q" /\ n = MCub -> <<"string", 1>>
                              [] k = "p" /\ n = MCxb -> <<"number", 1>>
                              [] OTHER -> Absent]]
MCStartGraphs ==
    [nodes : {MCNodeId, {MCua, MCub}}, edges : SUBSET MCEdgeId,
     props : {MCProps(<<"number", 1>>, <<"number", -2>>), MCProps(<<"string", 1>>, <<"number", 1>>)}]

MCmatch(P) == [type |-> "match", patterns |-> P]
MCout(l, d) == [type |-> "outgoing", label |-> l, depth |-> d]
MCin(l, d) == [type |-> "incoming", label |-> l, depth |-> d]
MCwhere == [type |-> "where", object |-> [k \in {"p"} |-> <<"number", 1>>]]
MCdegree == [type |-> "degree", least |-> 2]
MCaggregate == [type |-> "aggregate", key |-> "p"]
MCselect == [type |-> "select", fields |-> {"id"}]

\* the last two are refused
MCQueryMenu ==
    {<<MCmatch({<<"u", "*">>}), MCout("l", <<0, 2>>), MCselect>>,
     <<MCmatch({MCua}), MCout("", <<1, 3>>), MCwhere>>,
     <<MCwhere, MCout("l", << >>), MCin("", <<2>>)>>,
     <<MCdegree, MCin("l", <<1, 2>>), MCaggregate, MCwhere>>,
     <<MCmatch({<<"*", "b">>}), MCaggregate>>,
     <<MCaggregate, MCout("", << >>)>>,
     <<MCout("", <<2, 1>>)>>}

MCConfigMenu ==
    {everything,
     [match |-> {<<"u", "*">>}, expose |-> {}, redact |-> {"p"}],
     [match |-> {MCua, <<"*", "b">>}, expose |-> {"p"}, redact |-> {}]}

----------------------------------------------------------------------------
VARIABLE component

mcVars == <<component, edges, queryVars, contentVars, temporalVars>>

Init == /\ component \in {"traversal", "query", "content", "temporal"}
        /\ ReadsInit /\ QueryInit /\ ContentInit /\ TemporalInit
        /\ component # "query" => graph = [nodes |-> {MCua, MCub}, edges |-> {}, props |-> MCProps(<<"string", 1>>, <<"number", 1>>)]

Next == /\ UNCHANGED component
        /\ \/ /\ component = "traversal" /\ appear
              /\ UNCHANGED <<queryVars, contentVars, temporalVars>>
           \/ /\ component = "query" /\ QueryNext
              /\ UNCHANGED <<edges, contentVars, temporalVars>>
           \/ /\ component = "content" /\ ContentNext
              /\ UNCHANGED <<edges, queryVars, temporalVars>>
           \/ /\ component = "temporal" /\ TemporalNext
              /\ UNCHANGED <<edges, queryVars, contentVars>>

Spec == Init /\ [][Next]_mcVars
=============================================================================
