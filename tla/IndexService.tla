---------------------------- MODULE IndexService ----------------------------
(***************************************************************************)
(* What MaterializedViewService promises: the index follows the graph, one *)
(* whole update or build at a time, and is dropped when one fails.  Nodes  *)
(* stand for their ids.                                                    *)
(***************************************************************************)
EXTENDS IndexTree

CONSTANT Graph    \* the graphs: [nodes, edges, props], edges and nodes as they are alive

VARIABLES
    graph,   \* the graph that the index was made for
    view,    \* the index
    built    \* there is one

absVars == <<graph, view, built>>

emptyIndex == [known |-> {}, alive |-> {}, labels |-> {}, fwd |-> {}, rev |-> {}, props |-> {}]

\* build, over the ids and labels of an index that was there or over none
fullBuild(g, known, labels) ==
    [known |-> known \cup g.nodes, alive |-> g.nodes,
     labels |-> labels \cup {e[3] : e \in visible(g)},
     fwd |-> UNION {rows(e[1], e[3], e[2]) : e \in visible(g)},
     rev |-> UNION {rows(e[2], e[3], e[1]) : e \in visible(g)},
     props |-> {p \in g.props : p[1] \in g.nodes}]

AbsInit == graph \in Graph /\ built = FALSE /\ view = emptyIndex

Build == /\ graph' \in Graph /\ built' = TRUE
         /\ \/ view' = fullBuild(graph', {}, {})
            \/ built /\ view' = fullBuild(graph', view.known, view.labels)

Update == /\ built /\ graph' \in Graph /\ built' = TRUE
          /\ view' = computeDirtyShards(view, diffOf(graph, graph'), graph'.nodes, graph'.edges)

Drop == built' = FALSE /\ view' = emptyIndex /\ graph' = graph

AbsNext == absVars' # absVars /\ (Build \/ Update \/ Drop)

AbsSpec == AbsInit /\ [][AbsNext]_absVars
=============================================================================
