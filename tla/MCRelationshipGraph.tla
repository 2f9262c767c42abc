-------------------------- MODULE MCRelationshipGraph --------------------------
(* Graphs of five nodes: edges to higher nodes, two back, one node that leads  *)
(* to itself, and a relationship that was not resolved.                        *)
EXTENDS RelationshipGraph

MCCandidates ==
    {e \in Nodes \X Nodes : e[1] < e[2] /\ e[2] <= e[1] + 2}
    \cup {<<3, 1>>, <<5, 4>>, <<4, 4>>, <<2, Unresolved>>}
MCQueries == [focus : {2}, depth : {1, 3}, maxNodes : {3, 5}, maxEdges : {4, 20}]
=============================================================================
