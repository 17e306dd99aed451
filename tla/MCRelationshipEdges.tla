------------------------ MODULE MCRelationshipEdges -------------------------
(***************************************************************************)
(* RelationshipEdges on small instances: entities e1, e2, e3.              *)
(***************************************************************************)
EXTENDS RelationshipEdges, TLC

CONSTANTS e1, e2, e3

\* Entity ids are interchangeable: no definition tells one from another.
Symmetry == Permutations({e1, e2, e3})
=============================================================================
