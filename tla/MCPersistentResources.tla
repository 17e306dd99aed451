----------------------- MODULE MCPersistentResources ------------------------
(***************************************************************************)
(* PersistentResources on small instances: resources r1, r2.               *)
(***************************************************************************)
EXTENDS PersistentResources, TLC

CONSTANTS r1, r2

\* Resource types are interchangeable: no definition tells one from another.
Symmetry == Permutations({r1, r2})
=============================================================================
