-------------------------- MODULE MCEntitySession ---------------------------
(***************************************************************************)
(* EntitySession on small instances: entities e1, e2, documents k1, k2.    *)
(***************************************************************************)
EXTENDS EntitySession, TLC

CONSTANTS e1, e2, k1, k2

\* Entity ids and keys are interchangeable: no definition tells one from another.
Symmetry == Permutations({e1, e2}) \cup Permutations({k1, k2})
=============================================================================
