-------------------------- MODULE MCCommitPipeline --------------------------
(***************************************************************************)
(* CommitPipeline on small instances: components c1, c2, a relationship    *)
(* l1, callers w1, w2, one store.                                          *)
(***************************************************************************)
EXTENDS CommitPipeline, TLC

CONSTANTS c1, c2, l1, w1, w2, s1

\* Components and callers are interchangeable; used by runs without liveness.
Symmetry == Permutations({c1, c2}) \cup Permutations({w1, w2})
=============================================================================
