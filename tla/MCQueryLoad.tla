---------------------------- MODULE MCQueryLoad ----------------------------
(***************************************************************************)
(* Instances of QueryLoad: three documents, two queries that share one of  *)
(* them, the first with an edge from its document to another one, and the  *)
(* hydration of that edge.                                                 *)
(***************************************************************************)
EXTENDS QueryLoad, TLC

CONSTANTS d1, d2, d3, q1, q2, h1

MCMatches == q1 :> {d1} @@ q2 :> {d1, d2, d3} @@ h1 :> {d2}

MCRelated == q1 :> {d2} @@ q2 :> {} @@ h1 :> {}

MCHome == [d \in {d1, d2, d3} |-> "default"]

=============================================================================
