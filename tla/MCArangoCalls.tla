---------------------------- MODULE MCArangoCalls ---------------------------
(***************************************************************************)
(* ArangoCalls on two transactions that write the same two keys in         *)
(* opposite orders, one of them with edges, or on one of them and a read.  *)
(***************************************************************************)
EXTENDS ArangoCalls, TLC

MCKinds == "first" :> {"transaction"} @@ "second" :> {"transaction", "read"}

MCNeeds == "first" :> <<"docs", "edges">> @@ "second" :> <<"docs">>

MCWork == "first" :> <<"k1", "k2">> @@ "second" :> <<"k2", "k1">>

=============================================================================
