--------------------------- MODULE MCPostgresCalls --------------------------
(***************************************************************************)
(* PostgresCalls on two transactions with edges that write the same two    *)
(* rows in opposite orders, and a third call that is a read or a           *)
(* transaction on one of the rows.                                         *)
(***************************************************************************)
EXTENDS PostgresCalls, TLC

MCKinds == "first" :> {"transaction"} @@ "second" :> {"transaction"}
           @@ "third" :> {"transaction", "read"}

MCNeeds == "first" :> <<"docs", "edges">> @@ "second" :> <<"docs", "edges">>
           @@ "third" :> <<"docs">>

MCWork == "first" :> <<"r1", "r2">> @@ "second" :> <<"r2", "r1">> @@ "third" :> <<"r1">>

=============================================================================
