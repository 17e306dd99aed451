--------------------------- MODULE MCStoredValues ---------------------------
(* An item of any type beside a struct, with two names of fields and three *)
(* atoms.                                                                  *)
EXTENDS StoredValues, TLC

MCTypesOf == "first" :> Types @@ "second" :> {"struct"}

=============================================================================
