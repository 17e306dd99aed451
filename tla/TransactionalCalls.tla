------------------------- MODULE TransactionalCalls -------------------------
(***************************************************************************)
(* What a connection promises of the calls that run on it at once, with no *)
(* token, collection, table, client or server state in it.  A call that    *)
(* writes does it in a transaction, "one DB operation in our atomic        *)
(* transaction" (db/connection.rs): it is applied as a whole, while it     *)
(* holds every key that it writes, so that calls on the same key follow    *)
(* each other; it is applied at most once, however often it is attempted;  *)
(* and its answer tells the truth, unless the answer of the server is lost.*)
(*                                                                         *)
(* A key that is held may stay so after the answer.                        *)
(***************************************************************************)
EXTENDS Naturals, Sequences

CONSTANTS
    Calls,
    Attempts,  \* of one call; each has a transaction of its own
    Work       \* the keys a call writes, in their order

VARIABLES writes,   \* the calls that are transactions
          holder,   \* the transaction that holds a key, for keys that are held
          applied,  \* how often the writes of a call were applied
          answer    \* the answer of each call

vars == <<writes, holder, applied, answer>>

Transactions == Calls \X Attempts

Init ==
    /\ writes \subseteq Calls
    /\ holder = <<>>
    /\ applied = [c \in Calls |-> 0]
    /\ answer = [c \in Calls |-> "none"]

Holds(t, k) == k \in DOMAIN holder /\ holder[k] = t

Released(t) == [k \in {l \in DOMAIN holder : holder[l] # t} |-> holder[k]]

\* Only a call that is not answered acts on.
Reply(c, answers) ==
    /\ answer[c] = "none"
    /\ \E a \in answers : answer' = [answer EXCEPT ![c] = a]

\* A key is locked and written.
WriteKey(t, k) ==
    /\ t[1] \in writes /\ answer[t[1]] = "none"
    /\ k \in DOMAIN holder => holder[k] = t
    /\ holder' = [l \in DOMAIN holder \cup {k} |-> IF l = k THEN t ELSE holder[l]]
    /\ UNCHANGED <<writes, applied, answer>>

Apply(t) ==
    /\ t[1] \in writes /\ applied[t[1]] = 0
    /\ \A i \in DOMAIN Work[t[1]] : Holds(t, Work[t[1]][i])
    /\ applied' = [applied EXCEPT ![t[1]] = 1]
    /\ holder' = Released(t)
    /\ Reply(t[1], {"none", "ok", "unknown"})
    /\ UNCHANGED writes

\* What may be said of a call, as it stands.
Truths(c) ==
    {"none", "unknown"}
    \cup (IF c \in writes => applied[c] = 1 THEN {"ok"} ELSE {})
    \cup (IF applied[c] = 0 THEN {"refused"} ELSE {})

\* An attempt ends, or only the call is answered.
End(t) ==
    /\ holder' \in {holder, Released(t)}
    /\ Reply(t[1], Truths(t[1]))
    /\ UNCHANGED <<writes, applied>>

Next ==
    \E t \in Transactions :
        \/ \E i \in DOMAIN Work[t[1]] : WriteKey(t, Work[t[1]][i])
        \/ Apply(t)
        \/ End(t)

Spec == Init /\ [][Next]_vars
=============================================================================
