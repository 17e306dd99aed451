---------------------------- MODULE WriteBehind ----------------------------
(***************************************************************************)
(* What the persistence plugin promises about data, with no queue, status, *)
(* task or listener in it.  The application changes a set of persistent    *)
(* units (a component of an entity, a resource, a despawn); a unit may also*)
(* be taken away before it is saved.  From time to time the whole world is *)
(* captured at one instant, and the capture either lands in the database as*)
(* a whole or is dropped.  At most one capture is under way.               *)
(*                                                                         *)
(* The consequence that matters to a user: what the database holds of the  *)
(* units that are there is a state the world has been in, never a mixture  *)
(* of two frames; of a unit that was not there it keeps what it had.       *)
(***************************************************************************)
EXTENDS Naturals

CONSTANTS Units,      \* the persistent units
          MaxChanges  \* bound on the changes made to one unit

VARIABLES world,    \* how often each unit has been changed by the application
          absent,   \* the units that are not there
          durable,  \* the change of each unit that the database holds
          flight    \* {} or {s}: the capture s that is on its way

vars == <<world, absent, durable, flight>>

Zero == [u \in Units |-> 0]

Init ==
    /\ world = Zero
    /\ absent = {}
    /\ durable = Zero
    /\ flight = {}

Change(u) ==
    /\ world[u] < MaxChanges
    /\ world' = [world EXCEPT ![u] = @ + 1]
    /\ absent' = absent \ {u}
    /\ UNCHANGED <<durable, flight>>

Withdraw(u) ==
    /\ absent' = absent \cup {u}
    /\ UNCHANGED <<world, durable, flight>>

Capture ==
    /\ flight = {}
    /\ flight' = {[contents |-> world, without |-> absent]}
    /\ UNCHANGED <<world, absent, durable>>

Land ==
    \E s \in flight :
        /\ flight' = {}
        /\ durable' = [u \in Units |->
                          IF u \in s.without THEN durable[u] ELSE s.contents[u]]
        /\ UNCHANGED <<world, absent>>

Drop ==
    /\ flight # {}
    /\ flight' = {}
    /\ UNCHANGED <<world, absent, durable>>

Next == (\E u \in Units : Change(u) \/ Withdraw(u)) \/ Capture \/ Land \/ Drop

Spec == Init /\ [][Next]_vars
=============================================================================
