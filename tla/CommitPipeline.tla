--------------------------- MODULE CommitPipeline ---------------------------
(***************************************************************************)
(* The commit state machine of the persistence plugin                      *)
(* (bevy/plugins/persistence_plugin/commit.rs, listeners.rs, the system    *)
(* order of plugin.rs, and core/session/commit.rs on the caller's side).   *)
(*                                                                         *)
(* The application's frames and the database task run concurrently.  A     *)
(* frame is: user systems (phase "Update"), then the two PreCommit systems *)
(* in either order, then handle_commit_completed (phase "Commit").         *)
(*                                                                         *)
(* The session's data is abstracted to persistent units.  A unit is a      *)
(* component of an entity, a resource, or a despawn; the units in Links    *)
(* are relationship targets, which the code keeps in a dirty set of their  *)
(* own (dirty_relationship_entities).  A unit's contents are the number of *)
(* changes made to it.  A unit may be absent: it has nothing a commit could*)
(* store, whatever its mark says.                                          *)
(***************************************************************************)
EXTENDS Naturals, Sequences, FiniteSets

CONSTANTS
    Units,        \* the persistent units of the session
    Links,        \* those that are relationships
    Waiters,      \* correlation ids; each is registered once (unique ids)
    Stores,       \* non-empty store names
    EmptyStore,   \* the empty store name
    NoCid,        \* correlation_id: None
    MaxChanges,   \* bound: changes made to one unit
    MaxQueue,     \* bound: TriggerCommit messages waiting at once
    MaxFailures   \* bound: transactions or preparations that fail

ASSUME PipelineAssumption ==
    /\ Links \subseteq Units
    /\ NoCid \notin Waiters
    /\ EmptyStore \notin Stores
    /\ MaxChanges \in Nat /\ MaxQueue \in Nat /\ MaxFailures \in Nat

VARIABLES
    world,      \* changes made to each unit by the application
    absent,     \* units with nothing to store: removed since, or never there
    durable,    \* the change of each unit that the database holds
    dirty,      \* units marked dirty in the PersistenceSession
    triggers,   \* Messages<TriggerCommit>
    status,     \* CommitStatus
    tasks,      \* CommitTask entities with their CommitMeta
    completed,  \* CommitCompleted messages the listener has not read
    listeners,  \* CommitEventListeners: ids with a registered sender
    waiter,     \* what the holder of each receiver knows
    promised,   \* ghost: the world when each waiter sent its trigger
    coalesced,  \* ghost: waiters whose trigger was not the first of its drain
    ungated,    \* ghost: some user trigger was not gated by commit_in_flight
    failures,   \* failures so far
    phase,      \* where in the frame the application is
    ran         \* PreCommit systems that have run in this frame

vars == <<world, absent, durable, dirty, triggers, status, tasks, completed, listeners,
          waiter, promised, coalesced, ungated, failures, phase, ran>>

dataVars   == <<world, absent, durable>>
callerVars == <<listeners, waiter, promised>>
ghosts     == <<coalesced, ungated>>

-----------------------------------------------------------------------------
Cids == Waiters \cup {NoCid}

Tracked == Units \ Links

Contents == [Units -> 0..MaxChanges]

Zero == [u \in Units |-> 0]

CommitStatus == {"Idle", "InProgress", "InProgressAndDirty"}

TriggerCommit == [cid : Cids, store : Stores \cup {EmptyStore}, followUp : BOOLEAN]

\* A spawned commit: the dirty marks it took, the documents it serialized, the units
\* that gave none, the result its oneshot channel holds ("none" while the transaction
\* runs).
CommitTask == [cid : Cids, store : Stores, taken : SUBSET Units, snap : Contents,
               void : SUBSET Units, result : {"none", "ok", "err"}]

CommitCompleted == [cid : Cids, ok : BOOLEAN]

PreCommit == {"commit_event_listener", "handle_commit_trigger"}

TypeOK ==
    /\ world \in Contents
    /\ absent \subseteq Tracked
    /\ durable \in Contents
    /\ dirty \subseteq Units
    /\ triggers \in Seq(TriggerCommit)
    /\ status \in CommitStatus
    /\ tasks \subseteq CommitTask
    /\ completed \subseteq CommitCompleted
    /\ listeners \subseteq Waiters
    /\ waiter \in [Waiters -> {"new", "waiting", "ok", "err", "timedOut"}]
    /\ promised \in [Waiters -> Contents]
    /\ coalesced \subseteq Waiters
    /\ ungated \in BOOLEAN
    /\ failures \in 0..MaxFailures
    /\ phase \in {"Update", "PreCommit", "Commit"}
    /\ ran \subseteq PreCommit

Init ==
    /\ world = Zero
    /\ absent = {}
    /\ durable = Zero
    /\ dirty = {}
    /\ triggers = <<>>
    /\ status = "Idle"
    /\ tasks = {}
    /\ completed = {}
    /\ listeners = {}
    /\ waiter = [w \in Waiters |-> "new"]
    /\ promised = [w \in Waiters |-> Zero]
    /\ coalesced = {}
    /\ ungated = FALSE
    /\ failures = 0
    /\ phase = "Update"
    /\ ran = {}

-----------------------------------------------------------------------------
(* User systems, and a caller between two frames.                          *)

\* A user system changes a unit, or brings it back; the TrackChanges systems mark it
\* dirty before PreCommit runs.
Change(u) ==
    /\ phase = "Update"
    /\ world[u] < MaxChanges
    /\ world' = [world EXCEPT ![u] = @ + 1]
    /\ absent' = absent \ {u}
    /\ dirty' = dirty \cup {u}
    /\ UNCHANGED <<durable, triggers, status, tasks, completed, callerVars,
                   ghosts, failures, phase, ran>>

\* Change detection fires on a mutable access that changes nothing.  A component or
\* resource is then written again as it was; a relationship gives no operation.
Touch(l) ==
    /\ phase = "Update"
    /\ dirty' = dirty \cup {l}
    /\ UNCHANGED <<dataVars, triggers, status, tasks, completed, callerVars,
                   ghosts, failures, phase, ran>>

\* Callers whose trigger waits for handle_commit_trigger.
Queued(w) == \E k \in 1..Len(triggers) : triggers[k].cid = w

\* A user system removes the component or the resource, despawns its entity, or what
\* was despawned turns out never to have been stored.  The mark stays; what a caller
\* wanted saved before the commit has begun is withdrawn.
Withdraw(u) ==
    /\ phase = "Update"
    /\ u \in Tracked \ absent
    /\ absent' = absent \cup {u}
    /\ promised' = [w \in Waiters |->
                       IF Queued(w) THEN [promised[w] EXCEPT ![u] = 0] ELSE promised[w]]
    /\ UNCHANGED <<world, durable, dirty, triggers, status, tasks, completed, listeners,
                   waiter, ghosts, failures, phase, ran>>

\* commit_in_flight, the run condition.
CommitInFlight == status # "Idle"

\* A user's message.  Under run_if(not(commit_in_flight)), with one triggering
\* system, it is written while nothing is in flight and no other message waits.
WriteTrigger(cid, s) ==
    /\ phase = "Update"
    /\ Len(triggers) < MaxQueue
    /\ triggers' = Append(triggers, [cid |-> cid, store |-> s, followUp |-> FALSE])
    /\ ungated' = (ungated \/ CommitInFlight \/ triggers # <<>>)
    /\ UNCHANGED <<dataVars, dirty, status, tasks, completed, coalesced, failures,
                   phase, ran>>

\* A caller registers a listener and writes a TriggerCommit that carries its
\* correlation id: session::commit, or the same two calls made by hand.  commit()
\* refuses an empty store before it gets here; a trigger written by hand may
\* carry one.
Request(w, s) ==
    /\ WriteTrigger(w, s)
    /\ waiter[w] = "new"
    /\ waiter' = [waiter EXCEPT ![w] = "waiting"]
    /\ promised' = [promised EXCEPT ![w] =
                       [u \in Units |-> IF u \in absent THEN 0 ELSE world[u]]]
    /\ listeners' = listeners \cup {w}

\* A user system writes a TriggerCommit nobody waits for.
Trigger(s) ==
    /\ WriteTrigger(NoCid, s)
    /\ UNCHANGED callerVars

\* The 60 second timeout of session::commit fires between two frames.  The
\* receiver is dropped; the listener stays registered.
Timeout(w) ==
    /\ phase = "Update"
    /\ waiter[w] = "waiting"
    /\ waiter' = [waiter EXCEPT ![w] = "timedOut"]
    /\ UNCHANGED <<dataVars, dirty, triggers, status, tasks, completed, listeners,
                   promised, ghosts, failures, phase, ran>>

EnterPostUpdate ==
    /\ phase = "Update"
    /\ phase' = "PreCommit"
    /\ ran' = {}
    /\ UNCHANGED <<dataVars, dirty, triggers, status, tasks, completed, callerVars,
                   ghosts, failures>>

-----------------------------------------------------------------------------
(* PreCommit: commit_event_listener and handle_commit_trigger, unordered.  *)

RunPreCommit(system) ==
    /\ phase = "PreCommit"
    /\ system \notin ran
    /\ ran' = ran \cup {system}
    /\ phase' = IF ran' = PreCommit THEN "Commit" ELSE "PreCommit"

\* Faulty: the completed message is not matched against the correlation id.
AnswerAnyone(w) ==
    IF w \in listeners /\ waiter[w] = "waiting" /\ completed # {}
    THEN IF \E m \in completed : m.ok THEN "ok" ELSE "err"
    ELSE waiter[w]

\* Faulty: only successes are sent to the waiter.
AnswerSuccessOnly(w) ==
    IF /\ w \in listeners
       /\ waiter[w] = "waiting"
       /\ \E m \in completed : m.cid = w /\ m.ok
    THEN "ok" ELSE waiter[w]

\* What the holder of w's receiver finds: the result of the message that names w,
\* if its sender is still registered and it still waits.
Answer(w) ==
    IF /\ w \in listeners
       /\ waiter[w] = "waiting"
       /\ \E m \in completed : m.cid = w
    THEN IF \E m \in completed : m.cid = w /\ m.ok THEN "ok" ELSE "err"
    ELSE waiter[w]

CommitEventListener ==
    /\ RunPreCommit("commit_event_listener")
    /\ waiter' = [w \in Waiters |-> Answer(w)]
    /\ listeners' = listeners \ {m.cid : m \in completed}
    /\ completed' = {}
    /\ UNCHANGED <<dataVars, dirty, triggers, status, tasks, promised, ghosts,
                   failures>>

\* The drain at the head of handle_commit_trigger: only the first message counts,
\* the others are dropped with their correlation ids.
DrainTriggers ==
    /\ RunPreCommit("handle_commit_trigger")
    /\ triggers # <<>>
    /\ triggers' = <<>>
    /\ coalesced' = coalesced \cup
           {w \in Waiters : \E k \in 2..Len(triggers) : triggers[k].cid = w}
    /\ UNCHANGED <<dataVars, callerVars, ungated>>

First == triggers[1]

\* Faulty: a commit is also started while one is in progress.
MayStartTwice == status # "InProgressAndDirty"

\* Only a trigger that finds the pipeline Idle starts a commit.
MayStart == status = "Idle"

NoTrigger ==
    /\ RunPreCommit("handle_commit_trigger")
    /\ triggers = <<>>
    /\ UNCHANGED <<dataVars, dirty, triggers, status, tasks, completed, callerVars,
                   ghosts, failures>>

\* Busy: the message only makes sure that a follow-up will be triggered.
QueueFollowUp ==
    /\ DrainTriggers
    /\ ~MayStart
    /\ status' = "InProgressAndDirty"
    /\ UNCHANGED <<dirty, tasks, completed, failures>>

\* Faulty: an empty store is refused without a word to the caller.
RejectSilently ==
    /\ DrainTriggers
    /\ MayStart
    /\ First.store = EmptyStore
    /\ UNCHANGED <<dirty, status, tasks, completed, failures>>

RejectEmptyStore ==
    /\ DrainTriggers
    /\ MayStart
    /\ First.store = EmptyStore
    /\ completed' = completed \cup {[cid |-> First.cid, ok |-> FALSE]}
    /\ UNCHANGED <<dirty, status, tasks, failures>>

\* The marks prepare_commit makes operations of: each marked component, resource or
\* despawn is written again, if it is there; a relationship only if its edges differ
\* from those committed last.
Effective(marks) == {u \in marks \ absent : u \in Links => world[u] # durable[u]}

NothingToCommit ==
    /\ DrainTriggers
    /\ MayStart
    /\ First.store # EmptyStore
    /\ Effective(dirty) = {}
    /\ completed' = completed \cup {[cid |-> First.cid, ok |-> TRUE]}
    /\ UNCHANGED <<dirty, status, tasks, failures>>

\* prepare_commit returns Err (a missing version, a serializer's error): the marks
\* that were taken are put back.
PrepareFails ==
    /\ DrainTriggers
    /\ MayStart
    /\ First.store # EmptyStore
    /\ dirty # {}
    /\ failures < MaxFailures
    /\ failures' = failures + 1
    /\ completed' = completed \cup {[cid |-> First.cid, ok |-> FALSE]}
    /\ UNCHANGED <<dirty, status, tasks>>

\* take_dirty_state, prepare_commit and spawn_commit_task: every mark is taken, also
\* those that give no operation, the documents are serialized from the world as it is
\* now, the transaction starts.
StartCommit ==
    /\ DrainTriggers
    /\ MayStart
    /\ First.store # EmptyStore
    /\ Effective(dirty) # {}
    /\ dirty' = {}
    /\ tasks' = tasks \cup
           {[cid |-> First.cid, store |-> First.store, taken |-> dirty,
             snap |-> world, void |-> absent, result |-> "none"]}
    /\ status' = IF Len(triggers) > 1 THEN "InProgressAndDirty" ELSE "InProgress"
    /\ UNCHANGED <<completed, failures>>

HandleCommitTrigger ==
    \/ NoTrigger
    \/ QueueFollowUp
    \/ RejectEmptyStore
    \/ NothingToCommit
    \/ PrepareFails
    \/ StartCommit

-----------------------------------------------------------------------------
(* The transaction, on the Tokio runtime, between any two steps above.     *)

\* Faulty: documents are serialized when the transaction runs.
WrittenLate(t) ==
    [u \in Units |-> IF u \in t.taken \ t.void THEN world[u] ELSE durable[u]]

\* The database after the transaction of task t.
Written(t) ==
    [u \in Units |-> IF u \in t.taken \ t.void THEN t.snap[u] ELSE durable[u]]

Finish(t, result) ==
    /\ t.result = "none"
    /\ tasks' = (tasks \ {t}) \cup {[t EXCEPT !.result = result]}
    /\ UNCHANGED <<world, absent, dirty, triggers, status, completed, callerVars,
                   ghosts, phase, ran>>

TransactionCommits(t) ==
    /\ Finish(t, "ok")
    /\ durable' = Written(t)
    /\ UNCHANGED failures

\* A conflict or a lost connection.  If the connection is lost after the server has
\* committed, the caller sees an error although the documents are written.
TransactionFails(t) ==
    /\ failures < MaxFailures
    /\ failures' = failures + 1
    /\ Finish(t, "err")
    /\ durable' \in {durable, Written(t)}

-----------------------------------------------------------------------------
(* Commit: handle_commit_completed.                                        *)

NothingFinished ==
    /\ phase = "Commit"
    /\ phase' = "Update"
    /\ \A t \in tasks : t.result = "none"
    /\ UNCHANGED <<dataVars, dirty, triggers, status, tasks, completed, callerVars,
                   ghosts, failures, ran>>

\* Faulty: nothing is restored.
RestoredNothing(t) == {}

\* Faulty: no follow-up is triggered.
NoFollowUp(t) == <<>>

\* Faulty: the follow-up is sent without a store.
FollowUpWithoutStore(t) ==
    IF t.result = "ok" /\ status = "InProgressAndDirty"
    THEN <<[cid |-> NoCid, followUp |-> TRUE]>>
    ELSE <<>>

\* restore_dirty_state_on_failure: CommitMeta keeps four of the five dirty sets; the
\* relationship marks are not among them.
RestoredOnFailure(t) == t.taken \ Links

\* The follow-up has no correlation id, and the connection and store of the commit
\* that has just ended.
FollowUpOf(t) ==
    IF t.result = "ok" /\ status = "InProgressAndDirty"
    THEN <<[cid |-> NoCid, store |-> t.store, followUp |-> TRUE]>>
    ELSE <<>>

HandleCommitCompleted(t) ==
    /\ phase = "Commit"
    /\ phase' = "Update"
    /\ t.result # "none"
    /\ tasks' = tasks \ {t}
    /\ completed' = completed \cup {[cid |-> t.cid, ok |-> t.result = "ok"]}
    /\ dirty' = IF t.result = "ok" THEN dirty ELSE dirty \cup RestoredOnFailure(t)
    /\ triggers' = triggers \o FollowUpOf(t)
    /\ status' = "Idle"
    /\ UNCHANGED <<dataVars, callerVars, ghosts, failures, ran>>

-----------------------------------------------------------------------------
User ==
    \/ \E u \in Units : Change(u)
    \/ \E u \in Units : Withdraw(u)
    \/ \E l \in Links : Touch(l)
    \/ \E w \in Waiters, s \in Stores \cup {EmptyStore} : Request(w, s)
    \/ \E s \in Stores \cup {EmptyStore} : Trigger(s)
    \/ \E w \in Waiters : Timeout(w)

Frame ==
    \/ EnterPostUpdate
    \/ CommitEventListener
    \/ HandleCommitTrigger
    \/ NothingFinished
    \/ \E t \in tasks : HandleCommitCompleted(t)

Database == \E t \in tasks : TransactionCommits(t) \/ TransactionFails(t)

Next == User \/ Frame \/ Database

Spec == Init /\ [][Next]_vars

\* The application keeps calling update(), and the database answers every request;
\* nothing obliges a user to change or trigger anything.
FairSpec == Spec /\ WF_vars(Frame) /\ WF_vars(Database)

-----------------------------------------------------------------------------
(* Properties                                                              *)

\* At most one transaction is in flight, and CommitStatus says so exactly: Idle
\* with a task outstanding would let two transactions race on the same versions,
\* busy without one would refuse every later trigger for ever.
SingleFlight ==
    /\ Cardinality(tasks) <= 1
    /\ CommitInFlight <=> tasks # {}

\* A change the database does not hold, of something that is there, is either still
\* marked dirty or inside a transaction that carries the unit's current contents;
\* whatever fails, is coalesced or overlaps, no change is left that no later commit
\* would write.
NoMarkLost ==
    \A u \in Tracked \ absent : world[u] # durable[u] =>
        \/ u \in dirty
        \/ \E t \in tasks : u \in t.taken \ t.void /\ t.snap[u] = world[u]

\* A caller that is told Ok finds in the database everything it had changed when it
\* asked, unless it was removed before the commit began: even if its trigger
\* overlapped other commits, failures or changes.
OkMeansDurable ==
    \A w \in Waiters : waiter[w] = "ok" =>
        \A u \in Tracked : durable[u] >= promised[w][u]

\* The data side of the pipeline implements WriteBehind: the database moves only
\* from one whole capture of the world to a later one, although a transaction
\* writes only the marked units and may be reported as failed after it landed.
Project(contents) == [u \in Tracked |-> contents[u]]

Promise == INSTANCE WriteBehind WITH
    Units   <- Tracked,
    world   <- Project(world),
    durable <- Project(durable),
    flight  <- {[contents |-> Project(t.snap), without |-> t.void]
                    : t \in {x \in tasks : x.result = "none"}}

ImplementsWriteBehind == Promise!Spec

\* A caller whose correlation id a transaction carries is answered: the result
\* crosses the task's channel, the completed message and the listener.
TaskWaiterAnswered ==
    \A w \in Waiters :
        (waiter[w] = "waiting" /\ \E t \in tasks : t.cid = w) ~> waiter[w] # "waiting"

\* Where the README's advice is kept (one triggering system, run_if(not(
\* commit_in_flight))), every caller is answered.
GatedWaiterAnswered ==
    \A w \in Waiters : waiter[w] = "waiting" ~> (waiter[w] # "waiting" \/ ungated)

\* What is dirty when a follow-up is queued reaches the database without another
\* trigger, provided nothing fails and it is not removed before.
QueuedChangesReachDatabase ==
    \A u \in Units, n \in 1..MaxChanges :
        (status = "InProgressAndDirty" /\ u \in dirty /\ world[u] = n)
            ~> (durable[u] >= n \/ u \in absent \/ failures > 0)

-----------------------------------------------------------------------------
(* What the documentation says and the code does not do (see README.md).   *)

\* "the first starts (or queues) a commit using its connection/store/correlation id":
\* a waiting caller whose trigger was the first of its drain is still known to a
\* trigger, a task or a message that will answer it.
FirstTriggerKeepsItsWaiter ==
    \A w \in Waiters : waiter[w] = "waiting" /\ w \notin coalesced =>
        \/ \E k \in 1..Len(triggers) : triggers[k].cid = w
        \/ \E t \in tasks : t.cid = w
        \/ \E m \in completed : m.cid = w

\* The "original dirty sets taken at trigger time" are "restored on failure": what
\* NoMarkLost says, for the relationship marks.
LinkMarksRestored ==
    \A u \in Links : world[u] # durable[u] =>
        \/ u \in dirty
        \/ \E t \in tasks : u \in t.taken

=============================================================================
