------------------------ MODULE PersistentResources -------------------------
(***************************************************************************)
(* How the session keeps resources and their documents together: change    *)
(* and removal tracking (dirty_tracking.rs, despawn_tracking.rs), loads    *)
(* through PersistentRes and PersistentResMut                              *)
(* (persistent_resource_param.rs) and with every query (hydrate.rs), the   *)
(* resource operations of a commit (prepare_commit.rs), their execution    *)
(* (postgres_connection.rs) and the bookkeeping afterwards (commit.rs).    *)
(*                                                                         *)
(* A resource differs from an entity in that its document's key is its     *)
(* name, known before it is stored, and in that its removal is found by    *)
(* comparing its presence from frame to frame.  A value is a stamp: every  *)
(* change, in the world or by another writer, takes the next one.          *)
(***************************************************************************)
EXTENDS Naturals, FiniteSets

CONSTANTS
    Resources,    \* registered resource types, and the keys of their documents
    Backend,      \* "postgres" or "arango"
    Environment,  \* what the application does besides: see Habits
    MaxClock,     \* bound: stamps given to changes
    MaxVersion,   \* bound: versions of one document
    MaxFailures   \* bound: transactions that fail for a lost connection

\* sharedFrame:     changes a resource by ResMut in a frame that loads anything
\* reinserts:       inserts a resource whose removal is marked and not committed
\* loadsOverEdits:  loads a resource with changes that are not committed
\* loadInFlight:    loads while a commit is in flight
\* insertsUnloaded: inserts a resource that is stored and has not been loaded
\* removesUnseen:   removes a resource in the frame in which it was loaded
\* foreign:         the database has another writer
\* ambiguous:       a connection can be lost after the server has committed
\* undecodable:     a document can be there that does not decode
Habits == {"sharedFrame", "reinserts", "loadsOverEdits", "loadInFlight",
           "insertsUnloaded", "removesUnseen", "foreign", "ambiguous", "undecodable"}

ASSUME ResourcesAssumption ==
    /\ Backend \in {"postgres", "arango"}
    /\ Environment \subseteq Habits
    /\ MaxClock \in Nat \ {0} /\ MaxVersion \in Nat \ {0} /\ MaxFailures \in Nat

VARIABLES
    value,      \* the resource in the world; 0: none
    changed,    \* resources Res::is_changed will report to the tracker
    seen,       \* last_seen_present
    hydrating,  \* hydration_depth > 0
    dirty,      \* dirty_resources
    removed,    \* despawned_resources
    version,    \* VersionManager; 0: no version cached
    db,         \* documents; version 0: no document
    tasks,      \* the commit in flight, if any
    clock,      \* the last stamp given
    failures,   \* connections lost so far
    wanted,     \* ghost: what the application last made of it, until that is stored
    touched,    \* ghost: documents changed behind the session's back
    phase       \* where in the frame the application is

trackerVars == <<changed, seen, hydrating>>
markVars    == <<dirty, removed>>
boundVars   == <<clock, failures>>

vars == <<value, trackerVars, markVars, version, db, tasks, boundVars, wanted, touched,
          phase>>

-----------------------------------------------------------------------------
\* The application has made nothing of it that is not stored.
Settled == MaxClock + 1

Document == [version : 0..MaxVersion, value : 0..MaxClock]

Absent == [version |-> 0, value |-> 0]

Operation == [kind : {"create", "update", "delete"}, resource : Resources,
              expected : 0..MaxVersion, value : 0..MaxClock]

\* CommitMeta: the marks taken, the operations, the result.
CommitTask == [marks : SUBSET Resources, gone : SUBSET Resources,
               ops : SUBSET Operation, result : {"none", "ok", "err"}]

TypeOK ==
    /\ value \in [Resources -> 0..MaxClock]
    /\ changed \subseteq {r \in Resources : value[r] # 0}
    /\ seen \subseteq Resources
    /\ hydrating \in BOOLEAN
    /\ dirty \subseteq Resources /\ removed \subseteq Resources
    /\ version \in [Resources -> 0..(MaxVersion + 1)]
    /\ db \in [Resources -> Document]
    /\ tasks \subseteq CommitTask
    /\ clock \in 0..MaxClock
    /\ failures \in 0..MaxFailures
    /\ wanted \in [Resources -> 0..Settled]
    /\ touched \subseteq Resources
    /\ phase \in {"Update", "PreCommit", "Commit"}

Does(habit) == habit \in Environment

\* A fresh session over a database left by an earlier run.
Init ==
    /\ value = [r \in Resources |-> 0]
    /\ changed = {} /\ seen = {}
    /\ hydrating = FALSE
    /\ dirty = {} /\ removed = {}
    /\ version = [r \in Resources |-> 0]
    /\ db \in [Resources -> {Absent, [version |-> 1, value |-> 0]}]
    /\ tasks = {}
    /\ clock = 0 /\ failures = 0
    /\ wanted = [r \in Resources |-> Settled]
    /\ touched = {}
    /\ phase = "Update"

Present == {r \in Resources : value[r] # 0}

Stored(r) == db[r].version # 0

-----------------------------------------------------------------------------
(* Update: the application's systems.                                      *)

\* The document of an earlier run has the stamp 0; loaded, it counts as the first.
Loaded(r) == IF db[r].value = 0 THEN 1 ELSE db[r].value

Stamp ==
    /\ phase = "Update"
    /\ clock < MaxClock
    /\ clock' = clock + 1

\* Removals that are marked, or carried by the transaction under way.
Removing == removed \cup UNION {t.gone : t \in tasks}

\* insert_resource, or a change through ResMut.
Insert(r) ==
    /\ Stamp
    /\ hydrating => Does("sharedFrame")
    /\ r \in Removing => Does("reinserts")
    /\ Stored(r) /\ version[r] = 0 /\ r \notin touched => Does("insertsUnloaded")
    /\ value' = [value EXCEPT ![r] = clock + 1]
    /\ changed' = changed \cup {r}
    /\ wanted' = [wanted EXCEPT ![r] = clock + 1]
    /\ UNCHANGED <<seen, hydrating, markVars, version, db, tasks, failures, touched, phase>>

\* remove_resource, or remove_all_persisted_resources.
Remove(r) ==
    /\ Stamp
    /\ r \in Present
    /\ r \notin seen => Does("removesUnseen")
    /\ value' = [value EXCEPT ![r] = 0]
    /\ changed' = changed \ {r}
    /\ wanted' = [wanted EXCEPT ![r] = 0]
    /\ UNCHANGED <<seen, hydrating, markVars, version, db, tasks, failures, touched, phase>>

MayLoad(rs) ==
    /\ phase = "Update"
    /\ tasks # {} => Does("loadInFlight")
    /\ hydrating \/ changed \subseteq dirty \/ Does("sharedFrame")
    /\ \A r \in rs : \/ wanted[r] = Settled /\ r \notin dirty \cup Removing
                     \/ Does("loadsOverEdits")

\* materialize_resource: the version is cached, the value inserted over any other.
Materialized(rs) ==
    /\ value' = [r \in Resources |-> IF r \in rs THEN Loaded(r) ELSE value[r]]
    /\ version' = [r \in Resources |-> IF r \in rs THEN db[r].version ELSE version[r]]
    /\ touched' = touched \ rs
    /\ hydrating' = TRUE

\* A query fetches all registered resources (fetch_and_insert_resources), PersistentRes
\* one of them.  An error ends the fetch after any of them.
Load(rs) ==
    /\ MayLoad(rs)
    /\ \A r \in rs : Stored(r)
    /\ Materialized(rs)
    /\ changed' = changed \cup rs
    /\ UNCHANGED <<seen, markVars, db, tasks, boundVars, wanted, phase>>

\* The document does not decode, after its version has been cached: what it holds has
\* not been seen.
NotMaterialized(r) ==
    /\ Does("undecodable")
    /\ MayLoad({r})
    /\ Stored(r)
    /\ version' = [version EXCEPT ![r] = db[r].version]
    /\ hydrating' = TRUE

LoadFails(r) ==
    /\ NotMaterialized(r)
    /\ UNCHANGED <<value, changed, seen, markVars, db, tasks, boundVars, wanted, touched,
                   phase>>

\* PersistentResMut::get_mut: loads the resource if it is absent, marks it whether or
\* not it is there then, and hands it to the system that changes it.
ChangePresent(r) ==
    /\ Stamp
    /\ r \in Present
    /\ r \in Removing => Does("reinserts")
    /\ value' = [value EXCEPT ![r] = clock + 1]
    /\ changed' = changed \cup {r}
    /\ dirty' = dirty \cup {r}
    /\ wanted' = [wanted EXCEPT ![r] = clock + 1]
    /\ UNCHANGED <<seen, hydrating, removed, version, db, tasks, failures, touched, phase>>

LoadAndChange(r) ==
    /\ Stamp
    /\ r \notin Present /\ Stored(r)
    /\ MayLoad({r})
    /\ value' = [value EXCEPT ![r] = clock + 1]
    /\ version' = [version EXCEPT ![r] = db[r].version]
    /\ touched' = touched \ {r}
    /\ hydrating' = TRUE
    /\ changed' = changed \cup {r}
    /\ dirty' = dirty \cup {r}
    /\ wanted' = [wanted EXCEPT ![r] = clock + 1]
    /\ UNCHANGED <<seen, removed, db, tasks, failures, phase>>

\* The document is not there, the fetch fails, or it does not decode: no value, but the
\* mark is left.
MarkAbsent(r) ==
    /\ phase = "Update"
    /\ r \notin Present
    /\ NotMaterialized(r) \/ UNCHANGED <<version, hydrating>>
    /\ dirty' = dirty \cup {r}
    /\ UNCHANGED <<value, changed, seen, removed, db, tasks, boundVars, wanted, touched,
                   phase>>

-----------------------------------------------------------------------------
(* PostUpdate                                                              *)

\* Faulty: only resources that were there before are marked.
TrackedUnlessNew == IF hydrating THEN {} ELSE changed \cap seen

\* track_resource_changed: nothing while hydrating.
Tracked == IF hydrating THEN {} ELSE changed

\* TrackChanges and FinishHydration.
TrackChanges ==
    /\ phase = "Update"
    /\ dirty' = dirty \cup Tracked
    /\ removed' = removed \cup (seen \ Present)
    /\ seen' = Present
    /\ changed' = {}
    /\ hydrating' = FALSE
    /\ phase' = "PreCommit"
    /\ UNCHANGED <<value, version, db, tasks, boundVars, wanted, touched>>

\* Nothing is triggered, or a commit is in flight.
NoCommit ==
    /\ phase = "PreCommit"
    /\ phase' = "Commit"
    /\ UNCHANGED <<value, trackerVars, markVars, version, db, tasks, boundVars, wanted,
                   touched>>

Deletions ==
    {[kind |-> "delete", resource |-> r, expected |-> version[r], value |-> 0]
        : r \in {s \in removed : version[s] # 0}}

\* The resources a commit serializes, those that were removed left out.
Serialized == (dirty \ removed) \cap Present

Upserts ==
    {[kind |-> IF version[r] = 0 THEN "create" ELSE "update", resource |-> r,
      expected |-> version[r], value |-> value[r]] : r \in Serialized}

\* A commit without operations puts the marks back and is answered Ok: a step that
\* changes nothing here, NoCommit.
StartCommit ==
    /\ phase = "PreCommit"
    /\ tasks = {}
    /\ Deletions \cup Upserts # {}
    /\ \A r \in Resources : version[r] < MaxVersion
    /\ tasks' = {[marks |-> dirty, gone |-> removed, ops |-> Deletions \cup Upserts,
                  result |-> "none"]}
    /\ dirty' = {} /\ removed' = {}
    /\ phase' = "Commit"
    /\ UNCHANGED <<value, trackerVars, version, db, boundVars, wanted, touched>>

-----------------------------------------------------------------------------
(* The database, between any two steps of the application.                 *)

\* PostgreSQL: an insert must meet no document of this name, an update or delete the
\* version it expects.
PostgresAccepts(op) ==
    /\ db[op.resource].version = op.expected
    /\ op.kind # "create" => op.expected # 0

\* ArangoDB: an insert that meets a document is ignored, and nobody is told.
ArangoAccepts(op) == op.kind = "create" \/ PostgresAccepts(op)

ArangoIgnores(op) == op.kind = "create" /\ Stored(op.resource)

Accepts(op) == IF Backend = "arango" THEN ArangoAccepts(op) ELSE PostgresAccepts(op)

Ignored(op) == Backend = "arango" /\ ArangoIgnores(op)

Executable(ops) == \A op \in ops : Accepts(op)

\* Faulty: the version the patch carries is raised once more.
ResultAhead(op) ==
    IF op.kind = "delete" THEN Absent
    ELSE [version |-> op.expected + 2, value |-> op.value]

\* The document an operation leaves.
Result(op) ==
    IF op.kind = "delete" THEN Absent
    ELSE [version |-> op.expected + 1, value |-> op.value]

Wrote(ops, r) == {op \in ops : op.resource = r /\ ~Ignored(op)}

Written(ops) ==
    [r \in Resources |-> IF Wrote(ops, r) # {} THEN Result(CHOOSE op \in Wrote(ops, r) : TRUE)
                         ELSE db[r]]

\* What is stored now is no longer wanted.
Fulfilled(ops) ==
    [r \in Resources |-> IF \E op \in Wrote(ops, r) : op.value = wanted[r]
                         THEN Settled ELSE wanted[r]]

Finish(t, result) ==
    /\ t.result = "none"
    /\ tasks' = (tasks \ {t}) \cup {[t EXCEPT !.result = result]}
    /\ UNCHANGED <<value, trackerVars, markVars, version, clock, phase>>

TransactionCommits(t) ==
    /\ Executable(t.ops)
    /\ Finish(t, "ok")
    /\ db' = Written(t.ops)
    /\ wanted' = Fulfilled(t.ops)
    /\ UNCHANGED <<failures, touched>>

TransactionConflicts(t) ==
    /\ ~Executable(t.ops)
    /\ Finish(t, "err")
    /\ UNCHANGED <<db, failures, wanted, touched>>

ConnectionLost(t) ==
    /\ failures < MaxFailures
    /\ failures' = failures + 1
    /\ Finish(t, "err")
    /\ UNCHANGED <<db, wanted, touched>>

\* The connection is lost between the server's COMMIT and its answer.
AnswerLost(t) ==
    /\ Does("ambiguous")
    /\ failures < MaxFailures
    /\ failures' = failures + 1
    /\ Executable(t.ops)
    /\ Finish(t, "err")
    /\ db' = Written(t.ops)
    /\ wanted' = Fulfilled(t.ops)
    /\ touched' = touched \cup {op.resource : op \in t.ops}

ForeignWrite(r) ==
    /\ Does("foreign")
    /\ db[r].version < MaxVersion
    /\ clock < MaxClock
    /\ clock' = clock + 1
    /\ db' = [db EXCEPT ![r] = [version |-> @.version + 1, value |-> clock + 1]]
    /\ touched' = touched \cup {r}
    /\ UNCHANGED <<value, trackerVars, markVars, version, tasks, failures, wanted, phase>>

-----------------------------------------------------------------------------
(* Commit: handle_commit_completed.                                        *)

NothingFinished ==
    /\ phase = "Commit"
    /\ \A t \in tasks : t.result = "none"
    /\ phase' = "Update"
    /\ UNCHANGED <<value, trackerVars, markVars, version, db, tasks, boundVars, wanted,
                   touched>>

Of(kinds, t) == {op.resource : op \in {o \in t.ops : o.kind \in kinds}}

\* Faulty: the version of a deleted document stays cached.
VersionOfDeletedKept(t, r) ==
    IF r \in Of({"create", "update"}, t) THEN version[r] + 1 ELSE version[r]

\* The version cached after the commit, a missing one counted as 0.
VersionAfter(t, r) ==
    IF r \in Of({"create", "update"}, t) THEN version[r] + 1
    ELSE IF r \in Of({"delete"}, t) THEN 0
    ELSE version[r]

\* apply_commit_success.
CommitSucceeded(t) ==
    /\ phase = "Commit"
    /\ t.result = "ok"
    /\ phase' = "Update"
    /\ tasks' = tasks \ {t}
    /\ version' = [r \in Resources |-> VersionAfter(t, r)]
    /\ UNCHANGED <<value, trackerVars, markVars, db, boundVars, wanted, touched>>

\* Faulty: the removals are not restored.
RemovalsForgotten(t) == removed

\* restore_dirty_state_on_failure.
RemovedAfterFailure(t) == removed \cup t.gone

CommitFailed(t) ==
    /\ phase = "Commit"
    /\ t.result = "err"
    /\ phase' = "Update"
    /\ tasks' = tasks \ {t}
    /\ dirty' = dirty \cup t.marks
    /\ removed' = RemovedAfterFailure(t)
    /\ UNCHANGED <<value, trackerVars, version, db, boundVars, wanted, touched>>

-----------------------------------------------------------------------------
Application ==
    \/ \E r \in Resources : \/ Insert(r) \/ Remove(r) \/ ChangePresent(r)
                            \/ LoadAndChange(r) \/ MarkAbsent(r)
                            \/ LoadFails(r)
    \/ \E rs \in SUBSET Resources : Load(rs)

PostUpdate ==
    \/ TrackChanges \/ NoCommit \/ StartCommit \/ NothingFinished
    \/ \E t \in tasks : CommitSucceeded(t) \/ CommitFailed(t)

Database ==
    \/ \E t \in tasks : \/ TransactionCommits(t) \/ TransactionConflicts(t)
                        \/ ConnectionLost(t) \/ AnswerLost(t)
    \/ \E r \in Resources : ForeignWrite(r)

Next == Application \/ PostUpdate \/ Database

Spec == Init /\ [][Next]_vars

-----------------------------------------------------------------------------
(* Properties                                                              *)

\* A change that is not stored is still in the world as the application made it, and is
\* going to be written: the tracker will see it, or it is marked and not taken for
\* removed, or the transaction carries it.
ChangePending(r) ==
    /\ value[r] = wanted[r]
    /\ \/ r \in (dirty \cup Tracked) \ removed
       \/ \E t \in tasks : \E op \in t.ops : op.resource = r /\ op.value = wanted[r]

\* A removal that is not stored: the resource has stayed away, and its document is
\* going to be deleted, if there is one the session can know of.
RemovalPending(r) ==
    /\ r \notin Present
    /\ \/ r \in seen \cup Removing
       \/ ~Stored(r)
       \/ r \in touched

\* Hydration, overlapping commits, conflicts and failures lose nothing that the
\* application has made of a resource ("Automatically marks changed resources as
\* dirty", dirty_tracking.rs:30; despawn_tracking.rs:7).
NothingMadeIsLost ==
    \A r \in Resources :
        /\ wanted[r] = 0 => RemovalPending(r)
        /\ wanted[r] \in 1..MaxClock => ChangePending(r)

\* A transaction is refused only when a document it writes has changed behind the
\* session's back: the cached version follows the document through creation, update,
\* deletion and a new creation under the same name.
ConflictOnlyFromOutside ==
    \A t \in tasks :
        t.result = "none" /\ (\A op \in t.ops : op.resource \notin touched) =>
            Executable(t.ops)

\* A commit that finds no operation, and is answered Ok, leaves no change unsaved.
EmptyCommitSavesAll ==
    phase = "PreCommit" /\ tasks = {} /\ Deletions \cup Upserts = {} =>
        \A r \in Resources : wanted[r] \in 1..MaxClock => db[r].value = wanted[r]

-----------------------------------------------------------------------------
(* What the session promises other writers.                                *)

\* The versions the session holds when it has seen the outcome of its commit.
VersionsHeld ==
    [r \in Resources |-> IF \E t \in tasks : t.result = "ok"
                         THEN VersionAfter(CHOOSE t \in tasks : t.result = "ok", r)
                         ELSE version[r]]

Promise == INSTANCE VersionedDocuments WITH
    Keys <- Resources, documents <- db, known <- VersionsHeld

\* A commit writes all its documents at once, and only over versions that the session
\* has loaded or written; also a resource deleted and created again under its name is
\* held at the version of the document it has.
ImplementsVersionedDocuments == Promise!Spec
=============================================================================
