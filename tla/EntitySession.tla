--------------------------- MODULE EntitySession ----------------------------
(***************************************************************************)
(* How the PersistenceSession keeps entities and documents together: change*)
(* tracking and hydration (core/session/persistence_session/tracking.rs,   *)
(* hydrate.rs; bevy/plugins/persistence_plugin/dirty_tracking.rs,          *)
(* despawn_tracking.rs), the key and version caches (cache.rs), the        *)
(* operations of a commit (prepare_commit.rs), their execution with version*)
(* checks (core/db/postgres_connection.rs) and the bookkeeping when the    *)
(* commit has ended (commit.rs).                                           *)
(*                                                                         *)
(* An entity may carry one persisted component.  Its value is a stamp: each*)
(* edit, by the application or by a writer outside it, takes the next one, *)
(* and so does a removal of the component, to be counted with them.        *)
(* The commit pipeline is CommitPipeline's; of it this module uses that one*)
(* commit is in flight at a time (CommitPipeline!SingleFlight).            *)
(***************************************************************************)
EXTENDS Naturals, FiniteSets

CONSTANTS
    Entities,     \* entity ids; an id names one entity of one run of the app
    Keys,         \* document keys: Guids, uuids
    NoEntity,     \* absent from guid_to_entity
    NoKey,        \* no Guid component; absent from entity_keys
    Environment,  \* what the application does besides: see Habits
    MaxClock,     \* bound: stamps given to edits and removals
    MaxVersion,   \* bound: versions of one document
    MaxFailures   \* bound: transactions that fail for a lost connection

\* sharedFrame:    spawns, and edits what it has just loaded, in a frame that loads
\* loadInFlight:   loads or reconciles versions while a commit is in flight
\* loadDeleted:    loads a document whose deletion is not committed yet
\* despawnUnkeyed: despawns an entity that has no key yet
\* foreign:        the database has another writer
\* ambiguous:      a connection can be lost after the server has committed
\* undecodable:    loads documents whose component does not decode
Habits == {"sharedFrame", "loadInFlight", "loadDeleted", "despawnUnkeyed",
           "foreign", "ambiguous", "undecodable"}

ASSUME SessionAssumption ==
    /\ NoEntity \notin Entities
    /\ NoKey \notin Keys
    /\ Environment \subseteq Habits
    /\ MaxClock \in Nat /\ MaxVersion \in Nat \ {0} /\ MaxFailures \in Nat

VARIABLES
    life,          \* of each entity id
    guid,          \* the Guid component
    carrying,      \* entities that have the persisted component
    value,         \* what is, or was last, in the component
    added,         \* entities that Added<T> will report to the tracker
    changed,       \* entities that Changed<T> will report to the tracker
    removed,       \* RemovedComponents<Guid> not read yet
    hydrating,     \* hydration_depth > 0
    dirty,         \* dirty_entity_components
    despawned,     \* despawned_entities
    entityKeys,    \* entity_keys
    guidToEntity,  \* guid_to_entity
    version,       \* VersionManager; 0: no version cached
    db,            \* documents; version 0: no document
    tasks,         \* the commit in flight, if any
    clock,         \* the last stamp given
    failures,      \* connections lost so far
    touched,       \* ghost: documents changed behind the session's back
    phantoms,      \* ghost: keys taken for stored, of entities that had nothing to store
    phase          \* where in the frame the application is

worldVars   == <<life, guid, carrying, value>>
trackerVars == <<added, changed, removed, hydrating>>
cacheVars   == <<entityKeys, guidToEntity, version>>
boundVars   == <<clock, failures>>
ghosts      == <<touched, phantoms>>

vars == <<worldVars, trackerVars, dirty, despawned, cacheVars, db, tasks, boundVars,
          ghosts, phase>>

-----------------------------------------------------------------------------
Document == [version : 0..MaxVersion, value : 0..MaxClock]

Absent == [version |-> 0, value |-> 0]

Operation == [kind : {"create", "update", "delete"}, entity : Entities, key : Keys,
              expected : 0..MaxVersion, value : 0..MaxClock]

\* CommitMeta and the oneshot channel: the marks taken, the operations, the keys
\* assigned in advance and, a ghost, those of entities that had nothing to store, the
\* result ("none" while the transaction runs).
CommitTask == [marks : SUBSET Entities, gone : SUBSET Entities,
               pre : [Entities -> Keys \cup {NoKey}], void : SUBSET Keys,
               ops : SUBSET Operation, result : {"none", "ok", "err"}]

TypeOK ==
    /\ life \in [Entities -> {"unborn", "live", "gone"}]
    /\ guid \in [Entities -> Keys \cup {NoKey}]
    /\ carrying \subseteq Entities
    /\ value \in [Entities -> 0..MaxClock]
    /\ added \subseteq Entities /\ changed \subseteq Entities
    /\ removed \subseteq Entities
    /\ hydrating \in BOOLEAN
    /\ dirty \subseteq Entities /\ despawned \subseteq Entities
    /\ entityKeys \in [Entities -> Keys \cup {NoKey}]
    /\ guidToEntity \in [Keys -> Entities \cup {NoEntity}]
    /\ version \in [Keys -> 0..(MaxVersion + 1)]
    /\ db \in [Keys -> Document]
    /\ tasks \subseteq CommitTask
    /\ clock \in 0..MaxClock
    /\ failures \in 0..MaxFailures
    /\ touched \subseteq Keys /\ phantoms \subseteq Keys
    /\ phase \in {"Update", "PreCommit", "Commit"}

\* A fresh session over a database left by an earlier run.
FreshSession ==
    /\ life = [e \in Entities |-> "unborn"]
    /\ guid = [e \in Entities |-> NoKey]
    /\ carrying = {}
    /\ value = [e \in Entities |-> 0]
    /\ added = {} /\ changed = {} /\ removed = {}
    /\ hydrating = FALSE
    /\ dirty = {} /\ despawned = {}
    /\ entityKeys = [e \in Entities |-> NoKey]
    /\ guidToEntity = [k \in Keys |-> NoEntity]
    /\ version = [k \in Keys |-> 0]
    /\ tasks = {}
    /\ touched = {} /\ phantoms = {}
    /\ phase = "Update"

Init ==
    /\ FreshSession
    /\ clock = 0
    /\ failures = 0
    /\ db \in [Keys -> {Absent, [version |-> 1, value |-> 0]}]

Live == {e \in Entities : life[e] = "live"}

Does(habit) == habit \in Environment

-----------------------------------------------------------------------------
(* Update: the application's systems.                                      *)

\* The component is inserted or mutated: change detection will report it.
Stamp(e) ==
    /\ clock < MaxClock
    /\ clock' = clock + 1
    /\ value' = [value EXCEPT ![e] = clock + 1]
    /\ changed' = changed \cup {e}

\* A system spawns an entity with the component, and no Guid.
Spawn(e) ==
    /\ phase = "Update"
    /\ life[e] = "unborn"
    /\ hydrating => Does("sharedFrame")
    /\ Stamp(e)
    /\ life' = [life EXCEPT ![e] = "live"]
    /\ carrying' = carrying \cup {e}
    /\ added' = added \cup {e}
    /\ UNCHANGED <<guid, removed, hydrating, dirty, despawned, cacheVars, db, tasks,
                   failures, ghosts, phase>>

\* A system mutates the component.
Edit(e) ==
    /\ phase = "Update"
    /\ e \in carrying
    /\ hydrating /\ e \in added => Does("sharedFrame")
    /\ Stamp(e)
    /\ UNCHANGED <<life, guid, carrying, added, removed, hydrating, dirty, despawned,
                   cacheVars, db, tasks, failures, ghosts, phase>>

\* A system inserts the component into an entity that has lost it.
InsertComponent(e) ==
    /\ phase = "Update"
    /\ e \in Live \ carrying
    /\ hydrating => Does("sharedFrame")
    /\ Stamp(e)
    /\ carrying' = carrying \cup {e}
    /\ added' = added \cup {e}
    /\ UNCHANGED <<life, guid, removed, hydrating, dirty, despawned, cacheVars, db, tasks,
                   failures, ghosts, phase>>

\* A system removes the component.  Nothing observes it, and the entity's mark stays.
RemoveComponent(e) ==
    /\ phase = "Update"
    /\ e \in carrying
    /\ clock < MaxClock
    /\ clock' = clock + 1
    /\ carrying' = carrying \ {e}
    /\ added' = added \ {e}
    /\ changed' = changed \ {e}
    /\ UNCHANGED <<life, guid, value, removed, hydrating, dirty, despawned, cacheVars, db,
                   tasks, failures, ghosts, phase>>

\* A system despawns the entity.  Only RemovedComponents<Guid> will report it.
Despawn(e) ==
    /\ phase = "Update"
    /\ e \in Live
    /\ guid[e] = NoKey => Does("despawnUnkeyed")
    /\ life' = [life EXCEPT ![e] = "gone"]
    /\ guid' = [guid EXCEPT ![e] = NoKey]
    /\ carrying' = carrying \ {e}
    /\ added' = added \ {e}
    /\ changed' = changed \ {e}
    /\ removed' = IF guid[e] # NoKey THEN removed \cup {e} ELSE removed
    /\ UNCHANGED <<value, hydrating, dirty, despawned, cacheVars, db, tasks, boundVars,
                   ghosts, phase>>

-----------------------------------------------------------------------------
(* Update: loads.  The document is fetched and materialized in one step, as*)
(* on the path through ImmediateWorldPtr.                                  *)

\* Entities that are to be deleted and whose deletion is not committed.
Deleting == removed \cup despawned \cup UNION {t.gone : t \in tasks}

MayLoad(k) ==
    /\ phase = "Update"
    /\ tasks # {} => Does("loadInFlight")
    /\ (\E e \in Deleting : entityKeys[e] = k) => Does("loadDeleted")

\* Faulty: every document that is loaded gets an entity of its own.
Unresolved(k) == {}

\* resolve_or_spawn_entity_for_key: the entity indexed under k if it is alive, else
\* an entity that carries the Guid, else a new one.
Resolved(k) ==
    IF guidToEntity[k] \in Live THEN {guidToEntity[k]}
    ELSE {e \in Live : guid[e] = k}

InsertEntityKey(e, k) ==
    /\ entityKeys' = [entityKeys EXCEPT ![e] = k]
    /\ guidToEntity' = [guidToEntity EXCEPT ![k] = e]

SetVersion(k) ==
    /\ version' = [version EXCEPT ![k] = db[k].version]
    /\ hydrating' = TRUE

\* set_version and hydrate_entity_document, which inserts the component.
Hydrate(e, k) ==
    /\ SetVersion(k)
    /\ carrying' = carrying \cup {e}
    /\ value' = [value EXCEPT ![e] = db[k].value]
    /\ added' = IF e \in carrying THEN added ELSE added \cup {e}
    /\ changed' = changed \cup {e}
    /\ touched' = touched \ {k}

\* The component does not decode, after the version has been cached: what the document
\* holds has not been seen.
NotHydrated(k) ==
    /\ Does("undecodable")
    /\ SetVersion(k)
    /\ UNCHANGED <<carrying, value, added, changed, touched>>

\* A document nobody holds is loaded: an entity is spawned for it.
LoadNew(e, k) ==
    /\ MayLoad(k)
    /\ db[k].version # 0
    /\ Resolved(k) = {}
    /\ life[e] = "unborn"
    /\ added # {} => hydrating \/ Does("sharedFrame")
    /\ life' = [life EXCEPT ![e] = "live"]
    /\ guid' = [guid EXCEPT ![e] = k]
    /\ InsertEntityKey(e, k)
    /\ Hydrate(e, k) \/ NotHydrated(k)
    /\ UNCHANGED <<removed, dirty, despawned, db, tasks, boundVars, phantoms, phase>>

\* A document some entity holds is loaded over it: force_refresh(), a presence
\* filter, or a relationship's target.  (Without allow_overwrite nothing changes.)
LoadOver(e, k) ==
    /\ MayLoad(k)
    /\ db[k].version # 0
    /\ e \in Resolved(k)
    /\ added # {} => hydrating \/ Does("sharedFrame")
    /\ InsertEntityKey(e, k)
    /\ Hydrate(e, k) \/ NotHydrated(k)
    /\ UNCHANGED <<life, guid, removed, dirty, despawned, db, tasks, boundVars, phantoms,
                   phase>>

\* reconcile_versions: the versions of all documents are cached, nothing is loaded.
\* Of a document that is gone nothing is learnt.
ReconcileVersions ==
    /\ phase = "Update"
    /\ tasks # {} => Does("loadInFlight")
    /\ Does("foreign")
    /\ version' = [k \in Keys |->
                      IF db[k].version # 0 THEN db[k].version ELSE version[k]]
    /\ touched' = {k \in touched : db[k].version = 0}
    /\ UNCHANGED <<worldVars, trackerVars, dirty, despawned, entityKeys, guidToEntity,
                   db, tasks, boundVars, phantoms, phase>>

-----------------------------------------------------------------------------
(* PostUpdate                                                              *)

\* Faulty: what was added in the frame is not marked, whether it loads or not.
TrackedUnlessAdded == {e \in changed : e \notin added}

\* track_component_changed: what was added in a frame that loads is not marked.
Tracked == {e \in changed : ~(hydrating /\ e \in added)}

\* TrackChanges, then FinishHydration.
TrackChanges ==
    /\ phase = "Update"
    /\ phase' = "PreCommit"
    /\ dirty' = dirty \cup Tracked
    /\ despawned' = despawned \cup removed
    /\ added' = {} /\ changed' = {} /\ removed' = {}
    /\ hydrating' = FALSE
    /\ UNCHANGED <<worldVars, cacheVars, db, tasks, boundVars, ghosts>>

\* There is no trigger; or prepare_commit fails (MissingVersion), or makes no operation,
\* and the marks it was given are put back: the session is left as it was.
NoCommit ==
    /\ phase = "PreCommit"
    /\ phase' = "Commit"
    /\ UNCHANGED <<worldVars, trackerVars, dirty, despawned, cacheVars, db, tasks,
                   boundVars, ghosts>>

\* Nobody knows this key: what a new uuid is.
Fresh(k) ==
    /\ db[k].version = 0
    /\ \A e \in Entities : guid[e] # k /\ entityKeys[e] # k

\* The keys prepare_commit assigns in advance, to every marked entity without a
\* cached key, whether or not it will make an operation of it.
Preassignments ==
    {pre \in [Entities -> Keys \cup {NoKey}] :
        /\ \A e \in Entities :
              CASE e \notin dirty \/ entityKeys[e] # NoKey -> pre[e] = NoKey
                [] OTHER -> IF e \in Live /\ guid[e] # NoKey
                            THEN pre[e] = guid[e]
                            ELSE pre[e] \in {k \in Keys : Fresh(k)}
        /\ \A e, f \in Entities : pre[e] = pre[f] /\ pre[e] # NoKey => e = f}

\* Faulty: only entities that have a key are serialized.
SerializedKeyed == {e \in dirty \cap carrying : entityKeys[e] # NoKey}

\* The marked entities whose serializer returns something: the component is there.
Serialized == dirty \cap carrying

Deletions ==
    {[kind |-> "delete", entity |-> e, key |-> entityKeys[e],
      expected |-> version[entityKeys[e]], value |-> 0]
        : e \in {f \in despawned : entityKeys[f] # NoKey}}

Updates ==
    {[kind |-> "update", entity |-> e, key |-> entityKeys[e],
      expected |-> version[entityKeys[e]], value |-> value[e]]
        : e \in {f \in Serialized : entityKeys[f] # NoKey}}

Creations(pre) ==
    {[kind |-> "create", entity |-> e, key |-> pre[e], expected |-> 0, value |-> value[e]]
        : e \in {f \in Serialized : entityKeys[f] = NoKey}}

\* "Missing version for update", "Missing version for deletion".
MissingVersion == \E op \in Deletions \cup Updates : op.expected = 0

\* The keys assigned to entities that have lost the component, or are gone.
Void(pre) == {pre[e] : e \in {f \in Entities \ carrying : pre[f] # NoKey}}

\* Every mark is taken.  If none of them gives an operation, the commit has one for a
\* resource or for edges.
StartCommit ==
    /\ phase = "PreCommit"
    /\ tasks = {}
    /\ ~MissingVersion
    /\ dirty # {} \/ despawned # {}
    /\ \A k \in Keys : version[k] < MaxVersion
    /\ \E pre \in Preassignments :
          tasks' = {[marks |-> dirty, gone |-> despawned, pre |-> pre,
                     void |-> Void(pre),
                     ops |-> Deletions \cup Updates \cup Creations(pre),
                     result |-> "none"]}
    /\ dirty' = {} /\ despawned' = {}
    /\ phase' = "Commit"
    /\ UNCHANGED <<worldVars, trackerVars, cacheVars, db, boundVars, ghosts>>

-----------------------------------------------------------------------------
(* The database, between any two steps of the application.                 *)

\* Faulty: a version is not compared.
AcceptsUnchecked(op) ==
    IF op.kind = "create" THEN db[op.key].version = 0 ELSE db[op.key].version # 0

\* A create finds no such key; an update or a delete finds the version it expects.
Accepts(op) ==
    IF op.kind = "create" THEN db[op.key].version = 0
    ELSE db[op.key].version = op.expected /\ op.expected # 0

\* Two operations on one document: check_operation_success, or the version that
\* the first of them has raised, refuses the second.
Executable(ops) ==
    /\ \A op \in ops : Accepts(op)
    /\ \A op, other \in ops : op.key = other.key => op = other

\* The document an operation leaves.
Stored(op) ==
    CASE op.kind = "create" -> [version |-> 1, value |-> op.value]
      [] op.kind = "update" -> [version |-> op.expected + 1, value |-> op.value]
      [] OTHER              -> Absent

Written(ops) ==
    [k \in Keys |-> IF \E op \in ops : op.key = k
                    THEN Stored(CHOOSE op \in ops : op.key = k)
                    ELSE db[k]]

Finish(t, result) ==
    /\ t.result = "none"
    /\ tasks' = (tasks \ {t}) \cup {[t EXCEPT !.result = result]}
    /\ UNCHANGED <<worldVars, trackerVars, dirty, despawned, cacheVars, clock, phase>>

TransactionCommits(t) ==
    /\ Executable(t.ops)
    /\ Finish(t, "ok")
    /\ db' = Written(t.ops)
    /\ phantoms' = phantoms \cup t.void
    /\ UNCHANGED <<failures, touched>>

TransactionConflicts(t) ==
    /\ ~Executable(t.ops)
    /\ Finish(t, "err")
    /\ UNCHANGED <<db, failures, ghosts>>

ConnectionLost(t) ==
    /\ failures < MaxFailures
    /\ failures' = failures + 1
    /\ Finish(t, "err")
    /\ UNCHANGED <<db, ghosts>>

\* The connection is lost between the server's COMMIT and its answer.
AnswerLost(t) ==
    /\ Does("ambiguous")
    /\ Executable(t.ops)
    /\ failures < MaxFailures
    /\ failures' = failures + 1
    /\ Finish(t, "err")
    /\ db' = Written(t.ops)
    /\ touched' = touched \cup {op.key : op \in t.ops}
    /\ UNCHANGED phantoms

ForeignWrite(k) ==
    /\ Does("foreign")
    /\ db[k].version \in 1..(MaxVersion - 1)
    /\ clock < MaxClock
    /\ clock' = clock + 1
    /\ db' = [db EXCEPT ![k] = [version |-> @.version + 1, value |-> clock + 1]]
    /\ touched' = touched \cup {k}
    /\ UNCHANGED <<worldVars, trackerVars, dirty, despawned, cacheVars, tasks, failures,
                   phantoms, phase>>

-----------------------------------------------------------------------------
(* Commit: handle_commit_completed.                                        *)

NothingFinished ==
    /\ phase = "Commit"
    /\ \A t \in tasks : t.result = "none"
    /\ phase' = "Update"
    /\ UNCHANGED <<worldVars, trackerVars, dirty, despawned, cacheVars, db, tasks,
                   boundVars, ghosts>>

Of(kind, t) == {op.entity : op \in {o \in t.ops : o.kind = kind}}

\* Faulty: the version of an updated document is not raised.
VersionKept(t, k) ==
    IF \E e \in Entities : t.pre[e] = k THEN 1 ELSE version[k]

\* Faulty: the version of a created document is not recorded.
VersionOfNewForgotten(t, k) ==
    IF version[k] # 0 /\ \E e \in Of("update", t) : entityKeys[e] = k
    THEN version[k] + 1
    ELSE version[k]

\* The version cached for k after the commit.
VersionAfter(t, k) ==
    IF \E e \in Entities : t.pre[e] = k THEN 1
    ELSE IF \E e \in Of("delete", t) : entityKeys[e] = k THEN 0
    ELSE IF version[k] # 0 /\ \E e \in Of("update", t) : entityKeys[e] = k
    THEN version[k] + 1
    ELSE version[k]

\* apply_commit_success.  The keys assigned in advance are recorded for every entity,
\* with version 1, as if it had a document; the Guid is inserted into those that live.
\* (For one that does not, the queued insertion is an error of Bevy's, which its default
\* handler panics at; an application that only logs it goes on as here.)
CommitSucceeded(t) ==
    /\ phase = "Commit"
    /\ t.result = "ok"
    /\ phase' = "Update"
    /\ tasks' = tasks \ {t}
    /\ guid' = [e \in Entities |->
                   IF t.pre[e] # NoKey /\ e \in Live THEN t.pre[e] ELSE guid[e]]
    /\ entityKeys' = [e \in Entities |->
                         IF t.pre[e] # NoKey THEN t.pre[e] ELSE entityKeys[e]]
    /\ guidToEntity' = [k \in Keys |->
                           IF \E e \in Entities : t.pre[e] = k
                           THEN CHOOSE e \in Entities : t.pre[e] = k
                           ELSE guidToEntity[k]]
    /\ version' = [k \in Keys |-> VersionAfter(t, k)]
    /\ UNCHANGED <<life, carrying, value, trackerVars, dirty, despawned, db, boundVars,
                   ghosts>>

\* Faulty: the despawned entities are not restored.
GoneForgotten(t) == despawned

\* Faulty: the dirty components are not restored.
MarksForgotten(t) == dirty

\* restore_dirty_state_on_failure.
DespawnedAfterFailure(t) == despawned \cup t.gone

DirtyAfterFailure(t) == dirty \cup t.marks

CommitFailed(t) ==
    /\ phase = "Commit"
    /\ t.result = "err"
    /\ phase' = "Update"
    /\ tasks' = tasks \ {t}
    /\ dirty' = DirtyAfterFailure(t)
    /\ despawned' = DespawnedAfterFailure(t)
    /\ UNCHANGED <<worldVars, trackerVars, cacheVars, db, boundVars, ghosts>>

\* The process ends, in whatever state, and a new one starts over the database.  A
\* transaction under way lands or does not.
Restart ==
    /\ life' = [e \in Entities |-> "unborn"]
    /\ guid' = [e \in Entities |-> NoKey]
    /\ carrying' = {}
    /\ value' = [e \in Entities |-> 0]
    /\ added' = {} /\ changed' = {} /\ removed' = {}
    /\ hydrating' = FALSE
    /\ dirty' = {} /\ despawned' = {}
    /\ entityKeys' = [e \in Entities |-> NoKey]
    /\ guidToEntity' = [k \in Keys |-> NoEntity]
    /\ version' = [k \in Keys |-> 0]
    /\ tasks' = {}
    /\ touched' = {} /\ phantoms' = {}
    /\ phase' = "Update"
    /\ db' \in {db} \cup {Written(t.ops) : t \in {u \in tasks : u.result = "none"
                                                              /\ Executable(u.ops)}}
    /\ UNCHANGED boundVars

-----------------------------------------------------------------------------
Application ==
    \/ \E e \in Entities : \/ Spawn(e) \/ Edit(e) \/ Despawn(e)
                           \/ InsertComponent(e) \/ RemoveComponent(e)
    \/ \E e \in Entities, k \in Keys : LoadNew(e, k) \/ LoadOver(e, k)
    \/ ReconcileVersions

PostUpdate ==
    \/ TrackChanges
    \/ NoCommit
    \/ StartCommit
    \/ NothingFinished
    \/ \E t \in tasks : CommitSucceeded(t) \/ CommitFailed(t)

Database ==
    \/ \E t \in tasks : \/ TransactionCommits(t)
                        \/ TransactionConflicts(t)
                        \/ ConnectionLost(t)
                        \/ AnswerLost(t)
    \/ \E k \in Keys : ForeignWrite(k)

Next == Application \/ PostUpdate \/ Database \/ Restart

Spec == Init /\ [][Next]_vars

-----------------------------------------------------------------------------
(* Properties                                                              *)

Saved(e) == IF guid[e] = NoKey THEN 0 ELSE db[guid[e]].value

\* An edit that the database has not is about to be seen by the tracker, is marked, or
\* is carried as it is by the transaction under way: hydration, overlapping commits and
\* failures leave no edit that no later commit would write.  (It speaks of what is in the
\* world now: an edit that is loaded over, or whose component is removed, is no more.)
NoEditLost ==
    \A e \in carrying : value[e] > Saved(e) =>
        \/ e \in changed
        \/ e \in dirty
        \/ \E t \in tasks : \E op \in t.ops : op.entity = e /\ op.value = value[e]

\* The same of despawns: an entity that is gone, and whose document is not, is still
\* going to be deleted.
NoDespawnLost ==
    \A e \in Entities : life[e] = "gone" /\ entityKeys[e] # NoKey =>
        db[entityKeys[e]].version = 0 \/ e \in Deleting

\* A transaction is refused exactly when a document it writes has changed behind the
\* session's back, or is a phantom, which no commit ever made: one writer whose entities
\* keep the component until it is stored meets no conflict, and a change the session has
\* not seen is never overwritten.
ConflictOnlyFromOutside ==
    \A t \in tasks : t.result = "none" =>
        (Executable(t.ops) <=> \A op \in t.ops : op.key \notin touched \cup phantoms)

\* Two live entities never carry the same Guid.
OneEntityPerKey ==
    \A e, f \in Live : guid[e] = guid[f] /\ guid[e] # NoKey => e = f

\* No mark ever makes prepare_commit fail for want of a version: as the marks are put
\* back, it would fail for every commit after.
CommitsNeverPoisoned == ~MissingVersion

-----------------------------------------------------------------------------
(* What the session promises other writers.                                *)

\* The versions the session holds when it has seen the outcome of its commit.
VersionsHeld ==
    [k \in Keys |-> IF \E t \in tasks : t.result = "ok"
                    THEN VersionAfter(CHOOSE t \in tasks : t.result = "ok", k)
                    ELSE version[k]]

\* What the session holds a version of is in the database, through commits that are not
\* collected yet and restarts, unless it was deleted behind its back; of the keys that
\* apply_commit_success records, all but those of entities that had nothing to store.
RecordedIsStored ==
    \A k \in Keys : VersionsHeld[k] # 0 =>
        db[k].version # 0 \/ k \in touched \cup phantoms

Promise == INSTANCE VersionedDocuments WITH
    documents <- db,
    known     <- [k \in Keys |-> IF k \in phantoms THEN 0 ELSE VersionsHeld[k]]

\* A commit writes all its documents at once, and only over versions that the session
\* has loaded or written; what it then takes for the version of a document is that of
\* the document it has left, through creation, update, deletion, failures whose
\* transaction has landed, other writers and restarts.  A phantom is no document: the
\* version 1 that is recorded for it lets nothing through.
ImplementsVersionedDocuments == Promise!Spec

-----------------------------------------------------------------------------
(* What the documentation says and the code does not do (see README.md).   *)

\* "These keys were embedded in the documents sent to the DB, so the DB already has
\* them": every key assigned in advance that a successful commit records is that of a
\* document.
PreassignedKeysStored ==
    \A t \in tasks : t.result = "ok" =>
        \A e \in Entities : t.pre[e] # NoKey => db[t.pre[e]].version # 0
=============================================================================
