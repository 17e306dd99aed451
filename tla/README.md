# Verification of bevy_persistence_database

The crate keeps a Bevy world and a document database together: it marks what
systems change, turns the marks into the operations of one transaction when it
is asked to commit, and materializes documents into entities when it is asked to
load. Nearly all of it runs inside the frames of a Bevy app; transactions run on
a Tokio runtime beside them. This directory holds TLA+ models of that machinery,
the TLC configurations that check them, and proofs checked by TLAPS.

Paths below are relative to the repository; `commit.rs` alone is
`src/bevy/plugins/persistence_plugin/commit.rs`, and `session/` is
`src/core/session/persistence_session/`.

## 1. Inventory

| Component | State | Operations | Talks to |
|---|---|---|---|
| Commit pipeline (`commit.rs`, `listeners.rs`, `plugin.rs`, `src/core/session/commit.rs`) | `CommitStatus`, `TriggerCommit` and `CommitCompleted` messages, commit task entities with `CommitMeta`, registered listeners | `handle_commit_trigger`, the Tokio task, `handle_commit_completed`, `commit_event_listener`, `commit`/`commit_sync` with a 60 s timeout | session (takes and restores marks, `prepare_commit`), connection (`execute_transaction`), callers (oneshot channels) |
| Change tracking (`dirty_tracking.rs`, `despawn_tracking.rs`, `session/tracking.rs`, `ecs_plumbing.rs`) | five dirty sets, `hydration_depth` | one system per registered type, `take_dirty_state`, `restore_dirty_state`, `finish_hydration` | Bevy change detection; read by the pipeline |
| Session caches and hydration (`session/cache.rs`, `hydrate.rs`, `prepare_commit.rs`) | entity to key, key to entity, versions, edge snapshot | `materialize_*`, `hydrate_*`, `insert_entity_key`, `prepare_commit`, `apply_commit_success` | loads, pipeline |
| Relationship edges (`registries.rs`, `prepare_commit.rs`) | edge snapshot, relationship marks | diff of the scanned edges against the snapshot, upsert and delete | pipeline, loads, hydrator |
| PostgreSQL connection (`postgres_connection.rs`, `shared.rs`) | pool of clients, names of ensured tables; on the server: rows and their locks | `ensure_store_table`, `execute_transaction`, `execute_documents`, `query_edges`, fetches | pipeline, loads |
| ArangoDB connection (`arango_connection.rs`) | one shared handle with a token, names of ensured collections; on the server: streaming transactions and their locks | the same, each through `with_reauth`; `refresh_auth` | pipeline, loads |
| Query language (`src/core/query/`, `presence_spec.rs`, `query_data_to_components.rs`, the builder in `persistence_query.rs`) | none; a specification for each query | `with`, `without`, `filter`, `or`, `by_guids`; types of data and presence; translation to SQL and AQL | loads, both connections |
| Compact encoding and serializers (`compact.rs`, `registries.rs`) | tables of closures, `compact_threshold_bytes` | `to_persist_value`, `from_persist_value`, merge and projection by the databases | commit preparation, hydration |
| Query loading (`src/bevy/params/query/`) | query cache, in-flight hashes, thread-local settings | `load`, `schedule_load`, paginated loads, caching by hash | connection, session, deferred operations |
| Relationship hydrator (`src/bevy/params/hydrator.rs`) | shares the query cache | `load_one`, `load_many`, `load_for` | connection, session |
| Resources (`persistent_resource_param.rs`, `registries.rs`, `hydrate.rs`) | resource marks, presence, versions | `get`, `get_mut`, `materialize_resource`, `fetch_and_insert_resources` | connection, session |
| World access (`src/bevy/world_access/`) | raw world pointer, queue of closures | `push`, `drain`, `publish_immediate_world_ptr` | loads |
| Start-up | none | collecting registered types, runtime, derive macros | |

One frame is: the app's systems in `Update`, then in `PostUpdate` the chained
sets `LoadApply`, `TrackChanges`, `FinishHydration`, `PreCommit`
(`commit_event_listener` and `handle_commit_trigger`, unordered), `Commit`
(`handle_commit_completed`). A transaction starts and ends between any two of
these steps; loads on the immediate path block the frame.

What is hard: a commit outlives the frame that started it, so changes, despawns,
loads, further triggers, timeouts and crashes interleave with it; the marks are
taken before the outcome is known and have to come back if it is bad; versions
are cached in the session and raised when the task is collected, not when the
database commits; hydration is one flag for the whole session; an answer may be
lost after the server has committed. The databases add their own: updates are merged
into what is stored, a call may be repeated after a new login, calls wait for clients
and for locks, and SQL and AQL do not mean the same by a comparison with what is not
there. `PROJECT.json` lists each of these hazards
at its line, with the properties aimed at it or the reason why there is none.

What makes each component correct:

* pipeline: one transaction at a time; no mark lost; callers answered once, with
  the result of a transaction that carries what they changed; the database only
  ever holds a state the world has been in;
* session: edits and despawns reach the database; versions agree with the
  database unless somebody else wrote; one live entity per document; marks that
  can always be turned into operations;
* edges: the database's edges are those of the world; the snapshot is what was
  committed;
* loading: a query is not answered from a cache entry that a different or a
  failed query left; every scheduled load is applied once;
* connections: a call is answered, truly, and applied once; what it leaves on the server
  it could not help; collections and tables are there before they are used;
* queries: both databases find the documents the calls and types ask for, and bring of
  each what the query looks at;
* values: what is loaded is what was committed;
* resources: what the application made of a resource is stored or still on its way;
  versions follow the document through deletion and new creation.

## 2. Modules

| Module | Models | Status |
|---|---|---|
| `WriteBehind` | abstract promise of a commit: capture the world, land it whole or drop it | done |
| `VersionedDocuments` | abstract promise of a session beside other writers: documents are written together, over versions it knows | done |
| `TransactionalCalls` | abstract promise of a connection: calls are applied whole, under their locks, once, and answered truly | done |
| `CommitPipeline` | the pipeline above, data as units that count changes | done |
| `CommitPipeline_proofs` | TLAPS proofs about it | done |
| `EntitySession` | tracking, hydration, caches, operations and versioned transactions for entity documents | done |
| `RelationshipEdges` | marks, scan, snapshot diff and edge operations of relationships | done |
| `QueryLoad` | loads of several threads, query cache, in-flight set, pages, deferred operations, hydrator, settings | done |
| `PersistentResources` | marks, presence, versions, loads and transactions of resources, on PostgreSQL or ArangoDB | done |
| `StoredValues` | values, plain or compact, merged into documents, projected, decoded | done |
| `ArangoCalls` | calls on one ArangoDB connection: tokens, repetition, collections, streaming transactions | done |
| `PostgresCalls` | calls on one PostgreSQL connection: pool, tables, row locks | done |
| `QueryLanguage` | builder and typed queries, specifications, SQL and AQL, projection and hydration | done |
| `MCCommitPipeline`, `MCEntitySession`, `MCRelationshipEdges`, `MCQueryLoad`, `MCPersistentResources`, `MCStoredValues`, `MCArangoCalls`, `MCPostgresCalls`, `MCQueryLanguage` | constants for TLC | done |
| `EntitySession_proofs`, `RelationshipEdges_proofs`, `QueryLoad_proofs`, `PersistentResources_proofs`, `StoredValues_proofs`, `ArangoCalls_proofs`, `PostgresCalls_proofs` | TLAPS proofs about the module each is named after | done |

The four modules below `CommitPipeline` each take a slice of the data the pipeline
carries. They know at most one commit in flight (`CommitPipeline!SingleFlight`, proved)
and see its task only as marks taken, operations, and a result; the pipeline in turn
knows only that operations come of marks. Below them lie `StoredValues`, which opens the
stamps the session and resources carry, `ArangoCalls` and `PostgresCalls`, which open the
transaction, and `QueryLanguage`, which opens the query of `QueryLoad`.

The three abstract modules have none of this in them, and say what is promised at each of
these levels. `WriteBehind` is implemented by `CommitPipeline`; `VersionedDocuments` by
`EntitySession` and by `PersistentResources`; `TransactionalCalls` by `ArangoCalls` and by
`PostgresCalls`. Each of the five has the refinement mapping at its end (`Promise`), a run that
checks it, and a proof. The models of the session take no more of a connection than what
`TransactionalCalls` says: a transaction whose answer is an error that tells the truth has not
landed, one whose answer is lost may have.

Most of these modules have a constant `Environment`,
a set of habits of the application or of its surroundings. Without any, the properties
hold; a habit turned on by itself shows what they depend on. The tables below give the
result for every habit; to see one, add it to `Environment` in the run's cfg.

### CommitPipeline

`world[u]` and `durable[u]` are the number of changes made to a unit (a component
of an entity, a resource, a despawn) and the number the database holds; `dirty`
is the union of the five dirty sets. A unit in `absent` is not there (`Withdraw`): its
component or resource was removed, its entity despawned before it had a key, or the despawn
needs no deletion. Its mark stays, is taken with the others, and gives no operation, as in
`prepare_commit.rs:90`, 112-115, 136-143 and 219-222 (`Effective`; `void` in the task), and
what the database holds of it stays as it was. `triggers`, `status`, `tasks`, `completed`
and `listeners` are the message queues, the resource, the task entities with
their `CommitMeta` and channel, and the listener table. `phase` and `ran` walk
through the frame. Each early return of the three systems is an action:
`NoTrigger`, `QueueFollowUp`, `RejectEmptyStore`, `NothingToCommit`,
`PrepareFails`, `StartCommit`, `NothingFinished`, `HandleCommitCompleted`,
`CommitEventListener`. `Request`, `Trigger` and `Timeout` are the callers;
`TransactionCommits` and `TransactionFails` the Tokio task (a failure may be
reported although the documents were written). The units in `Links` are
relationships, whose dirty set `CommitMeta` does not keep.

`commit_in_flight` is documented as true "while a commit is in progress or queued"
(`commit.rs:49`). A follow-up is queued with the status Idle (`commit.rs:392`), so a
gated system may trigger in the next frame; its trigger is drained behind the follow-up
and its correlation id dropped. This takes an earlier trigger that was not gated, and
`GatedWaiterAnswered` speaks of applications that have none.

`NoMarkLost` and `OkMeansDurable` speak of units that are there: a mark that is consumed
without an operation saves nothing, and a caller is promised what has not been removed
again before the commit begins. In `WriteBehind`, a capture keeps of units that are not there
what the database has of them.

Listener ids are unique, as README.md of the crate asks. `prepare_commit` is
reduced to which marks give operations; how it makes them is EntitySession's.

### EntitySession

Each entity may carry one persisted component, whose value is a stamp that grows with
every edit, wherever it is made. Systems insert and remove it (`InsertComponent`,
`RemoveComponent`); nothing tracks a removal, so the entity's mark stays, and the next commit
finds no component to serialize (`Serialized`). `added`, `changed` and `removed` are what Bevy's
change detection will report; `entityKeys`, `guidToEntity` and `version` are the
caches; `db` maps a key to version and value, version 0 for no document. `tasks`
holds the one commit in flight (by `CommitPipeline!SingleFlight`) with the marks
it took, the keys it preassigned and its operations. `TrackChanges` stands for
the tracking systems and `finish_hydration`; `StartCommit` and `NoCommit` for
`handle_commit_trigger`; `CommitSucceeded` and `CommitFailed` for
`handle_commit_completed`; `LoadNew`, `LoadOver` and `ReconcileVersions` for the
loads; `Executable` and `Written` for the transaction; `touched` remembers which documents
have changed behind the session's back. `Restart` ends the process
in any state and starts a new one over the database.

`Environment` says what the application does besides the ordinary:

| Habit | Meaning | Properties that then fail |
|---|---|---|
| `foreign` | the database has another writer | none |
| `ambiguous` | a connection is lost after COMMIT | none |
| `sharedFrame` | spawns, or edits what was just loaded, in a frame that loads | NoEditLost |
| `loadInFlight` | loads or reconciles while a commit is in flight | NoEditLost, ConflictOnlyFromOutside, OneEntityPerKey, CommitsNeverPoisoned, ImplementsVersionedDocuments |
| `loadDeleted` | loads a document whose deletion is not committed | NoEditLost, ConflictOnlyFromOutside, CommitsNeverPoisoned |
| `despawnUnkeyed` | despawns an entity that has no key yet | NoDespawnLost |
| `undecodable` | loads documents whose component does not decode | ConflictOnlyFromOutside |

The crate does not forbid the last five; they are the conditions under which its
promises hold, found by turning each on by itself. `session_safety` runs with the
first two. In short:

* `loadInFlight`: a load or `reconcile_versions` between COMMIT and the collection of the
  task caches the new version, and `apply_commit_success` (`commit.rs:455`) raises it once
  more; every later commit of the document conflicts. A document that the commit creates
  is loaded as a second entity, since its key is not recorded yet (`hydrate.rs:142`).
* `sharedFrame`: `track_component_changed` (`tracking.rs:102`) drops every change to a
  component that is also `Added` while any hydration is open, whoever made it. The test
  at `dirty_tracking.rs:239` ("post-load user mutation must mark dirty") edits in a later
  frame.
* `despawnUnkeyed`: `RemovedComponents<Guid>` does not report the entity, and its
  document is created by the commit in flight.
* `loadDeleted`: the load spawns a new entity for a document that the pending deletion
  then removes, so that a live entity is left with a key and neither document nor
  cached version.
* `undecodable`: the version is cached before the decoder fails (`hydrate.rs:184`), so
  that the entity counts as loaded. A change of another writer that nobody has seen is then
  overwritten without a conflict.

No habit is needed for this one: `prepare_commit.rs:78` gives a key to every marked entity
without one, before it looks for a component. If that has been removed, or the entity is
gone, there is no operation (136-143), but if anything else in the commit gives one,
`apply_commit_success` (`commit.rs:429-435`) inserts the Guid and records key and version 1.
The key is then a *phantom* (the ghost `phantoms`): an update when the component is inserted
again, or a deletion when the entity is despawned, expects version 1 of a document that was
never made, and every commit that carries it conflicts, with one writer, until the process
ends. `ConflictOnlyFromOutside` says that there is no other conflict than
this one and those an outside change causes; `RecordedIsStored` that no other key is recorded
for which there is no document; and `ImplementsVersionedDocuments` that a phantom lets nothing
through. The comment at `commit.rs:426-428` ("the DB already has them") is
`PreassignedKeysStored`, which fails.

`NoEditLost` compares the value that is in the world now with the database's: an edit
that a load has overwritten, in whatever way, or whose component was removed, is no more,
and the property does not speak of it. (`PersistentResources` has the overwriting as its habit
`loadsOverEdits`.)

Two things more the model shows that no document of the crate denies. A creation
whose answer was lost is retried under a new uuid, so the first document stays
as a duplicate. And after a conflict the marks return with the same cached
version, so every commit conflicts until somebody loads or reconciles; for a
document that is gone `reconcile_versions` does not help, since it learns only
of documents that exist.

`ImplementsVersionedDocuments` forgets entities, marks, caches and tasks. Its `known` is the
version the session descends from: the cached one, or, once the transaction has landed and
until `apply_commit_success` has run, the one it is about to cache (`VersionsHeld`). Loads
and `reconcile_versions` are `Learn`; a transaction that lands is `Commit`, or `CommitUnheard`
if its answer is lost, or part of `Restart`. The step that collects the task is a stutter, and
this is what `loadInFlight` breaks: the version is raised over one that was learned in between.

### RelationshipEdges

Entities with at most one target each, as Bevy's relationships are, and for each
whether it carries its persisted component and whether its document exists. `relinked`, `linkDirty` and `snapshot` are the
change detection of the relationship, its dirty set and the edge snapshot.
`Scanned`, `Current`, `Retained`, `NextSnapshot`, `Upserts` and `Deletes` are the
steps of the diff in `prepare_commit`; a key is cached only when the commit that
assigned it succeeds, and an edge needs the keys of both ends. `Despawn` removes
the relationship of every source as Bevy's hook does. `LoadLinks` stands for
queries with a relationship depth of 1 and for the hydrator, which apply edges alike.

The code drops relationship marks in three places: when a commit fails, in a
frame that loads, and for an edge with an end that has no key. The ghost
`forgotten` holds the sources this has happened to until they are scanned again, and
`EdgesFollowRelationships` speaks of all others. `OneEdgePerSource`,
`SnapshotIsStored` and `EdgeEndsStored` hold for every source: whatever is
dropped, the next diff of that source is right again.

An edge needs a key at both ends, cached or just assigned (`registries.rs:250-264`), and a
marked entity that has lost its component has one without getting a document (see
EntitySession). So an edge can be stored with an end that has no document; `EdgeEndsStored` says
that this is the only way (the ghost `phantoms`). Operations on such an entity's document
conflict for ever (`TransactionConflicts`), and take the edges of their commits with them.

| Habit | Meaning | Properties that then fail |
|---|---|---|
| `removesLastEdge` | commits the removal of the last edge the session knows | EdgesFollowRelationships, SnapshotIsStored |
| `priorEdges` | edges exist that were committed before this session | EdgesFollowRelationships, SnapshotIsStored, OneEdgePerSource, EdgeEndsStored |
| `loadInFlight` | loads relationships while a commit is in flight | EdgesFollowRelationships |

`edges_safety` runs without them, so its relationships are those one session
creates over documents that may be older. An edge loaded from an earlier session
is not in the snapshot and is never deleted by this one: after a restart a
replaced relationship has two edges. `removesLastEdge` is `commit.rs:470`: a new snapshot
that is empty is not stored, so that an edge that is added again is not written.

Left out: a failure reported after COMMIT (a creation is then retried under
another key, see above), and Guids that contain a colon. `edge_source_guid`
(`src/core/db/shared.rs:61`) cuts the source out of `{type}:{from}:{to}`, so such a
source is never recognised as scanned; keys are atoms in the model.

### QueryLoad

A query stands for everything that goes into its hash. Documents are either in the
database or not (`database`), and in the world or not (`loaded`). `settings`, `cache`,
`inFlight` and `ops` are the thread-locals of `query_thread_local.rs`,
`PersistenceQueryCache`, `InFlightQueries` and `DeferredWorldOperations`; `loading` is
the call a thread waits for in `block_on`. A load looks at the cache and takes its
settings (`LoadHitsCache`, `BeginLoad`, `CountPages`), waits, and gets an answer or an
error (`LoadReturns`, `LoadFails`, `FetchPage`, `PagesEnd`): other threads call in
between. `ScheduleLoad` queues an operation which `ScheduledLoadReturns` or
`ScheduledLoadFails` runs at `LoadApply`; pages are queued likewise (`ApplyPage`).
`Hydrate` is the hydrator, `Store` anybody who stores a document.

Applying an answer is one step: loads hold the session mutably through the world
pointer (`immediate_world_ptr.rs:43`), which the plugin always publishes. The hydrator
keeps the session from start to end, and so is one step too.

The ghost `owed` is what callers that were answered may count on: what the query would
have found when it was first answered from a store. `AnsweredMeansLoaded` says that it
is in the world, or in a page that is queued.

| Habit | Meaning | Properties that then fail |
|---|---|---|
| `twoStores` | a query is put to a second store as well | AnsweredMeansLoaded |
| `pageFails` | the count or a page of a paginated load fails | AnsweredMeansLoaded |
| `relationsFail` | a query for edges, or for a target of one, fails | AnsweredMeansLoaded |
| `pagedRelations` | a query with relationship depths is loaded in pages | AnsweredMeansLoaded |
| `undecodable` | the database holds documents with a component that does not decode | AnsweredMeansLoaded |

The first is because the hash does not contain the store; the second because a load is
cached whether its pages came or not (`loader.rs:211`, 348); the third because the error is logged and the
query cached, and because the hydrator caches before it asks (`hydrator.rs:177`); the
fourth because the paginated path materializes documents alone; the last because
a document that fails to materialize is logged and skipped (`loader.rs:26-44`) and the query is
cached all the same (`Materialized`).

More that the model has, and no property speaks of:

* a page holds all documents of the query, for neither connection reads
  `spec.pagination` (the test at `persistence_query_system_param.rs:635` looks at the
  spec only); so any page that arrives brings everything (`Page`);
* a page size of 0 divides by zero (`loader.rs:379`); `QueryAssumption` excludes it;
* "Values are drained after each use" (`query_thread_local.rs:1-3`) is not so for a page
  size on a cache hit, for policy and page size in `schedule_load`, and for the policy in
  a join: `LeftByCacheHit`, `LeftBySchedule` and `LeftByJoin` are what the next call on
  the thread inherits. A join leaves `with()` and `without()` components as well
  (`join.rs:45-89`); they change which query the thread's next load puts, and the model
  lets it put any, so that `settings` does not hold them.

### PersistentResources

The key of a resource's document is the resource's name, so that a document may be there before
the session knows of it, and a removal is found by comparing the presence of the
resource from frame to frame (`seen`). `value` and the documents hold stamps, as in
EntitySession. `Insert`, `Remove`, `ChangePresent`, `LoadAndChange` and `MarkAbsent` are
the application (the last three are `PersistentResMut::get_mut`), `Load` a query or
`PersistentRes::get`. `Deletions` and `Upserts` are the operations of `prepare_commit`.
`Backend` chooses the transaction: on PostgreSQL a creation that meets a document fails,
on ArangoDB it is ignored and answered Ok (`ArangoIgnores`).

The ghost `wanted` is what the application last made of a resource until that is
stored, and `NothingMadeIsLost` says that it is then still in the world and on its way.

| Habit | Meaning | Properties that then fail |
|---|---|---|
| `foreign`, `ambiguous` | another writer; a connection lost after COMMIT | none (PostgreSQL); NothingMadeIsLost, ImplementsVersionedDocuments (ArangoDB) |
| `sharedFrame` | changes a resource by `ResMut` in a frame that loads anything | NothingMadeIsLost, EmptyCommitSavesAll |
| `reinserts` | inserts a resource whose removal is marked and not committed | NothingMadeIsLost, EmptyCommitSavesAll |
| `loadsOverEdits` | loads a resource with changes that are not committed | NothingMadeIsLost, EmptyCommitSavesAll |
| `loadInFlight` | loads while a commit is in flight | ConflictOnlyFromOutside, ImplementsVersionedDocuments |
| `insertsUnloaded` | inserts a resource that is stored and has not been loaded | NothingMadeIsLost, ConflictOnlyFromOutside |
| `removesUnseen` | removes a resource in the frame in which it was loaded | NothingMadeIsLost |
| `undecodable` | a document can be there that does not decode | none (PostgreSQL) |

With `undecodable` a load or `get_mut` may cache the version of a document and then fail to
decode it (`hydrate.rs:78`; `LoadFails`, `MarkAbsent`).

`loadsOverEdits` is easily come by: every query fetches all registered resources
(`hydrate.rs:241`). `reinserts` loses the resource because `prepare_commit.rs:219` skips
what is marked as removed. With `Backend = "arango"` a creation that meets the document of
another writer, or its own whose answer was lost, is ignored and answered Ok, and what the
resource was changed to is lost without an error.

`ConflictOnlyFromOutside` has no converse. Versions start at 1 again after a deletion,
so a document that another writer deletes and creates again has a version the session
may know: it is then overwritten without a conflict, on either backend. The refinement of
`VersionedDocuments` says no more either: it is about the version a document has, not about
who gave it. With ArangoDB another writer breaks it, since a creation that is ignored is
taken for version 1.

### StoredValues

Two items, components of one entity or resources, of five kinds of types: structs with an
optional field, maps, enums, newtypes and units. A value and its JSON are the atoms under
a few names, and a value with a large atom is written as the compact envelope
(`Encoded`, `Decoded`). `Commit` makes a patch of what is dirty and updates the documents
as the backends do: PostgreSQL replaces the top level entries of a document, which are
whole components of an entity but fields of a resource; ArangoDB merges objects at any
depth (`Updated`). `Restart` drops the world and perhaps changes
`compact_threshold_bytes`; `Load` reads whole documents or projections, which leave out
nulls (`Stripped`, `View`). What the decoders refuse ends the hydration of the document.

| Habit | Meaning | `LoadedIsCommitted` then fails |
|---|---|---|
| `shrinks` | a value stored compact becomes one stored plain, in a document that is merged | resources; with ArangoDB components too |
| `reshapes` | a value loses entries, or changes its variant, in such a document | components with ArangoDB |
| `nulls` | values that are null in JSON | components |
| `openResources` | resources that are not structs | both backends |
| `keyedFields` | a struct has a field named like the key column | resources on PostgreSQL |
| `removes` | a component is removed from an entity that lives on | both backends |

`values_safety` runs without them. `values_stale_envelope` turns on `shrinks`: an update of
plain fields is merged beside the old envelope, which `from_persist_value` prefers. With
`reshapes` the old entries stay in a map, and an enum has two variants and is refused. A
null component is projected away, or as a patch does not differ from a missing one. A
resource that is not an object gets neither key nor metadata (`Refused`).

### ArangoCalls

`call` is where each call is: cloning the shared handle (`Attempt`), ensuring its
collections (`SkipEnsure`, `Ensure`), reading, or in a streaming transaction (`Begin`,
`Write`, `Commit`, `Abort`), whose locks the server keeps in `lock` until `open` no longer
has it. Every request may be answered 401 (`Unauthorized`, when the token `Expire`d) or be
lost before or after the server did its part (`RequestLost`, `AnswerLost`). `LogInAgain`,
`LoginLost` and `GiveUp` are `with_reauth`; `RefreshAuth` is the application's. The ghosts
count how often the writes of a call were committed, and remember which transactions a
fault kept from being aborted and which calls have seen a token expire.

`arango_calls` runs with both habits, `expiresInside` (a token may expire while a
transaction is open) and `loses`. Two things it leaves out: calls of the kind `sync`,
`execute_documents_sync`, which does not go through `with_reauth` (nothing in the crate
calls it; with it `RefreshHelps` fails); and `clear_store`, which removes collections but
not their names from `EnsuredStores`.

With `expiresInside` the abort gets a 401 too, and the transaction stays open. Its locks
are then in the way of the very call that is repeated after the new login, until
the server gives up the wait or the transaction (`RetryNotBlockedByItself` fails).

`ImplementsTransactionalCalls` has the two attempts of a call as two transactions, `lock` as
`holder`, and of the state of a call only the answer: "refused" after an authentication error or
a conflict, "unknown" after any other (`Verdict`). A lock that a cut transaction leaves
behind is a lock that is never released, which `TransactionalCalls` allows.

### PostgresCalls

The same for PostgreSQL: `TakeClient` and `BeginCreate` take one of `PoolSize` clients and
wait for it without a limit; `BeginCreate` and `EndCreate` are CREATE TABLE IF NOT EXISTS,
in two steps, since two of them at once make one fail (`CreateRaces`); `Write` takes row
locks in the order in which the statement meets the rows, and the server ends one of the
calls that wait in a circle (`Deadlock`). `ConnectionLost` and `AnswerLost` end a
transaction with its connection.

Two first uses of a store at the same time can therefore fail one of them, although either
alone succeeds. What is modelled of the comment at `postgres_connection.rs:842` is its
reason: a call that holds its client while it asks for another one to create a table
can wait for ever (`MayTakeEarly`).

In the refinement of `TransactionalCalls` a call has one attempt. An error of the server (a
conflict, a deadlock, a raced table) is "refused", a lost connection "unknown"; the ghost
`applied` tells apart whether it was lost before or after COMMIT.

### QueryLanguage

One document and one query after the other. `With` to `ByGuids` are the builder, `Data` to
`Where` the types and filter of a `PersistentQuery`; `BuiltSpec`, `LoadSpec` and `JoinSpec`
the specifications that `fetch_into`, `load`/`schedule_load` and `join_filtered` make of
them. `Sql` has the three values of SQL and the errors of casts, `Aql` the total order of
AQL in which null is least. `View` and `Hydrated` are projection and hydration. The ghost
`meant` is what each call says of the document by itself, with `Means` as the meaning of an
expression: nothing holds of a component the entity has not.

| Habit | Meaning | Properties that then fail |
|---|---|---|
| `markers` | components that are null in JSON, as unit structs | FindsWhatIsMeant, LoadedStillMatches, AskedIsLoaded |
| `nones` | fields that are null | FindsWhatIsMeant |
| `compacted` | components in the compact envelope, whose fields no condition sees | FindsWhatIsMeant |
| `mixed` | a field that is a number here and a text there; SQL fails on the cast | FindsWhatIsMeant |
| `handwritten` | `!=`, which the builder of expressions has not; PostgreSQL takes it for `=` on keys | FindsWhatIsMeant |
| `ungated` | `<` or `<=` on a component the query does not demand; AQL finds it below | FindsWhatIsMeant |
| `eitherOf` | `filter` and `or` with alternatives about different components | FindsWhatIsMeant |
| `wideJoins` | joins of queries with optional components or with `Or` | FindsWhatIsMeant |
| `withoutAlone` | a query that only says what documents may not have, and so fetches nothing | AskedIsLoaded |

The crate forbids none of them. `query_language` runs without, and so says where SQL, AQL
and the meaning agree.

### Known deviations

What the code does and a document, comment or test of the repository denies, with how to
see it. The first two are runs; the others are one habit, or one property, away from one.

| Code | What it does | Said otherwise at | To see it |
|---|---|---|---|
| `commit.rs:116` | the first trigger of a frame that meets a commit in progress loses its correlation id | `commit.rs:84-85` | `pipeline_lost_waiter` |
| `postgres_connection.rs:878`, `arango_connection.rs:824`, 954 | an envelope outlives the value that replaced it | `compact.rs:136` | `values_stale_envelope` |
| `commit.rs:486` | marks of relationships do not come back after a failure | `commit.rs:64` | `LinkMarksRestored` under `pipeline_safety` |
| `commit.rs:427` | a key assigned to an entity without its component is recorded with version 1, and has no document | `commit.rs:426-428` | `PreassignedKeysStored` under `session_safety` |
| `commit.rs:455` | a version is raised over one that was loaded or reconciled meanwhile | `persistence_query.rs:294` | `loadInFlight`, `session_safety` |
| `commit.rs:470` | an edge snapshot that becomes empty is not stored | `session/cache.rs:15` | `removesLastEdge`, `edges_safety` |
| `loader.rs:211` | a paginated load that failed is cached as done | `loader.rs:346` | `pageFails`, `query_safety` |
| `arango_connection.rs:919` | a creation that meets a document is ignored and answered Ok | `README.md:176` | `Backend = "arango"`, `resources_safety` |
| `arango_connection.rs:1130` | an abort that gets a 401 leaves the transaction open, and the retry waits for its lock | `arango_connection.rs:67`, 1128 | `RetryNotBlockedByItself` under `arango_calls` |
| `persistence_query.rs:153` | a component in a filter stays demanded, also when `or` gives an alternative without it | `persistence_query.rs:85` | `eitherOf`, `query_language` |
| `persistence_query.rs:246` | a query of `without` alone fetches no component | the comment at `persistence_query.rs:243-244` | `withoutAlone`, `query_language` |

## 3. Runs

| Run | Checks | Bounds |
|---|---|---|
| `pipeline_safety` | `TypeOK`, `SingleFlight`, `NoMarkLost`, `OkMeansDurable`, refinement of `WriteBehind` | one component, one relationship, one caller, 2 changes, 2 queued triggers, 1 failure; 5.2 M states |
| `pipeline_live` | `TaskWaiterAnswered`, `GatedWaiterAnswered`, `QueuedChangesReachDatabase` | one component, one caller, 2 changes, 2 triggers, 1 failure; 97 k states |
| `session_safety` | `NoEditLost`, `NoDespawnLost`, `ConflictOnlyFromOutside`, `OneEntityPerKey`, `CommitsNeverPoisoned`, `RecordedIsStored`, refinement of `VersionedDocuments` | 2 entities, 2 documents, 3 edits or removals, version 3, 1 lost connection; 2.1 M states up to symmetry |
| `edges_safety` | `EdgesFollowRelationships`, `SnapshotIsStored`, `OneEdgePerSource`, `EdgeEndsStored` | 3 entities, 2 changes of relationships, 1 removed component, 1 failure; 5.3 M states up to symmetry |
| `query_safety` | `AnsweredMeansLoaded`, `InFlightIsQueued`, `ScheduledOnce`, `ScheduledLoadsEnd` | 2 threads, 2 queries, 1 hydration, 3 documents, pages of 2, 3 calls, 1 failure; 464 k states |
| `resources_safety` | `NothingMadeIsLost`, `ConflictOnlyFromOutside`, `EmptyCommitSavesAll`, refinement of `VersionedDocuments` | PostgreSQL, 2 resources, 4 changes, version 4, 2 lost connections, documents that do not decode; 1.9 M states up to symmetry |
| `values_safety` | `LoadedIsCommitted` | 2 items, one of any type, 2 names of fields and the key's, 3 atoms, both kinds and backends; 273 k states |
| `arango_calls` | `AppliedOnce`, `RefreshHelps`, `CollectionsExist`, `LeaksOnlyWhenCut`, `EveryCallAnswered`, refinement of `TransactionalCalls` | 2 calls, 2 collections, 2 keys in opposite orders, tokens expire until the second, 1 lost connection; 197 k states |
| `postgres_calls` | `TablesExist`, `EveryCallAnswered`, refinement of `TransactionalCalls` | 3 calls, 2 tables, 2 rows in opposite orders, a pool of 2, 1 lost connection; 6.7 k states |
| `query_language` | `FindsWhatIsMeant`, `LoadedStillMatches`, `AskedIsLoaded` | 3 components, 2 keys, 13 filters, 5 alternatives, 3 calls for a query; 1.6 M states |
| `pipeline_lost_waiter` | violates `FirstTriggerKeepsItsWaiter` | `commit.rs:116` against its doc at 84-85 |
| `values_stale_envelope` | violates `LoadedIsCommitted` | `postgres_connection.rs:878` against `compact.rs:136` |

Why the bounds are enough. Two changes of a unit are what it takes to change it
before and after a snapshot; two triggers give both a coalesced burst and a
follow-up in front of a user's trigger; one failure, which may be ambiguous, at
any point leaves a state in which everything has to be recovered, and a second
one starts from such a state again. Units and callers do not interact except
through marks and messages, and the proofs cover any number of them. In the
session two entities and two documents are needed for one key to be claimed
twice; three stamps for an edit before, during and after a commit, or a foreign
one, or for a component that is inserted, removed and inserted again; version 3 for two
commits over a loaded document. Three entities are needed to
replace a target, and two changes to insert and replace, or insert and remove, or to have the
edge of a second source beside that of the first; a target is also lost when it is
despawned, and one removed component is what it takes for a key without a document. Two threads and three calls give
a load that fills the cache while another waits, and a third call that is answered by
what the two left; three documents and pages of two give a last page that is not full,
and `q1` and the hydration ask for what the other one reaches. Two resources, four
changes and version 4 give a creation, deletion and new creation under one name,
beside another resource in the same transaction. `StoredValues` has no counters: its run
covers every sequence of edits, commits, loads and restarts of these values. Two items are
one that is written and one that stays, three atoms an ordinary, a large and a null one.
Two transactions that want two keys in opposite orders are what it takes to wait for each
other, a third call to fill the pool; a second token is what a repeated call uses, and
calls may log in beyond that. Three calls of a query give a demand, an alternative and a
restriction; `Health` has a number below, at and above the literal, and three components
let an alternative speak of one that the filter and the data do not.

The type invariants of all modules but `CommitPipeline` and `QueryLanguage` are in no run: they
are proved. That of `QueryLanguage` is kept in its module to say what the variables hold. Deadlock is
checked in every run but the one of `QueryLoad`, whose calls are bounded: an application
that makes no further call and has stored all documents has nothing left to do. The two
modules of calls have a step `Done` for when all calls are answered, and stop nowhere
else.

Every property of a passing run has a mutant in `PROJECT.json`: a plausible bug in
one definition (the operators marked "Faulty" in the modules) under which TLC
finds the property violated.

### Fairness

`FairSpec` has weak fairness of `Frame` (Bevy runs the schedule as long as the app
runs; the systems of a set all run in each frame) and of `Database` (the Tokio
task always ends: a result is sent, or the channel closes and is read as an
error). Nothing is assumed of users: `Change`, `Request`, `Trigger` and `Timeout`
need never happen. `TaskWaiterAnswered` therefore speaks of callers that a task
carries, and `GatedWaiterAnswered` of callers in an app that keeps the advice to
gate its triggers; without it the answer can be lost, as `pipeline_lost_waiter`
shows. The timeout is no help to these properties: it need not fire.

`QueryLoad!FairSpec` has weak fairness of `LoadApply` (frames go on, and the drain runs
all that is queued) and of `LoadStep(th)` for each thread (a database call returns or
fails; the frame cannot end before). No call is assumed to be made. It is used by
`ScheduledLoadsEnd`.

`ArangoCalls!FairSpec` has weak fairness of each call once it has begun (the runtime polls
its task; the server answers, or ends a wait for a lock, which never lasts for ever since
`LockTimeout` is one of its answers). `PostgresCalls!FairSpec` has strong fairness of
each call: the pool hands clients to those who wait in their order, so a call that could
have had one again and again is served. Nobody is assumed to make a call, to lose a
connection or to log in.

## 4. Proofs

Eight modules `X_proofs` prove theorems about `X` for all values of its constants. Every
safety invariant and action property of a passing run is a theorem, but for those of
`QueryLanguage`, and so is each of the five refinements (the theorems `Implementation`):

| Module | Theorems | Where |
|---|---|---|
| `CommitPipeline_proofs` | `TypeCorrect`, `SingleFlightHolds`, `NoMarkLostHolds`, `OkMeansDurableHolds`, `Implementation` | always |
| `EntitySession_proofs` | `TypeCorrect` | always |
| | `EditsKept`, `DespawnsKept`, `ConflictsAreReal`, `KeysAreUnique`, `VersionsAtHand`, `RecordedStored`, `Implementation` | no habit but `foreign` and `ambiguous` |
| `RelationshipEdges_proofs` | `TypeCorrect` | always |
| | `SnapshotStored`, `OneEdge`, `EndsStored` | no habit but `loadInFlight` |
| | `EdgesFollow` | no habit |
| `QueryLoad_proofs` | `TypeCorrect`, `InFlightQueued`, `RunsOnce` | always |
| | `AnswersLoaded` | no habit |
| `PersistentResources_proofs` | `TypeCorrect` | always |
| | `NothingLost`, `ConflictsAreReal`, `EmptyCommits`, `Implementation` | no habit but `foreign`, `ambiguous` and `undecodable`; with ArangoDB none |
| `StoredValues_proofs` | `TypeCorrect` | always |
| | `CommittedIsLoaded` | no habit |
| `ArangoCalls_proofs` | `TypeCorrect`, `TransactionsAppliedOnce`, `CollectionsThere`, `NoLeakUncut`, `Implementation` | always |
| | `RefreshSuffices` | no call of the kind `sync` |
| `PostgresCalls_proofs` | `TypeCorrect`, `TablesThere`, `ClientsAreUsed`, `Implementation` | always |

"Always" is under the module's named assumption alone, which says of what kind the constants
are: bounds are naturals, `MaxVersion` and `MaxClock` at least 1 since a document has version
1 and a stamp; what calls need and write are sequences; a name other than that of the key
exists. The habits in the last column are hypotheses of the theorems. They are the ones the
runs have, or more (`loadInFlight` for edges), and exclude the habits under which the tables of
section 2 list failures. As the properties of a module share one invariant, some are proved
under a little less than TLC finds them to hold under: `OneEdge` and `EndsStored` hold with
`removesLastEdge` too, and in `EntitySession` and `PersistentResources` each habit breaks
some of the properties only.

Each proof of an invariant has the same shape. `IInv` is the conjunction of named parts and
implies the properties; `Init` gives it, and every action preserves it, in one lemma for an
action or for a group that disturbs the same parts, with one step for each part that it can
disturb. TLC has checked each `IInv` over the whole state space of the run of its module (that
of `PersistentResources` with either backend) before it was proved.

### What the invariants add

* `CommitPipeline`: a unit that is marked by nobody is equal in world and database; what a task
  serialized lies between the database and the world (`SnapshotCoherent`, `DurableBehind`); a
  task took every unit that was different when it started, and no unit it did not take has
  moved in the database since; what a task had no operation for is still absent, or brought back
  and marked; a caller's promise lies under the snapshot of the task that
  carries its id, is about nothing that is absent while it is queued or that the task had no
  operation for, and lies under the database once a successful `CommitCompleted` names it
  (`PromiseCarried`, `Fresh`). The refinement maps a start to `Capture`, a commit to `Land`, a
  failure to `Drop` or `Land`, and everything else to a stutter.
* `EntitySession`: the two caches of keys are inverse to each other, and a live entity has the
  Guid its key is cached under (`Indexed`, `KeysAgree`), which is why no commit and no load can
  give a document to two entities; a mark, a despawn and an entity a task deletes are in one
  place each (`Marked`); what a task assigned in advance belongs to no one else
  (`Preassigned`); an operation expects the version that is cached (`Operations`), and the cached
  version is the document's, or an older one if somebody else has written it, or belongs to an
  operation of a task that succeeded and is not collected (`AllCurrent`, `Outcome`). A key that
  a task assigned without an operation is written by none of its operations, and its entity is
  marked if it carries the component again (`Voids`); once recorded, the key never gets a document, and
  stays with its entity (`PhantomsHeld`). A frame that has loaded has no commit in flight (`Hydrated`):
  this is where `loadInFlight` would break the induction. For the refinement one more part is
  needed: a document that the session has a version of is there, or belongs to an entity that
  still has its key (`KnownOfGone`), so that nothing is created under a key of which the session
  has kept a version, also after a deletion whose answer was lost.
* `RelationshipEdges`: a task's operations are the difference of the snapshot and its next one,
  and the edges are the next one once they are executed (`Diffed`); both have one edge for a
  source (`Single`); the ends of the edges to come have documents or get them in the same
  transaction or are phantoms then (`EndsCarried`), since keys, documents, phantoms and live
  entities agree but for what was committed a moment ago (`Kept`). `Followed` relates the task to the world: a source it scanned
  agrees with the next snapshot unless it is marked again, and has the edges of the old one if
  it was not scanned.
* `QueryLoad`: a query in flight stands at exactly one position of the queue, and one that was
  run is cached for good (`QueuedOnce`, `RunOnce`). For the documents, every store is the same
  one, what is cached was answered, and a paginated load has queued what it counted or has a
  page to come that brings it (`PagesCover`).
* `PersistentResources`: a commit has one operation for a resource, its deletion if it was
  marked as removed (`Planned`); what was stored is no longer wanted (`Done`); presence and marks
  agree (`Marks`). `VersionsFollow` is the part that took most thought: the cached version is the
  document's, or 0 when there is none, for a resource that is present or wanted gone; a resource
  that is neither has not been loaded, and its document may be there.
* `StoredValues`: a document holds an envelope of the committed value, perhaps beside fields an
  earlier plain form has left, or its plain form and nothing else (`Represents`). What is
  dirty can be merged over it without leaving anything in the way (`Mergeable`), which is what
  the habits `shrinks` and `reshapes` break; decoding is then a lemma for each type, whole or
  stripped of nulls (`RepresentationDecodes`, `StrippedDecodes`), and merging one for each
  backend (`MergedRepresents`, `UpdatedRepresents`).
* `ArangoCalls`: a call that has another attempt before it has committed nothing (`Applied`); a
  second attempt holds a token the server takes, unless one has expired under way (`Trusted`);
  a transaction that is open is its call's or was cut off (`Owned`). Logins are counted through
  the calls at their second attempt. For the refinement, a transaction holds all it has written,
  whatever other calls take, release or leave behind (`HoldsWritten`); this and `Applied` are
  what `Apply` asks for.
* `PostgresCalls`: what a call has stepped over is there, and a client is held only with all
  tables ensured (`Prepared`). `ClientsAreUsed` draws from it what `postgres_connection.rs:842`
  says: a call that holds a client never asks for a second one, so that calls cannot wait for
  each other's clients. `Unapplied` and `HoldsWritten` serve the refinement as with ArangoDB.

### Only model-checked

* Liveness (`TaskWaiterAnswered`, `GatedWaiterAnswered`, `QueuedChangesReachDatabase`,
  `ScheduledLoadsEnd`, both `EveryCallAnswered`): fairness and ENABLED are out of TLAPS's reach.
* `QueryLanguage`: expressions are trees of any depth, and its definitions over them are
  recursive operators, about which nothing can be proved by induction here.
* Whether a property fails under a habit that a theorem excludes: those are runs of TLC.

## 5. Not modelled

ArangoDB's transaction on entities and edges, which differs from PostgreSQL's where a
creation meets a document; the recursive SQL and the AQL traversal by which edges are
queried, and whether the two agree (the models take the set of edges a query is meant to
find); `ensure_database` and `clear_store`; conditions on whole components and on
booleans; what postcard, zstd and base64 do, which are taken to invert themselves; the path
of loads without the world pointer; registration tables, derive macros, the shared
runtime, and the raw world pointer, whose aliasing no state machine shows. Guids with a colon
are left out of the edges (see `RelationshipEdges`). The feature
`bevy_many_relationship_edges` is left out; the default relationships are meant.
(Under that feature an edge may carry a payload, which the snapshot, a set of edge
keys, does not see change.)
`RemovedComponents<T>` of a persisted component other than Guid is tracked by no
code, so removing a component is never persisted by itself. `StoredValues` has it as the habit
`removes`; `EntitySession` and `RelationshipEdges` have it as an action, for `prepare_commit`
does react to it; `CommitPipeline` as `Withdraw`. With several persisted components in one
entity, one that was removed is left out of the patch and the others are written: in the
sessions and edges an entity has one.

## 6. Plan

Done are the modules of section 2, their runs and the proofs of section 4. Left, in this order:

1. `Backend` in `EntitySession` and `RelationshipEdges`, as `PersistentResources` has it, and
   the refinement of `VersionedDocuments` without ArangoDB's ignored creations.
2. An abstract promise of `QueryLoad` (a query is answered from documents that are in the world)
   and of `RelationshipEdges` (the edges of a source are those of a moment of the world), with
   their refinements.
3. Relationship depth, and the two ways in which the databases walk the edges.
