-------------------------- MODULE RelationshipEdges --------------------------
(***************************************************************************)
(* How relationships between entities become edges in the database: the    *)
(* marks of changed sources (dirty_tracking.rs, tracking.rs), the diff     *)
(* against the edge snapshot (prepare_commit.rs), the edge operations of   *)
(* the transaction (postgres_connection.rs), and what is done when it has  *)
(* ended (commit.rs).  One relationship type of Bevy's: a source has at    *)
(* most one target, and loses it when the target is despawned.             *)
(*                                                                         *)
(* An entity stands for its document's key as well.  It may carry one      *)
(* persisted component, which makes its document.  Of documents only their *)
(* existence is modelled; their versions are EntitySession's, and here the *)
(* session is their one writer.                                            *)
(***************************************************************************)
EXTENDS Naturals, FiniteSets

CONSTANTS
    Entities,     \* entity ids, and the keys of their documents
    NoTarget,     \* no relationship component
    Environment,  \* what the application does besides: see Habits
    MaxLinks,     \* bound: changes systems make to relationships
    MaxRemovals,  \* bound: removals of the component
    MaxFailures   \* bound: transactions that fail for a lost connection

\* removesLastEdge: commits the removal of the last edge the session knows
\* priorEdges:      edges exist that were committed before this session
\* loadInFlight:    loads relationships while a commit is in flight
Habits == {"removesLastEdge", "priorEdges", "loadInFlight"}

ASSUME EdgesAssumption ==
    /\ NoTarget \notin Entities
    /\ Environment \subseteq Habits
    /\ MaxLinks \in Nat /\ MaxRemovals \in Nat /\ MaxFailures \in Nat

VARIABLES
    life,       \* of each entity id
    target,     \* the relationship component
    carrying,   \* entities that have the persisted component
    keyed,      \* entities in entity_keys, dead ones included
    fresh,      \* insertions of the persisted component not tracked yet
    relinked,   \* Added, Changed and RemovedComponents of the relationship
    removed,    \* RemovedComponents<Guid>
    hydrating,  \* hydration_depth > 0
    dirty,      \* dirty_entity_components
    linkDirty,  \* dirty_relationship_entities
    despawned,  \* despawned_entities
    snapshot,   \* edge_snapshot
    documents,  \* documents in the database
    edges,      \* edge documents in the database
    tasks,      \* the commit in flight, if any
    forgotten,  \* ghost: sources whose marks were dropped and not made again
    phantoms,   \* ghost: entities that got a key, and had nothing to store
    links,      \* changes made to relationships so far
    removals,   \* removals of the component so far
    failures,   \* connections lost so far
    phase       \* where in the frame the application is

worldVars   == <<life, target, carrying>>
trackerVars == <<fresh, relinked, removed, hydrating>>
markVars    == <<dirty, linkDirty, despawned>>
dbVars      == <<documents, edges>>
boundVars   == <<links, removals, failures>>
ghosts      == <<forgotten, phantoms>>

vars == <<worldVars, keyed, trackerVars, markVars, snapshot, dbVars, tasks, ghosts,
          boundVars, phase>>

-----------------------------------------------------------------------------
Edge == Entities \X Entities

CommitTask == [marks : SUBSET Entities, links : SUBSET Entities,
               gone : SUBSET Entities, pre : SUBSET Entities,
               creates : SUBSET Entities, updates : SUBSET Entities,
               upserts : SUBSET Edge,
               deletes : SUBSET Edge, next : SUBSET Edge,
               result : {"none", "ok", "err"}]

TypeOK ==
    /\ life \in [Entities -> {"unborn", "live", "gone"}]
    /\ target \in [Entities -> Entities \cup {NoTarget}]
    /\ carrying \subseteq Entities
    /\ keyed \subseteq Entities
    /\ fresh \subseteq Entities /\ relinked \subseteq Entities
    /\ removed \subseteq Entities
    /\ hydrating \in BOOLEAN
    /\ dirty \subseteq Entities /\ linkDirty \subseteq Entities
    /\ despawned \subseteq Entities
    /\ snapshot \subseteq Edge
    /\ documents \subseteq Entities
    /\ edges \subseteq Edge
    /\ tasks \subseteq CommitTask
    /\ forgotten \subseteq Entities /\ phantoms \subseteq Entities
    /\ links \in 0..MaxLinks /\ removals \in 0..MaxRemovals
    /\ failures \in 0..MaxFailures
    /\ phase \in {"Update", "PreCommit", "Commit"}

Does(habit) == habit \in Environment

From(e, es) == {f \in Entities : <<e, f>> \in es}

\* A session that has loaded some documents, without their relationships.
Init ==
    /\ keyed \in SUBSET Entities
    /\ life = [e \in Entities |-> IF e \in keyed THEN "live" ELSE "unborn"]
    /\ target = [e \in Entities |-> NoTarget]
    /\ carrying = keyed
    /\ fresh = {} /\ relinked = {} /\ removed = {}
    /\ hydrating = FALSE
    /\ dirty = {} /\ linkDirty = {} /\ despawned = {}
    /\ snapshot = {}
    /\ documents = keyed
    /\ edges \in SUBSET (keyed \X keyed)
    /\ edges # {} => Does("priorEdges")
    /\ \A e \in Entities : e \notin From(e, edges) /\ Cardinality(From(e, edges)) <= 1
    /\ tasks = {}
    /\ forgotten = {} /\ phantoms = {}
    /\ links = 0 /\ removals = 0 /\ failures = 0
    /\ phase = "Update"

Live == {e \in Entities : life[e] = "live"}

-----------------------------------------------------------------------------
(* Update                                                                  *)

\* A new entity; what it has that is persisted is inserted by Persist.
Spawn(e) ==
    /\ phase = "Update"
    /\ life[e] = "unborn"
    /\ life' = [life EXCEPT ![e] = "live"]
    /\ UNCHANGED <<target, carrying, keyed, fresh, relinked, removed, hydrating, markVars,
                   snapshot, dbVars, tasks, ghosts, boundVars, phase>>

\* The persisted component is inserted.  (In a frame that loads its mark is lost:
\* EntitySession's habit sharedFrame.)
Persist(e) ==
    /\ phase = "Update"
    /\ e \in Live \ carrying
    /\ ~hydrating
    /\ carrying' = carrying \cup {e}
    /\ fresh' = fresh \cup {e}
    /\ UNCHANGED <<life, target, keyed, relinked, removed, hydrating, markVars, snapshot,
                   dbVars, tasks, ghosts, boundVars, phase>>

\* The persisted component is removed.  Nothing observes it, and the mark stays.
RemoveComponent(e) ==
    /\ phase = "Update"
    /\ removals < MaxRemovals
    /\ removals' = removals + 1
    /\ e \in carrying
    /\ carrying' = carrying \ {e}
    /\ fresh' = fresh \ {e}
    /\ UNCHANGED <<life, target, keyed, relinked, removed, hydrating, markVars, snapshot,
                   dbVars, tasks, ghosts, links, failures, phase>>

\* A system inserts the relationship, or replaces it.
Link(e, f) ==
    /\ phase = "Update"
    /\ links < MaxLinks
    /\ links' = links + 1
    /\ e \in Live /\ f \in Live /\ e # f
    /\ target' = [target EXCEPT ![e] = f]
    /\ relinked' = relinked \cup {e}
    /\ UNCHANGED <<life, carrying, keyed, fresh, removed, hydrating, markVars, snapshot,
                   dbVars, tasks, ghosts, removals, failures, phase>>

Unlink(e) ==
    /\ phase = "Update"
    /\ links < MaxLinks
    /\ links' = links + 1
    /\ e \in Live /\ target[e] # NoTarget
    /\ target' = [target EXCEPT ![e] = NoTarget]
    /\ relinked' = relinked \cup {e}
    /\ UNCHANGED <<life, carrying, keyed, fresh, removed, hydrating, markVars, snapshot,
                   dbVars, tasks, ghosts, removals, failures, phase>>

\* The entity's own relationship is removed, and that of every source it is the
\* target of.  Only an entity with a Guid is reported as despawned.
Despawn(e) ==
    /\ phase = "Update"
    /\ e \in Live
    /\ LET sources == {f \in Live : target[f] = e} \cup {f \in {e} : target[f] # NoTarget}
       IN  /\ target' = [f \in Entities |-> IF f \in sources THEN NoTarget ELSE target[f]]
           /\ relinked' = relinked \cup sources
    /\ life' = [life EXCEPT ![e] = "gone"]
    /\ carrying' = carrying \ {e}
    /\ fresh' = fresh \ {e}
    /\ removed' = IF e \in keyed THEN removed \cup {e} ELSE removed
    /\ UNCHANGED <<keyed, hydrating, markVars, snapshot, dbVars, tasks, ghosts,
                   boundVars, phase>>

\* A query with a relationship depth, or the hydrator.  The component is inserted once
\* for every edge whose target is there; the last insertion stays.  Without any, the
\* component is left as it was.
LoadLinks(e) ==
    /\ phase = "Update"
    /\ e \in Live \cap keyed
    /\ fresh = {}
    /\ tasks # {} => Does("loadInFlight")
    /\ LET found == From(e, edges) \cap Live \cap keyed
       IN  \/ /\ found = {}
              /\ UNCHANGED <<target, relinked>>
           \/ \E f \in found : /\ target' = [target EXCEPT ![e] = f]
                               /\ relinked' = relinked \cup {e}
    /\ hydrating' = TRUE
    /\ UNCHANGED <<life, carrying, keyed, fresh, removed, markVars, snapshot, dbVars, tasks,
                   ghosts, boundVars, phase>>

-----------------------------------------------------------------------------
(* PostUpdate                                                              *)

\* track_relationship_entity_changed: nothing is marked in a frame that loads.
LinksTracked == IF hydrating THEN {} ELSE relinked

Diverges(e) == From(e, edges) # {target[e]} \ {NoTarget}

\* TrackChanges, then FinishHydration.
TrackChanges ==
    /\ phase = "Update"
    /\ phase' = "PreCommit"
    /\ dirty' = dirty \cup fresh
    /\ linkDirty' = linkDirty \cup LinksTracked
    /\ despawned' = despawned \cup removed
    /\ forgotten' = forgotten \cup
           {e \in relinked \ (LinksTracked \cup linkDirty) : Diverges(e)}
    /\ fresh' = {} /\ relinked' = {} /\ removed' = {}
    /\ hydrating' = FALSE
    /\ UNCHANGED <<worldVars, keyed, snapshot, dbVars, tasks, phantoms,
                   boundVars>>

\* No trigger, no operation, or prepare_commit fails: the marks are as before.
NoCommit ==
    /\ phase = "PreCommit"
    /\ phase' = "Commit"
    /\ UNCHANGED <<worldVars, keyed, trackerVars, markVars, snapshot, dbVars, tasks,
                   ghosts, boundVars>>

\* prepare_commit assigns a key to every marked entity that has none, before it looks
\* whether it has an operation for it.
Preassigned == dirty \ keyed

\* The marked entities whose serializer returns something: the component is there.
Serialized == dirty \cap carrying

\* The entities whose key is cached or has just been assigned.
WithKey == keyed \cup Preassigned

\* scan_sources
Scanned == linkDirty \cup despawned

\* Faulty: an end without a key does not keep an edge from being written.
CurrentUnkeyed == {ed \in Edge : ed[1] \in Scanned \cap Live /\ target[ed[1]] = ed[2]}

\* What the serializer returns for the scanned sources: an edge needs both keys.
Current ==
    {ed \in WithKey \X WithKey : ed[1] \in Scanned \cap Live /\ target[ed[1]] = ed[2]}

\* The edges of the snapshot whose source is not scanned.
Retained == {ed \in snapshot : ed[1] \notin Scanned \cap WithKey}

\* Faulty: the edges that are retained are left out of the new snapshot.
NextSnapshotScanned == Current

NextSnapshot == Retained \cup Current

Upserts == NextSnapshot \ snapshot

\* Faulty: an edge is deleted only if its source has no edge left.
DeletesUnlessReplaced == {ed \in snapshot \ NextSnapshot : From(ed[1], NextSnapshot) = {}}

Deletes == snapshot \ NextSnapshot

\* Every mark is taken.  If none of them gives an operation, the commit has one for a
\* resource.
StartCommit ==
    /\ phase = "PreCommit"
    /\ tasks = {}
    /\ dirty \cup linkDirty \cup despawned # {}
    /\ NextSnapshot = {} /\ snapshot # {} => Does("removesLastEdge")
    /\ tasks' = {[marks |-> dirty, links |-> linkDirty, gone |-> despawned,
                  pre |-> Preassigned, creates |-> Serialized \ keyed,
                  updates |-> Serialized \cap keyed,
                  upserts |-> Upserts, deletes |-> Deletes, next |-> NextSnapshot,
                  result |-> "none"]}
    /\ dirty' = {} /\ linkDirty' = {} /\ despawned' = {}
    /\ forgotten' = (forgotten \ Scanned) \cup
           {e \in Scanned \cap Live : target[e] # NoTarget /\ <<e, target[e]>> \notin Current}
    /\ phase' = "Commit"
    /\ UNCHANGED <<worldVars, keyed, trackerVars, snapshot, dbVars, phantoms, boundVars>>

-----------------------------------------------------------------------------
(* The transaction                                                         *)

Finish(t, result) ==
    /\ t.result = "none"
    /\ tasks' = (tasks \ {t}) \cup {[t EXCEPT !.result = result]}
    /\ UNCHANGED <<worldVars, keyed, trackerVars, markVars, snapshot, forgotten, links,
                   removals, phase>>

\* check_operation_success: each document that is updated or deleted is there, in the
\* version that is expected.
Executable(t) == t.updates \cup t.gone \subseteq documents

TransactionCommits(t) ==
    /\ Executable(t)
    /\ Finish(t, "ok")
    /\ documents' = (documents \cup t.creates) \ t.gone
    /\ edges' = (edges \cup t.upserts) \ t.deletes
    /\ phantoms' = phantoms \cup (t.pre \ t.creates)
    /\ UNCHANGED failures

TransactionConflicts(t) ==
    /\ ~Executable(t)
    /\ Finish(t, "err")
    /\ UNCHANGED <<dbVars, phantoms, failures>>

ConnectionLost(t) ==
    /\ failures < MaxFailures
    /\ failures' = failures + 1
    /\ Finish(t, "err")
    /\ UNCHANGED <<dbVars, phantoms>>

-----------------------------------------------------------------------------
(* Commit: handle_commit_completed.                                        *)

NothingFinished ==
    /\ phase = "Commit"
    /\ \A t \in tasks : t.result = "none"
    /\ phase' = "Update"
    /\ UNCHANGED <<worldVars, keyed, trackerVars, markVars, snapshot, dbVars, tasks,
                   ghosts, boundVars>>

\* Faulty: edges are only ever added to the snapshot.
SnapshotGrows(t) == snapshot \cup t.next

\* apply_commit_success: an empty snapshot is not stored.
SnapshotAfter(t) == IF t.next = {} THEN snapshot ELSE t.next

CommitSucceeded(t) ==
    /\ phase = "Commit"
    /\ t.result = "ok"
    /\ phase' = "Update"
    /\ tasks' = tasks \ {t}
    /\ keyed' = keyed \cup t.pre
    /\ snapshot' = SnapshotAfter(t)
    /\ UNCHANGED <<worldVars, trackerVars, markVars, dbVars, ghosts, boundVars>>

\* restore_dirty_state_on_failure: every mark but the relationships'.
DirtyAfterFailure(t) == dirty \cup t.marks

CommitFailed(t) ==
    /\ phase = "Commit"
    /\ t.result = "err"
    /\ phase' = "Update"
    /\ tasks' = tasks \ {t}
    /\ dirty' = DirtyAfterFailure(t)
    /\ despawned' = despawned \cup t.gone
    /\ forgotten' = forgotten \cup (t.links \ (linkDirty \cup relinked))
    /\ UNCHANGED <<worldVars, keyed, trackerVars, linkDirty, snapshot, dbVars, phantoms,
                   boundVars>>

-----------------------------------------------------------------------------
Application ==
    \E e \in Entities :
        \/ Spawn(e) \/ Persist(e) \/ RemoveComponent(e)
        \/ Unlink(e) \/ Despawn(e) \/ LoadLinks(e)
        \/ \E f \in Entities : Link(e, f)

PostUpdate ==
    \/ TrackChanges
    \/ NoCommit
    \/ StartCommit
    \/ NothingFinished
    \/ \E t \in tasks : CommitSucceeded(t) \/ CommitFailed(t)

Database ==
    \E t \in tasks :
        TransactionCommits(t) \/ TransactionConflicts(t) \/ ConnectionLost(t)

Next == Application \/ PostUpdate \/ Database

Spec == Init /\ [][Next]_vars

-----------------------------------------------------------------------------
(* Properties                                                              *)

Settled(e) ==
    /\ e \notin relinked \cup linkDirty \cup removed \cup despawned \cup forgotten
    /\ \A t \in tasks : e \notin t.links \cup t.gone

\* The edges in the database are the relationships of the world, for every source
\* that is not about to be tracked, marked or carried by the commit in flight; marks
\* are dropped only by a failed commit, a frame that loads, or an end without a key.
EdgesFollowRelationships == \A e \in Entities : Settled(e) => ~Diverges(e)

\* "Last-committed edge snapshot": between commits the snapshot that the next diff is
\* made against is what the database holds.
SnapshotIsStored == (\A t \in tasks : t.result # "ok") => snapshot = edges

\* A source that had a single target in the world at all times never has two edges,
\* for a load would pick either: the old edge goes in the transaction that brings the
\* new one, even after marks were dropped.
OneEdgePerSource == \A e \in Entities : Cardinality(From(e, edges)) <= 1

\* No edge is written before the documents of both its ends, nor stays after that of
\* its source; except at an end that got its key in the same or an earlier commit as an
\* entity that had lost its component, for which no document was ever made.
EdgeEndsStored ==
    \A ed \in edges :
        /\ ed[1] \in documents \cup phantoms
        /\ ed[2] \in documents \cup phantoms \cup {e \in Entities : life[e] = "gone"}
=============================================================================
