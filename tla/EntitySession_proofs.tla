----------------------- MODULE EntitySession_proofs ------------------------
(***************************************************************************)
(* Safety of the session for every set of entities and keys and for every  *)
(* value of the bounds: types under any habits of the application, the     *)
(* other invariants in the ordinary use that session_safety checks.        *)
(***************************************************************************)
EXTENDS EntitySession, TLAPS

\* The habits under which the session keeps its promises: another writer, and
\* connections lost after the server has committed.
Ordinary == Environment \subseteq {"foreign", "ambiguous"}

-----------------------------------------------------------------------------
(* The inductive invariant.                                                *)

\* Stamps and versions that a commit may still give stay below their bounds.
Bounded ==
    \A t \in tasks :
        /\ \A op \in t.ops : op.kind = "update" => op.expected < MaxVersion
        /\ \A k \in Keys : version[k] <= MaxVersion

OneTask == \A t, u \in tasks : t = u

\* An entity that lives has the Guid its key is cached under, no other has a Guid, and
\* one that was never spawned has no key.
KeysAgree ==
    \A e \in Entities :
        /\ life[e] = "live" => guid[e] = entityKeys[e]
        /\ life[e] # "live" => guid[e] = NoKey
        /\ life[e] = "unborn" => entityKeys[e] = NoKey

\* The two caches of keys are inverse to each other, over dead entities too.
Indexed == \A e \in Entities, k \in Keys : guidToEntity[k] = e <=> entityKeys[e] = k

\* Marks are on entities for which they mean something, and a despawn is in one place.
Marked ==
    /\ added \cup changed \subseteq carrying /\ carrying \subseteq Live
    /\ \A e \in dirty : entityKeys[e] = NoKey => e \in Live
    /\ \A t \in tasks : \A e \in t.marks : entityKeys[e] = NoKey => e \in Live
    /\ \A e \in Deleting : life[e] = "gone" /\ entityKeys[e] # NoKey
    /\ removed \cap despawned = {}
    /\ \A t \in tasks : t.gone \cap (removed \cup despawned) = {}

\* A frame that has loaded has no commit in flight, and what it added was loaded.
Hydrated ==
    hydrating =>
        /\ tasks = {} /\ phase = "Update"
        /\ \A e \in added : guid[e] # NoKey /\ value[e] <= db[guid[e]].value

\* Stamps grow.
Clocked ==
    /\ \A e \in Entities : value[e] <= clock
    /\ \A k \in Keys : db[k].value <= clock
    /\ \A t \in tasks : \A op \in t.ops : op.value <= clock

\* Keys assigned in advance are those of created documents, or of none at all, for entities
\* that live and have no key, and nobody has them.
Preassigned ==
    \A t \in tasks :
        /\ \A e \in Entities : t.pre[e] # NoKey =>
            /\ e \in Live /\ entityKeys[e] = NoKey
            /\ \A f \in Entities : entityKeys[f] # t.pre[e]
            /\ \/ \E op \in t.ops : op.kind = "create" /\ op.entity = e
               \/ t.pre[e] \in t.void
        /\ \A e, f \in Entities : t.pre[e] = t.pre[f] /\ t.pre[e] # NoKey => e = f

\* Nothing is written under a key assigned to an entity that has nothing to store; if its
\* component is inserted again, the insertion is going to be marked or marked.
Voids ==
    \A t \in tasks :
        /\ \A k \in t.void :
            /\ \E e \in Entities : t.pre[e] = k
            /\ \A op \in t.ops : op.key # k
            /\ db[k].version = 0 /\ k \notin touched
            /\ t.result = "ok" => k \in phantoms
        /\ \A e \in carrying : t.pre[e] \in t.void => e \in changed \cup dirty

\* No document is ever made under the key of a phantom, which its entity keeps.
PhantomsHeld ==
    \A k \in phantoms :
        /\ db[k].version = 0 /\ k \notin touched
        /\ \/ \E e \in Entities : entityKeys[e] = k
           \/ \E t \in tasks : t.result = "ok" /\ k \in t.void

\* Operations are about documents the session knows at the version it knows, one for
\* each document.
Operations ==
    \A t \in tasks :
        /\ \A op \in t.ops :
            /\ op.kind = "create" => t.pre[op.entity] = op.key
            /\ op.kind # "create" =>
                  /\ entityKeys[op.entity] = op.key
                  /\ op.expected = version[op.key] /\ op.expected # 0
            /\ op.kind = "delete" => op.entity \in t.gone
            /\ op.kind # "delete" => op.entity \in t.marks
        /\ \A op, other \in t.ops : op.key = other.key => op = other
        /\ \A e \in t.gone : \E op \in t.ops : op.kind = "delete" /\ op.entity = e

\* An edit made after the commit was prepared is going to be marked or marked.
EditsSeen ==
    \A t \in tasks : \A op \in t.ops :
        op.kind # "delete" /\ op.entity \in carrying /\ op.value # value[op.entity] =>
            op.entity \in changed \cup dirty

\* A document about to be created is not there; what a transaction has written is
\* there, or what others have made of it since.
Outcome ==
    \A t \in tasks : \A op \in t.ops :
        /\ t.result = "none" /\ op.kind = "create" =>
            db[op.key].version = 0 /\ op.key \notin touched \cup phantoms
        /\ t.result = "ok" =>
            /\ op.key \notin phantoms
            /\ db[op.key].value >= Stored(op).value
            /\ IF op.key \in touched
               THEN op.kind # "delete" /\ db[op.key].version > Stored(op).version
               ELSE db[op.key].version = Stored(op).version

\* v is the version of k's document, unless others have changed it; then it is an older
\* one.  Of a phantom it is one of no document.
UpToDate(k, v) ==
    IF k \in touched
    THEN v # 0 /\ (db[k].version = 0 \/ db[k].version > v)
    ELSE IF k \in phantoms THEN v # 0 ELSE v = db[k].version

Current(k) == UpToDate(k, version[k])

\* Documents with a key in the cache are current, those a commit has just written are
\* when its end has been seen.
AllCurrent ==
    \A e \in Entities : entityKeys[e] # NoKey =>
        \/ Current(entityKeys[e])
        \/ \E t \in tasks : t.result = "ok" /\ \E op \in t.ops : op.key = entityKeys[e]

\* Entities that can still be written have a cached version.
VersionKnown ==
    \A e \in Entities : entityKeys[e] # NoKey /\ (e \in Live \/ e \in Deleting) =>
        version[entityKeys[e]] # 0

\* A document that is gone, although the session does not know, is one it has a key of.
LostKeysKnown ==
    \A k \in touched : db[k].version = 0 => \E e \in Entities : entityKeys[e] = k

Types == TypeOK /\ Bounded /\ OneTask

Consistent ==
    /\ KeysAgree /\ Indexed /\ Marked /\ Hydrated /\ Clocked
    /\ Preassigned /\ Voids /\ PhantomsHeld /\ Operations /\ EditsSeen /\ Outcome
    /\ AllCurrent /\ VersionKnown /\ LostKeysKnown
    /\ NoEditLost /\ NoDespawnLost

IInv == Types /\ Consistent

-----------------------------------------------------------------------------
(* Facts about the operators.                                              *)

\* The step taken, with its parameters: what the proofs below split Next into.
LEMMA StepCases ==
    ASSUME [Next]_vars
    PROVE  \/ \E e \in Entities : Spawn(e)
           \/ \E e \in Entities : Edit(e)
           \/ \E e \in Entities : InsertComponent(e)
           \/ \E e \in Entities : RemoveComponent(e)
           \/ \E e \in Entities : Despawn(e)
           \/ \E e \in Entities, k \in Keys : LoadNew(e, k)
           \/ \E e \in Entities, k \in Keys : LoadOver(e, k)
           \/ ReconcileVersions
           \/ TrackChanges
           \/ NoCommit
           \/ StartCommit
           \/ NothingFinished
           \/ \E t \in tasks : CommitSucceeded(t)
           \/ \E t \in tasks : CommitFailed(t)
           \/ \E t \in tasks : TransactionCommits(t)
           \/ \E t \in tasks : TransactionConflicts(t)
           \/ \E t \in tasks : ConnectionLost(t)
           \/ \E t \in tasks : AnswerLost(t)
           \/ \E k \in Keys : ForeignWrite(k)
           \/ Restart
           \/ UNCHANGED vars
  BY DEF Next, Application, PostUpdate, Database

\* A transaction leaves a document of the type of documents under every key.
LEMMA WrittenType ==
    ASSUME TypeOK, Bounded, NEW t \in tasks
    PROVE  Written(t.ops) \in [Keys -> Document]
  <1> SUFFICES ASSUME NEW k \in Keys, NEW op \in t.ops, op.key = k
               PROVE  Stored(op) \in Document
    BY DEF TypeOK, Written
  <1>1. op \in Operation /\ (op.kind = "update" => op.expected < MaxVersion)
    BY DEF TypeOK, CommitTask, Bounded
  <1>2. QED
    BY <1>1, SessionAssumption DEF Stored, Operation, Document, Absent

\* The tasks after the transaction of one of them has ended.
LEMMA FinishType ==
    ASSUME TypeOK, NEW t \in tasks, NEW r \in {"ok", "err"}, Finish(t, r)
    PROVE  tasks' \subseteq CommitTask
  BY DEF TypeOK, Finish, CommitTask

-----------------------------------------------------------------------------
(* Types.                                                                  *)

LEMMA TypesInit == Init => Types
  <1> SUFFICES ASSUME Init PROVE Types
    OBVIOUS
  <1> USE SessionAssumption
  <1>1. 0 \in 0..MaxClock /\ 0 \in 0..MaxFailures /\ 0 \in 0..(MaxVersion + 1)
    OBVIOUS
  <1>2. {Absent, [version |-> 1, value |-> 0]} \subseteq Document
    BY DEF Absent, Document
  <1>3. db \in [Keys -> Document]
    BY <1>2 DEF Init
  <1>4. TypeOK
    BY <1>3, <1>1 DEF Init, FreshSession, TypeOK
  <1>5. QED
    BY <1>4 DEF Types, Init, FreshSession, Bounded, OneTask

LEMMA TypesStep == Types /\ [Next]_vars => Types'
  <1> SUFFICES ASSUME Types, [Next]_vars PROVE Types'
    OBVIOUS
  <1> USE SessionAssumption DEF Types
  <1>1. (\A t \in tasks : \A op \in t.ops : op \in Operation) /\ clock + 1 \in Nat
    BY DEF TypeOK, CommitTask
  <1>2. ASSUME NEW e \in Entities, Spawn(e) PROVE Types'
    BY <1>2 DEF Spawn, Stamp, TypeOK, Bounded, OneTask, cacheVars, ghosts
  <1>3. ASSUME NEW e \in Entities, Edit(e) PROVE Types'
    BY <1>3 DEF Edit, Stamp, TypeOK, Bounded, OneTask, cacheVars, ghosts
  <1>4. ASSUME NEW e \in Entities, InsertComponent(e) PROVE Types'
    BY <1>4 DEF InsertComponent, Stamp, TypeOK, Bounded, OneTask, cacheVars, ghosts, Live
  <1>5. ASSUME NEW e \in Entities, RemoveComponent(e) PROVE Types'
    BY <1>5 DEF RemoveComponent, TypeOK, Bounded, OneTask, cacheVars, ghosts
  <1>6. ASSUME NEW e \in Entities, Despawn(e) PROVE Types'
    BY <1>6 DEF Despawn, TypeOK, Bounded, OneTask, cacheVars, boundVars, ghosts
  <1>7. ASSUME NEW e \in Entities, NEW k \in Keys, InsertEntityKey(e, k),
               Hydrate(e, k) \/ NotHydrated(k),
               UNCHANGED <<removed, dirty, despawned, db, tasks, boundVars, phase>>
        PROVE  /\ value' \in [Entities -> 0..MaxClock]
               /\ version' \in [Keys -> 0..(MaxVersion + 1)]
               /\ entityKeys' \in [Entities -> Keys \cup {NoKey}]
               /\ guidToEntity' \in [Keys -> Entities \cup {NoEntity}]
               /\ added' \subseteq Entities /\ changed' \subseteq Entities
               /\ carrying' \subseteq Entities /\ hydrating' \in BOOLEAN
               /\ touched' \subseteq Keys
               /\ Bounded' /\ OneTask'
    <2>1. db[k].version \in 0..MaxVersion /\ db[k].value \in 0..MaxClock
      BY DEF TypeOK, Document
    <2>2. /\ entityKeys' \in [Entities -> Keys \cup {NoKey}]
          /\ guidToEntity' \in [Keys -> Entities \cup {NoEntity}]
      BY <1>7 DEF InsertEntityKey, TypeOK
    <2>3. SetVersion(k)
      BY <1>7 DEF Hydrate, NotHydrated
    <2>4. version' \in [Keys -> 0..(MaxVersion + 1)] /\ hydrating' \in BOOLEAN
      BY <2>1, <2>3 DEF SetVersion, TypeOK
    <2>5. Bounded' /\ OneTask'
      BY <1>7, <2>1, <2>3 DEF SetVersion, TypeOK, Bounded, OneTask
    <2>6. /\ value' \in [Entities -> 0..MaxClock]
          /\ added' \subseteq Entities /\ changed' \subseteq Entities
          /\ carrying' \subseteq Entities /\ touched' \subseteq Keys
      <3>1. CASE Hydrate(e, k)
        BY <2>1, <3>1 DEF Hydrate, TypeOK
      <3>2. CASE NotHydrated(k)
        BY <3>2 DEF NotHydrated, TypeOK
      <3>3. QED
        BY <1>7, <3>1, <3>2
    <2>7. QED
      BY <2>2, <2>4, <2>5, <2>6
  <1>8. ASSUME NEW e \in Entities, NEW k \in Keys, LoadNew(e, k) PROVE Types'
    BY <1>7, <1>8 DEF LoadNew, TypeOK, boundVars
  <1>9. ASSUME NEW e \in Entities, NEW k \in Keys, LoadOver(e, k) PROVE Types'
    BY <1>7, <1>9 DEF LoadOver, TypeOK, boundVars
  <1>10. CASE ReconcileVersions
    <2>1. \A k \in Keys : db[k].version \in 0..MaxVersion
      BY DEF TypeOK, Document
    <2>2. \A k \in Keys : version'[k] = db[k].version \/ version'[k] = version[k]
      BY <1>10 DEF ReconcileVersions
    <2>3. version' \in [Keys -> 0..(MaxVersion + 1)]
      BY <1>10, <2>1 DEF ReconcileVersions, TypeOK
    <2>4. Bounded' /\ OneTask' /\ touched' \subseteq Keys
      BY <1>10, <2>1, <2>2 DEF ReconcileVersions, Bounded, OneTask, TypeOK
    <2>5. QED
      BY <1>10, <2>3, <2>4 DEF ReconcileVersions, TypeOK, worldVars, trackerVars, boundVars
  <1>11. CASE TrackChanges
    BY <1>11 DEF TrackChanges, Tracked, TypeOK, Bounded, OneTask, worldVars, cacheVars,
                boundVars, ghosts
  <1>12. CASE NoCommit
    BY <1>12 DEF NoCommit, TypeOK, Bounded, OneTask, worldVars, trackerVars, cacheVars,
                boundVars, ghosts
  <1>13. CASE StartCommit
    <2>1. PICK pre \in Preassignments :
             tasks' = {[marks |-> dirty, gone |-> despawned, pre |-> pre,
                        void |-> Void(pre),
                        ops |-> Deletions \cup Updates \cup Creations(pre),
                        result |-> "none"]}
      BY <1>13 DEF StartCommit
    <2>2. \A k \in Keys : version[k] \in 0..MaxVersion /\ version[k] < MaxVersion
      BY <1>13 DEF StartCommit, TypeOK
    <2>3. Deletions \subseteq Operation
      BY <2>2 DEF Deletions, Operation, TypeOK
    <2>4. Updates \subseteq Operation /\ \A op \in Updates : op.expected < MaxVersion
      BY <2>2 DEF Updates, Serialized, Operation, TypeOK
    <2>5. pre \in [Entities -> Keys \cup {NoKey}]
      BY DEF Preassignments
    <2>6. \A e \in Serialized : entityKeys[e] = NoKey => pre[e] \in Keys
      BY DEF Preassignments, Serialized, TypeOK, Live
    <2>7. Creations(pre) \subseteq Operation /\ \A op \in Creations(pre) : op.kind = "create"
      BY <2>6 DEF Creations, Serialized, Operation, TypeOK
    <2>8. \A op \in Deletions : op.kind = "delete"
      BY DEF Deletions
    <2>9. Void(pre) \subseteq Keys
      BY <2>5 DEF Void
    <2>10. tasks' \subseteq CommitTask
      BY <2>9, <2>1, <2>3, <2>4, <2>5, <2>7 DEF CommitTask, TypeOK
    <2>11. /\ version' = version
           /\ \A t \in tasks' : t.ops = Deletions \cup Updates \cup Creations(pre)
      <3>1. version' = version
        BY <1>13 DEF StartCommit, cacheVars
      <3>2. QED
        BY <2>1, <3>1
    <2>12. \A op \in Deletions \cup Updates \cup Creations(pre) :
              op.kind = "update" => op.expected < MaxVersion
      BY <2>4, <2>7, <2>8
    <2>13. \A k \in Keys : version'[k] <= MaxVersion
      BY <2>2, <2>11
    <2>14. Bounded'
      BY <2>11, <2>12, <2>13 DEF Bounded
    <2>15. OneTask'
      BY <2>1 DEF OneTask
    <2>16. QED
      BY <1>13, <2>10, <2>14, <2>15 DEF StartCommit, TypeOK, worldVars, trackerVars, cacheVars,
                                       boundVars, ghosts
  <1>14. CASE NothingFinished
    BY <1>14 DEF NothingFinished, TypeOK, Bounded, OneTask, worldVars, trackerVars,
                 cacheVars, boundVars, ghosts
  <1>15. ASSUME NEW t \in tasks, CommitSucceeded(t) PROVE Types'
    <2>1. t \in CommitTask /\ \A k \in Keys : version[k] \in 0..MaxVersion
      BY DEF TypeOK, Bounded
    <2>2. t.pre \in [Entities -> Keys \cup {NoKey}]
      BY <2>1 DEF CommitTask
    <2>3. \A k \in Keys : VersionAfter(t, k) \in 0..(MaxVersion + 1)
      BY <2>1 DEF VersionAfter
    <2>4. version' \in [Keys -> 0..(MaxVersion + 1)]
      BY <1>15, <2>3 DEF CommitSucceeded
    <2>5. /\ guid' \in [Entities -> Keys \cup {NoKey}]
          /\ entityKeys' \in [Entities -> Keys \cup {NoKey}]
      BY <1>15, <2>2 DEF CommitSucceeded, TypeOK
    <2>6. ASSUME NEW k \in Keys PROVE guidToEntity'[k] \in Entities \cup {NoEntity}
      <3>1. CASE \E e \in Entities : t.pre[e] = k
        BY <1>15, <3>1 DEF CommitSucceeded
      <3>2. CASE ~\E e \in Entities : t.pre[e] = k
        BY <1>15, <3>2 DEF CommitSucceeded, TypeOK
      <3>3. QED
        BY <3>1, <3>2
    <2>7. guidToEntity' \in [Keys -> Entities \cup {NoEntity}]
      BY <1>15, <2>6 DEF CommitSucceeded
    <2>8. tasks' = {}
      BY <1>15 DEF CommitSucceeded, OneTask
    <2>9. QED
      BY <1>15, <2>4, <2>5, <2>7, <2>8 DEF CommitSucceeded, TypeOK, Bounded, OneTask,
                                           trackerVars, boundVars, ghosts
  <1>16. ASSUME NEW t \in tasks, CommitFailed(t) PROVE Types'
    <2>1. t \in CommitTask
      BY DEF TypeOK
    <2>2. dirty' \subseteq Entities /\ despawned' \subseteq Entities
      BY <1>16, <2>1 DEF CommitFailed, DirtyAfterFailure, DespawnedAfterFailure, CommitTask,
                         TypeOK
    <2>3. tasks' = {}
      BY <1>16 DEF CommitFailed, OneTask
    <2>4. QED
      BY <1>16, <2>2, <2>3 DEF CommitFailed, TypeOK, Bounded, OneTask, worldVars,
                               trackerVars, cacheVars, boundVars, ghosts
  <1>17. ASSUME NEW t \in tasks, NEW r \in {"ok", "err"}, Finish(t, r)
         PROVE  tasks' \subseteq CommitTask /\ Bounded' /\ OneTask'
    <2>1. tasks' = {[t EXCEPT !.result = r]} /\ [t EXCEPT !.result = r].ops = t.ops
      BY <1>17 DEF Finish, OneTask, TypeOK, CommitTask
    <2>2. Bounded' /\ OneTask'
      BY <1>17, <2>1 DEF Finish, Bounded, OneTask, cacheVars
    <2>3. QED
      BY <1>17, <2>2, FinishType
  <1>18. ASSUME NEW t \in tasks, TransactionCommits(t) PROVE Types'
    <2>1. t.void \subseteq Keys
      BY DEF TypeOK, CommitTask
    <2>2. QED
      BY <1>17, <1>18, <2>1, WrittenType DEF TransactionCommits, Finish, TypeOK, worldVars,
                                     trackerVars, cacheVars
  <1>19. ASSUME NEW t \in tasks, TransactionConflicts(t) PROVE Types'
    BY <1>17, <1>19 DEF TransactionConflicts, Finish, TypeOK, worldVars, trackerVars,
                        cacheVars, ghosts
  <1>20. ASSUME NEW t \in tasks, ConnectionLost(t) PROVE Types'
    BY <1>17, <1>20 DEF ConnectionLost, Finish, TypeOK, worldVars, trackerVars, cacheVars,
                        ghosts
  <1>21. ASSUME NEW t \in tasks, AnswerLost(t) PROVE Types'
    <2>1. touched' \subseteq Keys
      BY <1>1, <1>21 DEF AnswerLost, TypeOK, Operation
    <2>2. QED
      BY <1>17, <1>21, <2>1, WrittenType DEF AnswerLost, Finish, TypeOK, worldVars,
                                             trackerVars, cacheVars
  <1>22. ASSUME NEW k \in Keys, ForeignWrite(k) PROVE Types'
    <2>1. [version |-> db[k].version + 1, value |-> clock + 1] \in Document
      BY <1>22 DEF ForeignWrite, TypeOK, Document
    <2>2. db' \in [Keys -> Document] /\ clock' \in 0..MaxClock
      BY <1>22, <2>1 DEF ForeignWrite, TypeOK
    <2>3. QED
      BY <1>22, <2>2 DEF ForeignWrite, TypeOK, Bounded, OneTask, worldVars, trackerVars,
                         cacheVars
  <1>23. CASE Restart
    <2>1. db' \in [Keys -> Document]
      BY <1>23, WrittenType DEF Restart, TypeOK
    <2>2. 0 \in 0..MaxClock /\ 0 \in 0..(MaxVersion + 1)
      OBVIOUS
    <2>3. TypeOK'
      BY <1>23, <2>1, <2>2 DEF Restart, TypeOK, boundVars
    <2>4. Bounded' /\ OneTask'
      BY <1>23 DEF Restart, Bounded, OneTask
    <2>5. QED
      BY <2>3, <2>4
  <1>24. CASE UNCHANGED vars
    BY <1>24 DEF vars, TypeOK, Bounded, OneTask, worldVars, trackerVars, cacheVars,
                 boundVars, ghosts
  <1>25. QED
    BY StepCases, <1>2, <1>3, <1>4, <1>5, <1>6, <1>8, <1>9, <1>10, <1>11, <1>12, <1>13,
       <1>14, <1>15,
       <1>16, <1>18, <1>19, <1>20, <1>21, <1>22, <1>23, <1>24

\* Every variable keeps its type, whatever the application does.
THEOREM TypeCorrect == Spec => []TypeOK
  <1>1. Spec => []Types
    BY TypesInit, TypesStep, PTL DEF Spec
  <1>2. Types => TypeOK
    BY DEF Types
  <1>3. QED
    BY <1>1, <1>2, PTL

-----------------------------------------------------------------------------
(* The application's steps.                                                *)

LEMMA OrdinaryHabits ==
    ASSUME Ordinary
    PROVE  /\ ~Does("sharedFrame") /\ ~Does("loadInFlight") /\ ~Does("loadDeleted")
           /\ ~Does("despawnUnkeyed") /\ ~Does("undecodable")
  BY DEF Ordinary, Does

LEMMA InitConsistent == Init => IInv
  <1> SUFFICES ASSUME Init PROVE Consistent
    BY TypesInit DEF IInv
  <1>1. tasks = {} /\ Live = {} /\ Deleting = {} /\ hydrating = FALSE
        /\ touched = {} /\ phantoms = {} /\ carrying = {}
    BY DEF Init, FreshSession, Live, Deleting
  <1>2. \A k \in Keys : db[k].value = 0
    BY DEF Init, Absent
  <1>3. KeysAgree /\ Indexed
    BY SessionAssumption DEF Init, FreshSession, KeysAgree, Indexed
  <1>4. Marked /\ Hydrated /\ Clocked
    BY <1>1, <1>2 DEF Init, FreshSession, Marked, Hydrated, Clocked
  <1>5. Preassigned /\ Voids /\ PhantomsHeld /\ Operations /\ EditsSeen /\ Outcome
    BY <1>1 DEF Preassigned, Voids, PhantomsHeld, Operations, EditsSeen, Outcome
  <1>6. AllCurrent /\ VersionKnown /\ LostKeysKnown /\ NoEditLost /\ NoDespawnLost
    BY <1>1 DEF Init, FreshSession, AllCurrent, VersionKnown, LostKeysKnown, NoEditLost,
                NoDespawnLost
  <1>7. QED
    BY <1>3, <1>4, <1>5, <1>6 DEF Consistent

LEMMA SpawnStep ==
    ASSUME IInv, Ordinary, NEW e \in Entities, Spawn(e)
    PROVE  Consistent'
  <1> USE DEF IInv, Types, Consistent
  <1>1. /\ UNCHANGED <<guid, removed, hydrating, dirty, despawned, entityKeys,
                       guidToEntity, version, db, tasks, touched, phantoms, phase>>
        /\ ~hydrating
        /\ life[e] = "unborn" /\ life' = [life EXCEPT ![e] = "live"]
        /\ value' = [value EXCEPT ![e] = clock + 1] /\ clock' = clock + 1
        /\ added' = added \cup {e} /\ changed' = changed \cup {e}
        /\ carrying' = carrying \cup {e}
    BY OrdinaryHabits DEF Spawn, Stamp, cacheVars, ghosts
  <1>2. Deleting' = Deleting /\ Live' = Live \cup {e}
    BY <1>1 DEF Deleting, Live, TypeOK
  <1>3. clock \in Nat
    BY DEF TypeOK
  <1>4. guid[e] = NoKey /\ entityKeys[e] = NoKey
    BY <1>1 DEF KeysAgree
  <1>5. KeysAgree' /\ Indexed'
    BY <1>1, <1>4 DEF KeysAgree, Indexed, TypeOK
  <1>6. Marked'
    BY <1>1, <1>2 DEF Marked, TypeOK, Live
  <1>7. /\ Hydrated' /\ Operations' /\ Outcome' /\ AllCurrent' /\ LostKeysKnown'
        /\ PhantomsHeld'
    BY <1>1 DEF Hydrated, Operations, Outcome, AllCurrent, Current, UpToDate, LostKeysKnown,
                PhantomsHeld
  <1>8. Clocked'
    BY <1>1, <1>3 DEF Clocked, TypeOK, Document, CommitTask, Operation
  <1>9. Preassigned' /\ Voids'
    BY <1>1, <1>2 DEF Preassigned, Voids
  <1>10. EditsSeen' /\ NoEditLost'
    BY <1>1, <1>2 DEF EditsSeen, NoEditLost, Saved, TypeOK
  <1>11. VersionKnown' /\ NoDespawnLost'
    BY <1>1, <1>2, <1>4 DEF VersionKnown, NoDespawnLost, TypeOK
  <1>12. QED
    BY <1>5, <1>6, <1>7, <1>8, <1>9, <1>10, <1>11

LEMMA EditStep ==
    ASSUME IInv, Ordinary, NEW e \in Entities, Edit(e) \/ InsertComponent(e)
    PROVE  Consistent'
  <1> USE DEF IInv, Types, Consistent
  <1>1. /\ UNCHANGED <<life, guid, removed, hydrating, dirty, despawned, entityKeys,
                       guidToEntity, version, db, tasks, touched, phantoms, phase>>
        /\ e \in Live /\ ~(hydrating /\ e \in added')
        /\ carrying' = carrying \cup {e} /\ added \subseteq added'
        /\ added' \subseteq added \cup {e}
        /\ value' = [value EXCEPT ![e] = clock + 1] /\ clock' = clock + 1
        /\ changed' = changed \cup {e}
    BY OrdinaryHabits DEF Edit, InsertComponent, Stamp, Marked, cacheVars, ghosts
  <1>2. Deleting' = Deleting /\ Live' = Live
    BY <1>1 DEF Deleting, Live
  <1>3. clock \in Nat
    BY DEF TypeOK
  <1>4. KeysAgree' /\ Indexed'
    BY <1>1 DEF KeysAgree, Indexed
  <1>5. Marked'
    BY <1>1, <1>2 DEF Marked
  <1>6. Hydrated'
    BY <1>1 DEF Hydrated, TypeOK
  <1>7. Operations' /\ Outcome' /\ AllCurrent' /\ LostKeysKnown' /\ PhantomsHeld'
    BY <1>1 DEF Operations, Outcome, AllCurrent, Current, UpToDate, LostKeysKnown,
                PhantomsHeld
  <1>8. Clocked'
    BY <1>1, <1>3 DEF Clocked, TypeOK, Document, CommitTask, Operation
  <1>9. Preassigned' /\ Voids'
    BY <1>1, <1>2 DEF Preassigned, Voids
  <1>10. EditsSeen' /\ NoEditLost'
    BY <1>1, <1>2 DEF EditsSeen, NoEditLost, Saved, TypeOK
  <1>11. VersionKnown' /\ NoDespawnLost'
    BY <1>1, <1>2 DEF VersionKnown, NoDespawnLost
  <1>12. QED
    BY <1>4, <1>5, <1>6, <1>7, <1>8, <1>9, <1>10, <1>11

LEMMA RemoveComponentStep ==
    ASSUME IInv, NEW e \in Entities, RemoveComponent(e)
    PROVE  Consistent'
  <1> USE DEF IInv, Types, Consistent
  <1>1. /\ UNCHANGED <<life, guid, value, removed, hydrating, dirty, despawned, entityKeys,
                       guidToEntity, version, db, tasks, touched, phantoms, phase>>
        /\ clock' = clock + 1 /\ carrying' = carrying \ {e}
        /\ added' = added \ {e} /\ changed' = changed \ {e}
    BY DEF RemoveComponent, cacheVars, ghosts
  <1>2. Deleting' = Deleting /\ Live' = Live
    BY <1>1 DEF Deleting, Live
  <1>3. clock \in Nat
    BY DEF TypeOK
  <1>4. KeysAgree' /\ Indexed' /\ Hydrated'
    BY <1>1 DEF KeysAgree, Indexed, Hydrated
  <1>5. Marked'
    BY <1>1, <1>2 DEF Marked
  <1>6. Operations' /\ Outcome' /\ AllCurrent' /\ LostKeysKnown' /\ PhantomsHeld'
    BY <1>1 DEF Operations, Outcome, AllCurrent, Current, UpToDate, LostKeysKnown,
                PhantomsHeld
  <1>7. Clocked'
    BY <1>1, <1>3 DEF Clocked, TypeOK, Document, CommitTask, Operation
  <1>8. Preassigned' /\ Voids'
    BY <1>1, <1>2 DEF Preassigned, Voids
  <1>9. EditsSeen' /\ NoEditLost'
    BY <1>1 DEF EditsSeen, NoEditLost, Saved
  <1>10. VersionKnown' /\ NoDespawnLost'
    BY <1>1, <1>2 DEF VersionKnown, NoDespawnLost
  <1>11. QED
    BY <1>4, <1>5, <1>6, <1>7, <1>8, <1>9, <1>10

LEMMA DespawnStep ==
    ASSUME IInv, Ordinary, NEW e \in Entities, Despawn(e)
    PROVE  Consistent'
  <1> USE DEF IInv, Types, Consistent
  <1>1. /\ UNCHANGED <<value, hydrating, dirty, despawned, entityKeys, guidToEntity, version,
                       db, tasks, clock, touched, phantoms, phase>>
        /\ e \in Live /\ guid[e] # NoKey
        /\ life' = [life EXCEPT ![e] = "gone"] /\ guid' = [guid EXCEPT ![e] = NoKey]
        /\ added' = added \ {e} /\ changed' = changed \ {e} /\ removed' = removed \cup {e}
        /\ carrying' = carrying \ {e}
    BY OrdinaryHabits DEF Despawn, cacheVars, boundVars, ghosts
  <1>2. Deleting' = Deleting \cup {e} /\ Live' = Live \ {e}
    BY <1>1 DEF Deleting, Live, TypeOK
  <1>3. guid[e] = entityKeys[e]
    BY <1>1 DEF KeysAgree, Live
  <1>4. e \notin Deleting
    BY <1>1 DEF Marked, Live
  <1>5. KeysAgree' /\ Indexed'
    BY <1>1, <1>3 DEF KeysAgree, Indexed, TypeOK
  <1>6. Marked'
    <2>1. added' \cup changed' \subseteq carrying' /\ carrying' \subseteq Live'
      BY <1>1, <1>2 DEF Marked
    <2>2. /\ \A f \in dirty' : entityKeys'[f] = NoKey => f \in Live'
          /\ \A t \in tasks' : \A f \in t.marks : entityKeys'[f] = NoKey => f \in Live'
      BY <1>1, <1>2, <1>3 DEF Marked
    <2>3. \A f \in Deleting' : life'[f] = "gone" /\ entityKeys'[f] # NoKey
      BY <1>1, <1>2, <1>3 DEF Marked, TypeOK
    <2>4. /\ removed' \cap despawned' = {}
          /\ \A t \in tasks' : t.gone \cap (removed' \cup despawned') = {}
      BY <1>1, <1>4 DEF Marked, Deleting
    <2>5. QED
      BY <2>1, <2>2, <2>3, <2>4 DEF Marked
  <1>7. Hydrated' /\ Clocked'
    BY <1>1 DEF Hydrated, Clocked, TypeOK
  <1>8. Operations' /\ Outcome' /\ AllCurrent' /\ LostKeysKnown' /\ PhantomsHeld'
    BY <1>1 DEF Operations, Outcome, AllCurrent, Current, UpToDate, LostKeysKnown,
                PhantomsHeld
  <1>9. Preassigned' /\ Voids'
    BY <1>1, <1>2, <1>3 DEF Preassigned, Voids
  <1>10. EditsSeen' /\ NoEditLost'
    BY <1>1, <1>2 DEF EditsSeen, NoEditLost, Saved, TypeOK
  <1>11. VersionKnown' /\ NoDespawnLost'
    BY <1>1, <1>2 DEF VersionKnown, NoDespawnLost, TypeOK
  <1>12. QED
    BY <1>5, <1>6, <1>7, <1>8, <1>9, <1>10, <1>11

\* Who holds a key: the entity that lives with its Guid, as both caches say.
LEMMA KeyHolder ==
    ASSUME IInv, NEW e \in Entities, NEW f \in Entities, entityKeys[e] = entityKeys[f],
           entityKeys[e] # NoKey
    PROVE  e = f
  <1>1. entityKeys[e] \in Keys
    BY DEF IInv, Types, TypeOK
  <1>2. QED
    BY <1>1 DEF IInv, Consistent, Indexed

LEMMA LoadNewStep ==
    ASSUME IInv, Ordinary, NEW e \in Entities, NEW k \in Keys, LoadNew(e, k)
    PROVE  Consistent'
  <1> USE SessionAssumption DEF IInv, Types, Consistent
  <1>1. /\ UNCHANGED <<removed, dirty, despawned, db, tasks, clock, phase>>
        /\ tasks = {} /\ phase = "Update" /\ db[k].version # 0 /\ life[e] = "unborn"
        /\ ~hydrating => added = {}
        /\ life' = [life EXCEPT ![e] = "live"] /\ guid' = [guid EXCEPT ![e] = k]
        /\ entityKeys' = [entityKeys EXCEPT ![e] = k]
        /\ guidToEntity' = [guidToEntity EXCEPT ![k] = e]
        /\ version' = [version EXCEPT ![k] = db[k].version]
        /\ value' = [value EXCEPT ![e] = db[k].value]
        /\ added' = added \cup {e} /\ changed' = changed \cup {e}
        /\ hydrating' = TRUE /\ touched' = touched \ {k} /\ phantoms' = phantoms
        /\ carrying' = carrying \cup {e}
    BY OrdinaryHabits DEF LoadNew, MayLoad, InsertEntityKey, Hydrate, NotHydrated, SetVersion,
                             boundVars, Marked, Live
  <1>2. Deleting' = Deleting /\ Live' = Live \cup {e} /\ e \notin Live
    BY <1>1 DEF Deleting, Live, TypeOK
  <1>3. entityKeys[e] = NoKey /\ guid[e] = NoKey
    BY <1>1 DEF KeysAgree
  <1>4. ASSUME NEW f \in Entities, entityKeys[f] = k PROVE FALSE
    <2>1. guidToEntity[k] = f
      BY <1>4 DEF Indexed
    <2>2. f \notin Live
      BY <2>1 DEF LoadNew, Resolved
    <2>3. life[f] = "gone"
      BY <1>4, <2>2 DEF Live, TypeOK, KeysAgree
    <2>4. f \notin Deleting
      BY <1>4, OrdinaryHabits DEF LoadNew, MayLoad
    <2>5. QED
      BY <1>1, <1>4, <2>3, <2>4 DEF NoDespawnLost
  <1>5. KeysAgree'
    BY <1>1 DEF KeysAgree, TypeOK
  <1>6. Indexed'
    BY <1>1, <1>3, <1>4 DEF Indexed, TypeOK
  <1>7. Marked'
    BY <1>1, <1>2 DEF Marked, TypeOK, Live
  <1>8. Hydrated'
    <2>1. \A f \in added : guid[f] # NoKey /\ value[f] <= db[guid[f]].value /\ f \in Live
      BY <1>1 DEF Hydrated, Marked
    <2>2. \A f \in added : f # e /\ guid'[f] = guid[f] /\ value'[f] = value[f]
      BY <1>1, <1>2, <2>1 DEF TypeOK
    <2>3. guid'[e] = k /\ value'[e] = db[k].value /\ db[k].value \in Nat
      BY <1>1 DEF TypeOK, Document
    <2>4. QED
      BY <1>1, <2>1, <2>2, <2>3 DEF Hydrated
  <1>9. Clocked'
    BY <1>1 DEF Clocked, TypeOK
  <1>10. Preassigned' /\ Voids' /\ Operations' /\ EditsSeen' /\ Outcome'
    BY <1>1 DEF Preassigned, Voids, Operations, EditsSeen, Outcome
  <1>11. AllCurrent'
    BY <1>1, <1>3 DEF AllCurrent, Current, UpToDate, PhantomsHeld, TypeOK
  <1>12. VersionKnown'
    BY <1>1, <1>2, <1>3, <1>4 DEF VersionKnown, TypeOK
  <1>13. LostKeysKnown'
    <2>1. ASSUME NEW q \in touched', db'[q].version = 0
          PROVE  \E f \in Entities : entityKeys'[f] = q
      <3>1. PICK f \in Entities : entityKeys[f] = q
        BY <1>1, <2>1 DEF LostKeysKnown
      <3>2. q \in Keys
        BY <1>1 DEF TypeOK
      <3>3. QED
        BY <1>1, <1>3, <3>1, <3>2 DEF TypeOK
    <2>2. QED
      BY <2>1 DEF LostKeysKnown
  <1>14. NoEditLost'
    BY <1>1, <1>2 DEF NoEditLost, Saved, TypeOK
  <1>15. NoDespawnLost'
    BY <1>1, <1>2 DEF NoDespawnLost, TypeOK
  <1>16. PhantomsHeld'
    BY <1>1, <1>3, SessionAssumption DEF PhantomsHeld, TypeOK
  <1>17. QED
    BY <1>5, <1>6, <1>7, <1>8, <1>9, <1>10, <1>11, <1>12, <1>13, <1>14, <1>15, <1>16

LEMMA LoadOverStep ==
    ASSUME IInv, Ordinary, NEW e \in Entities, NEW k \in Keys, LoadOver(e, k)
    PROVE  Consistent'
  <1> USE SessionAssumption DEF IInv, Types, Consistent
  <1>1. e \in Live /\ guid[e] = k /\ entityKeys[e] = k /\ guidToEntity[k] = e
    BY DEF LoadOver, Resolved, KeysAgree, Indexed, Live
  <1>2. /\ UNCHANGED <<life, guid, removed, dirty, despawned, db, tasks, clock, phase>>
        /\ tasks = {} /\ phase = "Update" /\ db[k].version # 0
        /\ ~hydrating => added = {}
        /\ entityKeys' = entityKeys /\ guidToEntity' = guidToEntity
        /\ version' = [version EXCEPT ![k] = db[k].version]
        /\ value' = [value EXCEPT ![e] = db[k].value]
        /\ changed' = changed \cup {e}
        /\ added \subseteq added' /\ added' \subseteq added \cup {e}
        /\ hydrating' = TRUE /\ touched' = touched \ {k} /\ phantoms' = phantoms
        /\ carrying' = carrying \cup {e}
    BY <1>1, OrdinaryHabits DEF LoadOver, MayLoad, InsertEntityKey, Hydrate, NotHydrated,
                                   SetVersion, boundVars, TypeOK
  <1>3. Deleting' = Deleting /\ Live' = Live
    BY <1>2 DEF Deleting, Live
  <1>4. KeysAgree' /\ Indexed'
    BY <1>2 DEF KeysAgree, Indexed
  <1>5. Marked'
    BY <1>1, <1>2, <1>3 DEF Marked
  <1>6. Hydrated'
    <2>1. \A f \in added : guid[f] # NoKey /\ value[f] <= db[guid[f]].value /\ f \in Live
      BY <1>2 DEF Hydrated, Marked
    <2>2. \A f \in added : f = e \/ value'[f] = value[f]
      BY <1>2, <2>1 DEF TypeOK, Live
    <2>3. value'[e] = db[k].value /\ db[k].value \in Nat
      BY <1>2 DEF TypeOK, Document
    <2>4. QED
      BY <1>1, <1>2, <2>1, <2>2, <2>3 DEF Hydrated
  <1>7. Clocked'
    BY <1>2 DEF Clocked, TypeOK
  <1>8. Preassigned' /\ Voids' /\ Operations' /\ EditsSeen' /\ Outcome'
    BY <1>2 DEF Preassigned, Voids, Operations, EditsSeen, Outcome
  <1>9. AllCurrent'
    BY <1>2 DEF AllCurrent, Current, UpToDate, PhantomsHeld, TypeOK
  <1>10. VersionKnown'
    BY <1>2, <1>3 DEF VersionKnown, TypeOK
  <1>11. LostKeysKnown' /\ NoDespawnLost' /\ PhantomsHeld'
    BY <1>2, <1>3 DEF LostKeysKnown, NoDespawnLost, PhantomsHeld
  <1>12. NoEditLost'
    BY <1>2, <1>3 DEF NoEditLost, Saved, TypeOK
  <1>13. QED
    BY <1>4, <1>5, <1>6, <1>7, <1>8, <1>9, <1>10, <1>11, <1>12

LEMMA ReconcileVersionsStep ==
    ASSUME IInv, Ordinary, ReconcileVersions
    PROVE  Consistent'
  <1> USE DEF IInv, Types, Consistent
  <1>1. /\ UNCHANGED <<life, guid, carrying, value, added, changed, removed, hydrating,
                       dirty, despawned,
                       entityKeys, guidToEntity, db, tasks, clock, phantoms, phase>>
        /\ tasks = {}
        /\ version' = [k \in Keys |-> IF db[k].version # 0 THEN db[k].version ELSE version[k]]
        /\ touched' = {k \in touched : db[k].version = 0}
    BY OrdinaryHabits DEF ReconcileVersions, worldVars, trackerVars, boundVars
  <1>2. Deleting' = Deleting /\ Live' = Live
    BY <1>1 DEF Deleting, Live
  <1>3. KeysAgree' /\ Indexed' /\ Hydrated' /\ Clocked'
    BY <1>1 DEF KeysAgree, Indexed, Hydrated, Clocked
  <1>4. Marked' /\ NoEditLost' /\ NoDespawnLost'
    BY <1>1, <1>2 DEF Marked, NoEditLost, NoDespawnLost, Saved
  <1>5. Preassigned' /\ Voids' /\ Operations' /\ EditsSeen' /\ Outcome'
    BY <1>1 DEF Preassigned, Voids, Operations, EditsSeen, Outcome
  <1>6. AllCurrent'
    BY <1>1 DEF AllCurrent, Current, UpToDate, PhantomsHeld, TypeOK
  <1>7. VersionKnown'
    BY <1>1, <1>2 DEF VersionKnown, TypeOK
  <1>8. LostKeysKnown' /\ PhantomsHeld'
    BY <1>1 DEF LostKeysKnown, PhantomsHeld
  <1>9. QED
    BY <1>3, <1>4, <1>5, <1>6, <1>7, <1>8

-----------------------------------------------------------------------------
(* PostUpdate's steps.                                                     *)

LEMMA TrackChangesStep ==
    ASSUME IInv, TrackChanges
    PROVE  Consistent'
  <1> USE DEF IInv, Types, Consistent
  <1>1. /\ UNCHANGED <<life, guid, carrying, value, entityKeys, guidToEntity, version,
                       db, tasks, clock,
                       touched, phantoms>>
        /\ dirty' = dirty \cup Tracked /\ despawned' = despawned \cup removed
        /\ added' = {} /\ changed' = {} /\ removed' = {} /\ hydrating' = FALSE
    BY DEF TrackChanges, worldVars, cacheVars, boundVars, ghosts
  <1>2. Deleting' = Deleting /\ Live' = Live
    BY <1>1 DEF Deleting, Live
  <1>3. ASSUME NEW e \in changed PROVE e \in dirty' \/ (hydrating /\ e \in added)
    BY <1>1 DEF Tracked
  <1>4. KeysAgree' /\ Indexed' /\ Hydrated' /\ Clocked'
    BY <1>1 DEF KeysAgree, Indexed, Hydrated, Clocked
  <1>5. Marked'
    BY <1>1, <1>2 DEF Marked, Tracked
  <1>6. /\ Preassigned' /\ Operations' /\ Outcome' /\ AllCurrent' /\ LostKeysKnown'
        /\ PhantomsHeld'
    BY <1>1, <1>2 DEF Preassigned, Operations, Outcome, AllCurrent, Current, UpToDate,
                      LostKeysKnown, PhantomsHeld
  <1>7. EditsSeen' /\ Voids'
    BY <1>1, <1>2, <1>3 DEF EditsSeen, Voids, Hydrated
  <1>8. VersionKnown' /\ NoDespawnLost'
    BY <1>1, <1>2 DEF VersionKnown, NoDespawnLost
  <1>9. NoEditLost'
    <2> SUFFICES ASSUME NEW e \in carrying, value[e] > Saved(e), hydrating, e \in added
                 PROVE  FALSE
      BY <1>1, <1>2, <1>3 DEF NoEditLost, Saved
    <2>1. guid[e] # NoKey /\ value[e] <= db[guid[e]].value
      BY DEF Hydrated
    <2>2. guid[e] \in Keys /\ value[e] \in Nat
      BY <2>1 DEF TypeOK
    <2>3. db[guid[e]].value \in Nat
      BY <2>2 DEF TypeOK, Document
    <2>4. QED
      BY <2>1, <2>2, <2>3 DEF Saved
  <1>10. QED
    BY <1>4, <1>5, <1>6, <1>7, <1>8, <1>9

\* The frame goes on, or nothing happens.
LEMMA PhaseStep ==
    ASSUME IInv, NoCommit \/ NothingFinished \/ UNCHANGED vars
    PROVE  Consistent'
  <1> USE DEF IInv, Types, Consistent
  <1>1. UNCHANGED <<life, guid, carrying, value, added, changed, removed, hydrating,
                    dirty, despawned,
                    entityKeys, guidToEntity, version, db, tasks, clock, touched, phantoms>>
    BY DEF NoCommit, NothingFinished, vars, worldVars, trackerVars, cacheVars, boundVars,
           ghosts
  <1>2. hydrating => phase' = phase
    BY DEF NoCommit, NothingFinished, vars, Hydrated
  <1>3. Deleting' = Deleting /\ Live' = Live
    BY <1>1 DEF Deleting, Live
  <1>4. KeysAgree' /\ Indexed' /\ Hydrated' /\ Clocked'
    BY <1>1, <1>2 DEF KeysAgree, Indexed, Hydrated, Clocked
  <1>5. /\ Marked' /\ Preassigned' /\ Voids' /\ PhantomsHeld' /\ Operations' /\ EditsSeen'
        /\ Outcome'
    BY <1>1, <1>3 DEF Marked, Preassigned, Voids, PhantomsHeld, Operations, EditsSeen,
                      Outcome
  <1>6. AllCurrent' /\ LostKeysKnown' /\ VersionKnown' /\ NoDespawnLost' /\ NoEditLost'
    BY <1>1, <1>3 DEF AllCurrent, Current, UpToDate, LostKeysKnown, VersionKnown, NoDespawnLost,
                      NoEditLost, Saved
  <1>7. QED
    BY <1>4, <1>5, <1>6

\* The operations of a commit, one for each document.
LEMMA OneOperationPerKey ==
    ASSUME IInv, NEW pre \in Preassignments,
           NEW op \in Deletions \cup Updates \cup Creations(pre),
           NEW other \in Deletions \cup Updates \cup Creations(pre), op.key = other.key
    PROVE  op = other
  <1> USE DEF IInv, Types, Consistent
  <1>1. \A e \in despawned : life[e] = "gone"
    BY DEF Marked, Deleting
  <1>2. \A e \in Serialized : life[e] = "live" /\ e \in Entities
    BY DEF Serialized, Marked, Live
  <1>3. ASSUME NEW o \in Creations(pre)
        PROVE  /\ o.entity \in Entities /\ o.key = pre[o.entity] /\ o.key # NoKey
               /\ \A f \in Entities : entityKeys[f] # o.key
    <2>1. PICK e \in Serialized :
             /\ entityKeys[e] = NoKey
             /\ o = [kind |-> "create", entity |-> e, key |-> pre[e], expected |-> 0,
                     value |-> value[e]]
      BY DEF Creations
    <2>2. guid[e] = NoKey /\ e \in dirty /\ e \in Entities
      BY <2>1, <1>2 DEF KeysAgree, Serialized
    <2>3. pre[e] \in Keys /\ Fresh(pre[e])
      BY <2>1, <2>2 DEF Preassignments
    <2>4. QED
      BY <2>1, <2>2, <2>3, SessionAssumption DEF Fresh
  <1>4. ASSUME NEW o \in Deletions \cup Updates
        PROVE  /\ o.entity \in Entities /\ o.key = entityKeys[o.entity] /\ o.key # NoKey
    BY <1>2 DEF Deletions, Updates, TypeOK
  <1>5. CASE op \in Creations(pre) /\ other \in Creations(pre)
    <2>1. op.entity = other.entity
      BY <1>3, <1>5 DEF Preassignments
    <2>2. QED
      BY <1>5, <2>1 DEF Creations
  <1>6. CASE op \in Creations(pre) /\ other \notin Creations(pre)
    BY <1>3, <1>4, <1>6
  <1>7. CASE op \notin Creations(pre) /\ other \in Creations(pre)
    BY <1>3, <1>4, <1>7
  <1>8. CASE op \notin Creations(pre) /\ other \notin Creations(pre)
    <2>1. op.entity = other.entity
      BY <1>4, <1>8, KeyHolder
    <2>2. ~(op \in Deletions /\ other \in Updates) /\ ~(op \in Updates /\ other \in Deletions)
      BY <1>1, <1>2, <2>1 DEF Deletions, Updates
    <2>3. QED
      BY <1>8, <2>1, <2>2 DEF Deletions, Updates
  <1>9. QED
    BY <1>5, <1>6, <1>7, <1>8

LEMMA StartCommitStep ==
    ASSUME IInv, StartCommit
    PROVE  Consistent'
  <1> USE DEF IInv, Types, Consistent
  <1>1. /\ UNCHANGED <<life, guid, carrying, value, added, changed, removed, hydrating,
                       entityKeys,
                       guidToEntity, version, db, clock, touched, phantoms>>
        /\ phase = "PreCommit" /\ tasks = {} /\ ~MissingVersion
        /\ dirty' = {} /\ despawned' = {}
    BY DEF StartCommit, worldVars, trackerVars, cacheVars, boundVars, ghosts
  <1>2. PICK pre \in Preassignments :
           tasks' = {[marks |-> dirty, gone |-> despawned, pre |-> pre,
                      void |-> Void(pre),
                      ops |-> Deletions \cup Updates \cup Creations(pre),
                      result |-> "none"]}
    BY DEF StartCommit
  <1> DEFINE ops == Deletions \cup Updates \cup Creations(pre)
  <1>3. \A t \in tasks' : /\ t.marks = dirty /\ t.gone = despawned /\ t.pre = pre
                          /\ t.void = Void(pre) /\ t.ops = ops /\ t.result = "none"
    BY <1>2
  <1> HIDE DEF ops
  <1>4. ~hydrating
    BY <1>1 DEF Hydrated
  <1>5. Deleting' = Deleting /\ Live' = Live
    <2>1. UNION {t.gone : t \in tasks'} = despawned
      BY <1>2
    <2>2. UNION {t.gone : t \in tasks} = {}
      BY <1>1
    <2>3. QED
      BY <1>1, <2>1, <2>2 DEF Deleting, Live
  <1>6. \A e \in Entities : pre[e] # NoKey =>
           e \in dirty \cap Live /\ entityKeys[e] = NoKey /\ Fresh(pre[e])
    BY DEF Preassignments, Marked, KeysAgree, Live
  <1>7. \A op \in Deletions : op.kind = "delete" /\ op.entity \in despawned
                              /\ op.key = entityKeys[op.entity] /\ op.expected = version[op.key]
                              /\ op.value = 0
    BY DEF Deletions
  <1>8. \A op \in Updates : op.kind = "update" /\ op.entity \in dirty
                            /\ op.key = entityKeys[op.entity] /\ op.expected = version[op.key]
                            /\ op.value = value[op.entity]
    BY DEF Updates, Serialized
  <1>9. \A op \in Creations(pre) : op.kind = "create" /\ op.entity \in dirty \cap Live
                                   /\ op.key = pre[op.entity] /\ op.value = value[op.entity]
                                   /\ entityKeys[op.entity] = NoKey
    BY DEF Creations, Serialized, Marked
  <1>10. KeysAgree' /\ Indexed'
    BY <1>1 DEF KeysAgree, Indexed
  <1>11. Marked'
    <2>1. added' \cup changed' \subseteq carrying' /\ carrying' \subseteq Live'
      BY <1>1, <1>5 DEF Marked
    <2>2. \A t \in tasks' : \A e \in t.marks : entityKeys'[e] = NoKey => e \in Live'
      BY <1>1, <1>3, <1>5 DEF Marked
    <2>3. \A e \in Deleting' : life'[e] = "gone" /\ entityKeys'[e] # NoKey
      BY <1>1, <1>5 DEF Marked
    <2>4. \A t \in tasks' : t.gone \cap (removed' \cup despawned') = {}
      BY <1>1, <1>3 DEF Marked
    <2>5. QED
      BY <1>1, <2>1, <2>2, <2>3, <2>4 DEF Marked
  <1>12. Hydrated'
    BY <1>1, <1>4 DEF Hydrated
  <1>13. Clocked'
    <2>1. \A op \in ops : op.value <= clock
      BY <1>7, <1>8, <1>9 DEF ops, Clocked, TypeOK, Live
    <2>2. QED
      BY <1>1, <1>3, <2>1 DEF Clocked
  <1>14. Preassigned'
    <2>1. ASSUME NEW e \in Entities, pre[e] # NoKey, e \in carrying
          PROVE  \E op \in ops : op.kind = "create" /\ op.entity = e
      <3>1. [kind |-> "create", entity |-> e, key |-> pre[e], expected |-> 0,
             value |-> value[e]] \in Creations(pre)
        BY <1>6, <2>1 DEF Creations, Serialized
      <3>2. QED
        BY <3>1 DEF ops
    <2>2. \A e, f \in Entities : pre[e] = pre[f] /\ pre[e] # NoKey => e = f
      BY DEF Preassignments
    <2>3. ASSUME NEW e \in Entities, pre[e] # NoKey, e \notin carrying
          PROVE  pre[e] \in Void(pre)
      BY <2>3 DEF Void
    <2>4. QED
      BY <1>1, <1>3, <1>5, <1>6, <2>1, <2>2, <2>3 DEF Preassigned, Fresh
  <1>15. \A q \in Entities : Fresh(pre[q]) => pre[q] \notin touched \cup phantoms
    BY <1>1 DEF Fresh, LostKeysKnown, PhantomsHeld
  <1>16. Voids'
    <2>1. ASSUME NEW k \in Void(pre)
          PROVE  \E e \in Entities \ carrying : pre[e] = k /\ k # NoKey /\ Fresh(k)
      BY <1>6, <2>1 DEF Void
    <2>2. ASSUME NEW k \in Void(pre), NEW op \in ops PROVE op.key # k
      <3>1. PICK e \in Entities \ carrying : pre[e] = k /\ k # NoKey /\ Fresh(k)
        BY <2>1
      <3>2. CASE op \in Creations(pre)
        <4>1. op.entity \in carrying /\ op.entity \in Entities /\ op.key = pre[op.entity]
          BY <3>2 DEF Creations, Serialized, TypeOK
        <4>2. QED
          BY <3>1, <4>1 DEF Preassignments
      <3>3. CASE op \in Deletions \cup Updates
        <4>1. op.entity \in Entities /\ op.key = entityKeys[op.entity]
          BY <3>3 DEF Deletions, Updates, Serialized, TypeOK
        <4>2. QED
          BY <3>1, <4>1 DEF Fresh
      <3>4. QED
        BY <3>2, <3>3 DEF ops
    <2>3. ASSUME NEW k \in Void(pre) PROVE db[k].version = 0 /\ k \notin touched
      BY <2>1, <1>15 DEF Fresh
    <2>4. ASSUME NEW e \in carrying, pre[e] \in Void(pre) PROVE FALSE
      BY <2>1, <2>4 DEF Preassignments, TypeOK
    <2>5. QED
      BY <1>1, <1>3, <2>1, <2>2, <2>3, <2>4 DEF Voids
  <1>17. Operations'
    <2>1. \A op, other \in ops : op.key = other.key => op = other
      BY OneOperationPerKey DEF ops
    <2>2. \A op \in Deletions \cup Updates : op.expected # 0
      BY <1>1 DEF MissingVersion
    <2>3. ASSUME NEW e \in despawned
          PROVE  \E op \in ops : op.kind = "delete" /\ op.entity = e
      <3>1. e \in Entities /\ entityKeys[e] # NoKey
        BY DEF Marked, Deleting, TypeOK
      <3>2. [kind |-> "delete", entity |-> e, key |-> entityKeys[e],
             expected |-> version[entityKeys[e]], value |-> 0] \in Deletions
        BY <3>1 DEF Deletions
      <3>3. QED
        BY <3>2 DEF ops
    <2>4. \A op \in ops :
             /\ op.kind = "create" => pre[op.entity] = op.key
             /\ op.kind # "create" => /\ entityKeys[op.entity] = op.key
                                      /\ op.expected = version[op.key] /\ op.expected # 0
             /\ op.kind = "delete" => op.entity \in despawned
             /\ op.kind # "delete" => op.entity \in dirty
      BY <1>7, <1>8, <1>9, <2>2 DEF ops
    <2>5. QED
      BY <1>1, <1>3, <2>1, <2>3, <2>4 DEF Operations
  <1>18. EditsSeen'
    BY <1>1, <1>3, <1>7, <1>8, <1>9 DEF EditsSeen, ops
  <1>19. Outcome'
    <2>1. ASSUME NEW op \in ops, op.kind = "create"
          PROVE  db[op.key].version = 0 /\ op.key \notin touched \cup phantoms
      <3>1. op \in Creations(pre)
        BY <1>7, <1>8, <2>1 DEF ops
      <3>2. op.entity \in Entities /\ guid[op.entity] = NoKey /\ op.entity \in dirty
            /\ entityKeys[op.entity] = NoKey
        BY <1>9, <3>1 DEF KeysAgree, Live
      <3>3. Fresh(op.key)
        BY <1>9, <3>1, <3>2 DEF Preassignments
      <3>4. QED
        BY <1>1, <3>3 DEF Fresh, LostKeysKnown, PhantomsHeld
    <2>2. QED
      BY <1>1, <1>3, <2>1 DEF Outcome
  <1>20. AllCurrent' /\ LostKeysKnown' /\ PhantomsHeld'
    BY <1>1 DEF AllCurrent, Current, UpToDate, LostKeysKnown, PhantomsHeld
  <1>21. VersionKnown' /\ NoDespawnLost'
    BY <1>1, <1>5 DEF VersionKnown, NoDespawnLost
  <1>22. NoEditLost'
    <2>1. ASSUME NEW e \in dirty \cap carrying
          PROVE  \E op \in ops : op.entity = e /\ op.value = value[e]
      <3>1. e \in Serialized
        BY DEF Serialized
      <3>2. CASE entityKeys[e] = NoKey
        <4>1. [kind |-> "create", entity |-> e, key |-> pre[e], expected |-> 0,
               value |-> value[e]] \in Creations(pre)
          BY <3>1, <3>2 DEF Creations
        <4>2. QED
          BY <4>1 DEF ops
      <3>3. CASE entityKeys[e] # NoKey
        <4>1. [kind |-> "update", entity |-> e, key |-> entityKeys[e],
               expected |-> version[entityKeys[e]], value |-> value[e]] \in Updates
          BY <3>1, <3>3 DEF Updates
        <4>2. QED
          BY <4>1 DEF ops
      <3>4. QED
        BY <3>2, <3>3
    <2>2. QED
      BY <1>1, <1>2, <1>3, <1>5, <2>1 DEF NoEditLost, Saved
  <1>23. QED
    BY <1>10, <1>11, <1>12, <1>13, <1>14, <1>17, <1>18, <1>19, <1>20, <1>21, <1>22, <1>16

-----------------------------------------------------------------------------
(* The database's steps.                                                   *)

\* The one task, when its transaction has ended.
LEMMA Finished ==
    ASSUME IInv, NEW t \in tasks, NEW r \in {"ok", "err"}, Finish(t, r)
    PROVE  /\ UNCHANGED <<life, guid, carrying, value, added, changed, removed, hydrating,
                          dirty, despawned, entityKeys, guidToEntity, version, clock, phase>>
           /\ tasks = {t} /\ t.result = "none"
           /\ \A u \in tasks' : /\ u.marks = t.marks /\ u.gone = t.gone /\ u.pre = t.pre
                                /\ u.void = t.void /\ u.ops = t.ops /\ u.result = r
           /\ tasks' # {}
           /\ Deleting' = Deleting /\ Live' = Live
  <1> USE DEF IInv, Types
  <1>1. UNCHANGED <<life, guid, carrying, value, added, changed, removed, hydrating, dirty,
                    despawned, entityKeys, guidToEntity, version, clock, phase>>
    BY DEF Finish, worldVars, trackerVars, cacheVars
  <1>2. tasks = {t} /\ t.result = "none" /\ tasks' = {[t EXCEPT !.result = r]}
    BY DEF Finish, OneTask
  <1>3. t \in CommitTask
    BY DEF TypeOK
  <1>4. \A u \in tasks' : /\ u.marks = t.marks /\ u.gone = t.gone /\ u.pre = t.pre
                          /\ u.void = t.void /\ u.ops = t.ops /\ u.result = r
    BY <1>2, <1>3 DEF CommitTask
  <1>5. UNION {u.gone : u \in tasks'} = t.gone /\ UNION {u.gone : u \in tasks} = t.gone
    BY <1>2, <1>4
  <1>6. Deleting' = Deleting /\ Live' = Live
    BY <1>1, <1>5 DEF Deleting, Live
  <1>7. QED
    BY <1>1, <1>2, <1>4, <1>6

\* What a step of the database that ends the transaction leaves as it was.
LEMMA FinishStep ==
    ASSUME IInv, NEW t \in tasks, NEW r \in {"ok", "err"}, Finish(t, r)
    PROVE  /\ KeysAgree' /\ Indexed' /\ Marked' /\ Hydrated' /\ Preassigned' /\ Operations'
           /\ EditsSeen' /\ VersionKnown'
  <1> USE DEF IInv, Consistent
  <1>1. KeysAgree' /\ Indexed'
    BY Finished DEF KeysAgree, Indexed
  <1>2. Marked'
    BY Finished DEF Marked
  <1>3. Hydrated'
    BY Finished DEF Hydrated
  <1>4. Preassigned' /\ EditsSeen' /\ VersionKnown'
    BY Finished DEF Preassigned, EditsSeen, VersionKnown
  <1>5. Operations'
    BY Finished DEF Operations
  <1>6. QED
    BY <1>1, <1>2, <1>3, <1>4, <1>5

\* What a transaction leaves under each key.
LEMMA WrittenAt ==
    ASSUME IInv, NEW t \in tasks
    PROVE  /\ \A op \in t.ops : op.key \in Keys /\ Written(t.ops)[op.key] = Stored(op)
           /\ \A k \in Keys : (\A op \in t.ops : op.key # k) => Written(t.ops)[k] = db[k]
  <1> USE DEF IInv, Types, Consistent
  <1>1. \A op \in t.ops : op.key \in Keys
    BY DEF TypeOK, CommitTask, Operation
  <1>2. \A op, other \in t.ops : op.key = other.key => op = other
    BY DEF Operations
  <1>3. ASSUME NEW op \in t.ops PROVE Written(t.ops)[op.key] = Stored(op)
    <2>1. (CHOOSE o \in t.ops : o.key = op.key) = op
      BY <1>2
    <2>2. QED
      BY <1>1, <2>1 DEF Written
  <1>4. QED
    BY <1>1, <1>3 DEF Written

\* An operation on a document that is known is its entity's.
LEMMA OperationOf ==
    ASSUME IInv, NEW t \in tasks, NEW op \in t.ops, NEW e \in Entities,
           entityKeys[e] = op.key
    PROVE  /\ op.kind # "create" /\ op.entity = e
           /\ op.kind = "delete" => e \in t.gone /\ e \notin Live
  <1> USE DEF IInv, Types, Consistent
  <1>1. op \in Operation
    BY DEF TypeOK, CommitTask
  <1>2. op.key # NoKey /\ op.entity \in Entities
    BY <1>1, SessionAssumption DEF Operation
  <1>3. op.kind # "create"
    BY <1>2 DEF Operations, Preassigned
  <1>4. op.entity = e
    BY <1>2, <1>3, KeyHolder DEF Operations
  <1>5. op.kind = "delete" => e \in t.gone /\ e \notin Live
    BY <1>4 DEF Operations, Marked, Deleting, Live
  <1>6. QED
    BY <1>3, <1>4, <1>5

\* A transaction is executable exactly if nothing it writes has changed behind the
\* session's back, or is a phantom.
LEMMA ExecutableIfUntouched ==
    ASSUME IInv, NEW t \in tasks, t.result = "none"
    PROVE  Executable(t.ops) <=> \A op \in t.ops : op.key \notin touched \cup phantoms
  <1> USE DEF IInv, Types, Consistent
  <1>1. ASSUME NEW op \in t.ops PROVE Accepts(op) <=> op.key \notin touched \cup phantoms
    <2>1. op \in Operation /\ op.key \in Keys /\ op.entity \in Entities
      BY DEF TypeOK, CommitTask, Operation
    <2>2. CASE op.kind = "create"
      BY <2>2 DEF Outcome, Accepts
    <2>3. CASE op.kind # "create"
      <3>1. op.key = entityKeys[op.entity] /\ op.key # NoKey
            /\ op.expected = version[op.key] /\ op.expected # 0
        BY <2>1, <2>3, SessionAssumption DEF Operations
      <3>2. Current(op.key)
        <4>1. \A u \in tasks : u.result # "ok"
          BY DEF OneTask
        <4>2. QED
          BY <2>1, <3>1, <4>1 DEF AllCurrent
      <3>3. db[op.key].version \in Nat /\ version[op.key] \in Nat
        BY <2>1 DEF TypeOK, Document
      <3>4. QED
        BY <2>3, <3>1, <3>2, <3>3 DEF Current, UpToDate, PhantomsHeld, Accepts
    <2>4. QED
      BY <2>2, <2>3
  <1>2. QED
    BY <1>1 DEF Executable, Operations

\* A transaction that lands saves what it carries, and deletes.
LEMMA LandedKeepsPromises ==
    ASSUME IInv, NEW t \in tasks, NEW r \in {"ok", "err"}, Finish(t, r),
           Executable(t.ops), db' = Written(t.ops)
    PROVE  Clocked' /\ NoEditLost' /\ NoDespawnLost'
  <1> USE DEF IInv, Types, Consistent
  <1>1. \A op \in t.ops : op \in Operation
    BY DEF TypeOK, CommitTask
  <1>2. Clocked'
    <2>1. ASSUME NEW k \in Keys PROVE Written(t.ops)[k].value <= clock
      <3>1. CASE \A op \in t.ops : op.key # k
        BY <3>1, WrittenAt DEF Clocked
      <3>2. ASSUME NEW op \in t.ops, op.key = k PROVE Written(t.ops)[k].value <= clock
        <4>1. op.value <= clock /\ 0 <= clock /\ op \in Operation
          BY <1>1 DEF Clocked, TypeOK
        <4>2. Stored(op).value <= clock
          BY <4>1 DEF Stored, Absent
        <4>3. QED
          BY <3>2, <4>2, WrittenAt
      <3>3. QED
        BY <3>1, <3>2
    <2>2. QED
      BY <2>1, Finished DEF Clocked
  <1>3. NoEditLost'
    <2> SUFFICES ASSUME NEW e \in carrying, value[e] > Saved(e)',
                        e \notin changed, e \notin dirty
                 PROVE  \E op \in t.ops : op.entity = e /\ op.value = value[e]
      BY Finished DEF NoEditLost
    <2>1. e \in Entities /\ guid[e] = entityKeys[e] /\ Saved(e)' = IF guid[e] = NoKey THEN 0 ELSE db'[guid[e]].value
      BY Finished DEF Marked, Live, KeysAgree, Saved
    <2>2. ASSUME guid[e] # NoKey, NEW op \in t.ops, op.key = guid[e]
          PROVE  \E o \in t.ops : o.entity = e /\ o.value = value[e]
      BY <2>1, <2>2, OperationOf DEF EditsSeen, Marked
    <2>3. CASE guid[e] = NoKey \/ \A op \in t.ops : op.key # guid[e]
      <3>1. value[e] > Saved(e)
        <4>1. CASE guid[e] = NoKey
          BY <2>1, <4>1 DEF Saved
        <4>2. CASE guid[e] # NoKey
          <5>1. guid[e] \in Keys
            BY <2>1, <4>2 DEF TypeOK
          <5>2. db'[guid[e]] = db[guid[e]]
            BY <2>3, <4>2, <5>1, WrittenAt
          <5>3. QED
            BY <2>1, <4>2, <5>2 DEF Saved
        <4>3. QED
          BY <4>1, <4>2
      <3>2. PICK u \in tasks : \E op \in u.ops : op.entity = e /\ op.value = value[e]
        BY <3>1 DEF NoEditLost
      <3>3. QED
        BY <3>2 DEF OneTask
    <2>4. QED
      BY <2>2, <2>3
  <1>4. NoDespawnLost'
    <2> SUFFICES ASSUME NEW e \in Entities, life[e] = "gone", entityKeys[e] # NoKey,
                        e \notin Deleting
                 PROVE  db'[entityKeys[e]].version = 0
      BY Finished DEF NoDespawnLost
    <2>1. db[entityKeys[e]].version = 0 /\ entityKeys[e] \in Keys
      BY DEF NoDespawnLost, TypeOK
    <2>2. \A op \in t.ops : op.key # entityKeys[e]
      <3> SUFFICES ASSUME NEW op \in t.ops, op.key = entityKeys[e] PROVE FALSE
        OBVIOUS
      <3>1. op.kind # "create" /\ Accepts(op)
        BY OperationOf DEF Executable
      <3>2. QED
        BY <2>1, <3>1 DEF Accepts
    <2>3. QED
      BY <2>1, <2>2, WrittenAt
  <1>5. QED
    BY <1>2, <1>3, <1>4

LEMMA TransactionCommitsStep ==
    ASSUME IInv, NEW t \in tasks, TransactionCommits(t)
    PROVE  Consistent'
  <1> USE DEF IInv, Types, Consistent
  <1>1. Executable(t.ops) /\ Finish(t, "ok") /\ db' = Written(t.ops) /\ touched' = touched
        /\ phantoms' = phantoms \cup t.void
    BY DEF TransactionCommits
  <1>2. KeysAgree' /\ Indexed' /\ Marked' /\ Hydrated' /\ Preassigned' /\ Operations'
        /\ EditsSeen' /\ VersionKnown'
    BY <1>1, FinishStep
  <1>3. Clocked' /\ NoEditLost' /\ NoDespawnLost'
    BY <1>1, LandedKeepsPromises
  <1>4. \A op \in t.ops : op.key \notin touched /\ op.key \notin phantoms'
    BY <1>1, Finished, ExecutableIfUntouched DEF Voids
  <1>5. Outcome'
    <2>1. ASSUME NEW op \in t.ops
          PROVE  db'[op.key].value >= Stored(op).value /\ db'[op.key].version = Stored(op).version
      <3>1. op \in Operation
        BY DEF TypeOK, CommitTask
      <3>2. Stored(op).value \in Nat
        BY <3>1 DEF Stored, Absent, Operation
      <3>3. QED
        BY <1>1, <3>2, WrittenAt
    <2>2. \A u \in tasks' : u.ops = t.ops /\ u.result = "ok"
      BY <1>1, Finished
    <2>3. QED
      BY <1>1, <1>4, <2>1, <2>2 DEF Outcome
  <1>6. AllCurrent'
    <2> SUFFICES ASSUME NEW e \in Entities, entityKeys[e] # NoKey,
                        \A op \in t.ops : op.key # entityKeys[e]
                 PROVE  Current(entityKeys[e])'
      BY <1>1, Finished DEF AllCurrent
    <2>1. Current(entityKeys[e]) /\ entityKeys[e] \in Keys
      BY <1>1, Finished DEF AllCurrent, TypeOK
    <2>2. db'[entityKeys[e]] = db[entityKeys[e]]
      BY <1>1, <2>1, WrittenAt
    <2>3. entityKeys[e] \notin t.void
      BY SessionAssumption DEF Voids, Preassigned, TypeOK
    <2>4. QED
      BY <1>1, <2>1, <2>2, <2>3, Finished DEF Current, UpToDate
  <1>7. LostKeysKnown'
    <2>1. \A k \in touched : db'[k] = db[k]
      BY <1>1, <1>4, WrittenAt DEF TypeOK
    <2>2. QED
      BY <1>1, <2>1, Finished DEF LostKeysKnown
  <1>8. \A k \in t.void : db'[k] = db[k]
    BY <1>1, WrittenAt DEF Voids, TypeOK, CommitTask
  <1>9. Voids'
    BY <1>1, <1>8, Finished DEF Voids
  <1>10. PhantomsHeld'
    <2>1. \A k \in phantoms \cup t.void : db'[k].version = 0 /\ k \notin touched
      BY <1>1, <1>4, <1>8, WrittenAt DEF PhantomsHeld, Voids, TypeOK, CommitTask
    <2>2. \A u \in tasks' : u.void = t.void /\ u.result = "ok"
      BY <1>1, Finished
    <2>3. QED
      BY <1>1, <2>1, <2>2, Finished DEF PhantomsHeld, OneTask
  <1>11. QED
    BY <1>2, <1>3, <1>5, <1>6, <1>7, <1>9, <1>10

\* A transaction is refused, or its connection lost before it has landed.
LEMMA TransactionFailsStep ==
    ASSUME IInv, NEW t \in tasks, TransactionConflicts(t) \/ ConnectionLost(t)
    PROVE  Consistent'
  <1> USE DEF IInv, Types, Consistent
  <1>1. Finish(t, "err") /\ db' = db /\ touched' = touched /\ phantoms' = phantoms
    BY DEF TransactionConflicts, ConnectionLost, ghosts
  <1>2. KeysAgree' /\ Indexed' /\ Marked' /\ Hydrated' /\ Preassigned' /\ Operations'
        /\ EditsSeen' /\ VersionKnown'
    BY <1>1, FinishStep
  <1>3. Clocked' /\ NoDespawnLost' /\ LostKeysKnown'
    BY <1>1, Finished DEF Clocked, NoDespawnLost, LostKeysKnown
  <1>4. Outcome' /\ AllCurrent' /\ Voids'
    BY <1>1, Finished DEF Outcome, AllCurrent, Current, UpToDate, Voids
  <1>5. NoEditLost'
    BY <1>1, Finished DEF NoEditLost, Saved
  <1>6. PhantomsHeld'
    BY <1>1, Finished DEF PhantomsHeld
  <1>7. QED
    BY <1>2, <1>3, <1>4, <1>5, <1>6

LEMMA AnswerLostStep ==
    ASSUME IInv, NEW t \in tasks, AnswerLost(t)
    PROVE  Consistent'
  <1> USE DEF IInv, Types, Consistent
  <1>1. /\ Executable(t.ops) /\ Finish(t, "err") /\ db' = Written(t.ops)
        /\ touched' = touched \cup {op.key : op \in t.ops} /\ phantoms' = phantoms
    BY DEF AnswerLost
  <1>2. KeysAgree' /\ Indexed' /\ Marked' /\ Hydrated' /\ Preassigned' /\ Operations'
        /\ EditsSeen' /\ VersionKnown'
    BY <1>1, FinishStep
  <1>3. Clocked' /\ NoEditLost' /\ NoDespawnLost'
    BY <1>1, LandedKeepsPromises
  <1>4. Outcome'
    BY <1>1, Finished DEF Outcome
  <1>5. AllCurrent'
    <2> SUFFICES ASSUME NEW e \in Entities, entityKeys[e] # NoKey
                 PROVE  Current(entityKeys[e])'
      BY <1>1, Finished DEF AllCurrent
    <2>1. Current(entityKeys[e]) /\ entityKeys[e] \in Keys
      BY <1>1, Finished DEF AllCurrent, TypeOK
    <2>2. CASE \A op \in t.ops : op.key # entityKeys[e]
      <3>1. db'[entityKeys[e]] = db[entityKeys[e]]
        BY <1>1, <2>1, <2>2, WrittenAt
      <3>2. QED
        BY <1>1, <2>1, <2>2, <3>1, Finished DEF Current, UpToDate
    <2>3. ASSUME NEW op \in t.ops, op.key = entityKeys[e] PROVE Current(entityKeys[e])'
      <3>1. op.kind # "create" /\ op \in Operation
        BY <2>3, OperationOf DEF TypeOK, CommitTask
      <3>2. version[op.key] = op.expected /\ op.expected # 0 /\ op.expected \in Nat
        BY <3>1 DEF Operations, Operation
      <3>3. Stored(op).version = 0 \/ Stored(op).version > op.expected
        BY <3>1, <3>2 DEF Stored, Absent
      <3>4. QED
        BY <1>1, <2>3, <3>2, <3>3, WrittenAt, Finished DEF Current, UpToDate
    <2>4. QED
      BY <2>2, <2>3
  <1>6. LostKeysKnown'
    <2> SUFFICES ASSUME NEW k \in touched', db'[k].version = 0
                 PROVE  \E e \in Entities : entityKeys[e] = k
      BY <1>1, Finished DEF LostKeysKnown
    <2>1. ASSUME NEW op \in t.ops, op.key = k
          PROVE  \E e \in Entities : entityKeys[e] = k
      <3>1. op \in Operation
        BY DEF TypeOK, CommitTask
      <3>2. Stored(op).version = 0
        BY <1>1, <2>1, WrittenAt
      <3>3. op.kind = "delete" /\ op.entity \in Entities
        BY <3>1, <3>2 DEF Stored, Operation
      <3>4. QED
        BY <2>1, <3>3 DEF Operations
    <2>2. CASE \A op \in t.ops : op.key # k
      BY <1>1, <2>2, WrittenAt DEF LostKeysKnown, TypeOK
    <2>3. QED
      BY <2>1, <2>2
  <1>7. \A op \in t.ops : op.key \notin phantoms
    BY <1>1, Finished, ExecutableIfUntouched
  <1>8. Voids'
    <2>1. \A k \in t.void : db'[k] = db[k]
      BY <1>1, WrittenAt DEF Voids, TypeOK, CommitTask
    <2>2. QED
      BY <1>1, <2>1, Finished DEF Voids
  <1>9. PhantomsHeld'
    <2>1. \A k \in phantoms : db'[k] = db[k]
      BY <1>1, <1>7, WrittenAt DEF TypeOK
    <2>2. QED
      BY <1>1, <1>7, <2>1, Finished DEF PhantomsHeld
  <1>10. QED
    BY <1>2, <1>3, <1>4, <1>5, <1>6, <1>8, <1>9

LEMMA ForeignWriteStep ==
    ASSUME IInv, NEW k \in Keys, ForeignWrite(k)
    PROVE  Consistent'
  <1> USE DEF IInv, Types, Consistent
  <1>1. /\ UNCHANGED <<life, guid, carrying, value, added, changed, removed, hydrating,
                       dirty, despawned,
                       entityKeys, guidToEntity, version, tasks, phantoms, phase>>
        /\ db[k].version # 0 /\ clock' = clock + 1 /\ touched' = touched \cup {k}
        /\ db' = [db EXCEPT ![k] = [version |-> db[k].version + 1, value |-> clock + 1]]
    BY DEF ForeignWrite, worldVars, trackerVars, cacheVars
  <1>2. Deleting' = Deleting /\ Live' = Live
    BY <1>1 DEF Deleting, Live
  <1>3. /\ clock \in Nat
        /\ \A q \in Keys : db[q].version \in Nat /\ db[q].value \in Nat
        /\ \A q \in Keys \ {k} : db'[q] = db[q]
        /\ db'[k].version = db[k].version + 1 /\ db'[k].value = clock + 1
    BY <1>1 DEF TypeOK, Document
  <1>4. \A q \in Keys : db'[q].value >= db[q].value /\ db'[q].value <= clock + 1
    BY <1>3 DEF Clocked
  <1>5. KeysAgree' /\ Indexed'
    BY <1>1 DEF KeysAgree, Indexed
  <1>6. Marked' /\ Preassigned' /\ Operations' /\ EditsSeen' /\ VersionKnown'
    BY <1>1, <1>2 DEF Marked, Preassigned, Operations, EditsSeen, VersionKnown
  <1>7. Hydrated'
    <2>1. ASSUME NEW e \in added, hydrating PROVE value[e] <= db'[guid[e]].value
      <3>1. e \in Entities /\ guid[e] \in Keys /\ value[e] \in Nat
            /\ value[e] <= db[guid[e]].value
        BY <2>1 DEF Hydrated, TypeOK
      <3>2. db'[guid[e]].value \in Nat
        BY <1>3, <3>1
      <3>3. QED
        BY <1>3, <1>4, <3>1, <3>2
    <2>2. QED
      BY <1>1, <2>1 DEF Hydrated
  <1>8. Clocked'
    <2>1. \A e \in Entities : value'[e] <= clock'
      BY <1>1, <1>3 DEF Clocked, TypeOK
    <2>2. \A t \in tasks' : \A op \in t.ops : op.value <= clock'
      BY <1>1, <1>3 DEF Clocked, TypeOK, CommitTask, Operation
    <2>3. QED
      BY <1>1, <1>4, <2>1, <2>2 DEF Clocked
  <1>9. Outcome'
    <2> SUFFICES ASSUME NEW t \in tasks, NEW op \in t.ops
                 PROVE  /\ t.result = "none" /\ op.kind = "create" =>
                            db'[op.key].version = 0 /\ op.key \notin touched' \cup phantoms'
                        /\ t.result = "ok" =>
                            /\ op.key \notin phantoms'
                            /\ db'[op.key].value >= Stored(op).value
                            /\ IF op.key \in touched'
                               THEN op.kind # "delete" /\ db'[op.key].version > Stored(op).version
                               ELSE db'[op.key].version = Stored(op).version
      BY <1>1 DEF Outcome
    <2>1. op \in Operation /\ op.key \in Keys
      BY DEF TypeOK, CommitTask, Operation
    <2>2. Stored(op).value \in Nat /\ Stored(op).version \in Nat
          /\ (op.kind = "delete" => Stored(op).version = 0)
      BY <2>1 DEF Stored, Absent, Operation
    <2>3. CASE op.key # k
      BY <1>1, <1>3, <2>1, <2>3 DEF Outcome
    <2>4. CASE op.key = k
      <3>1. ~(t.result = "none" /\ op.kind = "create")
        BY <1>1, <2>4 DEF Outcome
      <3>2. ASSUME t.result = "ok"
            PROVE  /\ db'[k].value >= Stored(op).value
                   /\ op.kind # "delete" /\ db'[k].version > Stored(op).version
        <4>1. /\ db[k].value >= Stored(op).value
              /\ op.kind # "delete" /\ db[k].version >= Stored(op).version
          BY <1>1, <1>3, <2>2, <2>4, <3>2 DEF Outcome
        <4>2. db'[k].value >= db[k].value /\ db'[k].value \in Nat
          BY <1>3, <1>4
        <4>3. QED
          BY <1>3, <2>2, <4>1, <4>2
      <3>3. t.result = "ok" => op.key \notin phantoms'
        BY <1>1 DEF Outcome
      <3>4. op.key \in touched'
        BY <1>1, <2>4
      <3>5. QED
        BY <2>4, <3>1, <3>2, <3>3, <3>4
    <2>5. QED
      BY <2>3, <2>4
  <1>10. AllCurrent'
    <2>1. ASSUME NEW q \in Keys, Current(q) PROVE Current(q)'
      <3>1. version[q] \in Nat
        BY DEF TypeOK
      <3>2. QED
        BY <1>1, <1>3, <2>1, <3>1 DEF Current, UpToDate, PhantomsHeld
    <2>2. ASSUME NEW e \in Entities, entityKeys[e] # NoKey, Current(entityKeys[e])
          PROVE  Current(entityKeys[e])'
      <3>1. entityKeys[e] \in Keys /\ entityKeys' = entityKeys
        BY <1>1, <2>2 DEF TypeOK
      <3>2. QED
        BY <2>1, <2>2, <3>1 DEF Current, UpToDate
    <2>3. QED
      BY <1>1, <2>2 DEF AllCurrent
  <1>11. LostKeysKnown'
    BY <1>1, <1>3 DEF LostKeysKnown, TypeOK
  <1>12. NoEditLost'
    <2>1. ASSUME NEW e \in carrying, value[e] > Saved(e)' PROVE value[e] > Saved(e)
      <3>1. CASE guid[e] = NoKey
        BY <1>1, <2>1, <3>1 DEF Saved
      <3>2. CASE guid[e] # NoKey
        <4>1. guid[e] \in Keys /\ value[e] \in Nat
          BY <3>2 DEF TypeOK
        <4>2. db'[guid[e]].value \in Nat /\ db'[guid[e]].value >= db[guid[e]].value
          BY <1>3, <1>4, <4>1
        <4>3. value[e] > db'[guid[e]].value
          BY <1>1, <2>1, <3>2 DEF Saved
        <4>4. QED
          BY <1>3, <3>2, <4>1, <4>2, <4>3 DEF Saved
      <3>3. QED
        BY <3>1, <3>2
    <2>2. QED
      BY <1>1, <1>2, <2>1 DEF NoEditLost
  <1>13. NoDespawnLost'
    BY <1>1, <1>2, <1>3 DEF NoDespawnLost, TypeOK
  <1>14. Voids' /\ PhantomsHeld'
    <2>1. k \notin phantoms /\ \A t \in tasks : k \notin t.void
      BY <1>1 DEF Voids, PhantomsHeld
    <2>2. \A q \in phantoms \cup UNION {t.void : t \in tasks} : db'[q] = db[q]
      BY <1>3, <2>1 DEF TypeOK, CommitTask
    <2>3. Voids'
      BY <1>1, <2>1, <2>2 DEF Voids
    <2>4. PhantomsHeld'
      BY <1>1, <2>1, <2>2 DEF PhantomsHeld
    <2>5. QED
      BY <2>3, <2>4
  <1>15. QED
    BY <1>14, <1>5, <1>6, <1>7, <1>8, <1>9, <1>10, <1>11, <1>12, <1>13

-----------------------------------------------------------------------------
(* The end of a commit, and of the process.                                *)

\* The version cached after a commit is that of the document, or an older one that
\* others have raised since.
LEMMA VersionAfterCurrent ==
    ASSUME IInv, NEW t \in tasks, t.result = "ok", NEW e \in Entities,
           t.pre[e] # NoKey \/ entityKeys[e] # NoKey,
           NEW k, k = IF t.pre[e] # NoKey THEN t.pre[e] ELSE entityKeys[e]
    PROVE  UpToDate(k, VersionAfter(t, k))
  <1> USE DEF IInv, Types, Consistent, UpToDate
  <1>1. \A op \in t.ops : op \in Operation
    BY DEF TypeOK, CommitTask
  <1>2. CASE t.pre[e] # NoKey
    <2>1. VersionAfter(t, k) = 1
      BY <1>2 DEF VersionAfter
    <2>2. CASE k \in t.void
      BY <2>1, <2>2 DEF Voids
    <2>3. ASSUME NEW op \in t.ops, op.kind = "create", op.entity = e
          PROVE  UpToDate(k, VersionAfter(t, k))
      <3>1. op.key = k /\ Stored(op).version = 1
        BY <1>2, <2>3 DEF Operations, Stored
      <3>2. QED
        BY <2>1, <3>1 DEF Outcome
    <2>4. QED
      BY <1>2, <2>2, <2>3 DEF Preassigned
  <1>3. CASE t.pre[e] = NoKey
    <2>1. k = entityKeys[e] /\ k # NoKey /\ k \in Keys
      BY <1>3 DEF TypeOK
    <2>2. ~\E f \in Entities : t.pre[f] = k
      BY <2>1 DEF Preassigned
    <2>3. \A kind \in {"delete", "update"} : \A f \in Of(kind, t) :
             entityKeys[f] = k => \E op \in t.ops : op.kind = kind /\ op.key = k
      BY DEF Of, Operations
    <2>4. CASE \A op \in t.ops : op.key # k
      <3>1. VersionAfter(t, k) = version[k]
        BY <2>2, <2>3, <2>4 DEF VersionAfter
      <3>2. Current(k)
        BY <2>1, <2>4 DEF AllCurrent, OneTask
      <3>3. QED
        BY <3>1, <3>2 DEF Current
    <2>5. ASSUME NEW op \in t.ops, op.key = k, op.kind = "delete"
          PROVE  k \notin touched /\ VersionAfter(t, k) = db[k].version
      <3>1. op.entity = e
        BY <2>1, <2>5, OperationOf
      <3>2. e \in Of("delete", t)
        BY <2>5, <3>1 DEF Of
      <3>3. VersionAfter(t, k) = 0
        BY <2>1, <2>2, <3>2 DEF VersionAfter
      <3>4. QED
        BY <2>5, <3>3 DEF Outcome, Stored, Absent
    <2>6. ASSUME NEW op \in t.ops, op.key = k, op.kind = "update"
          PROVE  VersionAfter(t, k) = Stored(op).version /\ VersionAfter(t, k) # 0
      <3>1. op.entity = e /\ op.expected = version[k] /\ version[k] # 0
        BY <2>1, <2>6, OperationOf DEF Operations
      <3>2. e \in Of("update", t)
        BY <2>6, <3>1 DEF Of
      <3>3. ~\E f \in Of("delete", t) : entityKeys[f] = k
        BY <2>3, <2>6 DEF Operations
      <3>4. VersionAfter(t, k) = version[k] + 1
        BY <2>1, <2>2, <3>1, <3>2, <3>3 DEF VersionAfter
      <3>5. Stored(op).version = version[k] + 1 /\ version[k] \in Nat
        BY <2>1, <2>6, <3>1 DEF Stored, TypeOK
      <3>6. QED
        BY <3>4, <3>5
    <2>7. ASSUME NEW op \in t.ops, op.key = k PROVE op.kind \in {"update", "delete"}
      BY <1>1, <2>1, <2>7, OperationOf DEF Operation
    <2>8. QED
      BY <2>1, <2>4, <2>5, <2>6, <2>7 DEF Outcome
  <1>4. QED
    BY <1>2, <1>3

LEMMA CommitSucceededStep ==
    ASSUME IInv, NEW t \in tasks, CommitSucceeded(t)
    PROVE  Consistent'
  <1> USE DEF IInv, Types, Consistent
  <1>1. /\ UNCHANGED <<life, carrying, value, added, changed, removed, hydrating, dirty,
                       despawned, db,
                       clock, touched, phantoms>>
        /\ t.result = "ok" /\ phase = "Commit" /\ tasks = {t} /\ tasks' = {}
        /\ guid' = [e \in Entities |->
                       IF t.pre[e] # NoKey /\ e \in Live THEN t.pre[e] ELSE guid[e]]
        /\ entityKeys' = [e \in Entities |->
                             IF t.pre[e] # NoKey THEN t.pre[e] ELSE entityKeys[e]]
        /\ guidToEntity' = [k \in Keys |->
                               IF \E e \in Entities : t.pre[e] = k
                               THEN CHOOSE e \in Entities : t.pre[e] = k
                               ELSE guidToEntity[k]]
        /\ version' = [k \in Keys |-> VersionAfter(t, k)]
    BY DEF CommitSucceeded, trackerVars, boundVars, ghosts, OneTask
  <1>2. \A e \in Entities : t.pre[e] # NoKey =>
           /\ e \in Live /\ entityKeys[e] = NoKey /\ t.pre[e] \in Keys
           /\ \A f \in Entities : entityKeys[f] # t.pre[e]
    BY DEF Preassigned, TypeOK, CommitTask
  <1>3. \A op \in t.ops : op \in Operation
    BY DEF TypeOK, CommitTask
  <1>4. Live' = Live /\ Deleting' \subseteq removed \cup despawned
        /\ Deleting = removed \cup despawned \cup t.gone
    BY <1>1 DEF Live, Deleting
  <1>5. ~hydrating
    BY <1>1 DEF Hydrated
  <1>6. \A e \in Entities : life[e] # "live" => entityKeys'[e] = entityKeys[e]
    BY <1>1, <1>2 DEF Live
  <1>7. KeysAgree'
    BY <1>1, <1>2 DEF KeysAgree, Live
  <1>8. Indexed'
    <2> SUFFICES ASSUME NEW e \in Entities, NEW k \in Keys
                 PROVE  guidToEntity'[k] = e <=> entityKeys'[e] = k
      BY DEF Indexed
    <2>1. ASSUME NEW f \in Entities, t.pre[f] = k
          PROVE  guidToEntity'[k] = e <=> entityKeys'[e] = k
      <3>1. t.pre[f] # NoKey
        BY <2>1, SessionAssumption
      <3>2. \A g \in Entities : t.pre[g] = k => g = f
        BY <2>1, <3>1 DEF Preassigned
      <3>3. (CHOOSE g \in Entities : t.pre[g] = k) = f
        BY <2>1, <3>2
      <3>4. guidToEntity'[k] = f
        BY <1>1, <2>1, <3>3
      <3>5. entityKeys[e] # k
        BY <1>2, <2>1, <3>1
      <3>6. QED
        BY <1>1, <2>1, <3>1, <3>2, <3>4, <3>5
    <2>2. CASE ~\E f \in Entities : t.pre[f] = k
      <3>1. guidToEntity'[k] = guidToEntity[k]
        BY <1>1, <2>2
      <3>2. entityKeys'[e] = k <=> entityKeys[e] = k
        BY <1>1, <1>2, <2>2, SessionAssumption
      <3>3. QED
        BY <3>1, <3>2 DEF Indexed
    <2>3. QED
      BY <2>1, <2>2
  <1>9. Marked'
    <2>1. \A e \in dirty : entityKeys'[e] = NoKey => e \in Live
      BY <1>1, <1>2 DEF Marked, TypeOK
    <2>2. \A e \in Deleting' : life[e] = "gone" /\ entityKeys'[e] # NoKey
      BY <1>4, <1>6 DEF Marked, TypeOK
    <2>3. QED
      BY <1>1, <1>4, <2>1, <2>2 DEF Marked
  <1>10. /\ Hydrated' /\ Clocked' /\ Preassigned' /\ Voids' /\ Operations' /\ EditsSeen'
         /\ Outcome'
    BY <1>1, <1>5 DEF Hydrated, Clocked, Preassigned, Voids, Operations, EditsSeen, Outcome
  <1>11. PhantomsHeld'
    <2>1. ASSUME NEW k \in phantoms PROVE \E e \in Entities : entityKeys'[e] = k
      <3>1. k # NoKey
        BY SessionAssumption DEF TypeOK
      <3>2. CASE \E e \in Entities : entityKeys[e] = k
        BY <1>1, <1>2, <3>1, <3>2
      <3>3. CASE k \in t.void
        BY <1>1, <3>1, <3>3 DEF Voids
      <3>4. QED
        BY <1>1, <3>2, <3>3 DEF PhantomsHeld
    <2>2. QED
      BY <1>1, <2>1 DEF PhantomsHeld
  <1>12. AllCurrent'
    <2> SUFFICES ASSUME NEW e \in Entities, NEW k, k = entityKeys'[e], k # NoKey
                 PROVE  UpToDate(k, version'[k])
      BY <1>1 DEF AllCurrent, Current, UpToDate
    <2>1. k = IF t.pre[e] # NoKey THEN t.pre[e] ELSE entityKeys[e]
      BY <1>1
    <2>2. k \in Keys /\ (t.pre[e] # NoKey \/ entityKeys[e] # NoKey)
      BY <1>2, <2>1 DEF TypeOK
    <2>3. version'[k] = VersionAfter(t, k)
      BY <1>1, <2>2
    <2>4. QED
      BY <1>1, <2>1, <2>2, <2>3, VersionAfterCurrent
  <1>13. VersionKnown'
    <2> SUFFICES ASSUME NEW e \in Entities, NEW k, k = entityKeys'[e], k # NoKey,
                        e \in Live \/ e \in removed \cup despawned
                 PROVE  VersionAfter(t, k) # 0
      <3>1. \A e \in Entities : entityKeys'[e] # NoKey => entityKeys'[e] \in Keys
        BY <1>1, <1>2 DEF TypeOK
      <3>2. QED
        BY <1>1, <1>4, <3>1 DEF VersionKnown
    <2>1. CASE t.pre[e] # NoKey
      BY <1>1, <2>1 DEF VersionAfter
    <2>2. CASE t.pre[e] = NoKey
      <3>1. k = entityKeys[e] /\ k \in Keys
        BY <1>1, <2>2 DEF TypeOK
      <3>2. version[k] # 0 /\ version[k] \in Nat
        BY <1>4, <3>1 DEF VersionKnown, TypeOK
      <3>3. ~\E f \in Of("delete", t) : entityKeys[f] = k
        <4> SUFFICES ASSUME NEW op \in t.ops, op.kind = "delete", entityKeys[op.entity] = k
                     PROVE  FALSE
          BY DEF Of
        <4>1. op.key = entityKeys[e]
          BY <3>1 DEF Operations
        <4>2. e \in t.gone /\ e \notin Live
          BY <4>1, OperationOf
        <4>3. QED
          BY <4>2 DEF Marked
      <3>4. QED
        BY <3>2, <3>3 DEF VersionAfter
    <2>3. QED
      BY <2>1, <2>2
  <1>14. LostKeysKnown'
    <2>1. ASSUME NEW k \in touched, db[k].version = 0
          PROVE  \E e \in Entities : entityKeys'[e] = k
      <3>1. PICK e \in Entities : entityKeys[e] = k
        BY <2>1 DEF LostKeysKnown
      <3>2. k # NoKey
        BY SessionAssumption DEF TypeOK
      <3>3. QED
        BY <1>1, <1>2, <3>1, <3>2
    <2>2. QED
      BY <1>1, <2>1 DEF LostKeysKnown
  <1>15. NoEditLost'
    <2> SUFFICES ASSUME NEW e \in carrying, value[e] > Saved(e)', e \notin changed,
                        e \notin dirty
                 PROVE  FALSE
      BY <1>1, <1>4 DEF NoEditLost
    <2>1. e \in Entities /\ value[e] \in Nat /\ guid[e] = entityKeys[e]
      BY DEF Live, Marked, TypeOK, KeysAgree
    <2>2. ASSUME NEW op \in t.ops, op.key = guid'[e], op.entity = e, op.kind # "delete",
                 guid'[e] # NoKey
          PROVE  FALSE
      <3>1. db[op.key].value >= op.value
        BY <1>1, <1>3, <2>2 DEF Outcome, Stored, Operation
      <3>2. op.value = value[e]
        BY <2>2 DEF EditsSeen
      <3>3. db[op.key].value \in Nat
        BY <1>3 DEF TypeOK, Document, Operation
      <3>4. QED
        BY <1>1, <2>1, <2>2, <3>1, <3>2, <3>3 DEF Saved
    <2>3. CASE t.pre[e] # NoKey
      <3>1. guid'[e] = t.pre[e]
        BY <1>1, <2>1, <2>3 DEF Marked, Live
      <3>2. PICK op \in t.ops : op.kind = "create" /\ op.entity = e
        BY <2>1, <2>3 DEF Preassigned, Voids
      <3>3. op.key = t.pre[e]
        BY <3>2 DEF Operations
      <3>4. QED
        BY <2>2, <2>3, <3>1, <3>2, <3>3
    <2>4. CASE t.pre[e] = NoKey
      <3>1. guid'[e] = guid[e]
        BY <1>1, <2>1, <2>4
      <3>2. value[e] > Saved(e)
        BY <1>1, <3>1 DEF Saved
      <3>3. PICK op \in t.ops : op.entity = e /\ op.value = value[e]
        BY <1>1, <3>2 DEF NoEditLost
      <3>4. op.kind # "create" /\ op.key \in Keys
        BY <1>3, <2>4, <3>3, SessionAssumption DEF Operations, Operation
      <3>5. op.key = entityKeys[e]
        BY <3>3, <3>4 DEF Operations
      <3>6. op.kind # "delete"
        BY <2>1, <3>5, OperationOf DEF Marked
      <3>7. QED
        BY <2>1, <2>2, <3>1, <3>3, <3>4, <3>5, <3>6, SessionAssumption
    <2>5. QED
      BY <2>3, <2>4
  <1>16. NoDespawnLost'
    <2> SUFFICES ASSUME NEW e \in Entities, life[e] = "gone", entityKeys[e] # NoKey,
                        e \notin removed \cup despawned
                 PROVE  db[entityKeys[e]].version = 0
      <3>1. removed \cup despawned \subseteq Deleting'
        BY <1>1 DEF Deleting
      <3>2. QED
        BY <1>1, <1>6, <3>1 DEF NoDespawnLost
    <2>1. CASE e \notin t.gone
      BY <1>4, <2>1 DEF NoDespawnLost
    <2>2. CASE e \in t.gone
      <3>1. PICK op \in t.ops : op.kind = "delete" /\ op.entity = e
        BY <2>2 DEF Operations
      <3>2. op.key = entityKeys[e]
        BY <3>1 DEF Operations
      <3>3. db[op.key].version = Stored(op).version
        BY <1>1, <3>1 DEF Outcome
      <3>4. QED
        BY <3>1, <3>2, <3>3 DEF Stored, Absent
    <2>3. QED
      BY <2>1, <2>2
  <1>17. QED
    BY <1>7, <1>8, <1>9, <1>10, <1>12, <1>13, <1>14, <1>15, <1>16, <1>11

LEMMA CommitFailedStep ==
    ASSUME IInv, NEW t \in tasks, CommitFailed(t)
    PROVE  Consistent'
  <1> USE DEF IInv, Types, Consistent
  <1>1. /\ UNCHANGED <<life, guid, carrying, value, added, changed, removed, hydrating,
                       entityKeys,
                       guidToEntity, version, db, clock, touched, phantoms>>
        /\ t.result = "err" /\ phase = "Commit" /\ tasks = {t} /\ tasks' = {}
        /\ dirty' = dirty \cup t.marks /\ despawned' = despawned \cup t.gone
    BY DEF CommitFailed, DirtyAfterFailure, DespawnedAfterFailure, worldVars, trackerVars,
           cacheVars, boundVars, ghosts, OneTask
  <1>2. Deleting' = Deleting /\ Live' = Live
    BY <1>1 DEF Deleting, Live
  <1>3. KeysAgree' /\ Indexed'
    BY <1>1 DEF KeysAgree, Indexed
  <1>4. Marked'
    BY <1>1, <1>2 DEF Marked
  <1>5. /\ Hydrated' /\ Clocked' /\ Preassigned' /\ Voids' /\ Operations' /\ EditsSeen'
        /\ Outcome'
    BY <1>1 DEF Hydrated, Clocked, Preassigned, Voids, Operations, EditsSeen, Outcome
  <1>6. AllCurrent' /\ LostKeysKnown' /\ PhantomsHeld'
    BY <1>1 DEF AllCurrent, Current, UpToDate, LostKeysKnown, PhantomsHeld
  <1>7. VersionKnown' /\ NoDespawnLost'
    BY <1>1, <1>2 DEF VersionKnown, NoDespawnLost
  <1>8. NoEditLost'
    <2>1. ASSUME NEW e \in carrying, NEW op \in t.ops, op.entity = e PROVE e \in dirty'
      <3>1. op.kind # "delete"
        BY <2>1 DEF Operations, Marked, Deleting, Live
      <3>2. QED
        BY <1>1, <2>1, <3>1 DEF Operations
    <2>2. QED
      BY <1>1, <1>2, <2>1 DEF NoEditLost, Saved
  <1>9. QED
    BY <1>3, <1>4, <1>5, <1>6, <1>7, <1>8

LEMMA RestartStep ==
    ASSUME IInv, Restart
    PROVE  Consistent'
  <1> USE DEF IInv, Types, Consistent
  <1>1. /\ tasks' = {} /\ hydrating' = FALSE /\ clock' = clock
        /\ touched' = {} /\ phantoms' = {} /\ carrying' = {}
        /\ added' = {} /\ changed' = {} /\ removed' = {} /\ dirty' = {} /\ despawned' = {}
        /\ life' = [e \in Entities |-> "unborn"] /\ guid' = [e \in Entities |-> NoKey]
        /\ value' = [e \in Entities |-> 0] /\ entityKeys' = [e \in Entities |-> NoKey]
        /\ guidToEntity' = [k \in Keys |-> NoEntity]
    BY DEF Restart, boundVars
  <1>2. Live' = {} /\ Deleting' = {}
    BY <1>1 DEF Live, Deleting
  <1>3. clock \in Nat
    BY DEF TypeOK
  <1>4. \A k \in Keys : db'[k].value <= clock
    <2>1. CASE db' = db
      BY <2>1 DEF Clocked
    <2>2. ASSUME NEW t \in tasks, db' = Written(t.ops), NEW k \in Keys
          PROVE  db'[k].value <= clock
      <3>1. CASE \A op \in t.ops : op.key # k
        BY <2>2, <3>1, WrittenAt DEF Clocked
      <3>2. ASSUME NEW op \in t.ops, op.key = k PROVE db'[k].value <= clock
        <4>1. op.value <= clock /\ op \in Operation
          BY DEF Clocked, TypeOK, CommitTask
        <4>2. Stored(op).value <= clock
          BY <1>3, <4>1 DEF Stored, Absent
        <4>3. QED
          BY <2>2, <3>2, <4>2, WrittenAt
      <3>3. QED
        BY <3>1, <3>2
    <2>3. QED
      BY <2>1, <2>2 DEF Restart
  <1>5. KeysAgree' /\ Indexed'
    BY <1>1, SessionAssumption DEF KeysAgree, Indexed
  <1>6. Marked' /\ Hydrated' /\ Clocked'
    BY <1>1, <1>2, <1>3, <1>4 DEF Marked, Hydrated, Clocked
  <1>7. Preassigned' /\ Voids' /\ PhantomsHeld' /\ Operations' /\ EditsSeen' /\ Outcome'
    BY <1>1 DEF Preassigned, Voids, PhantomsHeld, Operations, EditsSeen, Outcome
  <1>8. AllCurrent' /\ VersionKnown' /\ LostKeysKnown' /\ NoEditLost' /\ NoDespawnLost'
    BY <1>1, <1>2 DEF AllCurrent, VersionKnown, LostKeysKnown, NoEditLost, NoDespawnLost
  <1>9. QED
    BY <1>5, <1>6, <1>7, <1>8

-----------------------------------------------------------------------------
(* The theorems.                                                           *)

LEMMA InvariantStep ==
    ASSUME Ordinary, IInv, [Next]_vars
    PROVE  IInv'
  <1>1. Types'
    BY TypesStep DEF IInv
  <1>2. Consistent'
    BY StepCases, SpawnStep, EditStep, RemoveComponentStep, DespawnStep, LoadNewStep,
       LoadOverStep,
       ReconcileVersionsStep, TrackChangesStep, PhaseStep, StartCommitStep,
       CommitSucceededStep, CommitFailedStep, TransactionCommitsStep, TransactionFailsStep,
       AnswerLostStep, ForeignWriteStep, RestartStep
  <1>3. QED
    BY <1>1, <1>2 DEF IInv

\* The inductive invariant holds of every session in ordinary use.
THEOREM Invariant == ASSUME Ordinary PROVE Spec => []IInv
  <1>1. IInv /\ [Next]_vars => IInv'
    BY InvariantStep
  <1>2. QED
    BY <1>1, InitConsistent, PTL DEF Spec

\* In ordinary use no edit is ever forgotten: what is later than the database is about to
\* be seen, marked or carried, through hydration, failures and restarts.
THEOREM EditsKept == ASSUME Ordinary PROVE Spec => []NoEditLost
  <1>1. IInv => NoEditLost
    BY DEF IInv, Consistent
  <1>2. QED
    BY <1>1, Invariant, PTL

\* Nor is a despawn: the document of an entity that is gone is deleted or going to be.
THEOREM DespawnsKept == ASSUME Ordinary PROVE Spec => []NoDespawnLost
  <1>1. IInv => NoDespawnLost
    BY DEF IInv, Consistent
  <1>2. QED
    BY <1>1, Invariant, PTL

\* A transaction is refused exactly when a document it writes has changed behind the
\* session's back, or is that of an entity whose key was recorded with nothing to store.
THEOREM ConflictsAreReal == ASSUME Ordinary PROVE Spec => []ConflictOnlyFromOutside
  <1>1. IInv => ConflictOnlyFromOutside
    BY ExecutableIfUntouched DEF ConflictOnlyFromOutside
  <1>2. QED
    BY <1>1, Invariant, PTL

\* Two live entities never carry the same Guid.
THEOREM KeysAreUnique == ASSUME Ordinary PROVE Spec => []OneEntityPerKey
  <1>1. ASSUME IInv PROVE OneEntityPerKey
    BY <1>1, KeyHolder DEF OneEntityPerKey, IInv, Consistent, KeysAgree, Live
  <1>2. QED
    BY <1>1, Invariant, PTL

\* No mark ever stops the commits that follow for want of a version.
THEOREM VersionsAtHand == ASSUME Ordinary PROVE Spec => []CommitsNeverPoisoned
  <1>1. ASSUME IInv PROVE CommitsNeverPoisoned
    <2> USE DEF IInv, Consistent
    <2>1. ASSUME NEW op \in Deletions PROVE op.expected # 0
      <3>1. PICK e \in despawned :
               entityKeys[e] # NoKey /\ op.expected = version[entityKeys[e]]
        BY DEF Deletions
      <3>2. e \in Entities /\ e \in Deleting
        BY <1>1 DEF Deleting, Types, TypeOK
      <3>3. QED
        BY <1>1, <3>1, <3>2 DEF VersionKnown
    <2>2. ASSUME NEW op \in Updates PROVE op.expected # 0
      BY <1>1 DEF Updates, Serialized, Marked, VersionKnown, Types, TypeOK
    <2>3. QED
      BY <2>1, <2>2 DEF CommitsNeverPoisoned, MissingVersion
  <1>2. QED
    BY <1>1, Invariant, PTL

-----------------------------------------------------------------------------
(* The session implements VersionedDocuments.                              *)

\* A version that is cached is that of a document, or of one whose key is known.
KnownOfGone ==
    \A k \in Keys : version[k] # 0 =>
        db[k].version # 0 \/ \E e \in Entities : entityKeys[e] = k

\* The cached version a commit leaves is that of the document it has written.
LEMMA VersionAfterWritten ==
    ASSUME IInv, NEW t \in tasks, NEW k \in Keys
    PROVE  /\ (\A op \in t.ops : op.key # k) /\ k \notin t.void =>
                 VersionAfter(t, k) = version[k]
           /\ \A op \in t.ops : op.key = k => VersionAfter(t, k) = Stored(op).version
  <1> USE DEF IInv, Types, Consistent
  <1>1. \A op \in t.ops : op \in Operation
    BY DEF TypeOK, CommitTask
  <1>2. ASSUME NEW e \in Entities, t.pre[e] = k
        PROVE  /\ VersionAfter(t, k) = 1
               /\ k \in t.void \/ \E op \in t.ops : op.kind = "create" /\ op.key = k
    BY <1>2, SessionAssumption DEF VersionAfter, Preassigned, Operations
  <1>3. \A kind \in {"delete", "update"} : \A e \in Of(kind, t) :
           entityKeys[e] = k => \E op \in t.ops : op.kind = kind /\ op.key = k
    BY DEF Of, Operations
  <1>4. ASSUME \A op \in t.ops : op.key # k, k \notin t.void PROVE VersionAfter(t, k) = version[k]
    BY <1>2, <1>3, <1>4 DEF VersionAfter
  <1>5. ASSUME NEW op \in t.ops, op.key = k PROVE VersionAfter(t, k) = Stored(op).version
    <2>1. op \in Operation /\ op.entity \in Entities /\ k # NoKey
      BY <1>1, SessionAssumption DEF Operation
    <2>2. CASE op.kind = "create"
      BY <1>2, <1>5, <2>1, <2>2 DEF Operations, Voids, Stored
    <2>3. CASE op.kind # "create"
      <3>1. /\ entityKeys[op.entity] = k /\ op.expected = version[k] /\ version[k] # 0
            /\ \A e \in Entities : t.pre[e] # k
        BY <1>5, <2>1, <2>3 DEF Operations, Preassigned
      <3>2. op.kind \in {"delete", "update"} /\ op.entity \in Of(op.kind, t)
        BY <2>1, <2>3 DEF Operation, Of
      <3>3. CASE op.kind = "delete"
        BY <3>1, <3>2, <3>3 DEF VersionAfter, Stored, Absent
      <3>4. CASE op.kind = "update"
        <4>1. ~\E e \in Of("delete", t) : entityKeys[e] = k
          BY <1>3, <1>5, <3>4 DEF Operations
        <4>2. QED
          BY <3>1, <3>2, <3>4, <4>1 DEF VersionAfter, Stored
      <3>5. QED
        BY <3>2, <3>3, <3>4
    <2>4. QED
      BY <2>2, <2>3
  <1>6. QED
    BY <1>4, <1>5

\* A key whose document is about to be created is new to the session.
LEMMA CreatedIsNew ==
    ASSUME IInv, KnownOfGone, NEW t \in tasks, NEW op \in t.ops, op.kind = "create",
           db[op.key].version = 0
    PROVE  version[op.key] = 0
  <1> USE DEF IInv, Types, Consistent
  <1>1. op.key \in Keys /\ op.key # NoKey /\ op.entity \in Entities
    BY SessionAssumption DEF TypeOK, CommitTask, Operation
  <1>2. \A f \in Entities : entityKeys[f] # op.key
    BY <1>1 DEF Operations, Preassigned
  <1>3. QED
    BY <1>1, <1>2 DEF KnownOfGone

\* What a transaction that is executed does to versions.
LEMMA LandedVersions ==
    ASSUME IInv, KnownOfGone, NEW t \in tasks, Executable(t.ops)
    PROVE  \A op \in t.ops :
              /\ op.key \in Keys
              /\ db[op.key].version = version[op.key]
              /\ Stored(op).version \in {0, version[op.key] + 1}
              /\ Stored(op).version = 0 => op.kind = "delete" /\ entityKeys[op.entity] = op.key
  <1> USE DEF IInv, Types, Consistent
  <1> SUFFICES ASSUME NEW op \in t.ops
               PROVE  /\ op.key \in Keys
                      /\ db[op.key].version = version[op.key]
                      /\ Stored(op).version \in {0, version[op.key] + 1}
                      /\ Stored(op).version = 0 =>
                            op.kind = "delete" /\ entityKeys[op.entity] = op.key
    OBVIOUS
  <1>1. op \in Operation /\ op.key \in Keys /\ Accepts(op)
    BY DEF TypeOK, CommitTask, Operation, Executable
  <1>2. version[op.key] \in Nat
    BY <1>1, SessionAssumption DEF TypeOK
  <1>3. CASE op.kind = "create"
    <2>1. db[op.key].version = 0 /\ version[op.key] = 0
      BY <1>1, <1>3, CreatedIsNew DEF Accepts
    <2>2. QED
      BY <1>1, <1>3, <2>1 DEF Stored
  <1>4. CASE op.kind # "create"
    <2>1. /\ op.expected = version[op.key] /\ db[op.key].version = op.expected
          /\ entityKeys[op.entity] = op.key
      BY <1>1, <1>4 DEF Operations, Accepts
    <2>2. QED
      BY <1>1, <1>2, <1>4, <2>1 DEF Stored, Absent, Operation
  <1>5. QED
    BY <1>3, <1>4

LEMMA KnownInit == Init => KnownOfGone
  BY DEF Init, FreshSession, KnownOfGone

LEMMA KnownStep ==
    ASSUME Ordinary, IInv, KnownOfGone, [Next]_vars
    PROVE  KnownOfGone'
  <1> USE SessionAssumption DEF IInv, Types, Consistent
  <1>1. CASE UNCHANGED <<entityKeys, version, db>>
    BY <1>1 DEF KnownOfGone
  <1>2. ASSUME NEW e \in Entities, NEW k \in Keys, LoadNew(e, k) PROVE KnownOfGone'
    <2>1. /\ db[k].version # 0 /\ db' = db /\ entityKeys' = [entityKeys EXCEPT ![e] = k]
          /\ version' = [version EXCEPT ![k] = db[k].version] /\ entityKeys[e] = NoKey
      BY <1>2 DEF LoadNew, InsertEntityKey, Hydrate, NotHydrated, SetVersion, KeysAgree
    <2>2. \A f \in Entities, l \in Keys : entityKeys[f] = l => entityKeys'[f] = l
      BY <2>1 DEF TypeOK
    <2>3. QED
      BY <2>1, <2>2 DEF KnownOfGone, TypeOK
  <1>3. ASSUME NEW e \in Entities, NEW k \in Keys, LoadOver(e, k) PROVE KnownOfGone'
    <2>1. entityKeys[e] = k
      BY <1>3 DEF LoadOver, Resolved, KeysAgree, Indexed, Live
    <2>2. /\ db[k].version # 0 /\ db' = db /\ entityKeys' = entityKeys
          /\ version' = [version EXCEPT ![k] = db[k].version]
      BY <1>3, <2>1 DEF LoadOver, InsertEntityKey, Hydrate, NotHydrated, SetVersion, TypeOK
    <2>3. QED
      BY <2>2 DEF KnownOfGone, TypeOK
  <1>4. CASE ReconcileVersions
    BY <1>4 DEF ReconcileVersions, KnownOfGone
  <1>5. ASSUME NEW t \in tasks, Executable(t.ops), db' = Written(t.ops),
               UNCHANGED <<entityKeys, version>>
        PROVE  KnownOfGone'
    <2> SUFFICES ASSUME NEW k \in Keys, version[k] # 0, db'[k].version = 0
                 PROVE  \E e \in Entities : entityKeys[e] = k
      BY <1>5 DEF KnownOfGone
    <2>1. CASE \A op \in t.ops : op.key # k
      BY <1>5, <2>1, WrittenAt DEF KnownOfGone
    <2>2. ASSUME NEW op \in t.ops, op.key = k PROVE \E e \in Entities : entityKeys[e] = k
      <3>1. Stored(op).version = 0
        BY <1>5, <2>2, WrittenAt
      <3>2. op.entity \in Entities
        BY DEF TypeOK, CommitTask, Operation
      <3>3. QED
        BY <1>5, <2>2, <3>1, <3>2, LandedVersions
    <2>3. QED
      BY <2>1, <2>2
  <1>6. ASSUME NEW t \in tasks, TransactionCommits(t) \/ AnswerLost(t) PROVE KnownOfGone'
    BY <1>5, <1>6 DEF TransactionCommits, AnswerLost, Finish, cacheVars
  <1>7. ASSUME NEW k \in Keys, ForeignWrite(k) PROVE KnownOfGone'
    <2>1. /\ db' = [db EXCEPT ![k] = [version |-> @.version + 1, value |-> clock + 1]]
          /\ UNCHANGED <<entityKeys, version>> /\ db[k].version \in Nat
      BY <1>7 DEF ForeignWrite, cacheVars, TypeOK, Document
    <2>2. \A l \in Keys : db'[l].version = 0 => db[l].version = 0
      BY <2>1 DEF TypeOK
    <2>3. QED
      BY <2>1, <2>2 DEF KnownOfGone
  <1>8. ASSUME NEW t \in tasks, CommitSucceeded(t) PROVE KnownOfGone'
    <2>1. /\ db' = db /\ version' = [k \in Keys |-> VersionAfter(t, k)]
          /\ entityKeys' = [e \in Entities |->
                               IF t.pre[e] # NoKey THEN t.pre[e] ELSE entityKeys[e]]
      BY <1>8 DEF CommitSucceeded
    <2>2. ASSUME NEW e \in Entities, NEW k \in Keys, entityKeys[e] = k \/ t.pre[e] = k
          PROVE  entityKeys'[e] = k
      BY <2>1, <2>2 DEF Preassigned
    <2>3. ASSUME NEW k \in Keys, VersionAfter(t, k) # 0
          PROVE  \/ db[k].version # 0
                 \/ \E e \in Entities : entityKeys[e] = k \/ t.pre[e] = k
      BY <2>3 DEF VersionAfter, KnownOfGone
    <2>4. QED
      BY <2>1, <2>2, <2>3 DEF KnownOfGone
  <1>9. CASE Restart
    BY <1>9 DEF Restart, KnownOfGone
  <1>10. QED
    BY StepCases, <1>1, <1>2, <1>3, <1>4, <1>6, <1>7, <1>8, <1>9
       DEF Spawn, Edit, InsertComponent, RemoveComponent, Despawn, TrackChanges, NoCommit,
           StartCommit, NothingFinished,
           CommitFailed, TransactionConflicts, ConnectionLost, Finish, vars, cacheVars

\* What the session holds while no commit has succeeded, and when one has.
LEMMA Held ==
    ASSUME IInv
    PROVE  /\ (\A t \in tasks : t.result # "ok") => VersionsHeld = version
           /\ \A t \in tasks : t.result = "ok" =>
                 VersionsHeld = [k \in Keys |-> VersionAfter(t, k)]
  BY DEF IInv, Types, TypeOK, OneTask, VersionsHeld

LEMMA HeldNext ==
    ASSUME IInv'
    PROVE  /\ (\A t \in tasks' : t.result # "ok") => VersionsHeld' = version'
           /\ \A t \in tasks' : t.result = "ok" =>
                 VersionsHeld' = [k \in Keys |-> VersionAfter(t, k)']
  BY DEF IInv, Types, TypeOK, OneTask, VersionsHeld

\* What it knows for its promise: that, except of phantoms.
KnownVersions == [k \in Keys |-> IF k \in phantoms THEN 0 ELSE VersionsHeld[k]]

\* A transaction that is executed is a write of all its documents.
LEMMA LandedWrites ==
    ASSUME IInv, KnownOfGone, NEW t \in tasks, t.result = "none", Executable(t.ops),
           db' = Written(t.ops)
    PROVE  /\ {op.key : op \in t.ops} \in SUBSET Keys
           /\ Promise!Write({op.key : op \in t.ops})
  <1>1. VersionsHeld = version
    BY Held DEF IInv, Types, OneTask
  <1>2. ASSUME NEW k \in {op.key : op \in t.ops}
        PROVE  /\ k \in Keys /\ k \notin phantoms /\ db[k].version = version[k]
               /\ db'[k].version \in {0, version[k] + 1}
    BY LandedVersions, WrittenAt, ExecutableIfUntouched
  <1>3. ASSUME NEW k \in Keys \ {op.key : op \in t.ops} PROVE db'[k] = db[k]
    BY WrittenAt
  <1>4. QED
    BY <1>1, <1>2, <1>3 DEF Promise!Write

LEMMA ImplementsInit == Init => Promise!Init
  <1> SUFFICES ASSUME Init PROVE Promise!Init
    OBVIOUS
  <1>1. \A k \in Keys : db[k].version \in Nat
    BY DEF Init, Absent
  <1>2. VersionsHeld = [k \in Keys |-> 0]
    BY DEF Init, FreshSession, VersionsHeld
  <1>3. KnownVersions = [k \in Keys |-> 0]
    BY <1>2 DEF KnownVersions
  <1>4. QED
    BY <1>1, <1>3 DEF Promise!Init, Promise!NothingKnown, KnownVersions

LEMMA ImplementsStep ==
    ASSUME Ordinary, IInv, KnownOfGone, [Next]_vars
    PROVE  [Promise!Next]_(Promise!vars)
  <1> USE DEF IInv, Types
  <1> SUFFICES Promise!Next \/ UNCHANGED <<db, VersionsHeld, phantoms>>
    BY DEF Promise!vars
  <1>1. IInv' /\ OneTask
    BY InvariantStep
  <1> HIDE DEF IInv, Types
  <1>2. CASE UNCHANGED <<tasks, version, entityKeys, db, phantoms>>
    BY <1>2 DEF VersionsHeld, VersionAfter, Of
  <1>3. ASSUME NEW ks \in SUBSET Keys, tasks = {}, tasks' = {}, db' = db,
               phantoms' = phantoms, ks \cap phantoms = {},
               version' = [k \in Keys |-> IF k \in ks THEN db[k].version ELSE version[k]]
        PROVE  Promise!Next
    <2>1. VersionsHeld = version /\ VersionsHeld' = version'
      BY <1>1, <1>3, Held, HeldNext
    <2>2. Promise!Learn
      BY <1>3, <2>1 DEF Promise!Learn
    <2>3. QED
      BY <2>2 DEF Promise!Next
  <1>4. ASSUME NEW e \in Entities, NEW k \in Keys, LoadNew(e, k) \/ LoadOver(e, k)
        PROVE  Promise!Next
    <2>1. /\ tasks = {} /\ tasks' = {} /\ db' = db /\ phantoms' = phantoms
          /\ version' = [version EXCEPT ![k] = db[k].version] /\ db[k].version # 0
      BY <1>4, OrdinaryHabits DEF LoadNew, LoadOver, MayLoad, Hydrate, NotHydrated, SetVersion
    <2>2. version' = [l \in Keys |-> IF l \in {k} THEN db[l].version ELSE version[l]]
      BY <2>1 DEF IInv, Types, TypeOK
    <2>3. {k} \cap phantoms = {}
      BY <2>1 DEF IInv, Consistent, PhantomsHeld
    <2>4. QED
      BY <1>3, <2>1, <2>2, <2>3
  <1>5. CASE ReconcileVersions
    <2>1. /\ tasks = {} /\ tasks' = {} /\ db' = db /\ phantoms' = phantoms
          /\ version' = [k \in Keys |->
                            IF db[k].version # 0 THEN db[k].version ELSE version[k]]
      BY <1>5, OrdinaryHabits DEF ReconcileVersions
    <2>2. version' = [k \in Keys |-> IF k \in {l \in Keys : db[l].version # 0}
                                     THEN db[k].version ELSE version[k]]
      BY <2>1
    <2>3. {l \in Keys : db[l].version # 0} \cap phantoms = {}
      BY DEF IInv, Consistent, PhantomsHeld
    <2>4. QED
      BY <1>3, <2>1, <2>2, <2>3
  <1>6. CASE StartCommit
    <2>1. /\ tasks = {} /\ UNCHANGED <<db, version, phantoms>>
          /\ \A t \in tasks' : t.result = "none"
      BY <1>6 DEF StartCommit, cacheVars, ghosts
    <2>2. QED
      BY <1>1, <2>1, Held, HeldNext
  <1>7. ASSUME NEW t \in tasks, CommitFailed(t) PROVE UNCHANGED <<db, VersionsHeld, phantoms>>
    <2>1. /\ tasks = {t} /\ tasks' = {} /\ t.result = "err"
          /\ UNCHANGED <<db, version, phantoms>>
      BY <1>1, <1>7 DEF CommitFailed, OneTask, cacheVars, ghosts
    <2>2. QED
      BY <1>1, <2>1, Held, HeldNext
  <1>8. ASSUME NEW t \in tasks, CommitSucceeded(t) PROVE UNCHANGED <<db, VersionsHeld, phantoms>>
    <2>1. /\ tasks' = {} /\ t.result = "ok" /\ db' = db /\ phantoms' = phantoms
          /\ version' = [k \in Keys |-> VersionAfter(t, k)]
      BY <1>1, <1>8 DEF CommitSucceeded, OneTask, ghosts
    <2>2. QED
      BY <1>1, <2>1, Held, HeldNext
  <1>9. ASSUME NEW t \in tasks, Finish(t, "err")
        PROVE  VersionsHeld' = VersionsHeld /\ t.result = "none"
    <2>1. /\ tasks = {t} /\ t.result = "none" /\ version' = version
          /\ \A u \in tasks' : u.result = "err"
      BY <1>9, Finished
    <2>2. QED
      BY <1>1, <2>1, Held, HeldNext
  <1>10. ASSUME NEW t \in tasks, TransactionConflicts(t) \/ ConnectionLost(t)
         PROVE  UNCHANGED <<db, VersionsHeld, phantoms>>
    BY <1>9, <1>10 DEF TransactionConflicts, ConnectionLost, ghosts
  <1>11. ASSUME NEW t \in tasks, AnswerLost(t) PROVE Promise!Next
    <2>1. Executable(t.ops) /\ Finish(t, "err") /\ db' = Written(t.ops) /\ phantoms' = phantoms
      BY <1>11 DEF AnswerLost
    <2>2. Promise!CommitUnheard
      BY <1>9, <2>1, LandedWrites DEF Promise!CommitUnheard
    <2>3. QED
      BY <2>2 DEF Promise!Next
  <1>12. ASSUME NEW t \in tasks, TransactionCommits(t) PROVE Promise!Next
    <2>1. Executable(t.ops) /\ Finish(t, "ok") /\ db' = Written(t.ops)
          /\ phantoms' = phantoms \cup t.void
      BY <1>12 DEF TransactionCommits
    <2>2. /\ tasks = {t} /\ t.result = "none" /\ UNCHANGED <<version, entityKeys>>
          /\ \A u \in tasks' : u.pre = t.pre /\ u.ops = t.ops /\ u.result = "ok"
          /\ tasks' # {}
      BY <2>1, Finished
    <2> DEFINE ks == {op.key : op \in t.ops}
    <2>3. VersionsHeld = version
      BY <2>2, Held
    <2>4. VersionsHeld' = [k \in Keys |-> VersionAfter(t, k)]
      <3>1. PICK u \in tasks' : u.pre = t.pre /\ u.ops = t.ops /\ u.result = "ok"
        BY <2>2
      <3>2. VersionsHeld' = [k \in Keys |-> VersionAfter(u, k)']
        BY <1>1, <3>1, HeldNext
      <3>3. \A k \in Keys : VersionAfter(u, k)' = VersionAfter(t, k)
        BY <2>2, <3>1 DEF VersionAfter, Of
      <3>4. QED
        BY <3>2, <3>3
    <2>5. ASSUME NEW k \in Keys, k \notin t.void
          PROVE  VersionAfter(t, k) = IF k \in ks THEN db'[k].version ELSE version[k]
      BY <2>1, <2>5, VersionAfterWritten, WrittenAt
    <2>6. ASSUME NEW k \in ks PROVE k \notin phantoms'
      BY <2>1, <2>2, <2>6, ExecutableIfUntouched DEF IInv, Consistent, Voids
    <2>7. ASSUME NEW k \in t.void PROVE version[k] = 0
      BY <2>7, SessionAssumption
         DEF KnownOfGone, IInv, Types, TypeOK, CommitTask, Consistent, Voids, Preassigned
    <2>8. KnownVersions' = [k \in Keys |-> IF k \in ks THEN db'[k].version
                                           ELSE KnownVersions[k]]
      <3> SUFFICES ASSUME NEW k \in Keys
                   PROVE  (IF k \in phantoms' THEN 0 ELSE VersionsHeld'[k]) =
                          IF k \in ks THEN db'[k].version
                          ELSE IF k \in phantoms THEN 0 ELSE VersionsHeld[k]
        BY DEF KnownVersions
      <3>1. CASE k \in phantoms
        BY <2>1, <2>6, <3>1
      <3>2. CASE k \in t.void
        BY <2>1, <2>3, <2>6, <2>7, <3>2
      <3>3. CASE k \notin phantoms \cup t.void
        BY <2>1, <2>3, <2>4, <2>5, <3>3
      <3>4. QED
        BY <3>1, <3>2, <3>3
    <2>9. ks \in SUBSET Keys /\ Promise!Write(ks)
      BY <2>1, <2>2, LandedWrites
    <2>10. Promise!Commit
      BY <2>8, <2>9 DEF Promise!Commit, KnownVersions
    <2>11. QED
      BY <2>10 DEF Promise!Next
  <1>13. ASSUME NEW k \in Keys, ForeignWrite(k) PROVE Promise!Next
    <2>1. /\ db' = [db EXCEPT ![k] = [version |-> @.version + 1, value |-> clock + 1]]
          /\ UNCHANGED <<tasks, version, entityKeys, phantoms>>
      BY <1>13 DEF ForeignWrite, cacheVars
    <2>2. UNCHANGED VersionsHeld
      BY <2>1 DEF VersionsHeld, VersionAfter, Of
    <2>3. /\ db'[k].version = db[k].version + 1
          /\ \A l \in Keys \ {k} : db'[l] = db[l]
      BY <2>1 DEF IInv, Types, TypeOK
    <2>4. Promise!Interfere
      BY <2>1, <2>2, <2>3 DEF Promise!Interfere
    <2>5. QED
      BY <2>4 DEF Promise!Next
  <1>14. CASE Restart
    <2>1. version' = [k \in Keys |-> 0] /\ tasks' = {} /\ phantoms' = {}
      BY <1>14 DEF Restart
    <2>2. KnownVersions' = Promise!NothingKnown
      BY <1>1, <2>1, HeldNext DEF Promise!NothingKnown, KnownVersions
    <2>3. \E ks \in SUBSET Keys : Promise!Write(ks)
      <3>1. CASE db' = db
        <4>1. Promise!Write({})
          BY <3>1 DEF Promise!Write
        <4>2. QED
          BY <4>1
      <3>2. CASE db' # db
        <4>1. PICK t \in tasks : t.result = "none" /\ Executable(t.ops) /\ db' = Written(t.ops)
          BY <1>14, <3>2 DEF Restart
        <4>2. QED
          BY <4>1, LandedWrites
      <3>3. QED
        BY <3>1, <3>2
    <2>4. Promise!Restart
      BY <2>2, <2>3 DEF Promise!Restart, KnownVersions
    <2>5. QED
      BY <2>4 DEF Promise!Next
  <1>15. QED
    BY StepCases, <1>2, <1>4, <1>5, <1>6, <1>7, <1>8, <1>10, <1>11, <1>12, <1>13, <1>14
       DEF Spawn, Edit, InsertComponent, RemoveComponent, Despawn, TrackChanges, NoCommit,
           NothingFinished, vars, cacheVars, ghosts

\* What the session holds a version of, when it has seen the outcome of its commit, is in
\* the database, unless others have deleted it or its entity had nothing to store.
THEOREM RecordedStored == ASSUME Ordinary PROVE Spec => []RecordedIsStored
  <1>1. IInv /\ KnownOfGone /\ [Next]_vars => IInv' /\ KnownOfGone'
    BY InvariantStep, KnownStep
  <1>2. Init => IInv /\ KnownOfGone
    BY InitConsistent, KnownInit
  <1>3. ASSUME IInv, KnownOfGone PROVE RecordedIsStored
    <2> USE DEF IInv, Types, Consistent
    <2> SUFFICES ASSUME NEW k \in Keys, VersionsHeld[k] # 0, db[k].version = 0
                 PROVE  k \in touched \cup phantoms
      BY DEF RecordedIsStored
    <2>1. CASE \A t \in tasks : t.result # "ok"
      <3>1. version[k] # 0
        BY <1>3, <2>1, Held
      <3>2. PICK e \in Entities : entityKeys[e] = k
        BY <1>3, <3>1 DEF KnownOfGone
      <3>3. Current(k)
        BY <1>3, <2>1, <3>2, SessionAssumption DEF AllCurrent
      <3>4. QED
        BY <3>1, <3>3 DEF Current, UpToDate
    <2>2. ASSUME NEW t \in tasks, t.result = "ok" PROVE k \in touched \cup phantoms
      <3>1. VersionAfter(t, k) # 0
        BY <1>3, <2>2, Held
      <3>2. ASSUME NEW e \in Entities, t.pre[e] = k \/ entityKeys[e] = k
            PROVE  UpToDate(k, VersionAfter(t, k))
        <4>1. k # NoKey
          BY SessionAssumption
        <4>2. k = IF t.pre[e] # NoKey THEN t.pre[e] ELSE entityKeys[e]
          BY <1>3, <3>2, <4>1 DEF Preassigned
        <4>3. QED
          BY <1>3, <2>2, <3>2, <4>1, <4>2, VersionAfterCurrent
      <3>3. \E e \in Entities : t.pre[e] = k \/ entityKeys[e] = k
        BY <1>3, <3>1 DEF VersionAfter, KnownOfGone
      <3>4. QED
        BY <3>1, <3>2, <3>3 DEF UpToDate
    <2>3. QED
      BY <2>1, <2>2
  <1>4. QED
    BY <1>1, <1>2, <1>3, PTL DEF Spec

\* In ordinary use the session writes documents as VersionedDocuments does: together, and
\* only over the versions it has read or written itself.
THEOREM Implementation == ASSUME Ordinary PROVE Spec => ImplementsVersionedDocuments
  <1>1. IInv /\ KnownOfGone /\ [Next]_vars => IInv' /\ KnownOfGone'
    BY InvariantStep, KnownStep
  <1>2. Init => IInv /\ KnownOfGone
    BY InitConsistent, KnownInit
  <1>3. IInv /\ KnownOfGone /\ [Next]_vars => [Promise!Next]_(Promise!vars)
    BY ImplementsStep
  <1>4. QED
    BY <1>1, <1>2, <1>3, ImplementsInit, PTL
       DEF Spec, ImplementsVersionedDocuments, Promise!Spec

=============================================================================
