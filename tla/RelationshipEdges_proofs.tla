---------------------- MODULE RelationshipEdges_proofs ----------------------
(***************************************************************************)
(* Safety of the edges for every set of entities and every bound: types    *)
(* under any habits, the edges and their snapshot where the session has    *)
(* written all edges and never removes its last one, the agreement of the  *)
(* edges with the world where it does not load during a commit either.     *)
(***************************************************************************)
EXTENDS RelationshipEdges, FiniteSetTheorems, TLAPS

\* The session has written every edge, and removes its last one in no commit.
OwnEdges == Environment \subseteq {"loadInFlight"}

-----------------------------------------------------------------------------
(* The inductive invariant.                                                *)

OneTask == \A t, u \in tasks : t = u

Types == TypeOK /\ OneTask

Gone == {e \in Entities : life[e] = "gone"}

\* Relationships are between live entities.
Targets == \A e \in Entities : target[e] # NoTarget => e \in Live /\ target[e] \in Live

\* Marks are on entities that were spawned, and what is to be deleted is gone.
Born ==
    /\ fresh \subseteq Live
    /\ dirty \cup keyed \subseteq Live \cup Gone
    /\ removed \cup despawned \subseteq Gone
    /\ \A t \in tasks : t.marks \cup t.pre \subseteq Live \cup Gone /\ t.gone \subseteq Gone

\* Live entities with a key have a document, or got the key with nothing to store; nothing
\* else is of either kind but what was committed a moment ago.
Kept ==
    /\ keyed \cap Live \subseteq documents \cup phantoms
    /\ documents \cup phantoms \subseteq
           keyed \cup UNION {t.pre : t \in {u \in tasks : u.result = "ok"}}
    /\ \A t \in tasks :
          /\ t.creates \subseteq t.pre
          /\ t.result = "ok" => t.pre \cap Live \subseteq documents \cup phantoms

\* A commit brings the edges from the snapshot to its next one.
Diffed ==
    \A t \in tasks :
        /\ t.upserts = t.next \ snapshot /\ t.deletes = snapshot \ t.next
        /\ t.next = {} => snapshot = {}
        /\ t.result = "ok" => edges = t.next

\* es has one edge of each source.
OneTarget(es) == \A e, f, g \in Entities : <<e, f>> \in es /\ <<e, g>> \in es => f = g

Single == OneTarget(snapshot) /\ \A t \in tasks : OneTarget(t.next)

\* The ends of the next snapshot's edges have documents once the transaction has landed,
\* or are phantoms then.
EndsCarried ==
    \A t \in tasks : t.result = "none" =>
        \A ed \in t.next : /\ ed[1] \in (documents \cup phantoms \cup t.pre) \ t.gone
                           /\ ed[2] \in documents \cup phantoms \cup t.pre \cup Gone

Consistent ==
    /\ Targets /\ Born /\ Kept /\ Diffed /\ Single /\ EndsCarried
    /\ SnapshotIsStored /\ EdgeEndsStored

IInv == Types /\ Consistent

\* es holds the relationship of e, and no other edge of e.
Agrees(e, es) == \A f \in Entities : <<e, f>> \in es <=> target[e] = f

SameEdges(e, es, fs) == \A f \in Entities : <<e, f>> \in es <=> <<e, f>> \in fs

Unmarked(e) == e \notin relinked \cup linkDirty \cup removed \cup despawned \cup forgotten

\* A frame that loads has no commit in flight.  A commit leaves the edges of the sources it
\* does not scan; the others' agree with the world, if nothing has happened to them since.
Followed ==
    /\ hydrating => tasks = {} /\ phase = "Update"
    /\ \A t \in tasks, e \in Entities :
          IF e \in t.links \cup t.gone THEN Unmarked(e) => Agrees(e, t.next)
                                     ELSE SameEdges(e, t.next, snapshot)
    /\ \A e \in Entities : Settled(e) => Agrees(e, edges)

-----------------------------------------------------------------------------
(* Facts about the operators.                                              *)

LEMMA StepCases ==
    ASSUME [Next]_vars
    PROVE  \/ \E e \in Entities : Spawn(e)
           \/ \E e \in Entities : Persist(e)
           \/ \E e \in Entities : RemoveComponent(e)
           \/ \E e \in Entities, f \in Entities : Link(e, f)
           \/ \E e \in Entities : Unlink(e)
           \/ \E e \in Entities : Despawn(e)
           \/ \E e \in Entities : LoadLinks(e)
           \/ TrackChanges
           \/ NoCommit
           \/ StartCommit
           \/ NothingFinished
           \/ \E t \in tasks : CommitSucceeded(t)
           \/ \E t \in tasks : CommitFailed(t)
           \/ \E t \in tasks : TransactionCommits(t)
           \/ \E t \in tasks : TransactionConflicts(t)
           \/ \E t \in tasks : ConnectionLost(t)
           \/ UNCHANGED vars
  BY DEF Next, Application, PostUpdate, Database

\* The commit's plan, in full.
LEMMA Plan ==
    ASSUME TypeOK, StartCommit
    PROVE  \E t \in CommitTask :
              /\ tasks' = {t}
              /\ t.marks = dirty /\ t.links = linkDirty /\ t.gone = despawned
              /\ t.pre = Preassigned /\ t.creates \subseteq Preassigned
              /\ t.upserts = Upserts /\ t.deletes = Deletes /\ t.next = NextSnapshot
              /\ t.result = "none"
  <1> DEFINE t == [marks |-> dirty, links |-> linkDirty, gone |-> despawned,
                   pre |-> Preassigned, creates |-> Serialized \ keyed,
                   updates |-> Serialized \cap keyed,
                   upserts |-> Upserts, deletes |-> Deletes, next |-> NextSnapshot,
                   result |-> "none"]
  <1>1. tasks' = {t}
    BY DEF StartCommit
  <1>2. Preassigned \subseteq Entities /\ NextSnapshot \subseteq Edge
    BY DEF Preassigned, NextSnapshot, Retained, Current, WithKey, Edge, TypeOK
  <1>3. Upserts \subseteq Edge /\ Deletes \subseteq Edge
    BY <1>2 DEF Upserts, Deletes, TypeOK
  <1>4. Serialized \subseteq Entities /\ t.creates \subseteq Preassigned
    BY DEF Serialized, Preassigned, TypeOK
  <1>5. t \in CommitTask
    BY <1>2, <1>3, <1>4 DEF CommitTask, TypeOK
  <1>6. QED
    BY <1>1, <1>4, <1>5

\* The one task, when its transaction has ended.
LEMMA Finished ==
    ASSUME Types, NEW t \in tasks, NEW r \in {"ok", "err"}, Finish(t, r)
    PROVE  /\ UNCHANGED <<life, target, carrying, keyed, fresh, relinked, removed, hydrating,
                          dirty, linkDirty, despawned, snapshot, forgotten, links, removals,
                          phase>>
           /\ tasks = {t} /\ t.result = "none"
           /\ \E u \in CommitTask :
                 /\ tasks' = {u} /\ u.result = r
                 /\ u.marks = t.marks /\ u.links = t.links /\ u.gone = t.gone
                 /\ u.pre = t.pre /\ u.creates = t.creates /\ u.upserts = t.upserts
                 /\ u.deletes = t.deletes /\ u.next = t.next
  <1> USE DEF Types
  <1>1. UNCHANGED <<life, target, carrying, keyed, fresh, relinked, removed, hydrating,
                    dirty, linkDirty, despawned, snapshot, forgotten, links, removals, phase>>
    BY DEF Finish, worldVars, trackerVars, markVars
  <1>2. tasks = {t} /\ t.result = "none" /\ tasks' = {[t EXCEPT !.result = r]}
    BY DEF Finish, OneTask
  <1>3. t \in CommitTask
    BY DEF TypeOK
  <1> DEFINE u == [t EXCEPT !.result = r]
  <1>4. u \in CommitTask
    BY <1>3 DEF CommitTask
  <1>5. /\ u.result = r
        /\ u.marks = t.marks /\ u.links = t.links /\ u.gone = t.gone
        /\ u.pre = t.pre /\ u.creates = t.creates /\ u.upserts = t.upserts
        /\ u.deletes = t.deletes /\ u.next = t.next
    BY <1>3 DEF CommitTask
  <1> HIDE DEF u
  <1>6. QED
    BY <1>1, <1>2, <1>4, <1>5 DEF u

\* Where a source has its edges in the next snapshot.
LEMMA NextEdges ==
    ASSUME TypeOK, NEW e \in Entities, NEW f \in Entities
    PROVE  <<e, f>> \in NextSnapshot <=>
              IF e \in Scanned \cap WithKey
              THEN e \in Live /\ f \in WithKey /\ target[e] = f
              ELSE <<e, f>> \in snapshot
  BY DEF NextSnapshot, Retained, Current, WithKey, Preassigned, TypeOK

-----------------------------------------------------------------------------
(* Types.                                                                  *)

LEMMA TypesInit == Init => Types
  <1> SUFFICES ASSUME Init PROVE Types
    OBVIOUS
  <1>1. edges \subseteq Edge
    BY DEF Init, Edge
  <1>2. /\ life \in [Entities -> {"unborn", "live", "gone"}]
        /\ target \in [Entities -> Entities \cup {NoTarget}]
        /\ keyed \subseteq Entities /\ documents \subseteq Entities
    BY DEF Init
  <1>3. 0 \in 0..MaxLinks /\ 0 \in 0..MaxRemovals /\ 0 \in 0..MaxFailures
    BY EdgesAssumption
  <1>4. hydrating \in BOOLEAN
    BY DEF Init
  <1>5. TypeOK
    BY <1>1, <1>2, <1>3, <1>4 DEF Init, TypeOK
  <1>6. QED
    BY <1>5 DEF Init, Types, OneTask

LEMMA TypesStep == Types /\ [Next]_vars => Types'
  <1> SUFFICES ASSUME Types, [Next]_vars PROVE Types'
    OBVIOUS
  <1> USE EdgesAssumption DEF Types
  <1>1. ASSUME NEW e \in Entities, Spawn(e) PROVE Types'
    BY <1>1 DEF Spawn, TypeOK, OneTask, markVars, dbVars, boundVars, ghosts
  <1>2. ASSUME NEW e \in Entities, Persist(e) PROVE Types'
    BY <1>2 DEF Persist, TypeOK, OneTask, worldVars, markVars, dbVars, boundVars, ghosts
  <1>3. ASSUME NEW e \in Entities, RemoveComponent(e) PROVE Types'
    BY <1>3 DEF RemoveComponent, TypeOK, OneTask, markVars, dbVars, ghosts
  <1>4. ASSUME NEW e \in Entities, NEW f \in Entities, Link(e, f) PROVE Types'
    BY <1>4 DEF Link, TypeOK, OneTask, markVars, dbVars, ghosts
  <1>5. ASSUME NEW e \in Entities, Unlink(e) PROVE Types'
    BY <1>5 DEF Unlink, TypeOK, OneTask, markVars, dbVars, ghosts
  <1>6. ASSUME NEW e \in Entities, Despawn(e) PROVE Types'
    <2>1. target' \in [Entities -> Entities \cup {NoTarget}] /\ relinked' \subseteq Entities
      BY <1>6 DEF Despawn, TypeOK, Live
    <2>2. QED
      BY <1>6, <2>1 DEF Despawn, TypeOK, OneTask, markVars, dbVars, boundVars, ghosts
  <1>7. ASSUME NEW e \in Entities, LoadLinks(e) PROVE Types'
    <2>1. target' \in [Entities -> Entities \cup {NoTarget}] /\ relinked' \subseteq Entities
      <3>1. \/ target' = target /\ relinked' = relinked
            \/ \E f \in Entities : target' = [target EXCEPT ![e] = f]
                                  /\ relinked' = relinked \cup {e}
        BY <1>7 DEF LoadLinks, From
      <3>2. QED
        BY <3>1 DEF TypeOK
    <2>2. QED
      BY <1>7, <2>1 DEF LoadLinks, TypeOK, OneTask, markVars, dbVars, boundVars, ghosts
  <1>8. CASE TrackChanges
    BY <1>8 DEF TrackChanges, LinksTracked, TypeOK, OneTask, worldVars, dbVars, boundVars, ghosts
  <1>9. CASE NoCommit \/ NothingFinished
    BY <1>9 DEF NoCommit, NothingFinished, TypeOK, OneTask, worldVars, trackerVars, markVars,
                dbVars, boundVars, ghosts
  <1>10. CASE StartCommit
    <2>1. tasks' \subseteq CommitTask /\ OneTask'
      BY <1>10, Plan DEF OneTask
    <2>2. forgotten' \subseteq Entities
      BY <1>10 DEF StartCommit, TypeOK, Live
    <2>3. QED
      BY <1>10, <2>1, <2>2 DEF StartCommit, TypeOK, worldVars, trackerVars, dbVars,
                               boundVars, ghosts
  <1>11. ASSUME NEW t \in tasks, CommitSucceeded(t) PROVE Types'
    <2>1. t.pre \subseteq Entities /\ t.next \subseteq Edge
      BY DEF TypeOK, CommitTask
    <2>2. QED
      BY <1>11, <2>1 DEF CommitSucceeded, SnapshotAfter, TypeOK, OneTask, worldVars,
                         trackerVars, markVars, dbVars, boundVars, ghosts
  <1>12. ASSUME NEW t \in tasks, CommitFailed(t) PROVE Types'
    <2>1. t.marks \subseteq Entities /\ t.gone \subseteq Entities /\ t.links \subseteq Entities
      BY DEF TypeOK, CommitTask
    <2>2. QED
      BY <1>12, <2>1 DEF CommitFailed, DirtyAfterFailure, TypeOK, OneTask, worldVars,
                         trackerVars, dbVars, boundVars, ghosts
  <1>13. ASSUME NEW t \in tasks, TransactionCommits(t) PROVE Types'
    <2>1. tasks' \subseteq CommitTask /\ OneTask'
      BY <1>13, Finished DEF TransactionCommits, OneTask
    <2>2. t.creates \subseteq Entities /\ t.pre \subseteq Entities /\ t.upserts \subseteq Edge
      BY DEF TypeOK, CommitTask
    <2>3. QED
      BY <1>13, <2>1, <2>2 DEF TransactionCommits, Finish, TypeOK, worldVars, trackerVars,
                               markVars
  <1>14. ASSUME NEW t \in tasks, TransactionConflicts(t) \/ ConnectionLost(t) PROVE Types'
    <2>1. tasks' \subseteq CommitTask /\ OneTask'
      BY <1>14, Finished DEF TransactionConflicts, ConnectionLost, OneTask
    <2>2. QED
      BY <1>14, <2>1 DEF TransactionConflicts, ConnectionLost, Finish, TypeOK,
                         worldVars, trackerVars, markVars,
                         dbVars
  <1>15. CASE UNCHANGED vars
    BY <1>15 DEF vars, TypeOK, OneTask, worldVars, trackerVars, markVars, dbVars,
                 boundVars, ghosts
  <1>16. QED
    BY StepCases, <1>1, <1>2, <1>4, <1>5, <1>6, <1>7, <1>8, <1>9, <1>10, <1>11, <1>12,
       <1>13, <1>14, <1>15, <1>3

\* Every variable keeps its type, whatever the application does.
THEOREM TypeCorrect == Spec => []TypeOK
  <1>1. Spec => []Types
    BY TypesInit, TypesStep, PTL DEF Spec
  <1>2. Types => TypeOK
    BY DEF Types
  <1>3. QED
    BY <1>1, <1>2, PTL

-----------------------------------------------------------------------------
(* The edges and their snapshot.                                           *)

LEMMA InitConsistent ==
    ASSUME OwnEdges, Init
    PROVE  IInv
  <1>1. edges = {} /\ tasks = {} /\ snapshot = {} /\ documents = keyed /\ phantoms = {}
    BY DEF Init, OwnEdges, Does
  <1>2. Live = keyed /\ Types
    BY TypesInit DEF Init, Live
  <1>3. Targets /\ Born
    BY <1>1, <1>2 DEF Init, Targets, Born
  <1>4. Kept /\ Diffed /\ Single /\ EndsCarried
    BY <1>1, <1>2 DEF Kept, Diffed, Single, OneTarget, EndsCarried
  <1>5. SnapshotIsStored /\ EdgeEndsStored
    BY <1>1 DEF SnapshotIsStored, EdgeEndsStored
  <1>6. QED
    BY <1>2, <1>3, <1>4, <1>5 DEF IInv, Consistent

\* Steps of the world and of the tracker, which change no key, snapshot, task or document.
LEMMA WorldStep ==
    ASSUME IInv, UNCHANGED <<keyed, documents, phantoms, edges, snapshot, tasks>>,
           Gone \subseteq Gone', (Live \cup Gone) \cap Live' \subseteq Live,
           Targets', Born'
    PROVE  Consistent'
  <1> USE DEF IInv, Types, Consistent
  <1>1. Kept'
    BY DEF Kept, Born
  <1>2. Diffed' /\ Single' /\ SnapshotIsStored'
    BY DEF Diffed, Single, SnapshotIsStored
  <1>3. EndsCarried'
    BY DEF EndsCarried
  <1>4. EdgeEndsStored'
    BY DEF EdgeEndsStored, Gone
  <1>5. QED
    BY <1>1, <1>2, <1>3, <1>4

LEMMA ApplicationStep ==
    ASSUME IInv, NEW e \in Entities,
           \/ Spawn(e) \/ Persist(e) \/ RemoveComponent(e) \/ Unlink(e) \/ LoadLinks(e)
           \/ \E f \in Entities : Link(e, f)
    PROVE  Consistent'
  <1> USE EdgesAssumption DEF IInv, Types, Consistent
  <1>1. CASE Spawn(e)
    <2>1. /\ UNCHANGED <<target, keyed, fresh, removed, dirty, despawned, snapshot, documents,
                         phantoms, edges, tasks>>
          /\ life[e] = "unborn" /\ life' = [life EXCEPT ![e] = "live"]
      BY <1>1 DEF Spawn, markVars, dbVars, ghosts
    <2>2. Live' = Live \cup {e} /\ Gone' = Gone /\ e \notin Live \cup Gone
      BY <2>1 DEF Live, Gone, TypeOK
    <2>3. Targets' /\ Born'
      BY <2>1, <2>2 DEF Targets, Born
    <2>4. QED
      BY <2>1, <2>2, <2>3, WorldStep
  <1>2. CASE Persist(e) \/ RemoveComponent(e)
    <2>1. /\ UNCHANGED <<life, target, keyed, removed, dirty, despawned, snapshot, documents,
                         phantoms, edges, tasks>>
          /\ fresh' \subseteq fresh \cup Live
      BY <1>2 DEF Persist, RemoveComponent, worldVars, markVars, dbVars, ghosts
    <2>2. Live' = Live /\ Gone' = Gone
      BY <2>1 DEF Live, Gone
    <2>3. Targets' /\ Born'
      BY <2>1, <2>2 DEF Targets, Born
    <2>4. QED
      BY <2>1, <2>2, <2>3, WorldStep
  <1>3. CASE Unlink(e) \/ LoadLinks(e) \/ \E f \in Entities : Link(e, f)
    <2>1. /\ UNCHANGED <<life, keyed, fresh, removed, dirty, despawned, snapshot, documents,
                         phantoms, edges, tasks>>
          /\ e \in Live
      BY <1>3 DEF Unlink, LoadLinks, Link, markVars, dbVars, ghosts
    <2>2. target' = target \/ \E f \in Live \cup {NoTarget} : target' = [target EXCEPT ![e] = f]
      <3>1. CASE Unlink(e) \/ \E f \in Entities : Link(e, f)
        BY <3>1 DEF Unlink, Link
      <3>2. CASE LoadLinks(e)
        BY <3>2 DEF LoadLinks
      <3>3. QED
        BY <1>3, <3>1, <3>2
    <2>3. Live' = Live /\ Gone' = Gone
      BY <2>1 DEF Live, Gone
    <2>4. Targets'
      BY <2>1, <2>2, <2>3 DEF Targets, TypeOK
    <2>5. Born'
      BY <2>1, <2>3 DEF Born
    <2>6. QED
      BY <2>1, <2>3, <2>4, <2>5, WorldStep
  <1>4. QED
    BY <1>1, <1>2, <1>3

LEMMA DespawnStep ==
    ASSUME IInv, NEW e \in Entities, Despawn(e)
    PROVE  Consistent'
  <1> USE EdgesAssumption DEF IInv, Types, Consistent
  <1>1. /\ UNCHANGED <<keyed, dirty, despawned, snapshot, documents, phantoms, edges,
                   tasks>>
        /\ e \in Live /\ life' = [life EXCEPT ![e] = "gone"]
        /\ fresh' = fresh \ {e} /\ removed' \subseteq removed \cup {e}
    BY DEF Despawn, markVars, dbVars, ghosts
  <1>2. Live' = Live \ {e} /\ Gone' = Gone \cup {e}
    BY <1>1 DEF Live, Gone, TypeOK
  <1>3. \A f \in Entities : target'[f] # NoTarget =>
           f # e /\ target'[f] = target[f] /\ target[f] # e
    BY DEF Despawn, Targets, TypeOK
  <1>4. Targets'
    BY <1>2, <1>3 DEF Targets
  <1>5. Born'
    BY <1>1, <1>2 DEF Born
  <1>6. QED
    BY <1>1, <1>2, <1>4, <1>5, WorldStep

LEMMA FrameStep ==
    ASSUME IInv, TrackChanges \/ NoCommit \/ NothingFinished \/ UNCHANGED vars
    PROVE  Consistent'
  <1> USE DEF IInv, Types, Consistent
  <1>1. /\ UNCHANGED <<life, target, keyed, snapshot, documents, phantoms, edges,
                   tasks>>
        /\ fresh' \subseteq fresh /\ dirty' \subseteq dirty \cup fresh
        /\ removed' \cup despawned' \subseteq removed \cup despawned
    BY DEF TrackChanges, NoCommit, NothingFinished, vars, worldVars, trackerVars,
           markVars, dbVars, ghosts
  <1>2. Live' = Live /\ Gone' = Gone
    BY <1>1 DEF Live, Gone
  <1>3. Targets' /\ Born'
    BY <1>1, <1>2 DEF Targets, Born
  <1>4. QED
    BY <1>1, <1>2, <1>3, WorldStep

LEMMA StartCommitStep ==
    ASSUME OwnEdges, IInv, StartCommit
    PROVE  Consistent'
  <1> USE EdgesAssumption DEF IInv, Types, Consistent
  <1>1. /\ UNCHANGED <<life, target, keyed, fresh, removed, snapshot, documents, phantoms, edges>>
        /\ tasks = {} /\ dirty' = {} /\ despawned' = {}
        /\ NextSnapshot = {} => snapshot = {}
    BY DEF StartCommit, OwnEdges, Does, worldVars, trackerVars, dbVars
  <1>2. PICK t \in CommitTask :
              /\ tasks' = {t}
              /\ t.marks = dirty /\ t.links = linkDirty /\ t.gone = despawned
              /\ t.pre = Preassigned /\ t.creates \subseteq Preassigned
              /\ t.upserts = Upserts /\ t.deletes = Deletes /\ t.next = NextSnapshot
              /\ t.result = "none"
    BY Plan
  <1>3. Live' = Live /\ Gone' = Gone
    BY <1>1 DEF Live, Gone
  <1>4. snapshot = edges /\ documents \cup phantoms \subseteq keyed
    BY <1>1 DEF SnapshotIsStored, Kept
  <1>5. Targets' /\ Born'
    BY <1>1, <1>2, <1>3 DEF Targets, Born, Preassigned
  <1>6. Kept'
    BY <1>1, <1>2, <1>3, <1>4 DEF Kept
  <1>7. Diffed'
    BY <1>1, <1>2 DEF Diffed, Upserts, Deletes
  <1>8. Single'
    <2>1. OneTarget(NextSnapshot)
      BY NextEdges DEF Single, OneTarget
    <2>2. QED
      BY <1>1, <1>2, <2>1 DEF Single
  <1>9. EndsCarried'
    <2> SUFFICES ASSUME NEW ed \in NextSnapshot
                 PROVE  /\ ed[1] \in (documents \cup phantoms \cup t.pre) \ t.gone
                        /\ ed[2] \in documents \cup phantoms \cup t.pre \cup Gone
      BY <1>1, <1>2, <1>3 DEF EndsCarried
    <2>1. PICK e \in Entities, f \in Entities : ed = <<e, f>>
      BY DEF NextSnapshot, Retained, Current, WithKey, Preassigned, TypeOK, Edge
    <2>2. CASE e \in Scanned \cap WithKey
      <3>1. e \in Live /\ f \in Live /\ e \in WithKey /\ f \in WithKey
        BY <2>1, <2>2, NextEdges DEF Targets
      <3>2. Live \cap WithKey \subseteq documents \cup phantoms \cup t.pre
        BY <1>2 DEF WithKey, Kept
      <3>3. e \notin t.gone
        BY <1>2, <3>1 DEF Born, Live, Gone
      <3>4. QED
        BY <2>1, <3>1, <3>2, <3>3
    <2>3. CASE e \notin Scanned \cap WithKey
      <3>1. <<e, f>> \in edges
        BY <1>4, <2>1, <2>3, NextEdges
      <3>2. e \in documents \cup phantoms /\ f \in documents \cup phantoms \cup Gone
        BY <3>1 DEF EdgeEndsStored, Gone
      <3>3. e \notin t.gone
        BY <1>2, <1>4, <2>3, <3>2 DEF Scanned, WithKey
      <3>4. QED
        BY <2>1, <3>2, <3>3
    <2>4. QED
      BY <2>2, <2>3
  <1>10. SnapshotIsStored' /\ EdgeEndsStored'
    BY <1>1, <1>2, <1>4 DEF SnapshotIsStored, EdgeEndsStored
  <1>11. QED
    BY <1>5, <1>6, <1>7, <1>8, <1>9, <1>10

LEMMA TransactionStep ==
    ASSUME IInv, NEW t \in tasks,
           TransactionCommits(t) \/ TransactionConflicts(t) \/ ConnectionLost(t)
    PROVE  Consistent'
  <1> USE DEF IInv, Types, Consistent
  <1>1. PICK r \in {"ok", "err"} :
           /\ Finish(t, r)
           /\ r = "ok" => /\ documents' = (documents \cup t.creates) \ t.gone
                          /\ phantoms' = phantoms \cup (t.pre \ t.creates)
                          /\ edges' = (edges \cup t.upserts) \ t.deletes
           /\ r = "err" => UNCHANGED <<documents, phantoms, edges>>
    BY DEF TransactionCommits, TransactionConflicts, ConnectionLost, dbVars
  <1>2. /\ UNCHANGED <<life, target, keyed, fresh, removed, dirty, despawned, snapshot>>
        /\ tasks = {t} /\ t.result = "none"
    BY <1>1, Finished
  <1>3. PICK u \in CommitTask :
           /\ tasks' = {u} /\ u.result = r
           /\ u.marks = t.marks /\ u.links = t.links /\ u.gone = t.gone
           /\ u.pre = t.pre /\ u.creates = t.creates /\ u.upserts = t.upserts
           /\ u.deletes = t.deletes /\ u.next = t.next
    BY <1>1, Finished
  <1>4. Live' = Live /\ Gone' = Gone /\ snapshot = edges
    BY <1>2 DEF Live, Gone, SnapshotIsStored
  <1>5. r = "ok" => edges' = t.next
    BY <1>1, <1>4 DEF Diffed
  <1>6. Targets' /\ Born'
    BY <1>2, <1>3, <1>4 DEF Targets, Born
  <1>7. Kept'
    <2>1. t.gone \cap Live = {} /\ t.gone \subseteq Entities
      BY DEF Born, Live, Gone
    <2>2. documents \cup phantoms \subseteq keyed /\ t.creates \subseteq t.pre
      BY <1>2 DEF Kept
    <2>3. keyed' \cap Live' \subseteq documents' \cup phantoms'
      BY <1>1, <1>2, <1>4, <2>1 DEF Kept
    <2>4. documents' \cup phantoms' \subseteq keyed' \cup UNION {v.pre : v \in {w \in tasks' : w.result = "ok"}}
      <3>1. CASE r = "ok"
        <4>1. documents' \cup phantoms' \subseteq keyed \cup t.pre
          BY <1>1, <2>2, <3>1
        <4>2. u \in {w \in tasks' : w.result = "ok"}
          BY <1>3, <3>1
        <4>3. QED
          BY <1>2, <1>3, <4>1, <4>2
      <3>2. CASE r = "err"
        BY <1>1, <1>2, <2>2, <3>2
      <3>3. QED
        BY <3>1, <3>2
    <2>5. /\ u.creates \subseteq u.pre
          /\ u.result = "ok" => u.pre \cap Live' \subseteq documents' \cup phantoms'
      BY <1>1, <1>3, <1>4, <2>1 DEF Kept
    <2>6. QED
      BY <1>3, <2>3, <2>4, <2>5 DEF Kept
  <1>8. Diffed' /\ Single'
    BY <1>2, <1>3, <1>5 DEF Diffed, Single
  <1>9. EndsCarried'
    BY <1>3 DEF EndsCarried
  <1>10. SnapshotIsStored'
    BY <1>1, <1>2, <1>3, <1>4 DEF SnapshotIsStored
  <1>11. EdgeEndsStored'
    <2>1. CASE r = "err"
      BY <1>1, <1>2, <2>1 DEF EdgeEndsStored
    <2>2. CASE r = "ok"
      <3>1. \A ed \in t.next : /\ ed[1] \in (documents \cup phantoms \cup t.pre) \ t.gone
                               /\ ed[2] \in documents \cup phantoms \cup t.pre \cup Gone
        BY <1>2 DEF EndsCarried
      <3>2. t.gone \subseteq Gone
        BY DEF Born
      <3>3. QED
        BY <1>1, <1>2, <1>5, <2>2, <3>1, <3>2 DEF EdgeEndsStored, Gone
    <2>3. QED
      BY <2>1, <2>2
  <1>12. QED
    BY <1>6, <1>7, <1>8, <1>9, <1>10, <1>11

LEMMA CompletionStep ==
    ASSUME IInv, NEW t \in tasks, CommitSucceeded(t) \/ CommitFailed(t)
    PROVE  Consistent'
  <1> USE DEF IInv, Types, Consistent
  <1>1. /\ UNCHANGED <<life, target, fresh, removed, documents, phantoms, edges>>
        /\ tasks = {t} /\ tasks' = {}
    BY DEF CommitSucceeded, CommitFailed, worldVars, trackerVars, dbVars, ghosts, OneTask
  <1>2. Live' = Live /\ Gone' = Gone
    BY <1>1 DEF Live, Gone
  <1>3. CASE CommitSucceeded(t)
    <2>1. /\ t.result = "ok" /\ keyed' = keyed \cup t.pre /\ dirty' = dirty
          /\ despawned' = despawned /\ snapshot' = SnapshotAfter(t)
      BY <1>3 DEF CommitSucceeded, markVars
    <2>2. snapshot' = t.next /\ edges = t.next
      BY <2>1 DEF SnapshotAfter, Diffed
    <2>3. Targets' /\ Born'
      BY <1>1, <1>2, <2>1 DEF Targets, Born
    <2>4. Kept'
      BY <1>1, <1>2, <2>1 DEF Kept
    <2>5. Diffed' /\ Single' /\ EndsCarried'
      BY <1>1, <2>2 DEF Diffed, Single, EndsCarried
    <2>6. SnapshotIsStored' /\ EdgeEndsStored'
      BY <1>1, <2>2 DEF SnapshotIsStored, EdgeEndsStored
    <2>7. QED
      BY <2>3, <2>4, <2>5, <2>6
  <1>4. CASE CommitFailed(t)
    <2>1. /\ t.result = "err" /\ keyed' = keyed /\ dirty' = dirty \cup t.marks
          /\ despawned' = despawned \cup t.gone /\ snapshot' = snapshot
      BY <1>4 DEF CommitFailed, DirtyAfterFailure
    <2>2. Targets' /\ Born'
      BY <1>1, <1>2, <2>1 DEF Targets, Born
    <2>3. Kept'
      BY <1>1, <1>2, <2>1 DEF Kept
    <2>4. Diffed' /\ Single' /\ EndsCarried'
      BY <1>1, <2>1 DEF Diffed, Single, EndsCarried
    <2>5. SnapshotIsStored' /\ EdgeEndsStored'
      BY <1>1, <2>1 DEF SnapshotIsStored, EdgeEndsStored
    <2>6. QED
      BY <2>2, <2>3, <2>4, <2>5
  <1>5. QED
    BY <1>3, <1>4

LEMMA InvariantStep ==
    ASSUME OwnEdges, IInv, [Next]_vars
    PROVE  IInv'
  <1>1. Types'
    BY TypesStep DEF IInv
  <1>2. Consistent'
    BY StepCases, ApplicationStep, DespawnStep, FrameStep, StartCommitStep, TransactionStep,
       CompletionStep
  <1>3. QED
    BY <1>1, <1>2 DEF IInv

LEMMA Invariant == ASSUME OwnEdges PROVE Spec => []IInv
  <1>1. IInv /\ [Next]_vars => IInv'
    BY InvariantStep
  <1>2. Init => IInv
    BY InitConsistent
  <1>3. QED
    BY <1>1, <1>2, PTL DEF Spec

\* "Last-committed edge snapshot": what the next diff is made against is what the database
\* holds, where the session has written all edges and never removes its last one.
THEOREM SnapshotStored == ASSUME OwnEdges PROVE Spec => []SnapshotIsStored
  <1>1. IInv => SnapshotIsStored
    BY DEF IInv, Consistent
  <1>2. QED
    BY <1>1, Invariant, PTL

\* A source never has two edges in the database, also after marks were dropped.
THEOREM OneEdge == ASSUME OwnEdges PROVE Spec => []OneEdgePerSource
  <1>1. ASSUME IInv PROVE OneEdgePerSource
    <2> SUFFICES ASSUME NEW e \in Entities PROVE Cardinality(From(e, edges)) <= 1
      BY DEF OneEdgePerSource
    <2>1. OneTarget(edges)
      BY <1>1 DEF IInv, Consistent, SnapshotIsStored, Single, Diffed
    <2>2. \A f, g \in From(e, edges) : f = g
      BY <2>1 DEF OneTarget, From
    <2>3. CASE From(e, edges) = {}
      BY <2>3, FS_EmptySet
    <2>4. ASSUME NEW f \in From(e, edges) PROVE Cardinality(From(e, edges)) <= 1
      <3>1. From(e, edges) = {f}
        BY <2>2, <2>4
      <3>2. Cardinality({f}) = 1
        BY FS_Singleton
      <3>3. QED
        BY <3>1, <3>2
    <2>5. QED
      BY <2>3, <2>4
  <1>2. QED
    BY <1>1, Invariant, PTL

\* No edge is written before the documents of both its ends, nor stays after that of its
\* source, except at an end that got its key as an entity without its component.
THEOREM EndsStored == ASSUME OwnEdges PROVE Spec => []EdgeEndsStored
  <1>1. IInv => EdgeEndsStored
    BY DEF IInv, Consistent
  <1>2. QED
    BY <1>1, Invariant, PTL

-----------------------------------------------------------------------------
(* The edges and the world, where nothing is loaded during a commit.       *)

\* Steps that touch no edge, snapshot or task, and mark the entities they give another
\* target.
LEMMA MarkStep ==
    ASSUME Followed, UNCHANGED <<edges, snapshot, tasks>>,
           hydrating' => tasks = {} /\ phase' = "Update",
           \A e \in Entities : Unmarked(e)' => Unmarked(e) /\ target'[e] = target[e]
    PROVE  Followed'
  <1>1. ASSUME NEW t \in tasks, NEW e \in Entities
        PROVE  IF e \in t.links \cup t.gone THEN Unmarked(e)' => Agrees(e, t.next)'
                                          ELSE SameEdges(e, t.next, snapshot)'
    BY DEF Followed, Agrees, SameEdges
  <1>2. ASSUME NEW e \in Entities, Settled(e)' PROVE Agrees(e, edges)'
    <2>1. Settled(e) /\ target'[e] = target[e]
      BY <1>2 DEF Settled, Unmarked
    <2>2. QED
      BY <2>1 DEF Followed, Agrees
  <1>3. QED
    BY <1>1, <1>2 DEF Followed

LEMMA WorldFollows ==
    ASSUME Types, Followed, Environment = {},
           \E e \in Entities :
               \/ Spawn(e) \/ Persist(e) \/ RemoveComponent(e)
               \/ Unlink(e) \/ Despawn(e) \/ LoadLinks(e)
               \/ \E f \in Entities : Link(e, f)
    PROVE  Followed'
  <1> USE DEF Types, Unmarked
  <1> PICK e \in Entities :
               \/ Spawn(e) \/ Persist(e) \/ RemoveComponent(e)
               \/ Unlink(e) \/ Despawn(e) \/ LoadLinks(e)
               \/ \E f \in Entities : Link(e, f)
    OBVIOUS
  <1>1. /\ UNCHANGED <<edges, snapshot, tasks, linkDirty, despawned, forgotten, phase>>
        /\ removed \subseteq removed' /\ relinked \subseteq relinked'
    BY DEF Spawn, Persist, RemoveComponent, Unlink, Despawn, LoadLinks, Link, worldVars,
           trackerVars, markVars, dbVars, ghosts
  <1>2. hydrating' => tasks = {} /\ phase' = "Update"
    BY DEF Spawn, Persist, RemoveComponent, Unlink, Despawn, LoadLinks, Link, worldVars,
           trackerVars, Does, Followed
  <1>3. ASSUME NEW f \in Entities PROVE f \in relinked' \/ target'[f] = target[f]
    <2>1. CASE Spawn(e) \/ Persist(e) \/ RemoveComponent(e)
      BY <2>1 DEF Spawn, Persist, RemoveComponent, worldVars
    <2>2. CASE Unlink(e) \/ LoadLinks(e) \/ \E g \in Entities : Link(e, g)
      BY <2>2 DEF Unlink, LoadLinks, Link, TypeOK
    <2>3. CASE Despawn(e)
      BY <2>3 DEF Despawn
    <2>4. QED
      BY <2>1, <2>2, <2>3
  <1>4. \A f \in Entities : Unmarked(f)' => Unmarked(f) /\ target'[f] = target[f]
    BY <1>1, <1>3
  <1>5. QED
    BY <1>1, <1>2, <1>4, MarkStep

LEMMA FrameFollows ==
    ASSUME Types, Followed, TrackChanges \/ NoCommit \/ NothingFinished \/ UNCHANGED vars
    PROVE  Followed'
  <1> USE DEF Types
  <1>1. CASE NoCommit \/ NothingFinished \/ UNCHANGED vars
    <2>1. UNCHANGED <<edges, snapshot, tasks, target, hydrating, relinked, removed, linkDirty,
                      despawned, forgotten>>
      BY <1>1 DEF NoCommit, NothingFinished, vars, worldVars, trackerVars, markVars, dbVars,
                  ghosts
    <2>2. hydrating' => tasks = {} /\ phase' = "Update"
      BY <1>1, <2>1 DEF NoCommit, NothingFinished, vars, Followed
    <2>3. \A e \in Entities : Unmarked(e)' => Unmarked(e) /\ target'[e] = target[e]
      BY <2>1 DEF Unmarked
    <2>4. QED
      BY <2>1, <2>2, <2>3, MarkStep
  <1>2. CASE TrackChanges /\ ~hydrating
    <2>1. /\ UNCHANGED <<edges, snapshot, tasks, target>> /\ ~hydrating'
          /\ linkDirty' = linkDirty \cup relinked /\ despawned' = despawned \cup removed
          /\ forgotten \subseteq forgotten'
      BY <1>2 DEF TrackChanges, LinksTracked, worldVars, dbVars
    <2>2. \A e \in Entities : Unmarked(e)' => Unmarked(e) /\ target'[e] = target[e]
      BY <2>1 DEF Unmarked
    <2>3. QED
      BY <2>1, <2>2, MarkStep
  <1>3. CASE TrackChanges /\ hydrating
    <2>1. /\ UNCHANGED <<edges, snapshot, target>> /\ ~hydrating'
          /\ tasks = {} /\ tasks' = {}
          /\ linkDirty' = linkDirty /\ despawned' = despawned \cup removed
          /\ forgotten' = forgotten \cup {e \in relinked \ linkDirty : Diverges(e)}
      BY <1>3 DEF TrackChanges, LinksTracked, worldVars, dbVars, Followed
    <2>2. ASSUME NEW e \in Entities, Settled(e)' PROVE Agrees(e, edges)
      <3>1. e \notin removed \cup linkDirty \cup despawned \cup forgotten
        BY <2>1, <2>2 DEF Settled
      <3>2. CASE e \in relinked
        <4>1. ~Diverges(e)
          BY <2>1, <2>2, <3>1, <3>2 DEF Settled
        <4>2. QED
          BY <4>1, EdgesAssumption DEF Diverges, From, Agrees
      <3>3. CASE e \notin relinked
        BY <2>1, <3>1, <3>3 DEF Settled, Followed
      <3>4. QED
        BY <3>2, <3>3
    <2>3. QED
      BY <2>1, <2>2 DEF Followed, Agrees
  <1>4. QED
    BY <1>1, <1>2, <1>3

LEMMA StartCommitFollows ==
    ASSUME IInv, Followed, StartCommit
    PROVE  Followed'
  <1> USE EdgesAssumption DEF IInv, Types, Consistent
  <1>1. /\ UNCHANGED <<life, target, keyed, relinked, removed, hydrating, snapshot, edges>>
        /\ tasks = {} /\ ~hydrating /\ linkDirty' = {} /\ despawned' = {}
        /\ forgotten' = (forgotten \ Scanned) \cup
               {e \in Scanned \cap Live : target[e] # NoTarget /\ <<e, target[e]>> \notin Current}
    BY DEF StartCommit, Followed, worldVars, trackerVars, dbVars
  <1>2. PICK t \in CommitTask :
           /\ tasks' = {t} /\ t.links = linkDirty /\ t.gone = despawned
           /\ t.next = NextSnapshot
    BY Plan
  <1>3. ASSUME NEW e \in Entities, e \in Scanned, Unmarked(e)' PROVE Agrees(e, NextSnapshot)
    <2> SUFFICES ASSUME NEW f \in Entities
                 PROVE  <<e, f>> \in NextSnapshot <=> target[e] = f
      BY DEF Agrees
    <2>1. target[e] # NoTarget => <<e, target[e]>> \in Current
      BY <1>1, <1>3 DEF Unmarked, Targets
    <2>2. CASE e \in WithKey
      BY <1>3, <2>1, <2>2, NextEdges DEF Current, Targets
    <2>3. CASE e \notin WithKey
      <3>1. target[e] = NoTarget
        BY <2>1, <2>3 DEF Current
      <3>2. <<e, f>> \notin snapshot
        BY <1>1, <2>3 DEF SnapshotIsStored, EdgeEndsStored, Kept, WithKey
      <3>3. QED
        BY <2>3, <3>1, <3>2, NextEdges
    <2>4. QED
      BY <2>2, <2>3
  <1>4. ASSUME NEW e \in Entities, e \notin Scanned PROVE SameEdges(e, NextSnapshot, snapshot)
    BY <1>4, NextEdges DEF SameEdges
  <1>5. ASSUME NEW e \in Entities, Settled(e)' PROVE Agrees(e, edges)
    <2>1. e \notin Scanned
      BY <1>2, <1>5 DEF Settled, Scanned
    <2>2. Settled(e)
      BY <1>1, <1>5, <2>1 DEF Settled, Scanned
    <2>3. QED
      BY <2>2 DEF Followed
  <1>6. ASSUME NEW e \in Entities
        PROVE  IF e \in t.links \cup t.gone THEN Unmarked(e)' => Agrees(e, t.next)'
                                          ELSE SameEdges(e, t.next, snapshot)'
    BY <1>1, <1>2, <1>3, <1>4 DEF Scanned, Agrees, SameEdges
  <1>7. QED
    BY <1>1, <1>2, <1>5, <1>6 DEF Followed, Agrees

LEMMA TransactionFollows ==
    ASSUME IInv, Followed, NEW t \in tasks,
           TransactionCommits(t) \/ TransactionConflicts(t) \/ ConnectionLost(t)
    PROVE  Followed'
  <1> USE DEF IInv, Types, Consistent
  <1>1. PICK r \in {"ok", "err"} :
           /\ Finish(t, r)
           /\ r = "ok" => edges' = (edges \cup t.upserts) \ t.deletes
           /\ r = "err" => edges' = edges
    BY DEF TransactionCommits, TransactionConflicts, ConnectionLost, dbVars
  <1>2. /\ UNCHANGED <<target, relinked, removed, hydrating, linkDirty, despawned, snapshot,
                       forgotten, phase>>
        /\ tasks = {t} /\ t.result = "none" /\ snapshot = edges
    BY <1>1, Finished DEF SnapshotIsStored
  <1>3. PICK u \in CommitTask :
           /\ tasks' = {u} /\ u.links = t.links /\ u.gone = t.gone /\ u.next = t.next
    BY <1>1, Finished
  <1>4. edges' = edges \/ edges' = t.next
    BY <1>1, <1>2 DEF Diffed
  <1>5. ASSUME NEW e \in Entities, Settled(e)' PROVE Agrees(e, edges')
    <2>1. Settled(e) /\ e \notin t.links \cup t.gone
      BY <1>2, <1>3, <1>5 DEF Settled
    <2>2. Agrees(e, edges) /\ SameEdges(e, t.next, edges)
      BY <1>2, <2>1 DEF Followed
    <2>3. QED
      BY <1>4, <2>2 DEF Agrees, SameEdges
  <1>6. ASSUME NEW e \in Entities
        PROVE  IF e \in u.links \cup u.gone THEN Unmarked(e)' => Agrees(e, u.next)'
                                          ELSE SameEdges(e, u.next, snapshot)'
    BY <1>2, <1>3 DEF Followed, Unmarked, Agrees, SameEdges
  <1>7. ~hydrating'
    BY <1>2 DEF Followed
  <1>8. QED
    BY <1>2, <1>3, <1>5, <1>6, <1>7 DEF Followed, Agrees

LEMMA CompletionFollows ==
    ASSUME IInv, Followed, NEW t \in tasks, CommitSucceeded(t) \/ CommitFailed(t)
    PROVE  Followed'
  <1> USE DEF IInv, Types, Consistent
  <1>1. /\ UNCHANGED <<target, relinked, removed, hydrating, linkDirty, edges>>
        /\ tasks = {t} /\ tasks' = {}
    BY DEF CommitSucceeded, CommitFailed, worldVars, trackerVars, markVars, dbVars, OneTask
  <1>2. ~hydrating'
    BY <1>1 DEF Followed
  <1>3. ASSUME NEW e \in Entities, Settled(e)' PROVE Agrees(e, edges)
    <2>1. CASE CommitSucceeded(t)
      <3>1. despawned' = despawned /\ forgotten' = forgotten /\ edges = t.next
        BY <2>1 DEF CommitSucceeded, markVars, ghosts, Diffed
      <3>2. Unmarked(e)
        BY <1>1, <1>3, <3>1 DEF Settled, Unmarked
      <3>3. CASE e \in t.links \cup t.gone
        BY <3>1, <3>2, <3>3 DEF Followed
      <3>4. CASE e \notin t.links \cup t.gone
        BY <1>1, <3>2, <3>4 DEF Followed, Settled, Unmarked
      <3>5. QED
        BY <3>3, <3>4
    <2>2. CASE CommitFailed(t)
      <3>1. /\ despawned' = despawned \cup t.gone
            /\ forgotten' = forgotten \cup (t.links \ (linkDirty \cup relinked))
        BY <2>2 DEF CommitFailed
      <3>2. Settled(e)
        BY <1>1, <1>3, <3>1 DEF Settled
      <3>3. QED
        BY <3>2 DEF Followed
    <2>3. QED
      BY <2>1, <2>2
  <1>4. QED
    BY <1>1, <1>2, <1>3 DEF Followed, Agrees

\* The edges in the database are the relationships of the world, for every source that is
\* not about to be tracked, marked or carried by the commit in flight.
THEOREM EdgesFollow ==
    ASSUME Environment = {} PROVE Spec => []EdgesFollowRelationships
  <1> USE DEF IInv
  <1>1. Init => Followed
    <2> SUFFICES ASSUME Init PROVE Followed
      OBVIOUS
    <2>1. /\ edges = {} /\ tasks = {} /\ ~hydrating
          /\ \A e \in Entities : target[e] = NoTarget
      BY DEF Init, Does
    <2>2. QED
      BY <2>1, EdgesAssumption DEF Followed, Agrees
  <1>2. IInv /\ Followed /\ [Next]_vars => Followed'
    BY StepCases, WorldFollows, FrameFollows, StartCommitFollows, TransactionFollows,
       CompletionFollows
  <1>3. ASSUME IInv, Followed PROVE EdgesFollowRelationships
    <2> SUFFICES ASSUME NEW e \in Entities, Settled(e) PROVE ~Diverges(e)
      BY DEF EdgesFollowRelationships
    <2>1. Agrees(e, edges) /\ target[e] \in Entities \cup {NoTarget}
      BY <1>3 DEF Followed, Types, TypeOK
    <2>2. QED
      BY <2>1, EdgesAssumption DEF Agrees, Diverges, From
  <1>4. OwnEdges
    BY DEF OwnEdges
  <1>5. Spec => []IInv
    BY <1>4, Invariant
  <1>6. QED
    BY <1>1, <1>2, <1>3, <1>5, PTL DEF Spec

=============================================================================
