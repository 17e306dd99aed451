--------------------- MODULE PersistentResources_proofs ---------------------
(***************************************************************************)
(* Safety of the persistent resources for every set of resources and every *)
(* bound: types under any habits; that nothing the application has made is *)
(* lost, and that conflicts come from outside, where the database may have *)
(* another writer, documents may not decode, and connections may be lost   *)
(* after a commit (with ArangoDB, which ignores an insert that meets a     *)
(* document, only where none of this happens).                             *)
(***************************************************************************)
EXTENDS PersistentResources, TLAPS

Ordinary ==
    /\ Environment \subseteq {"foreign", "ambiguous", "undecodable"}
    /\ Backend = "arango" => Environment = {}

-----------------------------------------------------------------------------
(* The inductive invariant.                                                *)

OneTask == \A t, u \in tasks : t = u

\* No commit starts with a document at its last version.
Bounded ==
    \A t \in tasks : /\ \A op \in t.ops : op.expected < MaxVersion
                     /\ \A r \in Resources : version[r] <= MaxVersion

Types == TypeOK /\ OneTask /\ Bounded

\* One operation for a resource: its deletion if it was marked as removed, else its upsert.
\* The cached versions stay what they were.
Planned ==
    \A t \in tasks :
        /\ \A op \in t.ops :
              /\ op.expected = version[op.resource]
              /\ IF op.kind = "delete"
                 THEN op.resource \in t.gone /\ op.expected # 0 /\ op.value = 0
                 ELSE /\ op.resource \in t.marks \ t.gone
                      /\ op.resource \in seen \cup removed
                      /\ op.value \in 1..clock
                      /\ op.kind = "create" <=> op.expected = 0
        /\ \A op, other \in t.ops : op.resource = other.resource => op = other
        /\ \A r \in t.gone : version[r] # 0 =>
              \E op \in t.ops : op.resource = r /\ op.kind = "delete"

\* What a commit has stored is no longer wanted.
Done == \A t \in tasks : t.result = "ok" => \A op \in t.ops : op.value # wanted[op.resource]

\* A resource whose removal is marked stays away; one that is marked as changed has a value
\* that was given in this session.
Marks ==
    /\ Removing \cap (Present \cup seen) = {}
    /\ \A r \in dirty \cup Tracked \cup UNION {t.marks : t \in tasks} : value[r] <= clock
    /\ phase = "PreCommit" => changed = {} /\ seen = Present

\* The versions cached of documents that nobody else has changed.
VersionsFollow ==
    \A r \in Resources \ touched :
        /\ \A t \in tasks : \A op \in t.ops : op.resource = r =>
              /\ t.result = "none" => db[r].version = op.expected
              /\ t.result = "ok" =>
                    db[r].version = IF op.kind = "delete" THEN 0 ELSE op.expected + 1
        /\ (\A t \in tasks : t.result = "ok" => \A op \in t.ops : op.resource # r) =>
              /\ version[r] # 0 => db[r].version = version[r]
              /\ version[r] = 0 /\ (r \in Present \/ wanted[r] = 0) => db[r].version = 0

Alone == Environment = {} => touched = {}

Consistent == Planned /\ Done /\ Marks /\ VersionsFollow /\ Alone /\ NothingMadeIsLost

IInv == Types /\ Consistent

-----------------------------------------------------------------------------
(* Facts about the operators.                                              *)

LEMMA StepCases ==
    ASSUME [Next]_vars
    PROVE  \/ \E r \in Resources : Insert(r)
           \/ \E r \in Resources : Remove(r)
           \/ \E r \in Resources : ChangePresent(r)
           \/ \E r \in Resources : LoadAndChange(r)
           \/ \E r \in Resources : MarkAbsent(r)
           \/ \E r \in Resources : LoadFails(r)
           \/ \E rs \in SUBSET Resources : Load(rs)
           \/ TrackChanges
           \/ NoCommit
           \/ StartCommit
           \/ NothingFinished
           \/ \E t \in tasks : CommitSucceeded(t)
           \/ \E t \in tasks : CommitFailed(t)
           \/ \E t \in tasks : TransactionCommits(t)
           \/ \E t \in tasks : TransactionConflicts(t)
           \/ \E t \in tasks : ConnectionLost(t)
           \/ \E t \in tasks : AnswerLost(t)
           \/ \E r \in Resources : ForeignWrite(r)
           \/ UNCHANGED vars
  BY DEF Next, Application, PostUpdate, Database

\* The operations of a commit.
LEMMA DeletionsAre ==
    ASSUME TypeOK, NEW op \in Deletions
    PROVE  /\ op \in Operation \/ version[op.resource] > MaxVersion
           /\ op.resource \in removed /\ op.kind = "delete" /\ op.value = 0
           /\ op.expected = version[op.resource] /\ op.expected # 0
  <1>1. PICK r \in removed : /\ version[r] # 0
                             /\ op = [kind |-> "delete", resource |-> r,
                                      expected |-> version[r], value |-> 0]
    BY DEF Deletions
  <1>2. r \in Resources /\ version[r] \in 0..(MaxVersion + 1) /\ 0 \in 0..MaxClock
    BY ResourcesAssumption DEF TypeOK
  <1>3. MaxVersion \in Nat
    BY ResourcesAssumption
  <1>4. op.resource = r /\ op.kind = "delete" /\ op.value = 0 /\ op.expected = version[r]
    BY <1>1
  <1>5. version[r] <= MaxVersion => version[r] \in 0..MaxVersion
    BY <1>2, <1>3
  <1>6. version[r] \in 0..MaxVersion => op \in Operation
    BY <1>1, <1>2 DEF Operation
  <1>7. version[r] > MaxVersion \/ version[r] <= MaxVersion
    BY <1>2, <1>3
  <1>8. QED
    BY <1>1, <1>4, <1>5, <1>6, <1>7

LEMMA UpsertsAre ==
    ASSUME TypeOK, NEW op \in Upserts
    PROVE  /\ op \in Operation \/ version[op.resource] > MaxVersion
           /\ op.resource \in Serialized /\ op.kind # "delete"
           /\ op.kind = "create" <=> op.expected = 0
           /\ op.value = value[op.resource] /\ op.value # 0
           /\ op.expected = version[op.resource]
  <1>1. PICK r \in Serialized :
           op = [kind |-> IF version[r] = 0 THEN "create" ELSE "update", resource |-> r,
                 expected |-> version[r], value |-> value[r]]
    BY DEF Upserts
  <1>2. /\ r \in Resources /\ version[r] \in 0..(MaxVersion + 1)
        /\ value[r] \in 0..MaxClock /\ value[r] # 0
    BY DEF TypeOK, Serialized, Present
  <1>3. MaxVersion \in Nat
    BY ResourcesAssumption
  <1>4. /\ op.resource = r /\ op.value = value[r] /\ op.expected = version[r]
        /\ op.kind = IF version[r] = 0 THEN "create" ELSE "update"
    BY <1>1
  <1>5. version[r] <= MaxVersion => version[r] \in 0..MaxVersion
    BY <1>2, <1>3
  <1>6. version[r] \in 0..MaxVersion => op \in Operation
    BY <1>1, <1>2 DEF Operation
  <1>7. version[r] > MaxVersion \/ version[r] <= MaxVersion
    BY <1>2, <1>3
  <1>8. QED
    BY <1>2, <1>4, <1>5, <1>6, <1>7

LEMMA OneOperation ==
    ASSUME TypeOK, NEW op \in Deletions \cup Upserts, NEW other \in Deletions \cup Upserts,
           op.resource = other.resource
    PROVE  op = other
  <1>1. CASE op \in Deletions /\ other \in Deletions
    BY <1>1 DEF Deletions
  <1>2. CASE op \in Upserts /\ other \in Upserts
    BY <1>2 DEF Upserts
  <1>3. ~(op \in Deletions /\ other \in Upserts) /\ ~(op \in Upserts /\ other \in Deletions)
    BY DeletionsAre, UpsertsAre DEF Serialized
  <1>4. QED
    BY <1>1, <1>2, <1>3

LEMMA AllOperations ==
    /\ \A r \in removed : version[r] # 0 =>
          \E op \in Deletions : op.resource = r /\ op.kind = "delete"
    /\ \A r \in Serialized : \E op \in Upserts : op.resource = r /\ op.value = value[r]
  <1>1. ASSUME NEW r \in removed, version[r] # 0
        PROVE  \E op \in Deletions : op.resource = r /\ op.kind = "delete"
    <2> DEFINE op == [kind |-> "delete", resource |-> r, expected |-> version[r], value |-> 0]
    <2>1. op \in Deletions
      BY <1>1 DEF Deletions
    <2>2. QED
      BY <2>1
  <1>2. ASSUME NEW r \in Serialized
        PROVE  \E op \in Upserts : op.resource = r /\ op.value = value[r]
    <2> DEFINE op == [kind |-> IF version[r] = 0 THEN "create" ELSE "update", resource |-> r,
                      expected |-> version[r], value |-> value[r]]
    <2>1. op \in Upserts
      BY DEF Upserts
    <2>2. QED
      BY <2>1
  <1>3. QED
    BY <1>1, <1>2

LEMMA Plan ==
    ASSUME TypeOK, StartCommit
    PROVE  \E t \in CommitTask :
              /\ tasks' = {t} /\ t.marks = dirty /\ t.gone = removed
              /\ t.ops = Deletions \cup Upserts /\ t.result = "none"
              /\ \A op \in t.ops : op.expected < MaxVersion
  <1> DEFINE t == [marks |-> dirty, gone |-> removed, ops |-> Deletions \cup Upserts,
                   result |-> "none"]
  <1>1. tasks' = {t} /\ \A r \in Resources : version[r] < MaxVersion
    BY DEF StartCommit
  <1>2. \A r \in Resources : version[r] \in Nat /\ MaxVersion \in Nat
    BY ResourcesAssumption DEF TypeOK
  <1>3. ASSUME NEW op \in Deletions \cup Upserts
        PROVE  op \in Operation /\ op.expected < MaxVersion
    <2>1. /\ op \in Operation \/ version[op.resource] > MaxVersion
          /\ op.resource \in Resources /\ op.expected = version[op.resource]
      BY DeletionsAre, UpsertsAre DEF Serialized, Present, TypeOK
    <2>2. QED
      BY <1>1, <1>2, <2>1
  <1>4. t \in CommitTask
    BY <1>3 DEF CommitTask, TypeOK
  <1>5. /\ t.marks = dirty /\ t.gone = removed /\ t.ops = Deletions \cup Upserts
        /\ t.result = "none"
    OBVIOUS
  <1> HIDE DEF t
  <1>6. QED
    BY <1>1, <1>3, <1>4, <1>5

\* The one task, when its transaction has ended.
LEMMA Finished ==
    ASSUME Types, NEW t \in tasks, NEW r \in {"ok", "err"}, Finish(t, r)
    PROVE  /\ UNCHANGED <<value, changed, seen, hydrating, dirty, removed, version, clock, phase>>
           /\ tasks = {t} /\ t.result = "none"
           /\ \E u \in CommitTask :
                 /\ tasks' = {u} /\ u.result = r
                 /\ u.marks = t.marks /\ u.gone = t.gone /\ u.ops = t.ops
  <1>1. UNCHANGED <<value, changed, seen, hydrating, dirty, removed, version, clock, phase>>
    BY DEF Finish, trackerVars, markVars
  <1>2. tasks = {t} /\ t.result = "none" /\ tasks' = {[t EXCEPT !.result = r]}
    BY DEF Finish, OneTask, Types
  <1>3. t \in CommitTask
    BY DEF TypeOK, Types
  <1> DEFINE u == [t EXCEPT !.result = r]
  <1>4. u \in CommitTask
    BY <1>3 DEF CommitTask
  <1>5. u.result = r /\ u.marks = t.marks /\ u.gone = t.gone /\ u.ops = t.ops
    BY <1>3 DEF CommitTask
  <1> HIDE DEF u
  <1>6. QED
    BY <1>1, <1>2, <1>4, <1>5 DEF u

\* What an operation leaves.
LEMMA Results ==
    ASSUME NEW op \in Operation, op.expected < MaxVersion
    PROVE  /\ Result(op) \in Document
           /\ Result(op).version = IF op.kind = "delete" THEN 0 ELSE op.expected + 1
  <1>1. MaxVersion \in Nat /\ 0 \in 0..MaxVersion /\ 0 \in 0..MaxClock
    BY ResourcesAssumption
  <1>2. op.expected + 1 \in 0..MaxVersion /\ op.value \in 0..MaxClock
    BY <1>1 DEF Operation
  <1>3. QED
    BY <1>1, <1>2 DEF Result, Absent, Document

\* The documents after a transaction, where one operation is planned for a resource.
LEMMA WrittenDocuments ==
    ASSUME TypeOK, NEW t \in tasks, \A op \in t.ops : op.expected < MaxVersion
    PROVE  /\ Written(t.ops) \in [Resources -> Document]
           /\ \A r \in Resources : (\A op \in t.ops : op.resource # r) => Written(t.ops)[r] = db[r]
           /\ (\A op, other \in t.ops : op.resource = other.resource => op = other) =>
                 \A op \in t.ops : ~Ignored(op) =>
                    Written(t.ops)[op.resource].version =
                       IF op.kind = "delete" THEN 0 ELSE op.expected + 1
  <1>1. t.ops \subseteq Operation
    BY DEF TypeOK, CommitTask
  <1>2. ASSUME NEW r \in Resources
        PROVE  IF Wrote(t.ops, r) = {} THEN Written(t.ops)[r] = db[r]
               ELSE \E op \in Wrote(t.ops, r) : Written(t.ops)[r] = Result(op)
    BY DEF Written
  <1>3. Written(t.ops) = [r \in Resources |-> Written(t.ops)[r]]
    BY DEF Written
  <1>4. ASSUME NEW r \in Resources PROVE Written(t.ops)[r] \in Document
    <2>1. CASE Wrote(t.ops, r) = {}
      BY <1>2, <2>1 DEF TypeOK
    <2>2. CASE Wrote(t.ops, r) # {}
      <3>1. PICK op \in Wrote(t.ops, r) : Written(t.ops)[r] = Result(op)
        BY <1>2, <2>2
      <3>2. op \in Operation /\ op.expected < MaxVersion
        BY <1>1 DEF Wrote
      <3>3. QED
        BY <3>1, <3>2, Results
    <2>3. QED
      BY <2>1, <2>2
  <1>5. Written(t.ops) \in [Resources -> Document]
    BY <1>3, <1>4
  <1>6. ASSUME NEW r \in Resources, \A op \in t.ops : op.resource # r
        PROVE  Written(t.ops)[r] = db[r]
    BY <1>2, <1>6 DEF Wrote
  <1>7. ASSUME \A op, other \in t.ops : op.resource = other.resource => op = other,
               NEW op \in t.ops, ~Ignored(op)
        PROVE  Written(t.ops)[op.resource].version =
                   IF op.kind = "delete" THEN 0 ELSE op.expected + 1
    <2>1. op \in Operation /\ op.resource \in Resources /\ op.expected < MaxVersion
      BY <1>1 DEF Operation
    <2>2. op \in Wrote(t.ops, op.resource)
      BY <1>7 DEF Wrote
    <2>3. \A other \in Wrote(t.ops, op.resource) : other = op
      BY <1>7 DEF Wrote
    <2>4. Written(t.ops)[op.resource] = Result(op)
      BY <1>2, <2>1, <2>2, <2>3
    <2>5. QED
      BY <2>1, <2>4, Results
  <1>8. QED
    BY <1>5, <1>6, <1>7

-----------------------------------------------------------------------------
(* Types.                                                                  *)

LEMMA TypesInit == Init => Types
  <1> SUFFICES ASSUME Init PROVE Types
    OBVIOUS
  <1>1. MaxClock \in Nat /\ MaxVersion \in Nat /\ MaxVersion > 0 /\ MaxFailures \in Nat
    BY ResourcesAssumption
  <1>2. /\ 0 \in 0..MaxClock /\ 0 \in 0..(MaxVersion + 1) /\ 0 \in 0..MaxFailures
        /\ Settled \in 0..Settled /\ 0 \in 0..MaxVersion /\ 1 \in 0..MaxVersion
    BY <1>1 DEF Settled
  <1>3. Absent \in Document /\ [version |-> 1, value |-> 0] \in Document
    BY <1>2 DEF Absent, Document
  <1>4. db \in [Resources -> Document]
    BY <1>3 DEF Init
  <1>5. hydrating \in BOOLEAN
    BY DEF Init
  <1>6. TypeOK
    BY <1>2, <1>4, <1>5 DEF Init, TypeOK
  <1>7. QED
    BY <1>6 DEF Init, Types, OneTask, Bounded

\* What a load leaves has the right type.
LEMMA LoadedType ==
    ASSUME TypeOK, NEW r \in Resources
    PROVE  /\ Loaded(r) \in 0..MaxClock /\ Loaded(r) # 0
           /\ db[r].version \in 0..(MaxVersion + 1) /\ db[r].version <= MaxVersion
  <1>1. db[r].version \in 0..MaxVersion /\ db[r].value \in 0..MaxClock
    BY DEF TypeOK, Document
  <1>2. QED
    BY <1>1, ResourcesAssumption DEF Loaded

\* The stamp of a change.
LEMMA Stamps ==
    ASSUME TypeOK, clock < MaxClock
    PROVE  /\ clock + 1 \in 0..MaxClock /\ clock + 1 \in 0..Settled /\ clock + 1 # 0
           /\ 0 \in 0..MaxClock /\ 0 \in 0..Settled /\ Settled \in 0..Settled
  BY ResourcesAssumption DEF TypeOK, Settled

LEMMA ApplicationTypes ==
    ASSUME Types, NEW r \in Resources,
           \/ Insert(r) \/ Remove(r) \/ ChangePresent(r) \/ LoadAndChange(r)
           \/ MarkAbsent(r) \/ LoadFails(r)
    PROVE  Types'
  <1> USE DEF Types
  <1>1. /\ UNCHANGED <<seen, removed, db, tasks, failures>> /\ phase' = "Update"
        /\ dirty' \subseteq dirty \cup {r} /\ touched' \subseteq touched
    BY DEF Insert, Remove, ChangePresent, LoadAndChange, MarkAbsent, LoadFails,
           NotMaterialized, MayLoad, Stamp, markVars, boundVars
  <1>2. hydrating' = hydrating \/ hydrating' = TRUE
    BY DEF Insert, Remove, ChangePresent, LoadAndChange, MarkAbsent, LoadFails,
           NotMaterialized
  <1>3. clock' = clock \/ (clock < MaxClock /\ clock' = clock + 1)
    BY DEF Insert, Remove, ChangePresent, LoadAndChange, MarkAbsent, LoadFails, Stamp,
           boundVars
  <1>4. \/ value' = value /\ wanted' = wanted /\ changed' = changed
        \/ /\ clock < MaxClock
           /\ \/ /\ value' = [value EXCEPT ![r] = clock + 1]
                 /\ wanted' = [wanted EXCEPT ![r] = clock + 1]
                 /\ changed' = changed \cup {r}
              \/ /\ value' = [value EXCEPT ![r] = 0]
                 /\ wanted' = [wanted EXCEPT ![r] = 0]
                 /\ changed' = changed \ {r}
    BY DEF Insert, Remove, ChangePresent, LoadAndChange, MarkAbsent, LoadFails, Stamp
  <1>5. version' = version \/ version' = [version EXCEPT ![r] = db[r].version]
    BY DEF Insert, Remove, ChangePresent, LoadAndChange, MarkAbsent, LoadFails,
           NotMaterialized
  <1>6. /\ clock' \in 0..MaxClock
        /\ value' \in [Resources -> 0..MaxClock] /\ wanted' \in [Resources -> 0..Settled]
        /\ changed' \subseteq {q \in Resources : value'[q] # 0}
    <2>1. CASE value' = value /\ wanted' = wanted /\ changed' = changed
      BY <1>3, <2>1, Stamps DEF TypeOK
    <2>2. CASE clock < MaxClock /\ ~(value' = value /\ wanted' = wanted /\ changed' = changed)
      BY <1>3, <1>4, <2>2, Stamps DEF TypeOK
    <2>3. QED
      BY <1>4, <2>1, <2>2
  <1>7. version' \in [Resources -> 0..(MaxVersion + 1)]
    BY <1>5, LoadedType DEF TypeOK
  <1>8. hydrating' \in BOOLEAN
    BY <1>2 DEF TypeOK
  <1>9. TypeOK'
    BY <1>1, <1>6, <1>7, <1>8 DEF TypeOK
  <1>10. Bounded'
    BY <1>1, <1>5, LoadedType DEF Bounded, TypeOK
  <1>11. QED
    BY <1>1, <1>9, <1>10 DEF OneTask

LEMMA LoadTypes ==
    ASSUME Types, NEW rs \in SUBSET Resources, Load(rs)
    PROVE  Types'
  <1> USE DEF Types
  <1>1. /\ UNCHANGED <<seen, dirty, removed, db, tasks, clock, failures, wanted, phase>>
        /\ touched' \subseteq touched /\ changed' = changed \cup rs /\ hydrating' = TRUE
    BY DEF Load, Materialized, markVars, boundVars
  <1>2. /\ value' = [r \in Resources |-> IF r \in rs THEN Loaded(r) ELSE value[r]]
        /\ version' = [r \in Resources |-> IF r \in rs THEN db[r].version ELSE version[r]]
    BY DEF Load, Materialized
  <1>3. /\ value' \in [Resources -> 0..MaxClock]
        /\ changed' \subseteq {q \in Resources : value'[q] # 0}
    BY <1>1, <1>2, LoadedType DEF TypeOK
  <1>4. version' \in [Resources -> 0..(MaxVersion + 1)]
    BY <1>2, LoadedType DEF TypeOK
  <1>5. TypeOK'
    <2>1. hydrating' \in BOOLEAN
      BY <1>1
    <2>2. QED
      BY <1>1, <1>3, <1>4, <2>1 DEF TypeOK
  <1>6. Bounded'
    BY <1>1, <1>2, LoadedType DEF Bounded
  <1>7. QED
    BY <1>1, <1>5, <1>6 DEF OneTask

LEMMA PostUpdateTypes ==
    ASSUME Types,
           TrackChanges \/ NoCommit \/ StartCommit \/ NothingFinished \/ UNCHANGED vars
    PROVE  Types'
  <1> USE DEF Types
  <1>1. CASE TrackChanges
    <2>1. hydrating' \in BOOLEAN /\ Present \subseteq Resources
      BY <1>1 DEF TrackChanges, Present
    <2>2. TypeOK'
      BY <1>1, <2>1 DEF TrackChanges, TypeOK, Tracked, boundVars
    <2>3. QED
      BY <1>1, <2>2 DEF TrackChanges, OneTask, Bounded
  <1>2. CASE NoCommit \/ NothingFinished \/ UNCHANGED vars
    BY <1>2 DEF NoCommit, NothingFinished, vars, trackerVars, markVars, boundVars, TypeOK,
                OneTask, Bounded
  <1>3. CASE StartCommit
    <2>1. PICK t \in CommitTask : tasks' = {t} /\ \A op \in t.ops : op.expected < MaxVersion
      BY <1>3, Plan
    <2>2. /\ UNCHANGED <<value, changed, seen, hydrating, version, db, clock, failures,
                         wanted, touched>>
          /\ dirty' = {} /\ removed' = {} /\ phase' = "Commit"
          /\ \A r \in Resources : version[r] < MaxVersion
      BY <1>3 DEF StartCommit, trackerVars, boundVars
    <2>3. TypeOK'
      BY <2>1, <2>2 DEF TypeOK
    <2>4. \A r \in Resources : version[r] <= MaxVersion
      BY <2>2, ResourcesAssumption DEF TypeOK
    <2>5. QED
      BY <2>1, <2>2, <2>3, <2>4 DEF OneTask, Bounded
  <1>4. QED
    BY <1>1, <1>2, <1>3

LEMMA TransactionTypes ==
    ASSUME Types, NEW t \in tasks,
           \/ TransactionCommits(t) \/ TransactionConflicts(t)
           \/ ConnectionLost(t) \/ AnswerLost(t)
    PROVE  Types'
  <1> USE DEF Types
  <1>1. PICK r \in {"ok", "err"} : Finish(t, r)
    BY DEF TransactionCommits, TransactionConflicts, ConnectionLost, AnswerLost
  <1>2. PICK u \in CommitTask : tasks' = {u} /\ u.ops = t.ops
    BY <1>1, Finished
  <1>3. UNCHANGED <<value, changed, seen, hydrating, dirty, removed, version, clock, phase>>
    BY <1>1, Finished
  <1>4. failures' \in 0..MaxFailures
    BY ResourcesAssumption
    DEF TransactionCommits, TransactionConflicts, ConnectionLost, AnswerLost, TypeOK
  <1>5. \A op \in t.ops : op.expected < MaxVersion
    BY DEF Bounded
  <1>6. db' \in [Resources -> Document]
    <2>1. db' = db \/ db' = Written(t.ops)
      BY DEF TransactionCommits, TransactionConflicts, ConnectionLost, AnswerLost
    <2>2. QED
      BY <1>5, <2>1, WrittenDocuments DEF TypeOK
  <1>7. wanted' \in [Resources -> 0..Settled]
    <2>1. wanted' = wanted \/ wanted' = Fulfilled(t.ops)
      BY DEF TransactionCommits, TransactionConflicts, ConnectionLost, AnswerLost
    <2>2. Settled \in 0..Settled
      BY ResourcesAssumption DEF Settled
    <2>3. QED
      BY <2>1, <2>2 DEF TypeOK, Fulfilled
  <1>8. touched' \subseteq Resources
    <2>1. \A op \in t.ops : op.resource \in Resources
      BY DEF TypeOK, CommitTask, Operation
    <2>2. touched' = touched \/ touched' = touched \cup {op.resource : op \in t.ops}
      BY DEF TransactionCommits, TransactionConflicts, ConnectionLost, AnswerLost
    <2>3. QED
      BY <2>1, <2>2 DEF TypeOK
  <1>9. TypeOK'
    BY <1>2, <1>3, <1>4, <1>6, <1>7, <1>8 DEF TypeOK
  <1>10. QED
    BY <1>2, <1>3, <1>9 DEF OneTask, Bounded

LEMMA ForeignTypes ==
    ASSUME Types, NEW r \in Resources, ForeignWrite(r)
    PROVE  Types'
  <1> USE DEF Types
  <1>1. /\ UNCHANGED <<value, changed, seen, hydrating, dirty, removed, version, tasks,
                       failures, wanted, phase>>
        /\ clock < MaxClock /\ clock' = clock + 1 /\ db[r].version < MaxVersion
        /\ db' = [db EXCEPT ![r] = [version |-> db[r].version + 1, value |-> clock + 1]]
        /\ touched' = touched \cup {r}
    BY DEF ForeignWrite, trackerVars, markVars
  <1>2. clock + 1 \in 0..MaxClock
    BY <1>1, Stamps
  <1>3. db[r].version + 1 \in 0..MaxVersion
    <2>1. db[r].version \in 0..MaxVersion
      BY DEF TypeOK, Document
    <2>2. QED
      BY <1>1, <2>1, ResourcesAssumption
  <1>4. [version |-> db[r].version + 1, value |-> clock + 1] \in Document
    BY <1>2, <1>3 DEF Document
  <1>5. TypeOK'
    BY <1>1, <1>2, <1>4 DEF TypeOK
  <1>6. QED
    BY <1>1, <1>5 DEF OneTask, Bounded

LEMMA CompletionTypes ==
    ASSUME Types, NEW t \in tasks, CommitSucceeded(t) \/ CommitFailed(t)
    PROVE  Types'
  <1> USE DEF Types
  <1>1. /\ UNCHANGED <<value, changed, seen, hydrating, db, clock, failures, wanted, touched>>
        /\ tasks' = {} /\ phase' = "Update"
    BY DEF CommitSucceeded, CommitFailed, trackerVars, boundVars, OneTask
  <1>2. t.marks \subseteq Resources /\ t.gone \subseteq Resources
    BY DEF TypeOK, CommitTask
  <1>3. dirty' \subseteq Resources /\ removed' \subseteq Resources
    BY <1>2 DEF CommitSucceeded, CommitFailed, RemovedAfterFailure, markVars, TypeOK
  <1>4. version' \in [Resources -> 0..(MaxVersion + 1)]
    <2>1. \A r \in Resources : VersionAfter(t, r) \in 0..(MaxVersion + 1)
      <3> TAKE r \in Resources
      <3>1. version[r] \in 0..(MaxVersion + 1) /\ version[r] <= MaxVersion /\ MaxVersion \in Nat
        BY ResourcesAssumption DEF Bounded, TypeOK
      <3>2. VersionAfter(t, r) \in {version[r] + 1, 0, version[r]}
        BY DEF VersionAfter
      <3>3. QED
        BY <3>1, <3>2
    <2>2. version' = version \/ version' = [r \in Resources |-> VersionAfter(t, r)]
      BY DEF CommitSucceeded, CommitFailed
    <2>3. QED
      BY <2>1, <2>2 DEF TypeOK
  <1>5. TypeOK'
    BY <1>1, <1>3, <1>4 DEF TypeOK
  <1>6. QED
    BY <1>1, <1>5 DEF OneTask, Bounded

LEMMA TypesStep == Types /\ [Next]_vars => Types'
  BY StepCases, ApplicationTypes, LoadTypes, PostUpdateTypes, TransactionTypes, ForeignTypes,
     CompletionTypes

\* Every variable keeps its type, whatever the application does.
THEOREM TypeCorrect == Spec => []TypeOK
  <1>1. Spec => []Types
    BY TypesInit, TypesStep, PTL DEF Spec
  <1>2. Types => TypeOK
    BY DEF Types
  <1>3. QED
    BY <1>1, <1>2, PTL

-----------------------------------------------------------------------------
(* Nothing is lost, and conflicts come from outside.                       *)

LEMMA InitConsistent == Init => Consistent
  <1> SUFFICES ASSUME Init PROVE Consistent
    OBVIOUS
  <1>1. /\ tasks = {} /\ removed = {} /\ dirty = {} /\ changed = {} /\ touched = {}
        /\ phase = "Update" /\ ~hydrating
        /\ \A r \in Resources : value[r] = 0 /\ version[r] = 0 /\ wanted[r] = Settled
    BY DEF Init
  <1>2. Settled # 0 /\ Settled \notin 1..MaxClock
    BY ResourcesAssumption DEF Settled
  <1>3. Present = {} /\ Removing = {} /\ Tracked = {}
    BY <1>1 DEF Present, Removing, Tracked
  <1>4. Planned /\ Done /\ Marks /\ Alone
    BY <1>1, <1>3 DEF Planned, Done, Marks, Alone
  <1>5. VersionsFollow /\ NothingMadeIsLost
    BY <1>1, <1>2, <1>3 DEF VersionsFollow, NothingMadeIsLost
  <1>6. QED
    BY <1>4, <1>5 DEF Consistent

\* The plans of steps outside the commit, which load nothing while one is in flight.
LEMMA PlanKept ==
    ASSUME Types, Planned, UNCHANGED tasks, tasks # {} => version' = version,
           seen \cup removed \subseteq seen' \cup removed',
           clock' = clock \/ clock' = clock + 1
    PROVE  Planned'
  <1>1. clock \in Nat
    BY ResourcesAssumption DEF Types, TypeOK
  <1>2. 1..clock \subseteq 1..clock'
    BY <1>1
  <1>3. QED
    BY <1>2 DEF Planned

\* What stays as it was.
LEMMA PendingKept ==
    ASSUME NEW r \in Resources,
           wanted'[r] = wanted[r], value'[r] = value[r], tasks' = tasks,
           seen \cup Removing \subseteq seen' \cup Removing',
           removed' = removed, r \in dirty \cup Tracked => r \in dirty' \cup Tracked',
           db'[r] = db[r], r \in touched => r \in touched'
    PROVE  /\ wanted[r] = 0 /\ RemovalPending(r) => RemovalPending(r)'
           /\ ChangePending(r) => ChangePending(r)'
  BY DEF RemovalPending, ChangePending, Present, Stored

\* Insert and ChangePresent, which differ in the mark, and in what they may meet.
LEMMA ChangeStep ==
    ASSUME IInv, Ordinary, NEW r \in Resources, Insert(r) \/ ChangePresent(r)
    PROVE  Consistent'
  <1> USE DEF IInv, Types, Consistent
  <1>1. /\ value' = [value EXCEPT ![r] = clock + 1] /\ wanted' = [wanted EXCEPT ![r] = clock + 1]
        /\ clock < MaxClock /\ clock' = clock + 1 /\ changed' = changed \cup {r}
        /\ UNCHANGED <<seen, hydrating, removed, version, db, tasks, touched, phase>>
        /\ phase = "Update" /\ r \notin Removing
        /\ dirty \subseteq dirty' /\ dirty' \subseteq dirty \cup {r}
        /\ r \in dirty' \/ (~hydrating /\ r \in changed')
        /\ r \in Present \/ ~(Stored(r) /\ version[r] = 0 /\ r \notin touched)
    BY DEF Insert, ChangePresent, Stamp, Does, Ordinary, markVars
  <1>2. /\ clock + 1 # 0 /\ clock \in Nat
        /\ Present' = Present \cup {r} /\ Removing' = Removing
    <2>1. clock \in Nat
      BY ResourcesAssumption DEF TypeOK
    <2>2. QED
      BY <1>1, <2>1 DEF Present, Removing, TypeOK
  <1>3. Planned'
    BY <1>1, PlanKept
  <1>4. Done'
    <2>1. \A t \in tasks : \A op \in t.ops : op.value # clock + 1
      BY <1>2 DEF Planned
    <2>2. QED
      BY <1>1, <2>1 DEF Done, TypeOK
  <1>5. Marks'
    <2>1. Removing' \cap (Present' \cup seen') = {}
      BY <1>1, <1>2 DEF Marks
    <2>2. \A q \in dirty' \cup Tracked' \cup UNION {t.marks : t \in tasks'} : value'[q] <= clock'
      <3> TAKE q \in dirty' \cup Tracked' \cup UNION {t.marks : t \in tasks'}
      <3>1. q \in Resources
        BY <1>1 DEF Tracked, TypeOK, CommitTask
      <3>2. CASE q = r
        BY <1>1, <1>2, <3>1, <3>2 DEF TypeOK
      <3>3. CASE q # r
        <4>1. q \in dirty \cup Tracked \cup UNION {t.marks : t \in tasks}
          BY <1>1, <3>3 DEF Tracked
        <4>2. value[q] <= clock /\ value[q] \in Nat /\ value'[q] = value[q]
          BY <1>1, <3>1, <3>3, <4>1, ResourcesAssumption DEF Marks, TypeOK
        <4>3. QED
          BY <1>1, <1>2, <4>2
      <3>4. QED
        BY <3>2, <3>3
    <2>3. QED
      BY <1>1, <2>1, <2>2 DEF Marks
  <1>6. VersionsFollow'
    BY <1>1, <1>2 DEF VersionsFollow, Stored, TypeOK
  <1>7. NothingMadeIsLost'
    <2>1. ChangePending(r)' /\ wanted'[r] # 0
      BY <1>1, <1>2 DEF ChangePending, Tracked, Removing, TypeOK
    <2>2. ASSUME NEW q \in Resources, q # r
          PROVE  /\ wanted'[q] = 0 => RemovalPending(q)'
                 /\ wanted'[q] \in 1..MaxClock => ChangePending(q)'
      <3>1. wanted'[q] = wanted[q] /\ value'[q] = value[q]
        BY <1>1, <2>2 DEF TypeOK
      <3>2. q \in dirty \cup Tracked => q \in dirty' \cup Tracked'
        BY <1>1 DEF Tracked
      <3>3. QED
        BY <1>1, <1>2, <3>1, <3>2, PendingKept DEF NothingMadeIsLost
    <2>3. QED
      BY <2>1, <2>2 DEF NothingMadeIsLost
  <1>8. Alone'
    BY <1>1 DEF Alone
  <1>9. QED
    BY <1>3, <1>4, <1>5, <1>6, <1>7, <1>8

LEMMA RemoveStep ==
    ASSUME IInv, Ordinary, NEW r \in Resources, Remove(r)
    PROVE  Consistent'
  <1> USE DEF IInv, Types, Consistent
  <1>1. /\ value' = [value EXCEPT ![r] = 0] /\ wanted' = [wanted EXCEPT ![r] = 0]
        /\ clock' = clock + 1 /\ changed' = changed \ {r} /\ phase = "Update"
        /\ UNCHANGED <<seen, hydrating, dirty, removed, version, db, tasks, touched, phase>>
        /\ r \in Present /\ r \in seen
    BY DEF Remove, Stamp, Does, Ordinary, markVars
  <1>2. /\ clock \in Nat /\ Present' = Present \ {r} /\ Removing' = Removing
    BY <1>1, ResourcesAssumption DEF Present, Removing, TypeOK
  <1>3. Planned'
    BY <1>1, PlanKept
  <1>4. Done'
    <2>1. \A t \in tasks : \A op \in t.ops : op.resource = r => op.value # 0
      BY <1>1, <1>2 DEF Planned, Marks, Removing
    <2>2. QED
      BY <1>1, <2>1 DEF Done, TypeOK
  <1>5. Marks'
    <2>1. ASSUME NEW q \in dirty' \cup Tracked' \cup UNION {t.marks : t \in tasks'}
          PROVE  value'[q] <= clock'
      <3>1. q \in Resources /\ q \in dirty \cup Tracked \cup UNION {t.marks : t \in tasks}
        BY <1>1 DEF Tracked, TypeOK, CommitTask
      <3>2. value[q] <= clock /\ value[q] \in Nat
        BY <3>1, ResourcesAssumption DEF Marks, TypeOK
      <3>3. value'[q] \in {value[q], 0}
        BY <1>1, <3>1 DEF TypeOK
      <3>4. QED
        BY <1>1, <1>2, <3>2, <3>3
    <2>2. Removing' \cap (Present' \cup seen') = {}
      BY <1>1, <1>2 DEF Marks
    <2>3. QED
      BY <1>1, <2>1, <2>2 DEF Marks
  <1>6. VersionsFollow'
    BY <1>1, <1>2 DEF VersionsFollow, TypeOK
  <1>7. NothingMadeIsLost'
    <2>1. RemovalPending(r)' /\ wanted'[r] \notin 1..MaxClock
      BY <1>1, <1>2 DEF RemovalPending, TypeOK
    <2>2. ASSUME NEW q \in Resources, q # r
          PROVE  /\ wanted'[q] = 0 => RemovalPending(q)'
                 /\ wanted'[q] \in 1..MaxClock => ChangePending(q)'
      <3>1. wanted'[q] = wanted[q] /\ value'[q] = value[q]
        BY <1>1, <2>2 DEF TypeOK
      <3>2. q \in dirty \cup Tracked => q \in dirty' \cup Tracked'
        BY <1>1, <2>2 DEF Tracked
      <3>3. QED
        BY <1>1, <1>2, <3>1, <3>2, PendingKept DEF NothingMadeIsLost
    <2>3. QED
      BY <2>1, <2>2 DEF NothingMadeIsLost
  <1>8. Alone'
    BY <1>1 DEF Alone
  <1>9. QED
    BY <1>3, <1>4, <1>5, <1>6, <1>7, <1>8

\* Nobody has a load of a resource with changes that are not stored, nor during a commit.
LEMMA Loading ==
    ASSUME IInv, Ordinary, NEW rs \in SUBSET Resources, MayLoad(rs)
    PROVE  /\ tasks = {} /\ phase = "Update" /\ Tracked \subseteq dirty
           /\ \A r \in rs : /\ wanted[r] # 0 /\ wanted[r] \notin 1..MaxClock
                            /\ r \notin dirty \cup Removing
  <1>1. Settled # 0 /\ Settled \notin 1..MaxClock
    BY ResourcesAssumption DEF Settled
  <1>2. tasks = {} /\ phase = "Update" /\ (hydrating \/ changed \subseteq dirty)
    BY DEF MayLoad, Does, Ordinary
  <1>3. \A r \in rs : wanted[r] = Settled /\ r \notin dirty \cup Removing
    BY DEF MayLoad, Does, Ordinary
  <1>4. QED
    BY <1>1, <1>2, <1>3 DEF Tracked

LEMMA LoadAndChangeStep ==
    ASSUME IInv, Ordinary, NEW r \in Resources, LoadAndChange(r)
    PROVE  Consistent'
  <1> USE DEF IInv, Types, Consistent
  <1>1. /\ value' = [value EXCEPT ![r] = clock + 1] /\ wanted' = [wanted EXCEPT ![r] = clock + 1]
        /\ version' = [version EXCEPT ![r] = db[r].version] /\ db[r].version # 0
        /\ clock' = clock + 1 /\ changed' = changed \cup {r} /\ hydrating' = TRUE
        /\ dirty' = dirty \cup {r} /\ touched' = touched \ {r}
        /\ UNCHANGED <<seen, removed, db, tasks, phase>>
        /\ MayLoad({r})
    BY DEF LoadAndChange, Stamp, Stored
  <1>2. /\ tasks = {} /\ phase = "Update" /\ Tracked \subseteq dirty /\ r \notin dirty \cup Removing
    BY <1>1, Loading
  <1>3. /\ clock + 1 # 0 /\ clock \in Nat
        /\ Present' = Present \cup {r} /\ Removing' = Removing /\ Tracked' = {}
    <2>1. clock \in Nat
      BY ResourcesAssumption DEF TypeOK
    <2>2. QED
      BY <1>1, <2>1 DEF Present, Removing, Tracked, TypeOK
  <1>4. Planned' /\ Done' /\ Alone'
    BY <1>1, <1>2 DEF Planned, Done, Alone
  <1>5. Marks'
    <2>1. Removing' \cap (Present' \cup seen') = {}
      BY <1>1, <1>2, <1>3 DEF Marks
    <2>2. ASSUME NEW q \in dirty' PROVE value'[q] <= clock'
      <3>1. CASE q = r
        BY <1>1, <1>3, <3>1 DEF TypeOK
      <3>2. CASE q # r
        <4>1. value[q] <= clock /\ value[q] \in Nat /\ value'[q] = value[q]
          BY <1>1, <2>2, <3>2, ResourcesAssumption DEF Marks, TypeOK
        <4>2. QED
          BY <1>1, <1>3, <4>1
      <3>3. QED
        BY <3>1, <3>2
    <2>3. QED
      BY <1>1, <1>2, <1>3, <2>1, <2>2 DEF Marks
  <1>6. VersionsFollow'
    BY <1>1, <1>2, <1>3 DEF VersionsFollow, TypeOK
  <1>7. NothingMadeIsLost'
    <2>1. ChangePending(r)' /\ wanted'[r] # 0
      BY <1>1, <1>2, <1>3 DEF ChangePending, Removing, TypeOK
    <2>2. ASSUME NEW q \in Resources, q # r
          PROVE  /\ wanted'[q] = 0 => RemovalPending(q)'
                 /\ wanted'[q] \in 1..MaxClock => ChangePending(q)'
      <3>1. wanted'[q] = wanted[q] /\ value'[q] = value[q] /\ (q \in touched => q \in touched')
        BY <1>1, <2>2 DEF TypeOK
      <3>2. q \in dirty \cup Tracked => q \in dirty' \cup Tracked'
        BY <1>1, <1>2
      <3>3. QED
        BY <1>1, <1>3, <3>1, <3>2, PendingKept DEF NothingMadeIsLost
    <2>3. QED
      BY <2>1, <2>2 DEF NothingMadeIsLost
  <1>8. QED
    BY <1>4, <1>5, <1>6, <1>7

LEMMA LoadStep ==
    ASSUME IInv, Ordinary, NEW rs \in SUBSET Resources, Load(rs)
    PROVE  Consistent'
  <1> USE DEF IInv, Types, Consistent
  <1>1. /\ value' = [r \in Resources |-> IF r \in rs THEN Loaded(r) ELSE value[r]]
        /\ version' = [r \in Resources |-> IF r \in rs THEN db[r].version ELSE version[r]]
        /\ changed' = changed \cup rs /\ hydrating' = TRUE /\ touched' = touched \ rs
        /\ UNCHANGED <<seen, dirty, removed, db, tasks, clock, wanted, phase>>
        /\ MayLoad(rs) /\ \A r \in rs : db[r].version # 0
    BY DEF Load, Materialized, Stored, markVars, boundVars
  <1>2. /\ tasks = {} /\ phase = "Update" /\ Tracked \subseteq dirty
        /\ \A r \in rs : /\ wanted[r] # 0 /\ wanted[r] \notin 1..MaxClock
                         /\ r \notin dirty \cup Removing
    BY <1>1, Loading
  <1>3. Present' = Present \cup rs /\ Removing' = Removing /\ Tracked' = {}
    <2>1. \A r \in rs : Loaded(r) # 0
      BY LoadedType
    <2>2. QED
      BY <1>1, <2>1 DEF Present, Removing, Tracked
  <1>4. Planned' /\ Done' /\ Alone'
    BY <1>1, <1>2 DEF Planned, Done, Alone
  <1>5. Marks'
    <2>1. \A q \in dirty : value'[q] = value[q]
      BY <1>1, <1>2 DEF TypeOK
    <2>2. QED
      BY <1>1, <1>2, <1>3, <2>1 DEF Marks
  <1>6. VersionsFollow'
    BY <1>1, <1>2, <1>3 DEF VersionsFollow, TypeOK
  <1>7. NothingMadeIsLost'
    <2> SUFFICES ASSUME NEW q \in Resources
                 PROVE  /\ wanted'[q] = 0 => RemovalPending(q)'
                        /\ wanted'[q] \in 1..MaxClock => ChangePending(q)'
      BY DEF NothingMadeIsLost
    <2>1. CASE q \in rs
      BY <1>1, <1>2, <2>1
    <2>2. CASE q \notin rs
      <3>1. value'[q] = value[q] /\ (q \in touched => q \in touched')
        BY <1>1, <2>2
      <3>2. q \in dirty \cup Tracked => q \in dirty' \cup Tracked'
        BY <1>1, <1>2
      <3>3. QED
        BY <1>1, <1>3, <3>1, <3>2, PendingKept DEF NothingMadeIsLost
    <2>3. QED
      BY <2>1, <2>2
  <1>8. QED
    BY <1>4, <1>5, <1>6, <1>7

\* A document that does not decode: its version is all that is known of it.
LEMMA NotMaterializedStep ==
    ASSUME IInv, Ordinary, NEW r \in Resources, NotMaterialized(r),
           dirty' = dirty \/ (r \notin Present /\ dirty' = dirty \cup {r}),
           UNCHANGED <<value, changed, seen, removed, db, tasks, clock, wanted, touched,
                       phase>>
    PROVE  Consistent'
  <1> USE DEF IInv, Types, Consistent
  <1>1. /\ version' = [version EXCEPT ![r] = db[r].version] /\ db[r].version # 0
        /\ hydrating' = TRUE /\ MayLoad({r})
    BY DEF NotMaterialized, Stored
  <1>2. tasks = {} /\ phase = "Update" /\ Tracked \subseteq dirty
    BY <1>1, Loading
  <1>3. Present' = Present /\ Removing' = Removing /\ Tracked' = {}
    BY <1>1 DEF Present, Removing, Tracked
  <1>4. Planned' /\ Done' /\ Alone'
    BY <1>2 DEF Planned, Done, Alone
  <1>5. r \notin Present => value[r] <= clock
    BY ResourcesAssumption DEF Present, TypeOK
  <1>6. Marks'
    BY <1>2, <1>3, <1>5 DEF Marks
  <1>7. VersionsFollow'
    BY <1>1, <1>2, <1>3 DEF VersionsFollow, TypeOK
  <1>8. NothingMadeIsLost'
    <2> SUFFICES ASSUME NEW q \in Resources
                 PROVE  /\ wanted'[q] = 0 => RemovalPending(q)'
                        /\ wanted'[q] \in 1..MaxClock => ChangePending(q)'
      BY DEF NothingMadeIsLost
    <2>1. q \in dirty \cup Tracked => q \in dirty' \cup Tracked'
      BY <1>2
    <2>2. QED
      BY <1>2, <1>3, <2>1, PendingKept DEF NothingMadeIsLost
  <1>9. QED
    BY <1>4, <1>6, <1>7, <1>8

LEMMA LoadFailsStep ==
    ASSUME IInv, Ordinary, NEW r \in Resources, LoadFails(r)
    PROVE  Consistent'
  BY NotMaterializedStep DEF LoadFails, markVars, boundVars

LEMMA MarkAbsentStep ==
    ASSUME IInv, Ordinary, NEW r \in Resources, MarkAbsent(r)
    PROVE  Consistent'
  <1> USE DEF IInv, Types, Consistent
  <1>1. /\ dirty' = dirty \cup {r} /\ r \notin Present /\ phase = "Update"
        /\ UNCHANGED <<value, changed, seen, removed, db, tasks, clock, wanted, touched,
                       phase>>
        /\ NotMaterialized(r) \/ UNCHANGED <<version, hydrating>>
    BY DEF MarkAbsent, boundVars
  <1>2. CASE NotMaterialized(r)
    BY <1>1, <1>2, NotMaterializedStep
  <1>3. CASE UNCHANGED <<version, hydrating>>
    <2>1. Present' = Present /\ Removing' = Removing /\ Tracked' = Tracked
      BY <1>1, <1>3 DEF Present, Removing, Tracked
    <2>2. Planned' /\ Done' /\ Alone'
      BY <1>1, <1>3, PlanKept DEF Done, Alone
    <2>3. value[r] <= clock
      BY <1>1, ResourcesAssumption DEF Present, TypeOK
    <2>4. Marks'
      BY <1>1, <1>3, <2>1, <2>3 DEF Marks
    <2>5. VersionsFollow'
      BY <1>1, <1>3, <2>1 DEF VersionsFollow
    <2>6. NothingMadeIsLost'
      BY <1>1, <1>3, <2>1, PendingKept DEF NothingMadeIsLost
    <2>7. QED
      BY <2>2, <2>4, <2>5, <2>6
  <1>4. QED
    BY <1>1, <1>2, <1>3

LEMMA FrameStep ==
    ASSUME IInv, TrackChanges \/ NoCommit \/ NothingFinished \/ UNCHANGED vars
    PROVE  Consistent'
  <1> USE DEF IInv, Types, Consistent
  <1>1. CASE TrackChanges
    <2>1. /\ dirty' = dirty \cup Tracked /\ removed' = removed \cup (seen \ Present)
          /\ seen' = Present /\ changed' = {}
          /\ UNCHANGED <<value, version, db, tasks, clock, wanted, touched>>
      BY <1>1 DEF TrackChanges, boundVars
    <2>2. Present' = Present /\ Removing' = Removing \cup (seen \ Present) /\ Tracked' = {}
      BY <2>1 DEF Present, Removing, Tracked
    <2>3. Planned' /\ Done' /\ Alone'
      BY <2>1, PlanKept DEF Done, Alone
    <2>4. Marks'
      BY <2>1, <2>2 DEF Marks
    <2>5. VersionsFollow'
      BY <2>1, <2>2 DEF VersionsFollow
    <2>6. NothingMadeIsLost'
      <3> SUFFICES ASSUME NEW q \in Resources
                   PROVE  /\ wanted'[q] = 0 => RemovalPending(q)'
                          /\ wanted'[q] \in 1..MaxClock => ChangePending(q)'
        BY DEF NothingMadeIsLost
      <3>1. wanted[q] = 0 => RemovalPending(q)'
        BY <2>1, <2>2 DEF NothingMadeIsLost, RemovalPending, Stored
      <3>2. wanted[q] \in 1..MaxClock => ChangePending(q)'
        <4>1. wanted[q] \in 1..MaxClock /\ value[q] = wanted[q] => q \in Present
          BY ResourcesAssumption DEF Present
        <4>2. QED
          BY <2>1, <2>2, <4>1 DEF NothingMadeIsLost, ChangePending
      <3>3. QED
        BY <2>1, <3>1, <3>2
    <2>7. QED
      BY <2>3, <2>4, <2>5, <2>6
  <1>2. CASE NoCommit \/ NothingFinished \/ UNCHANGED vars
    <2>1. /\ UNCHANGED <<value, changed, seen, hydrating, dirty, removed, version, db, tasks,
                         clock, wanted, touched>>
          /\ phase' = "PreCommit" => phase = "PreCommit"
      BY <1>2 DEF NoCommit, NothingFinished, vars, trackerVars, markVars, boundVars
    <2>2. Present' = Present /\ Removing' = Removing /\ Tracked' = Tracked
      BY <2>1 DEF Present, Removing, Tracked
    <2>3. Planned' /\ Done' /\ Alone'
      BY <2>1, PlanKept DEF Done, Alone
    <2>4. Marks' /\ VersionsFollow'
      BY <2>1, <2>2 DEF Marks, VersionsFollow
    <2>5. NothingMadeIsLost'
      BY <2>1, <2>2, PendingKept DEF NothingMadeIsLost
    <2>6. QED
      BY <2>3, <2>4, <2>5
  <1>3. QED
    BY <1>1, <1>2

LEMMA StartCommitStep ==
    ASSUME IInv, StartCommit
    PROVE  Consistent'
  <1> USE DEF IInv, Types, Consistent
  <1>1. PICK t \in CommitTask :
           /\ tasks' = {t} /\ t.marks = dirty /\ t.gone = removed
           /\ t.ops = Deletions \cup Upserts /\ t.result = "none"
    BY Plan
  <1>2. /\ tasks = {} /\ dirty' = {} /\ removed' = {} /\ changed = {} /\ seen = Present
        /\ phase' = "Commit"
        /\ UNCHANGED <<value, changed, seen, hydrating, version, db, clock, wanted, touched>>
    BY DEF StartCommit, Marks, trackerVars, boundVars
  <1>3. Present' = Present /\ Removing' = Removing /\ Removing = removed /\ Tracked' = {}
    BY <1>1, <1>2 DEF Present, Removing, Tracked
  <1>4. ASSUME NEW op \in t.ops
        PROVE  /\ op.resource \in Resources /\ op.expected = version[op.resource]
               /\ IF op.kind = "delete"
                  THEN op.resource \in removed /\ op.expected # 0 /\ op.value = 0
                  ELSE /\ op.resource \in Serialized /\ op.value \in 1..clock
                       /\ op.kind = "create" <=> op.expected = 0
    <2>1. CASE op \in Deletions
      BY <2>1, DeletionsAre DEF TypeOK
    <2>2. CASE op \in Upserts
      <3>1. /\ op.resource \in Serialized /\ op.kind # "delete"
            /\ op.kind = "create" <=> op.expected = 0
            /\ op.value = value[op.resource] /\ op.value # 0
            /\ op.expected = version[op.resource]
        BY <2>2, UpsertsAre
      <3>2. op.resource \in Resources /\ op.resource \in dirty
        BY <3>1 DEF Serialized, Present
      <3>3. value[op.resource] \in Nat /\ value[op.resource] <= clock /\ clock \in Nat
        BY <3>2, ResourcesAssumption DEF Marks, TypeOK
      <3>4. QED
        BY <3>1, <3>2, <3>3
    <2>3. QED
      BY <1>1, <2>1, <2>2
  <1>5. Planned'
    <2>1. ASSUME NEW op \in t.ops
          PROVE  /\ op.expected = version'[op.resource]
                 /\ IF op.kind = "delete"
                    THEN op.resource \in t.gone /\ op.expected # 0 /\ op.value = 0
                    ELSE /\ op.resource \in t.marks \ t.gone
                         /\ op.resource \in seen' \cup removed'
                         /\ op.value \in 1..clock'
                         /\ op.kind = "create" <=> op.expected = 0
      BY <1>1, <1>2, <1>4 DEF Serialized
    <2>2. \A op, other \in t.ops : op.resource = other.resource => op = other
      BY <1>1, OneOperation
    <2>3. \A r \in t.gone : version'[r] # 0 =>
              \E op \in t.ops : op.resource = r /\ op.kind = "delete"
      BY <1>1, <1>2, AllOperations
    <2>4. QED
      BY <1>1, <2>1, <2>2, <2>3 DEF Planned
  <1>6. Done' /\ Alone'
    BY <1>1, <1>2 DEF Done, Alone
  <1>7. Marks'
    BY <1>1, <1>2, <1>3 DEF Marks
  <1>8. VersionsFollow'
    <2>1. ASSUME NEW r \in Resources \ touched
          PROVE  /\ version[r] # 0 => db[r].version = version[r]
                 /\ version[r] = 0 /\ (r \in Present \/ wanted[r] = 0) => db[r].version = 0
      BY <1>2 DEF VersionsFollow
    <2>2. ASSUME NEW r \in Resources \ touched, NEW op \in t.ops, op.resource = r
          PROVE  db[r].version = op.expected
      BY <1>4, <2>1, <2>2 DEF Serialized
    <2>3. QED
      BY <1>1, <1>2, <1>3, <2>1, <2>2 DEF VersionsFollow
  <1>9. NothingMadeIsLost'
    <2> SUFFICES ASSUME NEW q \in Resources
                 PROVE  /\ wanted'[q] = 0 => RemovalPending(q)'
                        /\ wanted'[q] \in 1..MaxClock => ChangePending(q)'
      BY DEF NothingMadeIsLost
    <2>1. wanted[q] = 0 => RemovalPending(q)'
      BY <1>2, <1>3 DEF NothingMadeIsLost, RemovalPending, Stored
    <2>2. ASSUME wanted[q] \in 1..MaxClock PROVE ChangePending(q)'
      <3>1. value[q] = wanted[q] /\ q \in dirty \ removed
        BY <1>2, <2>2 DEF NothingMadeIsLost, ChangePending, Tracked
      <3>2. q \in Serialized
        BY <2>2, <3>1, ResourcesAssumption DEF Serialized, Present
      <3>3. \E op \in t.ops : op.resource = q /\ op.value = wanted[q]
        BY <1>1, <3>1, <3>2, AllOperations
      <3>4. QED
        BY <1>1, <1>2, <3>1, <3>3 DEF ChangePending
    <2>3. QED
      BY <1>2, <2>1, <2>2
  <1>10. QED
    BY <1>5, <1>6, <1>7, <1>8, <1>9

\* A transaction has ended: it has written, or it has changed nothing.
LEMMA Outcome ==
    ASSUME IInv, Ordinary, NEW t \in tasks,
           \/ TransactionCommits(t) \/ TransactionConflicts(t)
           \/ ConnectionLost(t) \/ AnswerLost(t)
    PROVE  \E r \in {"ok", "err"} :
              /\ Finish(t, r)
              /\ touched \subseteq touched' /\ (Environment = {} => touched' = touched)
              /\ \/ /\ r = "err" /\ UNCHANGED <<db, wanted>>
                 \/ /\ db' = Written(t.ops) /\ wanted' = Fulfilled(t.ops)
                    /\ \A op \in t.ops : ~Ignored(op)
                    /\ r = "err" => \A op \in t.ops : op.resource \in touched'
  <1> USE DEF IInv, Types, Consistent
  <1>1. CASE TransactionConflicts(t) \/ ConnectionLost(t)
    BY <1>1 DEF TransactionConflicts, ConnectionLost
  <1>2. t.result = "none"
    BY DEF TransactionCommits, TransactionConflicts, ConnectionLost, AnswerLost, Finish
  <1>3. ASSUME NEW op \in t.ops PROVE ~Ignored(op)
    <2>1. CASE Backend # "arango"
      BY <2>1 DEF Ignored
    <2>2. CASE Backend = "arango"
      <3>1. touched = {} /\ op.resource \in Resources
        BY <2>2 DEF Ordinary, Alone, TypeOK, CommitTask, Operation
      <3>2. db[op.resource].version = op.expected
        BY <1>2, <3>1 DEF VersionsFollow
      <3>3. op.kind = "create" => op.expected = 0
        BY DEF Planned
      <3>4. QED
        BY <3>2, <3>3 DEF Ignored, ArangoIgnores, Stored
    <2>3. QED
      BY <2>1, <2>2
  <1>4. CASE TransactionCommits(t)
    BY <1>3, <1>4 DEF TransactionCommits
  <1>5. CASE AnswerLost(t)
    <2>1. /\ Finish(t, "err") /\ db' = Written(t.ops) /\ wanted' = Fulfilled(t.ops)
          /\ touched' = touched \cup {op.resource : op \in t.ops} /\ Environment # {}
      BY <1>5 DEF AnswerLost, Does
    <2>2. QED
      BY <1>3, <2>1
  <1>6. QED
    BY <1>1, <1>4, <1>5

LEMMA TransactionStep ==
    ASSUME IInv, Ordinary, NEW t \in tasks,
           \/ TransactionCommits(t) \/ TransactionConflicts(t)
           \/ ConnectionLost(t) \/ AnswerLost(t)
    PROVE  Consistent'
  <1> USE DEF IInv, Types, Consistent
  <1>1. PICK r \in {"ok", "err"} :
           /\ Finish(t, r)
           /\ touched \subseteq touched' /\ (Environment = {} => touched' = touched)
           /\ \/ /\ r = "err" /\ UNCHANGED <<db, wanted>>
              \/ /\ db' = Written(t.ops) /\ wanted' = Fulfilled(t.ops)
                 /\ \A op \in t.ops : ~Ignored(op)
                 /\ r = "err" => \A op \in t.ops : op.resource \in touched'
    BY Outcome
  <1>2. /\ UNCHANGED <<value, changed, seen, hydrating, dirty, removed, version, clock, phase>>
        /\ tasks = {t} /\ t.result = "none"
    BY <1>1, Finished
  <1>3. PICK u \in CommitTask : /\ tasks' = {u} /\ u.result = r
                                /\ u.marks = t.marks /\ u.gone = t.gone /\ u.ops = t.ops
    BY <1>1, Finished
  <1>4. /\ Present' = Present /\ Tracked' = Tracked
        /\ Removing = removed \cup t.gone /\ Removing' = removed \cup t.gone
    BY <1>2, <1>3 DEF Present, Removing, Tracked
  <1>5. /\ \A op \in t.ops : /\ op.expected < MaxVersion /\ op.resource \in Resources
                             /\ op.value \in 0..MaxClock
        /\ \A op, other \in t.ops : op.resource = other.resource => op = other
    BY DEF Bounded, Planned, TypeOK, CommitTask, Operation
  <1>6. Settled # 0 /\ Settled \notin 0..MaxClock
    BY ResourcesAssumption DEF Settled
  \* What is written is no longer wanted.
  <1>7. /\ \A q \in Resources : wanted'[q] = wanted[q] \/ wanted'[q] = Settled
        /\ db' # db \/ r = "ok" => \A op \in t.ops : op.value # wanted'[op.resource]
    <2>1. CASE r = "err" /\ UNCHANGED <<db, wanted>>
      BY <2>1
    <2>2. CASE wanted' = Fulfilled(t.ops) /\ \A op \in t.ops : ~Ignored(op)
      <3>1. \A q \in Resources : wanted'[q] = wanted[q] \/ wanted'[q] = Settled
        BY <2>2 DEF Fulfilled
      <3>2. ASSUME NEW op \in t.ops PROVE op.value # wanted'[op.resource]
        <4>1. op \in Wrote(t.ops, op.resource) /\ op.resource \in Resources
          BY <1>5, <2>2 DEF Wrote
        <4>2. op.value = wanted[op.resource] => wanted'[op.resource] = Settled
          BY <2>2, <4>1 DEF Fulfilled
        <4>3. wanted'[op.resource] = wanted[op.resource] \/ wanted'[op.resource] = Settled
          BY <3>1, <4>1
        <4>4. QED
          BY <1>5, <1>6, <4>2, <4>3
      <3>3. QED
        BY <3>1, <3>2
    <2>3. QED
      BY <1>1, <2>1, <2>2
  \* The documents it has written.
  <1>8. /\ \A q \in Resources : (\A op \in t.ops : op.resource # q) => db'[q] = db[q]
        /\ r = "ok" => \A op \in t.ops : db'[op.resource].version =
               IF op.kind = "delete" THEN 0 ELSE op.expected + 1
        /\ r = "err" => UNCHANGED db \/ \A op \in t.ops : op.resource \in touched'
    BY <1>1, <1>5, WrittenDocuments
  <1>9. Planned'
    BY <1>2, <1>3 DEF Planned
  <1>10. Done' /\ Alone'
    BY <1>1, <1>3, <1>7 DEF Done, Alone
  <1>11. Marks'
    BY <1>2, <1>3, <1>4 DEF Marks
  <1>12. VersionsFollow'
    <2> SUFFICES ASSUME NEW q \in Resources \ touched'
                 PROVE  /\ \A op \in t.ops : op.resource = q /\ r = "ok" =>
                              db'[q].version = IF op.kind = "delete" THEN 0 ELSE op.expected + 1
                        /\ (r = "ok" => \A op \in t.ops : op.resource # q) =>
                              /\ version[q] # 0 => db'[q].version = version[q]
                              /\ version[q] = 0 /\ (q \in Present \/ wanted'[q] = 0) =>
                                    db'[q].version = 0
      BY <1>2, <1>3, <1>4 DEF VersionsFollow
    <2>1. q \in Resources \ touched
      BY <1>1
    <2>2. ASSUME r = "ok" => \A op \in t.ops : op.resource # q PROVE db'[q] = db[q]
      BY <1>8, <2>2
    <2>3. /\ version[q] # 0 => db[q].version = version[q]
          /\ version[q] = 0 /\ (q \in Present \/ wanted[q] = 0) => db[q].version = 0
      BY <1>2, <2>1 DEF VersionsFollow
    <2>4. wanted'[q] = 0 => wanted[q] = 0
      BY <1>6, <1>7
    <2>5. QED
      BY <1>8, <2>2, <2>3, <2>4
  <1>13. NothingMadeIsLost'
    <2> SUFFICES ASSUME NEW q \in Resources
                 PROVE  /\ wanted'[q] = 0 => RemovalPending(q)'
                        /\ wanted'[q] \in 1..MaxClock => ChangePending(q)'
      BY DEF NothingMadeIsLost
    <2>1. ASSUME wanted'[q] = 0 PROVE RemovalPending(q)'
      <3>1. RemovalPending(q)
        BY <1>6, <1>7, <2>1 DEF NothingMadeIsLost
      <3>2. CASE \E op \in t.ops : op.resource = q
        <4>1. q \in seen \cup Removing
          BY <1>4, <3>2 DEF Planned
        <4>2. QED
          BY <1>2, <1>4, <3>1, <4>1 DEF RemovalPending
      <3>3. CASE \A op \in t.ops : op.resource # q
        <4>1. db'[q] = db[q]
          BY <1>8, <3>3
        <4>2. QED
          BY <1>1, <1>2, <1>4, <3>1, <4>1 DEF RemovalPending, Stored
      <3>4. QED
        BY <3>2, <3>3
    <2>2. ASSUME wanted'[q] \in 1..MaxClock PROVE ChangePending(q)'
      <3>1. wanted'[q] = wanted[q]
        BY <1>6, <1>7, <2>2
      <3>2. ChangePending(q)
        BY <2>2, <3>1 DEF NothingMadeIsLost
      <3>3. QED
        BY <1>2, <1>3, <1>4, <3>1, <3>2 DEF ChangePending
    <2>3. QED
      BY <2>1, <2>2
  <1>14. QED
    BY <1>9, <1>10, <1>11, <1>12, <1>13

LEMMA ForeignStep ==
    ASSUME IInv, NEW r \in Resources, ForeignWrite(r)
    PROVE  Consistent'
  <1> USE DEF IInv, Types, Consistent
  <1>1. /\ UNCHANGED <<value, changed, seen, hydrating, dirty, removed, version, tasks, wanted,
                       phase>>
        /\ Environment # {} /\ touched' = touched \cup {r} /\ clock' = clock + 1
        /\ \A q \in Resources \ {r} : db'[q] = db[q]
    BY DEF ForeignWrite, Does, trackerVars, markVars, TypeOK
  <1>2. Present' = Present /\ Removing' = Removing /\ Tracked' = Tracked
    BY <1>1 DEF Present, Removing, Tracked
  <1>3. Planned' /\ Done' /\ Alone'
    BY <1>1, PlanKept DEF Done, Alone
  <1>4. Marks'
    <2>1. ASSUME NEW q \in dirty \cup Tracked \cup UNION {t.marks : t \in tasks}
          PROVE  value[q] <= clock'
      <3>1. q \in Resources /\ value[q] <= clock
        BY <2>1 DEF Marks, Tracked, TypeOK, CommitTask
      <3>2. value[q] \in Nat /\ clock \in Nat
        BY <3>1, ResourcesAssumption DEF TypeOK
      <3>3. QED
        BY <1>1, <3>1, <3>2
    <2>2. QED
      BY <1>1, <1>2, <2>1 DEF Marks
  <1>5. VersionsFollow'
    BY <1>1, <1>2 DEF VersionsFollow
  <1>6. NothingMadeIsLost'
    <2> SUFFICES ASSUME NEW q \in Resources
                 PROVE  /\ wanted'[q] = 0 => RemovalPending(q)'
                        /\ wanted'[q] \in 1..MaxClock => ChangePending(q)'
      BY DEF NothingMadeIsLost
    <2>1. wanted[q] = 0 => RemovalPending(q)'
      BY <1>1, <1>2 DEF NothingMadeIsLost, RemovalPending, Stored
    <2>2. wanted[q] \in 1..MaxClock => ChangePending(q)'
      BY <1>1, <1>2 DEF NothingMadeIsLost, ChangePending
    <2>3. QED
      BY <1>1, <2>1, <2>2
  <1>7. QED
    BY <1>3, <1>4, <1>5, <1>6

LEMMA SucceededStep ==
    ASSUME IInv, NEW t \in tasks, CommitSucceeded(t)
    PROVE  Consistent'
  <1> USE DEF IInv, Types, Consistent
  <1>1. /\ UNCHANGED <<value, changed, seen, hydrating, dirty, removed, db, clock, wanted,
                       touched>>
        /\ tasks = {t} /\ tasks' = {} /\ t.result = "ok" /\ phase' = "Update"
        /\ \A q \in Resources : version'[q] = VersionAfter(t, q)
    BY DEF CommitSucceeded, trackerVars, markVars, boundVars, OneTask
  <1>2. /\ Present' = Present /\ Tracked' = Tracked
        /\ Removing = removed \cup t.gone /\ Removing' = removed
    BY <1>1 DEF Present, Removing, Tracked
  <1>3. Planned' /\ Done' /\ Alone'
    BY <1>1 DEF Planned, Done, Alone
  <1>4. Marks'
    BY <1>1, <1>2 DEF Marks
  <1>5. ASSUME NEW q \in Resources, \A op \in t.ops : op.resource # q
        PROVE  version'[q] = version[q]
    BY <1>1, <1>5 DEF VersionAfter, Of
  <1>6. ASSUME NEW op \in t.ops
        PROVE  version'[op.resource] = IF op.kind = "delete" THEN 0 ELSE op.expected + 1
    <2>1. /\ op.resource \in Resources /\ op.kind \in {"create", "update", "delete"}
          /\ op.expected = version[op.resource]
          /\ \A other \in t.ops : op.resource = other.resource => op = other
      BY DEF Planned, TypeOK, CommitTask, Operation
    <2>2. CASE op.kind = "delete"
      <3>1. op.resource \in Of({"delete"}, t) /\ op.resource \notin Of({"create", "update"}, t)
        BY <2>1, <2>2 DEF Of
      <3>2. QED
        BY <1>1, <2>1, <2>2, <3>1 DEF VersionAfter
    <2>3. CASE op.kind # "delete"
      <3>1. op.resource \in Of({"create", "update"}, t)
        BY <2>1, <2>3 DEF Of
      <3>2. QED
        BY <1>1, <2>1, <2>3, <3>1 DEF VersionAfter
    <2>4. QED
      BY <2>2, <2>3
  <1>7. VersionsFollow'
    <2> SUFFICES ASSUME NEW q \in Resources \ touched
                 PROVE  /\ version'[q] # 0 => db[q].version = version'[q]
                        /\ version'[q] = 0 /\ (q \in Present \/ wanted[q] = 0) =>
                              db[q].version = 0
      BY <1>1, <1>2 DEF VersionsFollow
    <2>1. CASE \E op \in t.ops : op.resource = q
      <3>1. PICK op \in t.ops : op.resource = q
        BY <2>1
      <3>2. db[q].version = IF op.kind = "delete" THEN 0 ELSE op.expected + 1
        BY <1>1, <3>1 DEF VersionsFollow
      <3>3. version'[q] = db[q].version
        BY <1>6, <3>1, <3>2
      <3>4. QED
        BY <3>3
    <2>2. CASE \A op \in t.ops : op.resource # q
      BY <1>1, <1>5, <2>2 DEF VersionsFollow
    <2>3. QED
      BY <2>1, <2>2
  <1>8. NothingMadeIsLost'
    <2> SUFFICES ASSUME NEW q \in Resources
                 PROVE  /\ wanted'[q] = 0 => RemovalPending(q)'
                        /\ wanted'[q] \in 1..MaxClock => ChangePending(q)'
      BY DEF NothingMadeIsLost
    <2>1. ASSUME wanted[q] = 0 PROVE RemovalPending(q)'
      <3>1. RemovalPending(q)
        BY <2>1 DEF NothingMadeIsLost
      <3>2. CASE q \in t.gone /\ q \notin touched
        <4>1. \A op \in t.ops : op.resource = q => op.kind = "delete" /\ op.value = 0
          BY <3>2 DEF Planned
        <4>2. \A op \in t.ops : op.resource # q
          BY <1>1, <2>1, <4>1 DEF Done
        <4>3. version[q] = 0
          BY <3>2, <4>2 DEF Planned
        <4>4. db[q].version = 0
          BY <1>1, <2>1, <3>2, <4>2, <4>3 DEF VersionsFollow
        <4>5. QED
          BY <1>1, <1>2, <3>1, <4>4 DEF RemovalPending, Stored
      <3>3. CASE q \notin t.gone \/ q \in touched
        BY <1>1, <1>2, <3>1, <3>3 DEF RemovalPending, Stored
      <3>4. QED
        BY <3>2, <3>3
    <2>2. ASSUME wanted[q] \in 1..MaxClock PROVE ChangePending(q)'
      <3>1. ChangePending(q)
        BY <2>2 DEF NothingMadeIsLost
      <3>2. \A op \in t.ops : ~(op.resource = q /\ op.value = wanted[q])
        BY <1>1 DEF Done
      <3>3. QED
        BY <1>1, <1>2, <3>1, <3>2 DEF ChangePending
    <2>3. QED
      BY <1>1, <2>1, <2>2
  <1>9. QED
    BY <1>3, <1>4, <1>7, <1>8

LEMMA FailedStep ==
    ASSUME IInv, NEW t \in tasks, CommitFailed(t)
    PROVE  Consistent'
  <1> USE DEF IInv, Types, Consistent
  <1>1. /\ UNCHANGED <<value, changed, seen, hydrating, version, db, clock, wanted, touched>>
        /\ tasks = {t} /\ tasks' = {} /\ t.result = "err" /\ phase' = "Update"
        /\ dirty' = dirty \cup t.marks /\ removed' = removed \cup t.gone
    BY DEF CommitFailed, RemovedAfterFailure, trackerVars, boundVars, OneTask
  <1>2. /\ Present' = Present /\ Tracked' = Tracked
        /\ Removing = removed \cup t.gone /\ Removing' = removed \cup t.gone
    BY <1>1 DEF Present, Removing, Tracked
  <1>3. Planned' /\ Done' /\ Alone'
    BY <1>1 DEF Planned, Done, Alone
  <1>4. Marks'
    BY <1>1, <1>2 DEF Marks
  <1>5. VersionsFollow'
    BY <1>1, <1>2 DEF VersionsFollow
  <1>6. NothingMadeIsLost'
    <2> SUFFICES ASSUME NEW q \in Resources
                 PROVE  /\ wanted'[q] = 0 => RemovalPending(q)'
                        /\ wanted'[q] \in 1..MaxClock => ChangePending(q)'
      BY DEF NothingMadeIsLost
    <2>1. wanted[q] = 0 => RemovalPending(q)'
      BY <1>1, <1>2 DEF NothingMadeIsLost, RemovalPending, Stored
    <2>2. ASSUME wanted[q] \in 1..MaxClock PROVE ChangePending(q)'
      <3>1. ChangePending(q) /\ wanted[q] # 0
        BY <2>2 DEF NothingMadeIsLost
      <3>2. q \notin removed'
        BY <1>1, <1>2, <3>1 DEF ChangePending, Marks, Present
      <3>3. \A op \in t.ops : op.resource = q /\ op.value = wanted[q] => q \in t.marks
        BY <3>1 DEF Planned
      <3>4. q \in dirty' \cup Tracked'
        BY <1>1, <1>2, <3>1, <3>3 DEF ChangePending
      <3>5. QED
        BY <1>1, <3>1, <3>2, <3>4 DEF ChangePending
    <2>3. QED
      BY <1>1, <2>1, <2>2
  <1>7. QED
    BY <1>3, <1>4, <1>5, <1>6

LEMMA InvariantStep ==
    ASSUME Ordinary, IInv, [Next]_vars
    PROVE  IInv'
  <1>1. Types'
    BY TypesStep DEF IInv
  <1>2. Consistent'
    BY StepCases, ChangeStep, RemoveStep, LoadAndChangeStep, LoadStep, MarkAbsentStep,
       LoadFailsStep, FrameStep, StartCommitStep, TransactionStep, ForeignStep, SucceededStep, FailedStep
  <1>3. QED
    BY <1>1, <1>2 DEF IInv

LEMMA Invariant == ASSUME Ordinary PROVE Spec => []IInv
  <1>1. IInv /\ [Next]_vars => IInv'
    BY InvariantStep
  <1>2. Init => IInv
    BY InitConsistent, TypesInit DEF IInv
  <1>3. QED
    BY <1>1, <1>2, PTL DEF Spec

\* Hydration, overlapping commits, conflicts and failures lose nothing that the application
\* has made of a resource.
THEOREM NothingLost == ASSUME Ordinary PROVE Spec => []NothingMadeIsLost
  <1>1. IInv => NothingMadeIsLost
    BY DEF IInv, Consistent
  <1>2. QED
    BY <1>1, Invariant, PTL

\* A transaction is refused only when a document it writes has changed behind the session's
\* back: the cached version follows the document through its lives.
THEOREM ConflictsAreReal == ASSUME Ordinary PROVE Spec => []ConflictOnlyFromOutside
  <1>1. ASSUME IInv PROVE ConflictOnlyFromOutside
    <2> USE DEF IInv, Types, Consistent
    <2> SUFFICES ASSUME NEW t \in tasks, t.result = "none", NEW op \in t.ops,
                        op.resource \notin touched
                 PROVE  Accepts(op)
      BY DEF ConflictOnlyFromOutside, Executable
    <2>1. op.resource \in Resources \ touched
      BY <1>1 DEF TypeOK, CommitTask, Operation
    <2>2. db[op.resource].version = op.expected
      BY <1>1, <2>1 DEF VersionsFollow
    <2>3. op.kind # "create" => op.expected # 0
      BY <1>1 DEF Planned
    <2>4. QED
      BY <2>2, <2>3 DEF Accepts, ArangoAccepts, PostgresAccepts
  <1>2. QED
    BY <1>1, Invariant, PTL

\* A commit that finds no operation, and is answered Ok, leaves no change unsaved.
THEOREM EmptyCommits == ASSUME Ordinary PROVE Spec => []EmptyCommitSavesAll
  <1>1. ASSUME IInv PROVE EmptyCommitSavesAll
    <2> USE DEF IInv, Types, Consistent
    <2> SUFFICES ASSUME phase = "PreCommit", tasks = {}, Upserts = {},
                        NEW r \in Resources, wanted[r] \in 1..MaxClock
                 PROVE  FALSE
      BY DEF EmptyCommitSavesAll
    <2>1. value[r] = wanted[r] /\ r \in dirty \ removed
      BY <1>1 DEF NothingMadeIsLost, ChangePending, Marks, Tracked
    <2>2. r \in Serialized
      BY <2>1, ResourcesAssumption DEF Serialized, Present
    <2>3. QED
      BY <2>2, AllOperations
  <1>2. QED
    BY <1>1, Invariant, PTL

-----------------------------------------------------------------------------
(* The session implements VersionedDocuments.                              *)

\* What the session holds while no commit has succeeded, and when one has.
LEMMA Held ==
    ASSUME IInv
    PROVE  /\ (\A t \in tasks : t.result # "ok") => VersionsHeld = version
           /\ \A t \in tasks : t.result = "ok" =>
                 VersionsHeld = [r \in Resources |-> VersionAfter(t, r)]
  BY DEF IInv, Types, TypeOK, OneTask, VersionsHeld

LEMMA HeldNext ==
    ASSUME IInv'
    PROVE  /\ (\A t \in tasks' : t.result # "ok") => VersionsHeld' = version'
           /\ \A t \in tasks' : t.result = "ok" =>
                 VersionsHeld' = [r \in Resources |-> VersionAfter(t, r)']
  BY DEF IInv, Types, TypeOK, OneTask, VersionsHeld

\* The cached version a commit leaves is that of the document it has written.
LEMMA VersionAfterWritten ==
    ASSUME IInv, NEW t \in tasks, NEW r \in Resources
    PROVE  /\ (\A op \in t.ops : op.resource # r) => VersionAfter(t, r) = version[r]
           /\ \A op \in t.ops : op.resource = r =>
                 VersionAfter(t, r) = IF op.kind = "delete" THEN 0 ELSE op.expected + 1
  <1> USE DEF IInv, Types, Consistent
  <1>1. ASSUME \A op \in t.ops : op.resource # r PROVE VersionAfter(t, r) = version[r]
    BY <1>1 DEF VersionAfter, Of
  <1>2. ASSUME NEW op \in t.ops, op.resource = r
        PROVE  VersionAfter(t, r) = IF op.kind = "delete" THEN 0 ELSE op.expected + 1
    <2>1. /\ op.kind \in {"create", "update", "delete"} /\ op.expected = version[r]
          /\ \A other \in t.ops : other.resource = r => other = op
      BY <1>2 DEF Planned, TypeOK, CommitTask, Operation
    <2>2. r \in Of({"create", "update"}, t) <=> op.kind # "delete"
      BY <1>2, <2>1 DEF Of
    <2>3. r \in Of({"delete"}, t) <=> op.kind = "delete"
      BY <1>2, <2>1 DEF Of
    <2>4. QED
      BY <2>1, <2>2, <2>3 DEF VersionAfter
  <1>3. QED
    BY <1>1, <1>2

\* A transaction that is executed is a write of all its documents.
LEMMA LandedWrites ==
    ASSUME IInv, NEW t \in tasks, t.result = "none", Executable(t.ops),
           \A op \in t.ops : ~Ignored(op), db' = Written(t.ops)
    PROVE  /\ {op.resource : op \in t.ops} \in SUBSET Resources
           /\ Promise!Write({op.resource : op \in t.ops})
           /\ \A op \in t.ops : db'[op.resource].version =
                 IF op.kind = "delete" THEN 0 ELSE op.expected + 1
  <1> USE DEF IInv, Types, Consistent
  <1>1. VersionsHeld = version
    BY Held DEF OneTask
  <1>2. /\ \A op \in t.ops : op.expected < MaxVersion /\ op.resource \in Resources
        /\ \A op, other \in t.ops : op.resource = other.resource => op = other
    BY DEF Bounded, Planned, TypeOK, CommitTask, Operation
  <1>3. \A op \in t.ops : db'[op.resource].version =
           IF op.kind = "delete" THEN 0 ELSE op.expected + 1
    BY <1>2, WrittenDocuments
  <1>4. ASSUME NEW op \in t.ops
        PROVE  op.expected = version[op.resource] /\ db[op.resource].version = op.expected
    <2>1. Accepts(op) /\ ~Ignored(op) /\ op.expected = version[op.resource]
          /\ (op.kind = "create" => op.expected = 0)
      BY DEF Executable, Planned
    <2>2. QED
      BY <2>1 DEF Accepts, ArangoAccepts, PostgresAccepts, Ignored, ArangoIgnores, Stored
  <1>5. ASSUME NEW r \in Resources \ {op.resource : op \in t.ops} PROVE db'[r] = db[r]
    BY <1>2, WrittenDocuments
  <1>6. ASSUME NEW r \in {op.resource : op \in t.ops}
        PROVE  db[r].version = version[r] /\ db'[r].version \in {0, version[r] + 1}
    BY <1>3, <1>4
  <1>7. QED
    BY <1>1, <1>2, <1>3, <1>5, <1>6 DEF Promise!Write

LEMMA ImplementsInit == Init => Promise!Init
  <1> SUFFICES ASSUME Init PROVE Promise!Init
    OBVIOUS
  <1>1. \A r \in Resources : db[r].version \in Nat
    BY DEF Init, Absent
  <1>2. VersionsHeld = [r \in Resources |-> 0]
    BY DEF Init, VersionsHeld
  <1>3. QED
    BY <1>1, <1>2 DEF Promise!Init, Promise!NothingKnown

LEMMA ImplementsStep ==
    ASSUME Ordinary, IInv, [Next]_vars
    PROVE  [Promise!Next]_(Promise!vars)
  <1> SUFFICES Promise!Next \/ UNCHANGED <<db, VersionsHeld>>
    BY DEF Promise!vars
  <1>1. IInv' /\ Types /\ OneTask /\ ~Does("loadInFlight")
    BY InvariantStep DEF IInv, Types, Ordinary, Does
  <1>2. CASE UNCHANGED <<tasks, version, db>>
    BY <1>2 DEF VersionsHeld, VersionAfter, Of
  <1>3. ASSUME NEW rs \in SUBSET Resources, tasks = {}, tasks' = {}, db' = db,
               version' = [r \in Resources |-> IF r \in rs THEN db[r].version ELSE version[r]]
        PROVE  Promise!Next
    <2>1. VersionsHeld = version /\ VersionsHeld' = version'
      BY <1>1, <1>3, Held, HeldNext
    <2>2. Promise!Learn
      BY <1>3, <2>1 DEF Promise!Learn
    <2>3. QED
      BY <2>2 DEF Promise!Next
  <1>4. ASSUME NEW rs \in SUBSET Resources, Load(rs) PROVE Promise!Next
    BY <1>1, <1>3, <1>4 DEF Load, MayLoad, Materialized
  <1>5. ASSUME NEW r \in Resources, LoadAndChange(r) PROVE Promise!Next
    <2>1. /\ tasks = {} /\ tasks' = {} /\ db' = db
          /\ version' = [version EXCEPT ![r] = db[r].version]
      BY <1>1, <1>5 DEF LoadAndChange, MayLoad
    <2>2. version' = [q \in Resources |-> IF q \in {r} THEN db[q].version ELSE version[q]]
      BY <1>1, <2>1 DEF Types, TypeOK
    <2>3. QED
      BY <1>3, <2>1, <2>2
  <1>6. ASSUME NEW r \in Resources, NotMaterialized(r), UNCHANGED <<db, tasks>>
        PROVE  Promise!Next
    <2>1. tasks = {} /\ version' = [version EXCEPT ![r] = db[r].version]
      BY <1>1, <1>6 DEF NotMaterialized, MayLoad
    <2>2. version' = [q \in Resources |-> IF q \in {r} THEN db[q].version ELSE version[q]]
      BY <1>1, <2>1 DEF Types, TypeOK
    <2>3. QED
      BY <1>3, <1>6, <2>1, <2>2
  <1>7. ASSUME NEW r \in Resources, MarkAbsent(r) \/ LoadFails(r)
        PROVE  Promise!Next \/ UNCHANGED <<db, VersionsHeld>>
    BY <1>2, <1>6, <1>7 DEF MarkAbsent, LoadFails
  <1>8. CASE StartCommit
    <2>1. /\ tasks = {} /\ UNCHANGED <<db, version>>
          /\ \A t \in tasks' : t.result = "none"
      BY <1>8 DEF StartCommit
    <2>2. QED
      BY <1>1, <2>1, Held, HeldNext
  <1>9. ASSUME NEW t \in tasks, CommitFailed(t) PROVE UNCHANGED <<db, VersionsHeld>>
    <2>1. /\ tasks = {t} /\ tasks' = {} /\ t.result = "err" /\ UNCHANGED <<db, version>>
      BY <1>1, <1>9 DEF CommitFailed, OneTask
    <2>2. QED
      BY <1>1, <2>1, Held, HeldNext
  <1>10. ASSUME NEW t \in tasks, CommitSucceeded(t) PROVE UNCHANGED <<db, VersionsHeld>>
    <2>1. /\ tasks' = {} /\ t.result = "ok" /\ db' = db
          /\ version' = [r \in Resources |-> VersionAfter(t, r)]
      BY <1>1, <1>10 DEF CommitSucceeded, OneTask
    <2>2. QED
      BY <1>1, <2>1, Held, HeldNext
  <1>11. ASSUME NEW t \in tasks,
                \/ TransactionCommits(t) \/ TransactionConflicts(t)
                \/ ConnectionLost(t) \/ AnswerLost(t)
         PROVE  Promise!Next \/ UNCHANGED <<db, VersionsHeld>>
    <2>1. PICK result \in {"ok", "err"} :
             /\ Finish(t, result)
             /\ \/ result = "err" /\ db' = db
                \/ db' = Written(t.ops) /\ \A op \in t.ops : ~Ignored(op)
      BY <1>11, Outcome
    <2>2. tasks = {t} /\ t.result = "none" /\ version' = version
      BY <1>1, <2>1, Finished
    <2>3. PICK u \in CommitTask : tasks' = {u} /\ u.result = result /\ u.ops = t.ops
      BY <1>1, <2>1, Finished
    <2>4. VersionsHeld = version
      BY <2>2, Held
    <2>5. result = "err" => VersionsHeld' = VersionsHeld
      BY <1>1, <2>2, <2>3, <2>4, HeldNext
    <2>6. CASE result = "err" /\ db' = db
      BY <2>5, <2>6
    <2>7. CASE db' = Written(t.ops) /\ \A op \in t.ops : ~Ignored(op)
      <3> DEFINE rs == {op.resource : op \in t.ops}
      <3>1. Executable(t.ops) \/ db' = db
        BY <1>11 DEF TransactionCommits, TransactionConflicts, ConnectionLost, AnswerLost
      <3>2. CASE ~Executable(t.ops)
        <4>1. Finish(t, "err")
          BY <1>11, <3>2
             DEF TransactionCommits, TransactionConflicts, ConnectionLost, AnswerLost
        <4>2. \E v \in CommitTask : tasks' = {v} /\ v.result = "err"
          BY <1>1, <4>1, Finished
        <4>3. result = "err"
          BY <2>3, <4>2
        <4>4. QED
          BY <2>5, <3>1, <3>2, <4>3
      <3>3. CASE Executable(t.ops)
        <4>1. /\ rs \in SUBSET Resources /\ Promise!Write(rs)
              /\ \A op \in t.ops : db'[op.resource].version =
                    IF op.kind = "delete" THEN 0 ELSE op.expected + 1
          BY <2>2, <2>7, <3>3, LandedWrites
        <4>2. CASE result = "err"
          <5>1. Promise!CommitUnheard
            BY <2>5, <4>1, <4>2 DEF Promise!CommitUnheard
          <5>2. QED
            BY <5>1 DEF Promise!Next
        <4>3. CASE result = "ok"
          <5>1. VersionsHeld' = [r \in Resources |-> VersionAfter(u, r)']
            BY <1>1, <2>3, <4>3, HeldNext
          <5>2. \A r \in Resources : VersionAfter(u, r)' = VersionAfter(t, r)
            BY <2>2, <2>3 DEF VersionAfter, Of
          <5>3. ASSUME NEW r \in Resources
                PROVE  VersionAfter(t, r) = IF r \in rs THEN db'[r].version ELSE version[r]
            BY <4>1, VersionAfterWritten
          <5>4. VersionsHeld' = [r \in Resources |-> IF r \in rs THEN db'[r].version
                                                     ELSE VersionsHeld[r]]
            BY <2>4, <5>1, <5>2, <5>3
          <5>5. Promise!Commit
            BY <4>1, <5>4 DEF Promise!Commit
          <5>6. QED
            BY <5>5 DEF Promise!Next
        <4>4. QED
          BY <4>2, <4>3
      <3>4. QED
        BY <3>2, <3>3
    <2>8. QED
      BY <2>1, <2>6, <2>7
  <1>12. ASSUME NEW r \in Resources, ForeignWrite(r) PROVE Promise!Next
    <2>1. /\ db' = [db EXCEPT ![r] = [version |-> @.version + 1, value |-> clock + 1]]
          /\ UNCHANGED <<tasks, version>>
      BY <1>12 DEF ForeignWrite
    <2>2. UNCHANGED VersionsHeld
      BY <2>1 DEF VersionsHeld, VersionAfter, Of
    <2>3. /\ db'[r].version = db[r].version + 1
          /\ \A q \in Resources \ {r} : db'[q] = db[q]
      BY <1>1, <2>1 DEF Types, TypeOK
    <2>4. Promise!Interfere
      BY <2>2, <2>3 DEF Promise!Interfere
    <2>5. QED
      BY <2>4 DEF Promise!Next
  <1>13. QED
    BY StepCases, <1>2, <1>4, <1>5, <1>8, <1>9, <1>10, <1>11, <1>12, <1>7
       DEF Insert, Remove, ChangePresent, TrackChanges, NoCommit,
           NothingFinished, vars

\* The session writes the documents of resources as VersionedDocuments does: together, and
\* only over the versions it has read or written itself.
THEOREM Implementation == ASSUME Ordinary PROVE Spec => ImplementsVersionedDocuments
  <1>1. IInv /\ [Next]_vars => [Promise!Next]_(Promise!vars)
    BY ImplementsStep
  <1>2. QED
    BY <1>1, ImplementsInit, Invariant, PTL
       DEF Spec, ImplementsVersionedDocuments, Promise!Spec

=============================================================================
