----------------------- MODULE CommitPipeline_proofs -----------------------
(***************************************************************************)
(* Safety of the commit pipeline for every set of units, links, callers    *)
(* and stores and for every value of the bounds.                           *)
(***************************************************************************)
EXTENDS CommitPipeline, FiniteSetTheorems, TLAPS

-----------------------------------------------------------------------------
(* The inductive invariant.                                                *)

\* At most one task, and CommitStatus is Idle exactly when there is none.
OneTask ==
    /\ \A t1, t2 \in tasks : t1 = t2
    /\ status = "Idle" <=> tasks = {}

\* What a task's snapshot has to do with the world and the database.  The units it
\* did not take were durable when it started and stay so, because it is alone; those
\* that were absent are so still, or have been brought back and marked.
SnapshotCoherent ==
    \A t \in tasks, u \in Tracked :
        /\ u \in t.taken \cup t.void \/ durable[u] = t.snap[u]
        /\ t.result = "ok" => u \in t.void \/ durable[u] = t.snap[u]
        /\ u \in t.void => u \in absent \cup dirty
        /\ t.snap[u] # world[u] => u \in dirty
        /\ durable[u] <= t.snap[u]
        /\ t.snap[u] <= world[u]

\* The database never runs ahead of the world.
DurableBehind == \A u \in Tracked : durable[u] <= world[u]

\* Where a promise to a caller stands on its way to an answer.  Nothing is promised of
\* a unit that its commit does not find.
PromiseCarried ==
    \A w \in Waiters, u \in Tracked :
        /\ promised[w][u] <= world[u]
        /\ Queued(w) /\ u \in absent => promised[w][u] = 0
        /\ \A t \in tasks : t.cid = w =>
               promised[w][u] <= t.snap[u] /\ (u \in t.void => promised[w][u] = 0)
        /\ \A m \in completed : m.cid = w /\ m.ok => promised[w][u] <= durable[u]
        /\ waiter[w] = "ok" => promised[w][u] <= durable[u]

\* A correlation id nobody has registered yet appears nowhere.
Fresh ==
    \A w \in Waiters : waiter[w] = "new" =>
        /\ \A k \in 1..Len(triggers) : triggers[k].cid # w
        /\ \A t \in tasks : t.cid # w
        /\ \A m \in completed : m.cid # w

IInv ==
    /\ TypeOK
    /\ OneTask
    /\ NoMarkLost
    /\ SnapshotCoherent
    /\ DurableBehind
    /\ PromiseCarried
    /\ Fresh

-----------------------------------------------------------------------------
(* Type correctness.                                                       *)

LEMMA TypeInit == Init => TypeOK
  <1>1. Zero \in Contents
    BY PipelineAssumption DEF Zero, Contents
  <1>2. 0 \in 0..MaxFailures
    BY PipelineAssumption
  <1>3. ASSUME Init PROVE <<>> \in Seq(TriggerCommit)
    OBVIOUS
  <1>4. QED
    BY <1>1, <1>2, <1>3 DEF Init, TypeOK, CommitStatus

\* A drained queue leaves the first message, which is well typed.
LEMMA FirstType ==
    ASSUME TypeOK, triggers # <<>>
    PROVE  First \in TriggerCommit
  <1>1. Len(triggers) \in Nat /\ Len(triggers) >= 1
    BY DEF TypeOK
  <1>2. QED
    BY <1>1 DEF TypeOK, First

LEMMA TypeStep == TypeOK /\ [Next]_vars => TypeOK'
  <1> SUFFICES ASSUME TypeOK, [Next]_vars PROVE TypeOK'
    OBVIOUS
  <1> USE PipelineAssumption
  <1>1. ASSUME NEW u \in Units, Change(u) PROVE TypeOK'
    BY <1>1 DEF TypeOK, Change, callerVars, ghosts, Contents
  <1>2. ASSUME NEW u \in Units, Withdraw(u) PROVE TypeOK'
    <2>1. ASSUME NEW c \in Contents PROVE [c EXCEPT ![u] = 0] \in Contents
      BY DEF Contents
    <2>2. promised' \in [Waiters -> Contents]
      BY <1>2, <2>1 DEF Withdraw, TypeOK
    <2>3. QED
      BY <1>2, <2>2 DEF TypeOK, Withdraw, ghosts
  <1>3. ASSUME NEW l \in Links, Touch(l) PROVE TypeOK'
    BY <1>3 DEF TypeOK, Touch, callerVars, ghosts, dataVars
  <1>4. ASSUME NEW cid \in Cids, NEW s \in Stores \cup {EmptyStore}, WriteTrigger(cid, s)
        PROVE  /\ triggers' \in Seq(TriggerCommit)
               /\ ungated' \in BOOLEAN
    <2>1. [cid |-> cid, store |-> s, followUp |-> FALSE] \in TriggerCommit
      BY DEF TriggerCommit
    <2>2. QED
      BY <1>4, <2>1 DEF TypeOK, WriteTrigger, CommitInFlight
  <1>5. ASSUME NEW w \in Waiters, NEW s \in Stores \cup {EmptyStore}, Request(w, s)
        PROVE  TypeOK'
    <2>1. WriteTrigger(w, s) /\ w \in Cids
      BY <1>5 DEF Request, Cids
    <2>2. [u \in Units |-> IF u \in absent THEN 0 ELSE world[u]] \in Contents
      BY DEF TypeOK, Contents
    <2>3. promised' \in [Waiters -> Contents]
      BY <1>5, <2>2 DEF Request, TypeOK
    <2>4. QED
      BY <1>4, <1>5, <2>1, <2>3 DEF TypeOK, Request, WriteTrigger, dataVars
  <1>6. ASSUME NEW s \in Stores \cup {EmptyStore}, Trigger(s) PROVE TypeOK'
    <2>1. WriteTrigger(NoCid, s) /\ NoCid \in Cids
      BY <1>6 DEF Trigger, Cids
    <2>2. QED
      BY <1>4, <1>6, <2>1 DEF TypeOK, Trigger, WriteTrigger, dataVars, callerVars
  <1>7. ASSUME NEW w \in Waiters, Timeout(w) PROVE TypeOK'
    BY <1>7 DEF TypeOK, Timeout, dataVars, ghosts
  <1>8. CASE EnterPostUpdate
    BY <1>8 DEF TypeOK, EnterPostUpdate, dataVars, callerVars, ghosts
  <1>9. CASE CommitEventListener
    BY <1>9 DEF TypeOK, CommitEventListener, RunPreCommit, PreCommit, Answer, dataVars,
                ghosts
  <1>10. CASE HandleCommitTrigger
    <2>1. CASE NoTrigger
      BY <2>1 DEF TypeOK, NoTrigger, RunPreCommit, PreCommit, dataVars, callerVars, ghosts
    <2>2. ASSUME DrainTriggers
          PROVE  /\ First \in TriggerCommit
                 /\ triggers' \in Seq(TriggerCommit)
                 /\ coalesced' \subseteq Waiters
                 /\ phase' \in {"Update", "PreCommit", "Commit"}
                 /\ ran' \subseteq PreCommit
                 /\ UNCHANGED <<world, absent, durable, listeners, waiter, promised, ungated>>
      BY <2>2, FirstType DEF TypeOK, DrainTriggers, RunPreCommit, PreCommit, dataVars,
                             callerVars
    <2>3. CASE QueueFollowUp
      BY <2>2, <2>3 DEF TypeOK, QueueFollowUp, CommitStatus
    <2>. DEFINE message(ok) == [cid |-> First.cid, ok |-> ok]
    <2>4. ASSUME DrainTriggers
          PROVE  message(TRUE) \in CommitCompleted /\ message(FALSE) \in CommitCompleted
      BY <2>2, <2>4 DEF TriggerCommit, CommitCompleted
    <2>5. CASE RejectEmptyStore
      <3>1. completed' = completed \cup {message(FALSE)}
        BY <2>5 DEF RejectEmptyStore
      <3>2. QED
        BY <2>2, <2>5, <2>4, <3>1 DEF TypeOK, RejectEmptyStore
    <2>6. CASE NothingToCommit
      <3>1. completed' = completed \cup {message(TRUE)}
        BY <2>6 DEF NothingToCommit
      <3>2. QED
        BY <2>2, <2>6, <2>4, <3>1 DEF TypeOK, NothingToCommit
    <2>7. CASE PrepareFails
      <3>1. completed' = completed \cup {message(FALSE)}
        BY <2>7 DEF PrepareFails
      <3>2. failures' \in 0..MaxFailures
        BY <2>7 DEF TypeOK, PrepareFails
      <3>3. completed' \subseteq CommitCompleted
        BY <2>7, <2>4, <3>1 DEF TypeOK, PrepareFails
      <3>4. QED
        BY <2>2, <2>7, <3>2, <3>3 DEF TypeOK, PrepareFails
    <2>8. CASE StartCommit
      BY <2>2, <2>8 DEF TypeOK, StartCommit, TriggerCommit, CommitTask, CommitStatus,
                        Tracked
    <2>9. QED
      BY <1>10, <2>1, <2>3, <2>5, <2>6, <2>7, <2>8 DEF HandleCommitTrigger
  <1>11. CASE NothingFinished
    BY <1>11 DEF TypeOK, NothingFinished, dataVars, callerVars, ghosts
  <1>12. ASSUME NEW t \in tasks, HandleCommitCompleted(t) PROVE TypeOK'
    <2>1. t \in CommitTask
      BY DEF TypeOK
    <2>. DEFINE followUp == [cid |-> NoCid, store |-> t.store, followUp |-> TRUE]
    <2>2. followUp \in TriggerCommit
      BY <2>1 DEF CommitTask, TriggerCommit, Cids
    <2>3. <<followUp>> \in Seq(TriggerCommit) /\ <<>> \in Seq(TriggerCommit)
      BY <2>2
    <2>4. FollowUpOf(t) \in {<<followUp>>, <<>>}
      BY DEF FollowUpOf
    <2>5. FollowUpOf(t) \in Seq(TriggerCommit)
      BY <2>3, <2>4
    <2>6. triggers' \in Seq(TriggerCommit)
      BY <1>12, <2>5 DEF HandleCommitCompleted, TypeOK
    <2>7. [cid |-> t.cid, ok |-> t.result = "ok"] \in CommitCompleted
      BY <2>1 DEF CommitTask, CommitCompleted
    <2>8. completed' \subseteq CommitCompleted /\ dirty' \subseteq Units
      BY <1>12, <2>1, <2>7 DEF HandleCommitCompleted, TypeOK, CommitTask,
                               RestoredOnFailure
    <2>9. QED
      BY <1>12, <2>6, <2>8 DEF TypeOK, HandleCommitCompleted, CommitStatus, dataVars,
                               callerVars, ghosts
  <1>13. ASSUME NEW t \in tasks, NEW r \in {"ok", "err"}, Finish(t, r)
         PROVE  tasks' \subseteq CommitTask
    BY <1>13 DEF TypeOK, Finish, CommitTask
  <1>14. ASSUME NEW t \in tasks PROVE Written(t) \in Contents
    BY DEF TypeOK, Written, CommitTask, Contents
  <1>15. ASSUME NEW t \in tasks, TransactionCommits(t) PROVE TypeOK'
    <2>1. tasks' \subseteq CommitTask
      BY <1>13, <1>15 DEF TransactionCommits
    <2>2. QED
      BY <1>14, <1>15, <2>1 DEF TypeOK, TransactionCommits, Finish, callerVars, ghosts
  <1>16. ASSUME NEW t \in tasks, TransactionFails(t) PROVE TypeOK'
    <2>1. tasks' \subseteq CommitTask
      BY <1>13, <1>16 DEF TransactionFails
    <2>2. QED
      BY <1>14, <1>16, <2>1 DEF TypeOK, TransactionFails, Finish, callerVars, ghosts
  <1>17. CASE UNCHANGED vars
    BY <1>17 DEF TypeOK, vars
  <1>18. QED
    BY <1>1, <1>3, <1>5, <1>6, <1>7, <1>8, <1>9, <1>10, <1>11, <1>12, <1>15, <1>16, <1>17,
       <1>2
       DEF Next, User, Frame, Database

\* Every variable keeps its type.
THEOREM TypeCorrect == Spec => []TypeOK
  BY TypeInit, TypeStep, PTL DEF Spec

-----------------------------------------------------------------------------
(* One task at most.                                                       *)

\* The steps that leave the tasks alone leave the data and the status alone too, or
\* are named: what the proofs below split a step into.
LEMMA StepCases ==
    ASSUME [Next]_vars
    PROVE  \/ \E u \in Units : Change(u)
           \/ \E u \in Units : Withdraw(u)
           \/ \E l \in Links : Touch(l)
           \/ \E w \in Waiters, s \in Stores \cup {EmptyStore} : Request(w, s)
           \/ \E s \in Stores \cup {EmptyStore} : Trigger(s)
           \/ \E w \in Waiters : Timeout(w)
           \/ EnterPostUpdate \/ CommitEventListener \/ NoTrigger \/ QueueFollowUp
           \/ RejectEmptyStore \/ NothingToCommit \/ PrepareFails \/ StartCommit
           \/ NothingFinished
           \/ \E t \in tasks : HandleCommitCompleted(t)
           \/ \E t \in tasks : TransactionCommits(t)
           \/ \E t \in tasks : TransactionFails(t)
           \/ UNCHANGED vars
  BY DEF Next, User, Frame, Database, HandleCommitTrigger

LEMMA OneTaskStep == TypeOK /\ OneTask /\ [Next]_vars => OneTask'
  <1> SUFFICES ASSUME TypeOK, OneTask, [Next]_vars PROVE OneTask'
    OBVIOUS
  <1>1. CASE UNCHANGED <<tasks, status>>
    BY <1>1 DEF OneTask
  <1>2. CASE QueueFollowUp
    BY <1>2 DEF OneTask, QueueFollowUp, MayStart
  <1>3. CASE StartCommit
    BY <1>3 DEF OneTask, StartCommit, MayStart
  <1>4. ASSUME NEW t \in tasks, HandleCommitCompleted(t) PROVE OneTask'
    BY <1>4 DEF OneTask, HandleCommitCompleted
  <1>5. ASSUME NEW t \in tasks, NEW r \in {"ok", "err"}, Finish(t, r) PROVE OneTask'
    BY <1>5 DEF OneTask, Finish
  <1>6. QED
    BY StepCases, <1>1, <1>2, <1>3, <1>4, <1>5
       DEF Change, Withdraw, Touch, Request, WriteTrigger, Trigger, Timeout,
           EnterPostUpdate, CommitEventListener, NoTrigger, RejectEmptyStore, NothingToCommit,
           PrepareFails, NothingFinished, TransactionCommits, TransactionFails, vars

-----------------------------------------------------------------------------
(* No change is lost.                                                      *)

LEMMA Numbers ==
    ASSUME TypeOK, NEW u \in Tracked
    PROVE  /\ u \in Units /\ u \notin Links
           /\ world[u] \in Nat /\ durable[u] \in Nat
           /\ \A t \in tasks : t.snap[u] \in Nat
           /\ \A w \in Waiters : promised[w][u] \in Nat
  BY PipelineAssumption DEF TypeOK, Tracked, Contents, CommitTask

Data == NoMarkLost /\ SnapshotCoherent /\ DurableBehind

LEMMA DataStep == TypeOK /\ OneTask /\ Data /\ [Next]_vars => Data'
  <1> SUFFICES ASSUME TypeOK, OneTask, Data, [Next]_vars PROVE Data'
    OBVIOUS
  <1> USE DEF Data, NoMarkLost, SnapshotCoherent, DurableBehind
  <1>1. CASE UNCHANGED <<world, absent, durable, dirty, tasks>>
    BY <1>1
  <1>2. ASSUME NEW v \in Units, Change(v) PROVE Data'
    <2>1. ASSUME NEW u \in Tracked
          PROVE  world'[u] >= world[u] /\ (world'[u] # world[u] => u \in dirty')
      BY <1>2, <2>1, Numbers DEF Change, TypeOK, Contents
    <2>2. /\ dirty \subseteq dirty'
          /\ absent \subseteq absent' \cup dirty'
          /\ UNCHANGED <<durable, tasks>>
      BY <1>2 DEF Change
    <2>3. NoMarkLost'
      <3> SUFFICES ASSUME NEW u \in Tracked \ absent', world'[u] # durable[u]
                   PROVE  \/ u \in dirty'
                          \/ \E t \in tasks : u \in t.taken \ t.void /\ t.snap[u] = world'[u]
        BY <2>2
      <3>1. CASE world'[u] # world[u]
        BY <2>1, <3>1
      <3>2. CASE world'[u] = world[u]
        BY <2>2, <3>2
      <3>3. QED
        BY <3>1, <3>2
    <2>4. ASSUME NEW t \in tasks, NEW u \in Tracked
          PROVE  /\ t.snap[u] # world'[u] => u \in dirty'
                 /\ t.snap[u] <= world'[u]
      <3>1. (t.snap[u] # world[u] => u \in dirty) /\ t.snap[u] <= world[u]
        BY <2>4
      <3>2. world'[u] \in Nat
        BY <1>2, <2>4, Numbers DEF Change, TypeOK, Contents
      <3>3. QED
        BY <2>1, <2>2, <2>4, <3>1, <3>2, Numbers
    <2>5. SnapshotCoherent'
      BY <2>2, <2>4
    <2>6. ASSUME NEW u \in Tracked PROVE durable[u] <= world'[u]
      <3>1. world'[u] \in Nat
        BY <1>2, <2>6, Numbers DEF Change, TypeOK, Contents
      <3>2. QED
        BY <2>1, <2>6, <3>1, Numbers
    <2>7. QED
      BY <2>2, <2>3, <2>5, <2>6
  <1>3. ASSUME NEW l \in Links, Touch(l) PROVE Data'
    BY <1>3 DEF Touch, dataVars
  <1>4. ASSUME NEW v \in Units, Withdraw(v) PROVE Data'
    BY <1>4 DEF Withdraw
  <1>5. CASE StartCommit
    <2>. DEFINE t == [cid |-> First.cid, store |-> First.store, taken |-> dirty,
                      snap |-> world, void |-> absent, result |-> "none"]
    <2>1. /\ tasks' = {t}
          /\ t.taken = dirty /\ t.snap = world /\ t.void = absent /\ t.result = "none"
      BY <1>5 DEF StartCommit, MayStart, OneTask
    <2>. HIDE DEF t
    <2>2. UNCHANGED <<world, absent, durable>>
      BY <1>5 DEF StartCommit, DrainTriggers, dataVars
    <2>3. tasks = {}
      BY <1>5 DEF StartCommit, MayStart, OneTask
    <2>4. ASSUME NEW u \in Tracked
          PROVE  /\ t.snap[u] = world[u]
                 /\ world[u] # durable[u] /\ u \notin absent => u \in t.taken \ t.void
      BY <2>1, <2>3
    <2>5. NoMarkLost'
      BY <2>1, <2>2, <2>4
    <2>6. ASSUME NEW u \in Tracked
          PROVE  /\ u \in t.taken \cup t.void \/ durable[u] = t.snap[u]
                 /\ u \in t.void => u \in absent
                 /\ t.snap[u] = world[u]
                 /\ durable[u] <= t.snap[u] /\ t.snap[u] <= world[u]
      BY <2>1, <2>4, Numbers
    <2>7. SnapshotCoherent'
      BY <2>1, <2>2, <2>6
    <2>8. QED
      BY <2>2, <2>5, <2>7
  <1>6. ASSUME NEW t \in tasks, HandleCommitCompleted(t) PROVE Data'
    <2>1. tasks' = {} /\ UNCHANGED <<world, absent, durable>>
      BY <1>6 DEF HandleCommitCompleted, OneTask, dataVars
    <2>2. ASSUME NEW u \in Tracked \ absent, world[u] # durable[u] PROVE u \in dirty'
      <3>1. \A x \in tasks : x = t
        BY DEF OneTask
      <3>2. CASE t.result = "ok"
        <4>1. /\ u \in t.void \/ durable[u] = t.snap[u]
              /\ t.snap[u] # world[u] => u \in dirty
              /\ u \in t.void => u \in dirty
          BY <2>2, <3>2
        <4>2. QED
          BY <1>6, <2>2, <3>2, <4>1 DEF HandleCommitCompleted
      <3>3. CASE t.result # "ok"
        <4>1. u \in dirty \/ u \in t.taken
          BY <2>2, <3>1
        <4>2. u \notin Links
          BY <2>2 DEF Tracked
        <4>3. QED
          BY <1>6, <3>3, <4>1, <4>2 DEF HandleCommitCompleted, RestoredOnFailure
      <3>4. QED
        BY <3>2, <3>3
    <2>3. QED
      BY <2>1, <2>2
  <1>7. ASSUME NEW t \in tasks, NEW r \in {"ok", "err"}, Finish(t, r),
               durable' = Written(t) \/ (r = "err" /\ durable' = durable)
        PROVE  Data'
    <2>. DEFINE s == [t EXCEPT !.result = r]
    <2>1. /\ tasks' = {s}
          /\ s.taken = t.taken /\ s.snap = t.snap /\ s.void = t.void /\ s.result = r
      BY <1>7 DEF Finish, OneTask, TypeOK, CommitTask
    <2>. HIDE DEF s
    <2>2. UNCHANGED <<world, absent, dirty>>
      BY <1>7 DEF Finish
    <2>3. ASSUME NEW u \in Tracked
          PROVE  /\ durable'[u] \in {durable[u], t.snap[u]}
                 /\ r = "ok" => u \in t.void \/ durable'[u] = t.snap[u]
      BY <1>7, <2>3, Numbers DEF Written
    <2>4. t.taken = s.taken /\ t.snap = s.snap /\ t.void = s.void /\ \A x \in tasks : x = t
      BY <2>1 DEF OneTask
    <2>5. NoMarkLost'
      <3> SUFFICES ASSUME NEW u \in Tracked \ absent, world[u] # durable'[u]
                   PROVE  u \in dirty \/ (u \in s.taken \ s.void /\ s.snap[u] = world[u])
        BY <2>1, <2>2
      <3>1. CASE durable'[u] = durable[u]
        BY <2>4, <3>1
      <3>2. CASE durable'[u] = t.snap[u]
        BY <2>4, <3>2
      <3>3. QED
        BY <2>3, <3>1, <3>2
    <2>6. ASSUME NEW u \in Tracked
          PROVE  /\ u \in s.taken \cup s.void \/ durable'[u] = s.snap[u]
                 /\ r = "ok" => u \in s.void \/ durable'[u] = s.snap[u]
                 /\ u \in s.void => u \in absent \cup dirty
                 /\ s.snap[u] # world[u] => u \in dirty
                 /\ durable'[u] <= s.snap[u] /\ s.snap[u] <= world[u]
                 /\ durable'[u] <= world[u]
      <3>1. /\ t.snap[u] # world[u] => u \in dirty
            /\ durable[u] <= t.snap[u] /\ t.snap[u] <= world[u]
            /\ durable[u] <= world[u]
            /\ u \in t.taken \cup t.void \/ durable[u] = t.snap[u]
            /\ u \in t.void => u \in absent \cup dirty
        BY <2>6
      <3>2. QED
        BY <2>3, <2>4, <2>6, <3>1, Numbers
    <2>7. QED
      BY <2>1, <2>2, <2>5, <2>6
  <1>8. QED
    BY StepCases, <1>1, <1>2, <1>3, <1>5, <1>6, <1>7, <1>4
       DEF Request, WriteTrigger, Trigger, Timeout, EnterPostUpdate,
           CommitEventListener, NoTrigger, DrainTriggers, QueueFollowUp,
           RejectEmptyStore, NothingToCommit, PrepareFails, NothingFinished,
           TransactionCommits, TransactionFails, vars, dataVars

-----------------------------------------------------------------------------
(* No caller is answered with another's commit.                            *)

\* A waiter that is new after a step was new before it.
LEMMA NewWasNew ==
    ASSUME TypeOK, [Next]_vars, NEW w \in Waiters, waiter'[w] = "new"
    PROVE  waiter[w] = "new"
  <1>1. CASE UNCHANGED waiter
    BY <1>1
  <1>2. ASSUME NEW v \in Waiters, NEW s \in Stores \cup {EmptyStore}, Request(v, s)
        PROVE  waiter[w] = "new"
    BY <1>2 DEF Request, TypeOK
  <1>3. ASSUME NEW v \in Waiters, Timeout(v) PROVE waiter[w] = "new"
    BY <1>3 DEF Timeout, TypeOK
  <1>4. CASE CommitEventListener
    BY <1>4 DEF CommitEventListener, Answer
  <1>5. QED
    BY StepCases, <1>1, <1>2, <1>3, <1>4
       DEF Change, Withdraw, Touch, Trigger, EnterPostUpdate, NoTrigger, DrainTriggers,
           QueueFollowUp, RejectEmptyStore, NothingToCommit, PrepareFails, StartCommit,
           NothingFinished, HandleCommitCompleted, TransactionCommits,
           TransactionFails, Finish, vars, callerVars

LEMMA FreshStep == TypeOK /\ Fresh /\ [Next]_vars => Fresh'
  <1> SUFFICES ASSUME TypeOK, Fresh, [Next]_vars,
                      NEW w \in Waiters, waiter'[w] = "new"
               PROVE  /\ \A k \in 1..Len(triggers') : triggers'[k].cid # w
                      /\ \A t \in tasks' : t.cid # w
                      /\ \A m \in completed' : m.cid # w
    BY DEF Fresh
  <1>1. /\ waiter[w] = "new"
        /\ \A k \in 1..Len(triggers) : triggers[k].cid # w
        /\ \A t \in tasks : t.cid # w
        /\ \A m \in completed : m.cid # w
    BY NewWasNew DEF Fresh
  <1> DEFINE Goal == /\ \A k \in 1..Len(triggers') : triggers'[k].cid # w
                     /\ \A t \in tasks' : t.cid # w
                     /\ \A m \in completed' : m.cid # w
  <1>2. NoCid # w
    BY PipelineAssumption
  <1>3. CASE UNCHANGED <<triggers, tasks, completed>>
    BY <1>1, <1>3
  <1>4. ASSUME NEW cid \in Cids, NEW s \in Stores \cup {EmptyStore},
               WriteTrigger(cid, s), cid # w
        PROVE  Goal
    <2>. DEFINE trigger == [cid |-> cid, store |-> s, followUp |-> FALSE]
    <2>1. triggers' = Append(triggers, trigger) /\ UNCHANGED <<tasks, completed>>
      BY <1>4 DEF WriteTrigger
    <2>2. triggers \in Seq(TriggerCommit) /\ trigger.cid # w
      BY <1>4 DEF TypeOK
    <2>. HIDE DEF trigger
    <2>3. Len(triggers') = Len(triggers) + 1
      BY <2>1, <2>2
    <2>4. ASSUME NEW k \in 1..Len(triggers') PROVE triggers'[k].cid # w
      BY <1>1, <2>1, <2>2, <2>3
    <2>5. QED
      BY <1>1, <2>1, <2>4
  <1>5. ASSUME NEW v \in Waiters, NEW s \in Stores \cup {EmptyStore}, Request(v, s)
        PROVE  Goal
    <2>1. WriteTrigger(v, s) /\ v \in Cids
      BY <1>5 DEF Request, Cids
    <2>2. v # w
      BY <1>5 DEF Request, TypeOK
    <2>3. QED
      BY <1>4, <2>1, <2>2
  <1>6. ASSUME NEW s \in Stores \cup {EmptyStore}, Trigger(s) PROVE Goal
    <2>1. WriteTrigger(NoCid, s) /\ NoCid \in Cids
      BY <1>6 DEF Trigger, Cids
    <2>2. QED
      BY <1>2, <1>4, <2>1
  <1>7. CASE CommitEventListener
    BY <1>1, <1>7 DEF CommitEventListener
  <1>8. ASSUME DrainTriggers
        PROVE  (\A k \in 1..Len(triggers') : triggers'[k].cid # w) /\ First.cid # w
    <2>1. triggers' = <<>> /\ triggers # <<>>
      BY <1>8 DEF DrainTriggers
    <2>2. 1 \in 1..Len(triggers)
      BY <2>1 DEF TypeOK
    <2>3. QED
      BY <1>1, <2>1, <2>2 DEF First
  <1>9. CASE QueueFollowUp
    BY <1>1, <1>8, <1>9 DEF QueueFollowUp
  <1>10. CASE RejectEmptyStore
    BY <1>1, <1>8, <1>10 DEF RejectEmptyStore
  <1>11. CASE NothingToCommit
    BY <1>1, <1>8, <1>11 DEF NothingToCommit
  <1>12. CASE PrepareFails
    BY <1>1, <1>8, <1>12 DEF PrepareFails
  <1>13. CASE StartCommit
    BY <1>1, <1>8, <1>13 DEF StartCommit
  <1>14. ASSUME NEW t \in tasks, HandleCommitCompleted(t) PROVE Goal
    <2>1. tasks' \subseteq tasks /\ \A m \in completed' : m.cid # w
      BY <1>1, <1>14 DEF HandleCommitCompleted
    <2>. DEFINE followUp == [cid |-> NoCid, store |-> t.store, followUp |-> TRUE]
    <2>2. triggers \in Seq(TriggerCommit) /\ followUp.cid # w
      BY <1>2 DEF TypeOK
    <2>3. triggers' \in {triggers \o <<followUp>>, triggers \o <<>>}
      BY <1>14 DEF HandleCommitCompleted, FollowUpOf
    <2>. HIDE DEF followUp
    <2>4. triggers' \in {Append(triggers, followUp), triggers}
      BY <2>2, <2>3
    <2>5. ASSUME NEW k \in 1..Len(triggers') PROVE triggers'[k].cid # w
      <3>1. CASE triggers' = triggers
        BY <1>1, <3>1
      <3>2. CASE triggers' = Append(triggers, followUp)
        <4>1. Len(triggers') = Len(triggers) + 1
          BY <2>2, <3>2
        <4>2. QED
          BY <1>1, <2>2, <3>2, <4>1
      <3>3. QED
        BY <2>4, <3>1, <3>2
    <2>6. QED
      BY <1>1, <2>1, <2>5
  <1>15. ASSUME NEW t \in tasks, NEW r \in {"ok", "err"}, Finish(t, r) PROVE Goal
    <2>1. [t EXCEPT !.result = r].cid = t.cid
      BY DEF TypeOK, CommitTask
    <2>2. QED
      BY <1>1, <1>15, <2>1 DEF Finish
  <1>16. QED
    BY StepCases, <1>3, <1>5, <1>6, <1>7, <1>9, <1>10, <1>11, <1>12, <1>13, <1>14, <1>15
       DEF Change, Withdraw, Touch, Timeout, EnterPostUpdate, NoTrigger, NothingFinished,
           TransactionCommits, TransactionFails, vars

\* Only a request puts a caller's trigger in the queue.
LEMMA QueuedBefore ==
    ASSUME TypeOK, [Next]_vars, NEW w \in Waiters, Queued(w)',
           ~ \E s \in Stores \cup {EmptyStore} : Request(w, s)
    PROVE  Queued(w)
  <1>1. PICK k \in 1..Len(triggers') : triggers'[k].cid = w
    BY DEF Queued
  <1>2. NoCid # w /\ triggers \in Seq(TriggerCommit)
    BY PipelineAssumption DEF TypeOK
  <1>3. CASE UNCHANGED triggers
    BY <1>1, <1>3 DEF Queued
  <1>4. ASSUME NEW trigger \in TriggerCommit, trigger.cid # w,
               triggers' = Append(triggers, trigger)
        PROVE  Queued(w)
    <2>1. Len(triggers') = Len(triggers) + 1
      BY <1>2, <1>4
    <2>2. k # Len(triggers) + 1
      BY <1>1, <1>2, <1>4
    <2>3. k \in 1..Len(triggers) /\ triggers[k].cid = w
      BY <1>1, <1>2, <1>4, <2>1, <2>2
    <2>4. QED
      BY <2>3 DEF Queued
  <1>5. ASSUME NEW cid \in Cids, NEW s \in Stores \cup {EmptyStore},
               WriteTrigger(cid, s), cid # w
        PROVE  Queued(w)
    <2>. DEFINE trigger == [cid |-> cid, store |-> s, followUp |-> FALSE]
    <2>1. trigger \in TriggerCommit /\ trigger.cid # w
      BY <1>5 DEF TriggerCommit
    <2>2. triggers' = Append(triggers, trigger)
      BY <1>5 DEF WriteTrigger
    <2>. HIDE DEF trigger
    <2>3. QED
      BY <1>4, <2>1, <2>2
  <1>6. ASSUME NEW v \in Waiters, NEW s \in Stores \cup {EmptyStore}, Request(v, s)
        PROVE  Queued(w)
    BY <1>5, <1>6 DEF Request, Cids
  <1>7. ASSUME NEW s \in Stores \cup {EmptyStore}, Trigger(s) PROVE Queued(w)
    BY <1>2, <1>5, <1>7 DEF Trigger, Cids
  <1>8. ASSUME NEW t \in tasks, HandleCommitCompleted(t) PROVE Queued(w)
    <2>. DEFINE followUp == [cid |-> NoCid, store |-> t.store, followUp |-> TRUE]
    <2>1. followUp \in TriggerCommit /\ followUp.cid # w
      BY <1>2 DEF TypeOK, CommitTask, TriggerCommit, Cids
    <2>2. triggers' \in {triggers \o <<followUp>>, triggers \o <<>>}
      BY <1>8 DEF HandleCommitCompleted, FollowUpOf
    <2>. HIDE DEF followUp
    <2>3. triggers' \in {Append(triggers, followUp), triggers}
      BY <1>2, <2>1, <2>2
    <2>4. QED
      BY <1>3, <1>4, <2>1, <2>3
  <1>9. CASE DrainTriggers
    BY <1>1, <1>9 DEF DrainTriggers
  <1>10. QED
    BY StepCases, <1>3, <1>6, <1>7, <1>8, <1>9
       DEF Change, Withdraw, Touch, Timeout, EnterPostUpdate, CommitEventListener,
           NoTrigger, QueueFollowUp, RejectEmptyStore, NothingToCommit, PrepareFails,
           StartCommit, NothingFinished, TransactionCommits, TransactionFails, Finish, vars

\* What is promised to a caller only ever moves towards the database.
LEMMA PromiseStep ==
    TypeOK /\ OneTask /\ Data /\ Fresh /\ PromiseCarried /\ [Next]_vars => PromiseCarried'
  <1> SUFFICES ASSUME TypeOK, OneTask, Data, Fresh, PromiseCarried, [Next]_vars,
                      NEW w \in Waiters, NEW u \in Tracked
               PROVE  /\ promised'[w][u] <= world'[u]
                      /\ Queued(w)' /\ u \in absent' => promised'[w][u] = 0
                      /\ \A t \in tasks' : t.cid = w =>
                             /\ promised'[w][u] <= t.snap[u]
                             /\ u \in t.void => promised'[w][u] = 0
                      /\ \A m \in completed' : m.cid = w /\ m.ok
                             => promised'[w][u] <= durable'[u]
                      /\ waiter'[w] = "ok" => promised'[w][u] <= durable'[u]
    BY DEF PromiseCarried
  <1> DEFINE Goal == /\ promised'[w][u] <= world'[u]
                     /\ Queued(w)' /\ u \in absent' => promised'[w][u] = 0
                     /\ \A t \in tasks' : t.cid = w =>
                            /\ promised'[w][u] <= t.snap[u]
                            /\ u \in t.void => promised'[w][u] = 0
                     /\ \A m \in completed' : m.cid = w /\ m.ok
                            => promised'[w][u] <= durable'[u]
                     /\ waiter'[w] = "ok" => promised'[w][u] <= durable'[u]
  <1>1. /\ promised[w][u] <= world[u]
        /\ Queued(w) /\ u \in absent => promised[w][u] = 0
        /\ \A t \in tasks : t.cid = w =>
               /\ promised[w][u] <= t.snap[u]
               /\ u \in t.void => promised[w][u] = 0
        /\ \A m \in completed : m.cid = w /\ m.ok => promised[w][u] <= durable[u]
        /\ waiter[w] = "ok" => promised[w][u] <= durable[u]
    BY DEF PromiseCarried
  <1>2. /\ promised[w][u] \in Nat /\ world[u] \in Nat /\ durable[u] \in Nat
        /\ \A t \in tasks : t.snap[u] \in Nat
        /\ u \in Units
    BY Numbers
  <1>3. ASSUME ~ \E s \in Stores \cup {EmptyStore} : Request(w, s)
        PROVE  Queued(w)' => Queued(w)
    BY <1>3, QueuedBefore
  <1>4. CASE /\ UNCHANGED <<world, absent, durable, tasks, completed, waiter, promised>>
             /\ Queued(w)' => Queued(w)
    BY <1>1, <1>4
  <1>5. ASSUME NEW s \in Stores \cup {EmptyStore}, Trigger(s) PROVE Goal
    <2>1. ~ \E x \in Stores \cup {EmptyStore} : Request(w, x)
      BY <1>1, <1>5 DEF Trigger, Request, callerVars, TypeOK
    <2>2. QED
      BY <1>4, <1>3, <1>5, <2>1 DEF Trigger, WriteTrigger, dataVars, callerVars
  <1>6. ASSUME NEW v \in Units, Withdraw(v) PROVE Goal
    <2>1. /\ UNCHANGED <<world, durable, triggers, tasks, completed, waiter>>
          /\ absent' = absent \cup {v}
      BY <1>6 DEF Withdraw
    <2>2. promised'[w] = IF Queued(w) THEN [promised[w] EXCEPT ![v] = 0] ELSE promised[w]
      BY <1>6 DEF Withdraw
    <2>3. promised[w] \in [Units -> 0..MaxChanges]
      BY DEF TypeOK, Contents
    <2>4. promised'[w][u] = IF Queued(w) /\ u = v THEN 0 ELSE promised[w][u]
      BY <1>2, <2>2, <2>3
    <2>5. Queued(w)' <=> Queued(w)
      BY <2>1 DEF Queued
    <2>6. QED
      BY <1>1, <1>2, <2>1, <2>4, <2>5
  <1>7. ASSUME NEW v \in Units, Change(v) PROVE Goal
    <2>1. /\ UNCHANGED <<durable, tasks, completed, waiter, promised>>
          /\ absent' \subseteq absent /\ (Queued(w)' <=> Queued(w))
      BY <1>7 DEF Change, callerVars, Queued
    <2>2. world'[u] \in {world[u], world[u] + 1}
      BY <1>2, <1>7 DEF Change, TypeOK, Contents
    <2>3. QED
      BY <1>1, <1>2, <2>1, <2>2
  <1>8. ASSUME NEW v \in Waiters, NEW s \in Stores \cup {EmptyStore}, Request(v, s)
        PROVE  Goal
    <2>1. UNCHANGED <<world, absent, durable, tasks, completed>>
      BY <1>8 DEF Request, WriteTrigger, dataVars
    <2>2. CASE v = w
      <3>1. /\ waiter[w] = "new" /\ waiter'[w] = "waiting"
            /\ promised'[w][u] = IF u \in absent THEN 0 ELSE world[u]
        BY <1>2, <1>8, <2>2 DEF Request, TypeOK
      <3>2. (\A t \in tasks : t.cid # w) /\ (\A m \in completed : m.cid # w)
        BY <3>1 DEF Fresh
      <3>3. QED
        BY <1>2, <2>1, <3>1, <3>2
    <2>3. CASE v # w
      <3>1. waiter'[w] = waiter[w] /\ promised'[w] = promised[w]
        BY <1>8, <2>3 DEF Request, TypeOK
      <3>2. ~ \E x \in Stores \cup {EmptyStore} : Request(w, x)
        BY <1>8, <2>3 DEF Request, TypeOK
      <3>3. QED
        BY <1>1, <1>3, <2>1, <3>1, <3>2
    <2>4. QED
      BY <2>2, <2>3
  <1>9. ASSUME NEW v \in Waiters, Timeout(v) PROVE Goal
    <2>1. waiter'[w] \in {waiter[w], "timedOut"}
      BY <1>9 DEF Timeout, TypeOK
    <2>2. Queued(w)' <=> Queued(w)
      BY <1>9 DEF Timeout, Queued
    <2>3. QED
      BY <1>1, <1>9, <2>1, <2>2 DEF Timeout, dataVars
  <1>10. CASE CommitEventListener
    <2>1. /\ UNCHANGED <<world, absent, durable, tasks, promised>> /\ completed' = {}
          /\ Queued(w)' <=> Queued(w)
      BY <1>10 DEF CommitEventListener, dataVars, Queued
    <2>2. waiter'[w] = Answer(w)
      BY <1>10 DEF CommitEventListener
    <2>3. waiter'[w] = "ok" => promised[w][u] <= durable[u]
      BY <1>1, <2>2 DEF Answer
    <2>4. QED
      BY <1>1, <2>1, <2>3
  <1>11. ASSUME DrainTriggers
         PROVE  /\ UNCHANGED <<world, absent, durable, waiter, promised>>
                /\ ~Queued(w)'
                /\ First.cid = w => Queued(w)
    <2>1. triggers # <<>> /\ triggers' = <<>>
      BY <1>11 DEF DrainTriggers
    <2>2. 1 \in 1..Len(triggers)
      BY <2>1 DEF TypeOK
    <2>3. QED
      BY <1>11, <2>1, <2>2 DEF DrainTriggers, dataVars, callerVars, First, Queued
  <1>12. CASE QueueFollowUp
    BY <1>1, <1>11, <1>12 DEF QueueFollowUp
  <1>13. CASE RejectEmptyStore
    <2>1. \A m \in completed' : m \in completed \/ ~m.ok
      BY <1>13 DEF RejectEmptyStore
    <2>2. QED
      BY <1>1, <1>11, <1>13, <2>1 DEF RejectEmptyStore
  <1>14. CASE PrepareFails
    <2>1. \A m \in completed' : m \in completed \/ ~m.ok
      BY <1>14 DEF PrepareFails
    <2>2. QED
      BY <1>1, <1>11, <1>14, <2>1 DEF PrepareFails
  <1>15. CASE NothingToCommit
    <2>1. tasks = {} /\ (u \notin dirty \/ u \in absent)
      <3>1. u \notin Links
        BY DEF Tracked
      <3>2. QED
        BY <1>2, <1>15, <3>1 DEF NothingToCommit, MayStart, OneTask, Effective, TypeOK
    <2>2. u \in absent \/ world[u] = durable[u]
      BY <2>1 DEF Data, NoMarkLost
    <2>3. DrainTriggers /\ UNCHANGED tasks
          /\ completed' = completed \cup {[cid |-> First.cid, ok |-> TRUE]}
      BY <1>15 DEF NothingToCommit
    <2>4. First.cid = w => promised[w][u] <= durable[u]
      BY <1>1, <1>2, <1>11, <2>2, <2>3
    <2>5. QED
      BY <1>1, <1>11, <2>3, <2>4
  <1>16. CASE StartCommit
    <2>1. \A t \in tasks' : \/ t \in tasks
                            \/ t.snap = world /\ t.void = absent /\ t.cid = First.cid
      BY <1>16 DEF StartCommit
    <2>2. QED
      BY <1>1, <1>11, <1>16, <2>1 DEF StartCommit
  <1>17. ASSUME NEW t \in tasks, HandleCommitCompleted(t) PROVE Goal
    <2>1. /\ UNCHANGED <<world, absent, durable, waiter, promised>>
          /\ tasks' \subseteq tasks
      BY <1>17 DEF HandleCommitCompleted, dataVars, callerVars
    <2>2. Queued(w)' => Queued(w)
      BY <1>17, QueuedBefore DEF HandleCommitCompleted, Request, WriteTrigger
    <2>3. \A m \in completed' : m \in completed \/ (m.cid = t.cid /\ (m.ok => t.result = "ok"))
      <3>. DEFINE message == [cid |-> t.cid, ok |-> t.result = "ok"]
      <3>1. completed' = completed \cup {message}
        BY <1>17 DEF HandleCommitCompleted
      <3>2. message.cid = t.cid /\ message.ok = (t.result = "ok")
        BY Zenon
      <3>. HIDE DEF message
      <3>3. QED
        BY <3>1, <3>2
    <2>4. t.result = "ok" => u \in t.void \/ durable[u] = t.snap[u]
      BY DEF Data, SnapshotCoherent
    <2>5. t.cid = w /\ t.result = "ok" => promised[w][u] <= durable[u]
      BY <1>1, <1>2, <2>4
    <2>6. QED
      BY <1>1, <2>1, <2>3, <2>2, <2>5
  <1>18. ASSUME NEW t \in tasks, NEW r \in {"ok", "err"}, Finish(t, r),
                durable' \in {durable, Written(t)}
         PROVE  Goal
    <2>1. /\ UNCHANGED <<world, absent, completed, waiter, promised>>
          /\ Queued(w)' <=> Queued(w)
      BY <1>18 DEF Finish, callerVars, Queued
    <2>2. \A x \in tasks' : \E y \in tasks :
              x.cid = y.cid /\ x.snap = y.snap /\ x.void = y.void
      BY <1>18 DEF Finish, TypeOK, CommitTask
    <2>3. durable'[u] \in {durable[u], t.snap[u]}
      BY <1>2, <1>18 DEF Written
    <2>4. durable[u] <= t.snap[u]
      BY DEF Data, SnapshotCoherent
    <2>5. durable[u] <= durable'[u] /\ durable'[u] \in Nat
      BY <1>2, <2>3, <2>4
    <2>6. QED
      BY <1>1, <1>2, <2>1, <2>2, <2>5
  <1>19. UNCHANGED triggers => (Queued(w)' <=> Queued(w))
    BY DEF Queued
  <1>20. QED
    BY StepCases, <1>4, <1>7, <1>8, <1>9, <1>10, <1>12, <1>13, <1>14, <1>15, <1>16, <1>17,
       <1>18, <1>5, <1>6, <1>19
       DEF Touch, EnterPostUpdate, NoTrigger, NothingFinished,
           TransactionCommits, TransactionFails, vars, dataVars, callerVars

-----------------------------------------------------------------------------
(* The theorems.                                                           *)

LEMMA IInvInit == Init => IInv
  <1> SUFFICES ASSUME Init PROVE IInv
    OBVIOUS
  <1>1. TypeOK
    BY TypeInit
  <1>2. OneTask /\ NoMarkLost /\ SnapshotCoherent /\ DurableBehind
    BY DEF Init, OneTask, NoMarkLost, SnapshotCoherent, DurableBehind, Zero, Tracked
  <1>3. PromiseCarried
    BY DEF Init, PromiseCarried, Zero, Tracked
  <1>4. Fresh
    BY DEF Init, Fresh
  <1>5. QED
    BY <1>1, <1>2, <1>3, <1>4 DEF IInv

LEMMA IInvStep == IInv /\ [Next]_vars => IInv'
  BY TypeStep, OneTaskStep, DataStep, PromiseStep, FreshStep DEF IInv, Data

\* The inductive invariant holds in every reachable state.
THEOREM Invariant == Spec => []IInv
  BY IInvInit, IInvStep, PTL DEF Spec

\* One transaction at a time, and CommitStatus tells when.
THEOREM SingleFlightHolds == Spec => []SingleFlight
  <1>1. IInv => SingleFlight
    <2> SUFFICES ASSUME IInv PROVE SingleFlight
      OBVIOUS
    <2>1. CASE tasks = {}
      <3>1. Cardinality(tasks) = 0
        BY <2>1, FS_EmptySet
      <3>2. QED
        BY <2>1, <3>1 DEF IInv, OneTask, SingleFlight, CommitInFlight
    <2>2. CASE tasks # {}
      <3>1. PICK t \in tasks : tasks = {t}
        BY <2>2 DEF IInv, OneTask
      <3>2. Cardinality(tasks) = 1
        BY <3>1, FS_Singleton
      <3>3. QED
        BY <2>2, <3>2 DEF IInv, OneTask, SingleFlight, CommitInFlight
    <2>3. QED
      BY <2>1, <2>2
  <1>2. QED
    BY <1>1, Invariant, PTL

\* No change to a component, a resource or a despawn is ever forgotten.
THEOREM NoMarkLostHolds == Spec => []NoMarkLost
  <1>1. IInv => NoMarkLost
    BY DEF IInv
  <1>2. QED
    BY <1>1, Invariant, PTL

\* A caller that is told Ok finds its changes in the database.
THEOREM OkMeansDurableHolds == Spec => []OkMeansDurable
  <1>1. IInv => OkMeansDurable
    <2> SUFFICES ASSUME IInv, NEW w \in Waiters, waiter[w] = "ok", NEW u \in Tracked
                 PROVE  durable[u] >= promised[w][u]
      BY DEF OkMeansDurable
    <2>1. promised[w][u] <= durable[u]
      BY DEF IInv, PromiseCarried
    <2>2. promised[w][u] \in Nat /\ durable[u] \in Nat
      BY Numbers DEF IInv
    <2>3. QED
      BY <2>1, <2>2
  <1>2. QED
    BY <1>1, Invariant, PTL

-----------------------------------------------------------------------------
(* The pipeline implements WriteBehind.                                    *)

LEMMA ImplementsInit == Init => Promise!Init
  <1> SUFFICES ASSUME Init PROVE Promise!Init
    OBVIOUS
  <1>1. Project(world) = [u \in Tracked |-> 0] /\ Project(durable) = [u \in Tracked |-> 0]
    BY DEF Init, Project, Zero, Tracked
  <1>2. QED
    BY <1>1 DEF Init, Promise!Init, Promise!Zero

\* The captures under way.
Flight == {[contents |-> Project(t.snap), without |-> t.void]
               : t \in {x \in tasks : x.result = "none"}}

LEMMA ImplementsStep ==
    IInv /\ [Next]_vars => [Promise!Next]_(Promise!vars)
  <1> SUFFICES ASSUME IInv, [Next]_vars
               PROVE  \/ Promise!Next
                      \/ UNCHANGED <<Project(world), absent, Project(durable), Flight>>
    BY DEF Promise!vars, Flight
  <1>1. TypeOK /\ OneTask /\ NoMarkLost /\ SnapshotCoherent
    BY DEF IInv
  <1>2. CASE UNCHANGED <<world, absent, durable, tasks>>
    BY <1>2 DEF Project, Flight
  <1>3. ASSUME NEW v \in Units, Withdraw(v) PROVE Promise!Next
    <2>1. v \in Tracked /\ absent' = absent \cup {v} /\ UNCHANGED <<world, durable, tasks>>
      BY <1>3 DEF Withdraw
    <2>2. Promise!Withdraw(v)
      BY <2>1 DEF Promise!Withdraw, Project
    <2>3. QED
      BY <2>1, <2>2 DEF Promise!Next
  <1>4. ASSUME NEW v \in Units, Change(v)
        PROVE  Promise!Next \/ UNCHANGED <<Project(world), absent, Project(durable), Flight>>
    <2>1. UNCHANGED <<durable, tasks>> /\ absent' = absent \ {v}
      BY <1>4 DEF Change
    <2>2. CASE v \in Tracked
      <3>1. Project(world)[v] < MaxChanges
        BY <1>4, <2>2 DEF Change, Project
      <3>2. Project(world)' = [Project(world) EXCEPT ![v] = @ + 1]
        BY <1>1, <1>4, <2>2 DEF Change, Project, TypeOK, Contents, Tracked
      <3>3. Promise!Change(v)
        BY <2>1, <3>1, <3>2 DEF Promise!Change, Project
      <3>4. QED
        BY <2>2, <3>3 DEF Promise!Next
    <2>3. CASE v \notin Tracked
      <3>1. \A u \in Tracked : world'[u] = world[u]
        BY <1>1, <1>4, <2>3 DEF Change, TypeOK, Contents, Tracked
      <3>2. QED
        BY <1>1, <2>1, <2>3, <3>1 DEF Project, Flight, TypeOK
    <2>4. QED
      BY <2>2, <2>3
  <1>5. CASE StartCommit
    <2>. DEFINE t == [cid |-> First.cid, store |-> First.store, taken |-> dirty,
                      snap |-> world, void |-> absent, result |-> "none"]
    <2>1. /\ tasks = {} /\ tasks' = {t} /\ t.snap = world /\ t.void = absent
          /\ t.result = "none"
          /\ UNCHANGED <<world, absent, durable>>
      BY <1>1, <1>5 DEF StartCommit, MayStart, OneTask, DrainTriggers, dataVars
    <2>. HIDE DEF t
    <2>2. Flight = {}
      BY <2>1 DEF Flight
    <2>3. Flight' = {[contents |-> Project(world), without |-> absent]}
      BY <2>1 DEF Flight, Project
    <2>4. Promise!Capture
      BY <2>1, <2>2, <2>3 DEF Promise!Capture, Flight, Project
    <2>5. QED
      BY <2>4 DEF Promise!Next
  <1>6. ASSUME NEW t \in tasks, HandleCommitCompleted(t)
        PROVE  UNCHANGED <<Project(world), absent, Project(durable), Flight>>
    <2>1. /\ UNCHANGED <<world, absent, durable>> /\ t.result # "none"
          /\ tasks = {t} /\ tasks' = {}
      BY <1>1, <1>6 DEF HandleCommitCompleted, OneTask, dataVars
    <2>2. QED
      BY <2>1 DEF Project, Flight
  <1>7. ASSUME NEW t \in tasks, NEW r \in {"ok", "err"}, Finish(t, r),
               durable' = Written(t) \/ durable' = durable
        PROVE  Promise!Next
    <2>. DEFINE s == [t EXCEPT !.result = r]
    <2>1. /\ tasks = {t} /\ tasks' = {s} /\ t.result = "none" /\ s.result # "none"
          /\ UNCHANGED <<world, absent>>
      BY <1>1, <1>7 DEF Finish, OneTask, TypeOK, CommitTask
    <2>. HIDE DEF s
    <2>. DEFINE capture == [contents |-> Project(t.snap), without |-> t.void]
    <2>2. Flight = {capture} /\ Flight' = {}
      BY <2>1 DEF Flight
    <2>3. CASE durable' = durable
      <3>1. Promise!Drop
        BY <2>1, <2>2, <2>3 DEF Promise!Drop, Flight, Project
      <3>2. QED
        BY <3>1 DEF Promise!Next
    <2>4. CASE durable' = Written(t)
      <3>1. \A u \in Tracked : u \in t.taken \cup t.void \/ durable[u] = t.snap[u]
        BY <1>1 DEF SnapshotCoherent
      <3>2. \A u \in Tracked :
               durable'[u] = IF u \in capture.without THEN Project(durable)[u]
                             ELSE capture.contents[u]
        BY <2>4, <3>1 DEF Written, Tracked, Project
      <3>3. Project(durable)' = [u \in Tracked |->
                                    IF u \in capture.without THEN Project(durable)[u]
                                    ELSE capture.contents[u]]
        BY <3>2 DEF Project
      <3>. HIDE DEF capture
      <3>4. capture \in Flight /\ Flight' = {} /\ UNCHANGED <<Project(world), absent>>
        BY <2>1, <2>2 DEF Project
      <3>5. Promise!Land
        BY <3>3, <3>4 DEF Promise!Land, Flight
      <3>6. QED
        BY <3>5 DEF Promise!Next
    <2>5. QED
      BY <1>7, <2>3, <2>4
  <1>8. QED
    BY StepCases, <1>2, <1>4, <1>5, <1>6, <1>7, <1>3
       DEF Touch, Request, WriteTrigger, Trigger, Timeout, EnterPostUpdate,
           CommitEventListener, NoTrigger, DrainTriggers, QueueFollowUp,
           RejectEmptyStore, NothingToCommit, PrepareFails, NothingFinished,
           TransactionCommits, TransactionFails, vars, dataVars

\* The database only ever moves from one state the world has been in to a later one.
THEOREM Implementation == Spec => ImplementsWriteBehind
  BY ImplementsInit, ImplementsStep, Invariant, PTL
     DEF Spec, ImplementsWriteBehind, Promise!Spec

=============================================================================
