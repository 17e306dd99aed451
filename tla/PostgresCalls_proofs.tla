------------------------ MODULE PostgresCalls_proofs ------------------------
(***************************************************************************)
(* Safety of the calls on one PostgresDbConnection, for any calls, tables, *)
(* rows and pool.                                                          *)
(***************************************************************************)
EXTENDS PostgresCalls, TLAPS

-----------------------------------------------------------------------------
(* The inductive invariant.                                                *)

\* What a call has ensured is there; a client is taken when there is nothing left to
\* ensure.
Prepared(c) ==
    LET s == call[c] IN
    /\ s.pc \in {"idle", "ready", "creating"} =>
          /\ s.step <= Len(Needs[c])
          /\ \A i \in 1..s.step : Needs[c][i] \in tables
    /\ s.pc = "creating" => s.step < Len(Needs[c])
    /\ s.pc = "running" => \A i \in DOMAIN Needs[c] : Needs[c][i] \in tables
    /\ s.client => s.pc = "running" \/ (s.pc = "ready" /\ s.step = Len(Needs[c]))

AllPrepared == \A c \in Calls : Prepared(c)

\* Only a commit applies, and it ends the call.
Unapplied(c) == ~Answered(c) => applied[c] = 0

AllUnapplied == \A c \in Calls : Unapplied(c)

IInv ==
    /\ TypeOK
    /\ AllPrepared
    /\ AllUnapplied
    /\ ensured \subseteq tables

\* No call that holds a client waits for another one: no hold-and-wait on the pool.
NoHoldAndWait == \A c \in Calls : call[c].client => ~Ensuring(c) /\ call[c].pc # "creating"

-----------------------------------------------------------------------------
(* Facts about the operators.                                              *)

\* The table a call is about to ensure, the row it is about to write.
LEMMA WantedIsTable ==
    ASSUME TypeOK, NEW c \in Calls, call[c].step < Len(Needs[c])
    PROVE  Wanted(c) \in Tables
  <1>1. Needs[c] \in Seq(Tables)
    BY PoolAssumption
  <1>2. call[c].step + 1 \in 1..Len(Needs[c])
    BY <1>1 DEF TypeOK, CallState
  <1>3. QED
    BY <1>1, <1>2 DEF Wanted

LEMMA RowIsRow ==
    ASSUME TypeOK, NEW c \in Calls, Writing(c)
    PROVE  Row(c) \in Rows
  <1>1. Work[c] \in Seq(Rows)
    BY PoolAssumption
  <1>2. call[c].step + 1 \in 1..Len(Work[c])
    BY <1>1 DEF TypeOK, CallState, Writing
  <1>3. QED
    BY <1>1, <1>2 DEF Row

\* The states of a call after an answer, and after the creation of a table.
LEMMA AnsweredType ==
    ASSUME NEW s \in CallState, NEW answer \in Answers
    PROVE  [s EXCEPT !.pc = answer, !.step = 0, !.creates = FALSE, !.client = FALSE]
              \in CallState
  BY DEF CallState, Answers, Errors

LEMMA CreatedType ==
    ASSUME NEW s \in CallState
    PROVE  [s EXCEPT !.pc = "ready", !.step = @ + 1, !.creates = FALSE] \in CallState
  <1> DEFINE n == s.step + 1
  <1>1. n \in Nat
    BY DEF CallState
  <1> HIDE DEF n
  <1>2. [s EXCEPT !.pc = "ready", !.step = n, !.creates = FALSE] \in CallState
    BY <1>1 DEF CallState
  <1>3. QED
    BY <1>2 DEF n

\* An answer gives the client and the locks back.
LEMMA AnswerStep ==
    ASSUME IInv, NEW c \in Calls, NEW answer \in Answers, Answer(c, answer),
           ensured' = ensured, tables \subseteq tables', tables' \subseteq Tables,
           failures' \in 0..MaxFailures,
           \/ applied' = applied
           \/ call[c].pc = "running" /\ applied' = [applied EXCEPT ![c] = @ + 1]
    PROVE  IInv'
  <1> USE DEF IInv, Answer
  <1>1. \A d \in Calls : d # c => call'[d] = call[d]
    BY DEF TypeOK
  <1>2. call'[c] = [call[c] EXCEPT !.pc = answer, !.step = 0, !.creates = FALSE,
                                   !.client = FALSE]
    BY DEF TypeOK
  <1>3. call'[c] \in CallState
    BY <1>2, AnsweredType DEF TypeOK
  <1>4. TypeOK'
    <2>1. call' \in [Calls -> CallState]
      BY <1>3 DEF TypeOK
    <2>2. \A r \in DOMAIN lock' : r \in DOMAIN lock /\ lock[r] # c /\ lock'[r] = lock[r]
      BY DEF Unlocked
    <2>3. DOMAIN lock' \subseteq Rows
      BY <2>2 DEF TypeOK
    <2>4. \A r \in DOMAIN lock' : lock'[r] \in Calls /\ call'[lock'[r]].pc = "running"
      BY <1>1, <2>2 DEF TypeOK
    <2>5. applied' \in [Calls -> 0..1]
      BY DEF TypeOK, AllUnapplied, Unapplied, Answered, Answers, Errors
    <2>6. QED
      BY <2>1, <2>3, <2>4, <2>5 DEF TypeOK
  <1>5. Prepared(c)'
    BY <1>2 DEF Prepared, TypeOK, CallState, Answers, Errors
  <1>6. ASSUME NEW d \in Calls, d # c PROVE Prepared(d)'
    BY <1>1, <1>6 DEF AllPrepared, Prepared
  <1>7. AllUnapplied'
    <2>1. Answered(c)'
      BY <1>2 DEF Answered, TypeOK, CallState
    <2>2. ASSUME NEW d \in Calls, d # c PROVE Unapplied(d)'
      BY <1>1, <2>2 DEF AllUnapplied, Unapplied, Answered, TypeOK
    <2>3. QED
      BY <2>1, <2>2 DEF AllUnapplied, Unapplied
  <1>8. QED
    BY <1>4, <1>5, <1>6, <1>7 DEF AllPrepared

-----------------------------------------------------------------------------
(* The steps.                                                              *)

LEMMA InitInvariant == Init => IInv
  <1> SUFFICES ASSUME Init PROVE IInv
    OBVIOUS
  <1>1. call \in [Calls -> Fresh]
    BY DEF Init
  <1>8. ASSUME NEW s \in Fresh
        PROVE  s \in CallState /\ s.pc = "idle" /\ s.step = 0 /\ ~s.client
    <2> DEFINE r == [pc |-> "idle", kind |-> s.kind, step |-> 0, creates |-> FALSE,
                     client |-> FALSE]
    <2>1. s = r /\ s.kind \in {"transaction", "read"}
      BY DEF Fresh
    <2>2. r \in CallState
      BY <2>1 DEF CallState
    <2>3. s.pc = "idle" /\ s.step = 0 /\ ~s.client
      BY DEF Fresh
    <2> HIDE DEF r
    <2>4. QED
      BY <2>1, <2>2, <2>3
  <1>2. \A c \in Calls : /\ call[c] \in CallState /\ call[c].pc = "idle"
                         /\ call[c].step = 0 /\ ~call[c].client
    BY <1>1, <1>8
  <1>3. TypeOK
    BY <1>1, <1>2, PoolAssumption DEF Init, TypeOK
  <1>4. \A c \in Calls : Len(Needs[c]) \in Nat
    BY PoolAssumption
  <1>5. AllPrepared
    BY <1>2, <1>4 DEF AllPrepared, Prepared
  <1>6. AllUnapplied
    BY DEF Init, AllUnapplied, Unapplied
  <1>7. QED
    BY <1>3, <1>5, <1>6 DEF Init, IInv

\* Steps by which a call goes on, with the tables and the locks it leaves.
LEMMA GoOn ==
    ASSUME IInv, NEW c \in Calls, NEW s \in CallState, call' = [call EXCEPT ![c] = s],
           ensured' \subseteq tables', tables \subseteq tables', tables' \subseteq Tables,
           failures' = failures, lock' = lock, applied' = applied,
           ~Answered(c), call[c].pc = "running" => s.pc = "running", Prepared(c)'
    PROVE  IInv'
  <1> USE DEF IInv
  <1>1. (\A d \in Calls : d # c => call'[d] = call[d]) /\ call'[c] = s
    BY DEF TypeOK
  <1>2. TypeOK'
    BY <1>1 DEF TypeOK
  <1>3. ASSUME NEW d \in Calls, d # c PROVE Prepared(d)'
    BY <1>1, <1>3 DEF AllPrepared, Prepared
  <1>4. AllUnapplied'
    BY <1>1 DEF AllUnapplied, Unapplied, Answered
  <1>5. QED
    BY <1>2, <1>3, <1>4 DEF AllPrepared

LEMMA InvariantStep ==
    ASSUME IInv, [Next]_vars
    PROVE  IInv'
  <1> USE DEF IInv
  <1>0. \A c \in Calls : /\ call[c] \in CallState /\ Len(Needs[c]) \in Nat
                         /\ DOMAIN Needs[c] = 1..Len(Needs[c]) /\ Prepared(c)
    BY PoolAssumption DEF TypeOK, AllPrepared
  <1>1. ASSUME NEW c \in Calls, Start(c) PROVE IInv'
    <2> DEFINE s == [call[c] EXCEPT !.pc = "ready"]
    <2>1. s \in CallState /\ call' = [call EXCEPT ![c] = s]
      BY <1>0, <1>1 DEF Start, CallState
    <2>2. Prepared(c)'
      BY <1>0, <1>1 DEF Start, Prepared, TypeOK, CallState
    <2>3. QED
      BY <1>1, <2>1, <2>2, GoOn DEF Start, TypeOK, Answered, Answers, Errors
  <1>2. ASSUME NEW c \in Calls, SkipEnsure(c) PROVE IInv'
    <2> DEFINE s == [call[c] EXCEPT !.step = @ + 1]
    <2>1. s \in CallState /\ call' = [call EXCEPT ![c] = s] /\ s.pc = "ready"
      BY <1>0, <1>2 DEF SkipEnsure, Ensuring, CallState
    <2>2. Prepared(c)'
      <3>1. Needs[c][call[c].step + 1] \in tables
        BY <1>2 DEF SkipEnsure, Wanted
      <3>2. QED
        BY <1>0, <1>2, <2>1, <3>1 DEF SkipEnsure, Ensuring, Prepared, TypeOK, CallState
    <2>3. QED
      BY <1>2, <2>1, <2>2, GoOn DEF SkipEnsure, Ensuring, TypeOK, Answered, Answers, Errors
  <1>3. ASSUME NEW c \in Calls, BeginCreate(c) PROVE IInv'
    <2> DEFINE s == [call[c] EXCEPT !.pc = "creating", !.creates = Wanted(c) \notin tables]
    <2>1. s \in CallState /\ call' = [call EXCEPT ![c] = s]
      BY <1>0, <1>3 DEF BeginCreate, CallState
    <2>2. Prepared(c)'
      BY <1>0, <1>3 DEF BeginCreate, Ensuring, Prepared, TypeOK, CallState
    <2>3. QED
      BY <1>3, <2>1, <2>2, GoOn DEF BeginCreate, Ensuring, TypeOK, Answered, Answers, Errors
  <1>4. ASSUME NEW c \in Calls, EndCreate(c) PROVE IInv'
    <2> DEFINE s == [call[c] EXCEPT !.pc = "ready", !.step = @ + 1, !.creates = FALSE]
    <2>1. s \in CallState /\ call' = [call EXCEPT ![c] = s]
      BY <1>0, <1>4, CreatedType DEF EndCreate
    <2>5. s.pc = "ready"
      BY <1>0 DEF CallState
    <2>2. call[c].step < Len(Needs[c]) /\ Wanted(c) \in Tables
      BY <1>0, <1>4, WantedIsTable DEF EndCreate, Prepared
    <2>3. Prepared(c)'
      BY <1>0, <1>4, <2>2 DEF EndCreate, Wanted, Prepared, TypeOK, CallState
    <2>6. /\ ensured' \subseteq tables' /\ tables \subseteq tables' /\ tables' \subseteq Tables
          /\ failures' = failures /\ lock' = lock /\ applied' = applied
          /\ call[c].pc = "creating" /\ ~Answered(c)
      BY <1>4, <2>2 DEF EndCreate, TypeOK, Answered, Answers, Errors
    <2> HIDE DEF s
    <2>4. QED
      BY <2>1, <2>3, <2>5, <2>6, GoOn
  <1>5. ASSUME NEW c \in Calls, TakeClient(c) PROVE IInv'
    <2> DEFINE s == [call[c] EXCEPT !.client = TRUE]
    <2>1. s \in CallState /\ call' = [call EXCEPT ![c] = s]
      BY <1>0, <1>5 DEF TakeClient, CallState
    <2>2. Prepared(c)'
      BY <1>0, <1>5 DEF TakeClient, MayTake, Prepared, TypeOK, CallState
    <2>3. QED
      BY <1>5, <2>1, <2>2, GoOn DEF TakeClient, TypeOK, Answered, Answers, Errors
  <1>6. ASSUME NEW c \in Calls, Run(c) PROVE IInv'
    <2> DEFINE s == [call[c] EXCEPT !.pc = "running", !.step = 0]
    <2>1. s \in CallState /\ call' = [call EXCEPT ![c] = s]
      BY <1>0, <1>6 DEF Run, CallState
    <2>2. Prepared(c)'
      BY <1>0, <1>6 DEF Run, Prepared, TypeOK, CallState
    <2>3. QED
      BY <1>6, <2>1, <2>2, GoOn DEF Run, TypeOK, Answered, Answers, Errors
  <1>7. ASSUME NEW c \in Calls, Write(c) PROVE IInv'
    <2>1. /\ call'[c] = [call[c] EXCEPT !.step = @ + 1]
          /\ \A d \in Calls : d # c => call'[d] = call[d]
      BY <1>7 DEF Write, TypeOK
    <2>2. call'[c] \in CallState /\ call'[c].pc = "running" /\ Row(c) \in Rows
      BY <1>0, <1>7, <2>1, RowIsRow DEF Write, Writing, CallState
    <2>3. \A r \in DOMAIN lock' : \/ r = Row(c) /\ lock'[r] = c
                                  \/ r \in DOMAIN lock /\ lock'[r] = lock[r]
      BY <1>7 DEF Write
    <2>4. call' \in [Calls -> CallState]
      BY <1>7, <2>2 DEF Write, TypeOK
    <2>5. \A r \in DOMAIN lock' : lock'[r] \in Calls /\ call'[lock'[r]].pc = "running"
      BY <2>1, <2>2, <2>3 DEF TypeOK
    <2>6. TypeOK'
      BY <1>7, <2>2, <2>3, <2>4, <2>5 DEF Write, TypeOK
    <2>7. Prepared(c)'
      BY <1>0, <1>7, <2>1, <2>2 DEF Write, Writing, Prepared
    <2>8. ASSUME NEW d \in Calls, d # c PROVE Prepared(d)'
      BY <1>0, <1>7, <2>1, <2>8 DEF Write, Prepared
    <2>9. AllUnapplied'
      BY <1>7, <2>1 DEF Write, Writing, AllUnapplied, Unapplied, Answered, Answers, Errors
    <2>10. QED
      BY <1>7, <2>6, <2>7, <2>8, <2>9 DEF Write, AllPrepared
  <1>8. ASSUME NEW c \in Calls,
               CreateRaces(c) \/ Read(c) \/ Conflict(c) \/ Deadlock(c) \/ Commit(c)
        PROVE  IInv'
    <2>1. PICK answer \in Answers : Answer(c, answer)
      BY <1>8 DEF CreateRaces, Read, Conflict, Deadlock, Commit, Answers, Errors
    <2>2. ensured' = ensured /\ tables' = tables /\ failures' = failures
      BY <1>8 DEF CreateRaces, Read, Conflict, Deadlock, Commit
    <2>3. applied' = applied \/ (call[c].pc = "running" /\ applied' = [applied EXCEPT ![c] = @ + 1])
      BY <1>8 DEF CreateRaces, Read, Conflict, Deadlock, Commit, Committing
    <2>4. QED
      BY <2>1, <2>2, <2>3, AnswerStep DEF TypeOK
  <1>9. ASSUME NEW c \in Calls, ConnectionLost(c) \/ AnswerLost(c) PROVE IInv'
    <2>1. Answer(c, "connection") /\ ensured' = ensured /\ failures' \in 0..MaxFailures
      BY <1>9, PoolAssumption DEF ConnectionLost, AnswerLost, TypeOK
    <2>2. call[c].pc = "creating" => Wanted(c) \in Tables
      BY <1>0, WantedIsTable DEF Prepared
    <2>3. tables \subseteq tables' /\ tables' \subseteq Tables
      BY <1>9, <2>2 DEF ConnectionLost, AnswerLost, TypeOK
    <2>4. applied' = applied \/ (call[c].pc = "running" /\ applied' = [applied EXCEPT ![c] = @ + 1])
      BY <1>9 DEF ConnectionLost, AnswerLost, Committing
    <2>5. QED
      BY <2>1, <2>3, <2>4, AnswerStep DEF Answers, Errors
  <1>10. CASE UNCHANGED vars
    BY <1>10 DEF vars, TypeOK, AllPrepared, Prepared, AllUnapplied, Unapplied, Answered
  <1>11. QED
    BY <1>1, <1>2, <1>3, <1>4, <1>5, <1>6, <1>7, <1>8, <1>9, <1>10 DEF Next, Step, Done

-----------------------------------------------------------------------------
(* The theorems.                                                           *)

LEMMA Invariant == Spec => []IInv
  BY InitInvariant, InvariantStep, PTL DEF Spec

\* Every variable keeps its type; rows are held by transactions that run, and by no call
\* that has been answered.
THEOREM TypeCorrect == Spec => []TypeOK
  <1>1. IInv => TypeOK
    BY DEF IInv
  <1>2. QED
    BY <1>1, Invariant, PTL

\* Statements run on tables that are there, whichever call created them, raced or failed.
THEOREM TablesThere == Spec => []TablesExist
  <1>1. IInv => TablesExist
    BY DEF IInv, AllPrepared, Prepared, TablesExist
  <1>2. QED
    BY <1>1, Invariant, PTL

\* "Ensure edge table BEFORE acquiring the client lock to avoid deadlock"
\* (postgres_connection.rs:842): whoever holds a client of the pool needs no other.
THEOREM ClientsAreUsed == Spec => []NoHoldAndWait
  <1>1. IInv => NoHoldAndWait
    <2>1. \A c \in Calls : Len(Needs[c]) \in Nat
      BY PoolAssumption
    <2>2. QED
      BY <2>1 DEF IInv, AllPrepared, Prepared, NoHoldAndWait, Ensuring
  <1>2. QED
    BY <1>1, Invariant, PTL

-----------------------------------------------------------------------------
(* The calls implement TransactionalCalls.                                 *)

\* A transaction that runs holds what it has written.
HoldsWritten(c) ==
    LET s == call[c] IN
    s.pc = "running" =>
        \A i \in 1..s.step : Work[c][i] \in DOMAIN lock /\ lock[Work[c][i]] = c

AllHeld == \A c \in Calls : HoldsWritten(c)

Acts(c) == Start(c) \/ Step(c) \/ ConnectionLost(c) \/ AnswerLost(c)

Locked(c) == [r \in DOMAIN lock \cup {Row(c)} |-> IF r = Row(c) THEN c ELSE lock[r]]

\* What the caller has seen of a call: nothing, until it is answered.
LEMMA Ends ==
    ASSUME TypeOK, NEW c \in Calls, NEW answer \in Answers, Answer(c, answer)
    PROVE  /\ \A d \in Calls \ {c} : call'[d] = call[d]
           /\ call'[c].kind = call[c].kind /\ call'[c].pc = answer
           /\ lock' = Unlocked(c)
  BY DEF Answer, TypeOK, CallState

LEMMA GoesOn ==
    ASSUME TypeOK, NEW c \in Calls,
           Start(c) \/ SkipEnsure(c) \/ BeginCreate(c) \/ EndCreate(c) \/ TakeClient(c) \/ Run(c)
           \/ Write(c)
    PROVE  /\ \A d \in Calls \ {c} : call'[d] = call[d]
           /\ call'[c].kind = call[c].kind /\ ~Answered(c) /\ ~Answered(c)'
           /\ call'[c].pc = "running" => Run(c) \/ Write(c)
           /\ lock' = lock \/ (Write(c) /\ lock' = Locked(c))
           /\ applied' = applied
  <1>1. call \in [Calls -> CallState] /\ call[c] \in CallState
    BY DEF TypeOK
  <1>2. CASE Start(c) \/ SkipEnsure(c) \/ TakeClient(c) \/ Run(c) \/ Write(c)
    BY <1>1, <1>2 DEF Start, SkipEnsure, Ensuring, TakeClient, Run, Write, Writing, Locked,
                      CallState, Answered, Answers, Errors
  <1>3. CASE BeginCreate(c) \/ EndCreate(c)
    BY <1>1, <1>3 DEF BeginCreate, Ensuring, EndCreate, CallState, Answered, Answers, Errors
  <1>4. QED
    BY <1>2, <1>3

\* The ways a call is answered.
Answering(c) ==
    CreateRaces(c) \/ Read(c) \/ Conflict(c) \/ Deadlock(c) \/ Commit(c) \/ ConnectionLost(c)
    \/ AnswerLost(c)

LEMMA AnswersGiven ==
    ASSUME NEW c \in Calls, Answering(c)
    PROVE  \E answer \in Answers : Answer(c, answer)
  BY DEF Answering, CreateRaces, Read, Conflict, Deadlock, Commit, ConnectionLost, AnswerLost,
         Answers, Errors

LEMMA HeldStep ==
    ASSUME IInv, AllHeld, NEW c \in Calls, Acts(c)
    PROVE  AllHeld'
  <1>1. TypeOK /\ call[c] \in CallState
    BY DEF IInv, TypeOK
  <1>2. CASE Answering(c)
    <2>1. PICK answer \in Answers : Answer(c, answer)
      BY <1>2, AnswersGiven
    <2>2. /\ \A d \in Calls \ {c} : call'[d] = call[d]
          /\ call'[c].pc # "running" /\ lock' = Unlocked(c)
      BY <1>1, <2>1, Ends DEF Answers, Errors
    <2>3. \A r \in DOMAIN lock : lock[r] # c => r \in DOMAIN lock' /\ lock'[r] = lock[r]
      BY <2>2 DEF Unlocked
    <2>4. QED
      BY <2>2, <2>3 DEF AllHeld, HoldsWritten
  <1>3. CASE ~Answering(c)
    <2>1. Start(c) \/ SkipEnsure(c) \/ BeginCreate(c) \/ EndCreate(c) \/ TakeClient(c) \/ Run(c)
          \/ Write(c)
      BY <1>3 DEF Acts, Step, Answering
    <2>2. /\ \A d \in Calls \ {c} : call'[d] = call[d]
          /\ call'[c].pc = "running" => Run(c) \/ Write(c)
          /\ lock' = lock \/ (Write(c) /\ lock' = Locked(c))
      BY <1>1, <2>1, GoesOn
    <2>3. ASSUME NEW d \in Calls \ {c} PROVE HoldsWritten(d)'
      BY <2>2 DEF AllHeld, HoldsWritten, Write, Free, Locked
    <2>4. CASE Run(c)
      <3>1. call'[c].step = 0
        BY <1>1, <2>4 DEF Run, TypeOK, CallState
      <3>2. QED
        BY <2>3, <3>1 DEF AllHeld, HoldsWritten
    <2>5. CASE Write(c)
      <3>1. /\ call[c].pc = "running" /\ lock' = Locked(c)
            /\ call'[c].step = call[c].step + 1 /\ call[c].step \in Nat
        BY <1>1, <2>5 DEF Write, Writing, Locked, TypeOK, CallState
      <3>2. ASSUME NEW i \in 1..(call[c].step + 1)
            PROVE  Work[c][i] \in DOMAIN lock' /\ lock'[Work[c][i]] = c
        <4>1. Work[c][i] = Row(c) \/ (Work[c][i] \in DOMAIN lock /\ lock[Work[c][i]] = c)
          BY <3>1 DEF Row, AllHeld, HoldsWritten
        <4>2. QED
          BY <3>1, <4>1 DEF Locked
      <3>3. HoldsWritten(c)'
        BY <3>1, <3>2 DEF HoldsWritten
      <3>4. QED
        BY <2>3, <3>3 DEF AllHeld
    <2>6. CASE call'[c].pc # "running"
      BY <2>3, <2>6 DEF AllHeld, HoldsWritten
    <2>7. QED
      BY <2>2, <2>4, <2>5, <2>6
  <1>4. QED
    BY <1>2, <1>3

LEMMA Held == Spec => []AllHeld
  <1>1. Init => AllHeld
    BY DEF Init, Fresh, AllHeld, HoldsWritten
  <1>2. IInv /\ AllHeld /\ [Next]_vars => AllHeld'
    <2> SUFFICES ASSUME IInv, AllHeld, [Next]_vars PROVE AllHeld'
      OBVIOUS
    <2>1. CASE \E c \in Calls : Acts(c)
      BY <2>1, HeldStep
    <2>2. CASE UNCHANGED vars
      BY <2>2 DEF AllHeld, HoldsWritten, vars
    <2>3. QED
      BY <2>1, <2>2 DEF Next, Acts, Done
  <1>3. QED
    BY <1>1, <1>2, Invariant, PTL DEF Spec

Writers == {c \in Calls : call[c].kind = "transaction"}

Holders == [r \in DOMAIN lock |-> <<lock[r], 1>>]

Verdicts == [c \in Calls |-> Verdict(c)]

\* What a step of one call does to the answers.
LEMMA VerdictStep ==
    ASSUME TypeOK, NEW c \in Calls, \A d \in Calls \ {c} : call'[d] = call[d],
           call'[c].kind = call[c].kind
    PROVE  Writers' = Writers /\ Verdicts' = [Verdicts EXCEPT ![c] = Verdict(c)']
  <1>1. \A d \in Calls \ {c} : Verdict(d)' = Verdict(d)
    BY DEF Verdict
  <1>2. QED
    BY <1>1 DEF Writers, Verdicts

LEMMA HoldersReleased ==
    ASSUME NEW c \in Calls, lock' = Unlocked(c)
    PROVE  Holders' = Promise!Released(<<c, 1>>)
  <1>1. \A r \in DOMAIN lock : Holders[r] # <<c, 1>> <=> lock[r] # c
    BY DEF Holders
  <1>2. QED
    BY <1>1 DEF Holders, Unlocked, Promise!Released

LEMMA ImplementsInit == Init => Promise!Init
  <1> SUFFICES ASSUME Init PROVE Promise!Init
    OBVIOUS
  <1>1. \A c \in Calls : Verdict(c) = "none"
    BY DEF Init, Fresh, Verdict
  <1>2. Holders = <<>>
    BY DEF Init, Holders
  <1>3. QED
    BY <1>1, <1>2 DEF Init, Promise!Init, Holders

\* A statement writes a row; what comes before is not to be seen.
LEMMA ImplementsGoingOn ==
    ASSUME IInv, NEW c \in Calls,
           Start(c) \/ SkipEnsure(c) \/ BeginCreate(c) \/ EndCreate(c) \/ TakeClient(c) \/ Run(c)
           \/ Write(c)
    PROVE  [Promise!Next]_(Promise!vars)
  <1>1. TypeOK
    BY DEF IInv
  <1>2. /\ \A d \in Calls \ {c} : call'[d] = call[d]
        /\ call'[c].kind = call[c].kind /\ ~Answered(c) /\ ~Answered(c)'
        /\ lock' = lock \/ (Write(c) /\ lock' = Locked(c))
        /\ applied' = applied
    BY <1>1, GoesOn
  <1>3. Verdict(c) = "none" /\ Verdict(c)' = "none"
    BY <1>2 DEF Verdict, Answered, Answers, Errors
  <1>4. Writers' = Writers /\ Verdicts' = Verdicts
    BY <1>1, <1>2, <1>3, VerdictStep DEF Verdicts
  <1>5. CASE lock' = lock
    BY <1>2, <1>4, <1>5 DEF Promise!vars, Writers, Verdicts
  <1>6. CASE Write(c) /\ lock' = Locked(c)
    <2>1. Writing(c) /\ Free(c) /\ call[c].kind = "transaction"
      BY <1>6 DEF Write, Writing
    <2>2. PICK i \in DOMAIN Work[c] : Row(c) = Work[c][i]
      <3>1. Work[c] \in Seq(Rows)
        BY PoolAssumption
      <3>2. call[c].step + 1 \in DOMAIN Work[c]
        BY <1>1, <2>1, <3>1 DEF Writing, TypeOK, CallState
      <3>3. QED
        BY <3>2 DEF Row
    <2> DEFINE row == Work[c][i]
    <2>3. Holders' = [r \in DOMAIN Holders \cup {row} |->
                         IF r = row THEN <<c, 1>> ELSE Holders[r]]
      BY <1>6, <2>2 DEF Holders, Locked
    <2>4. row \in DOMAIN Holders => Holders[row] = <<c, 1>>
      BY <2>1, <2>2 DEF Free, Holders
    <2>5. <<c, 1>>[1] = c /\ <<c, 1>> \in Promise!Transactions
      BY DEF Promise!Transactions
    <2>6. c \in Writers /\ Verdicts[c] = "none"
      BY <1>3, <2>1 DEF Writers, Verdicts
    <2> HIDE DEF row
    <2>7. Promise!WriteKey(<<c, 1>>, row)
      BY <1>2, <1>4, <2>3, <2>4, <2>5, <2>6
         DEF Promise!WriteKey, Writers, Holders, Verdicts
    <2>8. Promise!WriteKey(<<c, 1>>, Work[c][i])
      BY <2>7 DEF row
    <2>9. Promise!Next
      BY <2>2, <2>5, <2>8 DEF Promise!Next
    <2>10. QED
      BY <2>9
  <1>7. QED
    BY <1>2, <1>5, <1>6

LEMMA ImplementsCommit ==
    ASSUME IInv, AllHeld, NEW c \in Calls, Committing(c),
           applied' = [applied EXCEPT ![c] = @ + 1],
           NEW answer \in {"ok", "connection"}, Answer(c, answer)
    PROVE  Promise!Next
  <1>1. TypeOK /\ Unapplied(c) /\ HoldsWritten(c)
    BY DEF IInv, AllUnapplied, AllHeld
  <1>2. /\ \A d \in Calls \ {c} : call'[d] = call[d]
        /\ call'[c].kind = call[c].kind /\ call'[c].pc = answer /\ lock' = Unlocked(c)
    BY <1>1, Ends DEF Answers, Errors
  <1>3. /\ call[c].pc = "running" /\ call[c].kind = "transaction"
        /\ applied[c] = 0 /\ Verdict(c) = "none" /\ Verdict(c)' \in {"ok", "unknown"}
    BY <1>1, <1>2 DEF Committing, Unapplied, Answered, Answers, Errors, Verdict
  <1>4. Writers' = Writers /\ Verdicts' = [Verdicts EXCEPT ![c] = Verdict(c)']
    BY <1>1, <1>2, VerdictStep
  <1>5. <<c, 1>>[1] = c /\ <<c, 1>> \in Promise!Transactions
    BY DEF Promise!Transactions
  <1>6. \A i \in DOMAIN Work[c] : Promise!Holds(<<c, 1>>, Work[c][i])
    <2>1. DOMAIN Work[c] = 1..call[c].step
      BY PoolAssumption DEF Committing
    <2>2. QED
      BY <1>1, <1>3, <2>1 DEF HoldsWritten, Promise!Holds
  <1>7. applied' = [applied EXCEPT ![c] = 1]
    BY <1>1, <1>3 DEF TypeOK
  <1>8. Promise!Reply(c, {"none", "ok", "unknown"})
    BY <1>3, <1>4 DEF Promise!Reply, Verdicts
  <1>9. Holders' = Promise!Released(<<c, 1>>)
    BY <1>2, HoldersReleased
  <1>10. Promise!Apply(<<c, 1>>)
    BY <1>3, <1>4, <1>5, <1>6, <1>7, <1>8, <1>9 DEF Promise!Apply, Writers, Holders
  <1>11. QED
    BY <1>5, <1>10 DEF Promise!Next

\* Any other answer.
LEMMA ImplementsAnswer ==
    ASSUME IInv, NEW c \in Calls, ~Answered(c), NEW answer \in Answers, Answer(c, answer),
           applied' = applied, answer = "ok" => call[c].kind # "transaction"
    PROVE  Promise!Next
  <1>1. TypeOK /\ applied[c] = 0
    BY DEF IInv, AllUnapplied, Unapplied
  <1>2. /\ \A d \in Calls \ {c} : call'[d] = call[d]
        /\ call'[c].kind = call[c].kind /\ call'[c].pc = answer /\ lock' = Unlocked(c)
    BY <1>1, Ends
  <1>3. Verdict(c) = "none"
    BY DEF Verdict, Answered, Answers, Errors
  <1>4. Verdict(c)' \in Promise!Truths(c)
    <2>1. \/ answer = "ok" /\ Verdict(c)' = "ok"
          \/ Verdict(c)' \in {"refused", "unknown"}
      BY <1>2 DEF Verdict, Answers, Errors
    <2>2. QED
      BY <1>1, <2>1 DEF Promise!Truths
  <1>5. Writers' = Writers /\ Verdicts' = [Verdicts EXCEPT ![c] = Verdict(c)']
    BY <1>1, <1>2, VerdictStep
  <1>6. <<c, 1>>[1] = c /\ <<c, 1>> \in Promise!Transactions
    BY DEF Promise!Transactions
  <1>7. Promise!Reply(c, Promise!Truths(c))
    BY <1>3, <1>4, <1>5 DEF Promise!Reply, Verdicts
  <1>8. Holders' = Promise!Released(<<c, 1>>)
    BY <1>2, HoldersReleased
  <1>9. Promise!End(<<c, 1>>)
    BY <1>5, <1>6, <1>7, <1>8 DEF Promise!End, Writers, Holders
  <1>10. QED
    BY <1>6, <1>9 DEF Promise!Next

LEMMA ImplementsCall ==
    ASSUME IInv, AllHeld, NEW c \in Calls, Acts(c)
    PROVE  [Promise!Next]_(Promise!vars)
  <1>1. CASE Start(c) \/ SkipEnsure(c) \/ BeginCreate(c) \/ EndCreate(c) \/ TakeClient(c)
             \/ Run(c) \/ Write(c)
    BY <1>1, ImplementsGoingOn
  <1>2. CASE Commit(c)
    BY <1>2, ImplementsCommit DEF Commit
  <1>3. CASE CreateRaces(c) \/ Conflict(c) \/ Deadlock(c) \/ ConnectionLost(c)
    <2>1. ~Answered(c) /\ applied' = applied
      BY <1>3 DEF CreateRaces, Conflict, Deadlock, Circular, Writing, ConnectionLost, Answered,
                  Answers, Errors
    <2>2. PICK answer \in {"duplicateTable", "conflict", "deadlock", "connection"} :
             Answer(c, answer)
      BY <1>3 DEF CreateRaces, Conflict, Deadlock, ConnectionLost
    <2>3. QED
      BY <2>1, <2>2, ImplementsAnswer DEF Answers, Errors
  <1>4. CASE Read(c)
    <2>1. /\ ~Answered(c) /\ applied' = applied /\ Answer(c, "ok")
          /\ call[c].kind # "transaction"
      BY <1>4 DEF Read, Answered, Answers, Errors
    <2>2. QED
      BY <2>1, ImplementsAnswer DEF Answers
  <1>5. CASE AnswerLost(c)
    <2>1. CASE call[c].pc = "creating" /\ applied' = applied
      <3>1. ~Answered(c)
        BY <2>1 DEF Answered, Answers, Errors
      <3>2. QED
        BY <1>5, <2>1, <3>1, ImplementsAnswer DEF AnswerLost, Answers, Errors
    <2>2. CASE Committing(c) /\ applied' = [applied EXCEPT ![c] = @ + 1]
      BY <1>5, <2>2, ImplementsCommit DEF AnswerLost
    <2>3. QED
      BY <1>5, <2>1, <2>2 DEF AnswerLost
  <1>6. QED
    BY <1>1, <1>2, <1>3, <1>4, <1>5 DEF Acts, Step

\* A transaction is applied as a whole, at most once, while it holds the rows it writes,
\* and what the call answers is true ("each represents one DB operation in our atomic
\* transaction", connection.rs:83).
THEOREM Implementation == Spec => ImplementsTransactionalCalls
  <1>1. IInv /\ AllHeld /\ [Next]_vars => [Promise!Next]_(Promise!vars)
    <2> SUFFICES ASSUME IInv, AllHeld, [Next]_vars PROVE [Promise!Next]_(Promise!vars)
      OBVIOUS
    <2>1. CASE \E c \in Calls : Acts(c)
      BY <2>1, ImplementsCall
    <2>2. CASE UNCHANGED vars
      BY <2>2 DEF vars, Promise!vars, Verdict
    <2>3. QED
      BY <2>1, <2>2 DEF Next, Acts, Done
  <1>2. QED
    BY <1>1, Invariant, Held, ImplementsInit, PTL
       DEF Spec, ImplementsTransactionalCalls, Promise!Spec

=============================================================================
