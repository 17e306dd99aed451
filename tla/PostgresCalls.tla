--------------------------- MODULE PostgresCalls ----------------------------
(***************************************************************************)
(* The calls on one PostgresDbConnection (postgres_connection.rs): they    *)
(* take clients from one pool, which waits without a limit, create the     *)
(* tables they use, and run their statements, in a transaction or alone.   *)
(* The server's part is row locks, which it grants in any order, its       *)
(* search for deadlocks, and the end of a transaction whose connection is  *)
(* gone.                                                                   *)
(*                                                                         *)
(* A call is one invocation, made once; what a statement does to documents *)
(* is EntitySession's and PersistentResources'.                            *)
(***************************************************************************)
EXTENDS Naturals, Sequences, FiniteSets

CONSTANTS
    Calls,
    Kinds,       \* what a call can be: "transaction", "read"
    Needs,       \* the tables it ensures, in their order
    Work,        \* the rows its transaction writes, in their order
    PoolSize,    \* clients of the pool
    MaxFailures  \* bound: connections lost

Tables == UNION {{Needs[c][i] : i \in DOMAIN Needs[c]} : c \in Calls}

Rows == UNION {{Work[c][i] : i \in DOMAIN Work[c]} : c \in Calls}

ASSUME PoolAssumption ==
    /\ \A c \in Calls : Kinds[c] \subseteq {"transaction", "read"}
    /\ \A c \in Calls : Needs[c] \in Seq(Tables) /\ Work[c] \in Seq(Rows)
    /\ PoolSize \in Nat \ {0} /\ MaxFailures \in Nat

VARIABLES
    call,      \* the state of each call
    ensured,   \* EnsuredStores
    tables,    \* the tables of the database
    lock,      \* the call whose transaction holds a row, for rows that are held
    applied,   \* ghost: how often the transaction of a call was committed
    failures   \* connections lost so far

vars == <<call, ensured, tables, lock, applied, failures>>

Errors == {"duplicateTable", "conflict", "deadlock", "connection"}

CallState ==
    [pc : {"idle", "ready", "creating", "running", "ok"} \cup Errors,
     kind : {"transaction", "read"},
     step : Nat,           \* tables ensured, then rows written
     creates : BOOLEAN,    \* CREATE TABLE IF NOT EXISTS has found no table
     client : BOOLEAN]     \* holds the client for its own statements

Answers == {"ok"} \cup Errors

Answered(c) == call[c].pc \in Answers

TypeOK ==
    /\ call \in [Calls -> CallState]
    /\ ensured \subseteq Tables /\ tables \subseteq Tables
    /\ DOMAIN lock \subseteq Rows
    /\ \A r \in DOMAIN lock : lock[r] \in Calls /\ call[lock[r]].pc = "running"
    /\ applied \in [Calls -> 0..1]
    /\ failures \in 0..MaxFailures

Fresh == [pc : {"idle"}, kind : {"transaction", "read"}, step : {0}, creates : {FALSE},
          client : {FALSE}]

Init ==
    /\ call \in {f \in [Calls -> Fresh] : \A c \in Calls : f[c].kind \in Kinds[c]}
    /\ ensured = {}
    /\ tables \in SUBSET Tables
    /\ lock = <<>>
    /\ applied = [c \in Calls |-> 0]
    /\ failures = 0

-----------------------------------------------------------------------------
(* Clients                                                                 *)

\* One to create a table, one to run statements.
InUse == Cardinality({c \in Calls : call[c].pc = "creating"})
         + Cardinality({c \in Calls : call[c].client})

Available == InUse < PoolSize

Start(c) ==
    /\ call[c].pc = "idle"
    /\ call' = [call EXCEPT ![c].pc = "ready"]
    /\ UNCHANGED <<ensured, tables, lock, applied, failures>>

Unlocked(c) == [r \in {q \in DOMAIN lock : lock[q] # c} |-> lock[r]]

\* The client goes back to the pool, without a transaction.
Answer(c, answer) ==
    /\ call' = [call EXCEPT ![c].pc = answer, ![c].step = 0, ![c].creates = FALSE,
                            ![c].client = FALSE]
    /\ lock' = Unlocked(c)

-----------------------------------------------------------------------------
(* ensure_store_table, ensure_edge_table                                   *)

Ensuring(c) == call[c].pc = "ready" /\ call[c].step < Len(Needs[c])

Wanted(c) == Needs[c][call[c].step + 1]

SkipEnsure(c) ==
    /\ Ensuring(c) /\ Wanted(c) \in ensured
    /\ call' = [call EXCEPT ![c].step = @ + 1]
    /\ UNCHANGED <<ensured, tables, lock, applied, failures>>

\* Faulty: the name is marked before the table is there.
BeginCreateMarked(c) ==
    /\ Ensuring(c) /\ Wanted(c) \notin ensured
    /\ Available
    /\ call' = [call EXCEPT ![c].pc = "creating", ![c].creates = Wanted(c) \notin tables]
    /\ ensured' = ensured \cup {Wanted(c)}
    /\ UNCHANGED <<tables, lock, applied, failures>>

BeginCreate(c) ==
    /\ Ensuring(c) /\ Wanted(c) \notin ensured
    /\ Available
    /\ call' = [call EXCEPT ![c].pc = "creating", ![c].creates = Wanted(c) \notin tables]
    /\ UNCHANGED <<ensured, tables, lock, applied, failures>>

EndCreate(c) ==
    /\ call[c].pc = "creating"
    /\ call[c].creates => Wanted(c) \notin tables
    /\ tables' = tables \cup {Wanted(c)}
    /\ ensured' = ensured \cup {Wanted(c)}
    /\ call' = [call EXCEPT ![c].pc = "ready", ![c].step = @ + 1, ![c].creates = FALSE]
    /\ UNCHANGED <<lock, applied, failures>>

\* IF NOT EXISTS does not help against a table that is created at the same time.
CreateRaces(c) ==
    /\ call[c].pc = "creating"
    /\ call[c].creates /\ Wanted(c) \in tables
    /\ Answer(c, "duplicateTable")
    /\ UNCHANGED <<ensured, tables, applied, failures>>

-----------------------------------------------------------------------------
(* The call's own statements                                               *)

\* Faulty: as soon as the table of the documents is there.
MayTakeEarly(c) == call[c].step > 0

\* "Ensure edge table BEFORE acquiring the client lock to avoid deadlock"
MayTake(c) == call[c].step = Len(Needs[c])

TakeClient(c) ==
    /\ call[c].pc = "ready" /\ ~call[c].client
    /\ MayTake(c)
    /\ Available
    /\ call' = [call EXCEPT ![c].client = TRUE]
    /\ UNCHANGED <<ensured, tables, lock, applied, failures>>

Run(c) ==
    /\ call[c].pc = "ready" /\ call[c].client
    /\ call[c].step = Len(Needs[c])
    /\ call' = [call EXCEPT ![c].pc = "running", ![c].step = 0]
    /\ UNCHANGED <<ensured, tables, lock, applied, failures>>

Read(c) ==
    /\ call[c].pc = "running" /\ call[c].kind = "read"
    /\ Answer(c, "ok")
    /\ UNCHANGED <<ensured, tables, applied, failures>>

Writing(c) ==
    call[c].pc = "running" /\ call[c].kind = "transaction" /\ call[c].step < Len(Work[c])

Row(c) == Work[c][call[c].step + 1]

Free(c) == Row(c) \in DOMAIN lock => lock[Row(c)] = c

Write(c) ==
    /\ Writing(c) /\ Free(c)
    /\ lock' = [r \in DOMAIN lock \cup {Row(c)} |-> IF r = Row(c) THEN c ELSE lock[r]]
    /\ call' = [call EXCEPT ![c].step = @ + 1]
    /\ UNCHANGED <<ensured, tables, applied, failures>>

\* Faulty: the outcome of the statement is not looked at.
ConflictOverlooked(c) ==
    /\ Writing(c) /\ Free(c)
    /\ call' = [call EXCEPT ![c].step = @ + 1]
    /\ UNCHANGED <<ensured, tables, lock, applied, failures>>

\* check_operation_success fails: the transaction is rolled back.
Conflict(c) ==
    /\ Writing(c) /\ Free(c)
    /\ Answer(c, "conflict")
    /\ UNCHANGED <<ensured, tables, applied, failures>>

\* Calls that wait for each other in a circle; the server ends one of them.
Circular(cs) == \A c \in cs : Writing(c) /\ ~Free(c) /\ lock[Row(c)] \in cs

Deadlock(c) ==
    /\ \E cs \in SUBSET Calls : c \in cs /\ Circular(cs)
    /\ Answer(c, "deadlock")
    /\ UNCHANGED <<ensured, tables, applied, failures>>

Committing(c) ==
    call[c].pc = "running" /\ call[c].kind = "transaction" /\ call[c].step = Len(Work[c])

Commit(c) ==
    /\ Committing(c)
    /\ Answer(c, "ok")
    /\ applied' = [applied EXCEPT ![c] = @ + 1]
    /\ UNCHANGED <<ensured, tables, failures>>

\* The connection is lost before the server has done what it was asked; it ends the
\* transaction, and the pool replaces the client.
ConnectionLost(c) ==
    /\ failures < MaxFailures
    /\ failures' = failures + 1
    /\ call[c].pc \in {"creating", "running"}
    /\ Answer(c, "connection")
    /\ UNCHANGED <<ensured, tables, applied>>

\* The same with the answer of CREATE TABLE or COMMIT.
AnswerLost(c) ==
    /\ failures < MaxFailures
    /\ failures' = failures + 1
    /\ \/ /\ call[c].pc = "creating"
          /\ tables' = tables \cup {Wanted(c)}
          /\ UNCHANGED applied
       \/ /\ Committing(c)
          /\ applied' = [applied EXCEPT ![c] = @ + 1]
          /\ UNCHANGED tables
    /\ Answer(c, "connection")
    /\ UNCHANGED ensured

-----------------------------------------------------------------------------
Step(c) ==
    \/ SkipEnsure(c) \/ BeginCreate(c) \/ EndCreate(c) \/ CreateRaces(c)
    \/ TakeClient(c) \/ Run(c) \/ Read(c)
    \/ Write(c) \/ Conflict(c) \/ Deadlock(c) \/ Commit(c)

Done == (\A c \in Calls : Answered(c)) /\ UNCHANGED vars

Next == (\E c \in Calls : Start(c) \/ Step(c) \/ ConnectionLost(c) \/ AnswerLost(c)) \/ Done

Spec == Init /\ [][Next]_vars

\* The pool serves who waits in turn, so nobody is overtaken for ever; the server
\* answers.
FairSpec == Spec /\ \A c \in Calls : SF_vars(Step(c))

-----------------------------------------------------------------------------
(* Properties                                                              *)

\* Statements run on tables that are there, whoever was to create them.
TablesExist ==
    \A c \in Calls :
        call[c].pc = "running" => \A i \in DOMAIN Needs[c] : Needs[c][i] \in tables

\* Calls that wait for clients and calls that wait for rows never wait for each other:
\* every call is answered, with any pool ("to avoid deadlock",
\* postgres_connection.rs:842).
EveryCallAnswered == \A c \in Calls : call[c].pc = "ready" ~> Answered(c)

\* What the caller can conclude from the answer: another writer was there first, a wait in
\* a circle and a lost race end with an error of the server, which has rolled back.
Verdict(c) ==
    CASE call[c].pc = "ok" -> "ok"
      [] call[c].pc \in {"conflict", "deadlock", "duplicateTable"} -> "refused"
      [] call[c].pc = "connection" -> "unknown"
      [] OTHER -> "none"

Promise ==
    INSTANCE TransactionalCalls WITH
        Attempts <- {1},
        writes   <- {c \in Calls : call[c].kind = "transaction"},
        holder   <- [r \in DOMAIN lock |-> <<lock[r], 1>>],
        answer   <- [c \in Calls |-> Verdict(c)]

\* A transaction is applied as a whole, at most once, while it holds the rows it writes,
\* and what the call answers is true ("each represents one DB operation in our atomic
\* transaction", connection.rs:83).
ImplementsTransactionalCalls == Promise!Spec

=============================================================================
