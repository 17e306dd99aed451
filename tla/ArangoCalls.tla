---------------------------- MODULE ArangoCalls -----------------------------
(***************************************************************************)
(* The calls on one ArangoDbConnection (arango_connection.rs): a database  *)
(* handle that all of them share, with a token that expires; with_reauth,  *)
(* which logs in again and repeats a call once; collections created before *)
(* their first use; streaming transactions, which live on the server and   *)
(* hold locks there until they are committed or aborted.                   *)
(*                                                                         *)
(* A call is one invocation, made once.  What its statements do to         *)
(* documents is EntitySession's and PersistentResources'; here a statement *)
(* locks a key.  A server answers 401 without doing anything; a lost       *)
(* connection is noticed before or after the server has done its part.     *)
(***************************************************************************)
EXTENDS Naturals, Sequences, FiniteSets

CONSTANTS
    Calls,
    Kinds,        \* what a call can be: "transaction", "read", "sync" (execute_documents_sync)
    Needs,        \* the collections it ensures, in their order
    Work,         \* the keys its transaction writes, in their order
    Refresh,      \* ArangoAuthRefresh: "never" or "onAuthError"
    Environment,  \* what goes wrong besides: see Habits
    MaxLogins,    \* bound: tokens until which some may expire
    MaxFailures   \* bound: connections lost

\* expiresInside: a token can expire while a transaction that began with it is open
\* loses:         connections are lost
Habits == {"expiresInside", "loses"}

Collections == UNION {{Needs[c][i] : i \in DOMAIN Needs[c]} : c \in Calls}

Keys == UNION {{Work[c][i] : i \in DOMAIN Work[c]} : c \in Calls}

ASSUME CallsAssumption ==
    /\ IsFiniteSet(Calls)
    /\ \A c \in Calls : Kinds[c] \subseteq {"transaction", "read", "sync"}
    /\ \A c \in Calls : Needs[c] \in Seq(Collections) /\ Work[c] \in Seq(Keys)
    /\ Refresh \in {"never", "onAuthError"}
    /\ Environment \subseteq Habits
    /\ MaxLogins \in Nat \ {0} /\ MaxFailures \in Nat

VARIABLES
    call,         \* the state of each call
    handle,       \* the token of the shared handle
    ensured,      \* EnsuredStores
    logins,       \* the last token the server gave
    accepted,     \* the tokens it takes
    collections,  \* the collections it has
    open,         \* its open transactions
    lock,         \* the transaction that holds a key, for keys that are held
    applied,      \* ghost: how often the writes of a call were committed
    cut,          \* ghost: transactions a fault kept from being aborted
    expired,      \* ghost: calls during which a token has expired
    failures      \* connections lost so far

serverVars == <<accepted, logins, collections, open, lock>>
ghostVars  == <<applied, cut, expired, failures>>

vars == <<call, handle, ensured, serverVars, ghostVars>>

Does(habit) == habit \in Environment

\* One transaction for each attempt.
Transactions == Calls \X {1, 2}

Errors == {"auth", "conflict", "other"}

CallState == [pc : {"idle", "ready", "writing", "aborting", "failed", "ok", "err"},
              kind : {"transaction", "read", "sync"}, attempt : {1, 2}, token : Nat,
              step : Nat,              \* collections ensured, then keys written
              error : Errors \cup {"none"}]

TypeOK ==
    /\ call \in [Calls -> CallState]
    /\ handle \in 1..logins /\ accepted \subseteq 1..logins
    /\ logins \in 1..(MaxLogins + Cardinality(Calls))
    /\ ensured \subseteq Collections /\ collections \subseteq Collections
    /\ open \subseteq Transactions
    /\ DOMAIN lock \subseteq Keys /\ \A k \in DOMAIN lock : lock[k] \in open
    /\ applied \in [Calls -> 0..2]
    /\ cut \subseteq Transactions /\ expired \subseteq Calls
    /\ failures \in 0..MaxFailures

Fresh == [pc : {"idle"}, kind : {"transaction", "read", "sync"}, attempt : {1},
          token : {1}, step : {0}, error : {"none"}]

\* connect; a database in which some collections may exist.
Init ==
    /\ call \in {f \in [Calls -> Fresh] : \A c \in Calls : f[c].kind \in Kinds[c]}
    /\ handle = 1 /\ logins = 1 /\ accepted = {1}
    /\ ensured = {}
    /\ collections \in SUBSET Collections
    /\ open = {} /\ lock = <<>>
    /\ applied = [c \in Calls |-> 0]
    /\ cut = {} /\ expired = {} /\ failures = 0

-----------------------------------------------------------------------------
(* One attempt                                                             *)

Transaction(c) == <<c, call[c].attempt>>

Goto(c, pc) == call' = [call EXCEPT ![c].pc = pc, ![c].step = 0]

\* Faulty: the transaction is not aborted.
AfterErrorNoAbort(c, error) ==
    [call EXCEPT ![c].pc = "failed", ![c].step = 0, ![c].error = error]

\* An error ends the attempt; one inside a transaction leads to an abort first, and an
\* error of the abort changes nothing.
AfterError(c, error) ==
    [call EXCEPT ![c].pc = IF call[c].pc = "writing" THEN "aborting" ELSE "failed",
                 ![c].step = 0,
                 ![c].error = IF call[c].pc = "aborting" THEN @ ELSE error]

\* The attempt clones the handle.
Attempt(c) ==
    /\ call[c].pc = "idle"
    /\ call' = [call EXCEPT ![c].pc = "ready", ![c].token = handle, ![c].error = "none"]
    /\ UNCHANGED <<handle, ensured, serverVars, ghostVars>>

Authorized(c) == call[c].token \in accepted

Prepared(c) == call[c].pc = "ready" /\ call[c].step = Len(Needs[c])

Ensuring(c) == call[c].pc = "ready" /\ call[c].step < Len(Needs[c])

Wanted(c) == Needs[c][call[c].step + 1]

\* is_ensured: the server is not asked.
SkipEnsure(c) ==
    /\ Ensuring(c) /\ Wanted(c) \in ensured
    /\ call' = [call EXCEPT ![c].step = @ + 1]
    /\ UNCHANGED <<handle, ensured, serverVars, ghostVars>>

\* ensure_collection; a duplicate name (1207) is as good.
Ensure(c) ==
    /\ Ensuring(c) /\ Wanted(c) \notin ensured
    /\ Authorized(c)
    /\ collections' = collections \cup {Wanted(c)}
    /\ ensured' = ensured \cup {Wanted(c)}
    /\ call' = [call EXCEPT ![c].step = @ + 1]
    /\ UNCHANGED <<handle, accepted, logins, open, lock, ghostVars>>

Read(c) ==
    /\ Prepared(c) /\ call[c].kind # "transaction"
    /\ Authorized(c)
    /\ Goto(c, "ok")
    /\ UNCHANGED <<handle, ensured, serverVars, ghostVars>>

Begin(c) ==
    /\ Prepared(c) /\ call[c].kind = "transaction"
    /\ Authorized(c)
    /\ open' = open \cup {Transaction(c)}
    /\ call' = [call EXCEPT ![c].pc = "writing", ![c].step = 0]
    /\ UNCHANGED <<handle, ensured, accepted, logins, collections, lock, ghostVars>>

Writing(c) == call[c].pc = "writing" /\ call[c].step < Len(Work[c])

Key(c) == Work[c][call[c].step + 1]

Free(c) == Key(c) \in DOMAIN lock => lock[Key(c)] = Transaction(c)

Locked(c) == [k \in DOMAIN lock \cup {Key(c)} |->
                 IF k = Key(c) THEN Transaction(c) ELSE lock[k]]

Unlocked(t) == [k \in {l \in DOMAIN lock : lock[l] # t} |-> lock[k]]

\* A statement of the transaction.
Write(c) ==
    /\ Writing(c) /\ Free(c)
    /\ Authorized(c)
    /\ lock' = Locked(c)
    /\ call' = [call EXCEPT ![c].step = @ + 1]
    /\ UNCHANGED <<handle, ensured, accepted, logins, collections, open, ghostVars>>

\* Faulty: the outcome of the statement is not looked at.
ConflictOverlooked(c) ==
    /\ Writing(c)
    /\ Authorized(c)
    /\ call' = [call EXCEPT ![c].step = @ + 1]
    /\ UNCHANGED <<handle, ensured, serverVars, ghostVars>>

\* check_operation_success: another version, or no document.
Conflict(c) ==
    /\ Writing(c)
    /\ Authorized(c)
    /\ call' = AfterError(c, "conflict")
    /\ UNCHANGED <<handle, ensured, serverVars, ghostVars>>

\* "timeout waiting to lock key"
LockTimeout(c) ==
    /\ Writing(c) /\ ~Free(c)
    /\ Authorized(c)
    /\ call' = AfterError(c, "other")
    /\ UNCHANGED <<handle, ensured, serverVars, ghostVars>>

Committing(c) == call[c].pc = "writing" /\ call[c].step = Len(Work[c])

Close(t) ==
    /\ open' = open \ {t}
    /\ lock' = Unlocked(t)

Commit(c) ==
    /\ Committing(c)
    /\ Authorized(c)
    /\ Close(Transaction(c))
    /\ applied' = [applied EXCEPT ![c] = @ + 1]
    /\ Goto(c, "ok")
    /\ UNCHANGED <<handle, ensured, accepted, logins, collections, cut, expired, failures>>

\* Also of a transaction that the server has committed after all.
Abort(c) ==
    /\ call[c].pc = "aborting"
    /\ Authorized(c)
    /\ Close(Transaction(c))
    /\ Goto(c, "failed")
    /\ UNCHANGED <<handle, ensured, accepted, logins, collections, ghostVars>>

\* Waiting for an answer of the server.
Asking(c) ==
    \/ Ensuring(c) /\ Wanted(c) \notin ensured
    \/ Prepared(c)
    \/ call[c].pc \in {"writing", "aborting"}

\* What an error at this point may leave open.
Cut(c) == IF call[c].pc = "aborting" \/ Prepared(c) THEN cut \cup {Transaction(c)} ELSE cut

\* Faulty: a collection is marked as ensured before the server is asked.
UnauthorizedAfterMark(c) ==
    /\ Asking(c) /\ ~Authorized(c)
    /\ call' = AfterError(c, "auth")
    /\ cut' = Cut(c)
    /\ ensured' = IF Ensuring(c) THEN ensured \cup {Wanted(c)} ELSE ensured
    /\ UNCHANGED <<handle, serverVars, applied, expired, failures>>

\* Faulty: an abort is repeated until it succeeds.
UnauthorizedButAborts(c) ==
    /\ Asking(c) /\ ~Authorized(c)
    /\ call[c].pc # "aborting"
    /\ call' = AfterError(c, "auth")
    /\ cut' = Cut(c)
    /\ UNCHANGED <<handle, ensured, serverVars, applied, expired, failures>>

\* 401
Unauthorized(c) ==
    /\ Asking(c) /\ ~Authorized(c)
    /\ call' = AfterError(c, "auth")
    /\ cut' = Cut(c)
    /\ UNCHANGED <<handle, ensured, serverVars, applied, expired, failures>>

Losing ==
    /\ Does("loses")
    /\ failures < MaxFailures
    /\ failures' = failures + 1

\* The connection is lost on the way to the server.
RequestLost(c) ==
    /\ Losing
    /\ Asking(c)
    /\ call' = AfterError(c, "other")
    /\ cut' = Cut(c)
    /\ UNCHANGED <<handle, ensured, serverVars, applied, expired>>

\* On the way back: the server has done it, and the caller never learns.
AnswerLost(c) ==
    /\ Losing
    /\ Authorized(c)
    /\ call' = AfterError(c, "other")
    /\ \/ /\ Ensuring(c) /\ Wanted(c) \notin ensured
          /\ collections' = collections \cup {Wanted(c)}
          /\ UNCHANGED <<open, lock, applied, cut>>
       \/ /\ Prepared(c) /\ call[c].kind = "transaction"
          /\ open' = open \cup {Transaction(c)}
          /\ cut' = Cut(c)
          /\ UNCHANGED <<collections, lock, applied>>
       \/ /\ Writing(c) /\ Free(c)
          /\ lock' = Locked(c)
          /\ UNCHANGED <<collections, open, applied, cut>>
       \/ /\ Committing(c)
          /\ Close(Transaction(c))
          /\ applied' = [applied EXCEPT ![c] = @ + 1]
          /\ UNCHANGED <<collections, cut>>
    /\ UNCHANGED <<handle, ensured, accepted, logins, expired>>

-----------------------------------------------------------------------------
(* with_reauth                                                             *)

\* Faulty: any error is taken for one of authentication.
RetriesAnyError(c) ==
    Refresh = "onAuthError" /\ call[c].kind # "sync" /\ call[c].attempt = 1

\* execute_documents_sync does not go through with_reauth.
Retries(c) ==
    /\ Refresh = "onAuthError" /\ call[c].kind # "sync"
    /\ call[c].attempt = 1
    /\ call[c].error = "auth"

\* Faulty: the new handle is not stored.
HandleKept(token) == handle

Stored(token) == token

\* establish, which stores the handle at once.
LogIn ==
    /\ logins' = logins + 1
    /\ accepted' = accepted \cup {logins + 1}
    /\ handle' = Stored(logins + 1)

LogInAgain(c) ==
    /\ call[c].pc = "failed" /\ Retries(c)
    /\ LogIn
    /\ call' = [call EXCEPT ![c].pc = "idle", ![c].attempt = 2]
    /\ UNCHANGED <<ensured, collections, open, lock, ghostVars>>

\* The error of the login is the answer.
LoginLost(c) ==
    /\ Losing
    /\ call[c].pc = "failed" /\ Retries(c)
    /\ call' = [call EXCEPT ![c].pc = "err", ![c].error = "other"]
    /\ UNCHANGED <<handle, ensured, serverVars, applied, cut, expired>>

GiveUp(c) ==
    /\ call[c].pc = "failed" /\ ~Retries(c)
    /\ Goto(c, "err")
    /\ UNCHANGED <<handle, ensured, serverVars, ghostVars>>

\* refresh_auth, called by the application.
RefreshAuth ==
    /\ logins < MaxLogins
    /\ LogIn
    /\ UNCHANGED <<call, ensured, collections, open, lock, ghostVars>>

Running(c) == call[c].pc \notin {"ok", "err"} /\ ~(call[c].pc = "idle" /\ call[c].attempt = 1)

Expire(t) ==
    /\ t \in accepted
    /\ logins < MaxLogins
    /\ (\E c \in Calls : call[c].pc \in {"writing", "aborting"} /\ call[c].token = t)
          => Does("expiresInside")
    /\ accepted' = accepted \ {t}
    /\ expired' = expired \cup {c \in Calls : Running(c)}
    /\ UNCHANGED <<call, handle, ensured, logins, collections, open, lock, applied, cut,
                   failures>>

-----------------------------------------------------------------------------
Step(c) ==
    \/ SkipEnsure(c) \/ Ensure(c) \/ Read(c)
    \/ Begin(c) \/ Write(c) \/ Conflict(c) \/ LockTimeout(c) \/ Commit(c) \/ Abort(c)
    \/ Unauthorized(c) \/ LogInAgain(c) \/ GiveUp(c)

Fault(c) == RequestLost(c) \/ AnswerLost(c) \/ LoginLost(c)

Answered(c) == call[c].pc \in {"ok", "err"}

Done == (\A c \in Calls : Answered(c)) /\ UNCHANGED vars

Next ==
    \/ \E c \in Calls : Attempt(c) \/ Step(c) \/ Fault(c)
    \/ RefreshAuth
    \/ \E t \in 1..logins : Expire(t)
    \/ Done

Spec == Init /\ [][Next]_vars

\* The runtime polls every task, and the server answers or the wait for a lock ends.
Fairness == \A c \in Calls : WF_vars(Step(c) \/ (call[c].attempt = 2 /\ Attempt(c)))

FairSpec == Spec /\ Fairness

-----------------------------------------------------------------------------
(* Properties                                                              *)

\* A transaction that with_reauth repeats is not applied twice; one that is answered Ok
\* is applied, one refused for its versions or its token is not.
AppliedOnce ==
    \A c \in Calls :
        /\ applied[c] <= 1
        /\ call[c].pc = "ok" /\ call[c].kind = "transaction" => applied[c] = 1
        /\ call[c].pc = "err" /\ call[c].error \in {"auth", "conflict"} => applied[c] = 0

\* "Reconnect and retry once when the server responds with an auth error"
\* (arango_connection.rs:67): however calls and logins interleave, an authentication
\* error reaches the caller only if a token has expired while the call was under way.
RefreshHelps ==
    \A c \in Calls :
        call[c].pc = "err" /\ call[c].error = "auth" /\ Refresh = "onAuthError" =>
            c \in expired

\* No transaction begins, and nothing is read, on a collection the server does not have.
CollectionsExist ==
    \A c \in Calls :
        Prepared(c) => \A i \in DOMAIN Needs[c] : Needs[c][i] \in collections

\* The call that began it is still at it.
Attended(t) == call[t[1]].attempt = t[2] /\ call[t[1]].pc \in {"writing", "aborting"}

\* "a failed commit never leaves the streaming transaction open holding a lock"
\* (arango_connection.rs:1128), as long as the server can be asked to abort it.
LeaksOnlyWhenCut == \A t \in open : Attended(t) \/ t \in cut

\* Every call is answered, also when it waits for a lock that a leaked transaction
\* holds, and when two transactions wait for each other.
EveryCallAnswered == \A c \in Calls : Running(c) ~> Answered(c)

\* What the caller can conclude from the answer.
Verdict(c) ==
    CASE call[c].pc = "ok" -> "ok"
      [] call[c].pc = "err" ->
            IF call[c].error \in {"auth", "conflict"} THEN "refused" ELSE "unknown"
      [] OTHER -> "none"

Promise ==
    INSTANCE TransactionalCalls WITH
        Attempts <- {1, 2},
        writes   <- {c \in Calls : call[c].kind = "transaction"},
        holder   <- lock,
        answer   <- [c \in Calls |-> Verdict(c)]

\* A transaction is applied as a whole, by one of its attempts, while it holds the keys it
\* writes, and what the call answers is true ("each represents one DB operation in our
\* atomic transaction", connection.rs:83).
ImplementsTransactionalCalls == Promise!Spec

-----------------------------------------------------------------------------
(* What the documentation says and the code does not do (see README.md).   *)

\* "Reconnect and retry once": the second attempt of a call does not wait for a lock that
\* its first attempt has left behind.
RetryNotBlockedByItself ==
    \A c \in Calls : Writing(c) /\ ~Free(c) => lock[Key(c)][1] # c

=============================================================================
