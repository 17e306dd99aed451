------------------------- MODULE ArangoCalls_proofs -------------------------
(***************************************************************************)
(* Safety of the calls on one ArangoDbConnection, for any calls, keys and  *)
(* collections, under both settings of the refresh and any faults.         *)
(***************************************************************************)
EXTENDS ArangoCalls, FiniteSetTheorems, TLAPS

-----------------------------------------------------------------------------
(* The inductive invariant.                                                *)

\* Every login after the first is the application's or a call's second attempt's.
Repeated == {c \in Calls : call[c].attempt = 2}

LoginsCounted == logins <= MaxLogins + Cardinality(Repeated)

\* What has been ensured is there.
Ensured(c) ==
    LET s == call[c] IN
    /\ s.pc \in {"idle", "failed"} => s.step = 0
    /\ s.pc = "ready" => /\ s.step <= Len(Needs[c])
                         /\ \A i \in 1..s.step : Needs[c][i] \in collections

\* The writes of a call are committed when it is answered Ok, or when the answer of the
\* commit was lost.
Applied(c) ==
    LET s == call[c] IN
    /\ applied[c] <= 1
    /\ s.pc \in {"idle", "ready", "writing"} => applied[c] = 0
    /\ s.pc \in {"aborting", "failed", "err"} /\ s.error # "other" => applied[c] = 0
    /\ s.pc = "ok" /\ s.kind = "transaction" => applied[c] = 1

\* The second attempt goes on with a token the server takes, unless one has expired
\* while the call was under way.
Trusted(c) ==
    LET s == call[c] IN
    /\ s.kind \in Kinds[c]
    /\ s.attempt = 2 /\ c \notin expired =>
          /\ s.pc = "idle" => handle \in accepted
          /\ s.pc \in {"ready", "writing", "aborting"} => s.token \in accepted
          /\ s.pc \in {"aborting", "failed", "err"} => s.error # "auth"
    /\ s.pc = "err" /\ s.error = "auth" /\ s.kind # "sync" /\ Refresh = "onAuthError" =>
          s.attempt = 2

\* A call that writes has its transaction; others of its transactions were cut off.
Owned(c) ==
    /\ call[c].pc = "writing" => Transaction(c) \in open
    /\ \A n \in {1, 2} : <<c, n>> \in open => Attended(<<c, n>>) \/ <<c, n>> \in cut

CallInv(c) == Ensured(c) /\ Applied(c) /\ Trusted(c) /\ Owned(c)

IInv ==
    /\ TypeOK
    /\ LoginsCounted
    /\ ensured \subseteq collections
    /\ \A c \in Calls : CallInv(c)

-----------------------------------------------------------------------------
(* Facts about the operators.                                              *)

LEMMA RepeatedFinite == IsFiniteSet(Repeated) /\ Cardinality(Repeated) \in Nat
                        /\ Cardinality(Calls) \in Nat
                        /\ Cardinality(Repeated) <= Cardinality(Calls)
  BY CallsAssumption, FS_Subset, FS_CardinalityType DEF Repeated

\* The collection a call is about to ensure, the key it is about to write.
LEMMA WantedIsCollection ==
    ASSUME TypeOK, NEW c \in Calls, Ensuring(c)
    PROVE  Wanted(c) \in Collections
  <1>1. Needs[c] \in Seq(Collections)
    BY CallsAssumption
  <1>2. call[c].step + 1 \in 1..Len(Needs[c])
    BY <1>1 DEF TypeOK, CallState, Ensuring
  <1>3. QED
    BY <1>1, <1>2 DEF Wanted

LEMMA KeyIsKey ==
    ASSUME TypeOK, NEW c \in Calls, Writing(c)
    PROVE  Key(c) \in Keys
  <1>1. Work[c] \in Seq(Keys)
    BY CallsAssumption
  <1>2. call[c].step + 1 \in 1..Len(Work[c])
    BY <1>1 DEF TypeOK, CallState, Writing
  <1>3. QED
    BY <1>1, <1>2 DEF Key

LockTyped(l, o) == DOMAIN l \subseteq Keys /\ \A k \in DOMAIN l : l[k] \in o

LEMMA LockedTyped ==
    ASSUME TypeOK, NEW c \in Calls, Writing(c), Transaction(c) \in open
    PROVE  LockTyped(Locked(c), open)
  <1>1. Key(c) \in Keys
    BY KeyIsKey
  <1>2. DOMAIN Locked(c) = DOMAIN lock \cup {Key(c)}
    BY DEF Locked
  <1>3. \A k \in DOMAIN Locked(c) : \/ k = Key(c) /\ Locked(c)[k] = Transaction(c)
                                    \/ k \in DOMAIN lock /\ Locked(c)[k] = lock[k]
    BY DEF Locked
  <1>4. QED
    BY <1>1, <1>2, <1>3 DEF LockTyped, TypeOK

LEMMA UnlockedTyped ==
    ASSUME TypeOK, NEW t
    PROVE  LockTyped(Unlocked(t), open \ {t})
  BY DEF LockTyped, Unlocked, TypeOK

\* The state of a call after an error.
LEMMA ErrorState ==
    ASSUME TypeOK, NEW c \in Calls, NEW e \in Errors, call' = AfterError(c, e)
    PROVE  /\ call' \in [Calls -> CallState]
           /\ \A d \in Calls \ {c} : call'[d] = call[d]
           /\ call'[c].pc = IF call[c].pc = "writing" THEN "aborting" ELSE "failed"
           /\ call'[c].error = IF call[c].pc = "aborting" THEN call[c].error ELSE e
           /\ call'[c].step = 0 /\ call'[c].attempt = call[c].attempt
           /\ call'[c].kind = call[c].kind /\ call'[c].token = call[c].token
  <1>1. call \in [Calls -> CallState] /\ call[c] \in CallState
    BY DEF TypeOK
  <1> DEFINE pc == IF call[c].pc = "writing" THEN "aborting" ELSE "failed"
             error == IF call[c].pc = "aborting" THEN call[c].error ELSE e
             s == [call[c] EXCEPT !.pc = pc, !.step = 0, !.error = error]
  <1>2. pc \in {"aborting", "failed"} /\ error \in Errors \cup {"none"}
    BY <1>1 DEF CallState
  <1>3. call' = [call EXCEPT ![c] = s]
    BY <1>1 DEF AfterError
  <1> HIDE DEF pc, error
  <1>4. s \in CallState
    BY <1>1, <1>2 DEF CallState
  <1>5. /\ s.pc = pc /\ s.error = error /\ s.step = 0 /\ s.attempt = call[c].attempt
        /\ s.kind = call[c].kind /\ s.token = call[c].token
    BY <1>1 DEF CallState
  <1> HIDE DEF s
  <1>6. call' \in [Calls -> CallState] /\ call'[c] = s
        /\ \A d \in Calls \ {c} : call'[d] = call[d]
    BY <1>1, <1>3, <1>4
  <1>7. QED
    BY <1>5, <1>6 DEF pc, error

LEMMA GotoState ==
    ASSUME TypeOK, NEW c \in Calls, NEW pc \in {"ok", "failed", "err"}, Goto(c, pc)
    PROVE  /\ call' \in [Calls -> CallState]
           /\ \A d \in Calls \ {c} : call'[d] = call[d]
           /\ call'[c].pc = pc /\ call'[c].step = 0 /\ call'[c].error = call[c].error
           /\ call'[c].attempt = call[c].attempt
           /\ call'[c].kind = call[c].kind /\ call'[c].token = call[c].token
  <1> DEFINE s == [call[c] EXCEPT !.pc = pc, !.step = 0]
  <1>1. call' = [call EXCEPT ![c] = s] /\ call \in [Calls -> CallState]
    BY DEF Goto, TypeOK
  <1>2. /\ s \in CallState
        /\ s.pc = pc /\ s.step = 0 /\ s.error = call[c].error
        /\ s.attempt = call[c].attempt /\ s.kind = call[c].kind /\ s.token = call[c].token
    BY <1>1 DEF CallState
  <1> HIDE DEF s
  <1>3. QED
    BY <1>1, <1>2

-----------------------------------------------------------------------------
(* The steps.                                                              *)

\* A step of one call that leaves logins and tokens alone.
LEMMA OneCallStep ==
    ASSUME IInv, NEW c \in Calls, call' \in [Calls -> CallState],
           \A d \in Calls \ {c} : call'[d] = call[d],
           call'[c].attempt = call[c].attempt, call'[c].kind = call[c].kind,
           UNCHANGED <<handle, logins, accepted, expired>>,
           collections \subseteq collections', collections' \subseteq Collections,
           ensured' \subseteq collections',
           open' \subseteq Transactions,
           \A t \in Transactions : t[1] # c => (t \in open' <=> t \in open),
           LockTyped(lock', open'),
           applied' \in [Calls -> 0..2], \A d \in Calls \ {c} : applied'[d] = applied[d],
           cut \subseteq cut', cut' \subseteq Transactions,
           failures' \in 0..MaxFailures,
           CallInv(c)'
    PROVE  IInv'
  <1> USE DEF IInv
  <1>1. Repeated' = Repeated
    BY DEF Repeated
  <1>2. TypeOK'
    BY DEF TypeOK, LockTyped
  <1>3. LoginsCounted'
    BY <1>1 DEF LoginsCounted
  <1>4. ensured' \subseteq collections'
    OBVIOUS
  <1>5. ASSUME NEW d \in Calls \ {c} PROVE CallInv(d)'
    <2>1. call'[d] = call[d] /\ applied'[d] = applied[d] /\ CallInv(d)
      OBVIOUS
    <2>2. Ensured(d)' /\ Applied(d)' /\ Trusted(d)'
      BY <2>1 DEF CallInv, Ensured, Applied, Trusted
    <2>3. \A n \in {1, 2} : <<d, n>> \in open' <=> <<d, n>> \in open
      BY DEF Transactions
    <2>4. Transaction(d)' = Transaction(d) /\ Transaction(d) \in {<<d, 1>>, <<d, 2>>}
      BY <2>1 DEF Transaction, TypeOK, CallState
    <2>5. Owned(d)'
      BY <2>1, <2>3, <2>4 DEF CallInv, Owned, Attended
    <2>6. QED
      BY <2>2, <2>5 DEF CallInv
  <1>6. QED
    BY <1>2, <1>3, <1>4, <1>5

LEMMA InitInvariant == Init => IInv
  <1> SUFFICES ASSUME Init PROVE IInv
    OBVIOUS
  <1> USE CallsAssumption
  <1>1. call \in [Calls -> Fresh] /\ \A c \in Calls : call[c].kind \in Kinds[c]
    BY DEF Init
  <1>2. Fresh \subseteq CallState
    BY DEF Fresh, CallState
  <1>3. \A c \in Calls : call[c].pc = "idle" /\ call[c].step = 0 /\ call[c].attempt = 1
    BY <1>1 DEF Fresh
  <1>4. Cardinality(Calls) \in Nat /\ Cardinality(Repeated) \in Nat
    BY RepeatedFinite
  <1>5. TypeOK
    BY <1>1, <1>2, <1>4 DEF Init, TypeOK
  <1>6. LoginsCounted
    BY <1>4 DEF Init, LoginsCounted
  <1>7. \A c \in Calls : CallInv(c)
    BY <1>1, <1>3 DEF Init, CallInv, Ensured, Applied, Trusted, Owned
  <1>8. QED
    BY <1>5, <1>6, <1>7 DEF Init, IInv

\* An error of the server or of the connection.
LEMMA ErrorStep ==
    ASSUME IInv, NEW c \in Calls, NEW e \in Errors, call' = AfterError(c, e),
           UNCHANGED <<handle, ensured, logins, accepted, expired>>,
           collections \subseteq collections', collections' \subseteq Collections,
           LockTyped(lock', open'), failures' \in 0..MaxFailures,
           call[c].pc \in {"ready", "writing", "aborting"},
           open' \subseteq open \cup {Transaction(c)},
           \A t \in Transactions : t # Transaction(c) => (t \in open' <=> t \in open),
           Transaction(c) \in open' /\ call[c].pc # "writing" => Transaction(c) \in cut',
           cut \subseteq cut', cut' \subseteq cut \cup {Transaction(c)},
           \/ applied' = applied
           \/ applied' = [applied EXCEPT ![c] = @ + 1] /\ call[c].pc = "writing" /\ e = "other",
           e = "auth" => ~Authorized(c)
    PROVE  IInv'
  <1> USE DEF IInv
  <1>1. CallInv(c) /\ call[c] \in CallState /\ applied[c] \in 0..2
    BY DEF TypeOK
  <1>2. /\ call' \in [Calls -> CallState]
        /\ \A d \in Calls \ {c} : call'[d] = call[d]
        /\ call'[c].pc = IF call[c].pc = "writing" THEN "aborting" ELSE "failed"
        /\ call'[c].error = IF call[c].pc = "aborting" THEN call[c].error ELSE e
        /\ call'[c].step = 0 /\ call'[c].attempt = call[c].attempt
        /\ call'[c].kind = call[c].kind /\ call'[c].token = call[c].token
    BY ErrorState
  <1>3. Transaction(c) \in Transactions /\ Transaction(c)[1] = c
    BY <1>1 DEF Transaction, Transactions, CallState
  <1>4. applied' \in [Calls -> 0..2] /\ \A d \in Calls \ {c} : applied'[d] = applied[d]
    BY <1>1 DEF TypeOK, CallInv, Applied
  <1>5. Ensured(c)'
    BY <1>2 DEF Ensured
  <1>6. Applied(c)'
    <2>1. CASE applied' = applied
      BY <1>1, <1>2, <2>1 DEF CallInv, Applied
    <2>2. CASE applied' # applied
      <3>1. applied'[c] = applied[c] + 1 /\ call[c].pc = "writing" /\ e = "other"
        BY <2>2 DEF TypeOK
      <3>2. QED
        BY <1>1, <1>2, <3>1 DEF CallInv, Applied
    <2>3. QED
      BY <2>1, <2>2
  <1>7. Trusted(c)'
    BY <1>1, <1>2 DEF CallInv, Trusted, Authorized
  <1>8. Owned(c)'
    <2>1. call'[c].pc # "writing"
      BY <1>2
    <2>2. ASSUME NEW n \in {1, 2}, <<c, n>> \in open'
          PROVE  Attended(<<c, n>>)' \/ <<c, n>> \in cut'
      <3>1. CASE n = call[c].attempt
        BY <1>2, <2>2, <3>1 DEF Transaction, Attended
      <3>2. CASE n # call[c].attempt
        <4>1. <<c, n>> # Transaction(c) /\ <<c, n>> \in Transactions
          BY <3>2 DEF Transaction, Transactions
        <4>2. <<c, n>> \in open /\ ~Attended(<<c, n>>)
          BY <2>2, <3>2, <4>1 DEF Attended
        <4>3. QED
          BY <1>1, <4>2 DEF CallInv, Owned
      <3>3. QED
        BY <3>1, <3>2
    <2>3. QED
      BY <2>1, <2>2 DEF Owned
  <1>9. CallInv(c)'
    BY <1>5, <1>6, <1>7, <1>8 DEF CallInv
  <1>10. /\ open' \subseteq Transactions /\ cut' \subseteq Transactions
         /\ \A t \in Transactions : t[1] # c => (t \in open' <=> t \in open)
         /\ ensured' \subseteq collections'
    BY <1>3 DEF TypeOK
  <1>11. QED
    BY <1>2, <1>4, <1>9, <1>10, OneCallStep

\* Errors that the server, the connection or the wait for a lock end an attempt with.
LEMMA FailureStep ==
    ASSUME IInv, NEW c \in Calls,
           \/ Conflict(c) \/ LockTimeout(c) \/ Unauthorized(c) \/ RequestLost(c) \/ AnswerLost(c)
    PROVE  IInv'
  <1> USE DEF IInv
  <1>1. CallInv(c) /\ call[c] \in CallState /\ TypeOK
    BY DEF TypeOK
  <1>2. LockTyped(lock, open) /\ failures \in 0..MaxFailures
    BY DEF TypeOK, LockTyped
  <1>3. \A k \in {"aborting", "ready", "writing"} :
           call[c].pc = k => Cut(c) \subseteq cut \cup {Transaction(c)} /\ cut \subseteq Cut(c)
    BY DEF Cut
  <1>4. Transaction(c) \in open =>
           call[c].pc \in {"writing", "aborting"} \/ Transaction(c) \in cut
    BY <1>1 DEF CallInv, Owned, Attended, Transaction, CallState
  <1>5. CASE Conflict(c) \/ LockTimeout(c)
    <2>1. /\ UNCHANGED <<handle, ensured, logins, accepted, expired, collections, open, lock,
                         applied, cut, failures>>
          /\ call[c].pc = "writing"
      BY <1>5 DEF Conflict, LockTimeout, Writing, serverVars, ghostVars
    <2>2. PICK e \in {"conflict", "other"} : call' = AfterError(c, e)
      BY <1>5 DEF Conflict, LockTimeout
    <2>3. QED
      BY <1>2, <2>1, <2>2, ErrorStep DEF TypeOK, Errors
  <1>6. CASE Unauthorized(c) \/ RequestLost(c)
    <2>1. /\ UNCHANGED <<handle, ensured, logins, accepted, expired, collections, open, lock,
                         applied>>
          /\ call[c].pc \in {"ready", "writing", "aborting"} /\ cut' = Cut(c)
      BY <1>6 DEF Unauthorized, RequestLost, Asking, Ensuring, Prepared, serverVars
    <2>2. PICK e \in {"auth", "other"} : call' = AfterError(c, e) /\ (e = "auth" => ~Authorized(c))
      BY <1>6 DEF Unauthorized, RequestLost
    <2>3. failures' \in 0..MaxFailures
      BY <1>2, <1>6, CallsAssumption DEF Unauthorized, RequestLost, Losing
    <2>4. Transaction(c) \in open' /\ call[c].pc # "writing" => Transaction(c) \in cut'
      BY <1>4, <2>1 DEF Cut
    <2>5. /\ cut \subseteq cut' /\ cut' \subseteq cut \cup {Transaction(c)}
          /\ LockTyped(lock', open') /\ collections' \subseteq Collections
      BY <1>2, <1>3, <2>1 DEF TypeOK
    <2>6. QED
      BY <2>1, <2>2, <2>3, <2>4, <2>5, ErrorStep DEF Errors
  <1>7. CASE AnswerLost(c)
    <2>1. /\ UNCHANGED <<handle, ensured, logins, accepted, expired>>
          /\ call' = AfterError(c, "other") /\ failures' \in 0..MaxFailures
      BY <1>2, <1>7, CallsAssumption DEF AnswerLost, Losing
    <2>2. CASE /\ Ensuring(c) /\ Wanted(c) \notin ensured
               /\ collections' = collections \cup {Wanted(c)}
               /\ UNCHANGED <<open, lock, applied, cut>>
      <3>1. Wanted(c) \in Collections /\ call[c].pc = "ready"
        BY <2>2, WantedIsCollection DEF Ensuring
      <3>2. Transaction(c) \in open' /\ call[c].pc # "writing" => Transaction(c) \in cut'
        BY <1>4, <2>2, <3>1
      <3>3. collections \subseteq collections' /\ collections' \subseteq Collections
        BY <2>2, <3>1 DEF TypeOK
      <3>4. QED
        BY <1>2, <2>1, <2>2, <3>1, <3>2, <3>3, ErrorStep DEF Errors
    <2>3. CASE /\ Prepared(c) /\ call[c].kind = "transaction"
               /\ open' = open \cup {Transaction(c)}
               /\ cut' = Cut(c)
               /\ UNCHANGED <<collections, lock, applied>>
      <3>1. call[c].pc = "ready" /\ cut' = cut \cup {Transaction(c)}
        BY <2>3 DEF Prepared, Cut
      <3>2. LockTyped(lock', open') /\ collections' \subseteq Collections
        BY <1>2, <2>3 DEF LockTyped, TypeOK
      <3>3. QED
        BY <2>1, <2>3, <3>1, <3>2, ErrorStep DEF Errors
    <2>4. CASE /\ Writing(c) /\ Free(c)
               /\ lock' = Locked(c)
               /\ UNCHANGED <<collections, open, applied, cut>>
      <3>1. call[c].pc = "writing" /\ Transaction(c) \in open
        BY <1>1, <2>4 DEF Writing, CallInv, Owned
      <3>2. LockTyped(lock', open')
        BY <2>4, <3>1, LockedTyped
      <3>3. QED
        BY <2>1, <2>4, <3>1, <3>2, ErrorStep DEF Errors, TypeOK
    <2>5. CASE /\ Committing(c)
               /\ Close(Transaction(c))
               /\ applied' = [applied EXCEPT ![c] = @ + 1]
               /\ UNCHANGED <<collections, cut>>
      <3>1. call[c].pc = "writing" /\ open' = open \ {Transaction(c)}
        BY <2>5 DEF Committing, Close
      <3>2. LockTyped(lock', open') /\ collections' \subseteq Collections
        BY <2>5, <3>1, UnlockedTyped DEF Close, TypeOK
      <3>3. QED
        BY <2>1, <2>5, <3>1, <3>2, ErrorStep DEF Errors
    <2>6. QED
      BY <1>7, <2>2, <2>3, <2>4, <2>5 DEF AnswerLost
  <1>8. QED
    BY <1>5, <1>6, <1>7

\* An attempt begins and ensures its collections.
LEMMA PreparationStep ==
    ASSUME IInv, NEW c \in Calls, Attempt(c) \/ SkipEnsure(c) \/ Ensure(c)
    PROVE  IInv'
  <1> USE DEF IInv
  <1>1. CallInv(c) /\ call[c] \in CallState
    BY DEF TypeOK
  <1>2. LockTyped(lock, open)
    BY DEF TypeOK, LockTyped
  <1>3. Needs[c] \in Seq(Collections) /\ Len(Needs[c]) \in Nat /\ call[c].step \in Nat
    BY <1>1, CallsAssumption DEF CallState
  <1>4. handle \in Nat
    BY DEF TypeOK
  <1>5. CASE Attempt(c)
    <2>1. /\ UNCHANGED <<handle, ensured, logins, accepted, expired, collections, open, lock,
                         applied, cut, failures>>
          /\ call[c].pc = "idle"
      BY <1>5 DEF Attempt, serverVars, ghostVars
    <2>2. /\ call' \in [Calls -> CallState]
          /\ \A d \in Calls \ {c} : call'[d] = call[d]
          /\ call'[c].pc = "ready" /\ call'[c].token = handle /\ call'[c].error = "none"
          /\ call'[c].step = call[c].step /\ call'[c].attempt = call[c].attempt
          /\ call'[c].kind = call[c].kind
      BY <1>1, <1>4, <1>5 DEF Attempt, TypeOK, CallState
    <2>3. Ensured(c)' /\ Applied(c)' /\ Trusted(c)'
      BY <1>1, <1>3, <2>1, <2>2 DEF CallInv, Ensured, Applied, Trusted
    <2>4. Owned(c)'
      BY <1>1, <2>1, <2>2 DEF CallInv, Owned, Attended
    <2>5. CallInv(c)'
      BY <2>3, <2>4 DEF CallInv
    <2>6. QED
      BY <1>2, <2>1, <2>2, <2>5, OneCallStep DEF TypeOK
  <1>6. CASE SkipEnsure(c) \/ Ensure(c)
    <2>1. /\ UNCHANGED <<handle, logins, accepted, expired, open, lock, applied, cut, failures>>
          /\ Ensuring(c)
      BY <1>6 DEF SkipEnsure, Ensure, serverVars, ghostVars
    <2>2. /\ call' \in [Calls -> CallState]
          /\ \A d \in Calls \ {c} : call'[d] = call[d]
          /\ call'[c].pc = "ready" /\ call'[c].token = call[c].token
          /\ call'[c].error = call[c].error
          /\ call'[c].step = call[c].step + 1 /\ call'[c].attempt = call[c].attempt
          /\ call'[c].kind = call[c].kind
      <3>1. call' = [call EXCEPT ![c].step = @ + 1] /\ call[c].step + 1 \in Nat
        BY <1>3, <1>6 DEF SkipEnsure, Ensure
      <3>2. QED
        BY <1>1, <2>1, <3>1 DEF Ensuring, TypeOK, CallState
    <2>3. Wanted(c) \in Collections
      BY <2>1, WantedIsCollection
    <2>4. /\ collections \subseteq collections' /\ collections' \subseteq Collections
          /\ ensured' \subseteq collections' /\ Wanted(c) \in collections'
      BY <1>6, <2>3 DEF SkipEnsure, Ensure, TypeOK, serverVars
    <2>5. Ensured(c)'
      <3>1. call[c].step + 1 <= Len(Needs[c]) /\ call[c].pc = "ready"
        BY <1>3, <2>1 DEF Ensuring
      <3>2. \A i \in 1..(call[c].step + 1) : Needs[c][i] \in collections'
        BY <1>1, <1>3, <2>4, <3>1 DEF CallInv, Ensured, Wanted
      <3>3. QED
        BY <2>2, <3>1, <3>2 DEF Ensured
    <2>6. Applied(c)' /\ Trusted(c)'
      BY <1>1, <2>1, <2>2 DEF CallInv, Applied, Trusted, Ensuring
    <2>7. Owned(c)'
      BY <1>1, <2>1, <2>2 DEF CallInv, Owned, Attended, Ensuring
    <2>8. CallInv(c)'
      BY <2>5, <2>6, <2>7 DEF CallInv
    <2>9. QED
      BY <1>2, <2>1, <2>2, <2>4, <2>8, OneCallStep DEF TypeOK
  <1>7. QED
    BY <1>5, <1>6

\* The statements of an attempt, and its end.
LEMMA StatementStep ==
    ASSUME IInv, NEW c \in Calls,
           Begin(c) \/ Write(c) \/ Read(c) \/ Commit(c) \/ Abort(c) \/ GiveUp(c)
    PROVE  IInv'
  <1> USE DEF IInv
  <1>1. CallInv(c) /\ call[c] \in CallState /\ Transaction(c) \in Transactions
        /\ Transaction(c)[1] = c
    BY DEF TypeOK, CallState, Transaction, Transactions
  <1>2. LockTyped(lock, open)
    BY DEF TypeOK, LockTyped
  <1>3. CASE Begin(c)
    <2>1. /\ UNCHANGED <<handle, ensured, logins, accepted, expired, collections, lock, applied,
                         cut, failures>>
          /\ call[c].pc = "ready" /\ open' = open \cup {Transaction(c)}
      BY <1>3 DEF Begin, Prepared, ghostVars
    <2>2. /\ call' \in [Calls -> CallState]
          /\ \A d \in Calls \ {c} : call'[d] = call[d]
          /\ call'[c].pc = "writing" /\ call'[c].token = call[c].token
          /\ call'[c].attempt = call[c].attempt /\ call'[c].kind = call[c].kind
      BY <1>1, <1>3 DEF Begin, TypeOK, CallState
    <2>3. LockTyped(lock', open')
      BY <1>2, <2>1 DEF LockTyped
    <2>4. Ensured(c)' /\ Applied(c)' /\ Trusted(c)'
      BY <1>1, <2>1, <2>2 DEF CallInv, Ensured, Applied, Trusted
    <2>5. Transaction(c)' = Transaction(c)
      BY <2>2 DEF Transaction
    <2>6. Owned(c)'
      <3>1. ASSUME NEW n \in {1, 2}, <<c, n>> \in open'
            PROVE  Attended(<<c, n>>)' \/ <<c, n>> \in cut'
        <4>1. CASE n = call[c].attempt
          BY <2>2, <4>1 DEF Attended
        <4>2. CASE n # call[c].attempt
          BY <1>1, <2>1, <3>1, <4>2 DEF Transaction, CallInv, Owned, Attended
        <4>3. QED
          BY <4>1, <4>2
      <3>2. QED
        BY <2>1, <2>5, <3>1 DEF Owned
    <2>7. CallInv(c)'
      BY <2>4, <2>6 DEF CallInv
    <2>8. open' \subseteq Transactions
          /\ \A t \in Transactions : t[1] # c => (t \in open' <=> t \in open)
      BY <1>1, <2>1 DEF TypeOK
    <2>9. QED
      BY <2>1, <2>2, <2>3, <2>7, <2>8, OneCallStep DEF TypeOK
  <1>4. CASE Write(c)
    <2>1. /\ UNCHANGED <<handle, ensured, logins, accepted, expired, collections, open, applied,
                         cut, failures>>
          /\ call[c].pc = "writing" /\ Writing(c) /\ lock' = Locked(c)
      BY <1>4 DEF Write, Writing, ghostVars
    <2>2. /\ call' \in [Calls -> CallState]
          /\ \A d \in Calls \ {c} : call'[d] = call[d]
          /\ call'[c].pc = "writing" /\ call'[c].token = call[c].token
          /\ call'[c].attempt = call[c].attempt /\ call'[c].kind = call[c].kind
      BY <1>1, <1>4, <2>1 DEF Write, TypeOK, CallState
    <2>3. LockTyped(lock', open')
      BY <1>1, <2>1, LockedTyped DEF CallInv, Owned
    <2>4. Ensured(c)' /\ Applied(c)' /\ Trusted(c)'
      BY <1>1, <2>1, <2>2 DEF CallInv, Ensured, Applied, Trusted
    <2>5. Owned(c)'
      BY <1>1, <2>1, <2>2 DEF CallInv, Owned, Attended, Transaction
    <2>6. CallInv(c)'
      BY <2>4, <2>5 DEF CallInv
    <2>7. QED
      BY <2>1, <2>2, <2>3, <2>6, OneCallStep DEF TypeOK
  <1>5. CASE Read(c) \/ GiveUp(c)
    <2>1. /\ UNCHANGED <<handle, ensured, logins, accepted, expired, collections, open, lock,
                         applied, cut, failures>>
          /\ call[c].pc \in {"ready", "failed"}
      BY <1>5 DEF Read, GiveUp, Prepared, serverVars, ghostVars
    <2>2. PICK pc \in {"ok", "err"} :
             /\ Goto(c, pc)
             /\ pc = "ok" => call[c].pc = "ready" /\ call[c].kind # "transaction"
             /\ pc = "err" => call[c].pc = "failed" /\ ~Retries(c)
      BY <1>5 DEF Read, GiveUp, Prepared
    <2>3. /\ call' \in [Calls -> CallState]
          /\ \A d \in Calls \ {c} : call'[d] = call[d]
          /\ call'[c].pc = pc /\ call'[c].step = 0 /\ call'[c].error = call[c].error
          /\ call'[c].attempt = call[c].attempt
          /\ call'[c].kind = call[c].kind /\ call'[c].token = call[c].token
      BY <2>2, GotoState
    <2>4. Ensured(c)' /\ Applied(c)'
      BY <1>1, <2>1, <2>2, <2>3 DEF CallInv, Ensured, Applied
    <2>5. Trusted(c)'
      BY <1>1, <2>1, <2>2, <2>3 DEF CallInv, Trusted, Retries, CallState
    <2>6. Owned(c)'
      BY <1>1, <2>1, <2>2, <2>3 DEF CallInv, Owned, Attended
    <2>7. CallInv(c)'
      BY <2>4, <2>5, <2>6 DEF CallInv
    <2>8. QED
      BY <1>2, <2>1, <2>3, <2>7, OneCallStep DEF TypeOK
  <1>6. CASE Commit(c) \/ Abort(c)
    <2>1. /\ UNCHANGED <<handle, ensured, logins, accepted, expired, collections, cut, failures>>
          /\ Close(Transaction(c))
      BY <1>6 DEF Commit, Abort, ghostVars
    <2>2. /\ open' = open \ {Transaction(c)} /\ LockTyped(lock', open')
          /\ \A t \in Transactions : t[1] # c => (t \in open' <=> t \in open)
      BY <1>1, <2>1, UnlockedTyped DEF Close
    <2>3. PICK pc \in {"ok", "failed"} :
             /\ Goto(c, pc)
             /\ pc = "ok" => call[c].pc = "writing" /\ applied' = [applied EXCEPT ![c] = @ + 1]
             /\ pc = "failed" => call[c].pc = "aborting" /\ applied' = applied
      BY <1>6 DEF Commit, Abort, Committing, ghostVars
    <2>4. /\ call' \in [Calls -> CallState]
          /\ \A d \in Calls \ {c} : call'[d] = call[d]
          /\ call'[c].pc = pc /\ call'[c].step = 0 /\ call'[c].error = call[c].error
          /\ call'[c].attempt = call[c].attempt
          /\ call'[c].kind = call[c].kind /\ call'[c].token = call[c].token
      BY <2>3, GotoState
    <2>5. /\ applied' \in [Calls -> 0..2] /\ \A d \in Calls \ {c} : applied'[d] = applied[d]
          /\ applied'[c] = IF pc = "ok" THEN applied[c] + 1 ELSE applied[c]
      BY <1>1, <2>3 DEF TypeOK, CallInv, Applied
    <2>6. Ensured(c)' /\ Applied(c)' /\ Trusted(c)'
      BY <1>1, <2>1, <2>3, <2>4, <2>5 DEF CallInv, Ensured, Applied, Trusted
    <2>7. Owned(c)'
      <3>1. ASSUME NEW n \in {1, 2}, <<c, n>> \in open' PROVE <<c, n>> \in cut
        BY <1>1, <2>2, <3>1 DEF CallInv, Owned, Attended, Transaction
      <3>2. QED
        BY <2>1, <2>3, <2>4, <3>1 DEF Owned
    <2>8. CallInv(c)'
      BY <2>6, <2>7 DEF CallInv
    <2>9. QED
      BY <2>1, <2>2, <2>4, <2>5, <2>8, OneCallStep DEF TypeOK
  <1>7. QED
    BY <1>3, <1>4, <1>5, <1>6

\* A login: the shared handle gets a token that the server takes.
LEMMA LogInStep ==
    ASSUME IInv, NEW c \in Calls, LogInAgain(c)
    PROVE  IInv'
  <1> USE DEF IInv
  <1>1. CallInv(c) /\ call[c] \in CallState /\ handle \in Nat /\ logins \in Nat
    BY DEF TypeOK
  <1>2. /\ UNCHANGED <<ensured, collections, open, lock, applied, cut, expired, failures>>
        /\ call[c].pc = "failed" /\ call[c].attempt = 1 /\ call[c].error = "auth"
        /\ logins' = logins + 1 /\ accepted' = accepted \cup {logins + 1} /\ handle' = logins + 1
    BY DEF LogInAgain, LogIn, Retries, Stored, ghostVars
  <1>3. /\ call' \in [Calls -> CallState]
        /\ \A d \in Calls \ {c} : call'[d] = call[d]
        /\ call'[c].pc = "idle" /\ call'[c].attempt = 2 /\ call'[c].step = call[c].step
        /\ call'[c].kind = call[c].kind
    BY <1>1 DEF LogInAgain, TypeOK, CallState
  <1>4. Repeated' = Repeated \cup {c} /\ c \notin Repeated
    BY <1>2, <1>3 DEF Repeated
  <1>5. Cardinality(Repeated') = Cardinality(Repeated) + 1
    BY <1>4, RepeatedFinite, FS_AddElement
  <1>6. LoginsCounted'
    BY <1>1, <1>2, <1>5, RepeatedFinite, CallsAssumption DEF LoginsCounted
  <1>7. Cardinality(Repeated') <= Cardinality(Calls)
    BY CallsAssumption, FS_Subset DEF Repeated
  <1>8. logins' \in 1..(MaxLogins + Cardinality(Calls))
    BY <1>1, <1>2, <1>5, <1>6, <1>7, RepeatedFinite, CallsAssumption DEF LoginsCounted
  <1>9. TypeOK'
    <2>1. handle' \in 1..logins' /\ accepted' \subseteq 1..logins'
      BY <1>1, <1>2 DEF TypeOK
    <2>2. QED
      BY <1>2, <1>3, <1>8, <2>1 DEF TypeOK
  <1>10. CallInv(c)'
    <2>1. Ensured(c)' /\ Applied(c)' /\ Trusted(c)'
      BY <1>1, <1>2, <1>3 DEF CallInv, Ensured, Applied, Trusted
    <2>2. Owned(c)'
      BY <1>1, <1>2, <1>3 DEF CallInv, Owned, Attended
    <2>3. QED
      BY <2>1, <2>2 DEF CallInv
  <1>11. ASSUME NEW d \in Calls \ {c} PROVE CallInv(d)'
    <2>1. call'[d] = call[d] /\ CallInv(d)
      BY <1>3
    <2>2. Ensured(d)' /\ Applied(d)' /\ Trusted(d)'
      BY <1>2, <2>1 DEF CallInv, Ensured, Applied, Trusted
    <2>3. Owned(d)'
      BY <1>2, <2>1 DEF CallInv, Owned, Attended, Transaction
    <2>4. QED
      BY <2>2, <2>3 DEF CallInv
  <1>12. QED
    BY <1>2, <1>6, <1>9, <1>10, <1>11

LEMMA LoginLostStep ==
    ASSUME IInv, NEW c \in Calls, LoginLost(c)
    PROVE  IInv'
  <1> USE DEF IInv
  <1>1. CallInv(c) /\ call[c] \in CallState
    BY DEF TypeOK
  <1>2. /\ UNCHANGED <<handle, ensured, logins, accepted, expired, collections, open, lock,
                       applied, cut>>
        /\ call[c].pc = "failed" /\ call[c].error = "auth"
        /\ failures' \in 0..MaxFailures
    BY CallsAssumption DEF LoginLost, Losing, Retries, serverVars, TypeOK
  <1>3. /\ call' \in [Calls -> CallState]
        /\ \A d \in Calls \ {c} : call'[d] = call[d]
        /\ call'[c].pc = "err" /\ call'[c].error = "other"
        /\ call'[c].attempt = call[c].attempt /\ call'[c].kind = call[c].kind
    BY <1>1 DEF LoginLost, TypeOK, CallState, Errors
  <1>4. Ensured(c)' /\ Applied(c)' /\ Trusted(c)'
    BY <1>1, <1>2, <1>3 DEF CallInv, Ensured, Applied, Trusted
  <1>5. Owned(c)'
    BY <1>1, <1>2, <1>3 DEF CallInv, Owned, Attended
  <1>6. CallInv(c)' /\ LockTyped(lock', open')
    BY <1>2, <1>4, <1>5 DEF CallInv, LockTyped, TypeOK
  <1>7. QED
    BY <1>2, <1>3, <1>6, OneCallStep DEF TypeOK

\* The application's login, and the end of a token.
LEMMA TokenStep ==
    ASSUME IInv, RefreshAuth \/ \E t \in 1..logins : Expire(t)
    PROVE  IInv'
  <1> USE DEF IInv
  <1>1. /\ UNCHANGED <<call, ensured, collections, open, lock, applied, cut, failures>>
        /\ logins < MaxLogins /\ expired \subseteq expired' /\ expired' \subseteq Calls
    BY DEF RefreshAuth, Expire, ghostVars, TypeOK
  <1>2. Repeated' = Repeated /\ logins \in Nat /\ MaxLogins \in Nat
        /\ Cardinality(Repeated) \in Nat /\ Cardinality(Calls) \in Nat
    BY <1>1, RepeatedFinite, CallsAssumption DEF Repeated, TypeOK
  <1>3. logins' \in {logins, logins + 1}
    BY DEF RefreshAuth, Expire, LogIn
  <1>4. LoginsCounted' /\ logins' \in 1..(MaxLogins + Cardinality(Calls))
    BY <1>1, <1>2, <1>3 DEF LoginsCounted, TypeOK
  <1>5. handle' \in 1..logins' /\ accepted' \subseteq 1..logins'
    <2>1. handle \in 1..logins /\ accepted \subseteq 1..logins
      BY DEF TypeOK
    <2>2. CASE RefreshAuth
      BY <1>2, <2>1, <2>2 DEF RefreshAuth, LogIn, Stored
    <2>3. CASE \E t \in 1..logins : Expire(t)
      <3>1. handle' = handle /\ logins' = logins /\ accepted' \subseteq accepted
        BY <2>3 DEF Expire
      <3>2. QED
        BY <2>1, <3>1
    <2>4. QED
      BY <2>2, <2>3
  <1>6. TypeOK'
    BY <1>1, <1>4, <1>5 DEF TypeOK
  <1>7. ASSUME NEW c \in Calls PROVE Trusted(c)'
    <2>1. CallInv(c) /\ call'[c] = call[c] /\ call[c] \in CallState
      BY <1>1 DEF TypeOK
    <2>2. CASE RefreshAuth
      BY <2>1, <2>2 DEF RefreshAuth, LogIn, Stored, CallInv, Trusted, ghostVars
    <2>3. CASE \E t \in 1..logins : Expire(t)
      <3>1. Running(c) => c \in expired'
        BY <2>3 DEF Expire
      <3>2. CASE ~Running(c)
        BY <1>1, <2>1, <3>2 DEF Running, CallInv, Trusted
      <3>3. CASE Running(c)
        BY <2>1, <3>1, <3>3 DEF CallInv, Trusted, Running
      <3>4. QED
        BY <3>2, <3>3
    <2>4. QED
      BY <2>2, <2>3
  <1>8. \A c \in Calls : Ensured(c)' /\ Applied(c)' /\ Owned(c)'
    BY <1>1 DEF CallInv, Ensured, Applied, Owned, Attended, Transaction
  <1>9. QED
    BY <1>1, <1>4, <1>6, <1>7, <1>8 DEF CallInv

LEMMA InvariantStep ==
    ASSUME IInv, [Next]_vars
    PROVE  IInv'
  <1>1. ASSUME UNCHANGED vars PROVE IInv'
    <2>1. TypeOK' /\ LoginsCounted' /\ ensured' \subseteq collections'
      BY <1>1 DEF IInv, vars, serverVars, ghostVars, TypeOK, LoginsCounted, Repeated
    <2>2. \A c \in Calls : CallInv(c)'
      <3>1. \A c \in Calls : Ensured(c)' /\ Applied(c)'
        BY <1>1 DEF IInv, vars, serverVars, ghostVars, CallInv, Ensured, Applied
      <3>2. \A c \in Calls : Trusted(c)'
        BY <1>1 DEF IInv, vars, serverVars, ghostVars, CallInv, Trusted
      <3>3. \A c \in Calls : Owned(c)'
        BY <1>1 DEF IInv, vars, serverVars, ghostVars, CallInv, Owned, Attended, Transaction
      <3>4. QED
        BY <3>1, <3>2, <3>3 DEF CallInv
    <2>3. QED
      BY <2>1, <2>2 DEF IInv
  <1>2. QED
    BY <1>1, FailureStep, PreparationStep, StatementStep, LogInStep, LoginLostStep, TokenStep
       DEF Next, Step, Fault, Done

-----------------------------------------------------------------------------
(* The theorems.                                                           *)

LEMMA Invariant == Spec => []IInv
  BY InitInvariant, InvariantStep, PTL DEF Spec

\* Every variable keeps its type: keys are locked by open transactions only, and the
\* server gives a token for each login of the application and each second attempt.
THEOREM TypeCorrect == Spec => []TypeOK
  <1>1. IInv => TypeOK
    BY DEF IInv
  <1>2. QED
    BY <1>1, Invariant, PTL

\* A transaction that with_reauth repeats is not applied twice; one that is answered Ok
\* is applied, one refused for its versions or its token is not.
THEOREM TransactionsAppliedOnce == Spec => []AppliedOnce
  <1>1. IInv => AppliedOnce
    BY DEF IInv, CallInv, Applied, AppliedOnce
  <1>2. QED
    BY <1>1, Invariant, PTL

\* Where every call goes through with_reauth, an authentication error reaches its caller
\* only if a token has expired while the call was under way.
THEOREM RefreshSuffices ==
    ASSUME \A c \in Calls : "sync" \notin Kinds[c]
    PROVE  Spec => []RefreshHelps
  <1>1. IInv => RefreshHelps
    BY DEF IInv, CallInv, Trusted, RefreshHelps
  <1>2. QED
    BY <1>1, Invariant, PTL

\* No transaction begins, and nothing is read, on a collection the server does not have.
THEOREM CollectionsThere == Spec => []CollectionsExist
  <1>1. ASSUME IInv, NEW c \in Calls, Prepared(c)
        PROVE  \A i \in DOMAIN Needs[c] : Needs[c][i] \in collections
    <2>1. DOMAIN Needs[c] = 1..Len(Needs[c])
      BY CallsAssumption
    <2>2. QED
      BY <1>1, <2>1 DEF IInv, CallInv, Ensured, Prepared
  <1>2. IInv => CollectionsExist
    BY <1>1 DEF CollectionsExist
  <1>3. QED
    BY <1>2, Invariant, PTL

\* "a failed commit never leaves the streaming transaction open holding a lock"
\* (arango_connection.rs:1128), as long as the server can be asked to abort it.
THEOREM NoLeakUncut == Spec => []LeaksOnlyWhenCut
  <1>1. IInv => LeaksOnlyWhenCut
    <2> SUFFICES ASSUME IInv, NEW t \in open PROVE Attended(t) \/ t \in cut
      BY DEF LeaksOnlyWhenCut
    <2>1. PICK c \in Calls, n \in {1, 2} : t = <<c, n>>
      BY DEF IInv, TypeOK, Transactions
    <2>2. QED
      BY <2>1 DEF IInv, CallInv, Owned
  <1>2. QED
    BY <1>1, Invariant, PTL

-----------------------------------------------------------------------------
(* The calls implement TransactionalCalls.                                 *)

\* Only a transaction writes, and it holds what it has written.
HoldsWritten(c) ==
    LET s == call[c] IN
    /\ s.pc \in {"writing", "aborting"} => s.kind = "transaction"
    /\ s.pc = "writing" => \A i \in 1..s.step : Promise!Holds(Transaction(c), Work[c][i])

AllHeld == \A c \in Calls : HoldsWritten(c)

Acts(c) == Attempt(c) \/ Step(c) \/ Fault(c)

\* A step of a call leaves the other calls alone.
LEMMA OneCall ==
    ASSUME TypeOK, NEW c \in Calls, Acts(c)
    PROVE  /\ \A d \in Calls \ {c} : call'[d] = call[d]
           /\ call'[c].kind = call[c].kind
           /\ call'[c].pc = "writing" => Begin(c) \/ Write(c)
           /\ call'[c].pc = "aborting" => call[c].pc = "writing"
  <1>1. call \in [Calls -> CallState] /\ call[c] \in CallState
    BY DEF TypeOK
  <1>2. CASE Attempt(c) \/ SkipEnsure(c) \/ Ensure(c) \/ LogInAgain(c) \/ LoginLost(c)
    BY <1>1, <1>2 DEF Attempt, SkipEnsure, Ensure, Ensuring, LogInAgain, LoginLost, CallState
  <1>3. CASE Begin(c) \/ Write(c)
    BY <1>1, <1>3 DEF Begin, Write, Writing, CallState
  <1>4. CASE Read(c) \/ Commit(c) \/ Abort(c) \/ GiveUp(c)
    <2>1. PICK pc \in {"ok", "failed", "err"} : Goto(c, pc)
      BY <1>4 DEF Read, Commit, Abort, GiveUp
    <2>2. QED
      BY <2>1, GotoState
  <1>5. CASE Conflict(c) \/ LockTimeout(c) \/ Unauthorized(c) \/ RequestLost(c) \/ AnswerLost(c)
    <2>1. PICK e \in Errors : call' = AfterError(c, e)
      BY <1>5 DEF Conflict, LockTimeout, Unauthorized, RequestLost, AnswerLost, Errors
    <2>2. QED
      BY <2>1, ErrorState
  <1>6. QED
    BY <1>2, <1>3, <1>4, <1>5 DEF Acts, Step, Fault

\* A step takes a key that is free, or gives back the call's own.
LEMMA LockStep ==
    ASSUME TypeOK, NEW c \in Calls, Acts(c)
    PROVE  \/ UNCHANGED lock
           \/ Writing(c) /\ Free(c) /\ lock' = Locked(c)
           \/ (Commit(c) \/ Abort(c) \/ AnswerLost(c)) /\ lock' = Unlocked(Transaction(c))
  <1>1. CASE Attempt(c) \/ SkipEnsure(c) \/ Ensure(c) \/ Read(c) \/ Begin(c) \/ LogInAgain(c)
             \/ LoginLost(c) \/ GiveUp(c)
    BY <1>1 DEF Attempt, SkipEnsure, Ensure, Read, Begin, LogInAgain, LoginLost, GiveUp, serverVars
  <1>2. CASE Conflict(c) \/ LockTimeout(c) \/ Unauthorized(c) \/ RequestLost(c)
    BY <1>2 DEF Conflict, LockTimeout, Unauthorized, RequestLost, serverVars
  <1>3. CASE Write(c)
    BY <1>3 DEF Write
  <1>4. CASE Commit(c) \/ Abort(c)
    BY <1>4 DEF Commit, Abort, Close
  <1>5. CASE AnswerLost(c)
    BY <1>5 DEF AnswerLost, Close
  <1>6. QED
    BY <1>1, <1>2, <1>3, <1>4, <1>5 DEF Acts, Step, Fault

LEMMA HeldByOthers ==
    ASSUME TypeOK, NEW c \in Calls, Acts(c)
    PROVE  \A k \in DOMAIN lock :
              lock[k] # Transaction(c) => k \in DOMAIN lock' /\ lock'[k] = lock[k]
  <1>1. CASE UNCHANGED lock
    BY <1>1
  <1>2. CASE Free(c) /\ lock' = Locked(c)
    BY <1>2 DEF Free, Locked
  <1>3. CASE lock' = Unlocked(Transaction(c))
    BY <1>3 DEF Unlocked
  <1>4. QED
    BY <1>1, <1>2, <1>3, LockStep

LEMMA HeldStep ==
    ASSUME IInv, AllHeld, NEW c \in Calls, Acts(c)
    PROVE  AllHeld'
  <1>1. TypeOK /\ call[c] \in CallState
    BY DEF IInv, TypeOK
  <1>2. /\ \A d \in Calls \ {c} : call'[d] = call[d]
        /\ call'[c].kind = call[c].kind
        /\ call'[c].pc = "writing" => Begin(c) \/ Write(c)
        /\ call'[c].pc = "aborting" => call[c].pc = "writing"
    BY <1>1, OneCall
  <1>3. ASSUME NEW d \in Calls \ {c} PROVE HoldsWritten(d)'
    <2>1. HoldsWritten(d) /\ call'[d] = call[d]
      BY <1>2 DEF AllHeld
    <2>2. Transaction(d)' = Transaction(d) /\ Transaction(d) # Transaction(c)
      BY <2>1 DEF Transaction
    <2>3. \A k : Promise!Holds(Transaction(d), k) => Promise!Holds(Transaction(d), k)'
      BY <1>1, <2>2, HeldByOthers DEF Promise!Holds
    <2>4. QED
      BY <2>1, <2>2, <2>3 DEF HoldsWritten
  <1>4. HoldsWritten(c)'
    <2>1. CASE Begin(c)
      <3>1. call'[c].pc = "writing" /\ call'[c].step = 0 /\ call[c].kind = "transaction"
        BY <1>1, <2>1 DEF Begin, TypeOK, CallState
      <3>2. QED
        BY <1>2, <3>1 DEF HoldsWritten
    <2>2. CASE Write(c)
      <3>1. /\ call[c].pc = "writing" /\ lock' = Locked(c) /\ HoldsWritten(c)
            /\ call'[c].pc = "writing" /\ call'[c].step = call[c].step + 1
            /\ call[c].step \in Nat /\ Transaction(c)' = Transaction(c)
        BY <1>1, <2>2 DEF Write, Writing, TypeOK, CallState, AllHeld, Transaction
      <3>2. ASSUME NEW i \in 1..(call[c].step + 1)
            PROVE  Promise!Holds(Transaction(c), Work[c][i])'
        <4>1. Work[c][i] = Key(c) \/ Promise!Holds(Transaction(c), Work[c][i])
          BY <3>1 DEF Key, HoldsWritten
        <4>2. QED
          BY <3>1, <4>1 DEF Locked, Promise!Holds
      <3>3. QED
        BY <1>2, <3>1, <3>2 DEF HoldsWritten
    <2>3. CASE call'[c].pc # "writing"
      BY <1>2, <2>3 DEF HoldsWritten, AllHeld
    <2>4. QED
      BY <1>2, <2>1, <2>2, <2>3
  <1>5. QED
    BY <1>3, <1>4 DEF AllHeld

LEMMA HeldNext ==
    ASSUME IInv, AllHeld, [Next]_vars
    PROVE  AllHeld'
  <1>1. CASE \E c \in Calls : Acts(c)
    BY <1>1, HeldStep
  <1>2. CASE UNCHANGED <<call, lock>>
    BY <1>2 DEF AllHeld, HoldsWritten, Promise!Holds, Transaction
  <1>3. QED
    BY <1>1, <1>2 DEF Next, Acts, Done, RefreshAuth, Expire, vars, serverVars

LEMMA Held == Spec => []AllHeld
  <1>1. Init => AllHeld
    BY DEF Init, Fresh, AllHeld, HoldsWritten
  <1>2. QED
    BY <1>1, HeldNext, Invariant, PTL DEF Spec

Writers == {c \in Calls : call[c].kind = "transaction"}

Verdicts == [c \in Calls |-> Verdict(c)]

\* What a step of one call does to the answers.
LEMMA VerdictStep ==
    ASSUME TypeOK, NEW c \in Calls, Acts(c)
    PROVE  Writers' = Writers /\ Verdicts' = [Verdicts EXCEPT ![c] = Verdict(c)']
  <1>1. /\ \A d \in Calls \ {c} : call'[d] = call[d]
        /\ call'[c].kind = call[c].kind
    BY OneCall
  <1>2. \A d \in Calls \ {c} : Verdict(d)' = Verdict(d)
    BY <1>1 DEF Verdict
  <1>3. QED
    BY <1>1, <1>2 DEF Writers, Verdicts

LEMMA ImplementsInit == Init => Promise!Init
  <1> SUFFICES ASSUME Init PROVE Promise!Init
    OBVIOUS
  <1>1. \A c \in Calls : Verdict(c) = "none"
    BY DEF Init, Fresh, Verdict
  <1>2. QED
    BY <1>1 DEF Init, Promise!Init

\* A call that goes on without an answer, or whose attempt fails: nothing to be seen.
LEMMA SilentStep ==
    ASSUME TypeOK, NEW c \in Calls, Acts(c), UNCHANGED <<lock, applied>>,
           Verdict(c)' = Verdict(c)
    PROVE  UNCHANGED Promise!vars
  <1>1. Writers' = Writers /\ Verdicts' = [Verdicts EXCEPT ![c] = Verdict(c)]
    BY VerdictStep
  <1>2. Verdicts' = Verdicts
    BY <1>1 DEF Verdicts
  <1>3. QED
    BY <1>1, <1>2 DEF Promise!vars, Writers, Verdicts

LEMMA KeyWritten ==
    ASSUME TypeOK, NEW c \in Calls, HoldsWritten(c), Acts(c), Writing(c), Free(c),
           lock' = Locked(c), applied' = applied, Verdict(c)' = "none"
    PROVE  Promise!Next
  <1>1. Verdict(c) = "none" /\ Transaction(c)[1] = c /\ call[c].kind = "transaction"
    BY DEF Writing, Verdict, Transaction, HoldsWritten
  <1>2. Writers' = Writers /\ Verdicts' = Verdicts
    BY <1>1, VerdictStep DEF Verdicts
  <1>3. Transaction(c) \in Promise!Transactions
    BY DEF Transaction, Promise!Transactions, TypeOK, CallState
  <1>4. PICK i \in DOMAIN Work[c] : Key(c) = Work[c][i]
    <2>1. Work[c] \in Seq(Keys)
      BY CallsAssumption
    <2>2. call[c].step + 1 \in DOMAIN Work[c]
      BY <2>1 DEF Writing, TypeOK, CallState
    <2>3. QED
      BY <2>2 DEF Key
  <1>5. Promise!WriteKey(Transaction(c), Key(c))
    BY <1>1, <1>2 DEF Promise!WriteKey, Free, Locked, Writers, Verdicts
  <1>6. QED
    BY <1>1, <1>3, <1>4, <1>5 DEF Promise!Next

\* The server commits, heard or not.
LEMMA WorkApplied ==
    ASSUME IInv, AllHeld, NEW c \in Calls, Acts(c), Committing(c),
           lock' = Unlocked(Transaction(c)), applied' = [applied EXCEPT ![c] = @ + 1],
           Verdict(c)' \in {"none", "ok"}
    PROVE  Promise!Next
  <1>1. TypeOK /\ Applied(c) /\ HoldsWritten(c)
    BY DEF IInv, CallInv, AllHeld
  <1>2. /\ call[c].pc = "writing" /\ call[c].kind = "transaction" /\ applied[c] = 0
        /\ Verdict(c) = "none" /\ Transaction(c)[1] = c
    BY <1>1 DEF Committing, Applied, HoldsWritten, Verdict, Transaction
  <1>3. Writers' = Writers /\ Verdicts' = [Verdicts EXCEPT ![c] = Verdict(c)']
    BY <1>1, VerdictStep
  <1>4. \A i \in DOMAIN Work[c] : Promise!Holds(Transaction(c), Work[c][i])
    <2>1. DOMAIN Work[c] = 1..call[c].step
      BY CallsAssumption DEF Committing
    <2>2. QED
      BY <1>1, <1>2, <2>1 DEF HoldsWritten
  <1>5. applied' = [applied EXCEPT ![c] = 1]
    BY <1>1, <1>2 DEF TypeOK
  <1>6. Promise!Reply(c, {"none", "ok", "unknown"})
    BY <1>2, <1>3 DEF Promise!Reply, Verdicts
  <1>7. Promise!Apply(Transaction(c))
    BY <1>2, <1>3, <1>4, <1>5, <1>6
       DEF Promise!Apply, Promise!Released, Unlocked, Writers
  <1>8. Transaction(c) \in Promise!Transactions
    BY <1>1 DEF Transaction, Promise!Transactions, TypeOK, CallState
  <1>9. QED
    BY <1>7, <1>8 DEF Promise!Next

\* A call is answered truly, or its transaction is aborted.
LEMMA AttemptEnded ==
    ASSUME TypeOK, NEW c \in Calls, Acts(c),
           lock' \in {lock, Unlocked(Transaction(c))}, applied' = applied,
           Verdict(c) = "none",
           \/ Verdict(c)' \in {"none", "unknown"}
           \/ Verdict(c)' = "ok" /\ call[c].kind # "transaction"
           \/ Verdict(c)' = "refused" /\ applied[c] = 0
    PROVE  Promise!Next
  <1>1. Transaction(c)[1] = c /\ Transaction(c) \in Promise!Transactions
    BY DEF Transaction, Promise!Transactions, TypeOK, CallState
  <1>2. Writers' = Writers /\ Verdicts' = [Verdicts EXCEPT ![c] = Verdict(c)']
    BY VerdictStep
  <1>3. Verdict(c)' \in Promise!Truths(c)
    BY DEF Promise!Truths
  <1>4. Promise!Reply(c, Promise!Truths(c))
    BY <1>2, <1>3 DEF Promise!Reply, Verdicts
  <1>5. Promise!End(Transaction(c))
    BY <1>1, <1>2, <1>4 DEF Promise!End, Promise!Released, Unlocked, Writers
  <1>6. QED
    BY <1>1, <1>5 DEF Promise!Next

LEMMA ImplementsCall ==
    ASSUME IInv, AllHeld, NEW c \in Calls, Acts(c)
    PROVE  [Promise!Next]_(Promise!vars)
  <1>1. TypeOK /\ Applied(c) /\ HoldsWritten(c) /\ call[c] \in CallState
    BY DEF IInv, CallInv, AllHeld, TypeOK
  <1>2. CASE Attempt(c) \/ SkipEnsure(c) \/ Ensure(c) \/ Begin(c) \/ LogInAgain(c)
    <2>1. UNCHANGED <<lock, applied>>
      BY <1>2 DEF Attempt, SkipEnsure, Ensure, Begin, LogInAgain, serverVars, ghostVars
    <2>2. Verdict(c) = "none" /\ Verdict(c)' = "none"
      BY <1>1, <1>2 DEF Attempt, SkipEnsure, Ensure, Ensuring, Begin, Prepared, LogInAgain,
                        Verdict, TypeOK, CallState
    <2>3. QED
      BY <1>1, <2>1, <2>2, SilentStep
  <1>3. CASE Conflict(c) \/ LockTimeout(c) \/ Unauthorized(c) \/ RequestLost(c)
    <2>1. UNCHANGED <<lock, applied>>
      BY <1>3 DEF Conflict, LockTimeout, Unauthorized, RequestLost, serverVars, ghostVars
    <2>2. call[c].pc \in {"ready", "writing", "aborting"}
      BY <1>3 DEF Conflict, LockTimeout, Unauthorized, RequestLost, Asking, Ensuring, Prepared,
                  Writing
    <2>3. PICK e \in Errors : call' = AfterError(c, e)
      BY <1>3 DEF Conflict, LockTimeout, Unauthorized, RequestLost, Errors
    <2>4. call'[c].pc \in {"aborting", "failed"}
      BY <1>1, <2>3, ErrorState
    <2>5. Verdict(c) = "none" /\ Verdict(c)' = "none"
      BY <2>2, <2>4 DEF Verdict
    <2>6. QED
      BY <1>1, <2>1, <2>5, SilentStep
  <1>4. CASE Write(c)
    <2>1. /\ Writing(c) /\ Free(c) /\ lock' = Locked(c) /\ applied' = applied
      BY <1>4 DEF Write, ghostVars
    <2>2. Verdict(c)' = "none"
      BY <1>1, <1>4 DEF Write, Writing, Verdict, TypeOK, CallState
    <2>3. QED
      BY <1>1, <2>1, <2>2, KeyWritten
  <1>5. CASE Commit(c)
    <2>1. Goto(c, "ok")
      BY <1>5 DEF Commit
    <2>2. Verdict(c)' = "ok"
      BY <1>1, <2>1, GotoState DEF Verdict
    <2>3. QED
      BY <1>5, <2>2, WorkApplied DEF Commit, Close
  <1>6. CASE AnswerLost(c)
    <2>1. call' = AfterError(c, "other") /\ "other" \in Errors
      BY <1>6 DEF AnswerLost, Errors
    <2>2. Verdict(c)' = "none"
      <3>1. call'[c].pc \in {"aborting", "failed"}
        BY <1>1, <2>1, ErrorState
      <3>2. QED
        BY <3>1 DEF Verdict
    <2>3. CASE (Ensuring(c) \/ Prepared(c)) /\ UNCHANGED <<lock, applied>>
      <3>1. Verdict(c) = "none"
        BY <2>3 DEF Ensuring, Prepared, Verdict
      <3>2. QED
        BY <1>1, <2>2, <2>3, <3>1, SilentStep
    <2>4. CASE Writing(c) /\ Free(c) /\ lock' = Locked(c) /\ applied' = applied
      BY <1>1, <2>2, <2>4, KeyWritten
    <2>5. CASE /\ Committing(c) /\ lock' = Unlocked(Transaction(c))
               /\ applied' = [applied EXCEPT ![c] = @ + 1]
      BY <2>2, <2>5, WorkApplied
    <2>6. QED
      BY <1>6, <2>3, <2>4, <2>5 DEF AnswerLost, Close
  <1>7. CASE Abort(c)
    <2>1. /\ call[c].pc = "aborting" /\ Goto(c, "failed")
          /\ lock' = Unlocked(Transaction(c)) /\ applied' = applied
      BY <1>7 DEF Abort, Close, ghostVars
    <2>2. Verdict(c) = "none" /\ Verdict(c)' = "none"
      BY <1>1, <2>1, GotoState DEF Verdict
    <2>3. QED
      BY <1>1, <2>1, <2>2, AttemptEnded
  <1>8. CASE Read(c)
    <2>1. /\ call[c].pc = "ready" /\ call[c].kind # "transaction" /\ Goto(c, "ok")
          /\ UNCHANGED <<lock, applied>>
      BY <1>8 DEF Read, Prepared, serverVars, ghostVars
    <2>2. Verdict(c) = "none" /\ Verdict(c)' = "ok"
      BY <1>1, <2>1, GotoState DEF Verdict
    <2>3. QED
      BY <1>1, <2>1, <2>2, AttemptEnded
  <1>9. CASE GiveUp(c) \/ LoginLost(c)
    <2>1. call[c].pc = "failed" /\ UNCHANGED <<lock, applied>>
      BY <1>9 DEF GiveUp, LoginLost, serverVars, ghostVars
    <2>2. call'[c].pc = "err" /\ call'[c].error \in {call[c].error, "other"}
      <3>1. CASE GiveUp(c)
        BY <1>1, <3>1, GotoState DEF GiveUp
      <3>2. CASE LoginLost(c)
        BY <1>1, <3>2 DEF LoginLost, TypeOK, CallState
      <3>3. QED
        BY <1>9, <3>1, <3>2
    <2>3. /\ Verdict(c) = "none"
          /\ Verdict(c)' = IF call'[c].error \in {"auth", "conflict"} THEN "refused"
                                                                      ELSE "unknown"
      BY <2>1, <2>2 DEF Verdict
    <2>4. call'[c].error \in {"auth", "conflict"} => applied[c] = 0
      BY <1>1, <2>1, <2>2 DEF Applied
    <2>5. QED
      BY <1>1, <2>1, <2>3, <2>4, AttemptEnded
  <1>10. QED
    BY <1>2, <1>3, <1>4, <1>5, <1>6, <1>7, <1>8, <1>9 DEF Acts, Step, Fault

LEMMA ImplementsStep ==
    ASSUME IInv, AllHeld, [Next]_vars
    PROVE  [Promise!Next]_(Promise!vars)
  <1>1. CASE \E c \in Calls : Acts(c)
    BY <1>1, ImplementsCall
  <1>2. CASE UNCHANGED <<call, lock, applied>>
    <2>1. \A c \in Calls : Verdict(c)' = Verdict(c)
      BY <1>2 DEF Verdict
    <2>2. QED
      BY <1>2, <2>1 DEF Promise!vars
  <1>3. QED
    BY <1>1, <1>2 DEF Next, Acts, Done, RefreshAuth, Expire, vars, serverVars, ghostVars

\* A transaction is applied as a whole, by one of its attempts, while it holds the keys it
\* writes, and what the call answers is true ("each represents one DB operation in our
\* atomic transaction", connection.rs:83).
THEOREM Implementation == Spec => ImplementsTransactionalCalls
  BY Invariant, Held, ImplementsInit, ImplementsStep, PTL
     DEF Spec, ImplementsTransactionalCalls, Promise!Spec

=============================================================================
