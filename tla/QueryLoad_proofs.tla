-------------------------- MODULE QueryLoad_proofs --------------------------
(***************************************************************************)
(* Safety of the loads for every set of threads, queries and documents and *)
(* every bound: types and the deferred operations under any habits, what   *)
(* callers may count on where one store is used and no load is paged with  *)
(* relationships or fails half-way.                                        *)
(***************************************************************************)
EXTENDS QueryLoad, FiniteSetTheorems, TLAPS

\* Where the scheduled loads of q stand in the queue.
Positions(s, q) == {i \in 1..Len(s) : s[i].kind = "scheduled" /\ s[i].query = q}

\* What is queued or counted is in the database.
PagesStored ==
    /\ Queued \subseteq database
    /\ \A th \in Threads : loading[th] # NotLoading => loading[th].counted \subseteq database

QueuedOnce ==
    \A q \in Queries : IF q \in inFlight THEN \E i \in Nat : Positions(ops, q) = {i}
                                         ELSE Positions(ops, q) = {}

\* A query that has been run is cached for good, and no longer in flight.
RunOnce == \A q \in Queries : runs[q] = 0 \/ (runs[q] = 1 /\ q \in cache \ inFlight)

IInv == TypeOK /\ PagesStored /\ QueuedOnce /\ RunOnce

-----------------------------------------------------------------------------
(* Facts about the operators.                                              *)

LEMMA StepCases ==
    ASSUME [Next]_vars
    PROVE  \/ \E th \in Threads, q \in Queries, chosen \in SUBSET Setting :
                 \/ LoadHitsCache(th, q, chosen)
                 \/ BeginLoad(th, q, chosen)
                 \/ CountPages(th, q, chosen)
                 \/ ScheduleHitsCache(th, q, chosen)
                 \/ ScheduleLoad(th, q, chosen)
           \/ \E th \in Threads, h \in Hydrations : Hydrate(th, h)
           \/ \E th \in Threads : \/ LoadReturns(th) \/ LoadFails(th)
                                  \/ FetchPage(th) \/ PagesEnd(th)
           \/ EnterLoadApply \/ ApplyPage \/ ScheduledLoadReturns \/ ScheduledLoadFails
           \/ NextFrame
           \/ \E d \in Documents : Store(d)
           \/ UNCHANGED vars
  BY DEF Next, Call, LoadStep, LoadApply, Setting

LEMMA Reaches ==
    ASSUME NEW q, NEW store
    PROVE  Found(q, store) \subseteq Reached(q, store) /\ Reached(q, store) \subseteq database
  BY DEF Found, Reached

\* A count needs a page for every document, one at least if there is one.
LEMMA PageCount ==
    ASSUME TypeOK, NEW q, NEW store
    PROVE  /\ Pages(Cardinality(Found(q, store))) \in Nat
           /\ Found(q, store) # {} => Pages(Cardinality(Found(q, store))) > 0
  <1> DEFINE n == Cardinality(Found(q, store))
  <1>1. IsFiniteSet(Found(q, store))
    BY QueryAssumption, FS_Subset DEF Found, TypeOK
  <1>2. n \in Nat /\ (Found(q, store) # {} => n > 0)
    BY <1>1, FS_CardinalityType, FS_EmptySet
  <1>3. PageSize \in Nat /\ PageSize > 0
    BY QueryAssumption
  <1> HIDE DEF n
  <1>4. Pages(n) \in Nat
    BY <1>2, <1>3 DEF Pages
  <1>5. n > 0 => Pages(n) > 0
    BY <1>2, <1>3 DEF Pages
  <1>6. QED
    BY <1>2, <1>4, <1>5 DEF n

\* No more is materialized than was fetched, and without faulty documents no less.
LEMMA MaterializedIn ==
    ASSUME NEW docs, NEW some \in Materialized(docs) PROVE some \subseteq docs
  BY DEF Materialized

LEMMA MaterializedAll ==
    ASSUME Environment = {}, NEW docs PROVE Materialized(docs) = {docs}
  BY DEF Materialized, Does

LEMMA InQueued ==
    ASSUME NEW d
    PROVE  d \in Queued <=>
              \E i \in 1..Len(ops) : ops[i].kind = "page" /\ d \in ops[i].docs
  BY DEF Queued

LEMMA AppendPage ==
    ASSUME ops \in Seq(Operation), NEW docs \in SUBSET Documents,
           ops' = Append(ops, [kind |-> "page", docs |-> docs])
    PROVE  /\ ops' \in Seq(Operation)
           /\ Queued' = Queued \cup docs
           /\ \A q \in Queries : Positions(ops, q)' = Positions(ops, q)
  <1> DEFINE op == [kind |-> "page", docs |-> docs]
  <1>1. op \in Operation /\ op.kind = "page" /\ op.docs = docs
    BY DEF Operation
  <1> HIDE DEF op
  <1>2. /\ ops' \in Seq(Operation) /\ Len(ops') = Len(ops) + 1 /\ Len(ops) \in Nat
        /\ ops'[Len(ops) + 1] = op
        /\ \A i \in 1..Len(ops) : ops'[i] = ops[i]
    BY <1>1 DEF op
  <1>3. \A d : d \in Queued' <=> \E i \in 1..Len(ops') : ops'[i].kind = "page" /\ d \in ops'[i].docs
    BY DEF Queued
  <1>4. Queued' = Queued \cup docs
    <2>1. ASSUME NEW d \in Queued PROVE d \in Queued'
      BY <1>2, <1>3, <2>1, InQueued
    <2>2. ASSUME NEW d \in docs PROVE d \in Queued'
      BY <1>1, <1>2, <1>3
    <2>3. ASSUME NEW d \in Queued' PROVE d \in Queued \cup docs
      <3>1. PICK i \in 1..Len(ops') : ops'[i].kind = "page" /\ d \in ops'[i].docs
        BY <1>3, <2>3
      <3>2. i = Len(ops) + 1 \/ i \in 1..Len(ops)
        BY <1>2
      <3>3. QED
        BY <1>1, <1>2, <3>1, <3>2, InQueued
    <2>4. QED
      BY <2>1, <2>2, <2>3
  <1>5. \A q \in Queries : Positions(ops, q)' = Positions(ops, q)
    BY <1>1, <1>2 DEF Positions
  <1>6. QED
    BY <1>2, <1>4, <1>5

LEMMA AppendScheduled ==
    ASSUME ops \in Seq(Operation), NEW q \in Queries, NEW store \in Stores,
           ops' = Append(ops, [kind |-> "scheduled", query |-> q, store |-> store])
    PROVE  /\ ops' \in Seq(Operation)
           /\ Queued' = Queued
           /\ \A p \in Queries :
                 Positions(ops, p)' = Positions(ops, p) \cup IF p = q THEN {Len(ops) + 1} ELSE {}
  <1> DEFINE op == [kind |-> "scheduled", query |-> q, store |-> store]
  <1>1. op \in Operation /\ op.kind = "scheduled" /\ op.query = q
    BY DEF Operation
  <1> HIDE DEF op
  <1>2. /\ ops' \in Seq(Operation) /\ Len(ops') = Len(ops) + 1 /\ Len(ops) \in Nat
        /\ ops'[Len(ops) + 1] = op
        /\ \A i \in 1..Len(ops) : ops'[i] = ops[i]
    BY <1>1 DEF op
  <1>3. \A d : d \in Queued' <=> \E i \in 1..Len(ops') : ops'[i].kind = "page" /\ d \in ops'[i].docs
    BY DEF Queued
  <1>4. Queued' = Queued
    <2>1. ASSUME NEW d \in Queued PROVE d \in Queued'
      BY <1>2, <1>3, <2>1, InQueued
    <2>2. ASSUME NEW d \in Queued' PROVE d \in Queued
      <3>1. PICK i \in 1..Len(ops') : ops'[i].kind = "page" /\ d \in ops'[i].docs
        BY <1>3, <2>2
      <3>2. i \in 1..Len(ops)
        BY <1>1, <1>2, <3>1
      <3>3. QED
        BY <1>2, <3>1, <3>2, InQueued
    <2>3. QED
      BY <2>1, <2>2
  <1>5. \A p \in Queries :
            Positions(ops, p)' = Positions(ops, p) \cup IF p = q THEN {Len(ops) + 1} ELSE {}
    BY <1>1, <1>2 DEF Positions
  <1>6. QED
    BY <1>2, <1>4, <1>5

\* The first operation leaves the queue.
LEMMA TakeFirst ==
    ASSUME ops \in Seq(Operation), ops # <<>>, ops' = Tail(ops)
    PROVE  /\ ops' \in Seq(Operation) /\ Head(ops) \in Operation
           /\ Queued' \subseteq Queued
           /\ Queued \subseteq Queued' \cup IF Head(ops).kind = "page" THEN Head(ops).docs ELSE {}
           /\ Head(ops).kind = "page" => Head(ops).docs \subseteq Queued
           /\ \A q \in Queries :
                 /\ 1 \in Positions(ops, q) <=>
                       Head(ops).kind = "scheduled" /\ Head(ops).query = q
                 /\ Positions(ops, q)' = {i \in 1..Len(ops') : i + 1 \in Positions(ops, q)}
  <1>1. /\ ops' \in Seq(Operation) /\ Len(ops) \in Nat \ {0} /\ Len(ops') = Len(ops) - 1
        /\ \A i \in 1..Len(ops') : ops'[i] = ops[i + 1]
        /\ Head(ops) = ops[1] /\ 1 \in 1..Len(ops)
    BY SMT
  <1>2. Head(ops) \in Operation
    BY <1>1
  <1>3. \A d : d \in Queued' <=> \E i \in 1..Len(ops') : ops'[i].kind = "page" /\ d \in ops'[i].docs
    BY DEF Queued
  <1>4. ASSUME NEW d \in Queued' PROVE d \in Queued
    <2>1. PICK i \in 1..Len(ops') : ops'[i].kind = "page" /\ d \in ops'[i].docs
      BY <1>3, <1>4
    <2>2. i + 1 \in 1..Len(ops) /\ ops'[i] = ops[i + 1]
      BY <1>1
    <2>3. QED
      BY <2>1, <2>2, InQueued
  <1>5. ASSUME NEW d \in Queued
        PROVE  d \in Queued' \cup IF Head(ops).kind = "page" THEN Head(ops).docs ELSE {}
    <2>1. PICK i \in 1..Len(ops) : ops[i].kind = "page" /\ d \in ops[i].docs
      BY <1>5, InQueued
    <2>2. CASE i = 1
      BY <1>1, <2>1, <2>2
    <2>3. CASE i # 1
      <3>1. i - 1 \in 1..Len(ops') /\ ops'[i - 1] = ops[i]
        BY <1>1, <2>3
      <3>2. QED
        BY <1>3, <2>1, <3>1
    <2>4. QED
      BY <2>2, <2>3
  <1>6. Head(ops).kind = "page" => Head(ops).docs \subseteq Queued
    BY <1>1, InQueued
  <1>7. ASSUME NEW q \in Queries
        PROVE  /\ 1 \in Positions(ops, q) <=> Head(ops).kind = "scheduled" /\ Head(ops).query = q
               /\ Positions(ops, q)' = {i \in 1..Len(ops') : i + 1 \in Positions(ops, q)}
    <2>1. \A i \in 1..Len(ops') : i + 1 \in 1..Len(ops)
      BY <1>1
    <2>2. QED
      BY <1>1, <2>1 DEF Positions
  <1>8. QED
    BY <1>1, <1>2, <1>4, <1>5, <1>6, <1>7

-----------------------------------------------------------------------------
(* The invariant, step by step.                                            *)

LEMMA InitOK == Init => IInv
  <1> SUFFICES ASSUME Init PROVE IInv
    OBVIOUS
  <1>1. /\ ops = <<>> /\ inFlight = {} /\ cache = {} /\ loaded = {} /\ owed = {}
        /\ runs = [q \in Queries |-> 0] /\ loading = [th \in Threads |-> NotLoading]
    BY DEF Init
  <1>2. TypeOK
    <2>1. 0 \in 0..MaxCalls /\ 0 \in 0..MaxFailures /\ 0 \in 0..2
      BY QueryAssumption
    <2>2. ops \in Seq(Operation)
      BY <1>1
    <2>3. QED
      BY <1>1, <2>1, <2>2 DEF Init, TypeOK
  <1>3. \A q \in Queries : Positions(ops, q) = {}
    BY <1>1 DEF Positions
  <1>4. Queued = {}
    BY <1>1, InQueued
  <1>5. QED
    BY <1>1, <1>2, <1>3, <1>4 DEF IInv, PagesStored, QueuedOnce, RunOnce

\* Steps that leave the deferred operations alone.
LEMMA QueueKept ==
    ASSUME IInv, UNCHANGED <<inFlight, ops, runs>>, cache \subseteq cache',
           TypeOK', database \subseteq database',
           \A th \in Threads : \/ loading'[th] = loading[th] \/ loading'[th] = NotLoading
                               \/ loading'[th].counted \subseteq database'
    PROVE  IInv'
  <1>1. Queued' = Queued /\ \A q \in Queries : Positions(ops, q)' = Positions(ops, q)
    BY DEF Queued
  <1>2. PagesStored'
    BY <1>1 DEF IInv, PagesStored
  <1>3. QueuedOnce' /\ RunOnce'
    BY <1>1 DEF IInv, QueuedOnce, RunOnce
  <1>4. QED
    BY <1>2, <1>3 DEF IInv

\* What a load waits with.
LEMMA WholeLoad ==
    ASSUME NEW q \in Queries, NEW store \in Stores,
           NEW policy \in {"UseCache", "ForceRefresh"}
    PROVE  LET load == [kind |-> "whole", query |-> q, store |-> store, policy |-> policy,
                        left |-> 0, counted |-> {}]
           IN  load \in InLoad /\ load.counted = {} /\ load.kind = "whole"
  BY DEF InLoad

LEMMA PagedLoad ==
    ASSUME NEW q \in Queries, NEW store \in Stores,
           NEW policy \in {"UseCache", "ForceRefresh"}, NEW left \in Nat,
           NEW counted \in SUBSET Documents
    PROVE  LET load == [kind |-> "pages", query |-> q, store |-> store, policy |-> policy,
                        left |-> left, counted |-> counted]
           IN  /\ load \in InLoad /\ load.counted = counted /\ load.kind = "pages"
               /\ load.query = q /\ load.store = store /\ load.left = left
  BY DEF InLoad

LEMMA Chosen ==
    ASSUME NEW set \in SUBSET Setting
    PROVE  /\ StoreOf(set) \in Stores /\ PolicyOf(set) \in {"UseCache", "ForceRefresh"}
           /\ LeftByCacheHit(set) \subseteq Setting /\ LeftBySchedule(set) \subseteq Setting
           /\ LeftByJoin(set) \subseteq Setting
  BY DEF StoreOf, Stores, PolicyOf, LeftByCacheHit, LeftBySchedule, LeftByJoin

\* A call of a system, and the settings it leaves.
LEMMA CallStep ==
    ASSUME TypeOK, NEW th \in Threads, NEW chosen \in SUBSET Setting, Calls(th, chosen)
    PROVE  /\ calls' \in 0..MaxCalls /\ phase = "Update"
           /\ settings[th] \cup chosen \in SUBSET Setting
           /\ loading[th] = NotLoading
           /\ \A new \in SUBSET Setting : settings' = [settings EXCEPT ![th] = new] =>
                 settings' \in [Threads -> SUBSET Setting]
  <1>1. calls' \in 0..MaxCalls /\ phase = "Update" /\ loading[th] = NotLoading
    BY QueryAssumption DEF TypeOK, Calls
  <1>2. settings \in [Threads -> SUBSET Setting]
    BY DEF TypeOK
  <1>3. QED
    BY <1>1, <1>2

LEMMA FailStep == ASSUME TypeOK, Fail PROVE failures' \in 0..MaxFailures
  BY QueryAssumption DEF TypeOK, Fail

LEMMA CacheHitStep ==
    ASSUME IInv, NEW th \in Threads, NEW q \in Queries, NEW chosen \in SUBSET Setting,
           LoadHitsCache(th, q, chosen) \/ ScheduleHitsCache(th, q, chosen)
    PROVE  IInv'
  <1> DEFINE set == settings[th] \cup chosen
  <1>1. /\ Calls(th, chosen)
        /\ settings' = [settings EXCEPT ![th] = LeftByCacheHit(set)]
              \/ settings' = [settings EXCEPT ![th] = LeftBySchedule(set)]
        /\ answered' = answered \cup {<<q, StoreOf(set)>>}
        /\ owed' = owed \cup OwedByCache(q, StoreOf(set))
        /\ UNCHANGED <<cache, inFlight, ops, loading, phase, database, loaded, runs, failures>>
    BY DEF LoadHitsCache, ScheduleHitsCache, queueVars
  <1>2. set \in SUBSET Setting /\ calls' \in 0..MaxCalls
    BY <1>1, CallStep DEF IInv
  <1> HIDE DEF set
  <1>3. settings' \in [Threads -> SUBSET Setting]
    BY <1>1, <1>2, CallStep, Chosen DEF IInv
  <1>4. StoreOf(set) \in Stores /\ OwedByCache(q, StoreOf(set)) \subseteq database
    BY <1>2, Chosen, Reaches DEF OwedByCache
  <1>5. TypeOK'
    BY <1>1, <1>2, <1>3, <1>4 DEF IInv, TypeOK, Hash
  <1>6. QED
    BY <1>1, <1>5, QueueKept

LEMMA BeginLoadStep ==
    ASSUME IInv, NEW th \in Threads, NEW q \in Queries, NEW chosen \in SUBSET Setting,
           BeginLoad(th, q, chosen)
    PROVE  IInv'
  <1> DEFINE set == settings[th] \cup chosen
  <1>1. PICK policy \in {"UseCache", "ForceRefresh"}, new \in SUBSET Setting :
           /\ Calls(th, chosen)
           /\ settings' = [settings EXCEPT ![th] = new]
           /\ Waits(th, q, StoreOf(set), policy)
    <2>1. CASE Loads(th, q, chosen) /\ Waits(th, q, StoreOf(set), PolicyOf(set))
      <3>1. Calls(th, chosen) /\ settings' = [settings EXCEPT ![th] = {}]
        BY <2>1 DEF Loads
      <3>2. PolicyOf(set) \in {"UseCache", "ForceRefresh"} /\ {} \in SUBSET Setting
        BY DEF PolicyOf
      <3> HIDE DEF set
      <3>3. QED
        BY <2>1, <3>1, <3>2
    <2>2. CASE Joins(th, chosen) /\ Waits(th, q, StoreOf(set), "ForceRefresh")
      <3>1. settings' = [settings EXCEPT ![th] = LeftByJoin(set)]
        BY <2>2 DEF Joins
      <3>2. LeftByJoin(set) \in SUBSET Setting
        BY <2>2, CallStep, Chosen DEF Joins, IInv
      <3>3. QED
        BY <2>2, <3>1, <3>2 DEF Joins
    <2>3. QED
      BY <2>1, <2>2 DEF BeginLoad
  <1>2. UNCHANGED <<cache, inFlight, ops, phase, database, loaded, answered, owed, runs,
                    failures>>
    BY DEF BeginLoad, queueVars, ghostVars
  <1>3. calls' \in 0..MaxCalls /\ settings' \in [Threads -> SUBSET Setting]
    BY <1>1, CallStep DEF IInv
  <1>4. StoreOf(set) \in Stores
    BY <1>1, CallStep, Chosen DEF IInv
  <1>5. PICK load \in InLoad : loading' = [loading EXCEPT ![th] = load] /\ load.counted = {}
    BY <1>1, <1>4, WholeLoad DEF Waits
  <1>6. TypeOK'
    BY <1>2, <1>3, <1>5 DEF IInv, TypeOK
  <1>7. QED
    BY <1>2, <1>5, <1>6, QueueKept DEF IInv, TypeOK

LEMMA CountStep ==
    ASSUME IInv, NEW th \in Threads, NEW q \in Queries, NEW chosen \in SUBSET Setting,
           CountPages(th, q, chosen)
    PROVE  IInv'
  <1> DEFINE set == settings[th] \cup chosen
  <1>1. PICK policy \in {"UseCache", "ForceRefresh"}, new \in SUBSET Setting :
           /\ Calls(th, chosen)
           /\ settings' = [settings EXCEPT ![th] = new]
           /\ Counts(th, q, StoreOf(set), policy)
    <2>1. CASE Loads(th, q, chosen) /\ Counts(th, q, StoreOf(set), PolicyOf(set))
      <3>1. Calls(th, chosen) /\ settings' = [settings EXCEPT ![th] = {}]
        BY <2>1 DEF Loads
      <3>2. PolicyOf(set) \in {"UseCache", "ForceRefresh"} /\ {} \in SUBSET Setting
        BY DEF PolicyOf
      <3> HIDE DEF set
      <3>3. QED
        BY <2>1, <3>1, <3>2
    <2>2. CASE Joins(th, chosen) /\ Counts(th, q, StoreOf(set), "ForceRefresh")
      <3>1. settings' = [settings EXCEPT ![th] = LeftByJoin(set)]
        BY <2>2 DEF Joins
      <3>2. LeftByJoin(set) \in SUBSET Setting
        BY <2>2, CallStep, Chosen DEF Joins, IInv
      <3>3. QED
        BY <2>2, <3>1, <3>2 DEF Joins
    <2>3. QED
      BY <2>1, <2>2 DEF CountPages
  <1>2. UNCHANGED <<inFlight, ops, phase, database, loaded, answered, owed, runs>>
    BY DEF CountPages, queueVars, ghostVars
  <1>3. calls' \in 0..MaxCalls /\ settings' \in [Threads -> SUBSET Setting]
    BY <1>1, CallStep DEF IInv
  <1>4. StoreOf(set) \in Stores
    BY <1>1, CallStep, Chosen DEF IInv
  <1>5. CASE \E load \in InLoad : /\ loading' = [loading EXCEPT ![th] = load]
                                  /\ load.counted \subseteq database
                                  /\ UNCHANGED <<cache, failures>>
    <2>1. TypeOK'
      BY <1>2, <1>3, <1>5 DEF IInv, TypeOK
    <2>2. QED
      BY <1>2, <1>5, <2>1, QueueKept DEF IInv, TypeOK
  <1>6. CASE Fail /\ cache' = CacheAfter(q, policy) /\ UNCHANGED loading
    <2>1. cache \subseteq cache' /\ cache' \subseteq Hash /\ failures' \in 0..MaxFailures
      BY <1>6, FailStep DEF CacheAfter, IInv, TypeOK, Hash
    <2>2. TypeOK'
      BY <1>2, <1>3, <1>6, <2>1 DEF IInv, TypeOK
    <2>3. QED
      BY <1>2, <1>6, <2>1, <2>2, QueueKept
  <1>7. QED
    <2>1. /\ Pages(Cardinality(Found(q, StoreOf(set)))) \in Nat
          /\ Reached(q, StoreOf(set)) \in SUBSET Documents
          /\ Reached(q, StoreOf(set)) \subseteq database
      BY PageCount, Reaches DEF IInv, TypeOK
    <2> DEFINE load == [kind |-> "pages", query |-> q, store |-> StoreOf(set),
                        policy |-> policy, left |-> Pages(Cardinality(Found(q, StoreOf(set)))),
                        counted |-> Reached(q, StoreOf(set))]
    <2>2. load \in InLoad /\ load.counted = Reached(q, StoreOf(set))
      BY <1>4, <2>1, PagedLoad
    <2>3. \/ loading' = [loading EXCEPT ![th] = load] /\ UNCHANGED <<cache, failures>>
          \/ Fail /\ cache' = CacheAfter(q, policy) /\ UNCHANGED loading
      BY <1>1 DEF Counts
    <2> HIDE DEF load
    <2>4. QED
      BY <1>5, <1>6, <2>1, <2>2, <2>3


LEMMA HydrateStep ==
    ASSUME IInv, NEW th \in Threads, NEW h \in Hydrations, Hydrate(th, h)
    PROVE  IInv'
  <1>1. /\ calls' \in 0..MaxCalls
        /\ cache' = cache \cup {h}
        /\ answered' = answered \cup {<<h, "default">>}
        /\ owed' = owed \cup OwedByCache(h, "default")
        /\ UNCHANGED <<settings, inFlight, ops, loading, phase, database, runs>>
    BY CallStep DEF Hydrate, queueVars, Setting, IInv
  <1>2. loaded' \subseteq database
    BY Reaches, MaterializedIn DEF Hydrate, IInv, TypeOK
  <1>3. failures' \in 0..MaxFailures
    BY FailStep DEF Hydrate, IInv, TypeOK
  <1>4. h \in Hash /\ <<h, "default">> \in Hash \X Stores
    BY DEF Hash, Stores
  <1>5. OwedByCache(h, "default") \subseteq database
    BY Reaches DEF OwedByCache
  <1>6. TypeOK'
    BY <1>1, <1>2, <1>3, <1>4, <1>5 DEF IInv, TypeOK
  <1>7. QED
    BY <1>1, <1>6, QueueKept

\* A thread's load comes to its end, well or not.
LEMMA LoadEndStep ==
    ASSUME IInv, NEW th \in Threads, LoadReturns(th) \/ LoadFails(th) \/ PagesEnd(th)
    PROVE  IInv'
  <1> DEFINE load == loading[th]
  <1>1. /\ load # NotLoading /\ loading' = [loading EXCEPT ![th] = NotLoading]
        /\ UNCHANGED <<settings, inFlight, ops, phase, database, runs, calls>>
    BY DEF LoadReturns, LoadFails, PagesEnd, Waiting, NotLoading, queueVars, ghostVars
  <1>2. load \in InLoad /\ load.query \in Queries /\ load.store \in Stores
        /\ load.counted \subseteq database
    BY <1>1 DEF IInv, TypeOK, InLoad, PagesStored
  <1>3. cache' = cache \/ cache' = CacheAfter(load.query, load.policy)
    BY DEF LoadReturns, LoadFails, PagesEnd, CacheAfterError
  <1>4. cache \subseteq cache' /\ cache' \subseteq Hash
    BY <1>2, <1>3 DEF CacheAfter, IInv, TypeOK, Hash
  <1>5. failures' \in 0..MaxFailures
    BY FailStep DEF LoadReturns, LoadFails, PagesEnd, IInv, TypeOK
  <1>6. loaded' \subseteq database
    BY Reaches, MaterializedIn DEF LoadReturns, LoadFails, PagesEnd, IInv, TypeOK
  <1>7. answered' = answered \/ answered' = answered \cup {<<load.query, load.store>>}
    BY DEF LoadReturns, LoadFails, PagesEnd, ghostVars
  <1>8. owed' \subseteq database
    BY <1>2, Reaches DEF LoadReturns, LoadFails, PagesEnd, ghostVars, IInv, TypeOK
  <1> HIDE DEF load
  <1>9. loading' \in [Threads -> InLoad \cup {NotLoading}]
    BY <1>1 DEF IInv, TypeOK
  <1>10. answered' \subseteq Hash \X Stores
    BY <1>2, <1>7 DEF IInv, TypeOK, Hash
  <1>11. TypeOK'
    BY <1>1, <1>4, <1>5, <1>6, <1>8, <1>9, <1>10 DEF IInv, TypeOK
  <1>12. \A u \in Threads : loading'[u] = loading[u] \/ loading'[u] = NotLoading
    BY <1>1 DEF IInv, TypeOK
  <1>13. QED
    BY <1>1, <1>4, <1>11, <1>12, QueueKept

LEMMA FetchStep ==
    ASSUME IInv, NEW th \in Threads, FetchPage(th)
    PROVE  IInv'
  <1> DEFINE load == loading[th]
  <1>1. /\ load.kind = "pages" /\ load.left > 0 /\ load # NotLoading
        /\ UNCHANGED <<settings, inFlight, phase, database, loaded, answered, owed, runs,
                       calls>>
    BY DEF FetchPage, ghostVars, NotLoading
  <1>2. load \in InLoad /\ load.counted \subseteq database
    BY <1>1 DEF IInv, TypeOK, PagesStored
  <1>3. CASE /\ Fail /\ loading' = [loading EXCEPT ![th] = NotLoading]
             /\ cache' = CacheAfter(load.query, load.policy) /\ UNCHANGED ops
    <2>1. cache \subseteq cache' /\ cache' \subseteq Hash
      BY <1>2, <1>3 DEF CacheAfter, IInv, TypeOK, Hash, InLoad
    <2>2. failures' \in 0..MaxFailures
      BY <1>3, FailStep DEF IInv
    <2> HIDE DEF load
    <2>3. TypeOK'
      BY <1>1, <1>3, <2>1, <2>2 DEF IInv, TypeOK
    <2>4. \A u \in Threads : loading'[u] = loading[u] \/ loading'[u] = NotLoading
      BY <1>3 DEF IInv, TypeOK
    <2>5. QED
      BY <1>1, <1>3, <2>1, <2>3, <2>4, QueueKept
  <1>4. CASE /\ ops' = Append(ops, [kind |-> "page", docs |-> Page(load.query, load.store)])
             /\ loading' = [loading EXCEPT ![th] = [load EXCEPT !.left = @ - 1]]
             /\ UNCHANGED <<cache, failures>>
    <2> DEFINE rest == [load EXCEPT !.left = @ - 1]
    <2>1. load.left - 1 \in Nat
      BY <1>1, <1>2 DEF InLoad
    <2>2. rest \in InLoad /\ rest.counted = load.counted
      BY <1>2, <2>1 DEF InLoad
    <2>3. Page(load.query, load.store) \subseteq database
      BY Reaches DEF Page
    <2> HIDE DEF load, rest
    <2>4. /\ ops' \in Seq(Operation)
          /\ Queued' = Queued \cup Page(load.query, load.store)
          /\ \A q \in Queries : Positions(ops, q)' = Positions(ops, q)
      BY <1>4, <2>3, AppendPage DEF IInv, TypeOK
    <2>5. loading' = [loading EXCEPT ![th] = rest]
      BY <1>4 DEF rest
    <2>6. TypeOK'
      BY <1>1, <1>4, <2>2, <2>4, <2>5 DEF IInv, TypeOK
    <2>7. PagesStored'
      BY <1>1, <1>2, <2>2, <2>3, <2>4, <2>5 DEF IInv, TypeOK, PagesStored
    <2>8. QueuedOnce' /\ RunOnce'
      BY <1>1, <1>4, <2>4 DEF IInv, QueuedOnce, RunOnce
    <2>9. QED
      BY <2>6, <2>7, <2>8 DEF IInv
  <1>5. QED
    BY <1>3, <1>4 DEF FetchPage

LEMMA ScheduleStep ==
    ASSUME IInv, NEW th \in Threads, NEW q \in Queries, NEW chosen \in SUBSET Setting,
           ScheduleLoad(th, q, chosen)
    PROVE  IInv'
  <1> DEFINE set == settings[th] \cup chosen
  <1>1. /\ Calls(th, chosen)
        /\ q \notin cache
        /\ settings' = [settings EXCEPT ![th] = LeftBySchedule(set)]
        /\ inFlight' = inFlight \cup {q}
        /\ ops' = IF q \in inFlight THEN ops
                  ELSE Append(ops, [kind |-> "scheduled", query |-> q, store |-> StoreOf(set)])
        /\ UNCHANGED <<cache, loading, phase, database, loaded, answered, owed, runs, failures>>
    BY DEF ScheduleLoad, ghostVars
  <1>2. set \in SUBSET Setting /\ calls' \in 0..MaxCalls
    BY <1>1, CallStep DEF IInv
  <1> HIDE DEF set
  <1>3. settings' \in [Threads -> SUBSET Setting] /\ StoreOf(set) \in Stores
    BY <1>1, <1>2, CallStep, Chosen DEF IInv
  <1>4. CASE q \in inFlight
    <2>1. TypeOK'
      BY <1>1, <1>2, <1>3, <1>4 DEF IInv, TypeOK
    <2>2. inFlight' = inFlight
      BY <1>1, <1>4
    <2>3. QED
      BY <1>1, <1>4, <2>1, <2>2, QueueKept
  <1>5. CASE q \notin inFlight
    <2>1. /\ ops' \in Seq(Operation)
          /\ Queued' = Queued
          /\ \A p \in Queries :
                Positions(ops, p)' = Positions(ops, p) \cup IF p = q THEN {Len(ops) + 1} ELSE {}
      BY <1>1, <1>3, <1>5, AppendScheduled DEF IInv, TypeOK
    <2>2. TypeOK'
      BY <1>1, <1>2, <1>3, <2>1 DEF IInv, TypeOK
    <2>3. PagesStored'
      BY <1>1, <2>1 DEF IInv, PagesStored
    <2>4. Len(ops) + 1 \in Nat
      BY DEF IInv, TypeOK
    <2>5. QueuedOnce'
      BY <1>1, <1>5, <2>1, <2>4 DEF IInv, QueuedOnce
    <2>6. RunOnce'
      BY <1>1 DEF IInv, RunOnce
    <2>7. QED
      BY <2>2, <2>3, <2>5, <2>6 DEF IInv
  <1>6. QED
    BY <1>4, <1>5

LEMMA FrameStep ==
    ASSUME IInv,
           \/ EnterLoadApply \/ NextFrame \/ UNCHANGED vars
           \/ \E d \in Documents : Store(d)
    PROVE  IInv'
  <1>1. /\ UNCHANGED <<settings, cache, inFlight, ops, loading, loaded, answered, owed, runs,
                       calls, failures>>
        /\ phase' \in {"Update", "LoadApply"}
        /\ database \subseteq database' /\ database' \subseteq Documents
    BY DEF EnterLoadApply, NextFrame, Store, vars, queueVars, ghostVars, IInv, TypeOK
  <1>2. TypeOK'
    BY <1>1 DEF IInv, TypeOK
  <1>3. QED
    BY <1>1, <1>2, QueueKept

LEMMA ApplyStep ==
    ASSUME IInv, ApplyPage \/ ScheduledLoadReturns \/ ScheduledLoadFails
    PROVE  IInv'
  <1>1. /\ ops # <<>> /\ ops' = Tail(ops)
        /\ UNCHANGED <<settings, loading, phase, database, calls>>
    BY DEF ApplyPage, ScheduledLoadReturns, ScheduledLoadFails
  <1>2. /\ ops' \in Seq(Operation) /\ Head(ops) \in Operation
        /\ Queued' \subseteq Queued
        /\ Head(ops).kind = "page" => Head(ops).docs \subseteq Queued
        /\ \A q \in Queries :
              /\ 1 \in Positions(ops, q) <=>
                    Head(ops).kind = "scheduled" /\ Head(ops).query = q
              /\ Positions(ops, q)' = {i \in 1..Len(ops') : i + 1 \in Positions(ops, q)}
    BY <1>1, TakeFirst DEF IInv, TypeOK
  <1>3. Len(ops') + 1 = Len(ops) /\ Len(ops') \in Nat
    BY <1>1 DEF IInv, TypeOK
  <1>4. PagesStored'
    BY <1>1, <1>2 DEF IInv, PagesStored
  <1>5. ASSUME NEW q \in Queries, 1 \notin Positions(ops, q)
        PROVE  IF q \in inFlight THEN \E i \in Nat : Positions(ops, q)' = {i}
                                 ELSE Positions(ops, q)' = {}
    <2>1. CASE q \in inFlight
      <3>1. PICK i \in Nat : Positions(ops, q) = {i}
        BY <2>1 DEF IInv, QueuedOnce
      <3>2. i \in 2..Len(ops)
        BY <1>5, <3>1 DEF Positions
      <3>3. Positions(ops, q)' = {i - 1}
        BY <1>2, <1>3, <3>1, <3>2
      <3>4. QED
        BY <2>1, <3>2, <3>3
    <2>2. CASE q \notin inFlight
      BY <1>2, <2>2 DEF IInv, QueuedOnce
    <2>3. QED
      BY <2>1, <2>2
  <1>6. CASE ApplyPage
    <2>1. /\ Head(ops).kind = "page" /\ loaded' \subseteq loaded \cup Head(ops).docs
          /\ UNCHANGED <<cache, inFlight, answered, owed, runs, failures>>
      BY <1>6, MaterializedIn DEF ApplyPage, ghostVars
    <2>2. loaded' \subseteq database
      BY <1>2, <2>1 DEF IInv, TypeOK, PagesStored
    <2>3. TypeOK'
      BY <1>1, <1>2, <2>1, <2>2 DEF IInv, TypeOK
    <2>4. QueuedOnce'
      BY <1>2, <1>5, <2>1 DEF QueuedOnce
    <2>5. RunOnce'
      BY <2>1 DEF IInv, RunOnce
    <2>6. QED
      BY <1>4, <2>3, <2>4, <2>5 DEF IInv
  <1>7. CASE ScheduledLoadReturns \/ ScheduledLoadFails
    <2>1. Head(ops).kind = "scheduled"
      BY <1>7 DEF ScheduledLoadReturns, ScheduledLoadFails
    <2>2. PICK q \in Queries : q = Head(ops).query
      BY <1>2, <2>1 DEF Operation
    <2>3. Head(ops).store \in Stores /\ inFlight' = inFlight \ {q}
      BY <1>2, <1>7, <2>1, <2>2
      DEF Operation, ScheduledLoadReturns, ScheduledLoadFails, InFlightAfterError
    <2>4. q \in inFlight /\ Positions(ops, q) = {1}
      BY <1>2, <2>1, <2>2 DEF IInv, QueuedOnce
    <2>5. Positions(ops, q)' = {}
      BY <1>2, <1>3, <2>4
    <2>6. QueuedOnce'
      BY <1>2, <1>5, <2>1, <2>2, <2>3, <2>5 DEF QueuedOnce
    <2>7. runs[q] = 0
      BY <2>3, <2>4 DEF IInv, RunOnce
    <2>8. CASE ScheduledLoadReturns
      <3>1. /\ cache' = cache \cup {q}
            /\ answered' = answered \cup {<<q, Head(ops).store>>}
            /\ owed' = owed \cup Reached(q, Head(ops).store)
            /\ runs' = [runs EXCEPT ![q] = @ + 1]
        BY <2>2, <2>8 DEF ScheduledLoadReturns, CacheAfter
      <3>2. runs' = [runs EXCEPT ![q] = 1]
        BY <2>7, <3>1
      <3>3. loaded' \subseteq database
        BY <2>8, Reaches, MaterializedIn DEF ScheduledLoadReturns, IInv, TypeOK
      <3>4. failures' \in 0..MaxFailures
        BY <2>8, FailStep DEF ScheduledLoadReturns, IInv, TypeOK
      <3>5. owed' \subseteq database /\ q \in Hash
        BY <2>3, <3>1, Reaches DEF IInv, TypeOK, Hash
      <3>6. inFlight' \subseteq Queries /\ runs' \in [Queries -> 0..2]
        BY <2>2, <2>3, <3>2 DEF IInv, TypeOK
      <3>7. TypeOK'
        BY <1>1, <1>2, <2>3, <3>1, <3>3, <3>4, <3>5, <3>6 DEF IInv, TypeOK
      <3>8. RunOnce'
        BY <2>2, <2>3, <3>1, <3>2 DEF IInv, TypeOK, RunOnce
      <3>9. QED
        BY <1>4, <2>6, <3>7, <3>8 DEF IInv
    <2>9. CASE ScheduledLoadFails
      <3>1. UNCHANGED <<cache, loaded, answered, owed, runs>> /\ failures' \in 0..MaxFailures
        BY <2>9, FailStep DEF ScheduledLoadFails, ghostVars, IInv
      <3>2. TypeOK'
        BY <1>1, <1>2, <2>3, <3>1 DEF IInv, TypeOK
      <3>3. RunOnce'
        BY <2>3, <3>1 DEF IInv, RunOnce
      <3>4. QED
        BY <1>4, <2>6, <3>2, <3>3 DEF IInv
    <2>10. QED
      BY <1>7, <2>8, <2>9
  <1>8. QED
    BY <1>6, <1>7

LEMMA InvariantStep == IInv /\ [Next]_vars => IInv'
  BY StepCases, CacheHitStep, BeginLoadStep, CountStep, ScheduleStep, HydrateStep, LoadEndStep,
     FetchStep, FrameStep, ApplyStep

LEMMA Invariant == Spec => []IInv
  BY InitOK, InvariantStep, PTL DEF Spec

\* Every variable keeps its type, whatever happens besides.
THEOREM TypeCorrect == Spec => []TypeOK
  <1>1. IInv => TypeOK
    BY DEF IInv
  <1>2. QED
    BY <1>1, Invariant, PTL

\* The in-flight set holds exactly the scheduled loads that are queued, each of them once.
THEOREM InFlightQueued == Spec => []InFlightIsQueued
  <1>1. ASSUME IInv PROVE InFlightIsQueued
    <2> SUFFICES ASSUME NEW q \in Queries
                 PROVE  Cardinality(Positions(ops, q)) = IF q \in inFlight THEN 1 ELSE 0
      BY DEF InFlightIsQueued, Positions
    <2>1. CASE q \in inFlight
      <3>1. PICK i \in Nat : Positions(ops, q) = {i}
        BY <1>1, <2>1 DEF IInv, QueuedOnce
      <3>2. QED
        BY <2>1, <3>1, FS_Singleton
    <2>2. CASE q \notin inFlight
      BY <1>1, <2>2, FS_EmptySet DEF IInv, QueuedOnce
    <2>3. QED
      BY <2>1, <2>2
  <1>2. QED
    BY <1>1, Invariant, PTL

\* A query is run at most once by schedule_load, however many systems schedule it.
THEOREM RunsOnce == Spec => []ScheduledOnce
  <1>1. IInv => ScheduledOnce
    BY DEF IInv, RunOnce, ScheduledOnce
  <1>2. QED
    BY <1>1, Invariant, PTL

-----------------------------------------------------------------------------
(* What callers may count on, where nothing happens besides: Environment = {}. *)

\* Nobody asks another store than the default one.
OneStore ==
    /\ \A th \in Threads : "elsewhere" \notin settings[th]
    /\ \A th \in Threads : loading[th] # NotLoading => loading[th].store = "default"
    /\ \A i \in 1..Len(ops) : ops[i].kind = "scheduled" => ops[i].store = "default"

\* What is cached has been answered for.
CacheAnswered == \A h \in cache : <<h, "default">> \in answered

\* What a paged load has counted is in the world or in the queue, or there is a page left
\* that brings it.
Covered(load) ==
    \/ load.counted \subseteq loaded \cup Queued
    \/ load.left > 0 /\ load.counted \subseteq Found(load.query, load.store)

PagesCover == \A th \in Threads : loading[th].kind = "pages" => Covered(loading[th])

Answering == OneStore /\ CacheAnswered /\ PagesCover /\ AnsweredMeansLoaded

LEMMA CoveredKept ==
    ASSUME loaded \cup Queued \subseteq loaded' \cup Queued', database \subseteq database'
    PROVE  \A load : Covered(load) => Covered(load)'
  BY DEF Covered, Found

\* Steps that leave the threads' settings, their loads and the scheduled loads alone.
LEMMA AnswersKept ==
    ASSUME IInv, Answering,
           loaded \cup Queued \subseteq loaded' \cup Queued', database \subseteq database',
           answered \subseteq answered',
           \A h \in cache' \ cache : <<h, "default">> \in answered',
           owed' \subseteq owed \cup loaded' \cup Queued',
           \A th \in Threads : /\ "elsewhere" \notin settings'[th]
                               /\ \/ loading'[th] = loading[th]
                                  \/ loading'[th].kind # "pages" /\ loading'[th] = NotLoading
                                  \/ loading'[th].kind # "pages" /\ loading'[th].store = "default"
                                  \/ loading'[th].store = "default" /\ Covered(loading[th])',
           \A i \in 1..Len(ops') : ops'[i].kind = "scheduled" => ops'[i].store = "default"
    PROVE  Answering'
  <1>1. OneStore'
    BY DEF Answering, OneStore
  <1>2. CacheAnswered' /\ AnsweredMeansLoaded'
    BY DEF Answering, CacheAnswered, AnsweredMeansLoaded
  <1>3. PagesCover'
    <2> SUFFICES ASSUME NEW th \in Threads, loading'[th].kind = "pages"
                 PROVE  Covered(loading[th])'
      BY DEF PagesCover
    <2>1. NotLoading.kind # "pages"
      BY DEF NotLoading
    <2>2. CASE loading'[th] = loading[th]
      <3>1. Covered(loading[th])
        BY <2>2 DEF Answering, PagesCover
      <3>2. QED
        BY <2>2, <3>1, CoveredKept DEF Covered
    <2>3. QED
      BY <2>1, <2>2
  <1>4. QED
    BY <1>1, <1>2, <1>3 DEF Answering

LEMMA InitAnswering == Init => Answering
  <1> SUFFICES ASSUME Init PROVE Answering
    OBVIOUS
  <1>1. /\ ops = <<>> /\ cache = {} /\ owed = {} /\ settings = [th \in Threads |-> {}]
        /\ loading = [th \in Threads |-> NotLoading]
    BY DEF Init
  <1>2. OneStore /\ PagesCover
    BY <1>1 DEF OneStore, PagesCover, NotLoading
  <1>3. QED
    BY <1>1, <1>2 DEF Answering, CacheAnswered, AnsweredMeansLoaded

\* A system's call asks the default store, and leaves no other one set.
LEMMA CallAnswering ==
    ASSUME IInv, Answering, Environment = {},
           NEW th \in Threads, NEW chosen \in SUBSET Setting, Calls(th, chosen)
    PROVE  /\ StoreOf(settings[th] \cup chosen) = "default"
           /\ \A new \in SUBSET (settings[th] \cup chosen) :
                 settings' = [settings EXCEPT ![th] = new] =>
                    \A u \in Threads : "elsewhere" \notin settings'[u]
  <1>1. "elsewhere" \notin settings[th] \cup chosen
    BY DEF Calls, Does, Answering, OneStore
  <1>2. QED
    BY <1>1 DEF StoreOf, IInv, TypeOK, Answering, OneStore

LEMMA CacheHitAnswering ==
    ASSUME IInv, Answering, Environment = {},
           NEW th \in Threads, NEW q \in Queries, NEW chosen \in SUBSET Setting,
           LoadHitsCache(th, q, chosen) \/ ScheduleHitsCache(th, q, chosen)
    PROVE  Answering'
  <1> DEFINE set == settings[th] \cup chosen
  <1>1. /\ Calls(th, chosen) /\ q \in cache
        /\ settings' = [settings EXCEPT ![th] = LeftByCacheHit(set)]
              \/ settings' = [settings EXCEPT ![th] = LeftBySchedule(set)]
        /\ answered' = answered \cup {<<q, StoreOf(set)>>}
        /\ owed' = owed \cup OwedByCache(q, StoreOf(set))
        /\ UNCHANGED <<cache, ops, loading, database, loaded>>
    BY DEF LoadHitsCache, ScheduleHitsCache, queueVars
  <1>2. LeftByCacheHit(set) \subseteq set /\ LeftBySchedule(set) \subseteq set
    BY DEF LeftByCacheHit, LeftBySchedule
  <1>3. StoreOf(set) = "default" /\ \A u \in Threads : "elsewhere" \notin settings'[u]
    BY <1>1, <1>2, CallAnswering
  <1> HIDE DEF set
  <1>4. owed' = owed
    BY <1>1, <1>3 DEF OwedByCache, Answering, CacheAnswered
  <1>5. Queued' = Queued
    BY <1>1 DEF Queued
  <1>6. QED
    BY <1>1, <1>3, <1>4, <1>5, AnswersKept DEF Answering, OneStore

LEMMA BeginLoadAnswering ==
    ASSUME IInv, Answering, Environment = {},
           NEW th \in Threads, NEW q \in Queries, NEW chosen \in SUBSET Setting,
           BeginLoad(th, q, chosen)
    PROVE  Answering'
  <1> DEFINE set == settings[th] \cup chosen
  <1>1. PICK policy \in {"UseCache", "ForceRefresh"}, new \in SUBSET set :
           /\ Calls(th, chosen)
           /\ settings' = [settings EXCEPT ![th] = new]
           /\ Waits(th, q, StoreOf(set), policy)
    <2>1. CASE Loads(th, q, chosen) /\ Waits(th, q, StoreOf(set), PolicyOf(set))
      <3>1. Calls(th, chosen) /\ settings' = [settings EXCEPT ![th] = {}]
        BY <2>1 DEF Loads
      <3>2. PolicyOf(set) \in {"UseCache", "ForceRefresh"} /\ {} \in SUBSET set
        BY DEF PolicyOf
      <3> HIDE DEF set
      <3>3. QED
        BY <2>1, <3>1, <3>2
    <2>2. CASE Joins(th, chosen) /\ Waits(th, q, StoreOf(set), "ForceRefresh")
      <3>1. Calls(th, chosen) /\ settings' = [settings EXCEPT ![th] = LeftByJoin(set)]
        BY <2>2 DEF Joins
      <3>2. LeftByJoin(set) \in SUBSET set
        BY DEF LeftByJoin
      <3> HIDE DEF set
      <3>3. QED
        BY <2>2, <3>1, <3>2
    <2>3. QED
      BY <2>1, <2>2 DEF BeginLoad
  <1>2. UNCHANGED <<cache, ops, database, loaded, answered, owed>>
    BY DEF BeginLoad, queueVars, ghostVars
  <1>3. StoreOf(set) = "default" /\ \A u \in Threads : "elsewhere" \notin settings'[u]
    BY <1>1, CallAnswering
  <1>4. PICK load \in InLoad :
           /\ loading' = [loading EXCEPT ![th] = load]
           /\ load.kind = "whole" /\ load.store = "default"
    <2>1. "default" \in Stores
      BY DEF Stores
    <2> DEFINE load == [kind |-> "whole", query |-> q, store |-> "default",
                        policy |-> policy, left |-> 0, counted |-> {}]
    <2>2. load \in InLoad /\ load.kind = "whole" /\ load.store = "default"
      BY <2>1, WholeLoad
    <2>3. QED
      BY <1>1, <1>3, <2>2 DEF Waits
  <1>5. \A u \in Threads : \/ loading'[u] = loading[u]
                           \/ loading'[u].kind # "pages" /\ loading'[u].store = "default"
    BY <1>4 DEF IInv, TypeOK
  <1>6. Queued' = Queued
    BY <1>2 DEF Queued
  <1>7. QED
    BY <1>2, <1>3, <1>5, <1>6, AnswersKept DEF Answering, OneStore

LEMMA CountAnswering ==
    ASSUME IInv, Answering, Environment = {},
           NEW th \in Threads, NEW q \in Queries, NEW chosen \in SUBSET Setting,
           CountPages(th, q, chosen)
    PROVE  Answering'
  <1> DEFINE set == settings[th] \cup chosen
  <1>1. PICK policy \in {"UseCache", "ForceRefresh"}, new \in SUBSET set :
           /\ Calls(th, chosen)
           /\ settings' = [settings EXCEPT ![th] = new]
           /\ Counts(th, q, StoreOf(set), policy)
    <2>1. CASE Loads(th, q, chosen) /\ Counts(th, q, StoreOf(set), PolicyOf(set))
      <3>1. Calls(th, chosen) /\ settings' = [settings EXCEPT ![th] = {}]
        BY <2>1 DEF Loads
      <3>2. PolicyOf(set) \in {"UseCache", "ForceRefresh"} /\ {} \in SUBSET set
        BY DEF PolicyOf
      <3> HIDE DEF set
      <3>3. QED
        BY <2>1, <3>1, <3>2
    <2>2. CASE Joins(th, chosen) /\ Counts(th, q, StoreOf(set), "ForceRefresh")
      <3>1. Calls(th, chosen) /\ settings' = [settings EXCEPT ![th] = LeftByJoin(set)]
        BY <2>2 DEF Joins
      <3>2. LeftByJoin(set) \in SUBSET set
        BY DEF LeftByJoin
      <3> HIDE DEF set
      <3>3. QED
        BY <2>2, <3>1, <3>2
    <2>3. QED
      BY <2>1, <2>2 DEF CountPages
  <1>2. UNCHANGED <<ops, database, loaded, answered, owed>>
    BY DEF CountPages, queueVars, ghostVars
  <1>3. StoreOf(set) = "default" /\ \A u \in Threads : "elsewhere" \notin settings'[u]
    BY <1>1, CallAnswering
  <1>4. /\ Related[q] = {} /\ UNCHANGED cache
        /\ loading' = [loading EXCEPT ![th] =
               [kind |-> "pages", query |-> q, store |-> "default", policy |-> policy,
                left |-> Pages(Cardinality(Found(q, "default"))),
                counted |-> Reached(q, "default")]]
    BY <1>1, <1>3 DEF Counts, Does
  <1>5. PICK n \in Nat, found \in SUBSET Documents :
           /\ n = Pages(Cardinality(Found(q, "default"))) /\ found = Found(q, "default")
           /\ found # {} => n > 0
    <2>1. Found(q, "default") \in SUBSET Documents
      BY Reaches DEF IInv, TypeOK
    <2>2. QED
      BY <2>1, PageCount DEF IInv
  <1>6. Reached(q, "default") = found
    BY <1>4, <1>5 DEF Reached, Found
  <1>7. PICK load : /\ loading' = [loading EXCEPT ![th] = load]
                    /\ load.query = q /\ load.store = "default"
                    /\ load.left = n /\ load.counted = found
    <2> DEFINE entered == [kind |-> "pages", query |-> q, store |-> "default", policy |-> policy,
                           left |-> n, counted |-> found]
    <2>1. /\ entered.query = q /\ entered.store = "default"
          /\ entered.left = n /\ entered.counted = found
      OBVIOUS
    <2>2. loading' = [loading EXCEPT ![th] = entered]
      BY <1>4, <1>5, <1>6
    <2> HIDE DEF entered
    <2>3. QED
      BY <2>1, <2>2
  <1>8. Queued' = Queued
    BY <1>2 DEF Queued
  <1>9. Found(q, "default")' = found
    BY <1>2, <1>5 DEF Found
  <1>10. Covered(load)'
    BY <1>5, <1>7, <1>9 DEF Covered
  <1>11. \A u \in Threads : \/ loading'[u] = loading[u]
                            \/ loading'[u].store = "default" /\ Covered(loading[u])'
    <2> TAKE u \in Threads
    <2>1. CASE u = th
      <3>1. loading'[u] = load
        BY <1>7, <2>1 DEF IInv, TypeOK
      <3>2. QED
        BY <1>7, <1>10, <3>1 DEF Covered
    <2>2. CASE u # th
      BY <1>7, <2>2 DEF IInv, TypeOK
    <2>3. QED
      BY <2>1, <2>2
  <1>12. QED
    BY <1>2, <1>3, <1>4, <1>8, <1>11, AnswersKept DEF Answering, OneStore

LEMMA HydrateAnswering ==
    ASSUME IInv, Answering, Environment = {},
           NEW th \in Threads, NEW h \in Hydrations, Hydrate(th, h)
    PROVE  Answering'
  <1>1. /\ cache' = cache \cup {h}
        /\ answered' = answered \cup {<<h, "default">>}
        /\ owed' = owed \cup OwedByCache(h, "default")
        /\ UNCHANGED <<settings, ops, loading, database>>
        /\ \/ h \in cache /\ loaded' = loaded
           \/ loaded' = loaded \cup Reached(h, "default")
    BY MaterializedAll DEF Hydrate, queueVars, Does
  <1>2. h \in cache => OwedByCache(h, "default") = {}
    BY DEF Answering, CacheAnswered, OwedByCache
  <1>3. OwedByCache(h, "default") \subseteq loaded'
    BY <1>1, <1>2 DEF OwedByCache
  <1>4. Queued' = Queued
    BY <1>1 DEF Queued
  <1>5. QED
    BY <1>1, <1>3, <1>4, AnswersKept DEF Answering, OneStore

LEMMA LoadEndAnswering ==
    ASSUME IInv, Answering, Environment = {}, NEW th \in Threads,
           LoadReturns(th) \/ LoadFails(th) \/ PagesEnd(th)
    PROVE  Answering'
  <1>1. /\ loading[th] # NotLoading /\ loading' = [loading EXCEPT ![th] = NotLoading]
        /\ UNCHANGED <<settings, ops, database>>
        /\ answered \subseteq answered' /\ loaded \subseteq loaded'
    BY DEF LoadReturns, LoadFails, PagesEnd, Waiting, NotLoading, queueVars, ghostVars
  <1>2. loading[th].store = "default" /\ loading[th].left \in Nat
    BY <1>1 DEF Answering, OneStore, IInv, TypeOK, InLoad
  <1>3. Queued' = Queued
    BY <1>1 DEF Queued
  <1>4. \A h \in cache' \ cache : <<h, "default">> \in answered'
    BY <1>2 DEF LoadReturns, LoadFails, PagesEnd, CacheAfter, CacheAfterError
  <1>5. owed' \subseteq owed \cup loaded' \cup Queued'
    <2>1. CASE LoadReturns(th)
      BY <2>1, MaterializedAll DEF LoadReturns, Does
    <2>2. CASE LoadFails(th)
      BY <2>2 DEF LoadFails, ghostVars
    <2>3. CASE PagesEnd(th)
      <3>1. loading[th].counted \subseteq loaded \cup Queued
        BY <1>2, <2>3 DEF PagesEnd, Answering, PagesCover, Covered
      <3>2. QED
        BY <1>1, <1>3, <2>3, <3>1 DEF PagesEnd
    <2>4. QED
      BY <2>1, <2>2, <2>3
  <1>6. \A u \in Threads : \/ loading'[u] = loading[u]
                           \/ loading'[u].kind # "pages" /\ loading'[u] = NotLoading
    BY <1>1 DEF IInv, TypeOK, NotLoading
  <1>7. QED
    BY <1>1, <1>3, <1>4, <1>5, <1>6, AnswersKept DEF Answering, OneStore

LEMMA FetchAnswering ==
    ASSUME IInv, Answering, Environment = {}, NEW th \in Threads, FetchPage(th)
    PROVE  Answering'
  <1> DEFINE load == loading[th]
             rest == [load EXCEPT !.left = @ - 1]
             page == Page(load.query, load.store)
  <1>1. /\ load.kind = "pages" /\ load # NotLoading
        /\ ops' = Append(ops, [kind |-> "page", docs |-> page])
        /\ loading' = [loading EXCEPT ![th] = rest]
        /\ UNCHANGED <<settings, cache, database, loaded, answered, owed>>
    BY DEF FetchPage, ghostVars, Does, NotLoading
  <1>2. load \in InLoad /\ load.store = "default" /\ Covered(load)
    BY <1>1 DEF IInv, TypeOK, Answering, OneStore, PagesCover
  <1>3. rest.store = "default" /\ rest.counted = load.counted
    BY <1>2 DEF InLoad
  <1>4. page \in SUBSET Documents /\ page = Found(load.query, load.store)
    BY Reaches DEF Page, IInv, TypeOK
  <1> HIDE DEF load, rest, page
  <1>5. Queued' = Queued \cup page
    BY <1>1, <1>4, AppendPage DEF IInv, TypeOK
  <1>6. rest.counted \subseteq loaded \cup Queued'
    BY <1>2, <1>3, <1>4, <1>5 DEF Covered
  <1>7. \A u \in Threads : \/ loading'[u] = loading[u]
                           \/ loading'[u].store = "default" /\ Covered(loading[u])'
    <2> TAKE u \in Threads
    <2>1. CASE u = th
      <3>1. loading'[u] = rest
        BY <1>1, <2>1 DEF IInv, TypeOK
      <3>2. QED
        BY <1>1, <1>3, <1>6, <3>1 DEF Covered
    <2>2. CASE u # th
      BY <1>1, <2>2 DEF IInv, TypeOK
    <2>3. QED
      BY <2>1, <2>2
  <1>8. \A i \in 1..Len(ops') : ops'[i].kind = "scheduled" => ops'[i].store = "default"
    <2> DEFINE op == [kind |-> "page", docs |-> page]
    <2>1. op.kind # "scheduled" /\ op \in Operation
      BY <1>4 DEF Operation
    <2> HIDE DEF op
    <2>2. /\ Len(ops) \in Nat /\ Len(ops') = Len(ops) + 1 /\ ops'[Len(ops) + 1] = op
          /\ \A i \in 1..Len(ops) : ops'[i] = ops[i]
      BY <1>1, <2>1 DEF op, IInv, TypeOK
    <2>3. QED
      BY <2>1, <2>2 DEF Answering, OneStore
  <1>9. QED
    BY <1>1, <1>5, <1>7, <1>8, AnswersKept DEF Answering, OneStore

LEMMA ScheduleAnswering ==
    ASSUME IInv, Answering, Environment = {},
           NEW th \in Threads, NEW q \in Queries, NEW chosen \in SUBSET Setting,
           ScheduleLoad(th, q, chosen)
    PROVE  Answering'
  <1> DEFINE set == settings[th] \cup chosen
  <1>1. /\ Calls(th, chosen)
        /\ settings' = [settings EXCEPT ![th] = LeftBySchedule(set)]
        /\ ops' = IF q \in inFlight THEN ops
                  ELSE Append(ops, [kind |-> "scheduled", query |-> q, store |-> StoreOf(set)])
        /\ UNCHANGED <<cache, loading, database, loaded, answered, owed>>
    BY DEF ScheduleLoad, ghostVars
  <1>2. LeftBySchedule(set) \subseteq set
    BY DEF LeftBySchedule
  <1>3. StoreOf(set) = "default" /\ \A u \in Threads : "elsewhere" \notin settings'[u]
    BY <1>1, <1>2, CallAnswering
  <1> HIDE DEF set
  <1>4. CASE q \in inFlight
    <2>1. ops' = ops /\ Queued' = Queued
      BY <1>1, <1>4 DEF Queued
    <2>2. QED
      BY <1>1, <1>3, <2>1, AnswersKept DEF Answering, OneStore
  <1>5. CASE q \notin inFlight
    <2> DEFINE op == [kind |-> "scheduled", query |-> q, store |-> "default"]
    <2>1. "default" \in Stores
      BY DEF Stores
    <2>2. ops' = Append(ops, op)
      BY <1>1, <1>3, <1>5
    <2>3. Queued' = Queued
      BY <2>1, <2>2, AppendScheduled DEF IInv, TypeOK
    <2>4. op \in Operation /\ op.store = "default"
      BY <2>1 DEF Operation
    <2> HIDE DEF op
    <2>5. /\ Len(ops) \in Nat /\ Len(ops') = Len(ops) + 1 /\ ops'[Len(ops) + 1] = op
          /\ \A i \in 1..Len(ops) : ops'[i] = ops[i]
      BY <2>2, <2>4 DEF IInv, TypeOK
    <2>6. \A i \in 1..Len(ops') : ops'[i].kind = "scheduled" => ops'[i].store = "default"
      BY <2>4, <2>5 DEF Answering, OneStore
    <2>7. QED
      BY <1>1, <1>3, <2>3, <2>6, AnswersKept
  <1>6. QED
    BY <1>4, <1>5

LEMMA FrameAnswering ==
    ASSUME IInv, Answering,
           \/ EnterLoadApply \/ NextFrame \/ UNCHANGED vars
           \/ \E d \in Documents : Store(d)
    PROVE  Answering'
  <1>1. /\ UNCHANGED <<settings, cache, ops, loading, loaded, answered, owed>>
        /\ database \subseteq database'
    BY DEF EnterLoadApply, NextFrame, Store, vars, queueVars, ghostVars
  <1>2. Queued' = Queued
    BY <1>1 DEF Queued
  <1>3. QED
    BY <1>1, <1>2, AnswersKept DEF Answering, OneStore

LEMMA ApplyAnswering ==
    ASSUME IInv, Answering, Environment = {},
           ApplyPage \/ ScheduledLoadReturns \/ ScheduledLoadFails
    PROVE  Answering'
  <1>1. /\ ops # <<>> /\ ops' = Tail(ops) /\ UNCHANGED <<settings, loading, database>>
        /\ loaded \subseteq loaded' /\ answered \subseteq answered'
    BY DEF ApplyPage, ScheduledLoadReturns, ScheduledLoadFails, ghostVars
  <1>2. /\ Len(ops) \in Nat /\ Len(ops') = Len(ops) - 1 /\ Head(ops) = ops[1]
        /\ \A i \in 1..Len(ops') : ops'[i] = ops[i + 1] /\ i + 1 \in 1..Len(ops)
        /\ 1 \in 1..Len(ops)
    BY <1>1 DEF IInv, TypeOK
  <1>3. \A i \in 1..Len(ops') : ops'[i].kind = "scheduled" => ops'[i].store = "default"
    BY <1>2 DEF Answering, OneStore
  <1>4. Queued \subseteq Queued' \cup IF Head(ops).kind = "page" THEN Head(ops).docs ELSE {}
    BY <1>1, TakeFirst DEF IInv, TypeOK
  <1>5. loaded \cup Queued \subseteq loaded' \cup Queued'
    BY <1>1, <1>4, MaterializedAll DEF ApplyPage, ScheduledLoadReturns, ScheduledLoadFails
  <1>6. Head(ops).kind = "scheduled" => Head(ops).store = "default"
    BY <1>2 DEF Answering, OneStore
  <1>7. \A h \in cache' \ cache : <<h, "default">> \in answered'
    BY <1>6 DEF ApplyPage, ScheduledLoadReturns, ScheduledLoadFails, CacheAfter
  <1>8. owed' \subseteq owed \cup loaded'
    BY MaterializedAll
    DEF ApplyPage, ScheduledLoadReturns, ScheduledLoadFails, ghostVars, Does
  <1>9. QED
    BY <1>1, <1>3, <1>5, <1>7, <1>8, AnswersKept DEF Answering, OneStore

\* Whoever was answered, by a load or by the cache, finds what the query would have found
\* when it was first answered, now or once the queued pages are applied.
THEOREM AnswersLoaded ==
    ASSUME Environment = {} PROVE Spec => []AnsweredMeansLoaded
  <1>1. IInv /\ Answering /\ [Next]_vars => Answering'
    BY StepCases, CacheHitAnswering, BeginLoadAnswering, CountAnswering, HydrateAnswering,
       LoadEndAnswering, FetchAnswering, ScheduleAnswering, FrameAnswering, ApplyAnswering
  <1>2. Answering => AnsweredMeansLoaded
    BY DEF Answering
  <1>3. QED
    BY <1>1, <1>2, InitAnswering, Invariant, PTL DEF Spec

=============================================================================
