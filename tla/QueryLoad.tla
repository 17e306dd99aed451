----------------------------- MODULE QueryLoad -----------------------------
(***************************************************************************)
(* How queries bring documents into the world: load, paginated_load and    *)
(* join_filtered (loader.rs, join.rs), schedule_load                       *)
(* (persistence_query_system_param.rs) with its in-flight set, the queue   *)
(* of deferred operations applied at LoadApply, the relationship hydrator  *)
(* (hydrator.rs), the cache of query hashes they share, and the            *)
(* thread-local settings a call is configured by (query_thread_local.rs).  *)
(*                                                                         *)
(* A query stands for all that is hashed: its types, presence filters,     *)
(* value filter and relationship depths.  Of a document only its presence  *)
(* in the database and in the world is modelled: what a load does to an    *)
(* entity is EntitySession's.                                              *)
(***************************************************************************)
EXTENDS Naturals, Sequences, FiniteSets, FiniteSetsExt, SequencesExt

CONSTANTS
    Threads,      \* that run systems, each with its thread-local settings
    Queries,      \* entity queries, by their hash
    Hydrations,   \* relationship loads of the hydrator, by their hash
    Documents,
    Home,         \* the store of each document
    Matches,      \* the documents each query or hydration asks for
    Related,      \* those its relationship depths reach from them
    PageSize,     \* of every paginated_load
    Environment,  \* what happens besides: see Habits
    MaxCalls,     \* bound: calls of systems
    MaxFailures   \* bound: database calls that fail

\* twoStores:      a query is put to a second store as well
\* pageFails:      the count or a page of a paginated load fails
\* relationsFail:  a query for edges, or for a target of one, fails
\* pagedRelations: a query with relationship depths is loaded in pages
\* undecodable:    the database holds documents with a component that does not decode
Habits == {"twoStores", "pageFails", "relationsFail", "pagedRelations", "undecodable"}

Stores == {"default", "elsewhere"}

Hash == Queries \cup Hydrations

ASSUME QueryAssumption ==
    /\ Queries \cap Hydrations = {}
    /\ IsFiniteSet(Documents)
    /\ Home \in [Documents -> Stores]
    /\ Matches \in [Hash -> SUBSET Documents]
    /\ Related \in [Hash -> SUBSET Documents]
    /\ PageSize \in Nat \ {0}
    /\ Environment \subseteq Habits
    /\ MaxCalls \in Nat /\ MaxFailures \in Nat

VARIABLES
    settings,  \* thread-locals left set: the policy, the page size, the store
    cache,     \* PersistenceQueryCache
    inFlight,  \* InFlightQueries
    ops,       \* DeferredWorldOperations, or what is left of it at LoadApply
    loading,   \* the load each thread is waiting in, if any
    phase,     \* where in the frame the application is
    database,  \* documents stored
    loaded,    \* documents materialized in the world
    answered,  \* ghost: queries and stores that a call has been answered for
    owed,      \* ghost: documents the callers may count on
    runs,      \* ghost: times a scheduled load of a query has been run
    calls,     \* calls of systems so far
    failures   \* database calls that have failed so far

queueVars == <<inFlight, ops>>
ghostVars == <<answered, owed, runs>>

vars == <<settings, cache, queueVars, loading, phase, database, loaded, ghostVars,
          calls, failures>>

-----------------------------------------------------------------------------
\* "refresh": CachePolicy::ForceRefresh.  "paged": a page size.  "elsewhere": a store
\* other than the configured default.
Setting == {"refresh", "paged", "elsewhere"}

\* A deferred operation: a scheduled load, or a page of documents to materialize.
Operation == [kind : {"scheduled"}, query : Queries, store : Stores]
                \cup [kind : {"page"}, docs : SUBSET Documents]

\* A load between its look at the cache, or its last page, and the next answer of the
\* database.
InLoad == [kind : {"whole", "pages"}, query : Queries, store : Stores,
           policy : {"UseCache", "ForceRefresh"}, left : Nat, counted : SUBSET Documents]

NotLoading == [kind |-> "none"]

TypeOK ==
    /\ settings \in [Threads -> SUBSET Setting]
    /\ cache \subseteq Hash
    /\ inFlight \subseteq Queries
    /\ ops \in Seq(Operation)
    /\ loading \in [Threads -> InLoad \cup {NotLoading}]
    /\ phase \in {"Update", "LoadApply"}
    /\ database \subseteq Documents
    /\ loaded \subseteq database
    /\ answered \subseteq Hash \X Stores
    /\ owed \subseteq database
    /\ runs \in [Queries -> 0..2]
    /\ calls \in 0..MaxCalls
    /\ failures \in 0..MaxFailures

Does(habit) == habit \in Environment

Init ==
    /\ settings = [th \in Threads |-> {}]
    /\ cache = {}
    /\ inFlight = {} /\ ops = <<>>
    /\ loading = [th \in Threads |-> NotLoading]
    /\ phase = "Update"
    /\ database \in SUBSET Documents
    /\ loaded = {}
    /\ answered = {} /\ owed = {}
    /\ runs = [q \in Queries |-> 0]
    /\ calls = 0 /\ failures = 0

-----------------------------------------------------------------------------
(* What a query finds, and what a call takes of the settings               *)

\* The documents execute_documents returns.
Found(q, store) == {d \in database \cap Matches[q] : Home[d] = store}

\* ... and those load_relationships_for_keys fetches for the edges from them.
Reached(q, store) ==
    {d \in database : /\ d \in Matches[q] \/ (d \in Related[q] /\ Found(q, store) # {})
                      /\ Home[d] = store}

StoreOf(set) == IF "elsewhere" \in set THEN "elsewhere" ELSE "default"

PolicyOf(set) == IF "refresh" \in set THEN "ForceRefresh" ELSE "UseCache"

\* What load leaves set: on a cache hit nobody takes the page size.
LeftByCacheHit(set) == set \cap {"paged"}

\* schedule_load takes the filter, the store and the depths, and nothing else.
LeftBySchedule(set) == set \ {"elsewhere"}

\* join_filtered forces a refresh of its own and leaves a policy that was set.  (It
\* leaves the with() and without() components as well: they make another of Queries of
\* what the thread's next load asks for, and any of them may be that.)
LeftByJoin(set) == set \cap {"refresh"}

\* Faulty: the condition is the wrong way round.
CacheRefreshed(q, policy) == IF policy = "ForceRefresh" THEN cache \cup {q} ELSE cache

\* The cache after a load that has come to its end.
CacheAfter(q, policy) == IF policy = "ForceRefresh" THEN cache ELSE cache \cup {q}

\* What becomes of documents that are fetched: apply_one_document logs one that does not
\* decode, and its caller goes on with the others.
Materialized(docs) == IF Does("undecodable") THEN SUBSET docs ELSE {docs}

\* A cached query is answered without a look at the store that is asked.
OwedByCache(q, store) == IF <<q, store>> \in answered THEN {} ELSE Reached(q, store)

\* A system on thread th makes a call, with settings chosen on the way to it.
Calls(th, chosen) ==
    /\ phase = "Update"
    /\ loading[th] = NotLoading
    /\ calls < MaxCalls
    /\ calls' = calls + 1
    /\ "elsewhere" \in chosen => Does("twoStores")

Fail ==
    /\ failures < MaxFailures
    /\ failures' = failures + 1

-----------------------------------------------------------------------------
(* load, paginated_load and join_filtered                                  *)

LoadHitsCache(th, q, chosen) ==
    LET set == settings[th] \cup chosen IN
    /\ Calls(th, chosen)
    /\ PolicyOf(set) = "UseCache"
    /\ q \in cache
    /\ settings' = [settings EXCEPT ![th] = LeftByCacheHit(set)]
    /\ answered' = answered \cup {<<q, StoreOf(set)>>}
    /\ owed' = owed \cup OwedByCache(q, StoreOf(set))
    /\ UNCHANGED <<cache, queueVars, loading, phase, database, loaded, runs, failures>>

\* The cache is looked at and the settings are taken; then the call waits in block_on.
Loads(th, q, chosen) ==
    LET set == settings[th] \cup chosen IN
    /\ Calls(th, chosen)
    /\ PolicyOf(set) = "ForceRefresh" \/ q \notin cache
    /\ settings' = [settings EXCEPT ![th] = {}]

\* The join is put to the database whatever the cache holds, and never cached.
Joins(th, chosen) ==
    /\ Calls(th, chosen)
    /\ settings' = [settings EXCEPT ![th] = LeftByJoin(@ \cup chosen)]

Waits(th, q, store, policy) ==
    loading' = [loading EXCEPT ![th] =
        [kind |-> "whole", query |-> q, store |-> store, policy |-> policy,
         left |-> 0, counted |-> {}]]

BeginLoad(th, q, chosen) ==
    LET set == settings[th] \cup chosen IN
    /\ "paged" \notin set
    /\ \/ Loads(th, q, chosen) /\ Waits(th, q, StoreOf(set), PolicyOf(set))
       \/ Joins(th, chosen) /\ Waits(th, q, StoreOf(set), "ForceRefresh")
    /\ UNCHANGED <<cache, queueVars, phase, database, loaded, ghostVars, failures>>

Waiting(th) ==
    /\ loading[th].kind = "whole"
    /\ loading' = [loading EXCEPT ![th] = NotLoading]

\* The documents, and those at the end of their edges, are materialized at once through
\* the world pointer.  What fails after the first query is logged or swallowed.
LoadReturns(th) ==
    LET load == loading[th] IN
    /\ Waiting(th)
    /\ \E docs \in SUBSET database :
          /\ \/ docs = Reached(load.query, load.store) /\ UNCHANGED failures
             \/ Does("relationsFail") /\ Fail /\ docs = Found(load.query, load.store)
          /\ \E some \in Materialized(docs) : loaded' = loaded \cup some
    /\ cache' = CacheAfter(load.query, load.policy)
    /\ answered' = answered \cup {<<load.query, load.store>>}
    /\ owed' = owed \cup Reached(load.query, load.store)
    /\ UNCHANGED <<settings, queueVars, phase, database, runs, calls>>

\* Faulty: the error is logged and the hash is cached all the same.
CachedOnError(q, policy) == CacheAfter(q, policy)

CacheAfterError(q, policy) == cache

LoadFails(th) ==
    /\ Waiting(th)
    /\ Fail
    /\ cache' = CacheAfterError(loading[th].query, loading[th].policy)
    /\ UNCHANGED <<settings, queueVars, phase, database, loaded, ghostVars, calls>>

-----------------------------------------------------------------------------
(* Pages                                                                   *)

Pages(total) == (total + PageSize - 1) \div PageSize

\* process_paginated_load counts first.  A policy or page size left over from an earlier
\* call on the thread counts like one of this call.
Counts(th, q, store, policy) ==
    /\ Related[q] # {} => Does("pagedRelations")
    /\ \/ /\ loading' = [loading EXCEPT ![th] =
                [kind |-> "pages", query |-> q, store |-> store, policy |-> policy,
                 left |-> Pages(Cardinality(Found(q, store))),
                 counted |-> Reached(q, store)]]
          /\ UNCHANGED <<cache, failures>>
       \/ /\ Does("pageFails") /\ Fail
          /\ cache' = CacheAfter(q, policy)
          /\ UNCHANGED loading

CountPages(th, q, chosen) ==
    LET set == settings[th] \cup chosen IN
    /\ "paged" \in set
    /\ \/ Loads(th, q, chosen) /\ Counts(th, q, StoreOf(set), PolicyOf(set))
       \/ /\ "paged" \in settings[th] \ chosen
          /\ Joins(th, chosen)
          /\ Counts(th, q, StoreOf(set), "ForceRefresh")
    /\ UNCHANGED <<queueVars, phase, database, loaded, ghostVars>>

\* What the connections return for one page: they do not read spec.pagination.
Page(q, store) == Found(q, store)

\* One page more: its documents are queued, to be materialized at LoadApply.
FetchPage(th) ==
    LET load == loading[th] IN
    /\ load.kind = "pages" /\ load.left > 0
    /\ \/ /\ ops' = Append(ops, [kind |-> "page", docs |-> Page(load.query, load.store)])
          /\ loading' = [loading EXCEPT ![th].left = @ - 1]
          /\ UNCHANGED <<cache, failures>>
       \/ /\ Does("pageFails") /\ Fail
          /\ loading' = [loading EXCEPT ![th] = NotLoading]
          /\ cache' = CacheAfter(load.query, load.policy)
          /\ UNCHANGED ops
    /\ UNCHANGED <<settings, inFlight, phase, database, loaded, ghostVars, calls>>

PagesEnd(th) ==
    LET load == loading[th] IN
    /\ load.kind = "pages" /\ load.left = 0
    /\ loading' = [loading EXCEPT ![th] = NotLoading]
    /\ cache' = CacheAfter(load.query, load.policy)
    /\ answered' = answered \cup {<<load.query, load.store>>}
    /\ owed' = owed \cup load.counted
    /\ UNCHANGED <<settings, queueVars, phase, database, loaded, runs, calls, failures>>

-----------------------------------------------------------------------------
(* schedule_load and the deferred operations                               *)

ScheduleHitsCache(th, q, chosen) ==
    LET set == settings[th] \cup chosen IN
    /\ Calls(th, chosen)
    /\ q \in cache
    /\ settings' = [settings EXCEPT ![th] = LeftBySchedule(set)]
    /\ answered' = answered \cup {<<q, StoreOf(set)>>}
    /\ owed' = owed \cup OwedByCache(q, StoreOf(set))
    /\ UNCHANGED <<cache, queueVars, loading, phase, database, loaded, runs, failures>>

\* insert_if_absent: only the call that puts the hash in queues an operation.
ScheduleLoad(th, q, chosen) ==
    LET set == settings[th] \cup chosen IN
    /\ Calls(th, chosen)
    /\ q \notin cache
    /\ settings' = [settings EXCEPT ![th] = LeftBySchedule(set)]
    /\ inFlight' = inFlight \cup {q}
    /\ ops' = IF q \in inFlight THEN ops
              ELSE Append(ops, [kind |-> "scheduled", query |-> q, store |-> StoreOf(set)])
    /\ UNCHANGED <<cache, loading, phase, database, loaded, ghostVars, failures>>

\* PostUpdate: all systems of Update have returned, and the queue is drained.
EnterLoadApply ==
    /\ phase = "Update"
    /\ \A th \in Threads : loading[th] = NotLoading
    /\ ops # <<>>
    /\ phase' = "LoadApply"
    /\ UNCHANGED <<settings, cache, queueVars, loading, database, loaded, ghostVars, calls,
                   failures>>

ApplyPage ==
    /\ phase = "LoadApply"
    /\ ops # <<>> /\ Head(ops).kind = "page"
    /\ \E some \in Materialized(Head(ops).docs) : loaded' = loaded \cup some
    /\ ops' = Tail(ops)
    /\ UNCHANGED <<settings, cache, inFlight, loading, phase, database, ghostVars, calls,
                   failures>>

ScheduledLoadReturns ==
    /\ phase = "LoadApply"
    /\ ops # <<>> /\ Head(ops).kind = "scheduled"
    /\ LET q == Head(ops).query
           store == Head(ops).store IN
       /\ \E docs \in SUBSET database :
             /\ \/ docs = Reached(q, store) /\ UNCHANGED failures
                \/ Does("relationsFail") /\ Fail /\ docs = Found(q, store)
             /\ \E some \in Materialized(docs) : loaded' = loaded \cup some
       /\ cache' = CacheAfter(q, "UseCache")
       /\ inFlight' = inFlight \ {q}
       /\ answered' = answered \cup {<<q, store>>}
       /\ owed' = owed \cup Reached(q, store)
       /\ runs' = [runs EXCEPT ![q] = @ + 1]
    /\ ops' = Tail(ops)
    /\ UNCHANGED <<settings, loading, phase, database, calls>>

\* Faulty: the error returns early.
InFlightKept(q) == inFlight

InFlightAfterError(q) == inFlight \ {q}

ScheduledLoadFails ==
    /\ phase = "LoadApply"
    /\ ops # <<>> /\ Head(ops).kind = "scheduled"
    /\ Fail
    /\ inFlight' = InFlightAfterError(Head(ops).query)
    /\ ops' = Tail(ops)
    /\ UNCHANGED <<settings, cache, loading, phase, database, loaded, ghostVars, calls>>

NextFrame ==
    /\ phase = "LoadApply"
    /\ ops = <<>>
    /\ phase' = "Update"
    /\ UNCHANGED <<settings, cache, queueVars, loading, database, loaded, ghostVars, calls,
                   failures>>

-----------------------------------------------------------------------------
(* PersistenceRelationshipHydrator                                         *)

\* build_spec caches the hash, then run_spec asks for the edges and fetches the targets
\* that are not in the world; its errors are dropped.
Hydrate(th, h) ==
    /\ Calls(th, {})
    /\ \/ h \in cache /\ UNCHANGED <<loaded, failures>>
       \/ /\ h \notin cache
          /\ \E some \in Materialized(Reached(h, "default")) : loaded' = loaded \cup some
          /\ UNCHANGED failures
       \/ /\ h \notin cache
          /\ Does("relationsFail") /\ Fail
          /\ \E some \in SUBSET Reached(h, "default") : loaded' = loaded \cup some
    /\ cache' = cache \cup {h}
    /\ answered' = answered \cup {<<h, "default">>}
    /\ owed' = owed \cup OwedByCache(h, "default")
    /\ UNCHANGED <<settings, queueVars, loading, phase, database, runs>>

\* Another writer, or a commit of this session, stores a document.
Store(d) ==
    /\ d \notin database
    /\ database' = database \cup {d}
    /\ UNCHANGED <<settings, cache, queueVars, loading, phase, loaded, ghostVars, calls,
                   failures>>

-----------------------------------------------------------------------------
Call(th) ==
    \/ \E q \in Queries, chosen \in SUBSET Setting :
          \/ LoadHitsCache(th, q, chosen)
          \/ BeginLoad(th, q, chosen)
          \/ CountPages(th, q, chosen)
    \/ \E q \in Queries, chosen \in SUBSET {"refresh", "elsewhere"} :
          \/ ScheduleHitsCache(th, q, chosen)
          \/ ScheduleLoad(th, q, chosen)
    \/ \E h \in Hydrations : Hydrate(th, h)

\* The database answers the call a thread waits for.
LoadStep(th) == LoadReturns(th) \/ LoadFails(th) \/ FetchPage(th) \/ PagesEnd(th)

LoadApply == EnterLoadApply \/ ApplyPage \/ ScheduledLoadReturns \/ ScheduledLoadFails
                \/ NextFrame

Next ==
    \/ \E th \in Threads : Call(th) \/ LoadStep(th)
    \/ LoadApply
    \/ \E d \in Documents : Store(d)

Spec == Init /\ [][Next]_vars

\* Frames go on, and a database call returns or fails.
FairSpec ==
    /\ Spec
    /\ WF_vars(LoadApply)
    /\ \A th \in Threads : WF_vars(LoadStep(th))

-----------------------------------------------------------------------------
(* Properties                                                              *)

Queued == UNION {ops[i].docs : i \in {j \in 1..Len(ops) : ops[j].kind = "page"}}

\* Whoever was answered, by a load or by the cache, finds in the world what the query
\* would have found when it was first answered: now, or once the pages that are queued
\* are applied.  ("Cache the query hash if successful", loader.rs:346.)
AnsweredMeansLoaded == owed \subseteq loaded \cup Queued

\* The in-flight set holds exactly the loads that are queued, and each is queued once:
\* a hash that stayed would silence its query for ever, one that left early would load
\* twice (in_flight_queries.rs).
InFlightIsQueued ==
    \A q \in Queries :
        Cardinality({i \in 1..Len(ops) : ops[i].kind = "scheduled" /\ ops[i].query = q})
            = IF q \in inFlight THEN 1 ELSE 0

\* A query is run at most once by schedule_load, however many systems schedule it, in
\* the same frame or later, and whatever loads of it go on beside.  (A load can repeat
\* what another thread is loading: both look at the cache before either has filled it.)
ScheduledOnce == \A q \in Queries : runs[q] <= 1

\* A scheduled load is not left in flight: a later frame runs it, and its query can be
\* scheduled again if it failed.
ScheduledLoadsEnd == \A q \in Queries : q \in inFlight ~> q \notin inFlight

=============================================================================
