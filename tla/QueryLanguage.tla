--------------------------- MODULE QueryLanguage ---------------------------
(***************************************************************************)
(* What a query finds: the calls of PersistenceQuery (persistence_query.rs) *)
(* and the types and filter of a PersistentQuery (presence_spec.rs,         *)
(* persistence_query_system_param.rs, join.rs) become a specification; a    *)
(* backend turns it into SQL (postgres_connection.rs) or AQL                *)
(* (arango_connection.rs); the documents it selects are read whole or       *)
(* projected, and become entities (hydrate.rs).                             *)
(*                                                                         *)
(* A filter and a presence gate decide on one document at a time, so a      *)
(* behaviour is about one stored document and one query after the other.    *)
(***************************************************************************)
EXTENDS Integers, FiniteSets, FiniteSetsExt

CONSTANTS
    Components,    \* names of components
    Keys,          \* keys of documents
    FieldsOf,      \* what the field of each component may hold: a set of Json
    Filters,       \* the FilterExpressions that users write
    Alternatives,  \* of an Or in a query's type: [withs, withouts]
    MaxCalls,      \* bound: calls that make up one query
    Environment    \* what documents and queries are besides: see Habits

\* markers:      components that are null in JSON, as a unit struct is
\* nones:        fields that are null
\* compacted:    components stored in the compact envelope
\* mixed:        fields that hold a number here and a text there
\* handwritten:  comparisons by !=, which the builder of expressions has not
\* ungated:      < or <= on a component the query does not demand
\* eitherOf:     a PersistenceQuery with alternatives about different components
\* withoutAlone: a PersistenceQuery that only says what documents may not have
\* wideJoins:    joins of queries with optional components or with Or
Habits == {"markers", "nones", "compacted", "mixed", "handwritten", "ungated",
           "eitherOf", "withoutAlone", "wideJoins"}

-----------------------------------------------------------------------------
(* Documents and expressions                                               *)

Missing == <<"missing">>
Null    == <<"null">>
Text    == <<"text">>
Number(n) == <<"number", n>>

Is(json, kind) == json[1] = kind

\* A component: missing, null, or an object or envelope around its field.
Stored(c) == {Missing, Null} \cup ({"object", "envelope"} \X FieldsOf[c])

Documents == [key : Keys,
              of : {f \in [Components -> UNION {Stored(c) : c \in Components}] :
                        \A c \in Components : f[c] \in Stored(c)}]

Compare(c, op, json) == [is |-> "compare", component |-> c, op |-> op, literal |-> json]
Presence(c, op)      == [is |-> "presence", component |-> c, op |-> op]
KeyIs(op, keys)      == [is |-> "key", op |-> op, keys |-> keys]
And(l, r)            == [is |-> "and", lhs |-> l, rhs |-> r]
Or(l, r)             == [is |-> "or", lhs |-> l, rhs |-> r]

\* A conjunction or disjunction that grows; {} is None.
Joined(connective, exprs, e) ==
    IF exprs = {} THEN {e}
    ELSE {[is |-> connective, lhs |-> x, rhs |-> e] : x \in exprs}
Both(a, b) == IF a = {} \/ b = {} THEN a \cup b ELSE {And(x, y) : x \in a, y \in b}

\* The components that the fields in an expression belong to.
RECURSIVE Mentioned(_)
Mentioned(e) ==
    CASE e.is \in {"and", "or"} -> Mentioned(e.lhs) \cup Mentioned(e.rhs)
      [] e.is \in {"compare", "presence"} -> {e.component}
      [] OTHER -> {}

\* collect_presence_components: those that stand there without a field.
RECURSIVE CollectPresenceComponents(_)
CollectPresenceComponents(e) ==
    CASE e.is \in {"and", "or"} ->
            CollectPresenceComponents(e.lhs) \cup CollectPresenceComponents(e.rhs)
      [] e.is = "presence" -> {e.component}
      [] OTHER -> {}

\* The comparisons and alternatives in an expression.
RECURSIVE Parts(_)
Parts(e) == {e} \cup IF e.is \in {"and", "or"} THEN Parts(e.lhs) \cup Parts(e.rhs) ELSE {}

ASSUME QueryAssumption ==
    /\ \A c \in Components : \A v \in FieldsOf[c] : v[1] \in {"null", "text", "number"}
    /\ Alternatives \subseteq [withs : SUBSET Components, withouts : SUBSET Components]
    /\ MaxCalls \in Nat /\ Environment \subseteq Habits
    /\ \A e \in Filters : \A p \in Parts(e) :
        /\ p.is \in {"compare", "key", "and", "or"}
        /\ Mentioned(p) \subseteq Components
        /\ p.is = "compare" /\ p.op \in {"<", "<=", ">", ">="} => Is(p.literal, "number")

VARIABLES
    doc,      \* the document
    query,    \* the query so far
    calls,    \* bound: calls made for it
    meant,    \* ghost: what the calls say of the document
    outcome   \* of running the query

vars == <<doc, query, calls, meant, outcome>>

-----------------------------------------------------------------------------
(* One document                                                            *)

Field(d, c) == IF Is(d.of[c], "object") THEN d.of[c][2] ELSE Missing

\* What the component of the entity has in that field, wherever it is stored.
Held(d, c) == IF d.of[c][1] \in {"object", "envelope"} THEN d.of[c][2] ELSE Missing

Has(d)     == {c \in Components : d.of[c] # Missing}
NonNull(d) == {c \in Components : d.of[c] \notin {Missing, Null}}

Orders(op, m, n) ==
    \/ op \in {"=", "in", "<=", ">="} /\ m = n
    \/ op = "!=" /\ m # n
    \/ op \in {"<", "<="} /\ m < n
    \/ op \in {">", ">="} /\ m > n

\* What an expression says of an entity: nothing holds of a component it has not.
RECURSIVE Means(_, _)
Means(e, d) ==
    CASE e.is = "and" -> Means(e.lhs, d) /\ Means(e.rhs, d)
      [] e.is = "or" -> Means(e.lhs, d) \/ Means(e.rhs, d)
      [] e.is = "key" -> (d.key \in e.keys) = (e.op # "!=")
      [] e.is = "compare" ->
            LET held == Held(d, e.component)
            IN  /\ held # Missing
                /\ IF Is(held, "number") /\ Is(e.literal, "number")
                   THEN Orders(e.op, held[2], e.literal[2])
                   ELSE (held = e.literal) = (e.op # "!=")

-----------------------------------------------------------------------------
(* PostgreSQL: a condition is true, false or null, or the query fails.     *)

SqlBool(b) == IF b THEN "true" ELSE "false"

SqlAnd(l, r) ==
    CASE "error" \in {l, r} -> "error"
      [] "false" \in {l, r} -> "false"
      [] "null"  \in {l, r} -> "null"
      [] OTHER -> "true"

SqlOr(l, r) ==
    CASE "error" \in {l, r} -> "error"
      [] "true"  \in {l, r} -> "true"
      [] "null"  \in {l, r} -> "null"
      [] OTHER -> "false"

\* A number is compared after a cast, anything else as text, null as the text 'null'.
SqlCompare(v, op, literal) ==
    CASE v \in {Missing, Null} -> "null"
      [] ~Is(literal, "number") -> SqlBool((v = literal) = (op # "!="))
      [] Is(v, "number") -> SqlBool(Orders(op, v[2], literal[2]))
      [] OTHER -> "error"

\* translate_rec; whatever the operator, a key is compared by "=".
RECURSIVE Sql(_, _)
Sql(e, d) ==
    CASE e.is = "and" -> SqlAnd(Sql(e.lhs, d), Sql(e.rhs, d))
      [] e.is = "or"  -> SqlOr(Sql(e.lhs, d), Sql(e.rhs, d))
      [] e.is = "key" -> SqlBool(d.key \in e.keys)
      [] e.is = "presence" -> SqlBool((e.component \in Has(d)) = (e.op = "!="))
      [] OTHER -> SqlCompare(Field(d, e.component), e.op, e.literal)

-----------------------------------------------------------------------------
(* ArangoDB: values of all types are ordered, what is missing is null.     *)

AqlOrder(v) ==
    CASE v \in {Missing, Null} -> 0
      [] Is(v, "number") -> 1 + v[2]
      [] OTHER -> 1000

\* translate_filter_expression
RECURSIVE Aql(_, _)
Aql(e, d) ==
    CASE e.is = "and" -> Aql(e.lhs, d) /\ Aql(e.rhs, d)
      [] e.is = "or"  -> Aql(e.lhs, d) \/ Aql(e.rhs, d)
      [] e.is = "key" -> (d.key \in e.keys) = (e.op # "!=")
      [] e.is = "presence" -> (e.component \in NonNull(d)) = (e.op = "!=")
      [] OTHER -> Orders(e.op, AqlOrder(Field(d, e.component)), AqlOrder(e.literal))

-----------------------------------------------------------------------------
(* Specifications                                                          *)

\* Faulty: fetch_only_component is forgotten.
BuiltSpecOfWiths(q) ==
    [with |-> q.withs, without |-> q.withouts, fetch |-> q.withs,
     filter |-> q.expr, full |-> q.withs = {} /\ q.withouts = {}]

\* PersistenceQuery::build_spec
BuiltSpec(q) ==
    [with |-> q.withs, without |-> q.withouts, fetch |-> q.withs \cup q.fetch,
     filter |-> q.expr, full |-> q.withs = {} /\ q.withouts = {}]

\* Faulty: the alternatives of an Or are not fetched.
FetchNamesOfData(q) == q.fetch \cup q.withs

\* The components that a load of a PersistentQuery fetches.
FetchNames(q) ==
    q.fetch \cup q.withs \cup UNION {CollectPresenceComponents(e) : e \in q.expr}

\* PersistentQuery::load and schedule_load
LoadSpec(q) ==
    [with |-> q.withs, without |-> q.withouts, fetch |-> FetchNames(q),
     filter |-> Both(q.expr, q.filter), full |-> q.withs = {} /\ q.withouts = {}]

\* join_filtered demands all it fetches.
JoinSpec(q) ==
    [LoadSpec(q) EXCEPT !.with = @ \cup FetchNames(q), !.full = TRUE]

\* build_where
PostgresSelects(spec, d) ==
    LET filter == {Sql(e, d) : e \in spec.filter}
    IN  CASE "error" \in filter -> "failed"
          [] /\ spec.with \subseteq Has(d)
             /\ spec.without \cap Has(d) = {}
             /\ filter \subseteq {"true"} -> "loaded"
          [] OTHER -> "missed"

\* build_filter_static
ArangoSelects(spec, d) ==
    IF /\ spec.with \subseteq NonNull(d)
       /\ spec.without \cap NonNull(d) = {}
       /\ \A e \in spec.filter : Aql(e, d)
    THEN "loaded" ELSE "missed"

Selects(backend, spec, d) ==
    IF backend = "postgres" THEN PostgresSelects(spec, d) ELSE ArangoSelects(spec, d)

\* The components in what a backend returns: the document, or a projection that
\* leaves out nulls.
View(spec, d) == IF spec.full THEN Has(d) ELSE spec.fetch \cap NonNull(d)

\* hydrate_entity_document: the names given, or everything there is.
Hydrated(names, spec, d) ==
    IF names = {} THEN View(spec, d) ELSE names \cap View(spec, d)

-----------------------------------------------------------------------------
(* One query after the other                                               *)

NewQuery == [front |-> "any", withs |-> {}, withouts |-> {}, fetch |-> {},
             expr |-> {}, filter |-> {}]

\* ors: the alternatives of every Or; required: the data that is not optional;
\* filter: whether the filter holds of the document, {} without a filter.
NoMeaning == [withs |-> {}, withouts |-> {}, ors |-> {}, required |-> {},
              asked |-> {}, filter |-> {}]

NotRun == [how |-> "not run", join |-> FALSE, has |-> {}]

OrdinaryDocument(d) ==
    \A c \in Components :
        /\ d.of[c] = Null => "markers" \in Environment
        /\ Is(d.of[c], "envelope") => "compacted" \in Environment
        /\ Held(d, c) = Null => "nones" \in Environment
        /\ Held(d, c) = Text /\ (\E v \in FieldsOf[c] : Is(v, "number"))
              => "mixed" \in Environment

Init ==
    /\ doc \in {d \in Documents : OrdinaryDocument(d)}
    /\ query = NewQuery
    /\ calls = 0
    /\ meant = NoMeaning
    /\ outcome = NotRun

Call(front) ==
    /\ outcome = NotRun
    /\ query.front \in {"any", front}
    /\ calls < MaxCalls
    /\ calls' = calls + 1
    /\ UNCHANGED <<doc, outcome>>

Says(e) == Means(e, doc)

(* PersistenceQuery *)

With(c) ==
    /\ Call("builder")
    /\ query' = [query EXCEPT !.front = "builder", !.withs = @ \cup {c}]
    /\ meant' = [meant EXCEPT !.withs = @ \cup {c}, !.asked = @ \cup {c}]

Without(c) ==
    /\ Call("builder")
    /\ query' = [query EXCEPT !.front = "builder", !.withouts = @ \cup {c}]
    /\ meant' = [meant EXCEPT !.withouts = @ \cup {c}]

FetchOnlyComponent(c) ==
    /\ Call("builder")
    /\ query' = [query EXCEPT !.front = "builder", !.fetch = @ \cup {c}]
    /\ meant' = [meant EXCEPT !.asked = @ \cup {c}]

\* Sets the filter, and demands the components in it from now on.
Filter(e) ==
    /\ Call("builder")
    /\ query' = [query EXCEPT !.front = "builder", !.expr = {e}, !.withs = @ \cup Mentioned(e)]
    /\ meant' = [meant EXCEPT !.filter = {Says(e)}]

OrFilter(e) ==
    /\ Call("builder")
    /\ query' = [query EXCEPT !.front = "builder", !.expr = Joined("or", @, e)]
    /\ meant' = [meant EXCEPT !.filter = {Says(e) \/ TRUE \in @}]

ByGuids(keys) ==
    /\ Call("builder")
    /\ query' = [query EXCEPT !.front = "builder", !.expr = Joined("and", @, KeyIs("in", keys))]
    /\ meant' = [meant EXCEPT !.filter = {doc.key \in keys /\ FALSE \notin @}]

(* The types and the filter of PersistentQuery *)

\* &T, &mut T, or an Option of them
Data(c, optional) ==
    /\ Call("typed")
    /\ query' = [query EXCEPT !.front = "typed", !.fetch = @ \cup {c}]
    /\ meant' = [meant EXCEPT !.asked = @ \cup {c},
                              !.required = IF optional THEN @ ELSE @ \cup {c}]

TypeWith(c) ==
    /\ Call("typed")
    /\ query' = [query EXCEPT !.front = "typed", !.withs = @ \cup {c}]
    /\ meant' = [meant EXCEPT !.withs = @ \cup {c}]

TypeWithout(c) ==
    /\ Call("typed")
    /\ query' = [query EXCEPT !.front = "typed", !.withouts = @ \cup {c}]
    /\ meant' = [meant EXCEPT !.withouts = @ \cup {c}]

Extend(exprs, e) == Joined("and", exprs, e)

\* PresenceSpec::to_expr
ToExpr(alternative) ==
    LET withs == FoldSet(LAMBDA c, es : Extend(es, Presence(c, "!=")), {}, alternative.withs)
    IN  FoldSet(LAMBDA c, es : Extend(es, Presence(c, "=")), withs, alternative.withouts)

\* Faulty: the alternatives are joined by and.
OrOfAll(alternatives) ==
    FoldSet(LAMBDA a, es : UNION {Extend(es, e) : e \in ToExpr(a)}, {}, alternatives)

\* The expression of an Or, each alternative a conjunction.
OrOf(alternatives) ==
    FoldSet(LAMBDA a, es : UNION {Joined("or", es, e) : e \in ToExpr(a)}, {}, alternatives)

TypeOr(alternatives) ==
    /\ Call("typed")
    /\ query' = [query EXCEPT !.front = "typed", !.expr = Both(@, OrOf(alternatives))]
    /\ meant' = [meant EXCEPT !.ors = @ \cup {alternatives}]

Where(e) ==
    /\ Call("typed")
    /\ query' = [query EXCEPT !.front = "typed", !.filter = {e}]
    /\ meant' = [meant EXCEPT !.filter = {Says(e)}]

-----------------------------------------------------------------------------
(* Running a query                                                         *)

\* The components without which an expression cannot hold.
RECURSIVE Implied(_)
Implied(e) ==
    CASE e.is = "and" -> Implied(e.lhs) \cup Implied(e.rhs)
      [] e.is = "or"  -> Implied(e.lhs) \cap Implied(e.rhs)
      [] OTHER -> Mentioned(e)

AllParts(spec) == UNION {Parts(e) : e \in spec.filter}

Comparisons(spec) == {p \in AllParts(spec) : p.is \in {"compare", "key"}}

\* What is unusual about running the query with this specification.
HabitsOf(spec, join) ==
    {h \in Habits :
        \/ h = "handwritten" /\ \E p \in Comparisons(spec) : p.op = "!="
        \/ h = "nones" /\ \E p \in Comparisons(spec) : p.is = "compare" /\ p.literal = Null
        \/ h = "ungated" /\ \E p \in Comparisons(spec) :
                                p.op \in {"<", "<="} /\ p.component \notin spec.with
        \/ h = "eitherOf" /\ query.front = "builder"
                          /\ ~(query.withs \ meant.withs \subseteq UNION {Implied(e) : e \in query.expr})
        \/ h = "withoutAlone" /\ query.front = "builder" /\ spec.without # {} /\ spec.fetch = {}
        \/ h = "wideJoins" /\ join /\ (meant.ors # {} \/ meant.required # meant.asked)}

Run(spec, names, join) ==
    /\ outcome = NotRun
    /\ HabitsOf(spec, join) \subseteq Environment
    /\ \E backend \in {"postgres", "arango"} :
        LET how == Selects(backend, spec, doc)
        IN  outcome' = [how |-> how, join |-> join,
                        has |-> IF how = "loaded" THEN Hydrated(names, spec, doc) ELSE {}]
    /\ UNCHANGED <<doc, query, calls, meant>>

\* fetch_into
FetchInto ==
    /\ query.front # "typed"
    /\ LET spec == BuiltSpec(query) IN Run(spec, spec.fetch, FALSE)

\* Whether the names that are fetched are hydrated, or everything there is.
NamesOf(spec) == IF spec.with = {} /\ spec.without = {} THEN {} ELSE spec.fetch

Load ==
    /\ query.front # "builder"
    /\ LET spec == LoadSpec(query) IN Run(spec, NamesOf(spec), FALSE)

JoinFiltered ==
    /\ query.front # "builder"
    /\ LET spec == JoinSpec(query) IN Run(spec, NamesOf(spec), TRUE)

\* The query has been run, or is dropped.
AnotherQuery ==
    /\ calls > 0 \/ outcome # NotRun
    /\ query' = NewQuery
    /\ calls' = 0
    /\ meant' = NoMeaning
    /\ outcome' = NotRun
    /\ UNCHANGED doc

Next ==
    \/ \E c \in Components : With(c) \/ Without(c) \/ FetchOnlyComponent(c)
    \/ \E c \in Components : TypeWith(c) \/ TypeWithout(c)
    \/ \E c \in Components, optional \in BOOLEAN : Data(c, optional)
    \/ \E e \in Filters : Filter(e) \/ OrFilter(e) \/ Where(e)
    \/ \E keys \in SUBSET Keys : ByGuids(keys)
    \/ \E alternatives \in kSubset(2, Alternatives) : TypeOr(alternatives)
    \/ FetchInto
    \/ Load
    \/ JoinFiltered
    \/ AnotherQuery

Spec == Init /\ [][Next]_vars

-----------------------------------------------------------------------------
(* Properties                                                              *)

TypeOK ==
    /\ doc \in Documents
    /\ query.front \in {"any", "builder", "typed"}
    /\ query.withs \cup query.withouts \cup query.fetch \subseteq Components
    /\ \A e \in query.expr \cup query.filter : Mentioned(e) \subseteq Components
    /\ Cardinality(query.expr) <= 1 /\ Cardinality(query.filter) <= 1
    /\ calls \in 0..MaxCalls
    /\ meant.filter \subseteq BOOLEAN /\ Cardinality(meant.filter) <= 1
    /\ outcome.how \in {"not run", "loaded", "missed", "failed"}
    /\ outcome.has \subseteq (IF outcome.how = "loaded" THEN Has(doc) ELSE {})

\* An entity with these components satisfies With, Without and Or, as Bevy has them.
Satisfies(components) ==
    /\ meant.withs \subseteq components
    /\ meant.withouts \cap components = {}
    /\ \A alternatives \in meant.ors : \E a \in alternatives :
        a.withs \subseteq components /\ a.withouts \cap components = {}

\* Both databases select exactly the documents that the calls and types ask for.
FindsWhatIsMeant ==
    outcome.how # "not run" =>
        ((outcome.how = "loaded") <=>
            /\ Satisfies(Has(doc))
            /\ FALSE \notin meant.filter
            /\ outcome.join => meant.required \subseteq Has(doc))

\* Bevy's own query then sees the loaded entity: a projection has left out nothing that
\* its types look at.
LoadedStillMatches ==
    outcome.how = "loaded" /\ query.front # "builder" =>
        /\ Satisfies(outcome.has)
        /\ meant.required \cap Has(doc) \subseteq outcome.has

\* What was asked for is loaded; whoever asks for no component gets all there are
\* (persistence_query.rs:243-244).
AskedIsLoaded ==
    outcome.how = "loaded" =>
        /\ meant.asked \cap Has(doc) \subseteq outcome.has
        /\ query.front # "typed" /\ query.withs \cup query.fetch = {} => outcome.has = Has(doc)

=============================================================================
