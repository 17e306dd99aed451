---------------------------- MODULE StoredValues ----------------------------
(***************************************************************************)
(* What becomes of a value on its way into a document and back: plain JSON *)
(* or the compact envelope (compact.rs), the serializers and deserializers *)
(* of registered types (registries.rs), the document a commit makes of     *)
(* them (prepare_commit.rs), the merge by which a database applies an      *)
(* update (postgres_connection.rs, arango_connection.rs), and the reads,   *)
(* whole or projected on single components.                                *)
(*                                                                         *)
(* The items are the components of one entity, stored under their names in *)
(* its document, or resources, each stored as a document of its own.  The  *)
(* marks, versions and transactions are those of EntitySession and         *)
(* PersistentResources; here a commit writes what is dirty.                *)
(***************************************************************************)
EXTENDS FiniteSets, Functions

CONSTANTS
    Items,        \* the components of the entity, or the resources
    Names,        \* names of struct fields, map entries, enum variants
    Optional,     \* the struct fields that are Options
    KeyField,     \* the field named like the key column of the document
    Atoms,        \* what is stored under a name
    Null, Large,  \* atoms: JSON null, and one above the compact threshold
    TypesOf,      \* the types an item may have
    Kinds,        \* "component", "resource"
    Backends,     \* "postgres", "arango"
    Environment   \* what types and values are used besides: see Habits

\* shrinks:       a value stored compact becomes one that is stored plain,
\*                in a document that is merged
\* reshapes:      a value loses entries, or changes its variant, in such a document
\* nulls:         values that are null in JSON, other than optional struct fields
\* openResources: resources that are not structs
\* keyedFields:   a struct has a field named like the key column of PostgreSQL
\* removes:       a component is removed from an entity that lives on
Habits == {"shrinks", "reshapes", "nulls", "openResources", "keyedFields", "removes"}

Types == {"struct", "map", "enum", "newtype", "unit"}

ASSUME ValuesAssumption ==
    /\ Optional \subseteq Names /\ KeyField \in Names \ Optional /\ Names # {KeyField}
    /\ {Null, Large} \subseteq Atoms /\ Null # Large
    /\ TypesOf \in [Items -> SUBSET Types]
    /\ Kinds \subseteq {"component", "resource"}
    /\ Backends \subseteq {"postgres", "arango"}
    /\ Environment \subseteq Habits

VARIABLES
    type,        \* the type of each item
    kind,        \* whether they are components or resources
    backend,     \* the database
    compacting,  \* compact_threshold_bytes is below the size of a large value
    world,       \* each item in the world; {} for none
    dirty,       \* items marked as changed
    live,        \* the document is loaded or being made
    stored,      \* the JSON of each item in the database; {} for none
    committed    \* ghost: each item as it was when last committed

fixed == <<type, kind, backend>>

vars == <<fixed, compacting, world, dirty, live, stored, committed>>

Does(habit) == habit \in Environment

-----------------------------------------------------------------------------
(* Values and their JSON.  A newtype's content is kept under a name too.   *)

Maps(names, atoms) == UNION {[S -> atoms] : S \in SUBSET names}

Value == [form : {"null", "scalar", "object"}, fields : Maps(Names, Atoms)]

\* payload: the value in the "encoding" and "payload" entries, if it has them.
Json == [form : {"null", "scalar", "object", "array"}, fields : Maps(Names, Atoms),
         payload : {{}} \cup {{v} : v \in Value}]

Empty == [n \in {} |-> Null]

Content == CHOOSE n \in Names : n # KeyField

FieldNames ==
    IF Does("keyedFields") /\ backend = "postgres" THEN Names ELSE Names \ {KeyField}

\* The values of a Rust type.
ValuesOf(t) ==
    LET objects(fs) == {[form |-> "object", fields |-> f] : f \in fs}
    IN CASE t = "struct"  -> objects({f \in [FieldNames -> Atoms] :
                                 \A n \in FieldNames \ Optional : f[n] # Null})
         [] t = "map"     -> objects(Maps(Names \ {KeyField}, Atoms))
         [] t = "enum"    -> objects({f \in Maps(Names \ {KeyField}, Atoms) :
                                 Cardinality(DOMAIN f) = 1})
         [] t = "newtype" -> {[form |-> "scalar", fields |-> [n \in {Content} |-> a]]
                                 : a \in Atoms}
         [] t = "unit"    -> {[form |-> "null", fields |-> Empty]}

HasNull(v) == Null \in Range(v.fields)

NullJson == [form |-> "null", fields |-> Empty, payload |-> {}]

\* serde_json::to_value
Plain(v) ==
    IF v.form = "scalar" /\ HasNull(v) THEN NullJson
    ELSE [form |-> v.form, fields |-> v.fields, payload |-> {}]

Compacted(v) == compacting /\ Large \in Range(v.fields)

\* to_persist_value
Encoded(v) ==
    IF Compacted(v) THEN [form |-> "object", fields |-> Empty, payload |-> {v}]
    ELSE Plain(v)

\* serde_json::from_value, {} on an error.  A struct ignores other entries and takes a
\* missing Option for None; a map or an enum meets the metadata of a resource.
DecodedPlain(t, j) ==
    CASE t = "struct" ->
            IF j.form = "object" /\ FieldNames \ Optional \subseteq DOMAIN j.fields
            THEN {[form |-> "object",
                   fields |-> [n \in FieldNames |-> IF n \in DOMAIN j.fields
                                                    THEN j.fields[n] ELSE Null]]}
            ELSE {}
      [] t \in {"map", "enum"} ->
            IF /\ j.form = "object" /\ kind = "component"
               /\ t = "enum" => Cardinality(DOMAIN j.fields) = 1
            THEN {[form |-> "object", fields |-> j.fields]} ELSE {}
      [] t \in {"newtype", "unit"} ->
            {v \in ValuesOf(t) : Plain(v) = j}

\* from_persist_value
Decoded(t, j) == IF j.payload # {} THEN j.payload ELSE DecodedPlain(t, j)

-----------------------------------------------------------------------------
(* The session                                                             *)

TypeOK ==
    /\ type \in [Items -> Types] /\ kind \in Kinds /\ backend \in Backends
    /\ compacting \in BOOLEAN /\ live \in BOOLEAN
    /\ dirty \subseteq Items
    /\ \A i \in Items :
        /\ world[i] \subseteq ValuesOf(type[i]) /\ Cardinality(world[i]) <= 1
        /\ committed[i] \subseteq ValuesOf(type[i]) /\ Cardinality(committed[i]) <= 1
        /\ stored[i] \subseteq Json /\ Cardinality(stored[i]) <= 1

Nothing == [i \in Items |-> {}]

Init ==
    /\ kind \in Kinds /\ backend \in Backends
    /\ type \in {f \in [Items -> Types] : \A i \in Items :
                    /\ f[i] \in TypesOf[i]
                    /\ f[i] = "unit" => Does("nulls")
                    /\ kind = "resource" /\ f[i] # "struct" => Does("openResources")}
    /\ compacting \in BOOLEAN
    /\ world = Nothing /\ stored = Nothing /\ committed = Nothing
    /\ dirty = {} /\ live = TRUE

\* An update is merged into what is stored: always with ArangoDB, on PostgreSQL at the
\* top level of the document, where a resource has its fields.
Merging == backend = "arango" \/ kind = "resource"

Ordinary(i, v) ==
    /\ HasNull(v) /\ type[i] # "struct" => Does("nulls")
    /\ Merging /\ ~Compacted(v) => \A j \in stored[i] :
        /\ j.payload # {} => Does("shrinks")
        /\ j.payload = {} /\ ~(DOMAIN j.fields \subseteq DOMAIN v.fields) => Does("reshapes")

\* A system inserts or changes an item.
Edit(i, v) ==
    /\ live
    /\ Ordinary(i, v)
    /\ world' = [world EXCEPT ![i] = {v}]
    /\ dirty' = dirty \cup {i}
    /\ UNCHANGED <<fixed, compacting, live, stored, committed>>

\* Nothing tracks the removal of a component, harmless before it is stored.  (Of a
\* resource: PersistentResources.)
RemoveComponent(i) ==
    /\ kind = "component" /\ world[i] # {}
    /\ stored[i] # {} => Does("removes")
    /\ world' = [world EXCEPT ![i] = {}]
    /\ UNCHANGED <<fixed, compacting, dirty, live, stored, committed>>

-----------------------------------------------------------------------------
(* Commit                                                                  *)

\* The serializers: a marked item that is gone gives nothing.
Patch == [i \in {d \in dirty : world[d] # {}} |-> Encoded(CHOOSE v \in world[i] : TRUE)]

\* A new resource gets its name for a key, over a field of that name.  PostgreSQL
\* strips the key again before it stores the document.
Created(j) ==
    IF kind = "resource" THEN [j EXCEPT !.fields = Restrict(@, DOMAIN @ \ {KeyField})]
    ELSE j

Merged(old, new) ==
    IF old.form = "object" /\ new.form = "object"
    THEN [form |-> "object",
          fields |-> [n \in DOMAIN old.fields \cup DOMAIN new.fields |->
                        IF n \in DOMAIN new.fields THEN new.fields[n] ELSE old.fields[n]],
          payload |-> IF new.payload # {} THEN new.payload ELSE old.payload]
    ELSE new

\* PostgreSQL: doc || patch, in which an object and a scalar make an array.
PostgresUpdated(old, new) ==
    IF kind = "component" THEN new
    ELSE IF new.form = "object" THEN Merged(old, new)
    ELSE [form |-> "array", fields |-> Empty, payload |-> {}]

\* Faulty: the update merges components as well.
UpdatedDeep(old, new) == Merged(old, new)

\* ArangoDB: UPDATE with mergeObjects.
Updated(old, new) ==
    IF backend = "postgres" THEN PostgresUpdated(old, new) ELSE Merged(old, new)

Written(i) ==
    IF stored[i] = {} THEN {Created(Patch[i])}
    ELSE {Updated(old, Patch[i]) : old \in stored[i]}

\* The documents after the update: what is not in the patch stays.
After(patched) == [i \in Items |-> IF i \in patched THEN Written(i) ELSE stored[i]]

\* A resource that is not an object gets neither key nor metadata: the transaction fails,
\* and so does every one after it.
Refused ==
    \E i \in DOMAIN Patch :
        /\ kind = "resource" /\ Patch[i].form # "object"
        /\ stored[i] = {} \/ backend = "arango"

\* The marks are taken also where nothing is written.
Commit ==
    /\ live
    /\ ~Refused
    /\ stored' = After(DOMAIN Patch)
    /\ committed' = world
    /\ dirty' = {}
    /\ UNCHANGED <<fixed, compacting, world, live>>

-----------------------------------------------------------------------------
(* Reads                                                                   *)

\* jsonb_strip_nulls, which goes into objects.
Stripped(j) ==
    IF j.form = "null" THEN {}
    ELSE {[j EXCEPT !.fields =
        Restrict(@, {n \in DOMAIN @ : j.form # "object" \/ @[n] # Null})]}

\* A whole document, one component of it, or a projection on components by name.
View(how, i) ==
    IF how = "whole" THEN stored[i]
    ELSE IF backend = "postgres" THEN UNION {Stripped(j) : j \in stored[i]}
    ELSE {j \in stored[i] : j.form # "null"}

Readable(how, i) == UNION {Decoded(type[i], j) : j \in View(how, i)}

\* The first component that cannot be decoded ends the hydration of the document.
Load(how) ==
    /\ ~live
    /\ how = "projected" => kind = "component"
    /\ \E hydrated \in SUBSET Items :
        /\ (\A i \in Items : View(how, i) # {} => Readable(how, i) # {})
              => hydrated = Items
        /\ world' = [i \in Items |-> IF i \in hydrated THEN Readable(how, i) ELSE {}]
    /\ live' = TRUE
    /\ UNCHANGED <<fixed, compacting, dirty, stored, committed>>

\* A new process, perhaps with another compact_threshold_bytes.
Restart ==
    /\ \E i \in Items : stored[i] # {}
    /\ world' = Nothing
    /\ dirty' = {}
    /\ live' = FALSE
    /\ compacting' \in BOOLEAN
    /\ UNCHANGED <<fixed, stored, committed>>

Next ==
    \/ \E i \in Items : RemoveComponent(i) \/ \E v \in ValuesOf(type[i]) : Edit(i, v)
    \/ Commit
    \/ \E how \in {"whole", "projected"} : Load(how)
    \/ Restart

Spec == Init /\ [][Next]_vars

-----------------------------------------------------------------------------
(* Properties                                                              *)

\* A session that loads gets exactly what the last commit had in the world, whichever
\* threshold either of them had and however the document is read (compact.rs:136,
\* "Inverse of to_persist_value").
LoadedIsCommitted ==
    [][live' /\ ~live => world' = committed]_vars

=============================================================================
