------------------------ MODULE StoredValues_proofs ------------------------
(***************************************************************************)
(* What is loaded is what was committed, for every set of names and atoms, *)
(* any items of any types, on either database, however often the threshold *)
(* of the compact envelope changes and whichever way documents are read.   *)
(* The types hold under any habits.                                        *)
(***************************************************************************)
EXTENDS StoredValues, FiniteSetTheorems, TLAPS

OrdinaryTypes ==
    /\ type \in [Items -> {"struct", "map", "enum", "newtype"}]
    /\ kind \in {"component", "resource"} /\ backend \in {"postgres", "arango"}
    /\ kind = "resource" => \A i \in Items : type[i] = "struct"

OrdinaryValues(i) == {v \in ValuesOf(type[i]) : type[i] = "struct" \/ ~HasNull(v)}

\* The JSON a document holds for a value: an envelope, beside which fields may be left of
\* an earlier plain form, or the plain form.
Represents(j, v) ==
    \/ j.form = "object" /\ j.payload = {v}
    \/ j = [form |-> v.form, fields |-> v.fields, payload |-> {}]

DocumentsStand ==
    \A i \in Items :
        \/ stored[i] = {} /\ committed[i] = {}
        \/ \E v \in OrdinaryValues(i), j \in stored[i] :
             stored[i] = {j} /\ committed[i] = {v} /\ Represents(j, v)

WorldStands ==
    \A i \in Items : world[i] = {} \/ \E v \in OrdinaryValues(i) : world[i] = {v}

\* What is to be merged leaves nothing of what is stored in its way.
Mergeable(i) ==
    \A v \in world[i], j \in stored[i] :
        Merging /\ ~Compacted(v) => j.payload = {} /\ DOMAIN j.fields \subseteq DOMAIN v.fields

InSession ==
    \A i \in Items :
        /\ i \notin dirty => world[i] = committed[i]
        /\ stored[i] # {} => world[i] # {}
        /\ i \in dirty => Mergeable(i)

Functional ==
    /\ world = [i \in Items |-> world[i]]
    /\ stored = [i \in Items |-> stored[i]]
    /\ committed = [i \in Items |-> committed[i]]
    /\ dirty \subseteq Items /\ live \in BOOLEAN

IInv ==
    /\ OrdinaryTypes /\ Functional /\ DocumentsStand /\ WorldStands
    /\ IF live THEN InSession ELSE world = Nothing /\ dirty = {}

-----------------------------------------------------------------------------
(* Values and their JSON.                                                  *)

\* Ordinary values are objects or scalars, and their plain form is told from null.
LEMMA ValueShape ==
    ASSUME OrdinaryTypes, NEW i \in Items, NEW v \in OrdinaryValues(i)
    PROVE  /\ v = [form |-> v.form, fields |-> v.fields]
           /\ v.fields = [n \in DOMAIN v.fields |-> v.fields[n]]
           /\ v.form = IF type[i] = "newtype" THEN "scalar" ELSE "object"
           /\ Plain(v) = [form |-> v.form, fields |-> v.fields, payload |-> {}]
  <1>1. CASE type[i] = "newtype"
    <2>1. PICK a \in Atoms : v = [form |-> "scalar", fields |-> [n \in {Content} |-> a]]
      BY <1>1 DEF OrdinaryValues, ValuesOf
    <2>2. ~HasNull(v)
      BY <1>1 DEF OrdinaryValues
    <2>3. QED
      BY <1>1, <2>1, <2>2 DEF Plain
  <1>2. CASE type[i] = "struct"
    <2>1. PICK f \in [FieldNames -> Atoms] : v = [form |-> "object", fields |-> f]
      BY <1>2 DEF OrdinaryValues, ValuesOf
    <2>2. QED
      BY <1>2, <2>1 DEF Plain
  <1>3. CASE type[i] \in {"map", "enum"}
    <2>1. PICK f \in Maps(Names \ {KeyField}, Atoms) : v = [form |-> "object", fields |-> f]
      BY <1>3 DEF OrdinaryValues, ValuesOf
    <2>2. PICK S \in SUBSET (Names \ {KeyField}) : f \in [S -> Atoms]
      BY DEF Maps
    <2>3. QED
      BY <1>3, <2>1, <2>2 DEF Plain
  <1>4. QED
    BY <1>1, <1>2, <1>3 DEF OrdinaryTypes

\* Structs decode also where the optional fields that are null are gone.
LEMMA StructDecodes ==
    ASSUME NEW i \in Items, NEW v \in OrdinaryValues(i), type[i] = "struct", NEW f,
           DOMAIN f \subseteq DOMAIN v.fields,
           \A n \in DOMAIN v.fields :
               IF n \in DOMAIN f THEN f[n] = v.fields[n] ELSE v.fields[n] = Null
    PROVE  Decoded(type[i], [form |-> "object", fields |-> f, payload |-> {}]) = {v}
  <1>1. PICK g \in [FieldNames -> Atoms] : /\ v = [form |-> "object", fields |-> g]
                                           /\ \A n \in FieldNames \ Optional : g[n] # Null
    BY DEF OrdinaryValues, ValuesOf
  <1>2. FieldNames \ Optional \subseteq DOMAIN f
    BY <1>1
  <1>3. [n \in FieldNames |-> IF n \in DOMAIN f THEN f[n] ELSE Null] = g
    BY <1>1
  <1>4. QED
    BY <1>1, <1>2, <1>3 DEF Decoded, DecodedPlain

\* Maps, enums and newtypes decode from their plain form.
LEMMA OthersDecode ==
    ASSUME OrdinaryTypes, NEW i \in Items, NEW v \in OrdinaryValues(i), type[i] # "struct",
           kind = "component"
    PROVE  Decoded(type[i], [form |-> v.form, fields |-> v.fields, payload |-> {}]) = {v}
  <1> DEFINE j == [form |-> v.form, fields |-> v.fields, payload |-> {}]
  <1>1. v = [form |-> v.form, fields |-> v.fields]
    BY ValueShape
  <1>2. Decoded(type[i], j) = DecodedPlain(type[i], j)
    BY DEF Decoded
  <1>3. CASE type[i] = "newtype"
    <2>1. DecodedPlain(type[i], j) = {w \in ValuesOf(type[i]) : Plain(w) = j}
      BY <1>3 DEF DecodedPlain
    <2>2. v \in ValuesOf(type[i]) /\ Plain(v) = j /\ v.form = "scalar"
      BY <1>3, ValueShape DEF OrdinaryValues
    <2>3. ASSUME NEW w \in ValuesOf(type[i]), Plain(w) = j
          PROVE  w = v
      <3>1. PICK a \in Atoms : w = [form |-> "scalar", fields |-> [n \in {Content} |-> a]]
        BY <1>3 DEF ValuesOf
      <3>2. w.fields = v.fields
        BY <2>2, <2>3, <3>1 DEF Plain, NullJson
      <3>3. QED
        BY <1>1, <2>2, <3>1, <3>2
    <2>4. QED
      BY <1>2, <2>1, <2>2, <2>3
  <1>4. CASE type[i] = "map"
    <2>1. v.form = "object"
      BY <1>4, ValueShape
    <2>2. QED
      BY <1>1, <1>2, <1>4, <2>1 DEF DecodedPlain
  <1>5. CASE type[i] = "enum"
    <2>1. v.form = "object"
      BY <1>5, ValueShape
    <2>2. Cardinality(DOMAIN v.fields) = 1
      BY <1>5 DEF OrdinaryValues, ValuesOf
    <2>3. QED
      BY <1>1, <1>2, <1>5, <2>1, <2>2 DEF DecodedPlain
  <1>6. QED
    BY <1>3, <1>4, <1>5 DEF OrdinaryTypes

\* What represents a value is decoded to it.
LEMMA RepresentationDecodes ==
    ASSUME OrdinaryTypes, NEW i \in Items, NEW v \in OrdinaryValues(i), NEW j,
           Represents(j, v)
    PROVE  Decoded(type[i], j) = {v} /\ j.form # "null"
  <1>1. CASE j.form = "object" /\ j.payload = {v}
    BY <1>1 DEF Decoded
  <1>2. CASE j = [form |-> v.form, fields |-> v.fields, payload |-> {}]
    <2>1. j.form # "null"
      BY <1>2, ValueShape
    <2>2. CASE type[i] = "struct"
      <3>1. v.form = "object"
        BY <2>2, ValueShape
      <3>2. Decoded(type[i], [form |-> "object", fields |-> v.fields, payload |-> {}]) = {v}
        BY <2>2, StructDecodes
      <3>3. QED
        BY <1>2, <2>1, <3>1, <3>2
    <2>3. CASE type[i] # "struct"
      <3>1. kind = "component"
        BY <2>3 DEF OrdinaryTypes
      <3>2. QED
        BY <1>2, <2>1, <2>3, <3>1, OthersDecode DEF OrdinaryTypes
    <2>4. QED
      BY <2>2, <2>3
  <1>3. QED
    BY <1>1, <1>2 DEF Represents

\* The nulls that PostgreSQL strips are those of optional fields.
LEMMA StrippedDecodes ==
    ASSUME OrdinaryTypes, NEW i \in Items, NEW v \in OrdinaryValues(i), NEW j,
           Represents(j, v), kind = "component"
    PROVE  \E k : Stripped(j) = {k} /\ Decoded(type[i], k) = {v}
  <1>1. j.form # "null"
    BY RepresentationDecodes
  <1> DEFINE kept == {n \in DOMAIN j.fields : j.form # "object" \/ j.fields[n] # Null}
             k == [j EXCEPT !.fields = Restrict(j.fields, kept)]
  <1>2. Stripped(j) = {k}
    BY <1>1 DEF Stripped
  <1>3. CASE j.form = "object" /\ j.payload = {v}
    <2>1. k.payload = j.payload
      OBVIOUS
    <2>2. QED
      BY <1>2, <1>3, <2>1 DEF Decoded
  <1>4. CASE j = [form |-> v.form, fields |-> v.fields, payload |-> {}]
    <2>1. k = [form |-> v.form, fields |-> Restrict(v.fields, kept), payload |-> {}]
      BY <1>4
    <2>2. CASE type[i] = "struct"
      <3>1. v.form = "object"
        BY <2>2, ValueShape
      <3>2. \A n \in DOMAIN v.fields :
                IF n \in kept THEN TRUE ELSE v.fields[n] = Null
        BY <1>4, <3>1
      <3>3. /\ DOMAIN Restrict(v.fields, kept) = kept
            /\ \A n \in kept : Restrict(v.fields, kept)[n] = v.fields[n]
            /\ kept \subseteq DOMAIN v.fields
        BY <1>4 DEF Restrict
      <3>4. Decoded(type[i], [form |-> "object", fields |-> Restrict(v.fields, kept),
                              payload |-> {}]) = {v}
        <4> HIDE DEF kept
        <4> QED
          BY <2>2, <3>2, <3>3, StructDecodes
      <3>5. QED
        BY <1>2, <2>1, <3>1, <3>4
    <2>3. CASE type[i] # "struct"
      <3>1. \A n \in DOMAIN v.fields : v.fields[n] # Null
        BY <2>3 DEF OrdinaryValues, HasNull, Range
      <3>2. kept = DOMAIN v.fields
        BY <1>4, <3>1
      <3>3. Restrict(v.fields, kept) = v.fields
        BY <3>2, ValueShape DEF Restrict
      <3>4. k = j
        BY <1>4, <2>1, <3>3
      <3>5. QED
        BY <1>2, <3>4, RepresentationDecodes
    <2>4. QED
      BY <2>2, <2>3
  <1>5. QED
    BY <1>3, <1>4 DEF Represents

\* However an item is read that is stored, it is decoded to what was committed.
LEMMA ReadableIsCommitted ==
    ASSUME IInv, NEW how \in {"whole", "projected"},
           how = "projected" => kind = "component",
           NEW i \in Items
    PROVE  /\ Readable(how, i) = committed[i]
           /\ View(how, i) # {} => Readable(how, i) # {}
  <1>1. CASE stored[i] = {} /\ committed[i] = {}
    BY <1>1 DEF Readable, View
  <1>2. ASSUME NEW v \in OrdinaryValues(i), NEW j \in stored[i],
               stored[i] = {j}, committed[i] = {v}, Represents(j, v)
        PROVE  Readable(how, i) = {v}
    <2>1. Decoded(type[i], j) = {v} /\ j.form # "null"
      BY <1>2, RepresentationDecodes DEF IInv
    <2>2. \E k : View(how, i) = {k} /\ Decoded(type[i], k) = {v}
      <3>1. CASE how = "projected" /\ backend = "postgres"
        <4>1. PICK k : Stripped(j) = {k} /\ Decoded(type[i], k) = {v}
          BY <1>2, <3>1, StrippedDecodes DEF IInv
        <4>2. View(how, i) = {k}
          BY <1>2, <3>1, <4>1 DEF View
        <4>3. QED
          BY <4>1, <4>2
      <3>2. CASE ~(how = "projected" /\ backend = "postgres")
        <4>1. View(how, i) = {j}
          BY <1>2, <2>1, <3>2 DEF View
        <4>2. QED
          BY <2>1, <4>1
      <3>3. QED
        BY <3>1, <3>2
    <2>3. QED
      BY <2>2 DEF Readable
  <1>3. QED
    BY <1>1, <1>2 DEF IInv, DocumentsStand

-----------------------------------------------------------------------------
(* What a commit writes.                                                   *)

LEMMA EncodedRepresents ==
    ASSUME OrdinaryTypes, NEW i \in Items, NEW v \in OrdinaryValues(i)
    PROVE  /\ Compacted(v) => Encoded(v) = [form |-> "object", fields |-> Empty, payload |-> {v}]
           /\ ~Compacted(v) => Encoded(v) = [form |-> v.form, fields |-> v.fields, payload |-> {}]
           /\ Represents(Encoded(v), v)
  BY ValueShape DEF Encoded, Represents

\* The key a new resource is given hides no field.
LEMMA CreatedRepresents ==
    ASSUME OrdinaryTypes, Environment = {}, NEW i \in Items, NEW v \in OrdinaryValues(i)
    PROVE  Represents(Created(Encoded(v)), v)
  <1>1. CASE kind # "resource"
    BY <1>1, EncodedRepresents DEF Created
  <1>2. CASE kind = "resource" /\ Compacted(v)
    <2>1. Encoded(v) = [form |-> "object", fields |-> Empty, payload |-> {v}]
      BY <1>2, EncodedRepresents
    <2>2. QED
      BY <1>2, <2>1 DEF Created, Represents
  <1>3. CASE kind = "resource" /\ ~Compacted(v)
    <2>1. Encoded(v) = [form |-> v.form, fields |-> v.fields, payload |-> {}]
      BY <1>3, EncodedRepresents
    <2>2. PICK f \in [FieldNames -> Atoms] : v = [form |-> "object", fields |-> f]
      BY <1>3 DEF OrdinaryTypes, OrdinaryValues, ValuesOf
    <2>3. FieldNames = Names \ {KeyField}
      BY DEF FieldNames, Does
    <2>4. Restrict(v.fields, DOMAIN v.fields \ {KeyField}) = v.fields
      BY <2>2, <2>3 DEF Restrict
    <2>5. QED
      BY <1>3, <2>1, <2>4 DEF Created, Represents
  <1>4. QED
    BY <1>1, <1>2, <1>3

\* A merge brings the value, if what is stored is not in its way.
LEMMA MergedRepresents ==
    ASSUME OrdinaryTypes, NEW i \in Items, NEW v \in OrdinaryValues(i), NEW old,
           ~Compacted(v) => old.payload = {} /\ DOMAIN old.fields \subseteq DOMAIN v.fields
    PROVE  Represents(Merged(old, Encoded(v)), v)
  <1>1. CASE ~(old.form = "object" /\ Encoded(v).form = "object")
    BY <1>1, EncodedRepresents DEF Merged
  <1>2. CASE old.form = "object" /\ Encoded(v).form = "object"
    <2>1. CASE Compacted(v)
      BY <1>2, <2>1, EncodedRepresents DEF Merged, Represents
    <2>2. CASE ~Compacted(v)
      <3>1. Encoded(v) = [form |-> v.form, fields |-> v.fields, payload |-> {}]
        BY <2>2, EncodedRepresents
      <3>2. [n \in DOMAIN old.fields \cup DOMAIN v.fields |->
               IF n \in DOMAIN v.fields THEN v.fields[n] ELSE old.fields[n]] = v.fields
        BY <2>2, ValueShape
      <3>3. QED
        BY <1>2, <2>2, <3>1, <3>2 DEF Merged, Represents
    <2>3. QED
      BY <2>1, <2>2
  <1>3. QED
    BY <1>1, <1>2

LEMMA UpdatedRepresents ==
    ASSUME OrdinaryTypes, NEW i \in Items, NEW v \in OrdinaryValues(i), NEW old,
           Merging /\ ~Compacted(v) => /\ old.payload = {}
                                       /\ DOMAIN old.fields \subseteq DOMAIN v.fields
    PROVE  Represents(Updated(old, Encoded(v)), v)
  <1>1. CASE Merging
    <2>1. kind = "resource" => Encoded(v).form = "object"
      <3>1. type[i] = "struct" => v.form = "object"
        BY ValueShape
      <3>2. v.form = "object" => Encoded(v).form = "object"
        BY EncodedRepresents DEF Represents
      <3>3. QED
        BY <3>1, <3>2 DEF OrdinaryTypes
    <2>2. Updated(old, Encoded(v)) = Merged(old, Encoded(v))
      BY <1>1, <2>1 DEF Updated, PostgresUpdated, Merging, OrdinaryTypes
    <2>3. QED
      BY <1>1, <2>2, MergedRepresents
  <1>2. CASE ~Merging
    <2>1. Updated(old, Encoded(v)) = Encoded(v)
      BY <1>2 DEF Updated, PostgresUpdated, Merging, OrdinaryTypes
    <2>2. QED
      BY <2>1, EncodedRepresents
  <1>3. QED
    BY <1>1, <1>2

-----------------------------------------------------------------------------
(* The invariant.                                                          *)

LEMMA InitStands == ASSUME Environment = {} PROVE Init => IInv
  <1> SUFFICES ASSUME Init PROVE IInv
    OBVIOUS
  <1>1. OrdinaryTypes
    BY ValuesAssumption DEF Init, OrdinaryTypes, Types, Does
  <1>2. \A i \in Items : world[i] = {} /\ stored[i] = {} /\ committed[i] = {}
    BY DEF Init, Nothing
  <1>3. QED
    BY <1>1, <1>2 DEF Init, IInv, Functional, DocumentsStand, WorldStands, InSession,
                      Mergeable, Nothing

\* Types never change.
LEMMA SameTypes ==
    ASSUME UNCHANGED fixed
    PROVE  /\ OrdinaryTypes => OrdinaryTypes'
           /\ \A i \in Items : OrdinaryValues(i)' = OrdinaryValues(i)
  BY DEF fixed, OrdinaryTypes, OrdinaryValues, ValuesOf, FieldNames, Does, HasNull

LEMMA EditStands ==
    ASSUME Environment = {}, IInv, NEW i \in Items, NEW v \in ValuesOf(type[i]), Edit(i, v)
    PROVE  IInv'
  <1>1. UNCHANGED <<fixed, compacting, live, stored, committed>> /\ live
    BY DEF Edit
  <1>2. v \in OrdinaryValues(i)
    BY DEF Edit, Ordinary, Does, OrdinaryValues
  <1>3. OrdinaryTypes' /\ \A k \in Items : OrdinaryValues(k)' = OrdinaryValues(k)
    BY <1>1, SameTypes DEF IInv
  <1>4. \A k \in Items : world'[k] = IF k = i THEN {v} ELSE world[k]
    BY DEF Edit, IInv, Functional
  <1>5. dirty' = dirty \cup {i}
    BY DEF Edit
  <1>6. Functional'
    BY <1>1, <1>5 DEF Edit, IInv, Functional
  <1>7. DocumentsStand'
    BY <1>1, <1>3 DEF IInv, DocumentsStand, Represents
  <1>8. WorldStands'
    BY <1>2, <1>3, <1>4 DEF IInv, WorldStands
  <1>9. InSession'
    <2> SUFFICES ASSUME NEW k \in Items
                 PROVE  /\ k \notin dirty' => world'[k] = committed'[k]
                        /\ stored'[k] # {} => world'[k] # {}
                        /\ k \in dirty' => Mergeable(k)'
      BY DEF InSession
    <2>1. CASE k = i
      <3>1. Mergeable(k)'
        BY <1>1, <1>4, <2>1 DEF Edit, Ordinary, Does, Mergeable, Merging, Compacted, fixed
      <3>2. QED
        BY <1>4, <1>5, <2>1, <3>1
    <2>2. CASE k # i
      <3>1. Mergeable(k) => Mergeable(k)'
        BY <1>1, <1>4, <2>2 DEF Mergeable, Merging, Compacted, fixed
      <3>2. QED
        BY <1>1, <1>4, <1>5, <2>2, <3>1 DEF IInv, InSession
    <2>3. QED
      BY <2>1, <2>2
  <1>10. QED
    BY <1>1, <1>3, <1>6, <1>7, <1>8, <1>9 DEF IInv

LEMMA RemoveComponentStands ==
    ASSUME Environment = {}, IInv, NEW i \in Items, RemoveComponent(i)
    PROVE  IInv'
  <1>1. UNCHANGED <<fixed, compacting, dirty, live, stored, committed>>
    BY DEF RemoveComponent
  <1>2. stored[i] = {} /\ world[i] # {}
    BY DEF RemoveComponent, Does
  <1>3. OrdinaryTypes' /\ \A k \in Items : OrdinaryValues(k)' = OrdinaryValues(k)
    BY <1>1, SameTypes DEF IInv
  <1>4. \A k \in Items : world'[k] = IF k = i THEN {} ELSE world[k]
    BY DEF RemoveComponent, IInv, Functional
  <1>5. live
    BY <1>2 DEF IInv, Nothing
  <1>6. Functional'
    BY <1>1 DEF RemoveComponent, IInv, Functional
  <1>7. DocumentsStand'
    BY <1>1, <1>3 DEF IInv, DocumentsStand, Represents
  <1>8. WorldStands'
    BY <1>3, <1>4 DEF IInv, WorldStands
  <1>9. committed[i] = {}
    BY <1>2 DEF IInv, DocumentsStand
  <1>10. InSession'
    <2> SUFFICES ASSUME NEW k \in Items
                 PROVE  /\ k \notin dirty' => world'[k] = committed'[k]
                        /\ stored'[k] # {} => world'[k] # {}
                        /\ k \in dirty' => Mergeable(k)'
      BY DEF InSession
    <2>1. Mergeable(k) => Mergeable(k)'
      BY <1>1, <1>4 DEF Mergeable, Merging, Compacted, fixed
    <2>2. QED
      BY <1>1, <1>2, <1>4, <1>5, <1>9, <2>1 DEF IInv, InSession
  <1>11. QED
    BY <1>1, <1>3, <1>5, <1>6, <1>7, <1>8, <1>10 DEF IInv

\* A commit stores what is in the world, and leaves what is not marked as it is.
LEMMA CommitStands ==
    ASSUME Environment = {}, IInv, Commit
    PROVE  IInv'
  <1>1. /\ UNCHANGED <<fixed, compacting, world, live>> /\ live
        /\ stored' = After(DOMAIN Patch) /\ committed' = world /\ dirty' = {}
    BY DEF Commit
  <1>2. OrdinaryTypes' /\ \A k \in Items : OrdinaryValues(k)' = OrdinaryValues(k)
    BY <1>1, SameTypes DEF IInv
  <1>3. Functional'
    BY <1>1 DEF IInv, Functional, After
  <1>4. DOMAIN Patch = {i \in dirty : world[i] # {}}
    BY DEF Patch
  <1>5. ASSUME NEW i \in Items
        PROVE  \/ stored'[i] = {} /\ world[i] = {}
               \/ \E v \in OrdinaryValues(i), j \in stored'[i] :
                    stored'[i] = {j} /\ world[i] = {v} /\ Represents(j, v)
    <2>1. CASE i \in dirty /\ world[i] # {}
      <3>1. PICK v \in OrdinaryValues(i) : world[i] = {v}
        BY <2>1 DEF IInv, WorldStands
      <3>2. Patch[i] = Encoded(v)
        BY <2>1, <3>1 DEF Patch
      <3>3. stored'[i] = Written(i)
        BY <1>1, <1>4, <2>1 DEF After
      <3>4. CASE stored[i] = {}
        <4>1. stored'[i] = {Created(Encoded(v))}
          BY <3>2, <3>3, <3>4 DEF Written
        <4>2. QED
          BY <3>1, <4>1, CreatedRepresents DEF IInv
      <3>5. ASSUME NEW old, stored[i] = {old}
            PROVE  \E j \in stored'[i] : stored'[i] = {j} /\ Represents(j, v)
        <4>1. stored'[i] = {Updated(old, Encoded(v))}
          BY <3>2, <3>3, <3>5 DEF Written
        <4>2. Merging /\ ~Compacted(v) => /\ old.payload = {}
                                          /\ DOMAIN old.fields \subseteq DOMAIN v.fields
          BY <1>1, <2>1, <3>1, <3>5 DEF IInv, InSession, Mergeable
        <4>3. QED
          BY <4>1, <4>2, UpdatedRepresents DEF IInv
      <3>6. QED
        BY <3>1, <3>4, <3>5 DEF IInv, DocumentsStand
    <2>2. CASE ~(i \in dirty /\ world[i] # {})
      <3>1. stored'[i] = stored[i]
        BY <1>1, <1>4, <2>2 DEF After
      <3>2. CASE i \in dirty
        BY <1>1, <2>2, <3>1, <3>2 DEF IInv, InSession
      <3>3. CASE i \notin dirty
        BY <1>1, <3>1, <3>3 DEF IInv, InSession, DocumentsStand
      <3>4. QED
        BY <3>2, <3>3
    <2>3. QED
      BY <2>1, <2>2
  <1>6. DocumentsStand'
    BY <1>1, <1>2, <1>5 DEF DocumentsStand, Represents
  <1>7. WorldStands'
    BY <1>1, <1>2 DEF IInv, WorldStands
  <1>8. InSession'
    BY <1>1, <1>5 DEF InSession
  <1>9. QED
    BY <1>1, <1>2, <1>3, <1>6, <1>7, <1>8 DEF IInv

\* Whichever way it reads, a load brings what was committed.
LEMMA LoadBringsCommitted ==
    ASSUME IInv, NEW how \in {"whole", "projected"}, Load(how)
    PROVE  world' = committed
  <1>1. \A i \in Items : /\ Readable(how, i) = committed[i]
                         /\ View(how, i) # {} => Readable(how, i) # {}
    BY ReadableIsCommitted DEF Load
  <1>2. world' = [i \in Items |-> IF i \in Items THEN Readable(how, i) ELSE {}]
    BY <1>1 DEF Load
  <1>3. QED
    BY <1>1, <1>2 DEF IInv, Functional

LEMMA LoadStands ==
    ASSUME IInv, NEW how \in {"whole", "projected"}, Load(how)
    PROVE  IInv'
  <1>1. /\ UNCHANGED <<fixed, compacting, dirty, stored, committed>>
        /\ live' = TRUE /\ dirty = {} /\ world' = committed
    BY LoadBringsCommitted DEF Load, IInv
  <1>2. OrdinaryTypes' /\ \A k \in Items : OrdinaryValues(k)' = OrdinaryValues(k)
    BY <1>1, SameTypes DEF IInv
  <1>3. Functional'
    BY <1>1 DEF IInv, Functional
  <1>4. DocumentsStand'
    BY <1>1, <1>2 DEF IInv, DocumentsStand, Represents
  <1>5. WorldStands'
    BY <1>1, <1>2 DEF IInv, DocumentsStand, WorldStands
  <1>6. InSession'
    BY <1>1 DEF IInv, DocumentsStand, InSession
  <1>7. QED
    BY <1>1, <1>2, <1>3, <1>4, <1>5, <1>6 DEF IInv

LEMMA RestartStands ==
    ASSUME IInv, Restart
    PROVE  IInv'
  <1>1. /\ UNCHANGED <<fixed, stored, committed>>
        /\ world' = Nothing /\ dirty' = {} /\ live' = FALSE
    BY DEF Restart
  <1>2. OrdinaryTypes' /\ \A k \in Items : OrdinaryValues(k)' = OrdinaryValues(k)
    BY <1>1, SameTypes DEF IInv
  <1>3. Functional' /\ Nothing' = Nothing
    BY <1>1 DEF IInv, Functional, Nothing
  <1>4. DocumentsStand'
    BY <1>1, <1>2 DEF IInv, DocumentsStand, Represents
  <1>5. WorldStands'
    BY <1>1 DEF WorldStands, Nothing
  <1>6. QED
    BY <1>1, <1>2, <1>3, <1>4, <1>5 DEF IInv

LEMMA IdleStands ==
    ASSUME IInv, UNCHANGED vars
    PROVE  IInv'
  <1>1. OrdinaryTypes' /\ \A k \in Items : OrdinaryValues(k)' = OrdinaryValues(k)
    BY SameTypes DEF IInv, vars
  <1>2. Functional' /\ Nothing' = Nothing
    BY DEF IInv, Functional, vars, Nothing
  <1>3. WorldStands'
    BY <1>1 DEF IInv, WorldStands, vars
  <1>4. DocumentsStand'
    BY <1>1 DEF IInv, DocumentsStand, Represents, vars
  <1>5. InSession => InSession'
    BY DEF InSession, Mergeable, Merging, Compacted, vars, fixed
  <1>6. QED
    BY <1>1, <1>2, <1>3, <1>4, <1>5 DEF IInv, vars

\* In every state the documents hold what was committed, in one of the two forms, and what is
\* marked in the session can be merged over them.
THEOREM Invariant == ASSUME Environment = {} PROVE Spec => []IInv
  <1>1. IInv /\ [Next]_vars => IInv'
    <2> SUFFICES ASSUME IInv, [Next]_vars PROVE IInv'
      OBVIOUS
    <2>1. CASE \E i \in Items : RemoveComponent(i)
      BY <2>1, RemoveComponentStands
    <2>2. CASE \E i \in Items : \E v \in ValuesOf(type[i]) : Edit(i, v)
      BY <2>2, EditStands
    <2>3. CASE Commit
      BY <2>3, CommitStands
    <2>4. CASE \E how \in {"whole", "projected"} : Load(how)
      BY <2>4, LoadStands
    <2>5. CASE Restart
      BY <2>5, RestartStands
    <2>6. CASE UNCHANGED vars
      BY <2>6, IdleStands
    <2>7. QED
      BY <2>1, <2>2, <2>3, <2>4, <2>5, <2>6 DEF Next
  <1>2. QED
    BY <1>1, InitStands, PTL DEF Spec

\* What a session loads is what the last commit had in the world: no threshold, no merge and no
\* projection changes a value on its way through the database.
THEOREM CommittedIsLoaded == ASSUME Environment = {} PROVE Spec => LoadedIsCommitted
  <1>1. ASSUME IInv, [Next]_vars
        PROVE  [live' /\ ~live => world' = committed]_vars
    <2>1. CASE \E how \in {"whole", "projected"} : Load(how)
      BY <1>1, <2>1, LoadBringsCommitted
    <2>2. CASE ~\E how \in {"whole", "projected"} : Load(how)
      BY <1>1, <2>2 DEF Next, Edit, RemoveComponent, Commit, Restart
    <2>3. QED
      BY <2>1, <2>2
  <1>2. QED
    BY <1>1, Invariant, PTL DEF Spec, LoadedIsCommitted

-----------------------------------------------------------------------------
(* Types, under any habits.                                                *)

\* Entries that values of the type t may have, some of them perhaps stale or missing.
Fits(t, f) ==
    /\ f = [n \in DOMAIN f |-> f[n]]
    /\ DOMAIN f \subseteq Names /\ \A n \in DOMAIN f : f[n] \in Atoms
    /\ t = "struct" => /\ DOMAIN f \subseteq FieldNames
                       /\ \A n \in DOMAIN f \ Optional : f[n] # Null
    /\ t \in {"map", "enum"} => KeyField \notin DOMAIN f

Document(t, j) ==
    /\ j = [form |-> j.form, fields |-> j.fields, payload |-> j.payload]
    /\ j.form \in {"null", "scalar", "object", "array"}
    /\ Fits(t, j.fields)
    /\ j.payload = {} \/ \E v \in ValuesOf(t) : j.payload = {v}

OneValue(t, s) == s = {} \/ \E v \in ValuesOf(t) : s = {v}

Typed ==
    /\ type \in [Items -> Types] /\ kind \in Kinds /\ backend \in Backends
    /\ compacting \in BOOLEAN /\ live \in BOOLEAN /\ dirty \subseteq Items
    /\ world = [i \in Items |-> world[i]]
    /\ \A i \in Items :
        /\ OneValue(type[i], world[i]) /\ OneValue(type[i], committed[i])
        /\ stored[i] = {} \/ \E j \in stored[i] : stored[i] = {j} /\ Document(type[i], j)

LEMMA EmptyFits == ASSUME NEW t PROVE Fits(t, Empty)
  BY DEF Fits, Empty

LEMMA SomeFit ==
    ASSUME NEW t, NEW f, Fits(t, f), NEW S \in SUBSET DOMAIN f
    PROVE  Fits(t, Restrict(f, S))
  BY DEF Fits, Restrict

LEMMA ValuesFit ==
    ASSUME NEW t \in Types, NEW v \in ValuesOf(t)
    PROVE  /\ v = [form |-> v.form, fields |-> v.fields]
           /\ v.form \in {"null", "scalar", "object"}
           /\ Fits(t, v.fields)
  <1>1. CASE t = "struct"
    <2>1. PICK f \in [FieldNames -> Atoms] : /\ v = [form |-> "object", fields |-> f]
                                             /\ \A n \in FieldNames \ Optional : f[n] # Null
      BY <1>1 DEF ValuesOf
    <2>2. FieldNames \subseteq Names
      BY DEF FieldNames
    <2>3. QED
      BY <1>1, <2>1, <2>2 DEF Fits
  <1>2. CASE t \in {"map", "enum"}
    <2>1. PICK f \in Maps(Names \ {KeyField}, Atoms) : v = [form |-> "object", fields |-> f]
      BY <1>2 DEF ValuesOf
    <2>2. PICK S \in SUBSET (Names \ {KeyField}) : f \in [S -> Atoms]
      BY DEF Maps
    <2>3. QED
      BY <1>2, <2>1, <2>2 DEF Fits
  <1>3. CASE t = "newtype"
    <2>1. PICK a \in Atoms : v = [form |-> "scalar", fields |-> [n \in {Content} |-> a]]
      BY <1>3 DEF ValuesOf
    <2>2. Content \in Names
      BY ValuesAssumption DEF Content
    <2>3. QED
      BY <1>3, <2>1, <2>2 DEF Fits
  <1>4. CASE t = "unit"
    BY <1>4, EmptyFits DEF ValuesOf
  <1>5. QED
    BY <1>1, <1>2, <1>3, <1>4 DEF Types

LEMMA DocumentIsJson ==
    ASSUME NEW t \in Types, NEW j, Document(t, j)
    PROVE  j \in Json
  <1>1. \A f : Fits(t, f) => f \in Maps(Names, Atoms)
    <2> SUFFICES ASSUME NEW f, Fits(t, f) PROVE f \in Maps(Names, Atoms)
      OBVIOUS
    <2>1. DOMAIN f \in SUBSET Names /\ f \in [DOMAIN f -> Atoms]
      BY DEF Fits
    <2>2. QED
      BY <2>1 DEF Maps
  <1>2. \A v \in ValuesOf(t) : v \in Value
    BY <1>1, ValuesFit DEF Value
  <1>3. j.payload \in {{}} \cup {{v} : v \in Value}
    BY <1>2 DEF Document
  <1>4. QED
    BY <1>1, <1>3 DEF Document, Json

LEMMA EncodedIsDocument ==
    ASSUME NEW t \in Types, NEW v \in ValuesOf(t)
    PROVE  Document(t, Encoded(v)) /\ Document(t, Created(Encoded(v)))
  <1>1. Document(t, Encoded(v))
    <2>1. CASE Compacted(v)
      BY <2>1, EmptyFits DEF Encoded, Document
    <2>2. CASE ~Compacted(v)
      <3>1. Document(t, NullJson)
        BY EmptyFits DEF Document, NullJson
      <3>2. Document(t, [form |-> v.form, fields |-> v.fields, payload |-> {}])
        BY ValuesFit DEF Document
      <3>3. QED
        BY <2>2, <3>1, <3>2 DEF Encoded, Plain
    <2>3. QED
      BY <2>1, <2>2
  <1>2. ASSUME NEW j, Document(t, j)
        PROVE  Document(t, Created(j))
    <2>1. Fits(t, Restrict(j.fields, DOMAIN j.fields \ {KeyField}))
      BY <1>2, SomeFit DEF Document
    <2>2. QED
      BY <1>2, <2>1 DEF Document, Created
  <1>3. QED
    BY <1>1, <1>2

LEMMA UpdatedIsDocument ==
    ASSUME NEW t \in Types, NEW old, NEW new, Document(t, old), Document(t, new)
    PROVE  Document(t, Updated(old, new))
  <1>1. Document(t, Merged(old, new))
    <2> DEFINE f == [n \in DOMAIN old.fields \cup DOMAIN new.fields |->
                       IF n \in DOMAIN new.fields THEN new.fields[n] ELSE old.fields[n]]
               p == IF new.payload # {} THEN new.payload ELSE old.payload
    <2>1. Fits(t, f)
      BY DEF Document, Fits
    <2>2. Document(t, [form |-> "object", fields |-> f, payload |-> p])
      <3>1. p = {} \/ \E v \in ValuesOf(t) : p = {v}
        BY DEF Document
      <3> HIDE DEF f, p
      <3>2. QED
        BY <2>1, <3>1 DEF Document
    <2>3. QED
      BY <2>2 DEF Merged
  <1>2. Document(t, [form |-> "array", fields |-> Empty, payload |-> {}])
    BY EmptyFits DEF Document
  <1>3. QED
    BY <1>1, <1>2 DEF Updated, PostgresUpdated

\* A decoder gives one value of the type, or refuses.
LEMMA DecodedIsValue ==
    ASSUME NEW t \in Types, NEW j, Document(t, j)
    PROVE  OneValue(t, Decoded(t, j))
  <1>1. CASE j.payload # {}
    BY <1>1 DEF Decoded, Document, OneValue
  <1>2. OneValue(t, DecodedPlain(t, j))
    <2>1. CASE t = "struct"
      <3>1. CASE ~(j.form = "object" /\ FieldNames \ Optional \subseteq DOMAIN j.fields)
        BY <2>1, <3>1 DEF DecodedPlain, OneValue
      <3>2. CASE FieldNames \ Optional \subseteq DOMAIN j.fields /\ j.form = "object"
        <4> DEFINE f == [n \in FieldNames |-> IF n \in DOMAIN j.fields
                                              THEN j.fields[n] ELSE Null]
        <4>1. f \in [FieldNames -> Atoms] /\ \A n \in FieldNames \ Optional : f[n] # Null
          BY <2>1, <3>2, ValuesAssumption DEF Document, Fits
        <4>2. [form |-> "object", fields |-> f] \in ValuesOf(t)
          <5> HIDE DEF f
          <5> QED
            BY <2>1, <4>1 DEF ValuesOf
        <4>3. DecodedPlain(t, j) = {[form |-> "object", fields |-> f]}
          BY <2>1, <3>2 DEF DecodedPlain
        <4>4. QED
          BY <4>2, <4>3 DEF OneValue
      <3>3. QED
        BY <3>1, <3>2
    <2>2. CASE t \in {"map", "enum"}
      <3>1. j.fields \in Maps(Names \ {KeyField}, Atoms)
        <4>1. DOMAIN j.fields \in SUBSET (Names \ {KeyField})
          BY <2>2 DEF Document, Fits
        <4>2. j.fields \in [DOMAIN j.fields -> Atoms]
          BY DEF Document, Fits
        <4>3. QED
          BY <4>1, <4>2 DEF Maps
      <3>2. CASE t = "map"
        <4>1. [form |-> "object", fields |-> j.fields] \in ValuesOf(t)
          BY <3>1, <3>2 DEF ValuesOf
        <4>2. QED
          BY <3>2, <4>1 DEF DecodedPlain, OneValue
      <3>3. CASE t = "enum" /\ Cardinality(DOMAIN j.fields) = 1
        <4>1. [form |-> "object", fields |-> j.fields] \in ValuesOf(t)
          BY <3>1, <3>3 DEF ValuesOf
        <4>2. QED
          BY <3>3, <4>1 DEF DecodedPlain, OneValue
      <3>4. CASE t = "enum" /\ Cardinality(DOMAIN j.fields) # 1
        BY <3>4 DEF DecodedPlain, OneValue
      <3>5. QED
        BY <2>2, <3>2, <3>3, <3>4
    <2>3. CASE t \in {"newtype", "unit"}
      <3>1. DecodedPlain(t, j) = {v \in ValuesOf(t) : Plain(v) = j}
        BY <2>3 DEF DecodedPlain
      <3>2. ASSUME NEW v \in ValuesOf(t), NEW w \in ValuesOf(t), Plain(v) = Plain(w)
            PROVE  v = w
        <4>1. CASE t = "unit"
          BY <3>2, <4>1 DEF ValuesOf
        <4>2. CASE t = "newtype"
          <5>1. PICK a \in Atoms : v = [form |-> "scalar", fields |-> [n \in {Content} |-> a]]
            BY <4>2 DEF ValuesOf
          <5>2. PICK b \in Atoms : w = [form |-> "scalar", fields |-> [n \in {Content} |-> b]]
            BY <4>2 DEF ValuesOf
          <5>3. HasNull(v) <=> a = Null
            BY <5>1 DEF HasNull, Range
          <5>4. HasNull(w) <=> b = Null
            BY <5>2 DEF HasNull, Range
          <5>5. CASE a = Null \/ b = Null
            BY <3>2, <5>1, <5>2, <5>3, <5>4, <5>5 DEF Plain, NullJson
          <5>6. CASE a # Null /\ b # Null
            <6>1. v.fields = w.fields
              BY <3>2, <5>1, <5>2, <5>3, <5>4, <5>6 DEF Plain
            <6>2. QED
              BY <5>1, <5>2, <6>1
          <5>7. QED
            BY <5>5, <5>6
        <4>3. QED
          BY <2>3, <4>1, <4>2
      <3>3. QED
        BY <3>1, <3>2 DEF OneValue
    <2>4. QED
      BY <2>1, <2>2, <2>3 DEF Types
  <1>3. QED
    BY <1>1, <1>2 DEF Decoded

\* What is read of an item, whole or projected, is one value of its type or nothing.
LEMMA ReadableIsValue ==
    ASSUME Typed, NEW how \in {"whole", "projected"}, NEW i \in Items
    PROVE  OneValue(type[i], Readable(how, i))
  <1>1. type[i] \in Types
    BY DEF Typed
  <1>2. CASE View(how, i) = {}
    BY <1>2 DEF Readable, OneValue
  <1>3. ASSUME NEW k, View(how, i) = {k}, Document(type[i], k)
        PROVE  OneValue(type[i], Readable(how, i))
    <2>1. Readable(how, i) = Decoded(type[i], k)
      BY <1>3 DEF Readable
    <2>2. QED
      BY <1>1, <1>3, <2>1, DecodedIsValue
  <1>4. CASE stored[i] = {}
    BY <1>2, <1>4 DEF View
  <1>5. ASSUME NEW j, stored[i] = {j}, Document(type[i], j)
        PROVE  View(how, i) = {} \/ \E k : View(how, i) = {k} /\ Document(type[i], k)
    <2>1. Stripped(j) = {} \/ \E k : Stripped(j) = {k} /\ Document(type[i], k)
      <3> DEFINE kept == {n \in DOMAIN j.fields : j.form # "object" \/ j.fields[n] # Null}
      <3>1. Fits(type[i], Restrict(j.fields, kept))
        BY <1>5, SomeFit DEF Document
      <3>2. Document(type[i], [j EXCEPT !.fields = Restrict(j.fields, kept)])
        <4> HIDE DEF kept
        <4> QED
          BY <1>5, <3>1 DEF Document
      <3>3. QED
        BY <3>2 DEF Stripped
    <2>2. CASE how = "whole"
      BY <1>5, <2>2 DEF View
    <2>3. CASE how # "whole" /\ backend = "postgres"
      BY <1>5, <2>1, <2>3 DEF View
    <2>4. CASE how # "whole" /\ backend # "postgres"
      BY <1>5, <2>4 DEF View
    <2>5. QED
      BY <2>2, <2>3, <2>4
  <1>6. QED
    BY <1>2, <1>3, <1>4, <1>5 DEF Typed

LEMMA CommitTyped ==
    ASSUME Typed, Commit, NEW i \in Items
    PROVE  stored'[i] = {} \/ \E j \in stored'[i] : stored'[i] = {j} /\ Document(type[i], j)
  <1>1. stored' = After(DOMAIN Patch) /\ type[i] \in Types
    BY DEF Commit, Typed
  <1>2. DOMAIN Patch = {d \in dirty : world[d] # {}}
    BY DEF Patch
  <1>3. CASE i \notin DOMAIN Patch
    BY <1>1, <1>3 DEF After, Typed
  <1>4. CASE i \in DOMAIN Patch
    <2>1. PICK v \in ValuesOf(type[i]) : world[i] = {v}
      BY <1>2, <1>4 DEF Typed, OneValue
    <2>2. Patch[i] = Encoded(v)
      BY <1>2, <1>4, <2>1 DEF Patch
    <2>3. stored'[i] = Written(i)
      BY <1>1, <1>4 DEF After
    <2>4. CASE stored[i] = {}
      <3>1. stored'[i] = {Created(Encoded(v))}
        BY <2>2, <2>3, <2>4 DEF Written
      <3>2. QED
        BY <1>1, <3>1, EncodedIsDocument
    <2>5. ASSUME NEW old, stored[i] = {old}, Document(type[i], old)
          PROVE  \E j \in stored'[i] : stored'[i] = {j} /\ Document(type[i], j)
      <3>1. stored'[i] = {Updated(old, Encoded(v))}
        BY <2>2, <2>3, <2>5 DEF Written
      <3>2. QED
        BY <1>1, <2>5, <3>1, EncodedIsDocument, UpdatedIsDocument
    <2>6. QED
      BY <2>4, <2>5 DEF Typed
  <1>5. QED
    BY <1>3, <1>4

\* Types never change, and so it is enough to look at the new values and documents.
LEMMA TypedAgain ==
    ASSUME Typed, UNCHANGED fixed,
           compacting' \in BOOLEAN, live' \in BOOLEAN, dirty' \subseteq Items,
           world' = [i \in Items |-> world'[i]],
           \A i \in Items :
              /\ OneValue(type[i], world'[i]) /\ OneValue(type[i], committed'[i])
              /\ \/ stored'[i] = {}
                 \/ \E j \in stored'[i] : stored'[i] = {j} /\ Document(type[i], j)
    PROVE  Typed'
  <1>1. type' = type /\ kind' = kind /\ backend' = backend
    BY DEF fixed
  <1>2. FieldNames' = FieldNames
    BY <1>1 DEF FieldNames, Does
  <1>3. \A t : ValuesOf(t)' = ValuesOf(t)
    BY <1>2 DEF ValuesOf
  <1>4. ASSUME NEW i \in Items
        PROVE  OneValue(type[i], world[i])' /\ OneValue(type[i], committed[i])'
    BY <1>1, <1>3 DEF OneValue
  <1>5. ASSUME NEW i \in Items, NEW j, Document(type[i], j)
        PROVE  Document(type[i], j)'
    BY <1>1, <1>2, <1>3, <1>5 DEF Document, Fits
  <1>6. QED
    BY <1>1, <1>4, <1>5 DEF Typed

LEMMA TypedStep == ASSUME Typed, [Next]_vars PROVE Typed'
  <1> USE DEF Typed
  <1>1. ASSUME NEW i \in Items, NEW v \in ValuesOf(type[i]), Edit(i, v)
        PROVE  Typed'
    <2>1. \A k \in Items : world'[k] = IF k = i THEN {v} ELSE world[k]
      BY <1>1 DEF Edit
    <2>2. \A k \in Items : OneValue(type[k], world'[k])
      BY <2>1 DEF OneValue
    <2>3. QED
      BY <1>1, <2>2, TypedAgain DEF Edit
  <1>2. ASSUME NEW i \in Items, RemoveComponent(i)
        PROVE  Typed'
    <2>1. \A k \in Items : world'[k] = IF k = i THEN {} ELSE world[k]
      BY <1>2 DEF RemoveComponent
    <2>2. \A k \in Items : OneValue(type[k], world'[k])
      BY <2>1 DEF OneValue
    <2>3. QED
      BY <1>2, <2>2, TypedAgain DEF RemoveComponent
  <1>3. CASE Commit
    BY <1>3, CommitTyped, TypedAgain DEF Commit
  <1>4. ASSUME NEW how \in {"whole", "projected"}, Load(how)
        PROVE  Typed'
    <2>1. \A i \in Items : OneValue(type[i], Readable(how, i)) /\ OneValue(type[i], {})
      BY ReadableIsValue DEF OneValue
    <2>2. /\ world' = [i \in Items |-> world'[i]]
          /\ \A i \in Items : world'[i] \in {Readable(how, i), {}}
      BY <1>4 DEF Load
    <2>3. \A i \in Items : OneValue(type[i], world'[i])
      BY <2>1, <2>2
    <2>4. QED
      BY <1>4, <2>2, <2>3, TypedAgain DEF Load
  <1>5. CASE Restart
    <2>1. /\ world' = [i \in Items |-> world'[i]]
          /\ \A i \in Items : OneValue(type[i], world'[i])
      BY <1>5 DEF Restart, Nothing, OneValue
    <2>2. QED
      BY <1>5, <2>1, TypedAgain DEF Restart
  <1>6. CASE UNCHANGED vars
    BY <1>6, TypedAgain DEF vars
  <1>7. QED
    BY <1>1, <1>2, <1>3, <1>4, <1>5, <1>6 DEF Next

\* Whatever becomes of values and documents, decoders give values of the type, or refuse, and a
\* document holds one JSON for each item.
THEOREM TypeCorrect == Spec => []TypeOK
  <1>1. Init => Typed
    <2> SUFFICES ASSUME Init PROVE Typed
      OBVIOUS
    <2>1. world = Nothing /\ stored = Nothing /\ committed = Nothing
      BY DEF Init
    <2>2. QED
      BY <2>1 DEF Init, Typed, OneValue, Nothing
  <1>2. Typed /\ [Next]_vars => Typed'
    BY TypedStep
  <1>3. Typed => TypeOK
    <2> SUFFICES ASSUME Typed, NEW i \in Items
                 PROVE  /\ world[i] \subseteq ValuesOf(type[i]) /\ Cardinality(world[i]) <= 1
                        /\ committed[i] \subseteq ValuesOf(type[i])
                        /\ Cardinality(committed[i]) <= 1
                        /\ stored[i] \subseteq Json /\ Cardinality(stored[i]) <= 1
      BY DEF Typed, TypeOK
    <2>1. ASSUME NEW S, NEW T, S = {} \/ \E e \in T : S = {e}
          PROVE  S \subseteq T /\ Cardinality(S) <= 1
      <3>1. Cardinality({}) = 0 /\ \A e : Cardinality({e}) = 1
        BY FS_EmptySet, FS_Singleton
      <3>2. QED
        BY <2>1, <3>1
    <2>2. stored[i] = {} \/ \E j \in Json : stored[i] = {j}
      <3>1. type[i] \in Types
        BY DEF Typed
      <3>2. stored[i] = {} \/ \E j \in stored[i] : stored[i] = {j} /\ Document(type[i], j)
        BY DEF Typed
      <3>3. QED
        BY <3>1, <3>2, DocumentIsJson
    <2>3. QED
      BY <2>1, <2>2 DEF Typed, OneValue
  <1>4. QED
    BY <1>1, <1>2, <1>3, PTL DEF Spec

=============================================================================
