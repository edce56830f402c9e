---------------------------- MODULE ApiMirrorProofs ----------------------------
(***************************************************************************)
(* Theorems about ApiMirror, for every width of integers, every set of     *)
(* field names and numbers, and any number of edits and releases.          *)
(***************************************************************************)
EXTENDS ApiMirror, TLAPS

JsonValues == [form : {"null", "number", "digits", "minus", "word"}, n : Int]

LEMMA JsonIsRecords == Json \subseteq JsonValues /\ Refused \notin JsonValues
<1>1. {Null, Empty, Value("word", 1)} \subseteq JsonValues
  BY DEF JsonValues, Null, Empty, Value
<1>2. [form : {"number"}, n : Numbers] \subseteq JsonValues
  BY SerdeAssumption DEF JsonValues
<1>3. [form : {"digits", "minus"}, n : {n \in Numbers : n >= 0}] \subseteq JsonValues
  BY SerdeAssumption DEF JsonValues
<1>4. Refused \notin JsonValues
  BY SerdeAssumption DEF JsonValues
<1> QED
  BY <1>1, <1>2, <1>3, <1>4 DEF Json

LEMMA NullIsJson == Null \in JsonValues /\ \A n \in Int : Number(n) \in JsonValues
BY DEF Null, Number, Value, JsonValues

-----------------------------------------------------------------------------
(* What is installed is what was declared.                                 *)

\* Taking the groups of integers apart gives every integer field its type and
\* its adapter back: the encoding of a struct loses nothing.
LEMMA InstalledIntegers ==
  ASSUME NEW rust0, ~rust0.tagged,
         \A f \in DOMAIN rust0.fields : rust0.fields[f] \in Declarations
  PROVE  LET serde == Install(Collect(rust0))
             fields == rust0.fields
         IN /\ DOMAIN serde.integer_types = IntegerFields(fields)
            /\ \A f \in IntegerFields(fields) :
                 /\ serde.integer_types[f] = fields[f].ty
                 /\ f \in serde.deserialize_string_ints
                      <=> fields[f].adapter \in {"with", "deserialize_with"}
                 /\ f \in serde.string_ints <=> fields[f].adapter = "with"
<1> DEFINE fields == rust0.fields
           names(f) == {g \in IntegerFields(fields) :
                          IntegerSpec(fields[g]) = IntegerSpec(fields[f])}
           groupOf(f) == [spec |-> IntegerSpec(fields[f]), names |-> names(f)]
           groups == Collect(rust0).integers
           marked(marks) == {g \in groups : g.spec.mark \in marks}
           named(marks) == UNION {group.names : group \in marked(marks)}
           serde == Install(Collect(rust0))
<1>1. groups = {groupOf(f) : f \in IntegerFields(fields)}
  BY DEF Collect, EncodedStruct
<1>2. \A group \in groups : \A f \in group.names :
        f \in IntegerFields(fields) /\ group.spec = IntegerSpec(fields[f])
  <2> TAKE group \in groups
  <2> TAKE f \in group.names
  <2>0. PICK g \in IntegerFields(fields) : group = groupOf(g)
    BY <1>1
  <2>1. groupOf(g).names = names(g) /\ groupOf(g).spec = IntegerSpec(fields[g])
    OBVIOUS
  <2> QED
    BY <2>0, <2>1
<1>3. \A f \in IntegerFields(fields) :
        /\ groupOf(f) \in groups
        /\ f \in groupOf(f).names
        /\ groupOf(f).spec = IntegerSpec(fields[f])
  <2> TAKE f \in IntegerFields(fields)
  <2>1. groupOf(f).names = names(f) /\ groupOf(f).spec = IntegerSpec(fields[f])
    OBVIOUS
  <2>2. f \in names(f)
    OBVIOUS
  <2>3. groupOf(f) \in groups
    BY <1>1
  <2> QED
    BY <2>1, <2>2, <2>3
<1> HIDE DEF groupOf, groups
<1>4. ASSUME NEW marks
      PROVE  \A f : f \in named(marks)
                      <=> f \in IntegerFields(fields) /\ Mark(fields[f]) \in marks
  <2>1. \A d : IntegerSpec(d).mark = Mark(d)
    BY DEF IntegerSpec
  <2>2. ASSUME NEW f \in named(marks)
        PROVE  f \in IntegerFields(fields) /\ Mark(fields[f]) \in marks
    <3>1. PICK group \in groups : f \in group.names /\ group.spec.mark \in marks
      OBVIOUS
    <3> QED
      BY <3>1, <1>2, <2>1
  <2>3. ASSUME NEW f \in IntegerFields(fields), Mark(fields[f]) \in marks
        PROVE  f \in named(marks)
    <3>1. groupOf(f) \in marked(marks)
      BY <1>3, <2>1, <2>3
    <3> QED
      BY <3>1, <1>3
  <2> QED
    BY <2>2, <2>3
<1>5. \A f : /\ Mark(fields[f]) \in {"", "#", "~"}
             /\ Mark(fields[f]) \in {"#", "~"}
                  <=> fields[f].adapter \in {"with", "deserialize_with"}
             /\ Mark(fields[f]) \in {"#"} <=> fields[f].adapter = "with"
  BY DEF Mark
<1>6. /\ named({"", "#", "~"}) = IntegerFields(fields)
      /\ \A f \in IntegerFields(fields) :
           /\ f \in named({"#", "~"})
                <=> fields[f].adapter \in {"with", "deserialize_with"}
           /\ f \in named({"#"}) <=> fields[f].adapter = "with"
  <2> HIDE DEF named
  <2> QED
    BY <1>4, <1>5
<1>7. /\ serde.integer_types =
           [f \in named({"", "#", "~"}) |->
              (CHOOSE group \in groups : f \in group.names).spec.ty]
      /\ serde.deserialize_string_ints = named({"#", "~"})
      /\ serde.string_ints = named({"#"})
  BY DEF Install, groups
<1>8. ASSUME NEW f \in IntegerFields(fields)
      PROVE  (CHOOSE group \in groups : f \in group.names).spec.ty = fields[f].ty
  <2> DEFINE chosen == CHOOSE group \in groups : f \in group.names
  <2>1. chosen \in groups /\ f \in chosen.names
    BY <1>3
  <2>2. chosen.spec = IntegerSpec(fields[f])
    BY <2>1, <1>2
  <2> QED
    BY <2>2 DEF IntegerSpec
<1>9. /\ DOMAIN serde.integer_types = IntegerFields(fields)
      /\ \A f \in IntegerFields(fields) : serde.integer_types[f] = fields[f].ty
  <2> DEFINE type(f) == (CHOOSE group \in groups : f \in group.names).spec.ty
  <2>1. serde.integer_types = [f \in IntegerFields(fields) |-> type(f)]
    BY <1>6, <1>7, Zenon
  <2>2. \A f \in IntegerFields(fields) : type(f) = fields[f].ty
    BY <1>8
  <2> HIDE DEF type, serde, named
  <2> QED
    BY <2>1, <2>2
<1> HIDE DEF named, serde
<1> QED
  BY <1>6, <1>7, <1>9 DEF serde

-----------------------------------------------------------------------------
(* One field.                                                              *)

LEMMA Shapes ==
  /\ Null \in JsonValues /\ Null.form = "null" /\ Empty \in JsonValues
  /\ Empty.form = "word" /\ Empty # Null
  /\ \A n \in Int : /\ Number(n) \in JsonValues /\ Number(n) # Null
                    /\ Number(n).form = "number" /\ Number(n).n = n
  /\ \A v \in JsonValues : v = Null => v.form # "number"
BY DEF Null, Empty, Number, Value, JsonValues

LEMMA RefusedIsNoValue == Refused \notin JsonValues /\ Refused # Null
BY JsonIsRecords, NullIsJson

LEMMA SpelledIsNumber ==
  ASSUME NEW v \in JsonValues, NEW ty
  PROVE  \/ Spelled(v, ty) = Refused
         \/ Spelled(v, ty) \in JsonValues /\ Spelled(v, ty).form = "number"
<1>1. v.n \in Int
  BY DEF JsonValues
<1> QED
  BY <1>1, Shapes DEF Spelled

\* An integer that is not null is read from a struct as Rust reads it.
LEMMA StructIntegerReads ==
  ASSUME NEW serde, NEW d \in Declarations, d.ty # "str", NEW f,
         NEW v \in JsonValues, v # Null,
         serde.integer_types[f] = d.ty,
         f \in serde.deserialize_string_ints
           <=> d.adapter \in {"with", "deserialize_with"}
  PROVE  StructInteger(serde, "int", v, f) = RustInteger(d, v)
<1> DEFINE w == IF v.form # "number" /\ d.adapter \in {"with", "deserialize_with"}
                THEN Spelled(v, d.ty) ELSE v
           p == IF f \in serde.deserialize_string_ints THEN WireInt(v, d.ty) ELSE v
<1>1. p = w
  BY DEF WireInt
<1>2. w = Refused \/ (w \in JsonValues /\ w # Null)
  BY SpelledIsNumber, Shapes
<1>3. RustInteger(d, v) =
        IF w # Refused /\ w.form = "number" /\ InRange(w.n, d.ty) THEN w ELSE Refused
  BY DEF RustInteger
<1>4. StructInteger(serde, "int", v, f) =
        IF p = Refused \/ FromSerde(p, "int") = Refused THEN Refused
        ELSE SizedInteger(p, d.ty)
  BY DEF StructInteger
<1> HIDE DEF w, p
<1>5. CASE w = Refused
  BY <1>1, <1>3, <1>4, <1>5
<1>6. CASE w \in JsonValues /\ w # Null
  <2>1. w # Refused
    BY <1>6, RefusedIsNoValue
  <2>2. FromSerde(w, "int") = IF w.form = "number" THEN w ELSE Refused
    BY <1>6 DEF FromSerde
  <2>3. SizedInteger(w, d.ty) =
          IF w.form = "number" /\ InRange(w.n, d.ty) THEN w ELSE Refused
    BY <1>6 DEF SizedInteger
  <2> QED
    BY <1>1, <1>3, <1>4, <2>1, <2>2, <2>3
<1> QED
  BY <1>2, <1>5, <1>6

\* What a struct misses in a text, seen from one field.
Misses(d, text, f, read) ==
  \/ Required(d) /\ read = Null
  \/ d.opt /\ d.default = "no" /\ d.adapter # "none" /\ f \notin DOMAIN text

\* A field of a struct is read as Rust reads it, unless it is missed, and
\* then Rust refuses it too.
LEMMA StructFieldReads ==
  ASSUME NEW serde, NEW api0, NEW text, NEW f, NEW d \in Declarations,
         api0.fields[f] = HandField(d),
         f \in DOMAIN serde.integer_types <=> d.ty # "str",
         d.ty # "str" =>
           /\ serde.integer_types[f] = d.ty
           /\ f \in serde.deserialize_string_ints
                <=> d.adapter \in {"with", "deserialize_with"},
         f \in DOMAIN text => text[f] \in JsonValues
  PROVE  LET read == StructField(serde, api0, text, f)
         IN  RustField(d, text, f) = IF Misses(d, text, f, read) THEN Refused ELSE read
<1> DEFINE read == StructField(serde, api0, text, f)
<1>1. /\ d.opt \in BOOLEAN
      /\ d.ty \in {"uint", "int", "str"}
      /\ d.default \in {"no", "type", "function"}
      /\ d.adapter \in {"none", "with", "deserialize_with", "nullable"}
      /\ d.ty = "str" => d.adapter = "none"
      /\ d.default = "function" => ~d.opt /\ d.ty # "str"
  BY DEF Declarations
<1>2. /\ HasDefault(api0, f) <=> (~d.opt /\ d.default # "no")
      /\ api0.fields[f].ty = IF d.ty = "str" THEN "str" ELSE "int"
      /\ ~d.opt => api0.fields[f].default = d.default
  BY <1>1 DEF HasDefault, HandField
<1>3. CASE f \in DOMAIN text
  <2> DEFINE v == text[f]
  <2>1. v \in JsonValues
    BY <1>3
  <2>2. read = StructValue(serde, api0, v, f) /\ RustField(d, text, f) = RustValue(d, v)
    BY <1>3 DEF StructField, RustField
  <2>3. Misses(d, text, f, read) <=> Required(d) /\ read = Null
    BY <1>3 DEF Misses
  <2> HIDE DEF read, v
  <2>4. CASE v = Null
    <3>1. read = IF ~d.opt /\ d.default # "no" THEN Refused ELSE Null
      BY <2>2, <2>4, <1>2 DEF StructValue
    <3>2. RustField(d, text, f) = IF d.opt THEN Null ELSE Refused
      BY <2>2, <2>4 DEF RustValue
    <3> QED
      BY <3>1, <3>2, <2>3, <1>1 DEF Required, read
  <2>5. CASE v # Null /\ d.ty # "str"
    <3>1. read = StructInteger(serde, "int", v, f)
      BY <2>2, <2>5, <1>2 DEF StructValue
    <3>2. RustField(d, text, f) = RustInteger(d, v)
      BY <2>2, <2>5 DEF RustValue
    <3>3. read = RustField(d, text, f)
      BY <3>1, <3>2, <2>1, <2>5, StructIntegerReads
    <3>4. RustInteger(d, v) # Null
      BY <2>1, <2>5, SpelledIsNumber, RefusedIsNoValue, Shapes DEF RustInteger
    <3> QED
      BY <3>2, <3>3, <3>4, <2>3 DEF read
  <2>6. CASE v # Null /\ d.ty = "str"
    <3>1. read = FromSerde(v, "str")
      BY <2>2, <2>6, <1>2 DEF StructValue
    <3>2. RustField(d, text, f) = IF v.form # "number" THEN v ELSE Refused
      BY <2>2, <2>6 DEF RustValue
    <3>3. read = RustField(d, text, f) /\ read # Null
      BY <3>1, <3>2, <2>6, RefusedIsNoValue DEF FromSerde
    <3> QED
      BY <3>3, <2>3 DEF read
  <2> QED
    BY <2>4, <2>5, <2>6
<1>4. CASE f \notin DOMAIN text
  <2>1. read = IF ~d.opt /\ d.default # "no" THEN DefaultOf(api0.fields[f].ty, d.default)
               ELSE Null
    BY <1>2, <1>4 DEF StructField, HandDefault
  <2>2. DefaultOf(api0.fields[f].ty, d.default) = DefaultOf(d.ty, d.default)
    BY <1>1, <1>2 DEF DefaultOf
  <2>3. DefaultOf(d.ty, d.default) # Null
    BY Shapes DEF DefaultOf
  <2>4. RustField(d, text, f) =
          IF d.opt /\ Absentable(d) THEN Null
          ELSE IF d.default # "no" THEN DefaultOf(d.ty, d.default)
          ELSE Refused
    BY <1>4 DEF RustField
  <2> HIDE DEF read
  <2>5. CASE d.opt
    BY <2>1, <2>4, <2>5, <1>4, <1>1 DEF Misses, Required, Absentable, read
  <2>6. CASE ~d.opt
    BY <2>1, <2>2, <2>3, <2>4, <2>6, <1>4, <1>1 DEF Misses, Required, read
  <2> QED
    BY <2>5, <2>6, <1>1
<1> QED
  BY <1>3, <1>4

\* A field of a variant is read as Rust reads it, but for null at a required
\* integer without an adapter.
LEMMA VariantFieldReads ==
  ASSUME NEW d \in VariantDeclarations, Supported(d), NEW f, NEW text,
         f \in DOMAIN text => text[f] \in JsonValues,
         ~(f \in DOMAIN text /\ text[f] = Null
             /\ d.ty # "str" /\ ~d.opt /\ d.adapter = "none")
  PROVE  VariantField(FieldSpec(d), text, f) = RustField(d, text, f)
<1> DEFINE spec == FieldSpec(d)
<1> SUFFICES VariantField(spec, text, f) = RustField(d, text, f)
  OBVIOUS
<1>1. /\ d.opt \in BOOLEAN
      /\ d.ty \in {"uint", "int", "str"}
      /\ d.default \in {"no", "type"}
      /\ d.adapter \in {"none", "with", "deserialize_with", "nullable"}
      /\ d.ty = "str" => d.adapter = "none"
      /\ d.opt => d.adapter = "none"
      /\ d.adapter = "nullable" => d.opt
  BY DEF VariantDeclarations, Declarations, Supported
<1>2. /\ spec.ty = d.ty /\ spec.opt = d.opt
      /\ spec.default <=> d.default # "no"
      /\ spec.mark # "" <=> d.adapter \in {"with", "deserialize_with"}
  BY <1>1 DEF FieldSpec, Mark
<1> HIDE DEF spec
<1>3. ASSUME NEW v \in JsonValues,
             ~(v = Null /\ d.ty # "str" /\ ~d.opt /\ d.adapter = "none")
      PROVE  VariantValue(spec, v, TRUE) = RustValue(d, v)
  <2>1. CASE v = Null
    <3>1. Spelled(Null, d.ty) = Refused
      BY Shapes DEF Spelled, Null, Value
    <3>2. WireInt(Null, d.ty) = Refused
      BY <3>1, Shapes DEF WireInt
    <3> QED
      BY <2>1, <1>3, <1>1, <1>2, <3>2 DEF VariantValue, RustValue
  <2>2. CASE v # Null /\ d.ty = "str"
    BY <2>2, <1>2 DEF VariantValue, RustValue, FromSerde
  <2>3. CASE v # Null /\ d.ty # "str"
    <3> DEFINE w == IF v.form # "number" /\ d.adapter \in {"with", "deserialize_with"}
                    THEN Spelled(v, d.ty) ELSE v
               p == IF spec.mark # "" /\ TRUE THEN WireInt(v, spec.ty) ELSE v
    <3>1. p = w
      BY <1>2 DEF WireInt
    <3>2. w = Refused \/ w # Null
      BY <2>3, SpelledIsNumber, Shapes
    <3>3. RustValue(d, v) =
            IF w # Refused /\ w.form = "number" /\ InRange(w.n, d.ty) THEN w ELSE Refused
      BY <2>3 DEF RustValue, RustInteger
    <3>4. VariantValue(spec, v, TRUE) = IF p = Refused THEN Refused ELSE SizedInteger(p, d.ty)
      BY <2>3, <1>2 DEF VariantValue
    <3> HIDE DEF w, p
    <3> QED
      BY <3>1, <3>2, <3>3, <3>4 DEF SizedInteger
  <2> QED
    BY <2>1, <2>2, <2>3
<1>4. CASE f \in DOMAIN text
  BY <1>3, <1>4 DEF VariantField, RustField
<1>5. CASE f \notin DOMAIN text
  <2>1. VariantField(spec, text, f) =
          IF d.opt \/ d.default # "no" THEN VariantValue(spec, DefaultSpec(spec), TRUE)
          ELSE Refused
    BY <1>2, <1>5 DEF VariantField
  <2>2. RustField(d, text, f) =
          IF d.opt THEN Null
          ELSE IF d.default # "no" THEN DefaultOf(d.ty, "type") ELSE Refused
    BY <1>1, <1>5 DEF RustField, Absentable, DefaultOf
  <2>3. CASE d.opt
    BY <2>1, <2>2, <2>3, <1>2 DEF DefaultSpec, VariantValue
  <2>4. CASE ~d.opt
    <3>1. DefaultSpec(spec) = DefaultOf(d.ty, "type")
      BY <2>4, <1>2 DEF DefaultSpec
    <3>2. DefaultOf(d.ty, "type") = IF d.ty = "str" THEN Empty ELSE Number(0)
      BY DEF DefaultOf
    <3>3. InRange(0, d.ty)
      BY SerdeAssumption DEF InRange
    <3>4. RustValue(d, DefaultOf(d.ty, "type")) = DefaultOf(d.ty, "type")
      BY <3>2, <3>3, Shapes, RefusedIsNoValue DEF RustValue, RustInteger
    <3>5. DefaultOf(d.ty, "type") \in JsonValues /\ DefaultOf(d.ty, "type") # Null
      BY <3>2, Shapes
    <3>6. VariantValue(spec, DefaultOf(d.ty, "type"), TRUE) = DefaultOf(d.ty, "type")
      BY <3>4, <3>5, <1>3
    <3> QED
      <4>1. VariantValue(spec, DefaultSpec(spec), TRUE) = DefaultOf(d.ty, "type")
        BY <3>1, <3>6, Zenon
      <4> QED
        BY <2>1, <2>2, <2>4, <4>1, <1>1
  <2> QED
    BY <2>3, <2>4, <1>1
<1> QED
  BY <1>4, <1>5

-----------------------------------------------------------------------------
(* A whole DTO.                                                            *)

\* The keys of a text are fields, and its values are JSON.
IsText(text) == \A f \in DOMAIN text : text[f] \in JsonValues

LEMMA TextsAreTexts == \A text \in Texts : IsText(text)
BY JsonIsRecords DEF Texts, IsText

\* A struct whose tables are generated and repeated by hand from a declaration
\* is read as Rust reads it.
LEMMA StructReadsAsRust ==
  ASSUME NEW rust0, NEW api0, NEW text, IsText(text), ~rust0.tagged,
         \A f \in DOMAIN rust0.fields : rust0.fields[f] \in Declarations,
         DOMAIN api0.fields = DOMAIN rust0.fields,
         \A f \in DOMAIN rust0.fields : api0.fields[f] = HandField(rust0.fields[f]),
         api0.deny <=> rust0.deny
  PROVE  StructReads(Install(Collect(rust0)), api0, text) = RustReads(rust0, text)
<1> DEFINE serde == Install(Collect(rust0))
           fields == rust0.fields
           read(f) == StructField(serde, api0, text, f)
           object == [f \in DOMAIN api0.fields |-> read(f)]
           heard == [f \in DOMAIN fields |-> RustField(fields[f], text, f)]
           missing == MissingFields(serde, api0, text, object)
<1>1. /\ serde.required = RequiredFields(fields)
      /\ serde.required_nullable = RequiredNullableFields(fields)
  BY DEF Install, Collect
<1>2. ASSUME NEW f \in DOMAIN fields
      PROVE  RustField(fields[f], text, f) =
               IF Misses(fields[f], text, f, read(f)) THEN Refused ELSE read(f)
  <2>1. f \in IntegerFields(fields) <=> fields[f].ty # "str"
    BY DEF IntegerFields
  <2>2. /\ f \in DOMAIN serde.integer_types <=> fields[f].ty # "str"
        /\ fields[f].ty # "str" =>
             /\ serde.integer_types[f] = fields[f].ty
             /\ f \in serde.deserialize_string_ints
                  <=> fields[f].adapter \in {"with", "deserialize_with"}
    BY <2>1, InstalledIntegers, Zenon
  <2>3. f \in DOMAIN text => text[f] \in JsonValues
    BY DEF IsText
  <2> HIDE DEF serde
  <2> QED
    BY <2>2, <2>3, StructFieldReads
<1>3. ASSUME NEW f \in DOMAIN fields
      PROVE  f \in missing <=> Misses(fields[f], text, f, read(f))
  <2>1. object[f] = read(f) /\ f \in DOMAIN object /\ f \in DOMAIN api0.fields
    BY Zenon
  <2>2. HasDefault(api0, f) => ~fields[f].opt
    <3>1. api0.fields[f] = HandField(fields[f])
      OBVIOUS
    <3> HIDE DEF serde, object, fields
    <3> QED
      BY <3>1 DEF HasDefault, HandField
  <2>3. f \in RequiredFields(fields) <=> Required(fields[f])
    BY DEF RequiredFields
  <2>4. f \in RequiredNullableFields(fields) <=>
          fields[f].opt /\ fields[f].default = "no" /\ fields[f].adapter # "none"
    BY DEF RequiredNullableFields
  <2> HIDE DEF object, serde, read
  <2> QED
    BY <1>1, <2>1, <2>2, <2>3, <2>4 DEF MissingFields, Misses
<1>4. missing \subseteq DOMAIN fields
  <2> HIDE DEF object, serde
  <2> QED
    BY <1>1 DEF MissingFields, RequiredFields, RequiredNullableFields
<1>5. StructReads(serde, api0, text) =
        IF (api0.deny /\ ~(DOMAIN text \subseteq DOMAIN api0.fields)) \/ missing # {}
        THEN Refused ELSE Whole(object)
  BY DEF StructReads
<1>6. RustReads(rust0, text) =
        IF rust0.deny /\ ~(DOMAIN text \subseteq DOMAIN fields) THEN Refused
        ELSE Whole(heard)
  BY DEF RustReads
<1>7. DOMAIN heard = DOMAIN fields
      /\ \A f \in DOMAIN fields : heard[f] = RustField(fields[f], text, f)
  OBVIOUS
<1> HIDE DEF missing, read, serde
<1>8. CASE missing # {}
  <2>1. PICK f \in DOMAIN fields : f \in missing
    BY <1>4, <1>8
  <2>2. heard[f] = Refused
    BY <2>1, <1>2, <1>3, <1>7
  <2>3. Whole(heard) = Refused
    BY <2>2, <1>7 DEF Whole
  <2> HIDE DEF heard, object
  <2> QED
    BY <2>3, <1>5, <1>6, <1>8 DEF serde
<1>9. CASE missing = {}
  <2>1. \A f \in DOMAIN fields : RustField(fields[f], text, f) = read(f)
    BY <1>2, <1>3, <1>9
  <2>2. heard = object
    BY <2>1
  <2> HIDE DEF heard, object
  <2> QED
    BY <2>2, <1>5, <1>6, <1>9 DEF serde
<1> QED
  BY <1>8, <1>9 DEF serde

\* A variant whose schema is generated from a declaration is read as Rust
\* reads it, but for the null that is not modelled as refused.
LEMMA VariantReadsAsRust ==
  ASSUME NEW rust0, NEW text, IsText(text), rust0.tagged,
         \A f \in DOMAIN rust0.fields : rust0.fields[f] \in VariantDeclarations,
         Collectable(rust0), ~NullForInteger(rust0, text)
  PROVE  VariantReads(Install(Collect(rust0)), text) = RustReads(rust0, text)
<1> DEFINE serde == Install(Collect(rust0))
           fields == rust0.fields
<1>1. /\ serde.variant = [f \in DOMAIN fields |-> FieldSpec(fields[f])]
      /\ serde.variant_deny = rust0.deny
  BY DEF Install, Collect
<1>2. ASSUME NEW f \in DOMAIN fields
      PROVE  VariantField(serde.variant[f], text, f) = RustField(fields[f], text, f)
  <2>1. serde.variant[f] = FieldSpec(fields[f])
    BY <1>1
  <2>2. Supported(fields[f])
    BY DEF Collectable
  <2>3. ~(f \in DOMAIN text /\ text[f] = Null /\ fields[f].ty # "str"
            /\ ~fields[f].opt /\ fields[f].adapter = "none")
    BY DEF NullForInteger
  <2>4. f \in DOMAIN text => text[f] \in JsonValues
    BY DEF IsText
  <2> QED
    BY <2>1, <2>2, <2>3, <2>4, VariantFieldReads
<1> HIDE DEF serde
<1>3. DOMAIN serde.variant = DOMAIN fields
  BY <1>1
<1>4. [f \in DOMAIN serde.variant |-> VariantField(serde.variant[f], text, f)]
        = [f \in DOMAIN fields |-> RustField(fields[f], text, f)]
  BY <1>2, <1>3
<1>5. VariantReads(serde, text) = RustReads(rust0, text)
  BY <1>1, <1>3, <1>4, Zenon DEF VariantReads, RustReads
<1> QED
  BY <1>5 DEF serde

-----------------------------------------------------------------------------
(* Writing what was read.                                                  *)

\* A value that a declaration lets a field hold.
Fits(d, v) ==
  \/ v = Null /\ d.opt
  \/ v \in JsonValues /\ v.form = "number" /\ d.ty # "str" /\ InRange(v.n, d.ty)
  \/ v \in JsonValues /\ v.form # "number" /\ v # Null /\ d.ty = "str"

LEMMA ReadValuesFit ==
  ASSUME NEW d \in Declarations, NEW text, IsText(text), NEW f,
         RustField(d, text, f) # Refused
  PROVE  Fits(d, RustField(d, text, f))
<1>1. /\ d.opt \in BOOLEAN
      /\ d.ty \in {"uint", "int", "str"}
      /\ d.default \in {"no", "type", "function"}
      /\ d.default = "function" => ~d.opt /\ d.ty # "str"
  BY DEF Declarations
<1>2. CASE f \in DOMAIN text
  <2>1. text[f] \in JsonValues /\ RustField(d, text, f) = RustValue(d, text[f])
    BY <1>2 DEF IsText, RustField
  <2>2. CASE text[f] = Null
    BY <2>1, <2>2 DEF RustValue, Fits
  <2>3. CASE text[f] # Null /\ d.ty = "str"
    BY <2>1, <2>3 DEF RustValue, Fits
  <2>4. CASE text[f] # Null /\ d.ty # "str"
    <3> DEFINE v == text[f]
               w == IF v.form # "number" /\ d.adapter \in {"with", "deserialize_with"}
                    THEN Spelled(v, d.ty) ELSE v
    <3>1. RustValue(d, v) =
            IF w # Refused /\ w.form = "number" /\ InRange(w.n, d.ty) THEN w ELSE Refused
      BY <2>4 DEF RustValue, RustInteger
    <3>2. w # Refused => w \in JsonValues
      BY <2>1, SpelledIsNumber
    <3> HIDE DEF w, v
    <3>3. RustField(d, text, f) = RustValue(d, v)
      BY <2>1 DEF v
    <3> QED
      BY <3>1, <3>2, <3>3, <2>4 DEF Fits
  <2> QED
    BY <2>2, <2>3, <2>4
<1>3. CASE f \notin DOMAIN text
  <2>1. RustField(d, text, f) =
          IF d.opt /\ Absentable(d) THEN Null
          ELSE IF d.default # "no" THEN DefaultOf(d.ty, d.default)
          ELSE Refused
    BY <1>3 DEF RustField
  <2>2. InRange(0, d.ty) /\ InRange(1, d.ty)
    BY SerdeAssumption DEF InRange
  <2>3. d.default # "no" => Fits(d, DefaultOf(d.ty, d.default))
    BY <1>1, <2>2, Shapes DEF DefaultOf, Fits
  <2> QED
    BY <2>1, <2>3 DEF Fits
<1> QED
  BY <1>2, <1>3

LEMMA SpelledOut == \A v \in JsonValues : Spell(v) \in JsonValues /\ Spell(v) # Null
BY DEF Spell, JsonValues, Value, Null

\* What Rust reads is a value that fits, in every field declared.
LEMMA ReadObjectsFit ==
  ASSUME NEW rust0, NEW text, IsText(text),
         \A f \in DOMAIN rust0.fields : rust0.fields[f] \in Declarations,
         RustReads(rust0, text) # Refused
  PROVE  LET object == RustReads(rust0, text)
         IN  /\ DOMAIN object = DOMAIN rust0.fields
             /\ \A f \in DOMAIN object : Fits(rust0.fields[f], object[f])
<1> DEFINE heard == [f \in DOMAIN rust0.fields |-> RustField(rust0.fields[f], text, f)]
<1>1. RustReads(rust0, text) = Whole(heard)
  BY DEF RustReads
<1>2. /\ DOMAIN heard = DOMAIN rust0.fields
      /\ \A f \in DOMAIN heard : heard[f] = RustField(rust0.fields[f], text, f)
  OBVIOUS
<1> HIDE DEF heard
<1>3. Whole(heard) = heard /\ \A f \in DOMAIN heard : heard[f] # Refused
  BY <1>1 DEF Whole
<1>4. \A f \in DOMAIN heard : Fits(rust0.fields[f], heard[f])
  BY <1>2, <1>3, ReadValuesFit
<1> QED
  BY <1>1, <1>2, <1>3, <1>4

LEMMA StructWritesAsRust ==
  ASSUME NEW rust0, NEW api0, NEW object, ~rust0.tagged,
         \A f \in DOMAIN rust0.fields : rust0.fields[f] \in Declarations,
         \A f \in DOMAIN rust0.fields : api0.fields[f] = HandField(rust0.fields[f]),
         DOMAIN object = DOMAIN rust0.fields,
         \A f \in DOMAIN object : Fits(rust0.fields[f], object[f])
  PROVE  StructWrites(Install(Collect(rust0)), api0, object) = RustWrites(rust0, object)
<1> DEFINE serde == Install(Collect(rust0))
           fields == rust0.fields
           kept == {f \in DOMAIN object : \/ Filled(api0, object, f) # Null
                                          \/ f \in serde.required
                                          \/ ~api0.fields[f].skip}
           out(f) == StructOutput(serde, Filled(api0, object, f), api0.fields[f].ty, f)
           written(f) == IF object[f] # Null /\ fields[f].adapter = "with"
                         THEN Spell(object[f]) ELSE object[f]
<1>1. serde.required = RequiredFields(fields)
  BY DEF Install, Collect
<1>2. ASSUME NEW f \in DOMAIN object
      PROVE  /\ Filled(api0, object, f) = object[f]
             /\ f \in serde.required => object[f] # Null
             /\ api0.fields[f].skip = fields[f].skip
             /\ out(f) = written(f) /\ out(f) # Refused
  <2> DEFINE d == fields[f]
             v == object[f]
  <2>1. f \in DOMAIN fields /\ d \in Declarations /\ Fits(d, v)
    OBVIOUS
  <2>2. api0.fields[f] = HandField(d)
    OBVIOUS
  <2>3. f \in serde.required => ~d.opt
    BY <1>1 DEF RequiredFields, Required
  <2>4. /\ f \in DOMAIN serde.integer_types <=> d.ty # "str"
        /\ d.ty # "str" => /\ serde.integer_types[f] = d.ty
                           /\ f \in serde.string_ints <=> d.adapter = "with"
    <3>1. f \in IntegerFields(fields) <=> d.ty # "str"
      BY <2>1 DEF IntegerFields
    <3> QED
      BY <3>1, InstalledIntegers, Zenon
  <2> HIDE DEF serde, d, fields
  <2>5. /\ HasDefault(api0, f) => ~d.opt
        /\ api0.fields[f].ty = IF d.ty = "str" THEN "str" ELSE "int"
        /\ api0.fields[f].skip = d.skip
    BY <2>2 DEF HasDefault, HandField
  <2>6. Filled(api0, object, f) = v /\ (f \in serde.required => v # Null)
    BY <2>1, <2>3, <2>5, Shapes DEF Filled, Fits
  <2>7. out(f) = StructOutput(serde, v, api0.fields[f].ty, f)
    BY <2>6
  <2>8. d.ty = "str" => d.adapter = "none"
    BY <2>1 DEF Declarations
  <2> HIDE DEF out, v
  <2>9. v = Null \/ v \in JsonValues
    BY <2>1 DEF Fits
  <2>10. CASE v = Null
    <3>1. out(f) = Null
      BY <2>6, <2>7, <2>10 DEF StructOutput
    <3>2. written(f) = Null
      BY <2>10 DEF v
    <3> QED
      BY <3>1, <3>2, <2>5, <2>6, RefusedIsNoValue DEF v, d
  <2>11. CASE v # Null /\ d.ty = "str"
    <3>1. v.form # "number"
      BY <2>1, <2>11 DEF Fits
    <3>2. out(f) = v
      BY <2>4, <2>5, <2>7, <2>11, <3>1 DEF StructOutput, FromSerde
    <3>3. written(f) = v
      BY <2>8, <2>11 DEF v, d
    <3> QED
      BY <2>5, <2>6, <2>9, <2>11, <3>2, <3>3, RefusedIsNoValue DEF v, d
  <2>12. CASE v # Null /\ d.ty # "str"
    <3>1. v.form = "number" /\ InRange(v.n, d.ty)
      BY <2>1, <2>12 DEF Fits
    <3>2. SizedInteger(v, d.ty) = v
      BY <3>1 DEF SizedInteger
    <3>3. out(f) = IF d.adapter = "with" THEN Spell(v) ELSE v
      BY <2>4, <2>7, <2>9, <2>12, <3>2, RefusedIsNoValue DEF StructOutput
    <3>4. out(f) = written(f)
      BY <3>3, <2>12 DEF v, d
    <3>5. out(f) # Refused
      BY <3>3, <2>9, <2>12, SpelledOut, RefusedIsNoValue
    <3> QED
      BY <2>5, <2>6, <3>4, <3>5 DEF v, d
  <2> QED
    BY <2>5, <2>6, <2>10, <2>11, <2>12, RefusedIsNoValue DEF v, d
<1>3. kept = {f \in DOMAIN object : object[f] # Null \/ ~fields[f].skip}
  <2> HIDE DEF serde
  <2> QED
    BY <1>2
<1>4. StructWrites(serde, api0, object) = Whole([f \in kept |-> out(f)])
  BY DEF StructWrites
<1>5. RustWrites(rust0, object) = [f \in kept |-> written(f)]
  BY <1>3 DEF RustWrites
<1>6. kept \subseteq DOMAIN object
  OBVIOUS
<1> HIDE DEF serde, out, written, kept
<1>7. [f \in kept |-> out(f)] = [f \in kept |-> written(f)]
  BY <1>2, <1>6
<1>8. Whole([f \in kept |-> out(f)]) = [f \in kept |-> out(f)]
  BY <1>2, <1>6 DEF Whole
<1> QED
  BY <1>4, <1>5, <1>7, <1>8 DEF serde

LEMMA VariantWritesAsRust ==
  ASSUME NEW rust0, NEW object, rust0.tagged, Collectable(rust0),
         \A f \in DOMAIN rust0.fields : rust0.fields[f] \in Declarations,
         DOMAIN object = DOMAIN rust0.fields,
         \A f \in DOMAIN object : Fits(rust0.fields[f], object[f])
  PROVE  VariantWrites(Install(Collect(rust0)), object) = RustWrites(rust0, object)
<1> DEFINE serde == Install(Collect(rust0))
           fields == rust0.fields
           out(f) == VariantOutput(serde.variant[f], object[f])
           written(f) == IF object[f] # Null /\ fields[f].adapter = "with"
                         THEN Spell(object[f]) ELSE object[f]
<1>1. serde.variant = [f \in DOMAIN fields |-> FieldSpec(fields[f])]
  BY DEF Install, Collect
<1>2. ASSUME NEW f \in DOMAIN fields
      PROVE  out(f) = written(f) /\ out(f) # Refused /\ ~fields[f].skip
  <2> DEFINE d == fields[f]
             v == object[f]
             spec == FieldSpec(d)
  <2>1. d \in Declarations /\ Fits(d, v) /\ Supported(d)
    BY DEF Collectable
  <2>2. out(f) = VariantOutput(spec, v)
    BY <1>1
  <2>3. spec.ty = d.ty /\ spec.opt = d.opt /\ (spec.mark = "#" <=> d.adapter = "with")
    BY DEF FieldSpec, Mark
  <2>4. d.ty = "str" => d.adapter = "none"
    BY <2>1 DEF Declarations
  <2> HIDE DEF out, d, v, spec
  <2>5. v = Null \/ v \in JsonValues
    BY <2>1 DEF Fits
  <2>6. VariantValue(spec, v, FALSE) = v
    <3>1. CASE v = Null
      BY <3>1, <2>1, <2>3, Shapes DEF Fits, VariantValue
    <3>2. CASE v # Null /\ d.ty = "str"
      BY <3>2, <2>1, <2>3 DEF Fits, VariantValue, FromSerde
    <3>3. CASE v # Null /\ d.ty # "str"
      <4>1. SizedInteger(v, d.ty) = v
        BY <3>3, <2>1 DEF Fits, SizedInteger
      <4>2. v # Refused
        BY <2>5, RefusedIsNoValue
      <4> QED
        BY <3>3, <4>1, <4>2, <2>3 DEF VariantValue
    <3> QED
      BY <3>1, <3>2, <3>3
  <2>7. out(f) = IF v # Null /\ d.adapter = "with" THEN Spell(v) ELSE v
    BY <2>2, <2>3, <2>5, <2>6, RefusedIsNoValue DEF VariantOutput
  <2>8. out(f) = written(f)
    BY <2>7 DEF d, v
  <2>9. out(f) # Refused
    BY <2>5, <2>7, SpelledOut, RefusedIsNoValue
  <2>10. ~d.skip
    BY <2>1 DEF Supported
  <2> QED
    BY <2>8, <2>9, <2>10 DEF d
<1>3. VariantWrites(serde, object) = Whole([f \in DOMAIN fields |-> out(f)])
  <2>1. DOMAIN serde.variant = DOMAIN fields
    BY <1>1
  <2> QED
    BY <2>1, Zenon DEF VariantWrites
<1>4. {f \in DOMAIN object : object[f] # Null \/ ~fields[f].skip} = DOMAIN fields
  <2> HIDE DEF serde
  <2> QED
    BY <1>2
<1>5. RustWrites(rust0, object) = [f \in DOMAIN fields |-> written(f)]
  BY <1>4 DEF RustWrites
<1> HIDE DEF serde, out, written
<1>6. [f \in DOMAIN fields |-> out(f)] = [f \in DOMAIN fields |-> written(f)]
  BY <1>2
<1>7. Whole([f \in DOMAIN fields |-> out(f)]) = [f \in DOMAIN fields |-> out(f)]
  BY <1>2 DEF Whole
<1> QED
  BY <1>3, <1>5, <1>6, <1>7 DEF serde

-----------------------------------------------------------------------------
(* The state machine.                                                      *)

\* What every step keeps: beside the shapes of TypeOK, that declarations and
\* tables are records, that an edit never turns a struct into a variant, and
\* that the history is a sequence.
Shape(class) == class = [tagged |-> class.tagged, fields |-> class.fields, deny |-> class.deny]
Declaration(declared) ==
  declared = [tagged |-> declared.tagged, inline |-> declared.inline,
              fields |-> declared.fields, deny |-> declared.deny]

IInv ==
  /\ Declaration(rust) /\ Shape(api)
  /\ rust.tagged \in BOOLEAN /\ api.tagged = rust.tagged
  /\ \E releases : released \in Seq(releases)
  /\ TypeOK

LEMMA HandFieldType ==
  ASSUME NEW d \in Declarations PROVE HandField(d) \in HandFields
BY DEF Declarations, HandField, HandFields

LEMMA DeclarableType == \A tagged : Declarable(tagged) \subseteq Declarations
BY DEF Declarable, VariantDeclarations

LEMMA CollectedApart ==
  \A rust0 : Collect(rust0).required \cap Collect(rust0).nullable = {}
BY DEF Collect, RequiredFields, RequiredNullableFields, Required

LEMMA RenderedType ==
  ASSUME NEW python, FieldsTo(python.fields, HandFields), NEW required, NEW nullable
  PROVE  FieldsTo(RenderStub(python, required, nullable), Demands)
BY DEF FieldsTo, RenderStub, Demands, Demand, HandFields

LEMMA PutType ==
  ASSUME NEW S, NEW fields, FieldsTo(fields, S), NEW f \in Fields, NEW d \in S
  PROVE  FieldsTo(Put(fields, f, d), S)
BY DEF FieldsTo, Put

LEMMA RemoveType ==
  ASSUME NEW S, NEW fields, FieldsTo(fields, S), NEW f
  PROVE  FieldsTo(Remove(fields, f), S)
BY DEF FieldsTo, Remove

LEMMA InitIInv == Init => IInv
<1> SUFFICES ASSUME Init PROVE IInv
  OBVIOUS
<1>0. PICK f \in Fields, tagged \in BOOLEAN, deny \in BOOLEAN :
        \E d \in Declarable(tagged), inline \in BOOLEAN :
          /\ inline \in Layouts(tagged, [g \in {f} |-> d])
          /\ rust = [tagged |-> tagged, inline |-> inline,
                     fields |-> [g \in {f} |-> d], deny |-> deny]
  BY DEF Init
<1>1. PICK d \in Declarable(tagged), inline \in BOOLEAN :
        /\ inline \in Layouts(tagged, [g \in {f} |-> d])
        /\ rust = [tagged |-> tagged, inline |-> inline,
                   fields |-> [g \in {f} |-> d], deny |-> deny]
  BY <1>0
<1>2. /\ Declaration(rust) /\ rust.tagged \in BOOLEAN
      /\ FieldsTo(rust.fields, Declarable(rust.tagged))
      /\ rust.inline \in Layouts(rust.tagged, rust.fields)
  BY <1>1 DEF Declaration, FieldsTo
<1>3. api = HandMirror(rust)
  BY DEF Init
<1>4. Shape(api) /\ api.tagged = rust.tagged
  BY <1>3 DEF HandMirror, Shape
<1>5. FieldsTo(api.fields, HandFields)
  <2>1. CASE rust.tagged
    BY <1>3, <2>1 DEF HandMirror, NoFields, FieldsTo
  <2>2. CASE ~rust.tagged
    <3>1. api.fields = [g \in DOMAIN rust.fields |-> HandField(rust.fields[g])]
      BY <1>3, <2>2 DEF HandMirror
    <3> QED
      BY <3>1, <1>2, HandFieldType, DeclarableType DEF FieldsTo
  <2> QED
    BY <2>1, <2>2
<1>6. FieldsTo(stub, Demands)
  BY <1>5, RenderedType DEF Init, CurrentStub
<1>7. metadata.required \cap metadata.nullable = {}
  BY CollectedApart DEF Init
<1>8. /\ pinned = Package /\ Package.api = api
      /\ Package.stub = stub /\ Package.metadata = metadata
  BY DEF Init, Package
<1>9. released \in Seq({}) /\ Len(released) <= MaxReleases /\ edits \in 0 .. MaxEdits
  BY MirrorAssumption DEF Init
<1> QED
  BY <1>2, <1>4, <1>5, <1>6, <1>7, <1>8, <1>9 DEF IInv, TypeOK

LEMMA NextIInv == IInv /\ [Next]_vars => IInv'
<1> SUFFICES ASSUME IInv, [Next]_vars PROVE IInv'
  OBVIOUS
<1> USE DEF IInv, TypeOK
<1>0. /\ Package.api = api /\ Package.stub = stub /\ Package.metadata = metadata
      /\ Package'.api = api' /\ Package'.stub = stub' /\ Package'.metadata = metadata'
  BY DEF Package
<1>1. ASSUME EditRust PROVE IInv'
  <2>1. edits \in Nat /\ edits' = edits + 1 /\ edits' \in 0 .. MaxEdits
    BY <1>1, MirrorAssumption DEF EditRust
  <2>2. UNCHANGED <<api, metadata, stub, pinned, released>>
    BY <1>1 DEF EditRust
  <2>3. /\ Declaration(rust)' /\ rust'.tagged = rust.tagged
        /\ FieldsTo(rust.fields, Declarable(rust.tagged))'
        /\ (rust.inline \in Layouts(rust.tagged, rust.fields))'
    <3>0. ASSUME NEW fields, EditFields(fields)
          PROVE  /\ Declaration(rust)' /\ rust'.tagged = rust.tagged
                 /\ rust'.fields = fields
                 /\ (rust.inline \in Layouts(rust.tagged, rust.fields))'
      <4>1. PICK inline \in Layouts(rust.tagged, fields) :
              rust' = [rust EXCEPT !.fields = fields, !.inline = inline]
        BY <3>0 DEF EditFields
      <4> QED
        BY <4>1 DEF Declaration
    <3>1. CASE \E f \in Fields, d \in Declarable(rust.tagged) :
                 EditFields(Put(rust.fields, f, d))
      <4>1. PICK f \in Fields, d \in Declarable(rust.tagged) :
              EditFields(Put(rust.fields, f, d))
        BY <3>1
      <4> QED
        BY <4>1, <3>0, PutType
    <3>2. CASE \E f \in DOMAIN rust.fields : EditFields(Remove(rust.fields, f))
      <4>1. PICK f \in DOMAIN rust.fields : EditFields(Remove(rust.fields, f))
        BY <3>2
      <4> QED
        BY <4>1, <3>0, RemoveType
    <3>3. CASE rust' = [rust EXCEPT !.deny = ~@]
      <4>1. /\ Declaration(rust)' /\ rust'.tagged = rust.tagged
            /\ rust'.fields = rust.fields /\ rust'.inline = rust.inline
        BY <3>3 DEF Declaration
      <4> QED
        BY <4>1
    <3> QED
      BY <1>1, <3>1, <3>2, <3>3 DEF EditRust
  <2>4. Package' = Package
    BY <2>2 DEF Package
  <2> QED
    BY <2>1, <2>2, <2>3, <2>4 DEF Shape, Declaration
<1>2. ASSUME EditApi PROVE IInv'
  <2>1. UNCHANGED <<rust, metadata, stub, pinned, released, edits>>
    BY <1>2 DEF EditApi
  <2>2. FieldsTo(api.fields, HandFields)
    BY <1>0
  <2>3. /\ Shape(api)' /\ api'.tagged = api.tagged
        /\ FieldsTo(api.fields, HandFields)'
    <3>1. CASE \E f \in DOMAIN rust.fields, skip \in BOOLEAN, default \in BOOLEAN :
                 LET h == HandField(rust.fields[f]) IN
                 api' = [api EXCEPT !.fields =
                           Put(@, f, [ty |-> h.ty, skip |-> h.skip /\ skip,
                                      default |-> IF default THEN h.default ELSE "no"])]
      <4>1. PICK f \in DOMAIN rust.fields, skip \in BOOLEAN, default \in BOOLEAN :
                 LET h == HandField(rust.fields[f]) IN
                 api' = [api EXCEPT !.fields =
                           Put(@, f, [ty |-> h.ty, skip |-> h.skip /\ skip,
                                      default |-> IF default THEN h.default ELSE "no"])]
        BY <3>1
      <4> DEFINE h == HandField(rust.fields[f])
                 written == [ty |-> h.ty, skip |-> h.skip /\ skip,
                             default |-> IF default THEN h.default ELSE "no"]
      <4>2. h \in HandFields
        BY HandFieldType, DeclarableType DEF FieldsTo
      <4> HIDE DEF h
      <4>3. written \in HandFields
        BY <4>2 DEF HandFields
      <4>4. api' = [api EXCEPT !.fields = Put(@, f, written)]
        BY <4>1 DEF h
      <4> HIDE DEF written
      <4>5. Shape(api)' /\ api'.tagged = api.tagged /\ api'.fields = Put(api.fields, f, written)
        BY <4>4 DEF Shape, Declaration
      <4>6. f \in Fields
        BY DEF FieldsTo
      <4> QED
        BY <4>3, <4>5, <4>6, <2>2, PutType
    <3>2. CASE \E f \in DOMAIN api.fields \ DOMAIN rust.fields :
                 api' = [api EXCEPT !.fields = Remove(@, f)]
      <4>1. PICK f \in DOMAIN api.fields \ DOMAIN rust.fields :
                   api' = [api EXCEPT !.fields = Remove(@, f)]
        BY <3>2
      <4>2. Shape(api)' /\ api'.tagged = api.tagged /\ api'.fields = Remove(api.fields, f)
        BY <4>1 DEF Shape, Declaration
      <4> QED
        BY <4>2, <2>2, RemoveType
    <3>3. CASE api' = [api EXCEPT !.deny = rust.deny]
      <4>1. Shape(api)' /\ api'.tagged = api.tagged /\ api'.fields = api.fields
        BY <3>3 DEF Shape, Declaration
      <4> QED
        BY <4>1, <2>2
    <3> QED
      BY <1>2, <3>1, <3>2, <3>3 DEF EditApi
  <2> QED
    BY <1>0, <2>1, <2>3 DEF Shape, Declaration
<1>3. ASSUME GenerateMetadata PROVE IInv'
  <2>1. UNCHANGED <<rust, api, stub, pinned, released, edits>>
    BY <1>3 DEF GenerateMetadata
  <2>2. metadata'.required \cap metadata'.nullable = {}
    BY <1>3, CollectedApart DEF GenerateMetadata
  <2> QED
    BY <1>0, <2>1, <2>2 DEF Shape, Declaration
<1>4. ASSUME GenerateStub PROVE IInv'
  <2>1. UNCHANGED <<rust, api, metadata, pinned, released, edits>>
    BY <1>4 DEF GenerateStub
  <2>2. FieldsTo(stub', Demands)
    BY <1>0, <1>4, RenderedType DEF GenerateStub, CurrentStub
  <2> QED
    BY <1>0, <2>1, <2>2 DEF Shape, Declaration
<1>5. ASSUME Pin PROVE IInv'
  <2>1. UNCHANGED <<rust, api, metadata, stub, released, edits>> /\ pinned' = Package
    BY <1>5 DEF Pin
  <2>2. Package' = Package
    BY <2>1 DEF Package
  <2> QED
    BY <2>1, <2>2 DEF Shape, Declaration
<1>6. ASSUME Release PROVE IInv'
  <2> DEFINE release == [rust |-> rust, package |-> Package]
  <2>1. /\ UNCHANGED <<rust, api, metadata, stub, pinned, edits>>
        /\ released' = Append(released, release) /\ Len(released) < MaxReleases
    BY <1>6 DEF Release
  <2>2. PICK releases : released \in Seq(releases)
    OBVIOUS
  <2> HIDE DEF release
  <2>3. released \in Seq(releases \cup {release})
    BY <2>2
  <2>4. released' \in Seq(releases \cup {release}) /\ Len(released') <= MaxReleases
    BY <2>1, <2>2, <2>3, MirrorAssumption
  <2>5. Package' = Package
    BY <2>1 DEF Package
  <2> QED
    BY <2>1, <2>4, <2>5 DEF Shape, Declaration
<1>7. ASSUME UNCHANGED vars PROVE IInv'
  <2>1. UNCHANGED <<rust, api, metadata, stub, pinned, released, edits>>
    BY <1>7 DEF vars
  <2>2. Package' = Package
    BY <2>1 DEF Package
  <2> QED
    BY <2>1, <2>2 DEF Shape, Declaration
<1> QED
  BY <1>1, <1>2, <1>3, <1>4, <1>5, <1>6, <1>7 DEF Next

\* The declaration, the tables of api.py, the stub and the pinned package keep
\* the shapes that the tools of python/tools read and write.
THEOREM Typed == Spec => []TypeOK
<1>1. IInv => TypeOK
  BY DEF IInv
<1> QED
  BY InitIInv, NextIInv, <1>1, PTL DEF Spec

LEMMA Invariant == Spec => []IInv
BY InitIInv, NextIInv, PTL DEF Spec

\* A release whose class has generated tables, and the tables of a hand that
\* repeated the declaration.  What stands on one line has no attributes.
OnLine(declared) ==
  declared.inline => \A f \in DOMAIN declared.fields : Plain(declared.fields[f])

Mirrors(release) ==
  LET declared == release.rust
      package  == release.package
  IN  /\ DOMAIN declared.fields \subseteq Fields
      /\ \A f \in DOMAIN declared.fields : declared.fields[f] \in Declarations
      /\ declared.tagged =>
           \A f \in DOMAIN declared.fields : declared.fields[f] \in VariantDeclarations
      /\ OnLine(declared)
      /\ Collectable(declared) /\ package.metadata = Collect(declared)
      /\ package.api.tagged = declared.tagged /\ declared.tagged \in BOOLEAN
      /\ ~declared.tagged =>
           /\ DOMAIN package.api.fields = DOMAIN declared.fields
           /\ \A f \in DOMAIN declared.fields :
                package.api.fields[f] = HandField(declared.fields[f])
           /\ package.api.deny <=> declared.deny

\* What passes CI is such a release.
LEMMA PassingMirrors == ASSUME IInv, CiPasses PROVE Mirrors(Candidate)
<1>1. FieldsTo(rust.fields, Declarable(rust.tagged))
  BY DEF IInv, TypeOK
<1>2. /\ DOMAIN rust.fields \subseteq Fields
      /\ \A f \in DOMAIN rust.fields : rust.fields[f] \in Declarations
  BY <1>1, DeclarableType DEF FieldsTo
<1>3. rust.tagged => \A f \in DOMAIN rust.fields : rust.fields[f] \in VariantDeclarations
  BY <1>1 DEF FieldsTo, Declarable
<1>4. ~rust.tagged => /\ DOMAIN api.fields = DOMAIN rust.fields
                      /\ \A f \in DOMAIN rust.fields : api.fields[f] = HandField(rust.fields[f])
                      /\ api.deny <=> rust.deny
  BY DEF CiPasses, StubToolRuns, InventoryMatches, RustInventory, TablesMatch, HandMirror
<1>5. /\ Candidate.rust = rust
      /\ Candidate.package.api = api /\ Candidate.package.metadata = metadata
  BY DEF Candidate, Package
<1>6. /\ Collectable(rust) /\ metadata = Collect(rust)
      /\ api.tagged = rust.tagged /\ rust.tagged \in BOOLEAN
  BY DEF IInv, CiPasses, MetadataIsFresh
<1>7. OnLine(rust)
  BY DEF IInv, TypeOK, Layouts, OnLine
<1> QED
  BY <1>2, <1>3, <1>4, <1>5, <1>6, <1>7, Zenon DEF Mirrors

\* Such a release reads a text as Rust does ...
LEMMA MirrorReads ==
  ASSUME NEW release, Mirrors(release), NEW text, IsText(text),
         ~NullForInteger(release.rust, text)
  PROVE  PythonReads(release, text) = RustReads(release.rust, text)
<1> DEFINE declared == release.rust
           class == release.package.api
<1>1. PythonReads(release, text) =
        IF class.tagged THEN VariantReads(Install(Collect(declared)), text)
        ELSE StructReads(Install(Collect(declared)), class, text)
  BY DEF PythonReads, FromDict, Mirrors
<1>2. CASE declared.tagged
  <2>1. VariantReads(Install(Collect(declared)), text) = RustReads(declared, text)
    BY <1>2, VariantReadsAsRust DEF Mirrors
  <2> QED
    BY <1>1, <1>2, <2>1 DEF Mirrors
<1>3. CASE ~declared.tagged
  <2>1. StructReads(Install(Collect(declared)), class, text) = RustReads(declared, text)
    BY <1>3, StructReadsAsRust DEF Mirrors
  <2> QED
    BY <1>1, <1>3, <2>1 DEF Mirrors
<1> QED
  BY <1>2, <1>3 DEF Mirrors

\* ... and writes what fits as Rust does.
LEMMA MirrorWrites ==
  ASSUME NEW release, Mirrors(release), NEW object,
         DOMAIN object = DOMAIN release.rust.fields,
         \A f \in DOMAIN object : Fits(release.rust.fields[f], object[f])
  PROVE  PythonWrites(release, object) = RustWrites(release.rust, object)
<1> DEFINE declared == release.rust
           class == release.package.api
<1>1. PythonWrites(release, object) =
        IF class.tagged THEN VariantWrites(Install(Collect(declared)), object)
        ELSE StructWrites(Install(Collect(declared)), class, object)
  BY DEF PythonWrites, ToDict, Mirrors
<1>2. CASE declared.tagged
  <2>1. VariantWrites(Install(Collect(declared)), object) = RustWrites(declared, object)
    BY <1>2, VariantWritesAsRust DEF Mirrors
  <2> QED
    BY <1>1, <1>2, <2>1 DEF Mirrors
<1>3. CASE ~declared.tagged
  <2>1. StructWrites(Install(Collect(declared)), class, object) = RustWrites(declared, object)
    BY <1>3, StructWritesAsRust DEF Mirrors
  <2> QED
    BY <1>1, <1>3, <2>1 DEF Mirrors
<1> QED
  BY <1>2, <1>3 DEF Mirrors

\* A package that passes CI reads every text as Rust does (from_dict of
\* model.py), whatever was edited, forgotten or generated too early before:
\* for every width of integers, any fields and any numbers.
THEOREM ReadsAsRust == Spec => []PassingReadsAsRust
<1>1. IInv => PassingReadsAsRust
  <2> SUFFICES ASSUME IInv, CiPasses, NEW text \in Texts, ~NullForInteger(rust, text)
               PROVE  PythonReads(Candidate, text) = RustReads(rust, text)
    BY DEF PassingReadsAsRust
  <2>1. Candidate.rust = rust
    BY DEF Candidate
  <2> QED
    BY <2>1, TextsAreTexts, PassingMirrors, MirrorReads
<1> QED
  BY Invariant, <1>1, PTL

\* What such a package writes for a value that was read (to_dict of model.py)
\* is what Rust writes for it.
THEOREM WritesAsRust == Spec => []PassingWritesAsRust
<1>1. IInv => PassingWritesAsRust
  <2> SUFFICES ASSUME IInv, CiPasses, NEW text \in Texts, RustReads(rust, text) # Refused
               PROVE  PythonWrites(Candidate, RustReads(rust, text))
                        = RustWrites(rust, RustReads(rust, text))
    BY DEF PassingWritesAsRust
  <2> DEFINE object == RustReads(rust, text)
  <2>1. Candidate.rust = rust /\ Mirrors(Candidate)
    BY PassingMirrors DEF Candidate
  <2>2. /\ DOMAIN object = DOMAIN rust.fields
        /\ \A f \in DOMAIN object : Fits(rust.fields[f], object[f])
    BY <2>1, TextsAreTexts, ReadObjectsFit DEF Mirrors
  <2> QED
    BY <2>1, <2>2, MirrorWrites
<1> QED
  BY Invariant, <1>1, PTL

-----------------------------------------------------------------------------
(* The TypeScript decoder.                                                 *)

\* What is decoded where Rust reads "read": refused alike, or the same value,
\* or its digits.
Alike(d, decoded, read) ==
  /\ decoded = Refused <=> read = Refused
  /\ read # Refused =>
       \/ decoded = read
       \/ /\ d.adapter \in {"with", "deserialize_with"} /\ read # Null
          /\ decoded = Spell(read)

LEMMA DecodedAlike ==
  ASSUME NEW d \in Declarations, NEW v \in JsonValues
  PROVE  Alike(d, Decode(TypeDescriptor(d), v), RustValue(d, v))
<1> DEFINE wire == d.adapter \in {"with", "deserialize_with"}
           n == IF v.form = "number" THEN v ELSE Spelled(v, d.ty)
           w == IF v.form # "number" /\ wire THEN Spelled(v, d.ty) ELSE v
<1>1. /\ d.opt \in BOOLEAN
      /\ d.ty \in {"uint", "int", "str"}
      /\ d.ty = "str" => ~wire
  BY DEF Declarations
<1>2. /\ TypeDescriptor(d).ty = d.ty /\ TypeDescriptor(d).nullable = d.opt
      /\ TypeDescriptor(d).wire = wire
  BY DEF TypeDescriptor
<1>3. CheckedInteger(v, d.ty) =
        IF n # Refused /\ InRange(n.n, d.ty) THEN n ELSE Refused
  BY DEF CheckedInteger
<1>4. n = Refused \/ (n \in JsonValues /\ n.form = "number")
  BY SpelledIsNumber
<1>5. CASE v = Null
  <2>1. Spelled(Null, d.ty) = Refused /\ Null.form # "number"
    BY Shapes DEF Spelled, Null, Value
  <2>2. CheckedInteger(v, d.ty) = Refused
    BY <1>3, <1>5, <2>1
  <2>3. RustValue(d, v) = IF d.opt THEN Null ELSE Refused
    BY <1>5 DEF RustValue
  <2>4. Decode(TypeDescriptor(d), v) = IF d.opt THEN Null ELSE Refused
    BY <1>1, <1>2, <1>5, <2>1, <2>2 DEF Decode, DecodeWireInteger
  <2> QED
    BY <2>3, <2>4, RefusedIsNoValue DEF Alike
<1>6. CASE v # Null /\ d.ty = "str"
  <2>1. Decode(TypeDescriptor(d), v) = IF v.form = "number" THEN Refused ELSE v
    BY <1>1, <1>2, <1>6 DEF Decode
  <2>2. RustValue(d, v) = IF v.form = "number" THEN Refused ELSE v
    BY <1>6 DEF RustValue
  <2> QED
    BY <2>1, <2>2 DEF Alike
<1>7. CASE v # Null /\ d.ty # "str"
  <2>1. RustValue(d, v) =
          IF w # Refused /\ w.form = "number" /\ InRange(w.n, d.ty) THEN w ELSE Refused
    BY <1>7 DEF RustValue, RustInteger
  <2>2. CASE wire
    <3>1. w = n
      BY <2>2
    <3>2. Decode(TypeDescriptor(d), v) =
            LET c == CheckedInteger(v, d.ty)
            IN  IF c # Refused /\ v.form # "number" THEN Spell(c) ELSE c
      BY <1>2, <1>7, <2>2 DEF Decode, DecodeWireInteger
    <3>3. n \in JsonValues => Spell(n) # Refused /\ n # Null /\ n # Refused
      <4>1. n \in JsonValues => Spell(n) \in JsonValues
        BY SpelledOut
      <4> HIDE DEF n
      <4>2. n \in JsonValues => n # Refused /\ (n.form = "number" => n # Null)
        BY RefusedIsNoValue, Shapes
      <4> QED
        BY <4>1, <4>2, <1>4, RefusedIsNoValue
    <3> HIDE DEF n, w
    <3>4. RustValue(d, v) = CheckedInteger(v, d.ty)
      BY <1>3, <1>4, <2>1, <3>1
    <3>5. CheckedInteger(v, d.ty) \in {n, Refused}
      BY <1>3
    <3> QED
      BY <2>2, <3>2, <3>3, <3>4, <3>5, <1>4 DEF Alike
  <2>3. CASE ~wire
    <3>1. Decode(TypeDescriptor(d), v) =
            IF v.form = "number" THEN CheckedInteger(v, d.ty) ELSE Refused
      BY <1>2, <1>7, <2>3 DEF Decode
    <3>2. w = v
      BY <2>3
    <3>3. v.form = "number" => n = v
      OBVIOUS
    <3> HIDE DEF n, w
    <3> QED
      BY <1>3, <2>1, <3>1, <3>2, <3>3, RefusedIsNoValue DEF Alike
  <2> QED
    BY <2>2, <2>3
<1> QED
  BY <1>5, <1>6, <1>7

\* A field that the decoder leaves out is null in Rust, any other is alike.
LEMMA FieldDecodedAlike ==
  ASSUME NEW d \in Declarations, NEW text, NEW f,
         f \in DOMAIN text => text[f] \in JsonValues
  PROVE  LET field == FieldDescriptor(d)
             read  == RustField(d, text, f)
         IN  IF f \in DOMAIN text \/ field.required \/ field.defaulted
             THEN Alike(d, DecodeField(field, text, f), read)
             ELSE read = Null
<1> DEFINE field == FieldDescriptor(d)
<1>1. /\ field.type = TypeDescriptor(d)
      /\ field.required <=> d.default = "no" /\ (~d.opt \/ d.adapter # "none")
      /\ field.defaulted <=> d.default # "no"
      /\ field.default = IF d.opt THEN Null ELSE DefaultOf(d.ty, d.default)
  BY DEF FieldDescriptor, RequiredField, MaterializedDefault
<1> HIDE DEF field
<1>2. CASE f \in DOMAIN text
  <2>1. DecodeField(field, text, f) = Decode(TypeDescriptor(d), text[f])
    BY <1>1, <1>2 DEF DecodeField
  <2>2. RustField(d, text, f) = RustValue(d, text[f])
    BY <1>2 DEF RustField
  <2> QED
    BY <1>2, <2>1, <2>2, DecodedAlike DEF field
<1>3. CASE f \notin DOMAIN text
  <2>1. DecodeField(field, text, f) =
          IF field.required THEN Refused ELSE field.default
    BY <1>3 DEF DecodeField
  <2>2. RustField(d, text, f) =
          IF d.opt /\ (d.default # "no" \/ d.adapter = "none") THEN Null
          ELSE IF d.default # "no" THEN DefaultOf(d.ty, d.default)
          ELSE Refused
    BY <1>3 DEF RustField, Absentable
  <2>3. CASE field.required
    BY <2>1, <2>2, <2>3, <1>1 DEF Alike, field
  <2>4. CASE ~field.required /\ field.defaulted
    <3>1. DecodeField(field, text, f) = RustField(d, text, f)
      BY <2>1, <2>2, <2>4, <1>1
    <3> QED
      BY <3>1, <2>4 DEF Alike, field
  <2>5. CASE ~field.required /\ ~field.defaulted
    BY <2>2, <2>5, <1>1, <1>3 DEF field
  <2> QED
    BY <2>3, <2>4, <2>5
<1> QED
  BY <1>2, <1>3

\* On one line a field is decoded alike, but never left out.
LEMMA InlineDecodedAlike ==
  ASSUME NEW d \in Declarations, Plain(d), NEW text, NEW f,
         f \in DOMAIN text => text[f] \in JsonValues
  PROVE  LET decoded == DecodeField(InlineField(d), text, f)
         IN  IF f \in DOMAIN text \/ ~d.opt
             THEN Alike(d, decoded, RustField(d, text, f))
             ELSE decoded = Refused
<1>1. InlineField(d).type = TypeDescriptor(d) /\ InlineField(d).required
  BY DEF InlineField
<1>2. CASE f \in DOMAIN text
  <2>1. DecodeField(InlineField(d), text, f) = Decode(TypeDescriptor(d), text[f])
    BY <1>1, <1>2 DEF DecodeField
  <2>2. RustField(d, text, f) = RustValue(d, text[f])
    BY <1>2 DEF RustField
  <2> QED
    BY <1>2, <2>1, <2>2, DecodedAlike
<1>3. CASE f \notin DOMAIN text
  <2>1. DecodeField(InlineField(d), text, f) = Refused
    BY <1>1, <1>3 DEF DecodeField
  <2>2. ~d.opt => RustField(d, text, f) = Refused
    BY <1>3 DEF RustField, Plain
  <2> QED
    BY <2>1, <2>2, <1>3 DEF Alike
<1> QED
  BY <1>2, <1>3

\* The decoder over the descriptor of a declaration takes the texts that Rust takes
\* for it, but for an Option left out of a line, and they mean the same to it.
LEMMA DescriptorReadsAsRust ==
  ASSUME NEW rust0, DOMAIN rust0.fields \subseteq Fields, OnLine(rust0),
         \A f \in DOMAIN rust0.fields : rust0.fields[f] \in Declarations,
         NEW text, IsText(text), NEW duplicates
  PROVE  LET decoded == DecodeObject(ObjectDescriptor(rust0), text, duplicates)
             read    == RustReadsRepeated(rust0, text, duplicates)
         IN  /\ decoded = Refused <=> (read = Refused \/ OmitsInlineOption(rust0, text))
             /\ decoded # Refused =>
                  \A f \in DOMAIN rust0.fields :
                    SameMeaning(rust0.fields[f], decoded, f, read[f])
<1> DEFINE fields  == rust0.fields
           schema  == ObjectDescriptor(rust0)
           present == PresentFields(schema, text)
           field(f)  == IF rust0.inline THEN InlineField(fields[f])
                        ELSE FieldDescriptor(fields[f])
           decode(f) == DecodeField(field(f), text, f)
           heard(f)  == RustField(fields[f], text, f)
           object == [f \in present |-> decode(f)]
           struct == [f \in DOMAIN fields |-> heard(f)]
           decoded == DecodeObject(schema, text, duplicates)
           read    == RustReadsRepeated(rust0, text, duplicates)
           refused == \/ duplicates \cap DOMAIN fields # {}
                      \/ rust0.deny /\ ~(DOMAIN text \subseteq DOMAIN fields)
           omitted(f) == rust0.inline /\ f \notin DOMAIN text /\ fields[f].opt
<1>1. /\ \A f \in DOMAIN fields : fields[f] \in Declarations
      /\ \A f \in DOMAIN text : text[f] \in JsonValues
  BY DEF IsText
<1>2. /\ DOMAIN schema.fields = DOMAIN fields
      /\ \A f \in DOMAIN fields : schema.fields[f] = field(f)
      /\ schema.deny = rust0.deny
  BY DEF ObjectDescriptor
<1> HIDE DEF schema
<1>3. /\ present \subseteq DOMAIN fields
      /\ \A f \in DOMAIN fields :
           f \in present <=>
             \/ f \in DOMAIN text
             \/ field(f).required
             \/ field(f).defaulted
  BY <1>2 DEF PresentFields
<1>4. \A f \in DOMAIN fields :
        IF omitted(f) THEN f \in present /\ decode(f) = Refused
        ELSE IF f \in present THEN Alike(fields[f], decode(f), heard(f))
        ELSE heard(f) = Null
  <2>1. CASE rust0.inline
    <3>1. \A f \in DOMAIN fields : Plain(fields[f]) /\ field(f) = InlineField(fields[f])
      BY <2>1 DEF OnLine
    <3>2. ASSUME NEW f \in DOMAIN fields PROVE f \in present
      <4>1. field(f) = InlineField(fields[f])
        BY <3>1
      <4>2. InlineField(fields[f]).required
        BY DEF InlineField
      <4> HIDE DEF field, present
      <4> QED
        BY <1>3, <4>1, <4>2
    <3> QED
      BY <2>1, <1>1, <3>1, <3>2, InlineDecodedAlike
  <2>2. CASE ~rust0.inline
    BY <2>2, <1>1, <1>3, FieldDecodedAlike
  <2> QED
    BY <2>1, <2>2
<1>5. decoded = IF refused THEN Refused ELSE Whole(object)
  <2>1. object = [f \in present |-> DecodeField(schema.fields[f], text, f)]
    BY <1>2, <1>3
  <2> QED
    BY <1>2, <2>1 DEF DecodeObject
<1>6. read = IF refused THEN Refused ELSE Whole(struct)
  BY DEF RustReadsRepeated, RustReads
<1>7. /\ DOMAIN object = present /\ \A f \in present : object[f] = decode(f)
      /\ DOMAIN struct = DOMAIN fields
      /\ \A f \in DOMAIN fields : struct[f] = heard(f)
  OBVIOUS
<1>0. OmitsInlineOption(rust0, text) <=> \E f \in DOMAIN fields : omitted(f)
  BY DEF OmitsInlineOption
<1> HIDE DEF present, field, decode, heard, object, struct, refused, decoded, read, omitted
<1>12. CASE OmitsInlineOption(rust0, text)
  <2>1. \E f \in present : object[f] = Refused
    BY <1>0, <1>4, <1>7, <1>12
  <2>2. decoded = Refused
    BY <1>5, <1>7, <2>1 DEF Whole
  <2> QED
    BY <1>12, <2>2 DEF decoded, read, schema
<1> SUFFICES ASSUME ~OmitsInlineOption(rust0, text)
             PROVE  LET decoded_ == DecodeObject(ObjectDescriptor(rust0), text, duplicates)
                        read_    == RustReadsRepeated(rust0, text, duplicates)
                    IN  /\ decoded_ = Refused <=> read_ = Refused
                        /\ decoded_ # Refused =>
                             \A f \in DOMAIN rust0.fields :
                               SameMeaning(rust0.fields[f], decoded_, f, read_[f])
  BY <1>12
<1>8. (\E f \in present : object[f] = Refused)
        <=> \E f \in DOMAIN fields : struct[f] = Refused
  BY <1>0, <1>3, <1>4, <1>7, RefusedIsNoValue DEF Alike
<1>9. CASE refused
  BY <1>5, <1>6, <1>9 DEF decoded, read, schema
<1>10. CASE ~refused /\ \E f \in DOMAIN fields : struct[f] = Refused
  <2>1. decoded = Refused /\ read = Refused
    BY <1>5, <1>6, <1>7, <1>8, <1>10 DEF Whole
  <2> QED
    BY <2>1 DEF decoded, read, schema
<1>11. CASE ~refused /\ \A f \in DOMAIN fields : struct[f] # Refused
  <2>1. decoded = object /\ read = struct
    BY <1>5, <1>6, <1>7, <1>8, <1>11 DEF Whole
  <2>2. \A f \in DOMAIN fields : struct[f] \in JsonValues
    BY <1>1, <1>7, <1>11, ReadValuesFit, NullIsJson DEF IsText, Fits, heard
  <2>3. \A f \in present : object[f] \in JsonValues
    BY <1>0, <1>3, <1>4, <1>7, <1>11, <2>2, SpelledOut DEF Alike
  <2>4. struct \in [DOMAIN fields -> JsonValues] /\ object \in [present -> JsonValues]
    <3>1. struct = [f \in DOMAIN fields |-> struct[f]]
      BY DEF struct
    <3>2. object = [f \in present |-> object[f]]
      BY DEF object
    <3> QED
      BY <2>2, <2>3, <3>1, <3>2
  <2>5. DOMAIN fields \in SUBSET Fields /\ present \in SUBSET Fields
    BY <1>3
  <2>6. decoded # Refused /\ read # Refused
    BY <2>1, <2>4, <2>5, SerdeAssumption DEF JsonValues
  <2>7. ASSUME NEW f \in DOMAIN fields
        PROVE  SameMeaning(fields[f], decoded, f, read[f])
    BY <2>1, <2>7, <1>0, <1>4, <1>7, <1>11 DEF SameMeaning, Alike
  <2> QED
    BY <2>6, <2>7 DEF decoded, read, schema
<1> QED
  BY <1>9, <1>10, <1>11

\* The TypeScript decoder takes the texts that Rust takes, repeated keys
\* included, but for an Option left out of a variant on one line, and they mean the
\* same to it (decodeObject of serde.ts over the descriptors of generate-serde.mjs),
\* for every declaration CI lets through.
THEOREM DecodesAsRust == Spec => []TypeScriptReadsAsRust
<1>1. IInv /\ CiPasses =>
        /\ DOMAIN rust.fields \subseteq Fields /\ OnLine(rust)
        /\ \A f \in DOMAIN rust.fields : rust.fields[f] \in Declarations
  BY PassingMirrors DEF Mirrors, Candidate
<1>2. IInv => TypeScriptReadsAsRust
  BY <1>1, TextsAreTexts, DescriptorReadsAsRust DEF TypeScriptReadsAsRust
<1> QED
  BY Invariant, <1>2, PTL

-----------------------------------------------------------------------------
(* There and back.                                                         *)

\* Rust reads a field that was written for a value that fits as that value.
LEMMA FieldThereAndBack ==
  ASSUME NEW d \in Declarations, NEW v, Fits(d, v), NEW text, NEW f,
         f \in DOMAIN text <=> (v # Null \/ ~d.skip),
         f \in DOMAIN text =>
           text[f] = IF v # Null /\ d.adapter = "with" THEN Spell(v) ELSE v
  PROVE  RustField(d, text, f) = v
<1>1. /\ d.opt \in BOOLEAN /\ d.skip \in BOOLEAN
      /\ d.ty \in {"uint", "int", "str"}
      /\ d.ty = "str" => d.adapter = "none"
      /\ d.skip => d.opt /\ Absentable(d)
  BY DEF Declarations
<1>2. CASE f \notin DOMAIN text
  BY <1>1, <1>2 DEF RustField
<1>3. CASE f \in DOMAIN text /\ v = Null
  <2>1. d.opt
    BY <1>3, Shapes DEF Fits
  <2> QED
    BY <1>3, <2>1 DEF RustField, RustValue
<1>4. CASE f \in DOMAIN text /\ v # Null /\ d.ty = "str"
  BY <1>1, <1>4 DEF RustField, RustValue, Fits
<1>5. CASE f \in DOMAIN text /\ v # Null /\ d.ty # "str"
  <2>1. v \in JsonValues /\ v.form = "number" /\ InRange(v.n, d.ty) /\ v # Refused
    BY <1>5, RefusedIsNoValue DEF Fits
  <2>2. CASE d.adapter # "with"
    <3>1. text[f] = v
      BY <1>5, <2>2
    <3> QED
      BY <1>5, <2>1, <3>1 DEF RustField, RustValue, RustInteger
  <2>3. CASE d.adapter = "with"
    <3>1. text[f] = Spell(v) /\ Spell(v) # Null
      BY <1>5, <2>1, <2>3, SpelledOut
    <3>2. v.n \in Int /\ v = Number(v.n)
      BY <2>1 DEF JsonValues, Number, Value
    <3>3. Spell(v).form # "number"
      BY DEF Spell, Value
    <3>4. CASE v.n >= 0
      <4>1. Spell(v).form = "digits" /\ Spell(v).n = v.n
        BY <3>4 DEF Spell, Value
      <4>2. Spelled(Spell(v), d.ty) = v
        BY <4>1, <3>2 DEF Spelled
      <4> QED
        BY <1>5, <2>1, <2>3, <3>1, <3>3, <4>2 DEF RustField, RustValue, RustInteger
    <3>5. CASE ~(v.n >= 0)
      <4>1. Spell(v).form = "minus" /\ Spell(v).n = -v.n
        BY <3>5 DEF Spell, Value
      <4>2. d.ty = "int"
        BY <1>1, <1>5, <2>1, <3>2, <3>5, SerdeAssumption DEF InRange
      <4>3. -(-v.n) = v.n
        BY <3>2
      <4>4. Spelled(Spell(v), d.ty) = v
        BY <4>1, <4>2, <4>3, <3>2 DEF Spelled
      <4> QED
        BY <1>5, <2>1, <2>3, <3>1, <3>3, <4>4 DEF RustField, RustValue, RustInteger
    <3> QED
      BY <3>4, <3>5
  <2> QED
    BY <2>2, <2>3
<1> QED
  BY <1>2, <1>3, <1>4, <1>5

\* What Rust writes for an object that fits: a text, with every field that is
\* declared alike read back, and no null for a required integer.
LEMMA Written ==
  ASSUME NEW rust0, NEW object, DOMAIN object = DOMAIN rust0.fields,
         \A f \in DOMAIN object : /\ rust0.fields[f] \in Declarations
                                  /\ Fits(rust0.fields[f], object[f])
  PROVE  LET text == RustWrites(rust0, object)
         IN  /\ IsText(text) /\ DOMAIN text \subseteq DOMAIN rust0.fields
             /\ \A f \in DOMAIN object : RustField(rust0.fields[f], text, f) = object[f]
             /\ \A f \in DOMAIN text : text[f] = Null => rust0.fields[f].opt
<1> DEFINE text == RustWrites(rust0, object)
           fields == rust0.fields
           kept == {f \in DOMAIN object : object[f] # Null \/ ~fields[f].skip}
           written(f) == IF object[f] # Null /\ fields[f].adapter = "with"
                         THEN Spell(object[f]) ELSE object[f]
<1>1. text = [f \in kept |-> written(f)]
  BY DEF RustWrites
<1>2. DOMAIN text = kept /\ \A f \in kept : text[f] = written(f)
  BY <1>1
<1> HIDE DEF text
<1>3. \A f \in DOMAIN object : RustField(fields[f], text, f) = object[f]
  BY <1>2, FieldThereAndBack
<1>4. ASSUME NEW f \in DOMAIN text
      PROVE  text[f] \in JsonValues /\ (text[f] = Null => fields[f].opt)
  <2>1. f \in DOMAIN object /\ Fits(fields[f], object[f]) /\ text[f] = written(f)
    BY <1>2
  <2>2. object[f] \in JsonValues /\ (object[f] = Null => fields[f].opt)
    BY <2>1, Shapes DEF Fits
  <2> QED
    BY <2>1, <2>2, SpelledOut
<1>5. DOMAIN text \subseteq DOMAIN fields
  BY <1>2
<1> QED
  BY <1>3, <1>4, <1>5 DEF IsText, text

LEMMA FittingIsNotRefused == \A d, v : Fits(d, v) => v # Refused
BY RefusedIsNoValue DEF Fits

LEMMA ReadBack ==
  ASSUME NEW rust0, NEW object, DOMAIN object = DOMAIN rust0.fields,
         object = [f \in DOMAIN object |-> object[f]],
         \A f \in DOMAIN object : /\ rust0.fields[f] \in Declarations
                                  /\ Fits(rust0.fields[f], object[f])
  PROVE  RustReads(rust0, RustWrites(rust0, object)) = object
<1> DEFINE text == RustWrites(rust0, object)
           heard == [f \in DOMAIN rust0.fields |-> RustField(rust0.fields[f], text, f)]
<1>1. /\ DOMAIN text \subseteq DOMAIN rust0.fields
      /\ \A f \in DOMAIN object : RustField(rust0.fields[f], text, f) = object[f]
  BY Written
<1> HIDE DEF text
<1>2. heard = object
  BY <1>1
<1>3. Whole(object) = object
  BY FittingIsNotRefused DEF Whole
<1>4. RustReads(rust0, text) = Whole(heard)
  BY <1>1 DEF RustReads
<1> QED
  BY <1>2, <1>3, <1>4 DEF text

\* A caller who gives what the stub of a passing package demands is refused
\* only for an integer out of range, and otherwise Rust reads his values, and
\* the defaults of what he left out.
THEOREM StubTells == Spec => []StubbedCallsAreHeard
<1> DEFINE serde == Install(Collect(rust))
           fields == rust.fields
<1>1. IInv => StubbedCallsAreHeard
  <2> SUFFICES ASSUME IInv, CiPasses, ~rust.tagged, NEW object \in TypedCalls
               PROVE  LET text == PythonWrites(Candidate, object) IN
                      IF \E f \in DOMAIN object :
                           /\ object[f] # Null /\ fields[f].ty # "str"
                           /\ ~InRange(object[f].n, fields[f].ty)
                      THEN text = Refused
                      ELSE RustReads(rust, text) =
                             [f \in DOMAIN object |-> Filled(api, object, f)]
    BY DEF StubbedCallsAreHeard
  <2> DEFINE filled == [f \in DOMAIN object |-> Filled(api, object, f)]
             out(f) == StructOutput(serde, Filled(api, object, f), api.fields[f].ty, f)
             kept == {f \in DOMAIN object : \/ Filled(api, object, f) # Null
                                            \/ f \in serde.required
                                            \/ ~api.fields[f].skip}
  <2>1. /\ Candidate.rust = rust /\ Candidate.package.api = api
        /\ Candidate.package.metadata = metadata
    BY DEF Candidate, Package
  <2>2. /\ \A f \in DOMAIN fields : fields[f] \in Declarations
        /\ DOMAIN api.fields = DOMAIN fields
        /\ \A f \in DOMAIN fields : api.fields[f] = HandField(fields[f])
        /\ metadata = Collect(rust) /\ ~api.tagged
    BY <2>1, PassingMirrors DEF Mirrors
  <2>3. PythonWrites(Candidate, object) = StructWrites(serde, api, object)
    BY <2>1, <2>2 DEF PythonWrites, ToDict
  <2>4. stub = RenderStub(api, RequiredFields(fields), RequiredNullableFields(fields))
    BY DEF CiPasses, CurrentStub, Collect
  <2>5. DOMAIN object = DOMAIN fields /\ DOMAIN stub = DOMAIN fields
    BY <2>2, <2>4 DEF TypedCalls, RenderStub
  <2>6. ASSUME NEW f \in DOMAIN fields
        PROVE  /\ object[f] \in JsonValues
               /\ FromSerde(object[f], IF fields[f].ty = "str" THEN "str" ELSE "int") # Refused
               /\ Required(fields[f]) => object[f] # Null
    <3>1. object[f] \in TypedArguments(stub[f])
      BY <2>5 DEF TypedCalls
    <3>2. /\ stub[f].ty = api.fields[f].ty
          /\ f \in RequiredFields(fields) => stub[f].demand = "value"
      BY <2>2, <2>4 DEF RenderStub, Demand
    <3>3. api.fields[f].ty = IF fields[f].ty = "str" THEN "str" ELSE "int"
      <4>1. api.fields[f] = HandField(fields[f])
        BY <2>2
      <4> HIDE DEF fields
      <4> QED
        BY <4>1 DEF HandField
    <3>4. f \in RequiredFields(fields) <=> Required(fields[f])
      BY DEF RequiredFields
    <3> HIDE DEF fields
    <3> QED
      BY <3>1, <3>2, <3>3, <3>4, JsonIsRecords DEF TypedArguments
  <2>7. ASSUME NEW f \in DOMAIN fields
        PROVE  /\ f \in DOMAIN serde.integer_types <=> fields[f].ty # "str"
               /\ fields[f].ty # "str" => serde.integer_types[f] = fields[f].ty
    <3>1. f \in IntegerFields(fields) <=> fields[f].ty # "str"
      BY DEF IntegerFields
    <3> QED
      BY <3>1, <2>2, InstalledIntegers, Zenon
  <2>8. StructWrites(serde, api, object) = Whole([f \in kept |-> out(f)])
    BY DEF StructWrites
  <2>9. CASE \E f \in DOMAIN object :
               /\ object[f] # Null /\ fields[f].ty # "str"
               /\ ~InRange(object[f].n, fields[f].ty)
    <3>1. PICK f \in DOMAIN fields :
                 /\ object[f] # Null /\ fields[f].ty # "str"
                 /\ ~InRange(object[f].n, fields[f].ty)
      BY <2>5, <2>9
    <3> DEFINE v == object[f]
    <3>2. Filled(api, object, f) = v
      BY <3>1 DEF Filled
    <3>3. f \in kept
      BY <2>5, <3>1, <3>2
    <3>4. SizedInteger(v, fields[f].ty) = Refused
      BY <3>1 DEF SizedInteger
    <3>5. out(f) = Refused
      <4> HIDE DEF serde, fields
      <4> QED
        BY <2>7, <3>1, <3>2, <3>4 DEF StructOutput
    <3> HIDE DEF out, kept, serde
    <3>6. Whole([g \in kept |-> out(g)]) = Refused
      BY <3>3, <3>5 DEF Whole
    <3> QED
      BY <2>3, <2>8, <2>9, <3>6 DEF serde
  <2>10. CASE ~\E f \in DOMAIN object :
               /\ object[f] # Null /\ fields[f].ty # "str"
               /\ ~InRange(object[f].n, fields[f].ty)
    <3>1. ASSUME NEW f \in DOMAIN fields
          PROVE  /\ Fits(fields[f], Filled(api, object, f))
                 /\ Filled(api, filled, f) = Filled(api, object, f)
      <4> DEFINE d == fields[f]
                 v == object[f]
                 default == DefaultOf(d.ty, d.default)
      <4>1. /\ d \in Declarations
            /\ d.opt \in BOOLEAN
            /\ d.ty \in {"uint", "int", "str"}
            /\ d.default \in {"no", "type", "function"}
            /\ d.default = "function" => ~d.opt /\ d.ty # "str"
        BY <2>2 DEF Declarations
      <4>2. /\ HasDefault(api, f) <=> ~d.opt /\ d.default # "no"
            /\ HasDefault(api, f) => HandDefault(api, f) = default
        <5>1. api.fields[f] = HandField(d)
          BY <2>2
        <5> HIDE DEF d
        <5> QED
          BY <5>1, <4>1 DEF HasDefault, HandDefault, HandField, DefaultOf
      <4>3. InRange(0, d.ty) /\ InRange(1, d.ty)
        BY SerdeAssumption DEF InRange
      <4> HIDE DEF d, fields
      <4>4. d.default # "no" => Fits(d, default) /\ default # Null
        BY <4>1, <4>3, Shapes DEF DefaultOf, Fits
      <4>5. /\ v \in JsonValues
            /\ FromSerde(v, IF d.ty = "str" THEN "str" ELSE "int") # Refused
            /\ Required(d) => v # Null
            /\ v # Null /\ d.ty # "str" => InRange(v.n, d.ty)
        BY <2>5, <2>6, <2>10 DEF d
      <4>6. Filled(api, object, f) = IF v = Null /\ HasDefault(api, f) THEN default ELSE v
        BY <4>2 DEF Filled
      <4>7. filled[f] = Filled(api, object, f)
        BY <2>5
      <4> HIDE DEF filled, v, default
      <4>8. Fits(d, Filled(api, object, f))
        <5>1. CASE v = Null /\ HasDefault(api, f)
          BY <5>1, <4>2, <4>4, <4>6
        <5>2. CASE v = Null /\ ~HasDefault(api, f)
          BY <5>2, <4>1, <4>2, <4>5, <4>6 DEF Fits, Required
        <5>3. CASE v # Null
          <6>1. Filled(api, object, f) = v
            BY <5>3, <4>6
          <6>2. (v.form = "number") <=> (d.ty # "str")
            BY <5>3, <4>5 DEF FromSerde
          <6> QED
            BY <5>3, <6>1, <6>2, <4>5 DEF Fits
        <5> QED
          BY <5>1, <5>2, <5>3
      <4>9. Filled(api, filled, f) = filled[f]
        <5>1. filled[f] = Null => ~HasDefault(api, f)
          BY <4>2, <4>4, <4>6, <4>7
        <5> QED
          BY <5>1 DEF Filled
      <4> QED
        BY <4>7, <4>8, <4>9 DEF d
    <3>2. DOMAIN filled = DOMAIN fields /\ DOMAIN filled = DOMAIN object
      BY <2>5
    <3>3. \A f \in DOMAIN filled : filled[f] = Filled(api, object, f)
      OBVIOUS
    <3>4. filled = [f \in DOMAIN filled |-> filled[f]]
      OBVIOUS
    <3> HIDE DEF filled
    <3>5. StructWrites(serde, api, filled) = StructWrites(serde, api, object)
      <4> DEFINE kept2 == {f \in DOMAIN filled : \/ Filled(api, filled, f) # Null
                                                 \/ f \in serde.required
                                                 \/ ~api.fields[f].skip}
                 out2(f) == StructOutput(serde, Filled(api, filled, f), api.fields[f].ty, f)
      <4>1. \A f \in DOMAIN filled : Filled(api, filled, f) = Filled(api, object, f)
        BY <3>1, <3>2
      <4>2. StructWrites(serde, api, filled) = Whole([f \in kept2 |-> out2(f)])
        BY DEF StructWrites
      <4> HIDE DEF serde
      <4>3. kept2 = kept
        BY <3>2, <4>1
      <4>4. \A f \in kept : out2(f) = out(f)
        BY <3>2, <4>1
      <4> HIDE DEF kept, kept2, out, out2
      <4>5. [f \in kept2 |-> out2(f)] = [f \in kept |-> out(f)]
        BY <4>3, <4>4
      <4> QED
        BY <4>2, <4>5, <2>8
    <3>6. \A f \in DOMAIN filled : fields[f] \in Declarations /\ Fits(fields[f], filled[f])
      BY <2>2, <3>1, <3>2, <3>3
    <3>7. StructWrites(serde, api, filled) = RustWrites(rust, filled)
      BY <2>2, <3>2, <3>6, StructWritesAsRust
    <3>8. RustReads(rust, RustWrites(rust, filled)) = filled
      BY <3>2, <3>4, <3>6, ReadBack
    <3>9. RustReads(rust, PythonWrites(Candidate, object)) = filled
      BY <2>3, <3>5, <3>7, <3>8
    <3> QED
      BY <2>10, <3>9 DEF filled
  <2> QED
    BY <2>9, <2>10
<1> QED
  BY Invariant, <1>1, PTL

-----------------------------------------------------------------------------
(* Releases talk to each other.                                            *)

\* What was released passed CI then, and is never changed.
Released == \A i \in 1 .. Len(released) : Mirrors(released[i])

LEMMA InvariantReleased == Spec => [](IInv /\ Released)
<1>1. Init => Released
  BY DEF Init, Released
<1>2. IInv /\ Released /\ [Next]_vars => Released'
  <2> SUFFICES ASSUME IInv, Released, [Next]_vars PROVE Released'
    OBVIOUS
  <2>1. CASE UNCHANGED released
    BY <2>1 DEF Released
  <2>2. CASE Release
    <3> DEFINE release == [rust |-> rust, package |-> Package]
    <3>1. released' = Append(released, release) /\ release = Candidate
      BY <2>2 DEF Release, Candidate
    <3>2. Mirrors(release)
      BY <2>2, <3>1, PassingMirrors DEF Release
    <3>3. PICK releases : released \in Seq(releases)
      BY DEF IInv
    <3> HIDE DEF release
    <3>4. /\ Len(released') = Len(released) + 1
          /\ \A i \in 1 .. Len(released) : released'[i] = released[i]
          /\ released'[Len(released) + 1] = release
      BY <3>1, <3>3
    <3>5. Len(released) \in Nat
      BY <3>3
    <3> QED
      BY <3>2, <3>4, <3>5 DEF Released
  <2> QED
    BY <2>1, <2>2 DEF Next, EditRust, EditApi, GenerateMetadata, GenerateStub, Pin, vars
<1> QED
  BY InitIInv, NextIInv, <1>1, <1>2, PTL DEF Spec

\* One direction: whoever repeats a declaration, with more fields that may be
\* absent or with fewer if it lets unknown fields pass, understands its author.
LEMMA Understood ==
  ASSUME NEW reader, Mirrors(reader), NEW writer, Mirrors(writer), NEW shared,
         shared \subseteq DOMAIN reader.rust.fields \cap DOMAIN writer.rust.fields,
         \A f \in shared : reader.rust.fields[f] = writer.rust.fields[f],
         \A f \in DOMAIN reader.rust.fields \ shared :
           f \notin DOMAIN writer.rust.fields /\ Absentable(reader.rust.fields[f]),
         \/ ~reader.rust.deny
         \/ DOMAIN writer.rust.fields \subseteq DOMAIN reader.rust.fields
  PROVE  Understands(reader, writer, shared)
<1> SUFFICES ASSUME NEW text \in Texts, RustReads(writer.rust, text) # Refused,
                    NEW wire \in
                      {RustWrites(writer.rust, RustReads(writer.rust, text)),
                       PythonWrites(writer, RustReads(writer.rust, text))}
             PROVE  LET meant   == RustReads(writer.rust, text)
                        read    == RustReads(reader.rust, wire)
                        heard   == PythonReads(reader, wire)
                        decoded == DecodeObject(ObjectDescriptor(reader.rust), wire, {})
                    IN  /\ read # Refused /\ heard # Refused
                        /\ \A f \in shared : read[f] = meant[f] /\ heard[f] = meant[f]
                        /\ decoded = Refused <=> OmitsInlineOption(reader.rust, wire)
                        /\ decoded # Refused =>
                             \A f \in shared :
                               SameMeaning(reader.rust.fields[f], decoded, f, meant[f])
  BY DEF Understands
<1> DEFINE meant == RustReads(writer.rust, text)
           fields == reader.rust.fields
           object == [f \in DOMAIN fields |-> RustField(fields[f], wire, f)]
<1>1. /\ \A f \in DOMAIN writer.rust.fields : writer.rust.fields[f] \in Declarations
      /\ \A f \in DOMAIN fields : fields[f] \in Declarations
  BY DEF Mirrors
<1>2. /\ DOMAIN meant = DOMAIN writer.rust.fields
      /\ \A f \in DOMAIN meant : Fits(writer.rust.fields[f], meant[f])
  BY <1>1, TextsAreTexts, ReadObjectsFit
<1> HIDE DEF meant
<1>3. /\ IsText(wire) /\ DOMAIN wire \subseteq DOMAIN writer.rust.fields
      /\ \A f \in DOMAIN meant : RustField(writer.rust.fields[f], wire, f) = meant[f]
      /\ \A f \in DOMAIN wire : wire[f] = Null => writer.rust.fields[f].opt
  <2>1. wire = RustWrites(writer.rust, meant)
    BY <1>2, MirrorWrites DEF meant
  <2> QED
    BY <1>1, <1>2, <2>1, Written
<1>4. ~NullForInteger(reader.rust, wire)
  <2> SUFFICES ASSUME NEW f \in DOMAIN wire \cap DOMAIN fields, wire[f] = Null
               PROVE  fields[f].opt
    BY DEF NullForInteger
  <2>1. f \in shared
    BY <1>3
  <2> QED
    BY <2>1, <1>3
<1>5. PythonReads(reader, wire) = RustReads(reader.rust, wire)
  BY <1>3, <1>4, MirrorReads
<1>6. DOMAIN object = DOMAIN fields
      /\ \A f \in DOMAIN fields : object[f] = RustField(fields[f], wire, f)
  OBVIOUS
<1>7. RustReads(reader.rust, wire) = Whole(object)
  BY <1>3 DEF RustReads
<1> HIDE DEF object
<1>8. \A f \in shared : object[f] = meant[f] /\ object[f] \in JsonValues
  <2> TAKE f \in shared
  <2>1. object[f] = meant[f] /\ Fits(fields[f], meant[f])
    BY <1>2, <1>3, <1>6
  <2> QED
    BY <2>1, Shapes DEF Fits
<1>9. \A f \in DOMAIN fields \ shared : object[f] \in JsonValues
  <2> TAKE f \in DOMAIN fields \ shared
  <2>1. f \notin DOMAIN wire /\ Absentable(fields[f])
    BY <1>3
  <2>2. object[f] = IF fields[f].opt THEN Null ELSE DefaultOf(fields[f].ty, fields[f].default)
    BY <2>1, <1>1, <1>6 DEF RustField, Absentable, Declarations
  <2>3. DefaultOf(fields[f].ty, fields[f].default) \in JsonValues
    BY Shapes DEF DefaultOf
  <2> QED
    BY <2>2, <2>3, Shapes
<1>10. Whole(object) = object
  BY <1>6, <1>8, <1>9, RefusedIsNoValue DEF Whole
<1>11. object # Refused
  <2>1. DOMAIN fields \in SUBSET Fields
    BY DEF Mirrors
  <2>2. object \in [DOMAIN fields -> JsonValues]
    <3>1. object = [f \in DOMAIN fields |-> RustField(fields[f], wire, f)]
      BY DEF object
    <3> QED
      BY <1>6, <1>8, <1>9, <3>1
  <2> QED
    BY <2>1, <2>2, SerdeAssumption DEF JsonValues
<1>12. /\ RustReadsRepeated(reader.rust, wire, {}) = object
       /\ LET decoded == DecodeObject(ObjectDescriptor(reader.rust), wire, {})
          IN  /\ decoded = Refused <=> OmitsInlineOption(reader.rust, wire)
              /\ decoded # Refused =>
                   \A f \in shared :
                     SameMeaning(reader.rust.fields[f], decoded, f, object[f])
  <2>1. RustReadsRepeated(reader.rust, wire, {}) = object
    BY <1>7, <1>10 DEF RustReadsRepeated
  <2>2. /\ DOMAIN reader.rust.fields \subseteq Fields /\ IsText(wire)
        /\ OnLine(reader.rust)
    BY <1>3 DEF Mirrors
  <2> QED
    BY <1>1, <1>11, <2>1, <2>2, DescriptorReadsAsRust
<1> QED
  BY <1>5, <1>7, <1>8, <1>10, <1>11, <1>12 DEF meant

\* Additive edits stay readable across releases, in both directions and between the
\* three languages (api.py with its tables, serde.ts with its descriptors), but for
\* an Option that was added to a variant on one line, without which TypeScript refuses.
THEOREM StaysReadable == Spec => []AdditiveEditsStayReadable
<1>1. IInv /\ Released => AdditiveEditsStayReadable
  <2> SUFFICES ASSUME IInv, Released, CiPasses, NEW i \in 1 .. Len(released),
                      Additive(released[i].rust, rust)
               PROVE  LET shared == DOMAIN released[i].rust.fields IN
                      /\ Understands(Candidate, released[i], shared)
                      /\ ~released[i].rust.deny =>
                           Understands(released[i], Candidate, shared)
    BY DEF AdditiveEditsStayReadable
  <2> DEFINE old == released[i]
             shared == DOMAIN old.rust.fields
  <2>1. Mirrors(old) /\ Mirrors(Candidate) /\ Candidate.rust = rust
    BY PassingMirrors DEF Released, Candidate
  <2>2. /\ shared \subseteq DOMAIN rust.fields
        /\ \A f \in shared : rust.fields[f] = old.rust.fields[f]
        /\ \A f \in DOMAIN rust.fields \ shared : Absentable(rust.fields[f])
    BY DEF Additive
  <2> HIDE DEF old
  <2>3. Understands(Candidate, old, shared)
    BY <2>1, <2>2, Understood
  <2>4. ~old.rust.deny => Understands(old, Candidate, shared)
    BY <2>1, <2>2, Understood
  <2> QED
    BY <2>3, <2>4 DEF old
<1> QED
  BY InvariantReleased, <1>1, PTL
=============================================================================
