------------------------------ MODULE PythonModel ------------------------------
(***************************************************************************)
(* How the Python package reads and writes a DTO: from_dict and to_dict of *)
(* python/src/longshot_protocol/model.py, over the tables that             *)
(* _install_serde_metadata takes from the generated metadata ("metadata")  *)
(* and those that api.py repeats of the Rust declaration by hand ("api"):  *)
(* [tagged, fields, deny], where a field is [ty, skip, default].           *)
(***************************************************************************)
EXTENDS SerdeModel

\* What a correct hand writes for a declaration.  A default of an Option is
\* None in any case, and the fields of a variant are all generated.
HandField(d) ==
  [ty |-> IF d.ty = "str" THEN "str" ELSE "int", skip |-> d.skip,
   default |-> IF d.opt THEN "no" ELSE d.default]

HandMirror(rust) ==
  [tagged |-> rust.tagged,
   fields |-> IF rust.tagged THEN NoFields
              ELSE [f \in DOMAIN rust.fields |-> HandField(rust.fields[f])],
   deny   |-> ~rust.tagged /\ rust.deny]

\* _install_serde_metadata takes the groups of integers apart again.
Install(metadata) ==
  LET named(marks) ==
        UNION {group.names : group \in {g \in metadata.integers : g.spec.mark \in marks}}
  IN [integer_types |->
        [f \in named({"", "#", "~"}) |->
           (CHOOSE group \in metadata.integers : f \in group.names).spec.ty],
      deserialize_string_ints |-> named({"#", "~"}),
      string_ints |-> named({"#"}),
      required |-> metadata.required, required_nullable |-> metadata.nullable,
      variant |-> metadata.variant, variant_deny |-> metadata.deny]

-----------------------------------------------------------------------------
(* Coercions.                                                              *)

\* Mutant: a minus sign before an unsigned zero, as int() takes it.
WireIntAnySign(v, ty) == IF v.form = "number" THEN v ELSE Spelled(v, "int")

WireInt(v, ty) == IF v.form = "number" THEN v ELSE Spelled(v, ty)

SizedInteger(v, ty) ==
  IF v = Null \/ (v.form = "number" /\ InRange(v.n, ty)) THEN v ELSE Refused

\* _coerce_from_serde against the annotation, an Optional for every field.
FromSerde(v, ty) ==
  IF v = Null \/ ((v.form = "number") <=> (ty = "int")) THEN v ELSE Refused

-----------------------------------------------------------------------------
(* Structs: LongshotModel, with its installed tables "serde".              *)

HandDefault(api, f) == DefaultOf(api.fields[f].ty, api.fields[f].default)
HasDefault(api, f)  == api.fields[f].default # "no"

StructInteger(serde, ty, v, f) ==
  LET integer_type == serde.integer_types[f]
      w == IF f \in serde.deserialize_string_ints THEN WireInt(v, integer_type) ELSE v
  IN  IF w = Refused \/ FromSerde(w, ty) = Refused THEN Refused
      ELSE SizedInteger(w, integer_type)

StructValue(serde, api, v, f) ==
  IF v = Null THEN IF HasDefault(api, f) THEN Refused ELSE Null
  ELSE IF f \in DOMAIN serde.integer_types
       THEN StructInteger(serde, api.fields[f].ty, v, f)
  ELSE FromSerde(v, api.fields[f].ty)

StructField(serde, api, text, f) ==
  IF f \in DOMAIN text THEN StructValue(serde, api, text[f], f)
  ELSE IF HasDefault(api, f) THEN HandDefault(api, f)
  ELSE Null

MissingFields(serde, api, text, object) ==
  {f \in serde.required : IF f \in DOMAIN object THEN object[f] = Null ELSE TRUE}
    \cup {f \in serde.required_nullable :
            IF f \in DOMAIN api.fields
            THEN f \notin DOMAIN text /\ ~HasDefault(api, f) ELSE TRUE}

StructReads(serde, api, text) ==
  LET object == [f \in DOMAIN api.fields |-> StructField(serde, api, text, f)]
  IN  IF \/ api.deny /\ ~(DOMAIN text \subseteq DOMAIN api.fields)
         \/ MissingFields(serde, api, text, object) # {}
      THEN Refused ELSE Whole(object)

\* to_dict fills a default in for None, and only then looks whether the field
\* is required or skipped.
Filled(api, object, f) ==
  IF object[f] = Null /\ HasDefault(api, f) THEN HandDefault(api, f) ELSE object[f]

StructOutput(serde, v, ty, f) ==
  IF v = Null THEN IF f \in serde.required THEN Refused ELSE Null
  ELSE IF f \notin DOMAIN serde.integer_types THEN FromSerde(v, ty)
  ELSE LET c == SizedInteger(v, serde.integer_types[f])
       IN  IF c # Refused /\ f \in serde.string_ints THEN Spell(c) ELSE c

StructWrites(serde, api, object) ==
  Whole([f \in {f \in DOMAIN object :
                  \/ Filled(api, object, f) # Null
                  \/ f \in serde.required
                  \/ ~api.fields[f].skip} |->
           StructOutput(serde, Filled(api, object, f), api.fields[f].ty, f)])

-----------------------------------------------------------------------------
(* Variants: RustTaggedUnion with its generated schema.                    *)

\* _coerce_serde_spec: _coerce_sized_integer lets None through, whether or
\* not the field is optional.
VariantValue(spec, v, from_wire) ==
  IF v = Null /\ spec.opt THEN Null
  ELSE IF spec.ty = "str" THEN IF v = Null THEN Refused ELSE FromSerde(v, "str")
  ELSE LET w == IF spec.mark # "" /\ from_wire THEN WireInt(v, spec.ty) ELSE v
       IN  IF w = Refused THEN Refused ELSE SizedInteger(w, spec.ty)

DefaultSpec(spec) == IF spec.opt THEN Null ELSE DefaultOf(spec.ty, "type")

VariantField(spec, text, f) ==
  IF f \in DOMAIN text THEN VariantValue(spec, text[f], TRUE)
  ELSE IF spec.opt \/ spec.default THEN VariantValue(spec, DefaultSpec(spec), TRUE)
  ELSE Refused

VariantReads(serde, text) ==
  IF serde.variant_deny /\ ~(DOMAIN text \subseteq DOMAIN serde.variant) THEN Refused
  ELSE Whole([f \in DOMAIN serde.variant |->
                VariantField(serde.variant[f], text, f)])

VariantOutput(spec, v) ==
  LET c == VariantValue(spec, v, FALSE)
  IN  IF c \notin {Refused, Null} /\ spec.mark = "#" THEN Spell(c) ELSE c

VariantWrites(serde, object) ==
  Whole([f \in DOMAIN serde.variant |->
           VariantOutput(serde.variant[f], object[f])])

-----------------------------------------------------------------------------
FromDict(metadata, api, text) ==
  IF api.tagged THEN VariantReads(Install(metadata), text)
  ELSE StructReads(Install(metadata), api, text)

ToDict(metadata, api, object) ==
  IF api.tagged THEN VariantWrites(Install(metadata), object)
  ELSE StructWrites(Install(metadata), api, object)
=============================================================================
