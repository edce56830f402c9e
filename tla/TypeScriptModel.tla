---------------------------- MODULE TypeScriptModel ----------------------------
(***************************************************************************)
(* How the TypeScript package reads a DTO: decodeObject of                 *)
(* typescript/src/serde.ts over the descriptor that generate-serde.mjs     *)
(* derives from the Rust declaration.  JSON.parse keeps the last of        *)
(* repeated keys; which ones were repeated ("duplicates") the decoder      *)
(* learns from a second scan of the text.  An absent optional field is     *)
(* left out of the object, and an integer that came as a string stays one. *)
(***************************************************************************)
EXTENDS SerdeModel

\* ["w", ...] is an integer behind an adapter, ["n", ...] an Option in it.
TypeDescriptor(d) ==
  [ty |-> d.ty, nullable |-> d.opt, wire |-> d.adapter \in {"with", "deserialize_with"}]

RequiredField(d) == d.default = "no" /\ (~d.opt \/ d.adapter # "none")

\* What is embedded for serde(default): the value of the function, or of the
\* descriptor's type.
MaterializedDefault(d) == IF d.opt THEN Null ELSE DefaultOf(d.ty, d.default)

FieldDescriptor(d) ==
  [type |-> TypeDescriptor(d), required |-> RequiredField(d),
   defaulted |-> d.default # "no", default |-> MaterializedDefault(d)]

\* The fields of a variant on one line have a reader of their own, which
\* knows no attributes and takes every field for required, an Option too.
InlineField(d) ==
  [type |-> TypeDescriptor(d), required |-> TRUE,
   defaulted |-> FALSE, default |-> Null]

ObjectDescriptor(rust) ==
  [fields |-> [f \in DOMAIN rust.fields |->
                 IF rust.inline THEN InlineField(rust.fields[f])
                 ELSE FieldDescriptor(rust.fields[f])],
   deny   |-> rust.deny]

-----------------------------------------------------------------------------
CheckedInteger(v, ty) ==
  LET n == IF v.form = "number" THEN v ELSE Spelled(v, ty)
  IN  IF n # Refused /\ InRange(n.n, ty) THEN n ELSE Refused

DecodeWireInteger(type, v) ==
  LET n == CheckedInteger(v, type.ty)
  IN  IF n # Refused /\ v.form # "number" THEN Spell(n) ELSE n

Decode(type, v) ==
  IF type.nullable /\ v = Null THEN Null
  ELSE IF type.wire THEN DecodeWireInteger(type, v)
  ELSE IF type.ty = "str" THEN IF v = Null \/ v.form = "number" THEN Refused ELSE v
  ELSE IF v.form = "number" THEN CheckedInteger(v, type.ty) ELSE Refused

DecodeField(field, text, f) ==
  IF f \in DOMAIN text THEN Decode(field.type, text[f])
  ELSE IF field.required THEN Refused
  ELSE field.default

PresentFields(schema, text) ==
  {f \in DOMAIN schema.fields :
     f \in DOMAIN text \/ schema.fields[f].required \/ schema.fields[f].defaulted}

\* Mutant: the last of repeated fields is taken.
DecodeLast(schema, text, duplicates) ==
  IF schema.deny /\ ~(DOMAIN text \subseteq DOMAIN schema.fields) THEN Refused
  ELSE Whole([f \in PresentFields(schema, text) |->
                DecodeField(schema.fields[f], text, f)])

DecodeObject(schema, text, duplicates) ==
  IF \/ duplicates \cap DOMAIN schema.fields # {}
     \/ schema.deny /\ ~(DOMAIN text \subseteq DOMAIN schema.fields)
  THEN Refused
  ELSE Whole([f \in PresentFields(schema, text) |->
                DecodeField(schema.fields[f], text, f)])
=============================================================================
