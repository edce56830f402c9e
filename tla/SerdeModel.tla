------------------------------ MODULE SerdeModel ------------------------------
(***************************************************************************)
(* One DTO of the public contract in both of its readers: serde, from the  *)
(* declaration in rust/src, and the Python package, from what              *)
(* python/tools/generate_serde_metadata.py collects of that declaration    *)
(* and what python/src/longshot_protocol/api.py repeats of it by hand.     *)
(*                                                                         *)
(* A JSON text is the function from its keys to their values.  A string is *)
(* a run of digits, the same behind a minus sign, or another word; a plus  *)
(* sign changes nothing in either reader and is left out, and so are       *)
(* nested types, lists and renamed keys.  A struct and one variant of a    *)
(* tagged union differ in the tables they are read with.                   *)
(***************************************************************************)
EXTENDS Integers

CONSTANTS
  Fields,    \* names of fields: keys of a text, declared or not
  Half,      \* signed integers are -Half .. Half - 1, unsigned 0 .. 2 * Half - 1
  Numbers,   \* integers that texts hold, in range or not
  Refused    \* the outcome of a reader or a writer that raises an error

ASSUME SerdeAssumption ==
  /\ Half \in Nat /\ Half > 1
  /\ {0, 1} \subseteq Numbers /\ Numbers \subseteq Int
  /\ LET values == [form : {"null", "number", "digits", "minus", "word"}, n : Int]
     IN  /\ Refused \notin values
         /\ \A keys \in SUBSET Fields : Refused \notin [keys -> values]

-----------------------------------------------------------------------------
(* Values and declarations.                                                *)

Value(form, n) == [form |-> form, n |-> n]
Null      == Value("null", 0)
Number(n) == Value("number", n)
Empty     == Value("word", 0)
Json ==
  {Null, Empty, Value("word", 1)} \cup [form : {"number"}, n : Numbers]
    \cup [form : {"digits", "minus"}, n : {n \in Numbers : n >= 0}]

Texts   == UNION {[keys -> Json] : keys \in SUBSET Fields}
InRange(n, ty) ==
  IF ty = "uint" THEN n \in 0 .. 2 * Half - 1 ELSE n \in -Half .. Half - 1

\* The fields a Rust author may declare: type, Option, serde(default) or
\* serde(default = "function"), an adapter (with, deserialize_with, or
\* deserialize_required_nullable_u64) and skip_serializing_if.  A field that
\* reading requires is never skipped: Rust could not read what it writes.
Absentable(d) == d.default # "no" \/ (d.opt /\ d.adapter = "none")
Declarations ==
  {d \in [ty : {"uint", "int", "str"}, opt : BOOLEAN,
          default : {"no", "type", "function"},
          adapter : {"none", "with", "deserialize_with", "nullable"},
          skip : BOOLEAN] :
     /\ d.ty = "str" => d.adapter = "none"
     /\ d.adapter = "nullable" => d.opt /\ d.ty = "uint"
     /\ d.default = "function" => ~d.opt /\ d.ty # "str"
     /\ d.skip => d.opt /\ Absentable(d)}

\* No variant of the contract has an Option behind an adapter.
VariantDeclarations == {d \in Declarations : d.opt => d.adapter = "none"}

\* Fields without attributes may stand on the line of their variant.
Plain(d) == d.default = "no" /\ d.adapter = "none" /\ ~d.skip
Layouts(tagged, fields) ==
  IF tagged /\ DOMAIN fields # {} /\ \A f \in DOMAIN fields : Plain(fields[f])
  THEN BOOLEAN ELSE {FALSE}

Required(d) == d.default = "no" /\ ~d.opt
DefaultOf(ty, default) ==
  IF default = "function" THEN Number(1) ELSE IF ty = "str" THEN Empty ELSE Number(0)

\* The integer that a string spells (str::parse, int): a sign is only for
\* signed types, also before zero.
Spelled(v, ty) ==
  IF v.form = "digits" THEN Number(v.n)
  ELSE IF v.form = "minus" /\ ty = "int" THEN Number(-v.n)
  ELSE Refused

Spell(v) == IF v.n >= 0 THEN Value("digits", v.n) ELSE Value("minus", -v.n)

\* A reader refuses a text as soon as it refuses a field, a writer likewise.
Whole(object) ==
  IF \E f \in DOMAIN object : object[f] = Refused THEN Refused ELSE object

-----------------------------------------------------------------------------
(* Rust.  A declaration is [tagged, inline, fields, deny]: whether it is a *)
(* variant of a tagged union, whether that is written on one line (which   *)
(* means nothing to Rust), its fields, and deny_unknown_fields.            *)

RustInteger(d, v) ==
  LET w == IF v.form # "number" /\ d.adapter \in {"with", "deserialize_with"}
           THEN Spelled(v, d.ty) ELSE v
  IN  IF w # Refused /\ w.form = "number" /\ InRange(w.n, d.ty) THEN w ELSE Refused

RustValue(d, v) ==
  IF v = Null THEN IF d.opt THEN Null ELSE Refused
  ELSE IF d.ty # "str" THEN RustInteger(d, v)
  ELSE IF v.form # "number" THEN v ELSE Refused

RustField(d, text, f) ==
  IF f \in DOMAIN text THEN RustValue(d, text[f])
  ELSE IF d.opt /\ Absentable(d) THEN Null
  ELSE IF d.default # "no" THEN DefaultOf(d.ty, d.default)
  ELSE Refused

RustReads(rust, text) ==
  IF rust.deny /\ ~(DOMAIN text \subseteq DOMAIN rust.fields) THEN Refused
  ELSE Whole([f \in DOMAIN rust.fields |-> RustField(rust.fields[f], text, f)])

\* The last of repeated fields is never reached: serde refuses the second.
RustReadsRepeated(rust, text, duplicates) ==
  IF duplicates \cap DOMAIN rust.fields # {} THEN Refused ELSE RustReads(rust, text)

RustWrites(rust, object) ==
  [f \in {f \in DOMAIN object : object[f] # Null \/ ~rust.fields[f].skip} |->
     IF object[f] # Null /\ rust.fields[f].adapter = "with"
     THEN Spell(object[f]) ELSE object[f]]

-----------------------------------------------------------------------------
(* generate_serde_metadata.py: what Python learns of a declaration.        *)

\* Mutant: "with =" is also found in "deserialize_with =".
MarkAnyWith(d) == IF d.adapter \in {"with", "deserialize_with"} THEN "#" ELSE ""

Mark(d) ==
  CASE d.adapter = "with" -> "#"
    [] d.adapter = "deserialize_with" -> "~"
    [] OTHER -> ""

\* The tables of a struct: its integers, grouped by their specifications, and
\* the fields that a text must hold, with a value or with at least a null.
IntegerSpec(d) == [ty |-> d.ty, mark |-> Mark(d)]
IntegerFields(fields) == {f \in DOMAIN fields : fields[f].ty # "str"}

EncodedStruct(fields) ==
  {[spec  |-> IntegerSpec(fields[f]),
    names |-> {g \in IntegerFields(fields) :
                 IntegerSpec(fields[g]) = IntegerSpec(fields[f])}] :
   f \in IntegerFields(fields)}

RequiredFields(fields) == {f \in DOMAIN fields : Required(fields[f])}

\* Mutant: without a look at serde(default).
RequiredDefaulted(fields) ==
  {f \in DOMAIN fields : fields[f].opt /\ fields[f].adapter # "none"}

RequiredNullableFields(fields) ==
  {f \in DOMAIN fields : /\ fields[f].opt
                         /\ fields[f].default = "no"
                         /\ fields[f].adapter # "none"}

\* The table of a variant, where functions for defaults and skipped fields are
\* refused.
Supported(d) == d.default # "function" /\ ~d.skip
FieldSpec(d) ==
  [ty |-> d.ty, mark |-> Mark(d), opt |-> d.opt, default |-> d.default # "no"]

Collectable(rust) ==
  rust.tagged => \A f \in DOMAIN rust.fields : Supported(rust.fields[f])

NoFields == [f \in {} |-> Null]

Collect(rust) ==
  IF rust.tagged
  THEN [integers |-> {}, required |-> {}, nullable |-> {}, deny |-> rust.deny,
        variant |-> [f \in DOMAIN rust.fields |-> FieldSpec(rust.fields[f])]]
  ELSE [integers |-> EncodedStruct(rust.fields),
        required |-> RequiredFields(rust.fields),
        nullable |-> RequiredNullableFields(rust.fields),
        deny |-> FALSE, variant |-> NoFields]
=============================================================================
