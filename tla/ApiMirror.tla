------------------------------- MODULE ApiMirror -------------------------------
(***************************************************************************)
(* How the Python package is kept the mirror of the Rust contract.  The    *)
(* declaration of a DTO is edited in rust/src; an author repeats it in     *)
(* api.py and may forget a table there; one tool generates                 *)
(* _serde_metadata.py from Rust, another api.pyi from api.py and Rust,     *)
(* and the second works only on a package whose hash is pinned in its own  *)
(* source.  CI compares all of it; what passes may be released, and        *)
(* servers and clients of different releases then talk to each other.      *)
(***************************************************************************)
EXTENDS PythonModel, TypeScriptModel, Sequences

CONSTANTS
  MaxEdits,     \* edits of rust/src
  MaxReleases   \* releases

ASSUME MirrorAssumption == MaxEdits \in Nat /\ MaxReleases \in Nat

VARIABLES
  rust,      \* the declaration: [tagged, inline, fields, deny]
  api,       \* api.py: the class with its tables
  metadata,  \* _serde_metadata.py
  stub,      \* api.pyi
  pinned,    \* the package that PUBLIC_PYTHON_PACKAGE_SHA256 is the hash of
  released,  \* history: what was released, in order
  edits      \* edits of rust/src so far

vars == <<rust, api, metadata, stub, pinned, released, edits>>

\* The hash covers every file of the package, generated ones included.
Package == [api |-> api, metadata |-> metadata, stub |-> stub]

\* What the stub asks of a typed caller: a value, a value or None, or nothing.
Demand(required, nullable, f) ==
  IF f \in required THEN "value" ELSE IF f \in nullable THEN "argument" ELSE "nothing"

RenderStub(python, required, nullable) ==
  [f \in DOMAIN python.fields |->
     [ty |-> python.fields[f].ty, demand |-> Demand(required, nullable, f)]]

CurrentStub == RenderStub(api, Collect(rust).required, Collect(rust).nullable)

\* main of generate_api_stub.py refuses before it renders anything.
RustInventory == IF rust.tagged THEN {} ELSE DOMAIN rust.fields
InventoryMatches == DOMAIN api.fields = RustInventory
StubToolRuns     == InventoryMatches /\ Package = pinned

\* test_api_ws_parity.py compares annotations and hand-written tables.
TablesMatch ==
  /\ \A f \in DOMAIN api.fields : api.fields[f] = HandField(rust.fields[f])
  /\ api.deny = HandMirror(rust).deny

MetadataIsFresh == Collectable(rust) /\ metadata = Collect(rust)

\* Mutant: the stub is not compared with a fresh one.
CiPassesWithoutStub ==
  MetadataIsFresh /\ StubToolRuns /\ TablesMatch

CiPasses ==
  /\ MetadataIsFresh
  /\ StubToolRuns
  /\ stub = CurrentStub
  /\ TablesMatch

-----------------------------------------------------------------------------
Declarable(tagged) == IF tagged THEN VariantDeclarations ELSE Declarations

\* A repository that passes, with one field declared in any way.
Init ==
  /\ \E f \in Fields, tagged \in BOOLEAN, deny \in BOOLEAN :
       \E d \in Declarable(tagged), inline \in BOOLEAN :
         /\ inline \in Layouts(tagged, [g \in {f} |-> d])
         /\ rust = [tagged |-> tagged, inline |-> inline,
                    fields |-> [g \in {f} |-> d], deny |-> deny]
  /\ Collectable(rust)
  /\ api = HandMirror(rust)
  /\ metadata = Collect(rust)
  /\ stub = CurrentStub
  /\ pinned = Package
  /\ released = <<>>
  /\ edits = 0

Put(fields, f, d)  == [g \in DOMAIN fields \cup {f} |-> IF g = f THEN d ELSE fields[g]]
Remove(fields, f)  == [g \in DOMAIN fields \ {f} |-> fields[g]]

\* How a variant is laid out after an edit of its fields depends on its length.
EditFields(fields) ==
  \E inline \in Layouts(rust.tagged, fields) :
    rust' = [rust EXCEPT !.fields = fields, !.inline = inline]

EditRust ==
  /\ edits < MaxEdits
  /\ \/ \E f \in Fields, d \in Declarable(rust.tagged) :
          EditFields(Put(rust.fields, f, d))
     \/ \E f \in DOMAIN rust.fields : EditFields(Remove(rust.fields, f))
     \/ rust' = [rust EXCEPT !.deny = ~@]
  /\ edits' = edits + 1
  /\ UNCHANGED <<api, metadata, stub, pinned, released>>

\* The class and the tables of skipped and defaulted fields stand apart: an
\* author who brings a field up to date may leave it out of either.
EditApi ==
  /\ ~rust.tagged
  /\ \/ \E f \in DOMAIN rust.fields, skip \in BOOLEAN, default \in BOOLEAN :
          LET h == HandField(rust.fields[f]) IN
          api' = [api EXCEPT !.fields =
                    Put(@, f, [ty |-> h.ty, skip |-> h.skip /\ skip,
                               default |-> IF default THEN h.default ELSE "no"])]
     \/ \E f \in DOMAIN api.fields \ DOMAIN rust.fields :
          api' = [api EXCEPT !.fields = Remove(@, f)]
     \/ api' = [api EXCEPT !.deny = rust.deny]
  /\ UNCHANGED <<rust, metadata, stub, pinned, released, edits>>

GenerateMetadata ==
  /\ Collectable(rust)
  /\ metadata' = Collect(rust)
  /\ UNCHANGED <<rust, api, stub, pinned, released, edits>>

GenerateStub ==
  /\ StubToolRuns
  /\ stub' = CurrentStub
  /\ UNCHANGED <<rust, api, metadata, pinned, released, edits>>

\* The author copies the hash that the tool printed when it refused.
Pin ==
  /\ pinned' = Package
  /\ UNCHANGED <<rust, api, metadata, stub, released, edits>>

Release ==
  /\ CiPasses
  /\ Len(released) < MaxReleases
  /\ released' = Append(released, [rust |-> rust, package |-> Package])
  /\ UNCHANGED <<rust, api, metadata, stub, pinned, edits>>

Next ==
  EditRust \/ EditApi \/ GenerateMetadata \/ GenerateStub \/ Pin \/ Release

Spec == Init /\ [][Next]_vars

-----------------------------------------------------------------------------
(* Type invariant: declarations, tables, stub and pinned package have the  *)
(* shapes that the tools read and write.                                   *)
HandFields == [ty : {"int", "str"}, skip : BOOLEAN, default : {"no", "type", "function"}]
Demands    == [ty : {"int", "str"}, demand : {"value", "argument", "nothing"}]

\* S holds the values of a function from some of the fields.
FieldsTo(function, S) ==
  DOMAIN function \subseteq Fields /\ \A f \in DOMAIN function : function[f] \in S

TypeOK ==
  /\ FieldsTo(rust.fields, Declarable(rust.tagged))
  /\ rust.inline \in Layouts(rust.tagged, rust.fields)
  /\ \A package \in {Package, pinned} :
       /\ FieldsTo(package.api.fields, HandFields)
       /\ FieldsTo(package.stub, Demands)
       /\ package.metadata.required \cap package.metadata.nullable = {}
  /\ Len(released) <= MaxReleases /\ edits \in 0 .. MaxEdits

-----------------------------------------------------------------------------
(* What CI lets through.                                                   *)

Candidate == [rust |-> rust, package |-> Package]

\* The one thing that the two readers do not agree on: Python takes null for
\* a required integer of a variant (see VariantValue), Rust does not.
NullForInteger(declaration, text) ==
  /\ declaration.tagged
  /\ \E f \in DOMAIN text \cap DOMAIN declaration.fields :
       /\ text[f] = Null
       /\ LET d == declaration.fields[f]
          IN  d.ty # "str" /\ ~d.opt /\ d.adapter = "none"

PythonReads(release, text) ==
  FromDict(release.package.metadata, release.package.api, text)

PythonWrites(release, object) ==
  ToDict(release.package.metadata, release.package.api, object)

\* A package that passes CI takes exactly the texts that the Rust declaration
\* takes, and reads the same values in them: whatever was edited, forgotten,
\* or generated too early before.
PassingReadsAsRust ==
  CiPasses =>
    \A text \in Texts :
      \/ NullForInteger(rust, text)
      \/ PythonReads(Candidate, text) = RustReads(rust, text)

\* What the TypeScript decoder makes of a field means what Rust reads there.
SameMeaning(d, decoded, f, read) ==
  IF f \notin DOMAIN decoded THEN read = Null
  ELSE \/ decoded[f] = read
       \/ /\ d.adapter \in {"with", "deserialize_with"} /\ read # Null
          /\ decoded[f] = Spell(read)

\* The one text that TypeScript refuses and Rust takes: an Option that stands on
\* the line of its variant is left out (see InlineField).
OmitsInlineOption(declaration, text) ==
  /\ declaration.inline
  /\ \E f \in DOMAIN declaration.fields \ DOMAIN text : declaration.fields[f].opt

\* The descriptor that CI finds fresh makes the TypeScript decoder take exactly
\* the texts that Rust takes, repeated keys included, but for an Option left out
\* of a variant on one line, and mean the same by them: absent fields, defaults,
\* and integers in strings.
TypeScriptReadsAsRust ==
  CiPasses =>
    LET schema == ObjectDescriptor(rust) IN
    \A text \in Texts : \A duplicates \in SUBSET DOMAIN text :
      LET decoded == DecodeObject(schema, text, duplicates)
          read    == RustReadsRepeated(rust, text, duplicates)
      IN  /\ decoded = Refused <=> (read = Refused \/ OmitsInlineOption(rust, text))
          /\ decoded # Refused =>
               \A f \in DOMAIN rust.fields :
                 SameMeaning(rust.fields[f], decoded, f, read[f])

\* What such a package writes for a value that was read is what Rust writes
\* for it: the same keys, and strings for the same integers.
PassingWritesAsRust ==
  CiPasses =>
    \A text \in Texts :
      LET object == RustReads(rust, text) IN
      \/ object = Refused
      \/ PythonWrites(Candidate, object) = RustWrites(rust, object)

\* What a caller may pass that a type checker accepts against the stub.
TypedArguments(entry) ==
  {v \in Json : FromSerde(v, entry.ty) # Refused}
    \ (IF entry.demand = "value" THEN {Null} ELSE {})

TypedCalls ==
  {object \in [DOMAIN stub -> Json] :
     \A f \in DOMAIN stub : object[f] \in TypedArguments(stub[f])}

\* A caller who gives what the stub of such a package demands, and leaves out
\* what it lets him, is refused only for an integer out of range, and Rust
\* reads what he meant: his values, and the defaults of what he left out.
StubbedCallsAreHeard ==
  (CiPasses /\ ~rust.tagged) =>
    \A object \in TypedCalls :
      LET text == PythonWrites(Candidate, object) IN
      IF \E f \in DOMAIN object :
           /\ object[f] # Null /\ rust.fields[f].ty # "str"
           /\ ~InRange(object[f].n, rust.fields[f].ty)
      THEN text = Refused
      ELSE RustReads(rust, text) =
             [f \in DOMAIN object |-> Filled(api, object, f)]

\* An edit is additive when it only adds fields that a text may leave out.
Additive(old, new) ==
  /\ DOMAIN old.fields \subseteq DOMAIN new.fields
  /\ \A f \in DOMAIN new.fields :
       IF f \in DOMAIN old.fields THEN new.fields[f] = old.fields[f]
       ELSE Absentable(new.fields[f])

\* What the Rust or the Python package of one release writes, for a value that it
\* has read in any text, the packages of another release understand, in Rust,
\* Python and TypeScript.
Understands(reader, writer, shared) ==
  \A text \in Texts :
    LET meant == RustReads(writer.rust, text) IN
    meant # Refused =>
      \A wire \in {RustWrites(writer.rust, meant), PythonWrites(writer, meant)} :
        LET read    == RustReads(reader.rust, wire)
            heard   == PythonReads(reader, wire)
            decoded == DecodeObject(ObjectDescriptor(reader.rust), wire, {})
        IN  /\ read # Refused /\ heard # Refused
            /\ \A f \in shared : read[f] = meant[f] /\ heard[f] = meant[f]
            /\ decoded = Refused <=> OmitsInlineOption(reader.rust, wire)
            /\ decoded # Refused =>
                 \A f \in shared :
                   SameMeaning(reader.rust.fields[f], decoded, f, meant[f])

\* Additive edits stay readable across releases: whatever language a server and its
\* client are in, the packages that pass now understand those of an earlier release
\* in every field that these know, and are understood by them unless their
\* declaration denied unknown fields.  Only TypeScript does not, and only where an
\* Option was added to a variant on one line.
AdditiveEditsStayReadable ==
  CiPasses =>
    \A i \in 1 .. Len(released) :
      LET shared == DOMAIN released[i].rust.fields IN
      Additive(released[i].rust, rust) =>
        /\ Understands(Candidate, released[i], shared)
        /\ ~released[i].rust.deny => Understands(released[i], Candidate, shared)
=============================================================================
