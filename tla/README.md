# Longshot protocol: specification and proofs

TLA+ models of the Longshot protocol library (Rust, TypeScript and Python
packages and the scripts that release them), the TLC runs that check them on
small instances and the TLAPS proofs about them.

The repository is a *library*: it holds the data types, the byte and JSON
forms, the signing helpers and the message vocabulary that takers, market
makers and the Longshot server share. The server itself, the wallets and the
network are outside the repository. Where a property needs them they appear in
the models as external actors that use the library exactly as its code and
tests use it, and the map marks them external.

## 1. Inventory

| component | code | state | operations |
|---|---|---|---|
| Taker orders | `rust/src/taker.rs`, `typescript/src/taker.ts`, `python/.../taker.py` | a `SignedOrder` object held by the client: terms, a *mutable* list of legs, a signature | `validate_legs`, `try_signing_bytes`, `try_replay_bytes`, `sign_order`, `verify_signature`, conversion to and from JSON |
| RFQ request JSON boundary | `rust/src/api/request.rs`, `wire_int.rs` | none | `SignedOrderJson` from and to `SignedOrder`, `CreateRfqRequest::from_signed_order`, odds rounding, leg parsing, string-or-integer 64-bit numbers |
| RFQ broadcast wire format | `rust/src/types/rfq.rs`, `typescript/src/rfq.ts`, `python/.../rfq.py` | fixed-size buffers (24, 24, 280, 113 bytes) | `RfqLegWire`, `RfqLeg`, `TakerMetadata`, `BroadcastRfqRequest`, `QuoteResponse`: encode, decode, expiry |
| Market maker helpers | `mm.rs`, `mm.ts`, `mm.py` | a `QuoteResponse` being signed | challenge parsing, authentication and quote signing, `decode_broadcast_rfq`, `decode_quote_response` |
| WebSocket vocabulary | `ws.rs`, `ws.ts`, `ws.py` | none in the library; a session on each side | client and server messages of the market maker session |
| Market life cycle | `rust/src/types/market.rs` | the status of a market | `can_transition_to`, `is_tradeable`, `is_terminal`, `is_visible` |
| Odds, amounts, timestamps | `rust/src/types/primitives.rs`, `types.ts`, `types.py` | none | payout, profit, fixed-point arithmetic, expiry and remaining time at 64-bit width |
| Serde of the TypeScript and Python packages | `serde.ts`, `model.ts`, `model.py` and generated metadata | tables that are installed once, when the package is imported | decoding JSON into tagged unions and structs, encoding back |
| Withdrawals and wallet messages | `rust/src/api/request.rs`, `response.rs`, `api.ts`, `api.py`, `uuid.ts` | none in the library; operations on the server | messages to sign, canonical keys, untagged answers and how they are read |
| API models | `rust/src/api/*.rs`, `api.ts`, `api.py`, `api.pyi` | none | plain data declarations |
| Release gate | `scripts/check-release-gate.py`, `.github/workflows/*.yml` | GitHub and two git repositories, read over the network one request at a time | `check_release` |
| Source provenance | `scripts/check-source-provenance.py` | the checkout and its manifest | inventory, payload digest, verification |
| Publishing | `scripts/publish-*.sh`, `check-package-archives.sh`, `check-archive-secrets.py`, `check-public-surface.sh` | export directories, archives, package registries | pack, audit, publish |
| Python mirror of the API models | `api.py`, `api.pyi`, `_serde_metadata.py`, `model.py`, `python/tools/*.py`, `test_api_ws_parity.py`, `ci.yml` | four descriptions of the same data, in the repository and in releases: the Rust declaration, the Python class with its tables, the generated metadata, the generated stub; the pinned hash of the package | edit, generate, pin, compare, release; read and write |
| Code generators | `python/tools/*.py`, `typescript/scripts/*.mjs` | none | generate stubs and serde metadata, check that they are fresh |

### How they interact

* A **taker** builds a `SignedOrder`, signs its bytes with an EIP-191 wallet and
  posts `CreateRfqRequest` JSON. The **server** parses it back with the same
  crate, verifies the signature over the bytes it rebuilds, and keys its replay
  table by `try_replay_bytes`, which leave the funding choice out.
* The server broadcasts a 280-byte `BroadcastRfqRequest` (base64 in a WebSocket
  `rfq` message). A **market maker**, after challenge and response, decodes it
  and answers with a 113-byte signed `QuoteResponse`, which the server decodes,
  verifies and acknowledges, and whose result it reports later.
* To **withdraw**, a client signs the message of its request, for a domain and a
  chain, and asks again with the same key until it knows what became of it.
* The **Python package** repeats the Rust contract: what a field is comes from
  `api.py`, which is written by hand, how it is read and written from metadata
  that is generated from Rust, and what a caller is told from a stub that is
  generated from both. CI compares them; servers and clients of different
  releases talk to each other.
* Markets move through their statuses while quotes and orders are in flight.
* The **release** scripts replay an export of an upstream repository into this
  one, compare provenance manifests, query GitHub and only then may packages be
  published.

### What is hard, and what makes each component correct

`PROJECT.json` lists the hazards at their lines; these are the groups.

* **Reads before and after an await.** The TypeScript helpers `signOrder`,
  `signQuoteResponse` and `signAuthResponse` read, await the wallet and read
  again. What was signed and what is returned may differ; the difference must
  be refused and never be taken for the signed terms.
* **Retries and duplicates.** An order, a quote or a withdrawal is sent again,
  signed anew or with another funding choice or spelling of its key. It must
  stay one order or one operation, and two must never become one.
* **Three programs, one format.** The Rust side keeps fixed arrays, the others
  lists; Rust computes in 64 and 128 bits, the others in integers of any size;
  Rust and TypeScript try the variants of an enum, Python selects one. What one
  writes the others must read alike, at every boundary.
* **Checks that take time.** The release gate and the package audit look at one
  thing after the other while repositories, settings, CI and the working tree
  change. What is released must be what was looked at.
* **One description in four places.** An edit of a Rust declaration reaches
  Python through a class and tables written by hand, generated metadata, a
  generated stub and a pinned hash, in whatever order the author works, and
  parts of it can be forgotten. What passes CI must read and write as Rust does.
* **Failures in the middle.** Connections break between a challenge and its
  answer; uploads are accepted although their answer is lost; one of two
  archives is published.

## 2. Modules

| module | models | extends |
|---|---|---|
| `AuthorizedOrders` | abstract promise to a wallet that signs: taken on once, as authorised | – |
| `TakerOrder` | orders, signed bytes, replay bytes, JSON form and back | – |
| `TakerFlow` | clients, wallets, network and server around `TakerOrder`; implements `AuthorizedOrders` | `TakerOrder` |
| `RfqWire` | the 280-byte broadcast in three languages | – |
| `RfqFlow` | broadcasts decoded, edited and relayed | `RfqWire` |
| `QuoteWire` | challenges, quotes, their signatures and reports | – |
| `QuoteBook` | abstract promise to a market maker: held to what it meant, told the truth | – |
| `MakerSession` | a market maker on connections that break; implements `QuoteBook` | `QuoteWire` |
| `Money` | payouts, profits, shares with the widths of each language | – |
| `Fills` | an order filled in pieces, with the books of two clients | `Money` |
| `WithdrawalLedger` | abstract promise of withdrawals: authorised, granted, paid or not | `AuthorizedOrders` |
| `Withdrawals` | messages, requests and answers of withdrawals; implements `WithdrawalLedger` | – |
| `SerdeModel` | one declaration as serde reads and writes it, and what the metadata generator collects of it | – |
| `PythonModel` | the same declaration in `model.py`: installed tables, reading, writing | `SerdeModel` |
| `TypeScriptModel` | the same declaration in `serde.ts`: its descriptor, decoding | `SerdeModel` |
| `ApiMirror` | edits, generators, the pin, CI and releases around them | `PythonModel`, `TypeScriptModel` |
| `ReleaseGate` | `check-release-gate.py` among moving repositories | – |
| `PackageRegistry` | abstract promise to those who install packages | – |
| `Publish` | the three publishing helpers and the package audit; implements `PackageRegistry` | – |
| `*Proofs` | theorems about `TakerFlow`, `RfqFlow`, `MakerSession`, `ReleaseGate`, `Fills`, `Publish`, `Withdrawals` and `ApiMirror` | the module, `TLAPS` |
| `MC*` | small instances for TLC | the module |

Properties stand at the end of the module they are about. A definition whose
comment starts with *Mutant* is a plausible bug in the definition before which
it stands: it is not used by any specification, and serves to show that a
property notices it.

### Orders: `TakerOrder`, `TakerFlow`, `AuthorizedOrders`

`order[u]` is the order object of a client. `Draft`, `Edit` and `EditLegs` are
the assignments its program makes (fields of the object, or only its legs
array, which TypeScript shares with the order under construction). `Sign` is
`sign_order` of Rust and Python, and the TypeScript `signOrder` when nothing
happens before the wallet answers. `BeginSign` and `EndSign` are the two halves of
the TypeScript `signOrder`: the payload is fixed in the first one, and the
result is built from the fields read in the second. `Submit` is
`CreateRfqRequest::from_signed_order`, whose funding choice is an argument of
its own. `Handle` is the external server: it converts with `FromJson`
(`TryFrom<SignedOrderJson>`), verifies with `VerifySignature`, looks up the
replay identity `ReplayBytes` and checks the deadline. `requests` only grows, so
that a request may be delivered never, late, often and in any order.

A byte string with fixed-width fields is the record of its fields and its
length. Signing bytes are one byte longer than replay bytes, which is how the
models can tell them apart, as the code can. Odds leave as a float and return
rounded to a basis point. Floats are counted in tenths of a basis point:
`DecimalOdds` is off by a drift, which stands for what dividing and multiplying by
10,000 may lose, and `RoundedOdds` is what `.round()` makes of it. `accepted` is
a list with an entry for each time the server takes an order on, so that an order
that is taken on twice stands there twice.

`AuthorizedOrders` says what is promised without any of that: orders with a
funding choice are authorized, and granted once for each identity. `TakerFlow`
maps what owners asked to sign to `authorized` and what the server took on to
`granted`. Its invariant `GrantedAsAuthorized` is what owners rely on.

### Broadcasts: `RfqWire`, `RfqFlow`

A `Buffer` has the fields of the 280 bytes that a rule looks into; a leg slot
has its tag, direction, value and window. `FromBytes`, `ToBytes`, `IterLegs` and
`Leg` follow each language: Rust keeps `MaxLegs` slots, TypeScript and Python
keep a list of the active ones and the bytes of the others. `RfqFlow` has one
text on a socket and one object in a process: `Broadcast` (server), `Intrude` (a
peer of another version: any bytes), `Receive` (`decode_broadcast_rfq`, which
checks size, version and count), `ReceiveRaw` (`from_bytes`, which does not),
`PushLeg`, `PopLeg` and `SetLegCount` (a program that edits the object) and
`Relay` (encode again). A walk with `iter_legs` differs where a slot is no leg:
Rust gives a result for each slot, Python the legs before the first error, and
TypeScript, which converts all slots first, only the error (`IterLegs`).

### Sessions and quotes: `QuoteWire`, `MakerSession`

`up` and `down` are the queues of each connection. Gateway actions are
external; the maker's program follows `CUSTOM_CLIENTS.md` and calls the helpers
of `mm.*`. `jobs` holds calls that wait for a wallet, so that `AnswerChallenge`
and `SendAuthResponse`, `QuoteRfq` and `EndSigning` are apart, and connections
may be lost and opened, and odds assigned (`EditWhileSigning`), in between.
`EditSigned` assigns to a finished quote, `SendQuote` encodes it: odds that got
too wide for 32 bits are a `RangeError` then, and nothing is sent. `book` is what the maker noted for each id it chose.

`QuoteBook` has no connections: quotes are meant, taken and decided, and the maker
learns under an id. `MakerSession` maps `meant` and `book` to themselves and
`taken` to itself without its connections; everything that only moves messages
is a stutter.

### Odds and amounts: `Money`, `Fills`

`Rust...` operators compute modulo the widths of the Rust code, `Big...`
operators as TypeScript and Python do. `Fills` fills an order in pieces of any
size and lets both kinds of client keep totals of payouts, liabilities and
profits with saturating additions, and compute shares (`fixed_mul_div`).

### Withdrawals: `Withdrawals`, `WithdrawalLedger`

`signed` is what wallets signed, together with what for. A request is sent with
terms that may differ from the signed ones. `Accept` and `Replay` are the
external server, which rebuilds the message with the builders of the crate and
keeps one operation for a key (`ops`); `Progress` moves an operation on. `answer`
is the last answer that was written, as the set of fields that its JSON
has: `Variants` are the untagged enums of `response.rs`, `Read` tries them in
order (serde, `serde.ts`), `ReadPython` selects by the table in `api.py`. Reading
changes no state of a client, so that reading is part of the properties.

`WithdrawalLedger` adds to `AuthorizedOrders` that what was granted is paid or has
failed, once. An identity is a server, a wallet and a key, a choice is an address
and an amount. `authorized` are the terms in `signed`, for every server with their
domain and chain; `granted`, `paid` and `failed` are the operations, the completed
and the failed ones.

### The mirrors: `SerdeModel`, `PythonModel`, `TypeScriptModel`, `ApiMirror`

A declaration is a struct or one variant of a tagged union: the fields it has,
and whether unknown fields are denied. A field has a type (`"uint"`, `"int"`,
`"str"`), may be an `Option`, may have a default (of the type, or of a function),
an adapter (`with = "u64_string"`, `deserialize_with`, or the required nullable
one) and `skip_serializing_if`. A text is a function from keys to JSON values:
null, integers in and out of range, digits with and without a minus sign, and
other words. `SerdeModel` says what serde does (`RustReads`, `RustWrites`) and
what `generate_serde_metadata.py` collects (`Collect`). `PythonModel` installs
that (`Install` is `_install_serde_metadata`) and follows `from_dict` and
`to_dict` through `_coerce_wire_int`, `_coerce_sized_integer` and
`_coerce_from_serde`: `StructReads`, `StructWrites` for dataclasses,
`VariantReads`, `VariantWrites` for tagged unions.

`TypeScriptModel` has the descriptor that `generate-serde.mjs` makes of a
declaration (`ObjectDescriptor`) and the decoder over it (`DecodeObject`,
`DecodeWireInteger`). The text comes with the set of its repeated keys, of which
`JSON.parse` keeps the last and which a second scan finds. CI builds the
descriptors again and compares them, and nobody writes any of them by hand, so
that they are a function of `rust` and no file of their own. A variant whose
fields have no attributes may stand on one line (`Layouts`), which nothing but the
generator of the descriptors takes notice of: it reads such fields with
`parseInlineFields` (`InlineField`) and others with `parseFields`
(`FieldDescriptor`).

In `ApiMirror`, `rust`, `api`, `metadata`, `stub` and `pinned` are files of the
repository. `EditRust` declares or removes a field or turns the denial of
unknown fields on or off. `EditApi` is the author, who brings a field of the
class up to date and may leave it out of the tables of skipped fields and of
defaults, which stand elsewhere. `GenerateMetadata`, `GenerateStub` and `Pin`
are the tools; the second refuses to run when classes and declarations do not
match or the package is not the pinned one. `Release` is possible when
`CiPasses`: metadata and stub are fresh, the hash is right and the parity tests
find the tables of `api.py` alike. `released` is the history.

### Release gate: `ReleaseGate`

`Plan` is the list of questions of `check_release` in the order of the code;
each is one step (`CheckoutUpstream`, `CheckSources`, `CheckSetting`,
`CheckBranchProtection`, `CheckMainHead`, `CheckCommitStatus`,
`CheckNoPendingSync`), `StepFails` is an answer that does not come.
`CheckCommitStatus` sees one page of check runs, as the script asks for one: all of
them, or, if there are more than `PageSize`, any that GitHub chooses (`Pages`). Around it,
`EnvironmentStep`: commits and forced pushes on both branches, sync pull
requests opened and merged, settings changed, and check runs started, ended and
started again. `history` has every upstream commit there ever was; an export of
a commit is its payload and a manifest with its hash.

### Publishing: `Publish`

A run of a helper is a `job` at a step of `Plan(helper)`, with the export
directories it has copied so far; each run is started once (`begun`), and another one
is a retry. `CopyPython`, `Clean`, `Compile`,
`CopyTypescript`, the checks and the uploads are steps of their own; any of them
can fail (`Fail`), and an upload can succeed although the helper sees a failure.
`tree` is edited meanwhile and `dist` (typescript/dist) is shared by all runs.
The files of a package are the set of *marks* that the checks look for:
`"secret"`, `"private"`, `"extra"` and `"unsafe"`. Two builds with the same marks are
still different bytes, so that an archive also carries the run that packed it for
the audit (`by`), or `None` when it was packed in any other way, as
`cargo publish` packs the crate. A registry takes one file of each kind for a version.

`PackageRegistry` has no helpers: the four archives of a build, all by one run, pass
an audit together, and archives are released, one of each kind, the sdist after the
wheel of its build.
`Publish` maps its `registry` and `audited` to it, and every other step of a helper
is a stutter.

## 3. Runs

Each run is an MC module with a configuration of its name. Deadlock is checked
for `Fills`, `ApiMirror` and `Release*`, where something can always happen; in the
other runs the bounded clients, networks and helpers run out of what they may do.

| run | question | bounds, and why they suffice |
|---|---|---|
| `TakerFlow` | is what the server takes on what the owner asked to sign, when the order is edited before, while and after the wallet signs; is an order taken on once; does the flow implement `AuthorizedOrders`? | one TypeScript client; two drafts that differ in legs and type, so that edits lead to either or to a mixture; two signatures and two requests: a first one, and a retry, conflict or mixture; two salts, so that one payload can be signed twice; decimal odds 0.4 of a basis point too low, where rounding can still mend them. That one user cannot pass for another is proved for any users, and rounding for any drift below half a basis point (`TakerFlowProofs`) |
| `RfqFlow` | are legs and taker understood alike in all languages, are no bytes lost, do edits arrive? | two slots, counts 0 to 3 (none, some, all, too many), every kind of bad leg, both versions, two edits |
| `MakerQuotes` | is what the gateway collects what the maker meant, are reports about one quote, does the session implement `QuoteBook`? | two quotes of one request, one assignment, odds up to 5 with 2^32 as 4, so that assigned odds can be too wide to encode; two sends; one connection with one challenge |
| `MakerReconnects` | does only an answer to its own challenge open a connection; is the result of a quote that is known to be accepted still owed or on its way; does the program learn it? | under fairness; two connections, so that one can be lost and answers can come to the other; every kind of challenge id; two quotes, two sends, both languages of makers |
| `Fills` | do clients in all languages keep the same books, are payouts covered, what does splitting cost? | amounts below 12 with 2^64 as 12, odds below 8 with 2^32 as 8: every overflow, saturation and rounding occurs, and *all* odds, amounts and divisions are tried |
| `Withdrawals` | is only paid out what was signed for this deployment; is what was signed understood; do clients read its answers alike; is the whole a `WithdrawalLedger`? | two servers that settle on different chains, so that a signature can be for the other; two addresses and an omitted one, two spellings of a key; two signatures and two requests: a first one, and a retry, an edit or a mixture; every stage and set of optional fields in answers |
| `WithdrawalsReplayed` | is a replay read as a status, as documented? | as above with one server; **violated** |
| `ApiMirror` | does a package that passes CI read and write as Rust does, does TypeScript read as Rust does, does the stub ask for what Rust needs, do releases understand each other? | one field at first, declared in each of the possible ways, as a struct or as a variant; a second name, for a field that is added or that a text has and the declaration lacks; one edit and one release, so that a release before it can meet what passes after it; a variant on one line or on several, when its fields have no attributes; integers of two bits, and numbers below, in and above both ranges; *all* texts over these, with any keys repeated |
| `ReleaseCommits` | is a commit that passes an exact export, and were the heads together? | four commits a repository, two payloads, hand-made manifests, forced pushes once protection was lifted |
| `ReleaseChecks` | were the required checks green? | two commits and one check a repository, three runs and two on a page, so that there can be more than the gate sees; a second application, one changed setting |
| `Publish` | do helpers publish what they checked: can a credential or private file be published, is the npm package complete, were archives audited, do wheel and sdist agree; do helpers implement `PackageRegistry`? | three runs of helpers that overlap or follow each other, each of which may end at any step; three marks in any combination, at first at most a private file in one package; one edit of a package at any moment, so that a file can appear in or vanish from it between two steps; lost answers and retries |
| `PublishExact` | are the published archives the audited ones, as documented? | one run of a helper, one mark, one edit; **violated** |

The types of `TakerFlow`, `RfqFlow`, `ReleaseGate`, `Publish`, `Withdrawals` and `ApiMirror`
are proved for all values of the constants, and no run repeats them.

Every property of a passing run has a mutant of the code under which TLC finds
it violated (`PROJECT.json`, `mutants`).

### What the two violations show

* `PublishExact`: `publish-rust.sh --publish` does not run the package audit, and
  `cargo publish` packs the export directory again. `PROTOCOL_SYNC_SETUP.md`
  says that the three helpers can publish the exact archives of the audit,
  which is so for Python and TypeScript only (`PublishedWereAudited`).
* `WithdrawalsReplayed`: a delivered withdrawal that is asked for again is
  answered with a durable status that carries `tx_hash`. `WithdrawOperationResponse`
  is untagged and tries `Completed` first, whose fields are all there: `status` is
  dropped and the replay is read as a fresh completion. The hash belongs to a
  delivery that succeeded (`ReadCompletedWasDelivered`), so that no wrong
  outcome is told; the distinction that the comment draws is lost.

### Fairness

Only `AcceptedIsSettled` needs it. `WF_vars(GatewayStep)` says that the gateway
handles what it receives and settles what it collects; `WF_vars(MakerStep)` says
that the maker's program handles its messages and that its wallet answers.
`Choices` (connecting, losing a connection, quoting, editing, sending) have no
fairness: nothing has to be quoted or sent, and nothing has to break. A lost
connection is an excuse in `AcceptedIsSettled`, since the vocabulary has no
message that asks for a result again.

## 4. Proofs

`TakerFlowProofs`, `RfqProofs`, `MakerProofs`, `ReleaseGateProofs`, `FillsProofs`,
`PublishProofs`, `WithdrawalsProofs` and `ApiMirrorProofs` prove the safety properties of their modules for every value
of the constants that satisfies the named assumptions. These ask for no more
than the code does: at least one leg slot, positive scales, `u32` no wider than
`u64`, integers of two bits or more, an error that is no value, subsets of what
the types hold, natural bounds.

* **Orders.** `IInv` joins the types with: what a wallet signs somebody asked it
  to sign (`PayloadsAreAskedFor`); who was asked gave an order with valid legs
  (`ConsentsAreToValidOrders`); signatures on orders were made by wallets
  (`SignaturesAreMade`); what was taken on was signed, and once for each
  identity. It needs two facts about data: signing and replay bytes are injective
  (`SigningBytesInjective`, `BytesOfTerms`), and the JSON
  round trip of an order that passes its checks is the identity (`JsonRoundTrip`),
  whatever division and multiplication in floats lose below half a basis point
  (`OddsRoundTrip`). That no order is taken on twice is about the positions of the
  list `accepted`: no two of them have one replay identity (`AcceptedOncePerIdentity`). `FlowKeepsThePromise` maps every step of the flow to a step of
  `AuthorizedOrders` or to none, and `OwnersAreProtected` follows from these
  steps alone.
* **Broadcasts.** `IInv == TypeOK /\ SlotsFit /\ Unedited /\ FromServer`: lists and
  inactive bytes fill the slots, an object nobody edited is what its buffer
  decodes to, and the buffer of an unedited broadcast is what the server meant.
  `Walk` is what the walks of the three languages have in common.
* **Sessions.** Types carry most of it: every signature on its way is over
  something the maker meant. `LateAnswersAreWorthless` follows from the
  injectivity of the challenge message, `ReportsAreAboutOneQuote` from
  `ReportsInv`: two quotes with one id are one quote. That an accepted quote is
  not forgotten (`AcceptedIsNotForgotten`) is not inductive: the acknowledgement
  that makes the note may be read after the quote was settled. `OwedInv` adds what
  stands in the queue *behind* an acknowledgement: a result for its id, unless a
  quote with this id is still open on that connection (`AcksAreFollowed`), and that
  the queues of a connection that is not open are empty (`SilentUnlessOpen`).
  `SessionsKeepTheBook` maps quoting, collecting, settling and reporting to the
  steps of `QuoteBook`, and everything else to stutters: an acknowledgement that accepts is
  about a quote that was taken (`Acks`). From the steps of the book alone follow
  `LearnedFatesAreTrue` and the action property `FatesStayAsTheyAre`.
* **Release gate.** The invariants are indexed by how far the plan has gone
  (`Beyond(n)`): what a question established still holds of the checked-out
  commits whatever is pushed. `HeadsMet` is about two moments: upstream main,
  whose head is read last, is still at the commit that was checked out; a branch
  that only grows cannot have left it in between, so that it was there when the
  head of downstream main was read. `ReleasesWereGreen` says that the latest report was
  a success for commits whose check runs fit on one page (`OnOnePage`), and that some
  report was for all others.
* **Fills.** `Agreement` needs that a product of an amount and odds, or of two
  amounts, fits twice the width; `Splitting` is an induction over fills with the
  rounding of one division at a time.
* **Publish.** `IInv == TypeOK /\ RunsEstablish /\ Published`: what a run has
  checked holds of the copies in its own directory, since nothing that is
  shared is read again, and carries that run's name. `HelpersKeepTheRegistry` maps the end of an audit and an
  accepted upload to the two steps of `PackageRegistry`, from which alone
  `VersionsAreSound` and the action property `PublishedStays` follow.
* **Withdrawals.** Every signature was made for a withdrawal, whose message says
  all of its terms (`MessagesAreInjective`), or for a login, whose purpose is
  another one. An operation is then what its signature was for. Answers are
  followed by their fields: the hash is there when the delivery succeeded and
  only then, and what selects the queued variant comes with all of its fields.
  `WithdrawalsKeepTheLedger` maps signing to authorising, the first acceptance to
  granting (which may pay at once), the last stage to settling, and sending,
  replays, earlier stages and logins to stutters; `OneIdentityOneOperation` is what
  makes the ledger's operations one for each identity. `OwnersArePaidOnce` and the
  action property `PayoutsAreFinal` use the steps of the ledger alone.
* **Python mirror.** The core is about data: the tables of integers, grouped by
  their specifications, are taken apart without loss (`InstalledIntegers`); a
  field of a struct or a variant is read as Rust reads it (`StructFieldReads`,
  `VariantFieldReads`), what is read fits the declaration (`ReadObjectsFit`) and is
  written as Rust writes it (`StructWritesAsRust`, `VariantWritesAsRust`), and
  what was written is read back (`FieldThereAndBack`). The TypeScript decoder
  agrees value by value (`DecodedAlike`) and field by field
  (`FieldDecodedAlike`), on one line but for an `Option` that is left out
  (`InlineDecodedAlike`, `OnLine`), which gives `DescriptorReadsAsRust` for any declaration
  and text. `Mirrors` says that a package
  has these tables: what passes CI does, and what was released did
  (`InvariantReleased`). `Understood` is one direction between two releases, from
  Rust or Python to all three languages; an additive edit gives both.

### Only model-checked

* `AcceptedIsSettled` (liveness). Its safety part is proved: `AcceptedIsNotForgotten`
  says that the result is owed or on its way as long as connections last, the
  run that gateway and program then handle it.
* The two documented statements that are violated.

The provers reach neither liveness under fairness nor `ENABLED`, nor induction
over data, nor modules with recursive operators; no module here has any.

## 5. Abstractions

* Signatures are perfect: a signature is who made it and over what. Hashes and
  UUIDs do not collide. Hexadecimal, Base64 and checksum spellings are lossless.
* Servers, wallets, gateways, GitHub and registries are external: they do what
  the code and the documents in the repository assume of them. The network
  loses, delays, repeats and reorders HTTP requests; a WebSocket connection
  keeps its order until it breaks.
* Ill-typed values that TypeScript and Python refuse when an object is made are
  not inputs of the models.
* Left out of a modelled component: see its note in `PROJECT.json`.

### What the mirrors leave out

`model.py` was compared with `PythonModel` on the texts of the model for each way
to declare a field. One difference to Rust was found and is part of the model:
`_coerce_sized_integer` lets `None` through, so that a variant of a tagged union
takes null for a required integer without an adapter, and `to_dict` writes it (a
`ServerMessage` ping with `timestamp` null is read), while Rust refuses the text.
`CUSTOM_CLIENTS.md` says (lines 212-214) that with `to_dict` and `from_dict`
"tagged unions, enums, optional fields, and validation follow the Rust contract".
`PassingReadsAsRust` names this case as its exception (`NullForInteger`), and
holds and is proved for every other text. Structs are not affected: a null
counts as missing there.

A second difference is in the descriptors of TypeScript. `parseInlineFields`
(generate-serde.mjs:780-786), which reads the variants that stand on one line,
makes every field required, so that `decodeObject` (serde.ts:259) refuses a text
without an `Option` that Rust and Python take. On several lines the same variant
is read as Rust reads it, and rustfmt chooses the layout by width. It is latent:
the variants that stand on one line today have no `Option`.
`TypeScriptReadsAsRust` and `AdditiveEditsStayReadable` name the case as
their exception (`OmitsInlineOption`), and hold and are proved otherwise: without the
exception both are violated.

Nested types, lists, maps, renamed keys, flattened structs, CSV queries, floats,
integers spelled `-0` in JSON, keys that a text repeats before Python (whose
caller hands `from_dict` a dictionary), and what TypeScript writes are left out,
and so is how the generators parse the text of Rust and Python files: they are taken to
see the declaration, its attributes and the class as they are.

### Not modelled

* The life cycle of markets (`market.rs`, `types.py`): four predicates over
  statuses. The library neither keeps a status nor changes one; the server that
  does, with orders and quotes in flight, is outside the repository, and a model
  of it would be an invention.
* Identifiers, addresses, timestamps: conversions without state.
* How `serde.ts` scans a text for integers and repeated keys, and what it writes.
* In source provenance, the walk over files, their modes and the digest; in CI,
  what the jobs run; in the generators of TypeScript, the
  audit of the public surface.
* Tests, fixtures and examples: read for how the library is used.

## 6. Plan

1. Lists and nested declarations: a field whose type is another declaration, so
   that a package is a set of classes whose tables must be fresh together.
2. Provenance: inventory, modes and digest of `check-source-provenance.py`
   while files change between walking and reading; refines the comparison that
   `ReleaseGate` makes in one step.
3. Expiry: deadlines, `remaining_ms` and window arithmetic at 64 bits.
4. Theorems: what `ReleaseGate` promises as an abstract gate that looks at both
   repositories at one moment.
