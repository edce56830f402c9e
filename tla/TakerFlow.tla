------------------------------ MODULE TakerFlow ------------------------------
(***************************************************************************)
(* Signed RFQ submission end to end: clients draft, sign, edit and submit  *)
(* orders (taker.rs, taker.ts, taker.py, request.rs); an external server   *)
(* decodes, verifies and deduplicates what a network that loses, delays,   *)
(* repeats and reorders delivers.                                          *)
(*                                                                         *)
(* A TypeScript client signs in two steps: signOrder reads the order, then *)
(* awaits the wallet, then reads the order again to build its result.  The *)
(* legs array it re-reads may have changed in between.  Rust and Python    *)
(* sign in one step.                                                       *)
(***************************************************************************)
EXTENDS TakerOrder, FiniteSets

CONSTANTS
  AsyncUsers,    \* the users whose client is the TypeScript one
  Drafts,        \* the unsigned orders clients may want to place
  Window,        \* how far ahead the server lets a deadline be
  MaxTime,       \* bound on the clock
  MaxSignatures, \* bound on the signatures wallets produce
  MaxRequests,   \* bound on the requests put on the network
  NotSigning     \* no signOrder call is awaiting the wallet

ASSUME FlowAssumption ==
  /\ AsyncUsers \subseteq Users
  /\ Drafts \subseteq SignedOrder
  /\ \A draft \in Drafts : draft.signature = NoSignature
  /\ Window \in Nat
  /\ MaxTime \in Nat
  /\ MaxSignatures \in Nat
  /\ MaxRequests \in Nat
  /\ NoSignature \notin Signature
  /\ NotSigning \notin Payload

VARIABLES
  order,      \* order[u]: the order object the client of u is working on
  pending,    \* pending[u]: the payload a signOrder call awaits the wallet for
  consents,   \* history: the orders and funding choices users asked to sign
  signed,     \* history: every signature a wallet has produced
  requests,   \* every request ever put on the network
  now,        \* the clock
  accepted    \* the orders, with use_app_tokens, that the server has taken on: one
              \* entry for each time

vars == <<order, pending, consents, signed, requests, now, accepted>>

\* An order without its signature: what its user means by it.
Terms(o) == [o EXCEPT !.signature = NoSignature]

Consent == [key : Users, terms : SignedOrder, use_app_tokens : BOOLEAN]

TypeOK ==
  /\ order \in [Users -> SignedOrder]
  /\ pending \in [Users -> Payload \cup {NotSigning}]
  /\ consents \subseteq Consent
  /\ signed \subseteq Signature
  /\ requests \subseteq RfqRequest
  /\ now \in Nat
  /\ accepted \in Seq([order : SignedOrder, use_app_tokens : BOOLEAN])

Init ==
  /\ order \in [Users -> Drafts]
  /\ pending = [u \in Users |-> NotSigning]
  /\ consents = {}
  /\ signed = {}
  /\ requests = {}
  /\ now = 0
  /\ accepted = <<>>

-----------------------------------------------------------------------------
(* Client *)

Idle(u) == pending[u] = NotSigning

\* The client builds a new, unsigned order.
Draft(u, draft) ==
  /\ Idle(u)
  /\ order' = [order EXCEPT ![u] = draft]
  /\ UNCHANGED <<pending, consents, signed, requests, now, accepted>>

\* The client copies the fields of a draft over those of its order and keeps
\* the signature: fields are public in Rust, dataclasses.replace and a
\* SignedOrder built from another do it in Python and TypeScript.
Edit(u, draft) ==
  /\ Idle(u)
  /\ order' = [order EXCEPT ![u] = [draft EXCEPT !.signature = order[u].signature]]
  /\ UNCHANGED <<pending, consents, signed, requests, now, accepted>>

\* The legs of an order are a mutable list in all three languages: they can
\* change while a signOrder call that has read them awaits the wallet.
EditLegs(u, draft) ==
  /\ order' = [order EXCEPT ![u].legs = draft.legs]
  /\ UNCHANGED <<pending, consents, signed, requests, now, accepted>>

\* What calling sign_order says, whatever bytes the wallet is shown.
Consents(u, use_app_tokens) ==
  consents' = consents \cup {[key |-> u, terms |-> Terms(order[u]),
                              use_app_tokens |-> use_app_tokens]}

\* sign_order of Rust and Python, and signOrder of TypeScript when nothing
\* happens before the wallet answers: validate, serialise, sign, store.
Sign(u, use_app_tokens, salt) ==
  /\ Idle(u)
  /\ Cardinality(signed) < MaxSignatures
  /\ ValidateLegs(order[u]) = "ok"
  /\ LET signature == [key |-> u,
                       payload |-> SigningBytes(order[u], use_app_tokens),
                       salt |-> salt]
     IN  /\ signed' = signed \cup {signature}
         /\ order' = [order EXCEPT ![u].signature = signature]
  /\ Consents(u, use_app_tokens)
  /\ UNCHANGED <<pending, requests, now, accepted>>

\* signOrder of TypeScript, up to its await ...
BeginSign(u, use_app_tokens) ==
  /\ u \in AsyncUsers
  /\ Cardinality(signed) < MaxSignatures
  /\ Idle(u)
  /\ ValidateLegs(order[u]) = "ok"
  /\ pending' = [pending EXCEPT ![u] = SigningBytes(order[u], use_app_tokens)]
  /\ Consents(u, use_app_tokens)
  /\ UNCHANGED <<order, signed, requests, now, accepted>>

\* ... and after it: the fields are read again, legs included.
EndSign(u, salt) ==
  /\ ~Idle(u)
  /\ LET signature == [key |-> u, payload |-> pending[u], salt |-> salt]
     IN  /\ signed' = signed \cup {signature}
         /\ order' = [order EXCEPT ![u].signature = signature]
  /\ pending' = [pending EXCEPT ![u] = NotSigning]
  /\ UNCHANGED <<consents, requests, now, accepted>>

\* The client builds a request and puts it on the network, whether or not
\* the order is signed and whether or not the funding choice is the signed
\* one: from_signed_order checks neither.
Submit(u, use_app_tokens, drift) ==
  /\ Idle(u)
  /\ Cardinality(requests) < MaxRequests
  /\ ValidateLegs(order[u]) = "ok"
  /\ requests' = requests \cup {CreateRfqRequest(order[u], use_app_tokens, drift)}
  /\ UNCHANGED <<order, pending, consents, signed, now, accepted>>

-----------------------------------------------------------------------------
(* Server (external) *)

\* The deadline rule for a first submission.
Fresh(o) == now < o.expires_at_ms /\ o.expires_at_ms <= now + Window

TakenOn == {accepted[i] : i \in DOMAIN accepted}

\* The orders already taken on under the replay identity of an order.
Priors(o) == {a \in TakenOn : ReplayBytes(a.order) = ReplayBytes(o)}

Outcome(request) ==
  LET o == FromJson(request.order)
      funding == request.use_app_tokens
  IN  IF JsonError(request.order) # "ok" THEN JsonError(request.order)
      ELSE IF ~VerifySignature(o, funding) THEN "invalid_signature"
      ELSE IF \E a \in Priors(o) : a.use_app_tokens # funding THEN "conflict"
      ELSE IF Priors(o) # {} THEN "replayed"
      ELSE IF ~Fresh(o) THEN "stale"
      ELSE "accepted"

\* The server handles a request, which the network may deliver again later.
\* Any outcome but "accepted" only changes the answer.
Handle(request) ==
  /\ accepted' = IF Outcome(request) = "accepted"
                 THEN Append(accepted, [order |-> FromJson(request.order),
                                        use_app_tokens |-> request.use_app_tokens])
                 ELSE accepted
  /\ UNCHANGED <<order, pending, consents, signed, requests, now>>

Tick ==
  /\ now < MaxTime
  /\ now' = now + 1
  /\ UNCHANGED <<order, pending, consents, signed, requests, accepted>>

ClientStep ==
  \E u \in Users :
    \/ \E draft \in Drafts : Draft(u, draft) \/ Edit(u, draft) \/ EditLegs(u, draft)
    \/ \E f \in BOOLEAN, salt \in Salts : Sign(u, f, salt)
    \/ \E f \in BOOLEAN : BeginSign(u, f)
    \/ \E salt \in Salts : EndSign(u, salt)
    \/ \E f \in BOOLEAN, drift \in Drifts : Submit(u, f, drift)

ServerStep == \E request \in requests : Handle(request)

Next == ClientStep \/ ServerStep \/ Tick

Spec == Init /\ [][Next]_vars

-----------------------------------------------------------------------------
(* Properties *)

\* The owner of an order asked for it to be signed, with that funding choice.
OwnerConsents(o, use_app_tokens) ==
  [key |-> o.user, terms |-> Terms(o), use_app_tokens |-> use_app_tokens] \in consents

\* Every order the server takes on is one its own user asked to sign, in every
\* field and in the funding choice, whatever was edited after signing or while
\* a signature was awaited, or swapped between signing and from_signed_order.
\* try_signing_bytes must not leave a field out or let two be confused.
AcceptedWasSigned ==
  \A a \in TakenOn : OwnerConsents(a.order, a.use_app_tokens)

\* One order is taken on at most once, whatever its signatures, its retries
\* and the funding choices it was signed with: try_replay_bytes identifies it
\* by its terms alone.
OneAcceptancePerOrder ==
  \A i, j \in DOMAIN accepted :
    Terms(accepted[i].order) = Terms(accepted[j].order) => i = j

\* The server takes a request for a retry of an earlier one, conflicting or
\* not, only when it is: the user asked for this very order to be signed with
\* this funding choice, and another request with the same terms was taken on.
\* Two different orders never share a replay identity.
RetriesAreRetries ==
  \A request \in requests :
    Outcome(request) \in {"conflict", "replayed"} =>
      LET o == FromJson(request.order)
          f == request.use_app_tokens
      IN  /\ OwnerConsents(o, f)
          /\ \E a \in TakenOn :
               /\ Terms(a.order) = Terms(o)
               /\ (a.use_app_tokens = f) = (Outcome(request) = "replayed")

\* A request made from an order as its owner signed it, with the funding
\* choice it was signed with, is refused only for its deadline or for what
\* the JSON boundary checks and sign_order does not (odds out of range,
\* market id 0), and only if it is so: the conversion to JSON and back, and
\* the rounding of the odds on the way, lose nothing signed.
SignedRequestIsHeard ==
  \A request \in requests, c \in consents, s \in signed, drift \in Drifts :
    /\ c.key = c.terms.user
    /\ s.key = c.key
    /\ s.payload = SigningBytes(c.terms, c.use_app_tokens)
    /\ request = CreateRfqRequest([c.terms EXCEPT !.signature = s], c.use_app_tokens, drift)
    => \/ Outcome(request) \in {"accepted", "replayed", "conflict", "stale"}
       \/ /\ Outcome(request) = "InvalidMinOdds"
          /\ c.terms.min_odds_bps \notin EvenOdds + 1 .. MaxOdds
       \/ /\ Outcome(request) = "InvalidLegMarketId"
          /\ \E i \in DOMAIN c.terms.legs : c.terms.legs[i].market_id = 0

\* A wallet is only asked to sign the bytes of a valid order that its user
\* asked to sign, and a signature that an order or a request carries was made
\* by a wallet.  With the invariants on accepted orders that is inductive.
WasAsked(u, payload) ==
  \E c \in consents :
    /\ c.key = u
    /\ payload = SigningBytes(c.terms, c.use_app_tokens)

PayloadsAreAskedFor ==
  /\ \A u \in Users : pending[u] # NotSigning => WasAsked(u, pending[u])
  /\ \A s \in signed : WasAsked(s.key, s.payload)

ConsentsAreToValidOrders ==
  \A c \in consents : ValidateLegs(c.terms) = "ok" /\ c.terms.signature = NoSignature

SignaturesAreMade ==
  /\ \A u \in Users : order[u].signature \in signed \cup {NoSignature}
  /\ \A request \in requests : request.order.signature \in signed \cup {NoSignature}

\* The server compares replay identities, the properties compare terms.
AcceptedOncePerIdentity ==
  \A i, j \in DOMAIN accepted :
    ReplayBytes(accepted[i].order) = ReplayBytes(accepted[j].order) => i = j

IInv ==
  /\ TypeOK
  /\ PayloadsAreAskedFor
  /\ ConsentsAreToValidOrders
  /\ SignaturesAreMade
  /\ AcceptedWasSigned
  /\ AcceptedOncePerIdentity

\* The promise of AuthorizedOrders, read off what owners asked to sign and the
\* orders taken on.
Authorized ==
  {<<c.terms, c.use_app_tokens>> : c \in {x \in consents : x.key = x.terms.user}}

Granted == {<<Terms(a.order), a.use_app_tokens>> : a \in TakenOn}

Promise == INSTANCE AuthorizedOrders WITH authorized <- Authorized, granted <- Granted

KeepsThePromise == Promise!AbstractSpec
=============================================================================
