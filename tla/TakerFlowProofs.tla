---------------------------- MODULE TakerFlowProofs ----------------------------
(***************************************************************************)
(* Theorems about TakerFlow, for any users, drafts, clock and bounds.      *)
(***************************************************************************)
EXTENDS TakerFlow, TLAPS, WellFoundedInduction

-----------------------------------------------------------------------------
(* The operators of TakerOrder *)

\* try_order_bytes returns one of the byte strings a wallet may sign or a
\* replay table may be keyed by.
LEMMA OrderBytesType ==
  ASSUME NEW o \in SignedOrder, NEW funding \in Seq(BOOLEAN)
  PROVE  OrderBytes(o, funding) \in Payload
<1>1. o.legs \in Seq(OrderLeg)
  BY DEF SignedOrder
<1>2. Len(o.legs) \in Nat
  BY <1>1
<1>3. Len(funding) \in Nat
  OBVIOUS
<1>4. \A m, n \in Nat : 51 + m + 9 * n \in Nat
  OBVIOUS
<1>5. 51 + Len(funding) + 9 * Len(o.legs) \in Nat
  BY <1>2, <1>3, <1>4
<1> QED
  BY <1>1, <1>2, <1>5 DEF OrderBytes, Payload, SignedOrder

\* ... and the signing bytes are one of them.
LEMMA SigningBytesType ==
  ASSUME NEW o \in SignedOrder, NEW f \in BOOLEAN
  PROVE  SigningBytes(o, f) \in Payload
<1>1. <<f>> \in Seq(BOOLEAN)
  OBVIOUS
<1> QED
  BY <1>1, OrderBytesType DEF SigningBytes

\* No error of the JSON boundary reads like an answer of the server.
LEMMA JsonErrorRange ==
  ASSUME NEW json
  PROVE  JsonError(json) \notin {"accepted", "replayed", "conflict", "invalid_signature"}
<1>1. \A leg : LegError(leg) \in {"InvalidLegMarketId", "InvalidLegDirection", "ok"}
  BY DEF LegError
<1>2. LegsError(json.legs) \in {"MissingLegs", "TooManyLegs", "InvalidLegMarketId",
                                "InvalidLegDirection", "ok"}
  BY <1>1 DEF LegsError
<1>3. MinOddsError(json.min_odds) \in {"InvalidMinOdds", "ok"}
  BY DEF MinOddsError
<1> QED
  BY <1>2, <1>3 DEF JsonError

\* try_order_bytes keeps every field: equal bytes come from equal terms and
\* equal funding choices.
LEMMA OrderBytesInjective ==
  ASSUME NEW o \in SignedOrder, NEW p \in SignedOrder, NEW f, NEW g,
         OrderBytes(o, f) = OrderBytes(p, g)
  PROVE  Terms(o) = Terms(p) /\ f = g
<1>1. /\ o.user = p.user
      /\ o.wager_micros = p.wager_micros
      /\ o.min_odds_bps = p.min_odds_bps
      /\ o.nonce = p.nonce
      /\ o.expires_at_ms = p.expires_at_ms
      /\ o.order_type = p.order_type
      /\ o.shield_on = p.shield_on
      /\ o.legs = p.legs
      /\ f = g
  BY DEF OrderBytes
<1> QED
  BY <1>1 DEF Terms, SignedOrder

\* ... so signing bytes determine what is agreed to,
LEMMA SigningBytesInjective ==
  ASSUME NEW o \in SignedOrder, NEW p \in SignedOrder, NEW f, NEW g,
         SigningBytes(o, f) = SigningBytes(p, g)
  PROVE  Terms(o) = Terms(p) /\ f = g
<1>1. <<f>> = <<g>> => f = g
  OBVIOUS
<1> QED
  BY <1>1, OrderBytesInjective DEF SigningBytes

\* ... and replay identities and signing bytes depend on the terms alone.
LEMMA BytesOfTerms ==
  ASSUME NEW o \in SignedOrder
  PROVE  /\ Terms(o) \in SignedOrder
         /\ Terms(Terms(o)) = Terms(o)
         /\ Terms(o).user = o.user
         /\ ValidateLegs(Terms(o)) = ValidateLegs(o)
         /\ ReplayBytes(Terms(o)) = ReplayBytes(o)
         /\ \A f : SigningBytes(Terms(o), f) = SigningBytes(o, f)
         /\ Terms(o).signature = NoSignature
<1>1. /\ Terms(o).user = o.user
      /\ Terms(o).wager_micros = o.wager_micros
      /\ Terms(o).min_odds_bps = o.min_odds_bps
      /\ Terms(o).nonce = o.nonce
      /\ Terms(o).expires_at_ms = o.expires_at_ms
      /\ Terms(o).order_type = o.order_type
      /\ Terms(o).shield_on = o.shield_on
      /\ Terms(o).legs = o.legs
      /\ Terms(o).signature = NoSignature
      /\ Terms(o) \in SignedOrder
  BY DEF Terms, SignedOrder
<1>2. Terms(Terms(o)) = Terms(o)
  BY <1>1 DEF Terms, SignedOrder
<1> QED
  BY <1>1, <1>2 DEF ValidateLegs, ReplayBytes, SigningBytes, OrderBytes

\* A function on the domain of a sequence is a sequence.
LEMMA SameDomainIsSequence ==
  ASSUME NEW S, NEW T, NEW s \in Seq(S), NEW f \in [DOMAIN s -> T]
  PROVE  f \in Seq(T)
<1>1. Len(s) \in Nat /\ DOMAIN s = 1 .. Len(s)
  OBVIOUS
<1>2. f \in [1 .. Len(s) -> T]
  BY <1>1
<1> QED
  BY <1>1, <1>2

\* The HTTP form of a valid order is a SignedOrderJson.
LEMMA ToJsonType ==
  ASSUME NEW o \in SignedOrder, NEW drift \in Drifts, ValidateLegs(o) = "ok"
  PROVE  ToJson(o, drift) \in SignedOrderJson
<1>1. o.legs \in Seq(OrderLeg)
  BY DEF SignedOrder
<1>2. \A i \in DOMAIN o.legs : o.legs[i] \in OrderLeg
  BY <1>1
<1>3. \A d : DirectionName(d) \in {"up", "down", "other"}
  BY DEF DirectionName
<1>4. ToJson(o, drift).legs \in [DOMAIN o.legs -> OrderLegJson]
  BY <1>2, <1>3 DEF ToJson, OrderLeg, OrderLegJson
<1>5. ToJson(o, drift).legs \in Seq(OrderLegJson)
  BY <1>1, <1>4, SameDomainIsSequence
<1>6. DecimalOdds(o.min_odds_bps, drift) \in Nat
  BY TakerAssumption DEF DecimalOdds, SignedOrder
<1> QED
  BY <1>5, <1>6 DEF ToJson, SignedOrderJson, SignedOrder, OrderTypes

\* What decodes without an error is an order.
LEMMA FromJsonType ==
  ASSUME NEW json \in SignedOrderJson, JsonError(json) = "ok"
  PROVE  FromJson(json) \in SignedOrder
<1>1. json.legs \in Seq(OrderLegJson)
  BY DEF SignedOrderJson
<1>2. json.order_type \in OrderTypes
  BY DEF JsonError
<1>3. \A i \in DOMAIN json.legs : json.legs[i] \in OrderLegJson
  BY <1>1
<1>4. \A name : DirectionToWire(name) \in Nat
  BY DEF DirectionToWire
<1>5. FromJson(json).legs \in [DOMAIN json.legs -> OrderLeg]
  BY <1>3, <1>4 DEF FromJson, OrderLeg, OrderLegJson
<1>6. FromJson(json).legs \in Seq(OrderLeg)
  BY <1>1, <1>5, SameDomainIsSequence
<1>7. RoundedOdds(json.min_odds) \in Nat
  BY DEF RoundedOdds, SignedOrderJson
<1> QED
  BY <1>2, <1>6, <1>7 DEF FromJson, SignedOrderJson, SignedOrder

\* Rounding takes away what the decimal drifted by.
LEMMA OddsRoundTrip ==
  ASSUME NEW bps \in Nat, NEW drift \in Drifts
  PROVE  RoundedOdds(DecimalOdds(bps, drift)) = bps
<1>1. drift \in -4 .. 4
  BY TakerAssumption
<1>2. CASE bps = 0
  BY <1>2 DEF RoundedOdds, DecimalOdds
<1>3. CASE bps # 0
  <2>1. (bps * 10 + drift + 5) \div 10 = bps
    BY <1>1
  <2> QED
    BY <1>1, <1>3, <2>1 DEF RoundedOdds, DecimalOdds
<1> QED
  BY <1>2, <1>3

\* A valid order survives the conversion to JSON and back.
LEMMA JsonRoundTrip ==
  ASSUME NEW o \in SignedOrder, NEW drift \in Drifts, ValidateLegs(o) = "ok"
  PROVE  FromJson(ToJson(o, drift)) = o
<1>1. o.legs \in Seq(OrderLeg)
  BY DEF SignedOrder
<1>2. \A i \in DOMAIN o.legs : o.legs[i] \in OrderLeg /\ o.legs[i].direction \in Directions
  BY <1>1 DEF ValidateLegs
<1>3. \A d \in Directions : DirectionToWire(DirectionName(d)) = d
  BY DEF DirectionToWire, DirectionName, Directions
<1>4. DOMAIN ToJson(o, drift).legs = DOMAIN o.legs
  BY DEF ToJson
<1>5. \A i \in DOMAIN o.legs :
        [market_id |-> ToJson(o, drift).legs[i].market_id,
         direction |-> DirectionToWire(ToJson(o, drift).legs[i].direction)] = o.legs[i]
  BY <1>2, <1>3 DEF ToJson, OrderLeg
<1>6. FromJson(ToJson(o, drift)).legs = o.legs
  <2>1. FromJson(ToJson(o, drift)).legs = [i \in DOMAIN o.legs |-> o.legs[i]]
    BY <1>4, <1>5 DEF FromJson
  <2> QED
    BY <1>1, <2>1
<1>7. RoundedOdds(DecimalOdds(o.min_odds_bps, drift)) = o.min_odds_bps
  BY OddsRoundTrip DEF SignedOrder
<1> QED
  BY <1>6, <1>7 DEF FromJson, ToJson, SignedOrder

\* A list with a bad leg has a first one.
LEMMA FirstBadLegExists ==
  ASSUME NEW legs \in Seq(OrderLegJson),
         ~ \A i \in DOMAIN legs : LegError(legs[i]) = "ok"
  PROVE  FirstBadLeg(legs) \in DOMAIN legs
<1> DEFINE R == {pair \in Nat \X Nat : pair[1] < pair[2]}
           Bad == {i \in DOMAIN legs : LegError(legs[i]) # "ok"}
<1>1. IsWellFoundedOn(R, Nat)
  BY NatLessThanWellFounded DEF OpToRel
<1>2. DOMAIN legs = 1 .. Len(legs) /\ Len(legs) \in Nat
  OBVIOUS
<1>3. Bad \subseteq Nat /\ Bad # {}
  BY <1>2
<1>0. \A j, k \in Nat : <<j, k>> \notin R => k <= j
  OBVIOUS
<1> HIDE DEF R
<1>4. PICK i \in Bad : \A j \in Bad : <<j, i>> \notin R
  BY <1>1, <1>3, WFMin
<1>5. \A j \in Bad : i <= j
  BY <1>3, <1>4, <1>0
<1> QED
  BY <1>4, <1>5 DEF FirstBadLeg

\* What sign_order accepts, the JSON boundary refuses only for odds that are out
\* of range or a market id that is 0.
LEMMA JsonErrorsOfValidOrders ==
  ASSUME NEW o \in SignedOrder, NEW drift \in Drifts, ValidateLegs(o) = "ok"
  PROVE  LET error == JsonError(ToJson(o, drift))
         IN  \/ error = "ok"
             \/ error = "InvalidMinOdds" /\ o.min_odds_bps \notin EvenOdds + 1 .. MaxOdds
             \/ /\ error = "InvalidLegMarketId"
                /\ \E i \in DOMAIN o.legs : o.legs[i].market_id = 0
<1> DEFINE legs == ToJson(o, drift).legs
<1>1. o.legs \in Seq(OrderLeg)
  BY DEF SignedOrder
<1>2. legs \in Seq(OrderLegJson) /\ DOMAIN legs = DOMAIN o.legs
  BY <1>1, ToJsonType DEF SignedOrderJson, ToJson
<1>3. Len(legs) = Len(o.legs)
  BY <1>1, <1>2
<1>4. legs # <<>> /\ ~ Len(legs) > MaxLegs
  BY <1>1, <1>2, <1>3 DEF ValidateLegs
<1>5. \A i \in DOMAIN legs :
        \/ LegError(legs[i]) = "ok"
        \/ LegError(legs[i]) = "InvalidLegMarketId" /\ o.legs[i].market_id = 0
  BY <1>2 DEF LegError, ToJson, DirectionName
<1>6. \/ LegsError(legs) = "ok"
      \/ LegsError(legs) = "InvalidLegMarketId" /\ \E i \in DOMAIN o.legs : o.legs[i].market_id = 0
  <2>1. CASE \A i \in DOMAIN legs : LegError(legs[i]) = "ok"
    BY <1>4, <2>1 DEF LegsError
  <2>2. CASE ~ \A i \in DOMAIN legs : LegError(legs[i]) = "ok"
    <3>1. FirstBadLeg(legs) \in DOMAIN legs
      BY <1>2, <2>2, FirstBadLegExists
    <3> QED
      BY <1>2, <1>4, <1>5, <2>2, <3>1 DEF LegsError
  <2> QED
    BY <2>1, <2>2
<1>7. ToJson(o, drift).user \in Users /\ ToJson(o, drift).order_type \in OrderTypes
  BY DEF ToJson, SignedOrder
<1>8. \/ MinOddsError(ToJson(o, drift).min_odds) = "ok"
      \/ /\ MinOddsError(ToJson(o, drift).min_odds) = "InvalidMinOdds"
         /\ o.min_odds_bps \notin EvenOdds + 1 .. MaxOdds
  <2>1. ToJson(o, drift).min_odds = DecimalOdds(o.min_odds_bps, drift) /\ o.min_odds_bps \in Nat
    BY DEF ToJson, SignedOrder
  <2>2. RoundedOdds(ToJson(o, drift).min_odds) = o.min_odds_bps
    BY <2>1, OddsRoundTrip
  <2> QED
    BY <2>1, <2>2, TakerAssumption DEF MinOddsError
<1> QED
  BY <1>6, <1>7, <1>8 DEF JsonError

-----------------------------------------------------------------------------
(* The state machine *)

\* Every variable has its type: in particular whatever the server decodes and
\* takes on is a well-formed order.
THEOREM TypeCorrect == Spec => []TypeOK
<1>1. Init => TypeOK
  BY FlowAssumption DEF Init, TypeOK
<1>2. TypeOK /\ [Next]_vars => TypeOK'
  <2> SUFFICES ASSUME TypeOK, [Next]_vars
               PROVE  TypeOK'
    OBVIOUS
  <2>1. ASSUME NEW u \in Users, NEW draft \in Drafts, Draft(u, draft)
        PROVE  TypeOK'
    BY <2>1, FlowAssumption DEF Draft, TypeOK
  <2>2. ASSUME NEW u \in Users, NEW draft \in Drafts, Edit(u, draft)
        PROVE  TypeOK'
    <3>1. draft \in SignedOrder /\ order[u] \in SignedOrder
      BY FlowAssumption DEF TypeOK
    <3>2. [draft EXCEPT !.signature = order[u].signature] \in SignedOrder
      BY <3>1 DEF SignedOrder
    <3> QED
      BY <2>2, <3>2 DEF Edit, TypeOK
  <2>3. ASSUME NEW u \in Users, NEW draft \in Drafts, EditLegs(u, draft)
        PROVE  TypeOK'
    <3>1. draft \in SignedOrder /\ order[u] \in SignedOrder
      BY FlowAssumption DEF TypeOK
    <3>2. [order[u] EXCEPT !.legs = draft.legs] \in SignedOrder
      BY <3>1 DEF SignedOrder
    <3> QED
      BY <2>3, <3>2 DEF EditLegs, TypeOK
  <2>4. ASSUME NEW u \in Users, NEW f \in BOOLEAN, NEW salt \in Salts, Sign(u, f, salt)
        PROVE  TypeOK'
    <3> DEFINE signature == [key |-> u, payload |-> SigningBytes(order[u], f), salt |-> salt]
    <3>1. order[u] \in SignedOrder
      BY DEF TypeOK
    <3>2. signature \in Signature
      BY <3>1, SigningBytesType, FlowAssumption DEF Signature
    <3>3. [order[u] EXCEPT !.signature = signature] \in SignedOrder
      BY <3>1, <3>2 DEF SignedOrder
    <3>4. consents' \subseteq Consent
      BY <2>4, <3>1, BytesOfTerms DEF Sign, Consents, Consent, TypeOK
    <3> QED
      BY <2>4, <3>2, <3>3, <3>4 DEF Sign, TypeOK
  <2>5. ASSUME NEW u \in Users, NEW f \in BOOLEAN, BeginSign(u, f)
        PROVE  TypeOK'
    <3>1. SigningBytes(order[u], f) \in Payload
      BY SigningBytesType DEF TypeOK
    <3>2. consents' \subseteq Consent
      BY <2>5, BytesOfTerms DEF BeginSign, Consents, Consent, TypeOK
    <3> QED
      BY <2>5, <3>1, <3>2 DEF BeginSign, TypeOK
  <2>6. ASSUME NEW u \in Users, NEW salt \in Salts, EndSign(u, salt)
        PROVE  TypeOK'
    <3> DEFINE signature == [key |-> u, payload |-> pending[u], salt |-> salt]
    <3>1. order[u] \in SignedOrder /\ pending[u] \in Payload
      BY <2>6 DEF TypeOK, EndSign, Idle
    <3>2. signature \in Signature
      BY <3>1, FlowAssumption DEF Signature
    <3>3. [order[u] EXCEPT !.signature = signature] \in SignedOrder
      BY <3>1, <3>2 DEF SignedOrder
    <3> QED
      BY <2>6, <3>2, <3>3 DEF EndSign, TypeOK
  <2>7. ASSUME NEW u \in Users, NEW f \in BOOLEAN, NEW drift \in Drifts, Submit(u, f, drift)
        PROVE  TypeOK'
    <3>1. ToJson(order[u], drift) \in SignedOrderJson
      BY <2>7, ToJsonType DEF Submit, TypeOK
    <3>2. CreateRfqRequest(order[u], f, drift) \in RfqRequest
      BY <3>1 DEF CreateRfqRequest, RfqRequest
    <3> QED
      BY <2>7, <3>2 DEF Submit, TypeOK
  <2>8. ASSUME NEW request \in requests, Handle(request)
        PROVE  TypeOK'
    <3>1. request.order \in SignedOrderJson /\ request.use_app_tokens \in BOOLEAN
      BY DEF TypeOK, RfqRequest
    <3>2. CASE Outcome(request) = "accepted"
      <4>1. JsonError(request.order) = "ok"
        BY <3>2, JsonErrorRange DEF Outcome
      <4>2. FromJson(request.order) \in SignedOrder
        BY <3>1, <4>1, FromJsonType
      <4>3. [order |-> FromJson(request.order), use_app_tokens |-> request.use_app_tokens]
              \in [order : SignedOrder, use_app_tokens : BOOLEAN]
        BY <3>1, <4>2
      <4> QED
        BY <2>8, <3>2, <4>3 DEF Handle, TypeOK
    <3>3. CASE Outcome(request) # "accepted"
      BY <2>8, <3>3 DEF Handle, TypeOK
    <3> QED
      BY <3>2, <3>3
  <2>9. CASE Tick
    BY <2>9 DEF Tick, TypeOK
  <2>10. CASE UNCHANGED vars
    BY <2>10 DEF vars, TypeOK
  <2> QED
    BY <2>1, <2>2, <2>3, <2>4, <2>5, <2>6, <2>7, <2>8, <2>9, <2>10
    DEF Next, ClientStep, ServerStep
<1> QED
  BY <1>1, <1>2, PTL DEF Spec

\* An order that verifies is one its user asked to sign, with that funding.
LEMMA VerifiedWasAsked ==
  ASSUME IInv, NEW request \in requests, NEW f,
         FromJson(request.order) \in SignedOrder,
         VerifySignature(FromJson(request.order), f)
  PROVE  OwnerConsents(FromJson(request.order), f)
<1> DEFINE o == FromJson(request.order)
<1>1. o.signature = request.order.signature
  BY DEF FromJson
<1>2. /\ o.signature \in signed
      /\ o.signature.key = o.user
      /\ o.signature.payload = SigningBytes(o, f)
  BY <1>1 DEF IInv, SignaturesAreMade, VerifySignature, Recovers
<1>3. PICK c \in consents : /\ c.key = o.user
                            /\ SigningBytes(o, f) = SigningBytes(c.terms, c.use_app_tokens)
  BY <1>2 DEF IInv, PayloadsAreAskedFor, WasAsked
<1>4. c \in Consent /\ c.terms \in SignedOrder
  BY <1>3 DEF IInv, TypeOK, Consent
<1>5. Terms(o) = Terms(c.terms) /\ f = c.use_app_tokens
  BY <1>3, <1>4, SigningBytesInjective
<1>6. Terms(c.terms) = c.terms
  BY <1>4 DEF IInv, ConsentsAreToValidOrders, Terms, SignedOrder
<1> QED
  BY <1>3, <1>4, <1>5, <1>6 DEF OwnerConsents, Consent

\* What an "accepted" answer says about the request.
LEMMA AcceptedOutcome ==
  ASSUME NEW request, Outcome(request) = "accepted"
  PROVE  /\ JsonError(request.order) = "ok"
         /\ VerifySignature(FromJson(request.order), request.use_app_tokens)
         /\ \A a \in TakenOn : ReplayBytes(a.order) # ReplayBytes(FromJson(request.order))
  BY JsonErrorRange DEF Outcome, Priors

\* What a "conflict" or "replayed" answer says about the request.
LEMMA RetryOutcome ==
  ASSUME NEW request, Outcome(request) \in {"conflict", "replayed"}
  PROVE  /\ JsonError(request.order) = "ok"
         /\ VerifySignature(FromJson(request.order), request.use_app_tokens)
         /\ \E a \in TakenOn :
              /\ ReplayBytes(a.order) = ReplayBytes(FromJson(request.order))
              /\ (a.use_app_tokens = request.use_app_tokens) = (Outcome(request) = "replayed")
  BY JsonErrorRange DEF Outcome, Priors

LEMMA SignaturesStayMade ==
  ASSUME IInv, [Next]_vars
  PROVE  SignaturesAreMade'
<1> USE DEF IInv
<1>1. ASSUME NEW u \in Users, NEW draft \in Drafts, Draft(u, draft)
      PROVE  SignaturesAreMade'
  BY <1>1, FlowAssumption DEF Draft, TypeOK, SignaturesAreMade
<1>2. ASSUME NEW u \in Users, NEW draft \in Drafts, Edit(u, draft)
      PROVE  SignaturesAreMade'
  <2>1. draft \in SignedOrder
    BY FlowAssumption
  <2>2. [draft EXCEPT !.signature = order[u].signature].signature = order[u].signature
    BY <2>1 DEF SignedOrder
  <2> QED
    BY <1>2, <2>2 DEF Edit, TypeOK, SignaturesAreMade
<1>3. ASSUME NEW u \in Users, NEW draft \in Drafts, EditLegs(u, draft)
      PROVE  SignaturesAreMade'
  <2>1. order[u] \in SignedOrder
    BY DEF TypeOK
  <2>2. [order[u] EXCEPT !.legs = draft.legs].signature = order[u].signature
    BY <2>1 DEF SignedOrder
  <2> QED
    BY <1>3, <2>2 DEF EditLegs, TypeOK, SignaturesAreMade
<1>4. ASSUME NEW u \in Users, NEW f \in BOOLEAN, NEW salt \in Salts, Sign(u, f, salt)
      PROVE  SignaturesAreMade'
  <2> DEFINE signature == [key |-> u, payload |-> SigningBytes(order[u], f), salt |-> salt]
  <2>1. order[u] \in SignedOrder
    BY DEF TypeOK
  <2>2. [order[u] EXCEPT !.signature = signature].signature = signature
    BY <2>1 DEF SignedOrder
  <2> QED
    BY <1>4, <2>2 DEF Sign, TypeOK, SignaturesAreMade
<1>5. ASSUME NEW u \in Users, NEW f \in BOOLEAN, BeginSign(u, f)
      PROVE  SignaturesAreMade'
  BY <1>5 DEF BeginSign, SignaturesAreMade
<1>6. ASSUME NEW u \in Users, NEW salt \in Salts, EndSign(u, salt)
      PROVE  SignaturesAreMade'
  <2> DEFINE signature == [key |-> u, payload |-> pending[u], salt |-> salt]
  <2>1. order[u] \in SignedOrder
    BY DEF TypeOK
  <2>2. [order[u] EXCEPT !.signature = signature].signature = signature
    BY <2>1 DEF SignedOrder
  <2> QED
    BY <1>6, <2>2 DEF EndSign, TypeOK, SignaturesAreMade
<1>7. ASSUME NEW u \in Users, NEW f \in BOOLEAN, NEW drift \in Drifts, Submit(u, f, drift)
      PROVE  SignaturesAreMade'
  <2>1. CreateRfqRequest(order[u], f, drift).order.signature = order[u].signature
    BY DEF CreateRfqRequest, ToJson
  <2> QED
    BY <1>7, <2>1 DEF Submit, SignaturesAreMade
<1>8. ASSUME NEW request \in requests, Handle(request)
      PROVE  SignaturesAreMade'
  BY <1>8 DEF Handle, SignaturesAreMade
<1>9. CASE Tick
  BY <1>9 DEF Tick, SignaturesAreMade
<1>10. CASE UNCHANGED vars
  BY <1>10 DEF vars, SignaturesAreMade
<1> QED
  BY <1>1, <1>2, <1>3, <1>4, <1>5, <1>6, <1>7, <1>8, <1>9, <1>10
  DEF Next, ClientStep, ServerStep

\* The new consent covers the bytes that the wallet is asked to sign, and is a
\* consent to a valid order.
LEMMA SigningIsAskedFor ==
  ASSUME IInv, NEW u \in Users, NEW f \in BOOLEAN, Consents(u, f),
         ValidateLegs(order[u]) = "ok"
  PROVE  /\ \A payload : payload = SigningBytes(order[u], f) => WasAsked(u, payload)'
         /\ \A v, payload : WasAsked(v, payload) => WasAsked(v, payload)'
         /\ ConsentsAreToValidOrders'
<1> DEFINE c == [key |-> u, terms |-> Terms(order[u]), use_app_tokens |-> f]
<1>1. order[u] \in SignedOrder
  BY DEF IInv, TypeOK
<1>2. consents' = consents \cup {c}
  BY DEF Consents
<1>3. /\ c.key = u
      /\ SigningBytes(c.terms, c.use_app_tokens) = SigningBytes(order[u], f)
      /\ ValidateLegs(c.terms) = "ok"
      /\ c.terms.signature = NoSignature
  BY <1>1, BytesOfTerms
<1> HIDE DEF c
<1> QED
  BY <1>2, <1>3 DEF WasAsked, ConsentsAreToValidOrders, IInv

LEMMA PayloadsStayAskedFor ==
  ASSUME IInv, [Next]_vars
  PROVE  PayloadsAreAskedFor' /\ ConsentsAreToValidOrders'
<1> USE DEF IInv
<1>1. ASSUME NEW u \in Users, NEW f \in BOOLEAN, NEW salt \in Salts, Sign(u, f, salt)
      PROVE  PayloadsAreAskedFor' /\ ConsentsAreToValidOrders'
  <2>1. /\ \A payload : payload = SigningBytes(order[u], f) => WasAsked(u, payload)'
        /\ \A v, payload : WasAsked(v, payload) => WasAsked(v, payload)'
        /\ ConsentsAreToValidOrders'
    BY <1>1, SigningIsAskedFor DEF Sign
  <2>2. \A s \in signed' \ signed : s.key = u /\ s.payload = SigningBytes(order[u], f)
    BY <1>1 DEF Sign
  <2> QED
    BY <1>1, <2>1, <2>2 DEF Sign, PayloadsAreAskedFor
<1>2. ASSUME NEW u \in Users, NEW f \in BOOLEAN, BeginSign(u, f)
      PROVE  PayloadsAreAskedFor' /\ ConsentsAreToValidOrders'
  <2>1. /\ \A payload : payload = SigningBytes(order[u], f) => WasAsked(u, payload)'
        /\ \A v, payload : WasAsked(v, payload) => WasAsked(v, payload)'
        /\ ConsentsAreToValidOrders'
    BY <1>2, SigningIsAskedFor DEF BeginSign
  <2>2. \A v \in Users : pending'[v] = IF v = u THEN SigningBytes(order[u], f) ELSE pending[v]
    BY <1>2 DEF BeginSign, TypeOK
  <2> QED
    BY <1>2, <2>1, <2>2 DEF BeginSign, PayloadsAreAskedFor
<1>3. ASSUME NEW u \in Users, NEW salt \in Salts, EndSign(u, salt)
      PROVE  PayloadsAreAskedFor' /\ ConsentsAreToValidOrders'
  <2>1. \A v, payload : WasAsked(v, payload) => WasAsked(v, payload)'
    BY <1>3 DEF EndSign, WasAsked
  <2>2. \A s \in signed' \ signed : s.key = u /\ s.payload = pending[u]
    BY <1>3 DEF EndSign
  <2>3. pending[u] # NotSigning
    BY <1>3 DEF EndSign, Idle
  <2>4. \A v \in Users : pending'[v] # NotSigning => pending'[v] = pending[v]
    BY <1>3 DEF EndSign, TypeOK
  <2> QED
    BY <1>3, <2>1, <2>2, <2>3, <2>4 DEF EndSign, PayloadsAreAskedFor, ConsentsAreToValidOrders
<1>4. CASE UNCHANGED <<pending, signed, consents>>
  BY <1>4 DEF PayloadsAreAskedFor, WasAsked, ConsentsAreToValidOrders
<1> QED
  BY <1>1, <1>2, <1>3, <1>4
  DEF Next, vars, ClientStep, ServerStep, Draft, Edit, EditLegs, Submit, Handle, Tick

\* What a step does to the history and to the orders taken on: consents are
\* only added, and only Handle adds an order, one it has just accepted.
LEMMA StepSummary ==
  ASSUME [Next]_vars
  PROVE  /\ consents \subseteq consents'
         /\ \/ accepted' = accepted
            \/ \E request \in requests :
                 /\ Outcome(request) = "accepted"
                 /\ accepted' = Append(accepted,
                      [order |-> FromJson(request.order),
                       use_app_tokens |-> request.use_app_tokens])
                 /\ consents' = consents
  BY DEF Next, vars, ClientStep, ServerStep, Draft, Edit, EditLegs, Sign, BeginSign,
         EndSign, Submit, Handle, Tick, Consents

\* The orders taken on, when one more is.
LEMMA TakingOnOneMore ==
  ASSUME NEW S, accepted \in Seq(S), NEW new, accepted' = Append(accepted, new)
  PROVE  /\ TakenOn' = TakenOn \cup {new}
         /\ \A i \in DOMAIN accepted' :
              \/ i \in DOMAIN accepted /\ accepted'[i] = accepted[i]
              \/ i = Len(accepted) + 1 /\ accepted'[i] = new
<1>1. /\ DOMAIN accepted' = DOMAIN accepted \cup {Len(accepted) + 1}
      /\ \A i \in DOMAIN accepted : accepted'[i] = accepted[i]
      /\ accepted'[Len(accepted) + 1] = new
  OBVIOUS
<1> QED
  BY <1>1 DEF TakenOn

\* A request that is accepted decodes to an order that its owner asked to sign.
LEMMA AcceptedIsConsented ==
  ASSUME IInv, NEW request \in requests, Outcome(request) = "accepted"
  PROVE  /\ FromJson(request.order) \in SignedOrder
         /\ OwnerConsents(FromJson(request.order), request.use_app_tokens)
<1>1. request.order \in SignedOrderJson
  BY DEF IInv, TypeOK, RfqRequest
<1>2. FromJson(request.order) \in SignedOrder
  BY <1>1, AcceptedOutcome, FromJsonType
<1> QED
  BY <1>2, AcceptedOutcome, VerifiedWasAsked

LEMMA TakenOnType ==
  ASSUME IInv
  PROVE  \A a \in TakenOn : a.order \in SignedOrder /\ a.use_app_tokens \in BOOLEAN
<1> DEFINE Entry == [order : SignedOrder, use_app_tokens : BOOLEAN]
<1>1. accepted \in Seq(Entry)
  BY DEF IInv, TypeOK
<1> HIDE DEF Entry
<1>2. \A i \in DOMAIN accepted : accepted[i] \in Entry
  BY <1>1
<1> QED
  BY <1>2 DEF TakenOn, Entry

\* The invariant is inductive.
LEMMA IInvInductive ==
  ASSUME IInv, [Next]_vars, TypeOK'
  PROVE  IInv'
<1>1. SignaturesAreMade' /\ PayloadsAreAskedFor' /\ ConsentsAreToValidOrders'
  BY SignaturesStayMade, PayloadsStayAskedFor
<1>2. CASE accepted' = accepted
  BY <1>1, <1>2, StepSummary
  DEF TakenOn, IInv, AcceptedWasSigned, OwnerConsents, AcceptedOncePerIdentity
<1>3. ASSUME NEW request \in requests,
             Outcome(request) = "accepted",
             accepted' = Append(accepted,
               [order |-> FromJson(request.order),
                use_app_tokens |-> request.use_app_tokens]),
             consents' = consents
      PROVE  IInv'
  <2> DEFINE o == FromJson(request.order)
             new == [order |-> o, use_app_tokens |-> request.use_app_tokens]
  <2>1. OwnerConsents(o, request.use_app_tokens)
    BY <1>3, AcceptedIsConsented
  <2>2. \A a \in TakenOn : ReplayBytes(a.order) # ReplayBytes(o)
    BY <1>3, AcceptedOutcome
  <2>3. new.order = o /\ new.use_app_tokens = request.use_app_tokens
    OBVIOUS
  <2> HIDE DEF new, o
  <2>4. /\ TakenOn' = TakenOn \cup {new}
        /\ \A i \in DOMAIN accepted' :
             \/ i \in DOMAIN accepted /\ accepted'[i] = accepted[i]
             \/ i = Len(accepted) + 1 /\ accepted'[i] = new
    BY <1>3, TakingOnOneMore DEF IInv, TypeOK, new, o
  <2>5. AcceptedWasSigned'
    BY <1>3, <2>1, <2>3, <2>4 DEF IInv, AcceptedWasSigned, OwnerConsents
  <2>6. AcceptedOncePerIdentity'
    <3>1. \A i \in DOMAIN accepted : accepted[i] \in TakenOn
      BY DEF TakenOn
    <3> QED
      BY <2>2, <2>3, <2>4, <3>1 DEF IInv, AcceptedOncePerIdentity
  <2> QED
    BY <1>1, <2>5, <2>6 DEF IInv
<1> QED
  BY <1>2, <1>3, StepSummary

LEMMA InvariantHolds == Spec => []IInv
<1>1. Init => /\ PayloadsAreAskedFor
              /\ ConsentsAreToValidOrders
              /\ SignaturesAreMade
              /\ AcceptedWasSigned
              /\ AcceptedOncePerIdentity
  BY FlowAssumption DEF TakenOn, Init, PayloadsAreAskedFor, ConsentsAreToValidOrders,
     SignaturesAreMade, AcceptedWasSigned, AcceptedOncePerIdentity
<1>2. Init /\ TypeOK => IInv
  BY <1>1 DEF IInv
<1>3. IInv /\ TypeOK' /\ [Next]_vars => IInv'
  BY IInvInductive
<1> QED
  BY <1>2, <1>3, TypeCorrect, PTL DEF Spec

\* Whatever clients edit, swap or resubmit, and whatever the network does, an
\* order the server takes on is one its user asked to sign, with exactly those
\* fields and that funding choice.
THEOREM AcceptedOrdersAreSigned == Spec => []AcceptedWasSigned
  BY InvariantHolds, PTL DEF IInv

\* An order is taken on once, whatever signatures it carries and however often and
\* with whatever funding choice it is sent.
THEOREM OrdersAreTakenOnOnce == Spec => []OneAcceptancePerOrder
<1>1. ASSUME IInv, NEW i \in DOMAIN accepted, NEW j \in DOMAIN accepted,
             Terms(accepted[i].order) = Terms(accepted[j].order)
      PROVE  i = j
  <2>1. accepted[i].order \in SignedOrder /\ accepted[j].order \in SignedOrder
    BY <1>1, TakenOnType DEF TakenOn
  <2>2. ReplayBytes(accepted[i].order) = ReplayBytes(accepted[j].order)
    BY <1>1, <2>1, BytesOfTerms
  <2> QED
    BY <1>1, <2>2 DEF IInv, AcceptedOncePerIdentity
<1>2. IInv => OneAcceptancePerOrder
  BY <1>1 DEF OneAcceptancePerOrder
<1> QED
  BY <1>2, InvariantHolds, PTL

\* What the server calls a retry is one, of the very same order.
THEOREM RetriesAreGenuine == Spec => []RetriesAreRetries
<1>1. ASSUME IInv, NEW request \in requests,
             Outcome(request) \in {"conflict", "replayed"}
      PROVE  /\ OwnerConsents(FromJson(request.order), request.use_app_tokens)
             /\ \E a \in TakenOn :
                  /\ Terms(a.order) = Terms(FromJson(request.order))
                  /\ (a.use_app_tokens = request.use_app_tokens)
                       = (Outcome(request) = "replayed")
  <2> DEFINE o == FromJson(request.order)
  <2>1. request.order \in SignedOrderJson
    BY <1>1 DEF IInv, TypeOK, RfqRequest
  <2>2. o \in SignedOrder
    BY <1>1, <2>1, RetryOutcome, FromJsonType
  <2>3. OwnerConsents(o, request.use_app_tokens)
    BY <1>1, <2>2, RetryOutcome, VerifiedWasAsked
  <2>4. PICK a \in TakenOn :
          /\ ReplayBytes(a.order) = ReplayBytes(o)
          /\ (a.use_app_tokens = request.use_app_tokens) = (Outcome(request) = "replayed")
    BY <1>1, RetryOutcome
  <2>5. a.order \in SignedOrder
    BY <1>1, <2>4, TakenOnType
  <2>6. Terms(a.order) = Terms(o)
    BY <2>2, <2>4, <2>5, OrderBytesInjective DEF ReplayBytes
  <2> QED
    BY <2>3, <2>4, <2>6
<1>2. IInv => RetriesAreRetries
  BY <1>1 DEF RetriesAreRetries
<1> QED
  BY <1>2, InvariantHolds, PTL

\* A request made from an order as its owner signed it is refused only for its
\* deadline, for odds that are out of range or for a market id that is 0.
THEOREM SignedRequestsAreHeard == Spec => []SignedRequestIsHeard
<1>1. ASSUME IInv, NEW request \in requests, NEW c \in consents, NEW s \in signed,
             c.key = c.terms.user, s.key = c.key,
             s.payload = SigningBytes(c.terms, c.use_app_tokens),
             NEW drift \in Drifts,
             request = CreateRfqRequest([c.terms EXCEPT !.signature = s], c.use_app_tokens,
                                        drift)
      PROVE  \/ Outcome(request) \in {"accepted", "replayed", "conflict", "stale"}
             \/ /\ Outcome(request) = "InvalidMinOdds"
                /\ c.terms.min_odds_bps \notin EvenOdds + 1 .. MaxOdds
             \/ /\ Outcome(request) = "InvalidLegMarketId"
                /\ \E i \in DOMAIN c.terms.legs : c.terms.legs[i].market_id = 0
  <2> DEFINE o == [c.terms EXCEPT !.signature = s]
  <2>1. s \in Signature /\ c.terms \in SignedOrder
    BY <1>1 DEF IInv, TypeOK, Consent
  <2>2. /\ o \in SignedOrder
        /\ o.signature = s
        /\ o.user = c.terms.user
        /\ o.min_odds_bps = c.terms.min_odds_bps /\ o.legs = c.terms.legs
        /\ Terms(o) = Terms(c.terms)
    BY <2>1 DEF SignedOrder, Terms
  <2>3. ValidateLegs(o) = "ok"
    BY <1>1, <2>1, <2>2, BytesOfTerms DEF IInv, ConsentsAreToValidOrders
  <2>4. SigningBytes(o, c.use_app_tokens) = s.payload
    BY <1>1, <2>1, <2>2, BytesOfTerms
  <2>5. s # NoSignature
    BY <2>1, FlowAssumption
  <2>6. VerifySignature(o, c.use_app_tokens)
    BY <1>1, <2>2, <2>3, <2>4, <2>5 DEF VerifySignature, Recovers
  <2>7. request.order = ToJson(o, drift) /\ request.use_app_tokens = c.use_app_tokens
    BY <1>1 DEF CreateRfqRequest
  <2>8. FromJson(request.order) = o
    BY <2>2, <2>3, <2>7, JsonRoundTrip
  <2>9. \/ JsonError(request.order) = "ok"
        \/ /\ JsonError(request.order) = "InvalidMinOdds"
           /\ o.min_odds_bps \notin EvenOdds + 1 .. MaxOdds
        \/ /\ JsonError(request.order) = "InvalidLegMarketId"
           /\ \E i \in DOMAIN o.legs : o.legs[i].market_id = 0
    BY <2>2, <2>3, <2>7, JsonErrorsOfValidOrders
  <2> HIDE DEF o
  <2> QED
    BY <2>2, <2>6, <2>7, <2>8, <2>9 DEF Outcome
<1>2. IInv => SignedRequestIsHeard
  BY <1>1 DEF SignedRequestIsHeard
<1> QED
  BY <1>2, InvariantHolds, PTL

-----------------------------------------------------------------------------
(* Refinement *)

\* How a step changes what is asked for.
LEMMA ConsentsGrowByOne ==
  ASSUME [Next]_vars
  PROVE  \/ consents' = consents
         \/ accepted' = accepted /\ \E c : consents' = consents \cup {c}
  BY DEF Next, vars, ClientStep, ServerStep, Draft, Edit, EditLegs, Sign, BeginSign,
         EndSign, Submit, Handle, Tick, Consents

\* Signed RFQ submission implements AuthorizedOrders: its steps are calls of
\* sign_order (Authorize), first acceptances (Grant) and stutters.
THEOREM FlowKeepsThePromise == Spec => KeepsThePromise
<1>1. Init => Promise!AbstractInit
  BY DEF TakenOn, Init, Promise!AbstractInit, Authorized, Granted
<1>2. ASSUME IInv, [Next]_vars
      PROVE  [Promise!AbstractNext]_(Promise!abstractVars)
  <2>1. CASE consents' = consents /\ accepted' = accepted
    BY <2>1 DEF TakenOn, Promise!abstractVars, Authorized, Granted
  <2>2. ASSUME NEW c, consents' = consents \cup {c}, accepted' = accepted
        PROVE  [Promise!AbstractNext]_(Promise!abstractVars)
    <3> DEFINE pair == <<c.terms, c.use_app_tokens>>
    <3>1. Granted' = Granted
      BY <2>2 DEF TakenOn, Granted
    <3>2. CASE c.key = c.terms.user
      <4>1. Authorized' = Authorized \cup {pair}
        BY <2>2, <3>2 DEF Authorized
      <4>2. Promise!Authorize
        BY <3>1, <4>1 DEF Promise!Authorize
      <4> QED
        BY <4>2 DEF Promise!AbstractNext
    <3>3. CASE c.key # c.terms.user
      <4>1. Authorized' = Authorized
        BY <2>2, <3>3 DEF Authorized
      <4> QED
        BY <3>1, <4>1 DEF Promise!abstractVars
    <3> QED
      BY <3>2, <3>3
  <2>3. ASSUME NEW request \in requests,
               Outcome(request) = "accepted",
               accepted' = Append(accepted,
                 [order |-> FromJson(request.order),
                  use_app_tokens |-> request.use_app_tokens]),
               consents' = consents
        PROVE  [Promise!AbstractNext]_(Promise!abstractVars)
    <3> DEFINE o == FromJson(request.order)
               pair == <<Terms(o), request.use_app_tokens>>
    <3>1. Authorized' = Authorized
      BY <2>3 DEF Authorized
    <3>2. Granted' = Granted \cup {pair}
      <4> DEFINE new == [order |-> o, use_app_tokens |-> request.use_app_tokens]
      <4>1. TakenOn' = TakenOn \cup {new}
        BY <1>2, <2>3, TakingOnOneMore DEF IInv, TypeOK
      <4>2. <<Terms(new.order), new.use_app_tokens>> = pair
        OBVIOUS
      <4> HIDE DEF new, pair
      <4> QED
        BY <4>1, <4>2 DEF Granted
    <3>3. o \in SignedOrder /\ OwnerConsents(o, request.use_app_tokens)
      BY <1>2, <2>3, AcceptedIsConsented
    <3>4. pair \in Authorized
      <4>1. Terms(o).user = o.user
        BY <3>3, BytesOfTerms
      <4> QED
        BY <3>3, <4>1 DEF Authorized, OwnerConsents
    <3>5. \A earlier \in Granted : earlier[1] # pair[1]
      <4>1. \A a \in TakenOn : Terms(a.order) # Terms(o)
        <5>1. ASSUME NEW a \in TakenOn, Terms(a.order) = Terms(o)
              PROVE  ReplayBytes(a.order) = ReplayBytes(o)
          <6>1. a.order \in SignedOrder
            BY <1>2, <5>1, TakenOnType
          <6> QED
            BY <3>3, <5>1, <6>1, BytesOfTerms
        <5> QED
          BY <2>3, <5>1, AcceptedOutcome
      <4> QED
        BY <4>1 DEF Granted
    <3>6. Promise!Grant
      BY <3>1, <3>2, <3>4, <3>5 DEF Promise!Grant
    <3> QED
      BY <3>6 DEF Promise!AbstractNext
  <2> QED
    BY <1>2, <2>1, <2>2, <2>3, StepSummary, ConsentsGrowByOne
<1> QED
  BY <1>1, <1>2, InvariantHolds, PTL DEF Spec, KeepsThePromise, Promise!AbstractSpec

\* What the promise is worth: each order is taken on only with a funding choice
\* its owner authorised, and never with another one.  Only the steps of
\* AuthorizedOrders are used.
THEOREM OwnersAreProtected == Spec => []Promise!GrantedAsAuthorized
<1>1. Promise!AbstractInit => Promise!GrantedAsAuthorized
  BY DEF Promise!AbstractInit, Promise!GrantedAsAuthorized
<1>2. Promise!GrantedAsAuthorized /\ [Promise!AbstractNext]_(Promise!abstractVars)
        => Promise!GrantedAsAuthorized'
  BY DEF Promise!GrantedAsAuthorized, Promise!AbstractNext, Promise!abstractVars,
         Promise!Authorize, Promise!Grant
<1> QED
  BY <1>1, <1>2, FlowKeepsThePromise, PTL DEF KeepsThePromise, Promise!AbstractSpec
=============================================================================
