------------------------------ MODULE TakerOrder ------------------------------
(***************************************************************************)
(* Taker orders of rust/src/taker.rs and their HTTP form of                *)
(* rust/src/api/request.rs: what an order is, when it may be signed, which *)
(* bytes a wallet signs, which bytes identify it for replays, and the two  *)
(* conversions between the signed order and SignedOrderJson.               *)
(*                                                                         *)
(* Data is abstract: addresses are members of Users, integers are naturals *)
(* (the ends of u32 and u64 are left out), and a byte string with fixed-   *)
(* width fields is the record of its fields together with its length,      *)
(* which alone decides the layout.                                         *)
(***************************************************************************)
EXTENDS Integers, Sequences

CONSTANTS
  Users,        \* wallet addresses; a signing key is named by its address
  MaxLegs,      \* SignedOrder::MAX_LEGS
  EvenOdds,     \* Odds::EVEN in basis points
  MaxOdds,      \* Odds::MAX in basis points
  Salts,        \* what tells apart the signatures of one payload by one key
  Drifts,       \* what division and multiplication by 10_000 in f64 may lose
                \* or gain, in tenths of a basis point: less than half of one
  NoSignature   \* the 65 zero bytes of an order nobody signed

ASSUME TakerAssumption ==
  /\ MaxLegs \in Nat \ {0}
  /\ EvenOdds \in Nat
  /\ MaxOdds \in Nat
  /\ EvenOdds < MaxOdds
  /\ Drifts \subseteq -4 .. 4

-----------------------------------------------------------------------------
(* Orders *)

\* Direction: Up and Down on the wire.
Directions == {0, 1}

OrderTypes == {1, 2}

OrderLeg == [market_id : Nat, direction : Nat]

\* The byte strings a wallet signs (funding = <<use_app_tokens>>) and the
\* ones the replay table is keyed by (funding = <<>>).
Payload ==
  [len : Nat, user : Users, wager_micros : Nat, min_odds_bps : Nat,
   nonce : Nat, expires_at_ms : Nat, order_type : OrderTypes, shield_on : BOOLEAN,
   funding : Seq(BOOLEAN), leg_count : Nat, legs : Seq(OrderLeg)]

\* What a signing key produced: salt tells apart the several signatures a
\* non-deterministic signer makes of one payload.
Signature == [key : Users, payload : Payload, salt : Salts]

SignedOrder ==
  [user : Users, wager_micros : Nat, min_odds_bps : Nat,
   legs : Seq(OrderLeg), nonce : Nat, expires_at_ms : Nat,
   order_type : OrderTypes, shield_on : BOOLEAN,
   signature : Signature \cup {NoSignature}]

\* validate_legs: the first failing check, "ok" when there is none.
ValidateLegs(order) ==
  IF order.legs = <<>> THEN "MissingLegs"
  ELSE IF Len(order.legs) > MaxLegs THEN "TooManyLegs"
  ELSE IF \E i \in DOMAIN order.legs :
            order.legs[i].direction \notin Directions
       THEN "InvalidLegDirection"
  ELSE "ok"

\* try_order_bytes: every field at its fixed width, in this order, then the
\* optional funding byte, the leg count and nine bytes for each leg.
OrderBytes(order, funding) ==
  [len           |-> 51 + Len(funding) + 9 * Len(order.legs),
   user          |-> order.user,
   wager_micros  |-> order.wager_micros,
   min_odds_bps  |-> order.min_odds_bps,
   nonce         |-> order.nonce,
   expires_at_ms |-> order.expires_at_ms,
   order_type    |-> order.order_type,
   shield_on     |-> order.shield_on,
   funding       |-> funding,
   leg_count     |-> Len(order.legs),
   legs          |-> order.legs]

\* Mutant: the order type is not signed, which the SECURITY comment of
\* try_signing_bytes warns of.
SigningBytesWithoutType(order, use_app_tokens) ==
  OrderBytes([order EXCEPT !.order_type = 2], <<use_app_tokens>>)

SigningBytes(order, use_app_tokens) == OrderBytes(order, <<use_app_tokens>>)

\* Mutants: the replay identity ignores the order type, or holds the signature.
ReplayBytesWithoutType(order) == OrderBytes([order EXCEPT !.order_type = 2], <<>>)

ReplayBytesWithSignature(order) ==
  [signed |-> OrderBytes(order, <<>>), signature |-> order.signature]

ReplayBytes(order) == OrderBytes(order, <<>>)

\* EIP-191 recovery of the external signer library: it returns the signing
\* address over the payload that was signed, and some unrelated address over
\* any other payload.
Recovers(signature, payload, user) ==
  /\ signature # NoSignature
  /\ signature.payload = payload
  /\ signature.key = user

\* Mutant: only the legs are looked at.
VerifyLegsOnly(order, use_app_tokens) == ValidateLegs(order) = "ok"

VerifySignature(order, use_app_tokens) ==
  /\ ValidateLegs(order) = "ok"
  /\ Recovers(order.signature, SigningBytes(order, use_app_tokens), order.user)

-----------------------------------------------------------------------------
(* The HTTP form *)

\* Decimal odds are counted in tenths of a basis point: min_odds_bps / 10_000
\* need not be exact in binary, and what it drifts by has to be rounded away.
DecimalOdds(min_odds_bps, drift) ==
  IF min_odds_bps = 0 THEN 0 ELSE min_odds_bps * 10 + drift

\* Mutant: the fraction is cut off.
TruncatedOdds(min_odds) == min_odds \div 10

\* (min_odds * 10_000).round(): half away from zero.
RoundedOdds(min_odds) == (min_odds + 5) \div 10

\* A direction text is "up", "down" or something else.
OrderLegJson == [market_id : Nat, direction : {"up", "down", "other"}]

DirectionName(direction) == IF direction = 0 THEN "up" ELSE "down"

\* TryFrom<&SignedOrder> for SignedOrderJson, taken when validate_legs holds.
ToJson(order, drift) ==
  [user          |-> order.user,
   wager_micros  |-> order.wager_micros,
   min_odds      |-> DecimalOdds(order.min_odds_bps, drift),
   legs          |-> [i \in DOMAIN order.legs |->
                        [market_id |-> order.legs[i].market_id,
                         direction |-> DirectionName(order.legs[i].direction)]],
   nonce         |-> order.nonce,
   expires_at_ms |-> order.expires_at_ms,
   order_type    |-> order.order_type,
   shield_on     |-> order.shield_on,
   signature     |-> order.signature]

\* OrderLegJson::parse: the market id is looked at before the direction.
LegError(leg) ==
  IF leg.market_id = 0 THEN "InvalidLegMarketId"
  ELSE IF leg.direction \notin {"up", "down"} THEN "InvalidLegDirection"
  ELSE "ok"

\* direction_to_wire of the parsed direction.
DirectionToWire(name) == IF name = "up" THEN 0 ELSE 1

\* The first leg that does not parse, when there is one.
FirstBadLeg(legs) ==
  CHOOSE i \in DOMAIN legs :
    /\ LegError(legs[i]) # "ok"
    /\ \A j \in DOMAIN legs : LegError(legs[j]) # "ok" => i <= j

LegsError(legs) ==
  IF legs = <<>> THEN "MissingLegs"
  ELSE IF Len(legs) > MaxLegs THEN "TooManyLegs"
  ELSE IF \A i \in DOMAIN legs : LegError(legs[i]) = "ok" THEN "ok"
  ELSE LegError(legs[FirstBadLeg(legs)])

MinOddsError(min_odds) ==
  IF RoundedOdds(min_odds) <= EvenOdds \/ RoundedOdds(min_odds) > MaxOdds
  THEN "InvalidMinOdds"
  ELSE "ok"

\* TryFrom<SignedOrderJson> for SignedOrder: the error it returns, if any.
JsonError(json) ==
  IF json.user \notin Users THEN "InvalidAddress"
  ELSE IF MinOddsError(json.min_odds) # "ok" THEN MinOddsError(json.min_odds)
  ELSE IF LegsError(json.legs) # "ok" THEN LegsError(json.legs)
  ELSE IF json.order_type \notin OrderTypes THEN "InvalidOrderType"
  ELSE "ok"

\* ... and the order it returns when there is none.
FromJson(json) ==
  [user          |-> json.user,
   wager_micros  |-> json.wager_micros,
   min_odds_bps  |-> RoundedOdds(json.min_odds),
   legs          |-> [i \in DOMAIN json.legs |->
                        [market_id |-> json.legs[i].market_id,
                         direction |-> DirectionToWire(json.legs[i].direction)]],
   nonce         |-> json.nonce,
   expires_at_ms |-> json.expires_at_ms,
   order_type    |-> json.order_type,
   shield_on     |-> json.shield_on,
   signature     |-> json.signature]

SignedOrderJson ==
  [user : Users, wager_micros : Nat, min_odds : Nat, legs : Seq(OrderLegJson),
   nonce : Nat, expires_at_ms : Nat, order_type : Nat, shield_on : BOOLEAN,
   signature : Signature \cup {NoSignature}]

\* CreateRfqRequest::from_signed_order, taken when validate_legs holds.
CreateRfqRequest(order, use_app_tokens, drift) ==
  [order |-> ToJson(order, drift), use_app_tokens |-> use_app_tokens]

RfqRequest == [order : SignedOrderJson, use_app_tokens : BOOLEAN]
=============================================================================
