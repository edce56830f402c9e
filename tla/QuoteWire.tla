------------------------------ MODULE QuoteWire ------------------------------
(***************************************************************************)
(* What a market maker signs and sends: answers to authentication          *)
(* challenges and quotes (mm.rs, mm.ts, mm.py and the QuoteResponse of     *)
(* rfq.rs, rfq.ts, rfq.py).                                                *)
(*                                                                         *)
(* A message that is signed is the record of what its bytes tell; hex and  *)
(* base64 keep signatures and quotes apart as they are, so that texts are  *)
(* the records themselves.                                                 *)
(***************************************************************************)
EXTENDS Integers, Sequences

CONSTANTS
  Challenges,  \* challenge ids that a server may send: see ChallengeError
  Requests,    \* RFQ request ids
  U32,         \* 2^32; wider odds do not encode
  Fills,       \* maximum fills that occur
  QuoteIds,    \* client quote ids that are not nil
  NilId,       \* ClientQuoteId.nil(): 16 zero bytes
  NoSignature  \* the 65 zero bytes of an unsigned quote

ASSUME QuoteAssumption ==
  /\ U32 \in Nat \ {0}
  /\ NilId \notin QuoteIds
  /\ Challenges \subseteq [token : Nat, uuid : BOOLEAN, canonical : BOOLEAN,
                           variant : BOOLEAN, version : BOOLEAN]

\* A TypeScript quote holds any number as its odds once it is built.
Quote ==
  [request : Requests, odds : Nat, max_fill : Fills, client_quote_id : QuoteIds \cup {NilId}]

Odds == 0 .. U32 - 1

-----------------------------------------------------------------------------
(* Authentication *)

\* parse_auth_challenge_id in the order of its checks; the regular expression
\* of mm.ts accepts the same texts.
ChallengeError(id) ==
  IF ~id.uuid THEN "InvalidUuid"
  ELSE IF ~id.canonical THEN "NonCanonical"
  ELSE IF ~id.variant THEN "InvalidVariant"
  ELSE IF ~id.version THEN "InvalidVersion"
  ELSE "ok"

\* Mutant: the challenge is not part of the text.
AuthMessageWithoutChallenge(wallet, id, timestamp) ==
  [kind |-> "mm authentication", wallet |-> wallet, timestamp |-> timestamp]

\* build_auth_message.
AuthMessage(wallet, id, timestamp) ==
  [kind |-> "mm authentication", wallet |-> wallet, id |-> id, timestamp |-> timestamp]

\* An EIP-191 signature of the wallet over a message.
Signature(wallet, message) == [by |-> wallet, over |-> message]

\* auth_response_message.
AuthResponse(wallet, signature) ==
  [type |-> "auth_response", wallet |-> wallet, signature |-> signature]

-----------------------------------------------------------------------------
(* Quotes *)

\* QuoteResponse::new.
NewQuote(request, odds, max_fill, client_quote_id) ==
  [request |-> request, odds |-> odds, max_fill |-> max_fill,
   client_quote_id |-> client_quote_id]

\* Mutant: the fill is left out of what is signed.
SignedDataWithoutFill(quote) ==
  [kind |-> "quote", request |-> quote.request, odds |-> quote.odds,
   client_quote_id |-> quote.client_quote_id]

\* signed_data_bytes: the first 48 bytes, of a quote whose odds are a u32.
SignedData(quote) ==
  [kind |-> "quote", request |-> quote.request, odds |-> quote.odds,
   max_fill |-> quote.max_fill, client_quote_id |-> quote.client_quote_id]

\* Mutant: the signature is left as the zeros of an unsigned quote.
EncodeQuoteUnsigned(quote, signature) ==
  IF quote.odds \in Odds
  THEN <<[type |-> "quote", quote |-> quote, signature |-> NoSignature]>>
  ELSE <<>>

\* encode_quote_response: the quote with its signature.  Odds that are not a u32
\* are a RangeError, and nothing is there to be sent.
EncodeQuote(quote, signature) ==
  IF quote.odds \in Odds
  THEN <<[type |-> "quote", quote |-> quote, signature |-> signature]>>
  ELSE <<>>

\* Mutant: any signature will do.
VerifyAnySignature(quote, signature, wallet) == signature # NoSignature

\* QuoteResponse::verify_signature.
VerifyQuote(quote, signature, wallet) == signature = Signature(wallet, SignedData(quote))

\* Mutant: a nil id counts as an id.
PresentQuoteId(quote) == <<quote.client_quote_id>>

\* QuoteResponse::client_quote_id: nil is absent.
ClientQuoteId(quote) ==
  IF quote.client_quote_id = NilId THEN <<>> ELSE <<quote.client_quote_id>>

\* ServerMessage::QuoteAck and ServerMessage::QuoteResult name a quote by the id
\* the gateway gives it, and by the id its maker gave it, if any.
QuoteAck(quote, quote_id, accepted) ==
  [type |-> "quote_ack", request_id |-> quote.request, quote_id |-> quote_id,
   client_quote_id |-> ClientQuoteId(quote), accepted |-> accepted]

\* Mutant: the result of a quote does not have its maker's id.
QuoteResultUnnamed(quote, quote_id, status) ==
  [type |-> "quote_result", request_id |-> quote.request, quote_id |-> quote_id,
   client_quote_id |-> <<>>, status |-> status]

QuoteResult(quote, quote_id, status) ==
  [type |-> "quote_result", request_id |-> quote.request, quote_id |-> quote_id,
   client_quote_id |-> ClientQuoteId(quote), status |-> status]
=============================================================================
