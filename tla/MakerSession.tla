----------------------------- MODULE MakerSession -----------------------------
(***************************************************************************)
(* A market maker on its WebSocket, following CUSTOM_CLIENTS.md with the   *)
(* helpers of QuoteWire: it authenticates, subscribes, answers RFQs with   *)
(* signed quotes and learns what became of them.  The gateway and the      *)
(* maker's own program are external; what the helpers return is not.       *)
(*                                                                         *)
(* In TypeScript the helpers await the wallet: meanwhile the program may   *)
(* handle other messages, lose its connection and open another, or change  *)
(* the odds of the quote, whose field can be assigned.                     *)
(***************************************************************************)
EXTENDS QuoteWire, FiniteSets

CONSTANTS
  Languages,    \* of the maker's program; Python does as Rust does
  Maker,        \* the wallet address of the maker
  Connections,  \* the connections it opens, one after the other
  Timestamps,   \* clock readings of the gateway
  OddsValues,   \* the odds it offers, or assigns later
  MaxQuotes,    \* bound on the quotes it has signed
  MaxEdits,     \* bound on the assignments to quotes
  MaxSends      \* bound on its calls to send a quote

ASSUME SessionAssumption ==
  /\ Languages \subseteq {"rust", "typescript", "python"}
  /\ OddsValues \subseteq Nat
  /\ MaxQuotes \in Nat /\ MaxEdits \in Nat /\ MaxSends \in Nat

VARIABLES
  language,  \* of the maker's program
  link,      \* state of each connection
  up, down,  \* messages on their way to the gateway and to the maker
  gateway,   \* the gateway's session on each connection
  maker,     \* the maker's state on each connection
  jobs,      \* what the wallet is signing (TypeScript only)
  quotes,    \* signed quotes of the maker, with their signatures
  sends,     \* history: how often a quote was to be sent
  edits,     \* history: how often a quote was assigned to
  book,      \* what the maker knows of the quotes it sent under each id
  taken,     \* the quotes the gateway has collected, in order
  rfq,       \* state of each RFQ
  answered,  \* history: the challenges the maker meant to answer
  meant      \* history: the quotes the maker asked to sign

wallet_vars == <<jobs, quotes, edits, answered, meant>>
gateway_vars == <<gateway, taken, rfq>>
vars == <<language, link, up, down, gateway, maker, jobs, quotes, sends, edits,
          book, taken, rfq, answered, meant>>

AllIds == QuoteIds \cup {NilId}
Terminal == {"filled", "not_filled", "rejected", "selected_failed"}

NoSession == [phase |-> "new", challenge |-> <<>>]

IsOpen(c) == link[c] = "open"

\* No challenge is issued twice.
Issued ==
  {gateway[c].challenge[1] : c \in {d \in Connections : gateway[d].challenge # <<>>}}

\* A message of this type is next in a channel.
NextIs(channel, c, type) ==
  IsOpen(c) /\ channel[c] # <<>> /\ Head(channel[c]).type = type

\* Take the next message of one channel, append to the other.
TakeUp(c, reply) ==
  /\ up' = [up EXCEPT ![c] = Tail(@)]
  /\ down' = [down EXCEPT ![c] = Append(@, reply)]
TakeDown(c, replies) ==
  /\ down' = [down EXCEPT ![c] = Tail(@)]
  /\ up' = [up EXCEPT ![c] = @ \o replies]

Init ==
  /\ language \in Languages
  /\ link = [c \in Connections |-> "unused"]
  /\ up = [c \in Connections |-> <<>>]
  /\ down = [c \in Connections |-> <<>>]
  /\ gateway = [c \in Connections |-> NoSession]
  /\ maker = [c \in Connections |-> "idle"]
  /\ jobs = {}
  /\ quotes = {}
  /\ sends = 0
  /\ edits = 0
  /\ book = [id \in AllIds |-> "none"]
  /\ taken = <<>>
  /\ rfq = [r \in Requests |-> "unsent"]
  /\ answered = {}
  /\ meant = {}

-----------------------------------------------------------------------------
(* Connections *)

\* ClientMessage::Auth opens a session.
Connect(c) ==
  /\ link[c] = "unused"
  /\ \A d \in Connections : ~IsOpen(d)
  /\ link' = [link EXCEPT ![c] = "open"]
  /\ up' = [up EXCEPT ![c] = <<[type |-> "auth"]>>]
  /\ maker' = [maker EXCEPT ![c] = "authenticating"]
  /\ UNCHANGED <<language, down, sends, book, gateway_vars, wallet_vars>>

Drop(c) ==
  /\ IsOpen(c)
  /\ link' = [link EXCEPT ![c] = "closed"]
  /\ up' = [up EXCEPT ![c] = <<>>]
  /\ down' = [down EXCEPT ![c] = <<>>]
  /\ gateway' = [gateway EXCEPT ![c].phase = "closed"]
  /\ maker' = [maker EXCEPT ![c] = "closed"]
  /\ UNCHANGED <<language, sends, book, taken, rfq, wallet_vars>>

-----------------------------------------------------------------------------
(* The gateway *)

SendChallenge(c, id, timestamp) ==
  /\ NextIs(up, c, "auth")
  /\ id \notin Issued
  /\ gateway' = [gateway EXCEPT ![c] = [phase |-> "challenged", challenge |-> <<id, timestamp>>]]
  /\ TakeUp(c, [type |-> "auth_challenge", id |-> id, timestamp |-> timestamp])
  /\ UNCHANGED <<language, link, maker, sends, book, taken, rfq, wallet_vars>>

\* The text is built again from what the gateway sent.
CheckAuthResponse(c) ==
  /\ NextIs(up, c, "auth_response")
  /\ LET m == Head(up[c])
         challenge == gateway[c].challenge
         good == /\ gateway[c].phase = "challenged"
                 /\ m.signature =
                      Signature(m.wallet, AuthMessage(m.wallet, challenge[1], challenge[2]))
     IN  /\ gateway' = [gateway EXCEPT
              ![c].phase = IF gateway[c].phase # "challenged" THEN @
                           ELSE IF good THEN "authenticated" ELSE "refused"]
         /\ TakeUp(c, [type |-> "auth_result", success |-> good])
  /\ UNCHANGED <<language, link, maker, sends, book, taken, rfq, wallet_vars>>

AcceptSubscription(c) ==
  /\ NextIs(up, c, "subscribe")
  /\ gateway[c].phase = "authenticated"
  /\ gateway' = [gateway EXCEPT ![c].phase = "subscribed"]
  /\ TakeUp(c, [type |-> "subscribed"])
  /\ UNCHANGED <<language, link, maker, sends, book, taken, rfq, wallet_vars>>

Broadcast(r) ==
  /\ rfq[r] = "unsent"
  /\ \E c \in Connections : gateway[c].phase = "subscribed"
  /\ rfq' = [rfq EXCEPT ![r] = "open"]
  /\ down' = [c \in Connections |->
                IF gateway[c].phase = "subscribed"
                THEN Append(down[c], [type |-> "rfq", request |-> r]) ELSE down[c]]
  /\ UNCHANGED <<language, link, up, gateway, maker, sends, book, taken, wallet_vars>>

Collect(c, accepted) ==
  /\ NextIs(up, c, "quote")
  /\ LET m == Head(up[c])
     IN  /\ accepted => /\ gateway[c].phase = "subscribed"
                        /\ rfq[m.quote.request] = "open"
                        /\ VerifyQuote(m.quote, m.signature, Maker)
         /\ taken' = IF accepted
                     THEN Append(taken, [connection |-> c, quote |-> m.quote, status |-> "open"])
                     ELSE taken
         /\ TakeUp(c, QuoteAck(m.quote, IF accepted THEN Len(taken') ELSE 0, accepted))
  /\ UNCHANGED <<language, link, gateway, maker, sends, book, rfq, wallet_vars>>

\* RFQs end at once, the results of their quotes come in any order, and go to
\* the connection the quote came from, if it is still there.
Settle(n, status) ==
  /\ taken[n].status = "open"
  /\ taken' = [taken EXCEPT ![n].status = status]
  /\ rfq' = [rfq EXCEPT ![taken[n].quote.request] = "done"]
  /\ down' = IF IsOpen(taken[n].connection)
             THEN [down EXCEPT ![taken[n].connection] =
                     Append(@, QuoteResult(taken[n].quote, n, status))]
             ELSE down
  /\ UNCHANGED <<language, link, up, gateway, maker, sends, book, wallet_vars>>

-----------------------------------------------------------------------------
(* The maker: authentication *)

\* A bad challenge id is refused before anything is signed.
RefuseChallenge(c) ==
  /\ NextIs(down, c, "auth_challenge")
  /\ ChallengeError(Head(down[c]).id) # "ok"
  /\ maker' = [maker EXCEPT ![c] = "failed"]
  /\ TakeDown(c, <<>>)
  /\ UNCHANGED <<language, link, sends, book, gateway_vars, wallet_vars>>

\* auth_response_message in Rust and Python; in TypeScript it awaits.
AnswerChallenge(c) ==
  /\ NextIs(down, c, "auth_challenge")
  /\ LET m == Head(down[c])
         signature == Signature(Maker, AuthMessage(Maker, m.id, m.timestamp))
     IN  /\ ChallengeError(m.id) = "ok"
         /\ answered' = answered \cup {m.id}
         /\ IF language = "typescript"
            THEN /\ jobs' = jobs \cup {[kind |-> "auth", signature |-> signature]}
                 /\ TakeDown(c, <<>>)
            ELSE /\ TakeDown(c, <<AuthResponse(Maker, signature)>>)
                 /\ UNCHANGED jobs
  /\ UNCHANGED <<language, link, maker, sends, book, gateway_vars, quotes, edits, meant>>

\* The wallet has signed: the answer goes out on whatever connection the
\* program holds by now.
SendAuthResponse(c, job) ==
  /\ IsOpen(c)
  /\ job.kind = "auth"
  /\ jobs' = jobs \ {job}
  /\ up' = [up EXCEPT ![c] = Append(@, AuthResponse(Maker, job.signature))]
  /\ UNCHANGED <<language, link, down, maker, sends, book, gateway_vars, quotes, edits,
                 answered, meant>>

\* Once authenticated the maker subscribes.
OnAuthResult(c) ==
  /\ NextIs(down, c, "auth_result")
  /\ IF Head(down[c]).success
     THEN /\ maker' = [maker EXCEPT ![c] = "subscribing"]
          /\ TakeDown(c, <<[type |-> "subscribe"]>>)
     ELSE /\ maker' = [maker EXCEPT ![c] = "failed"]
          /\ TakeDown(c, <<>>)
  /\ UNCHANGED <<language, link, sends, book, gateway_vars, wallet_vars>>

OnSubscribed(c) ==
  /\ NextIs(down, c, "subscribed")
  /\ maker' = [maker EXCEPT ![c] = "ready"]
  /\ TakeDown(c, <<>>)
  /\ UNCHANGED <<language, link, sends, book, gateway_vars, wallet_vars>>

-----------------------------------------------------------------------------
(* The maker: quotes *)

\* signed_quote_response for an RFQ: the program gives each quote an id of its
\* own, or none.
QuoteRfq(c, odds, max_fill, id) ==
  /\ NextIs(down, c, "rfq")
  /\ odds < U32
  /\ Cardinality(meant) < MaxQuotes
  /\ id # NilId => \A q \in meant : q.client_quote_id # id
  /\ LET quote == NewQuote(Head(down[c]).request, odds, max_fill, id)
         signature == Signature(Maker, SignedData(quote))
     IN  /\ meant' = meant \cup {quote}
         /\ IF language = "typescript"
            THEN /\ jobs' = jobs \cup {[kind |-> "quote", quote |-> quote, signature |-> signature]}
                 /\ UNCHANGED quotes
            ELSE /\ quotes' = quotes \cup {[quote |-> quote, signature |-> signature]}
                 /\ UNCHANGED jobs
  /\ \/ TakeDown(c, <<>>)
     \/ UNCHANGED <<up, down>>   \* one RFQ may be quoted more than once
  /\ UNCHANGED <<language, link, maker, sends, book, gateway_vars, edits, answered>>

IgnoreRfq(c) ==
  /\ NextIs(down, c, "rfq")
  /\ TakeDown(c, <<>>)
  /\ UNCHANGED <<language, link, maker, sends, book, gateway_vars, wallet_vars>>

\* The odds of the quote that is being signed are assigned.
EditWhileSigning(job, odds) ==
  /\ job.kind = "quote"
  /\ edits < MaxEdits
  /\ edits' = edits + 1
  /\ jobs' = (jobs \ {job}) \cup {[job EXCEPT !.quote.odds = odds]}
  /\ UNCHANGED <<language, link, up, down, maker, sends, book, gateway_vars, quotes,
                 answered, meant>>

\* signQuoteResponse resolves: a new quote of the fields as they are now, or an
\* error when the odds are no longer a u32.
EndSigning(job) ==
  /\ job.kind = "quote"
  /\ jobs' = jobs \ {job}
  /\ quotes' = IF job.quote.odds < U32
               THEN quotes \cup {[quote |-> job.quote, signature |-> job.signature]}
               ELSE quotes
  /\ UNCHANGED <<language, link, up, down, maker, sends, book, gateway_vars, edits,
                 answered, meant>>

\* The odds of a signed quote are assigned; Rust and Python refuse wide ones,
\* and there the fill can be replaced as well.
EditSigned(signed, odds, max_fill) ==
  /\ edits < MaxEdits
  /\ edits' = edits + 1
  /\ language # "typescript" => odds < U32
  /\ language = "typescript" => max_fill = signed.quote.max_fill
  /\ quotes' = (quotes \ {signed}) \cup
       {[signed EXCEPT !.quote.odds = odds, !.quote.max_fill = max_fill]}
  /\ UNCHANGED <<language, link, up, down, maker, sends, book, gateway_vars, jobs,
                 answered, meant>>

\* quote_response_message; a quote can be sent again, and is when in doubt.
\* Encoding may throw, and then the call was in vain.
SendQuote(c, signed) ==
  /\ IsOpen(c) /\ maker[c] = "ready"
  /\ sends < MaxSends
  /\ sends' = sends + 1
  /\ up' = [up EXCEPT ![c] = @ \o EncodeQuote(signed.quote, signed.signature)]
  /\ UNCHANGED <<language, link, down, maker, book, gateway_vars, wallet_vars>>

\* What the gateway reports is noted under the id it names.
OnReport(c) ==
  /\ NextIs(down, c, "quote_ack") \/ NextIs(down, c, "quote_result")
  /\ LET m == Head(down[c])
         status == IF m.type = "quote_result" THEN m.status
                   ELSE IF m.accepted THEN "accepted" ELSE "refused"
     IN  book' = IF m.client_quote_id = <<>> THEN book
                 ELSE [book EXCEPT ![m.client_quote_id[1]] = status]
  /\ TakeDown(c, <<>>)
  /\ UNCHANGED <<language, link, maker, sends, gateway_vars, wallet_vars>>

-----------------------------------------------------------------------------
GatewayStep ==
  \/ \E c \in Connections :
       \/ \E id \in Challenges, timestamp \in Timestamps : SendChallenge(c, id, timestamp)
       \/ CheckAuthResponse(c)
       \/ AcceptSubscription(c)
       \/ \E accepted \in BOOLEAN : Collect(c, accepted)
  \/ \E n \in DOMAIN taken, status \in Terminal : Settle(n, status)

MakerStep ==
  \/ \E c \in Connections :
       \/ RefuseChallenge(c) \/ AnswerChallenge(c) \/ OnAuthResult(c) \/ OnSubscribed(c)
       \/ IgnoreRfq(c) \/ OnReport(c)
       \/ \E job \in jobs : SendAuthResponse(c, job)
  \/ \E job \in jobs : EndSigning(job)

Choices ==
  \/ \E c \in Connections : Connect(c) \/ Drop(c)
  \/ \E r \in Requests : Broadcast(r)
  \/ \E c \in Connections, odds \in OddsValues, max_fill \in Fills, id \in AllIds :
       QuoteRfq(c, odds, max_fill, id)
  \/ \E job \in jobs, odds \in OddsValues : EditWhileSigning(job, odds)
  \/ \E signed \in quotes, odds \in OddsValues, max_fill \in Fills :
       EditSigned(signed, odds, max_fill)
  \/ \E c \in Connections, signed \in quotes : SendQuote(c, signed)

Next == GatewayStep \/ MakerStep \/ Choices

Spec == Init /\ [][Next]_vars

\* The gateway handles what it receives and settles every quote it collects;
\* the maker's program handles what it receives and its wallet answers.
FairSpec == Spec /\ WF_vars(GatewayStep) /\ WF_vars(MakerStep)

-----------------------------------------------------------------------------
(* Properties *)

Phases == {"new", "challenged", "authenticated", "refused", "subscribed", "closed"}
Sessions == [phase : Phases, challenge : {<<>>} \cup (Challenges \X Timestamps)]

Offers ==
  [request : Requests, odds : Odds, max_fill : Fills, client_quote_id : AllIds]

\* The maker signs nothing but what it means to ...
SignedAnswers ==
  {Signature(Maker, AuthMessage(Maker, id, timestamp)) :
     id \in answered, timestamp \in Timestamps}
SignedQuotes == {Signature(Maker, SignedData(q)) : q \in meant}

UpMessages ==
  {[type |-> "auth"], [type |-> "subscribe"]}
  \cup {AuthResponse(Maker, signature) : signature \in SignedAnswers}
  \cup [type : {"quote"}, quote : Offers, signature : SignedQuotes]

\* ... and the gateway acknowledges nothing but what it has taken, and reports
\* nothing but what it has settled.
Acks ==
  {QuoteAck(q, 0, FALSE) : q \in Offers}
  \cup {QuoteAck(taken[n].quote, n, TRUE) : n \in DOMAIN taken}
Results ==
  {QuoteResult(taken[n].quote, n, taken[n].status) :
     n \in {k \in DOMAIN taken : taken[k].status \in Terminal}}

DownMessages ==
  [type : {"auth_challenge"}, id : Challenges, timestamp : Timestamps]
  \cup [type : {"auth_result"}, success : BOOLEAN]
  \cup {[type |-> "subscribed"]}
  \cup [type : {"rfq"}, request : Requests]
  \cup Acks
  \cup Results

\* Everything stored or on its way is of its kind, every signature is one the
\* maker meant to give, and no quote whose odds got wider than 32 bits is sent.
TypeOK ==
  /\ language \in Languages
  /\ link \in [Connections -> {"unused", "open", "closed"}]
  /\ up \in [Connections -> Seq(UpMessages)]
  /\ down \in [Connections -> Seq(DownMessages)]
  /\ gateway \in [Connections -> Sessions]
  /\ maker \in [Connections -> {"idle", "authenticating", "subscribing", "ready",
                                "failed", "closed"}]
  /\ jobs \subseteq [kind : {"auth"}, signature : SignedAnswers]
            \cup [kind : {"quote"}, quote : Quote, signature : SignedQuotes]
  /\ quotes \subseteq [quote : Quote, signature : SignedQuotes]
  /\ sends \in 0 .. MaxSends /\ edits \in 0 .. MaxEdits
  /\ book \in [AllIds -> {"none", "accepted", "refused"} \cup Terminal]
  /\ taken \in Seq([connection : Connections, quote : Offers, status : {"open"} \cup Terminal])
  /\ rfq \in [Requests -> {"unsent", "open", "done"}]
  /\ answered \subseteq Challenges
  /\ meant \subseteq Offers

\* A connection is authenticated only by an answer to its own challenge that
\* the maker meant to give: an answer that was signed for an earlier connection
\* and comes late is worth nothing on another.
AuthenticatedWasAnswered ==
  \A c \in Connections :
    gateway[c].phase \in {"authenticated", "subscribed"} => gateway[c].challenge[1] \in answered

\* Every quote the gateway takes has exactly the request, odds, fill and id that
\* the maker asked to sign, whatever was assigned while the wallet was signing
\* or afterwards.
CollectedWasMeant == \A n \in DOMAIN taken : taken[n].quote \in meant

\* What the maker has noted under an id is about one quote of its own, and a
\* terminal status is the one the gateway gave that quote.
ReportsNameOneQuote ==
  \A id \in AllIds :
    LET named == {n \in DOMAIN taken : taken[n].quote.client_quote_id = id}
    IN  /\ book[id] \in Terminal => \E n \in named : taken[n].status = book[id]
        /\ book[id] # "none" => \A m, n \in named : taken[m].quote = taken[n].quote

\* Unless a connection was lost, what the maker holds for accepted is a quote
\* that the gateway has still to settle, or its result is on its way: no accepted
\* quote is forgotten, however often it was sent.
AcceptedIsStillOwed ==
  (\A c \in Connections : link[c] # "closed") =>
    \A id \in QuoteIds : book[id] = "accepted" =>
      \/ \E n \in DOMAIN taken :
           /\ taken[n].quote.client_quote_id = id /\ taken[n].status = "open"
           /\ IsOpen(taken[n].connection)
      \/ \E c \in Connections : \E i \in DOMAIN down[c] :
           down[c][i].type = "quote_result" /\ down[c][i].client_quote_id = <<id>>

\* Whatever connections, wallets and assignments do, the maker is held to what
\* it meant, each quote is settled once, and reports tell of the quote they name.
Book == INSTANCE QuoteBook
  WITH Ids <- AllIds, NoId <- NilId, meant <- meant, book <- book,
       taken <- [n \in DOMAIN taken |-> [quote |-> taken[n].quote, status |-> taken[n].status]]
KeepsTheBook == Book!BookSpec

\* A quote that was accepted gets its terminal result, unless its connection
\* is lost.
AcceptedIsSettled ==
  \A id \in QuoteIds :
    book[id] = "accepted" ~> (book[id] \in Terminal \/ \E c \in Connections : link[c] = "closed")
=============================================================================
