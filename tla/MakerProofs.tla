----------------------------- MODULE MakerProofs -----------------------------
(***************************************************************************)
(* The safety properties of MakerSession for any number of connections,    *)
(* challenges, RFQs, quotes and reports.                                   *)
(***************************************************************************)
EXTENDS MakerSession, TLAPS

-----------------------------------------------------------------------------
(* What signatures tell apart *)

\* An answer to one challenge is no answer to another.
LEMMA AnswersDiffer ==
  ASSUME NEW w, NEW v, NEW id, NEW ts, NEW id2, NEW ts2,
         Signature(w, AuthMessage(w, id, ts)) = Signature(v, AuthMessage(v, id2, ts2))
  PROVE  id = id2
<1>1. AuthMessage(w, id, ts) = AuthMessage(v, id2, ts2)
  BY DEF Signature
<1> QED
  BY <1>1 DEF AuthMessage

\* The signed data of a quote determine the quote.
LEMMA SignedDataInjective ==
  ASSUME NEW p \in Offers, NEW q \in Offers,
         Signature(Maker, SignedData(p)) = Signature(Maker, SignedData(q))
  PROVE  p = q
<1>1. SignedData(p) = SignedData(q)
  BY DEF Signature
<1>2. /\ p.request = q.request /\ p.odds = q.odds /\ p.max_fill = q.max_fill
      /\ p.client_quote_id = q.client_quote_id
  BY <1>1 DEF SignedData
<1> QED
  BY <1>2 DEF Offers

\* Encoding keeps a quote of 32-bit odds, and refuses any other.
LEMMA EncodedType ==
  ASSUME NEW q \in Quote, NEW signature \in SignedQuotes
  PROVE  EncodeQuote(q, signature) \in Seq(UpMessages)
<1>1. CASE q.odds \in Odds
  <2>1. q \in Offers
    BY <1>1 DEF Quote, Offers, AllIds
  <2>2. [type |-> "quote", quote |-> q, signature |-> signature] \in UpMessages
    BY <2>1 DEF UpMessages
  <2> QED
    BY <1>1, <2>2 DEF EncodeQuote
<1>2. CASE q.odds \notin Odds
  BY <1>2 DEF EncodeQuote
<1> QED
  BY <1>1, <1>2

-----------------------------------------------------------------------------
(* Channels *)

LEMMA TailType ==
  ASSUME NEW S, NEW s \in Seq(S), s # <<>>
  PROVE  Tail(s) \in Seq(S) /\ Head(s) \in S
OBVIOUS

LEMMA AppendType ==
  ASSUME NEW S, NEW s \in Seq(S), NEW e \in S
  PROVE  Append(s, e) \in Seq(S)
OBVIOUS

LEMMA WiderSeq ==
  ASSUME NEW S, NEW T, S \subseteq T, NEW s \in Seq(S)
  PROVE  s \in Seq(T)
OBVIOUS

\* Head and rest of a channel in which a message is next.
LEMMA NextUp ==
  ASSUME TypeOK, NEW c \in Connections, NEW type, NextIs(up, c, type)
  PROVE  /\ Head(up[c]) \in UpMessages /\ Head(up[c]).type = type
         /\ Tail(up[c]) \in Seq(UpMessages)
<1>1. up[c] \in Seq(UpMessages)
  BY DEF TypeOK
<1> QED
  BY <1>1, TailType DEF NextIs

LEMMA NextDown ==
  ASSUME TypeOK, NEW c \in Connections, NEW type, NextIs(down, c, type)
  PROVE  /\ Head(down[c]) \in DownMessages /\ Head(down[c]).type = type
         /\ Tail(down[c]) \in Seq(DownMessages)
<1>1. down[c] \in Seq(DownMessages)
  BY DEF TypeOK
<1> QED
  BY <1>1, TailType DEF NextIs

\* The gateway replies to a message.
LEMMA TakeUpType ==
  ASSUME TypeOK, NEW c \in Connections, NEW type, NextIs(up, c, type),
         NEW reply \in DownMessages, TakeUp(c, reply)
  PROVE  /\ up' \in [Connections -> Seq(UpMessages)]
         /\ down' \in [Connections -> Seq(DownMessages)]
<1>1. Tail(up[c]) \in Seq(UpMessages)
  BY NextUp
<1>2. down[c] \in Seq(DownMessages)
  BY DEF TypeOK
<1>3. Append(down[c], reply) \in Seq(DownMessages)
  BY <1>2, AppendType
<1> QED
  BY <1>1, <1>3 DEF TakeUp, TypeOK

\* The maker handles a message, and answers it or not.
LEMMA TakeDownType ==
  ASSUME TypeOK, NEW c \in Connections, NEW type, NextIs(down, c, type),
         NEW S, UpMessages \subseteq S, NEW replies \in Seq(S), TakeDown(c, replies)
  PROVE  /\ up' \in [Connections -> Seq(S)]
         /\ down' \in [Connections -> Seq(DownMessages)]
<1>1. Tail(down[c]) \in Seq(DownMessages)
  BY NextDown
<1>2. \A d \in Connections : up[d] \in Seq(S)
  <2>1. \A d \in Connections : up[d] \in Seq(UpMessages)
    BY DEF TypeOK
  <2> QED
    BY <2>1, WiderSeq
<1>3. up[c] \o replies \in Seq(S)
  BY <1>2
<1>4. up \in [Connections -> Seq(S)]
  BY <1>2 DEF TypeOK
<1> QED
  BY <1>1, <1>3, <1>4 DEF TakeDown, TypeOK

-----------------------------------------------------------------------------
(* What may be on its way only grows *)

LEMMA SameSigned ==
  ASSUME UNCHANGED <<answered, meant>>
  PROVE  /\ UpMessages' = UpMessages
         /\ SignedAnswers' = SignedAnswers
         /\ SignedQuotes' = SignedQuotes
BY DEF UpMessages, SignedAnswers, SignedQuotes

LEMMA SameReports ==
  ASSUME UNCHANGED taken
  PROVE  DownMessages' = DownMessages
BY DEF DownMessages, Acks, Results

LEMMA MoreSigned ==
  ASSUME answered \subseteq answered', meant \subseteq meant'
  PROVE  /\ UpMessages \subseteq UpMessages'
         /\ SignedAnswers \subseteq SignedAnswers'
         /\ SignedQuotes \subseteq SignedQuotes'
<1>1. /\ SignedAnswers \subseteq SignedAnswers'
      /\ SignedQuotes \subseteq SignedQuotes'
  BY DEF SignedAnswers, SignedQuotes
<1> QED
  BY <1>1 DEF UpMessages

LEMMA MoreReports ==
  ASSUME \A n \in DOMAIN taken :
           /\ n \in DOMAIN taken' /\ taken'[n].quote = taken[n].quote
           /\ taken[n].status \in Terminal => taken'[n] = taken[n]
  PROVE  DownMessages \subseteq DownMessages'
<1>1. Results \subseteq Results'
  BY DEF Results
<1>2. Acks \subseteq Acks'
  BY DEF Acks
<1> QED
  BY <1>1, <1>2 DEF DownMessages

LEMMA WiderChannels ==
  ASSUME NEW S, NEW T, S \subseteq T, NEW channel \in [Connections -> Seq(S)]
  PROVE  channel \in [Connections -> Seq(T)]
<1>1. \A c \in Connections : channel[c] \in Seq(T)
  <2>1. \A c \in Connections : channel[c] \in Seq(S)
    OBVIOUS
  <2> QED
    BY <2>1, WiderSeq
<1> QED
  BY <1>1

\* A session moves on to another phase.
LEMMA PhaseType ==
  ASSUME TypeOK, NEW c \in Connections, NEW phase \in Phases
  PROVE  [gateway EXCEPT ![c].phase = phase] \in [Connections -> Sessions]
<1>1. gateway \in [Connections -> Sessions] /\ gateway[c] \in Sessions
  BY DEF TypeOK
<1>2. [gateway[c] EXCEPT !.phase = phase] \in Sessions
  BY <1>1 DEF Sessions
<1> QED
  BY <1>1, <1>2

-----------------------------------------------------------------------------
(* Connections *)

LEMMA InitType ==
  Init => TypeOK
<1> SUFFICES ASSUME Init  PROVE TypeOK
  OBVIOUS
<1>1. \A S : <<>> \in Seq(S)
  OBVIOUS
<1>2. MaxSends \in Nat /\ MaxEdits \in Nat
  BY SessionAssumption
<1>3. /\ up \in [Connections -> Seq(UpMessages)]
      /\ down \in [Connections -> Seq(DownMessages)]
      /\ taken \in Seq([connection : Connections, quote : Offers,
                        status : {"open"} \cup Terminal])
  BY <1>1 DEF Init
<1>4. gateway \in [Connections -> Sessions]
  BY DEF Init, NoSession, Phases, Sessions
<1> QED
  BY <1>2, <1>3, <1>4 DEF Init, TypeOK

LEMMA ConnectType ==
  ASSUME TypeOK, NEW c \in Connections, Connect(c)
  PROVE  TypeOK'
<1>1. /\ UpMessages' = UpMessages /\ SignedAnswers' = SignedAnswers
      /\ SignedQuotes' = SignedQuotes /\ DownMessages' = DownMessages
  BY SameSigned, SameReports DEF Connect, gateway_vars, wallet_vars
<1>2. <<[type |-> "auth"]>> \in Seq(UpMessages)
  BY DEF UpMessages
<1>3. up' \in [Connections -> Seq(UpMessages)]
  BY <1>2 DEF Connect, TypeOK
<1> QED
  BY <1>1, <1>3 DEF Connect, TypeOK, gateway_vars, wallet_vars

LEMMA DropType ==
  ASSUME TypeOK, NEW c \in Connections, Drop(c)
  PROVE  TypeOK'
<1>1. /\ UpMessages' = UpMessages /\ SignedAnswers' = SignedAnswers
      /\ SignedQuotes' = SignedQuotes /\ DownMessages' = DownMessages
  BY SameSigned, SameReports DEF Drop, wallet_vars
<1>2. \A S : <<>> \in Seq(S)
  OBVIOUS
<1>3. /\ up' \in [Connections -> Seq(UpMessages)]
      /\ down' \in [Connections -> Seq(DownMessages)]
  BY <1>2 DEF Drop, TypeOK
<1>4. gateway' \in [Connections -> Sessions]
  BY PhaseType DEF Drop, Phases
<1> QED
  BY <1>1, <1>3, <1>4 DEF Drop, TypeOK, wallet_vars

-----------------------------------------------------------------------------
(* The gateway *)

LEMMA SendChallengeType ==
  ASSUME TypeOK, NEW c \in Connections, NEW id \in Challenges, NEW timestamp \in Timestamps,
         SendChallenge(c, id, timestamp)
  PROVE  TypeOK'
<1>1. /\ UpMessages' = UpMessages /\ SignedAnswers' = SignedAnswers
      /\ SignedQuotes' = SignedQuotes /\ DownMessages' = DownMessages
  BY SameSigned, SameReports DEF SendChallenge, wallet_vars
<1>2. [type |-> "auth_challenge", id |-> id, timestamp |-> timestamp] \in DownMessages
  BY DEF DownMessages
<1>3. /\ up' \in [Connections -> Seq(UpMessages)]
      /\ down' \in [Connections -> Seq(DownMessages)]
  BY <1>2, TakeUpType DEF SendChallenge
<1>4. gateway' \in [Connections -> Sessions]
  BY DEF SendChallenge, TypeOK, Phases, Sessions
<1> QED
  BY <1>1, <1>3, <1>4 DEF SendChallenge, TypeOK, wallet_vars

LEMMA CheckAuthResponseType ==
  ASSUME TypeOK, NEW c \in Connections, CheckAuthResponse(c)
  PROVE  TypeOK'
<1> DEFINE m == Head(up[c])
           challenge == gateway[c].challenge
           good == /\ gateway[c].phase = "challenged"
                   /\ m.signature =
                        Signature(m.wallet, AuthMessage(m.wallet, challenge[1], challenge[2]))
<1>1. /\ UpMessages' = UpMessages /\ SignedAnswers' = SignedAnswers
      /\ SignedQuotes' = SignedQuotes /\ DownMessages' = DownMessages
  BY SameSigned, SameReports DEF CheckAuthResponse, wallet_vars
<1>2. good \in BOOLEAN
  OBVIOUS
<1>3. [type |-> "auth_result", success |-> good] \in DownMessages
  BY <1>2 DEF DownMessages
<1>4. TakeUp(c, [type |-> "auth_result", success |-> good]) /\ NextIs(up, c, "auth_response")
  BY DEF CheckAuthResponse
<1>5. /\ up' \in [Connections -> Seq(UpMessages)]
      /\ down' \in [Connections -> Seq(DownMessages)]
  BY <1>3, <1>4, TakeUpType
<1>6. gateway' \in [Connections -> Sessions]
  <2> DEFINE phase == IF gateway[c].phase # "challenged" THEN gateway[c].phase
                      ELSE IF good THEN "authenticated" ELSE "refused"
  <2>1. gateway[c].phase \in Phases
    BY DEF TypeOK, Sessions
  <2>2. phase \in Phases
    BY <2>1 DEF Phases
  <2>3. gateway' = [gateway EXCEPT ![c].phase = phase]
    BY DEF CheckAuthResponse
  <2> QED
    BY <2>2, <2>3, PhaseType
<1> QED
  BY <1>1, <1>5, <1>6 DEF CheckAuthResponse, TypeOK, wallet_vars

LEMMA AcceptSubscriptionType ==
  ASSUME TypeOK, NEW c \in Connections, AcceptSubscription(c)
  PROVE  TypeOK'
<1>1. /\ UpMessages' = UpMessages /\ SignedAnswers' = SignedAnswers
      /\ SignedQuotes' = SignedQuotes /\ DownMessages' = DownMessages
  BY SameSigned, SameReports DEF AcceptSubscription, wallet_vars
<1>2. [type |-> "subscribed"] \in DownMessages
  BY DEF DownMessages
<1>3. /\ up' \in [Connections -> Seq(UpMessages)]
      /\ down' \in [Connections -> Seq(DownMessages)]
  BY <1>2, TakeUpType DEF AcceptSubscription
<1>4. gateway' \in [Connections -> Sessions]
  BY PhaseType DEF AcceptSubscription, Phases
<1> QED
  BY <1>1, <1>3, <1>4 DEF AcceptSubscription, TypeOK, wallet_vars

LEMMA BroadcastType ==
  ASSUME TypeOK, NEW r \in Requests, Broadcast(r)
  PROVE  TypeOK'
<1>1. /\ UpMessages' = UpMessages /\ SignedAnswers' = SignedAnswers
      /\ SignedQuotes' = SignedQuotes /\ DownMessages' = DownMessages
  BY SameSigned, SameReports DEF Broadcast, wallet_vars
<1>2. [type |-> "rfq", request |-> r] \in DownMessages
  BY DEF DownMessages
<1>3. \A c \in Connections : /\ down[c] \in Seq(DownMessages)
                             /\ Append(down[c], [type |-> "rfq", request |-> r])
                                  \in Seq(DownMessages)
  BY <1>2, AppendType DEF TypeOK
<1>4. down' \in [Connections -> Seq(DownMessages)]
  BY <1>3 DEF Broadcast
<1> QED
  BY <1>1, <1>4 DEF Broadcast, TypeOK, wallet_vars

LEMMA TakenItem ==
  ASSUME TypeOK, NEW n \in DOMAIN taken
  PROVE  taken[n] \in [connection : Connections, quote : Offers, status : {"open"} \cup Terminal]
<1> DEFINE Item == [connection : Connections, quote : Offers, status : {"open"} \cup Terminal]
<1>1. taken \in Seq(Item)
  BY DEF TypeOK
<1> HIDE DEF Item
<1>2. taken[n] \in Item
  BY <1>1
<1> QED
  BY <1>2 DEF Item

\* What the messages of each type hold.
LEMMA UpFields ==
  ASSUME NEW m \in UpMessages
  PROVE  /\ m.type = "quote" => /\ m.quote \in Offers /\ m.signature \in SignedQuotes
         /\ m.type = "auth_response" => m.signature \in SignedAnswers
BY DEF UpMessages, AuthResponse

LEMMA DownFields ==
  ASSUME NEW m \in DownMessages
  PROVE  /\ m.type = "auth_challenge" => m.id \in Challenges /\ m.timestamp \in Timestamps
         /\ m.type = "rfq" => m.request \in Requests
         /\ m.type = "quote_ack" => m \in Acks
         /\ m.type = "quote_result" => m \in Results
BY DEF DownMessages, QuoteAck, QuoteResult, Acks, Results

\* An acknowledgement names a quote, and one that accepts names one that was taken.
LEMMA AckFields ==
  ASSUME TypeOK, NEW m \in Acks
  PROVE  /\ m.type = "quote_ack"
         /\ \E q \in Offers : m.client_quote_id = ClientQuoteId(q)
         /\ m.accepted => \E n \in DOMAIN taken : m.client_quote_id = ClientQuoteId(taken[n].quote)
<1>1. CASE \E q \in Offers : m = QuoteAck(q, 0, FALSE)
  BY <1>1 DEF QuoteAck
<1>2. CASE \E n \in DOMAIN taken : m = QuoteAck(taken[n].quote, n, TRUE)
  BY <1>2, TakenItem DEF QuoteAck
<1> QED
  BY <1>1, <1>2 DEF Acks

LEMMA CollectKeeps ==
  ASSUME TypeOK, NEW c \in Connections, NEW accepted \in BOOLEAN, Collect(c, accepted)
  PROVE  \A n \in DOMAIN taken : n \in DOMAIN taken' /\ taken'[n] = taken[n]
<1> DEFINE Item == [connection : Connections, quote : Offers, status : {"open"} \cup Terminal]
           new == [connection |-> c, quote |-> Head(up[c]).quote, status |-> "open"]
<1>1. taken \in Seq(Item)
  BY DEF TypeOK
<1>2. taken' = IF accepted THEN Append(taken, new) ELSE taken
  BY DEF Collect
<1> HIDE DEF Item, new
<1> QED
  BY <1>1, <1>2

\* The gateway numbers what it takes.
LEMMA CollectLast ==
  ASSUME TypeOK, NEW c \in Connections, Collect(c, TRUE)
  PROVE  Len(taken') \in DOMAIN taken' /\ taken'[Len(taken')].quote = Head(up[c]).quote
<1> DEFINE Item == [connection : Connections, quote : Offers, status : {"open"} \cup Terminal]
           new == [connection |-> c, quote |-> Head(up[c]).quote, status |-> "open"]
<1>1. taken \in Seq(Item)
  BY DEF TypeOK
<1>2. taken' = Append(taken, new)
  BY DEF Collect
<1>3. new.quote = Head(up[c]).quote
  OBVIOUS
<1> HIDE DEF Item, new
<1>4. Len(taken') \in DOMAIN taken' /\ taken'[Len(taken')] = new
  BY <1>1, <1>2
<1> QED
  BY <1>3, <1>4

LEMMA CollectType ==
  ASSUME TypeOK, NEW c \in Connections, NEW accepted \in BOOLEAN, Collect(c, accepted)
  PROVE  TypeOK'
<1> DEFINE m == Head(up[c])
<1>1. m.quote \in Offers
  BY NextUp, UpFields DEF Collect
<1>2. DownMessages \subseteq DownMessages'
  <2>1. \A n \in DOMAIN taken : n \in DOMAIN taken' /\ taken'[n] = taken[n]
    BY CollectKeeps
  <2> QED
    BY <2>1, MoreReports
<1>3. /\ UpMessages' = UpMessages /\ SignedAnswers' = SignedAnswers
      /\ SignedQuotes' = SignedQuotes
  BY SameSigned DEF Collect, wallet_vars
<1> DEFINE reply == QuoteAck(m.quote, IF accepted THEN Len(taken') ELSE 0, accepted)
<1>4. reply \in DownMessages'
  <2>1. CASE accepted
    <3>1. Len(taken') \in DOMAIN taken' /\ taken'[Len(taken')].quote = m.quote
      BY <2>1, CollectLast
    <3>2. QuoteAck(taken'[Len(taken')].quote, Len(taken'), TRUE) \in Acks'
      BY <3>1 DEF Acks
    <3> QED
      BY <2>1, <3>1, <3>2 DEF DownMessages
  <2>2. CASE ~accepted
    BY <1>1, <2>2 DEF DownMessages, Acks
  <2> QED
    BY <2>1, <2>2
<1>5. up' \in [Connections -> Seq(UpMessages)]
  BY NextUp DEF Collect, TakeUp, TypeOK
<1>6. down' \in [Connections -> Seq(DownMessages')]
  <2>1. down \in [Connections -> Seq(DownMessages')]
    BY <1>2, WiderChannels DEF TypeOK
  <2>2. Append(down[c], reply) \in Seq(DownMessages')
    BY <1>4, <2>1, AppendType
  <2>3. down' = [down EXCEPT ![c] = Append(@, reply)]
    BY DEF Collect, TakeUp
  <2> QED
    BY <2>1, <2>2, <2>3
<1>7. taken' \in Seq([connection : Connections, quote : Offers, status : {"open"} \cup Terminal])
  <2>1. [connection |-> c, quote |-> m.quote, status |-> "open"]
          \in [connection : Connections, quote : Offers, status : {"open"} \cup Terminal]
    BY <1>1
  <2> QED
    BY <2>1, AppendType DEF Collect, TypeOK
<1> QED
  BY <1>3, <1>5, <1>6, <1>7 DEF Collect, TypeOK, wallet_vars

LEMMA SettleType ==
  ASSUME TypeOK, NEW n \in DOMAIN taken, NEW status \in Terminal, Settle(n, status)
  PROVE  TypeOK'
<1> DEFINE Item == [connection : Connections, quote : Offers, status : {"open"} \cup Terminal]
           c == taken[n].connection
<1>1. taken \in Seq(Item) /\ taken[n] \in Item
  BY TakenItem DEF TypeOK
<1>2. /\ taken' \in Seq(Item)
      /\ DOMAIN taken' = DOMAIN taken
      /\ \A k \in DOMAIN taken : k # n => taken'[k] = taken[k]
      /\ taken'[n] = [taken[n] EXCEPT !.status = status]
  BY <1>1 DEF Settle
<1>3. DownMessages \subseteq DownMessages'
  <2>1. \A k \in DOMAIN taken :
          /\ k \in DOMAIN taken' /\ taken'[k].quote = taken[k].quote
          /\ taken[k].status \in Terminal => taken'[k] = taken[k]
    BY <1>1, <1>2 DEF Settle, Terminal
  <2> QED
    BY <2>1, MoreReports
<1>4. QuoteResult(taken[n].quote, n, status) \in DownMessages'
  <2>1. taken'[n].quote = taken[n].quote /\ taken'[n].status = status
    BY <1>1, <1>2
  <2>2. QuoteResult(taken[n].quote, n, status) \in Results'
    BY <1>2, <2>1 DEF Results
  <2> QED
    BY <2>2 DEF DownMessages
<1>5. /\ UpMessages' = UpMessages /\ SignedAnswers' = SignedAnswers
      /\ SignedQuotes' = SignedQuotes
  BY SameSigned DEF Settle, wallet_vars
<1>6. down \in [Connections -> Seq(DownMessages')]
  BY <1>3, WiderChannels DEF TypeOK
<1>7. Append(down[c], QuoteResult(taken[n].quote, n, status)) \in Seq(DownMessages')
  BY <1>1, <1>4, <1>6, AppendType
<1>8. down' \in [Connections -> Seq(DownMessages')]
  <2>1. CASE IsOpen(c)
    BY <1>6, <1>7, <2>1 DEF Settle
  <2>2. CASE ~IsOpen(c)
    BY <1>6, <2>2 DEF Settle
  <2> QED
    BY <2>1, <2>2
<1>9. rfq' \in [Requests -> {"unsent", "open", "done"}]
  BY DEF Settle, TypeOK
<1> QED
  BY <1>2, <1>5, <1>8, <1>9 DEF Settle, TypeOK, wallet_vars

-----------------------------------------------------------------------------
(* The maker *)

LEMMA AnswerChallengeType ==
  ASSUME TypeOK, NEW c \in Connections, AnswerChallenge(c)
  PROVE  TypeOK'
<1> DEFINE m == Head(down[c])
           signature == Signature(Maker, AuthMessage(Maker, m.id, m.timestamp))
<1>1. m.id \in Challenges /\ m.timestamp \in Timestamps
  BY NextDown, DownFields DEF AnswerChallenge
<1>2. answered' = answered \cup {m.id} /\ meant' = meant
  BY DEF AnswerChallenge
<1>3. /\ UpMessages \subseteq UpMessages' /\ SignedAnswers \subseteq SignedAnswers'
      /\ SignedQuotes \subseteq SignedQuotes'
  BY <1>2, MoreSigned
<1>4. DownMessages' = DownMessages
  BY SameReports DEF AnswerChallenge, gateway_vars
<1>5. signature \in SignedAnswers'
  BY <1>1, <1>2 DEF SignedAnswers
<1>6. AuthResponse(Maker, signature) \in UpMessages'
  BY <1>5 DEF UpMessages
<1>7. <<>> \in Seq(UpMessages') /\ <<AuthResponse(Maker, signature)>> \in Seq(UpMessages')
  BY <1>6
<1>8. /\ up' \in [Connections -> Seq(UpMessages')]
      /\ down' \in [Connections -> Seq(DownMessages)]
  BY <1>3, <1>7, TakeDownType DEF AnswerChallenge
<1>9. /\ jobs' \subseteq [kind : {"auth"}, signature : SignedAnswers']
                  \cup [kind : {"quote"}, quote : Quote, signature : SignedQuotes']
      /\ quotes' \subseteq [quote : Quote, signature : SignedQuotes']
  BY <1>3, <1>5 DEF AnswerChallenge, TypeOK
<1>10. answered' \subseteq Challenges
  BY <1>1, <1>2 DEF TypeOK
<1> QED
  BY <1>4, <1>8, <1>9, <1>10 DEF AnswerChallenge, TypeOK, gateway_vars

LEMMA QuoteRfqType ==
  ASSUME TypeOK, NEW c \in Connections, NEW odds \in OddsValues, NEW max_fill \in Fills,
         NEW id \in AllIds, QuoteRfq(c, odds, max_fill, id)
  PROVE  TypeOK'
<1> DEFINE quote == NewQuote(Head(down[c]).request, odds, max_fill, id)
           signature == Signature(Maker, SignedData(quote))
<1>1. Head(down[c]).request \in Requests
  BY NextDown, DownFields DEF QuoteRfq
<1>2. odds \in Odds
  BY SessionAssumption, QuoteAssumption DEF QuoteRfq, Odds
<1>3. quote \in Offers /\ quote \in Quote
  BY <1>1, <1>2, QuoteAssumption DEF NewQuote, Offers, Quote, Odds, AllIds
<1>4. meant' = meant \cup {quote} /\ answered' = answered
  BY DEF QuoteRfq
<1>5. /\ UpMessages \subseteq UpMessages' /\ SignedAnswers \subseteq SignedAnswers'
      /\ SignedQuotes \subseteq SignedQuotes'
  BY <1>4, MoreSigned
<1>6. DownMessages' = DownMessages
  BY SameReports DEF QuoteRfq, gateway_vars
<1>7. signature \in SignedQuotes'
  BY <1>4 DEF SignedQuotes
<1>8. up \in [Connections -> Seq(UpMessages')] /\ <<>> \in Seq(UpMessages')
  BY <1>5, WiderChannels DEF TypeOK
<1>9. /\ up' \in [Connections -> Seq(UpMessages')]
      /\ down' \in [Connections -> Seq(DownMessages)]
  <2>1. CASE TakeDown(c, <<>>)
    BY <1>5, <1>8, <2>1, TakeDownType DEF QuoteRfq
  <2>2. CASE UNCHANGED <<up, down>>
    BY <1>8, <2>2 DEF TypeOK
  <2> QED
    BY <2>1, <2>2 DEF QuoteRfq
<1>10. /\ jobs' \subseteq [kind : {"auth"}, signature : SignedAnswers']
                   \cup [kind : {"quote"}, quote : Quote, signature : SignedQuotes']
       /\ quotes' \subseteq [quote : Quote, signature : SignedQuotes']
  BY <1>3, <1>5, <1>7 DEF QuoteRfq, TypeOK
<1>11. meant' \subseteq Offers
  BY <1>3, <1>4 DEF TypeOK
<1> QED
  BY <1>6, <1>9, <1>10, <1>11 DEF QuoteRfq, TypeOK, gateway_vars

LEMMA RefuseChallengeType ==
  ASSUME TypeOK, NEW c \in Connections, RefuseChallenge(c)
  PROVE  TypeOK'
<1>1. /\ UpMessages' = UpMessages /\ SignedAnswers' = SignedAnswers
      /\ SignedQuotes' = SignedQuotes /\ DownMessages' = DownMessages
  BY SameSigned, SameReports DEF RefuseChallenge, gateway_vars, wallet_vars
<1>2. <<>> \in Seq(UpMessages)
  BY DEF UpMessages
<1>3. /\ up' \in [Connections -> Seq(UpMessages)]
      /\ down' \in [Connections -> Seq(DownMessages)]
  BY <1>2, TakeDownType DEF RefuseChallenge
<1> QED
  BY <1>1, <1>3 DEF RefuseChallenge, TypeOK, gateway_vars, wallet_vars

LEMMA OnAuthResultType ==
  ASSUME TypeOK, NEW c \in Connections, OnAuthResult(c)
  PROVE  TypeOK'
<1>1. /\ UpMessages' = UpMessages /\ SignedAnswers' = SignedAnswers
      /\ SignedQuotes' = SignedQuotes /\ DownMessages' = DownMessages
  BY SameSigned, SameReports DEF OnAuthResult, gateway_vars, wallet_vars
<1>2. <<>> \in Seq(UpMessages) /\ <<[type |-> "subscribe"]>> \in Seq(UpMessages)
  BY DEF UpMessages
<1>3. /\ up' \in [Connections -> Seq(UpMessages)]
      /\ down' \in [Connections -> Seq(DownMessages)]
  BY <1>2, TakeDownType DEF OnAuthResult
<1> QED
  BY <1>1, <1>3 DEF OnAuthResult, TypeOK, gateway_vars, wallet_vars

LEMMA OnSubscribedType ==
  ASSUME TypeOK, NEW c \in Connections, OnSubscribed(c)
  PROVE  TypeOK'
<1>1. /\ UpMessages' = UpMessages /\ SignedAnswers' = SignedAnswers
      /\ SignedQuotes' = SignedQuotes /\ DownMessages' = DownMessages
  BY SameSigned, SameReports DEF OnSubscribed, gateway_vars, wallet_vars
<1>2. <<>> \in Seq(UpMessages)
  BY DEF UpMessages
<1>3. /\ up' \in [Connections -> Seq(UpMessages)]
      /\ down' \in [Connections -> Seq(DownMessages)]
  BY <1>2, TakeDownType DEF OnSubscribed
<1> QED
  BY <1>1, <1>3 DEF OnSubscribed, TypeOK, gateway_vars, wallet_vars

LEMMA IgnoreRfqType ==
  ASSUME TypeOK, NEW c \in Connections, IgnoreRfq(c)
  PROVE  TypeOK'
<1>1. /\ UpMessages' = UpMessages /\ SignedAnswers' = SignedAnswers
      /\ SignedQuotes' = SignedQuotes /\ DownMessages' = DownMessages
  BY SameSigned, SameReports DEF IgnoreRfq, gateway_vars, wallet_vars
<1>2. <<>> \in Seq(UpMessages)
  BY DEF UpMessages
<1>3. /\ up' \in [Connections -> Seq(UpMessages)]
      /\ down' \in [Connections -> Seq(DownMessages)]
  BY <1>2, TakeDownType DEF IgnoreRfq
<1> QED
  BY <1>1, <1>3 DEF IgnoreRfq, TypeOK, gateway_vars, wallet_vars

LEMMA SendAuthResponseType ==
  ASSUME TypeOK, NEW c \in Connections, NEW job \in jobs, SendAuthResponse(c, job)
  PROVE  TypeOK'
<1>1. /\ UpMessages' = UpMessages /\ SignedAnswers' = SignedAnswers
      /\ SignedQuotes' = SignedQuotes /\ DownMessages' = DownMessages
  BY SameSigned, SameReports DEF SendAuthResponse, gateway_vars
<1>2. AuthResponse(Maker, job.signature) \in UpMessages
  <2>1. job.signature \in SignedAnswers
    BY DEF SendAuthResponse, TypeOK
  <2> QED
    BY <2>1 DEF UpMessages
<1>3. up' \in [Connections -> Seq(UpMessages)]
  <2>1. Append(up[c], AuthResponse(Maker, job.signature)) \in Seq(UpMessages)
    BY <1>2, AppendType DEF TypeOK
  <2> QED
    BY <2>1 DEF SendAuthResponse, TypeOK
<1> QED
  BY <1>1, <1>3 DEF SendAuthResponse, TypeOK, gateway_vars

LEMMA EditWhileSigningType ==
  ASSUME TypeOK, NEW job \in jobs, NEW odds \in OddsValues, EditWhileSigning(job, odds)
  PROVE  TypeOK'
<1>1. /\ UpMessages' = UpMessages /\ SignedAnswers' = SignedAnswers
      /\ SignedQuotes' = SignedQuotes /\ DownMessages' = DownMessages
  BY SameSigned, SameReports DEF EditWhileSigning, gateway_vars
<1>2. job \in [kind : {"quote"}, quote : Quote, signature : SignedQuotes]
  BY DEF EditWhileSigning, TypeOK
<1>3. [job EXCEPT !.quote.odds = odds] \in
        [kind : {"quote"}, quote : Quote, signature : SignedQuotes]
  <2>1. odds \in Nat
    BY SessionAssumption
  <2>2. [job.quote EXCEPT !.odds = odds] \in Quote
    BY <1>2, <2>1 DEF Quote
  <2> QED
    BY <1>2, <2>2
<1>4. edits' \in 0 .. MaxEdits
  BY SessionAssumption DEF EditWhileSigning, TypeOK
<1> QED
  BY <1>1, <1>3, <1>4 DEF EditWhileSigning, TypeOK, gateway_vars

LEMMA EndSigningType ==
  ASSUME TypeOK, NEW job \in jobs, EndSigning(job)
  PROVE  TypeOK'
<1>1. /\ UpMessages' = UpMessages /\ SignedAnswers' = SignedAnswers
      /\ SignedQuotes' = SignedQuotes /\ DownMessages' = DownMessages
  BY SameSigned, SameReports DEF EndSigning, gateway_vars
<1>2. job.quote \in Quote /\ job.signature \in SignedQuotes
  BY DEF EndSigning, TypeOK
<1>3. quotes' \subseteq [quote : Quote, signature : SignedQuotes]
  BY <1>2 DEF EndSigning, TypeOK
<1> QED
  BY <1>1, <1>3 DEF EndSigning, TypeOK, gateway_vars

LEMMA EditSignedType ==
  ASSUME TypeOK, NEW signed \in quotes, NEW odds \in OddsValues, NEW max_fill \in Fills,
         EditSigned(signed, odds, max_fill)
  PROVE  TypeOK'
<1>1. /\ UpMessages' = UpMessages /\ SignedAnswers' = SignedAnswers
      /\ SignedQuotes' = SignedQuotes /\ DownMessages' = DownMessages
  BY SameSigned, SameReports DEF EditSigned, gateway_vars
<1>2. [signed EXCEPT !.quote.odds = odds, !.quote.max_fill = max_fill] \in
        [quote : Quote, signature : SignedQuotes]
  <2>1. odds \in Nat /\ signed \in [quote : Quote, signature : SignedQuotes]
    BY SessionAssumption DEF TypeOK
  <2>2. [signed.quote EXCEPT !.odds = odds, !.max_fill = max_fill] \in Quote
    BY <2>1 DEF Quote
  <2>3. [signed EXCEPT !.quote.odds = odds, !.quote.max_fill = max_fill] =
          [signed EXCEPT !.quote = [signed.quote EXCEPT !.odds = odds, !.max_fill = max_fill]]
    BY <2>1 DEF Quote
  <2> QED
    BY <2>1, <2>2, <2>3
<1>3. edits' \in 0 .. MaxEdits
  BY SessionAssumption DEF EditSigned, TypeOK
<1> QED
  BY <1>1, <1>2, <1>3 DEF EditSigned, TypeOK, gateway_vars

LEMMA SendQuoteType ==
  ASSUME TypeOK, NEW c \in Connections, NEW signed \in quotes, SendQuote(c, signed)
  PROVE  TypeOK'
<1>1. /\ UpMessages' = UpMessages /\ SignedAnswers' = SignedAnswers
      /\ SignedQuotes' = SignedQuotes /\ DownMessages' = DownMessages
  BY SameSigned, SameReports DEF SendQuote, gateway_vars, wallet_vars
<1>2. EncodeQuote(signed.quote, signed.signature) \in Seq(UpMessages)
  BY EncodedType DEF TypeOK
<1>3. up' \in [Connections -> Seq(UpMessages)]
  <2>1. up[c] \o EncodeQuote(signed.quote, signed.signature) \in Seq(UpMessages)
    BY <1>2 DEF TypeOK
  <2> QED
    BY <2>1 DEF SendQuote, TypeOK
<1>4. sends' \in 0 .. MaxSends
  BY SessionAssumption DEF SendQuote, TypeOK
<1> QED
  BY <1>1, <1>3, <1>4 DEF SendQuote, TypeOK, gateway_vars, wallet_vars

\* What a report says of a quote, and under which id.
LEMMA ReportFields ==
  ASSUME TypeOK, NEW m \in DownMessages, m.type \in {"quote_ack", "quote_result"},
         m.client_quote_id # <<>>
  PROVE  /\ m.client_quote_id[1] \in AllIds \ {NilId}
         /\ m.type = "quote_result" =>
              /\ m.status \in Terminal
              /\ \E n \in DOMAIN taken : /\ taken[n].quote.client_quote_id = m.client_quote_id[1]
                                       /\ taken[n].status = m.status
<1>1. CASE m.type = "quote_ack"
  <2>1. PICK q \in Offers : m.client_quote_id = ClientQuoteId(q)
    BY <1>1, DownFields, AckFields
  <2>2. q.client_quote_id \in AllIds
    BY DEF Offers
  <2> QED
    BY <1>1, <2>1, <2>2 DEF ClientQuoteId
<1>2. CASE m.type = "quote_result"
  <2>1. m \in Results
    BY <1>2, DownFields
  <2>2. PICK n \in DOMAIN taken : /\ taken[n].status \in Terminal
                                 /\ m = QuoteResult(taken[n].quote, n, taken[n].status)
    BY <2>1 DEF Results
  <2>3. taken[n].quote \in Offers
    BY TakenItem
  <2>4. /\ m.client_quote_id = ClientQuoteId(taken[n].quote) /\ m.status = taken[n].status
        /\ taken[n].quote.client_quote_id \in AllIds
    BY <2>2, <2>3 DEF QuoteResult, Offers
  <2> QED
    BY <2>2, <2>4 DEF ClientQuoteId
<1> QED
  BY <1>1, <1>2

LEMMA OnReportType ==
  ASSUME TypeOK, NEW c \in Connections, OnReport(c)
  PROVE  TypeOK'
<1> DEFINE m == Head(down[c])
<1>1. /\ UpMessages' = UpMessages /\ SignedAnswers' = SignedAnswers
      /\ SignedQuotes' = SignedQuotes /\ DownMessages' = DownMessages
  BY SameSigned, SameReports DEF OnReport, gateway_vars, wallet_vars
<1>2. <<>> \in Seq(UpMessages)
  OBVIOUS
<1>3. /\ up' \in [Connections -> Seq(UpMessages)]
      /\ down' \in [Connections -> Seq(DownMessages)]
  BY <1>2, TakeDownType DEF OnReport
<1>4. m \in DownMessages /\ m.type \in {"quote_ack", "quote_result"}
  BY NextDown DEF OnReport
<1>5. book' \in [AllIds -> {"none", "accepted", "refused"} \cup Terminal]
  <2>1. CASE m.client_quote_id = <<>>
    BY <2>1 DEF OnReport, TypeOK
  <2>2. CASE m.client_quote_id # <<>>
    BY <1>4, <2>2, ReportFields DEF OnReport, TypeOK
  <2> QED
    BY <2>1, <2>2
<1> QED
  BY <1>1, <1>3, <1>5 DEF OnReport, TypeOK, gateway_vars, wallet_vars

-----------------------------------------------------------------------------
(* Type correctness *)

LEMMA NextType ==
  TypeOK /\ [Next]_vars => TypeOK'
<1> SUFFICES ASSUME TypeOK, [Next]_vars  PROVE TypeOK'
  OBVIOUS
<1>1. CASE GatewayStep
  BY <1>1, SendChallengeType, CheckAuthResponseType, AcceptSubscriptionType, CollectType,
     SettleType DEF GatewayStep
<1>2. CASE MakerStep
  BY <1>2, RefuseChallengeType, AnswerChallengeType, OnAuthResultType, OnSubscribedType,
     IgnoreRfqType, OnReportType, SendAuthResponseType, EndSigningType DEF MakerStep
<1>3. CASE Choices
  BY <1>3, ConnectType, DropType, BroadcastType, QuoteRfqType, EditWhileSigningType,
     EditSignedType, SendQuoteType DEF Choices
<1>4. CASE UNCHANGED vars
  <2>1. /\ UpMessages' = UpMessages /\ SignedAnswers' = SignedAnswers
        /\ SignedQuotes' = SignedQuotes /\ DownMessages' = DownMessages
    BY <1>4, SameSigned, SameReports DEF vars
  <2> QED
    BY <1>4, <2>1 DEF vars, TypeOK
<1> QED
  BY <1>1, <1>2, <1>3, <1>4 DEF Next

\* In every session, whatever breaks and whatever is assigned, the maker signs
\* nothing that it did not mean to, and what it sends can be decoded.
THEOREM TypeCorrect == Spec => []TypeOK
<1> QED
  BY InitType, NextType, PTL DEF Spec

\* What the choices of the environment and the maker leave alone.
LEMMA ChoicesKeep ==
  ASSUME Choices
  PROVE  /\ taken' = taken /\ meant \subseteq meant' /\ answered' = answered
         /\ \/ gateway' = gateway
            \/ \E c \in Connections : Drop(c)
<1> DEFINE Keep == /\ taken' = taken /\ meant \subseteq meant' /\ answered' = answered
                   /\ \/ gateway' = gateway
                      \/ \E c \in Connections : Drop(c)
<1>1. ASSUME NEW c \in Connections, Connect(c) \/ Drop(c)  PROVE Keep
  BY <1>1 DEF Connect, Drop, wallet_vars, gateway_vars
<1>2. ASSUME NEW r \in Requests, Broadcast(r)  PROVE Keep
  BY <1>2 DEF Broadcast, wallet_vars
<1>3. ASSUME NEW c \in Connections, NEW odds \in OddsValues, NEW max_fill \in Fills,
             NEW id \in AllIds, QuoteRfq(c, odds, max_fill, id)
      PROVE  Keep
  <2>1. /\ meant' = meant \cup {NewQuote(Head(down[c]).request, odds, max_fill, id)}
        /\ UNCHANGED <<answered, gateway_vars>>
    BY <1>3 DEF QuoteRfq
  <2> QED
    BY <2>1 DEF gateway_vars
<1>4. ASSUME NEW job \in jobs, NEW odds \in OddsValues, EditWhileSigning(job, odds)
      PROVE  Keep
  BY <1>4 DEF EditWhileSigning, gateway_vars
<1>5. ASSUME NEW signed \in quotes, NEW odds \in OddsValues, NEW max_fill \in Fills,
             EditSigned(signed, odds, max_fill)
      PROVE  Keep
  BY <1>5 DEF EditSigned, gateway_vars
<1>6. ASSUME NEW c \in Connections, NEW signed \in quotes, SendQuote(c, signed)
      PROVE  Keep
  BY <1>6 DEF SendQuote, gateway_vars, wallet_vars
<1> QED
  BY <1>1, <1>2, <1>3, <1>4, <1>5, <1>6 DEF Choices

-----------------------------------------------------------------------------
(* Authentication *)

LEMMA AnsweredStep ==
  TypeOK /\ AuthenticatedWasAnswered /\ [Next]_vars => AuthenticatedWasAnswered'
<1> SUFFICES ASSUME TypeOK, AuthenticatedWasAnswered, [Next]_vars
             PROVE  AuthenticatedWasAnswered'
  OBVIOUS
<1> USE DEF AuthenticatedWasAnswered
<1>1. ASSUME NEW c \in Connections, NEW id \in Challenges, NEW timestamp \in Timestamps,
             SendChallenge(c, id, timestamp)
      PROVE  AuthenticatedWasAnswered'
  BY <1>1 DEF SendChallenge, wallet_vars, TypeOK
<1>2. ASSUME NEW c \in Connections, CheckAuthResponse(c)
      PROVE  AuthenticatedWasAnswered'
  <2> DEFINE m == Head(up[c])
             challenge == gateway[c].challenge
             good == /\ gateway[c].phase = "challenged"
                     /\ m.signature =
                          Signature(m.wallet, AuthMessage(m.wallet, challenge[1], challenge[2]))
             phase == IF gateway[c].phase # "challenged" THEN gateway[c].phase
                      ELSE IF good THEN "authenticated" ELSE "refused"
  <2>1. /\ gateway' = [gateway EXCEPT ![c].phase = phase]
        /\ answered' = answered
    BY <1>2 DEF CheckAuthResponse, wallet_vars
  <2>2. m.signature \in SignedAnswers
    BY <1>2, NextUp, UpFields DEF CheckAuthResponse
  <2>3. good => challenge[1] \in answered
    <3>1. PICK id \in answered, timestamp \in Timestamps :
            m.signature = Signature(Maker, AuthMessage(Maker, id, timestamp))
      BY <2>2 DEF SignedAnswers
    <3> QED
      BY <3>1, AnswersDiffer
  <2>4. phase \in {"authenticated", "subscribed"} => challenge[1] \in answered
    BY <2>3
  <2>5. /\ gateway \in [Connections -> Sessions]
        /\ gateway'[c].phase = phase /\ gateway'[c].challenge = challenge
        /\ \A d \in Connections \ {c} : gateway'[d] = gateway[d]
    BY <2>1 DEF TypeOK, Sessions
  <2> HIDE DEF phase, challenge
  <2> QED
    BY <2>1, <2>4, <2>5 DEF challenge
<1>3. ASSUME NEW c \in Connections, AcceptSubscription(c)
      PROVE  AuthenticatedWasAnswered'
  <2>1. /\ gateway \in [Connections -> Sessions]
        /\ gateway'[c].challenge = gateway[c].challenge
        /\ \A d \in Connections \ {c} : gateway'[d] = gateway[d]
    BY <1>3 DEF AcceptSubscription, TypeOK, Sessions
  <2> QED
    BY <1>3, <2>1 DEF AcceptSubscription, wallet_vars
<1>4. ASSUME NEW c \in Connections, Drop(c)
      PROVE  AuthenticatedWasAnswered'
  <2>1. /\ gateway \in [Connections -> Sessions]
        /\ gateway'[c].phase = "closed"
        /\ \A d \in Connections \ {c} : gateway'[d] = gateway[d]
    BY <1>4 DEF Drop, TypeOK, Sessions
  <2> QED
    BY <1>4, <2>1 DEF Drop, wallet_vars
<1>5. CASE gateway' = gateway /\ answered \subseteq answered'
  BY <1>5
<1>6. CASE GatewayStep
  BY <1>1, <1>2, <1>3, <1>5, <1>6 DEF GatewayStep, Collect, Settle, wallet_vars
<1>7. CASE MakerStep
  BY <1>5, <1>7 DEF MakerStep, RefuseChallenge, AnswerChallenge, OnAuthResult, OnSubscribed,
     IgnoreRfq, OnReport, SendAuthResponse, EndSigning, wallet_vars, gateway_vars
<1>8. CASE Choices
  BY <1>4, <1>5, <1>8, ChoicesKeep
<1>9. CASE UNCHANGED vars
  BY <1>5, <1>9 DEF vars
<1> QED
  BY <1>6, <1>7, <1>8, <1>9 DEF Next

\* A late answer opens no other session: on any connection, only an answer to
\* the challenge of that connection authenticates.
THEOREM LateAnswersAreWorthless == Spec => []AuthenticatedWasAnswered
<1>1. Init => AuthenticatedWasAnswered
  BY DEF Init, NoSession, AuthenticatedWasAnswered
<1> QED
  BY <1>1, AnsweredStep, TypeCorrect, PTL DEF Spec

-----------------------------------------------------------------------------
(* Quotes *)

LEMMA MeantStep ==
  TypeOK /\ CollectedWasMeant /\ [Next]_vars => CollectedWasMeant'
<1> SUFFICES ASSUME TypeOK, CollectedWasMeant, [Next]_vars
             PROVE  CollectedWasMeant'
  OBVIOUS
<1> USE DEF CollectedWasMeant
<1>1. ASSUME NEW c \in Connections, NEW accepted \in BOOLEAN, Collect(c, accepted)
      PROVE  CollectedWasMeant'
  <2> DEFINE m == Head(up[c])
  <2>1. m.quote \in Offers /\ m.signature \in SignedQuotes
    BY <1>1, NextUp, UpFields DEF Collect
  <2>2. PICK q \in meant : m.signature = Signature(Maker, SignedData(q))
    BY <2>1 DEF SignedQuotes
  <2>3. q \in Offers
    BY DEF TypeOK
  <2>4. accepted => m.quote \in meant
    BY <1>1, <2>1, <2>2, <2>3, SignedDataInjective DEF Collect, VerifyQuote
  <2>5. meant' = meant
    BY <1>1 DEF Collect, wallet_vars
  <2> DEFINE Item == [connection : Connections, quote : Offers, status : {"open"} \cup Terminal]
             new == [connection |-> c, quote |-> m.quote, status |-> "open"]
  <2>6. taken \in Seq(Item)
    BY DEF TypeOK
  <2>7. taken' = IF accepted THEN Append(taken, new) ELSE taken
    BY <1>1 DEF Collect
  <2>8. CASE accepted
    <3>1. new.quote \in meant
      BY <2>4, <2>8
    <3> HIDE DEF Item, new
    <3>2. /\ DOMAIN taken' = DOMAIN taken \cup {Len(taken) + 1}
          /\ taken'[Len(taken) + 1] = new
          /\ \A n \in DOMAIN taken : taken'[n] = taken[n]
      BY <2>6, <2>7, <2>8
    <3> QED
      BY <2>5, <3>1, <3>2
  <2>9. CASE ~accepted
    BY <2>5, <2>7, <2>9
  <2> QED
    BY <2>8, <2>9
<1>2. ASSUME NEW n \in DOMAIN taken, NEW status \in Terminal, Settle(n, status)
      PROVE  CollectedWasMeant'
  <2>1. /\ DOMAIN taken' = DOMAIN taken
        /\ \A k \in DOMAIN taken : taken'[k].quote = taken[k].quote
    BY <1>2, TakenItem DEF Settle
  <2> QED
    BY <1>2, <2>1 DEF Settle, wallet_vars
<1>3. CASE taken' = taken /\ meant \subseteq meant'
  BY <1>3
<1>4. CASE GatewayStep
  BY <1>1, <1>2, <1>3, <1>4 DEF GatewayStep, SendChallenge, CheckAuthResponse,
     AcceptSubscription, wallet_vars
<1>5. CASE MakerStep
  BY <1>3, <1>5 DEF MakerStep, RefuseChallenge, AnswerChallenge, OnAuthResult, OnSubscribed,
     IgnoreRfq, OnReport, SendAuthResponse, EndSigning, wallet_vars, gateway_vars
<1>6. CASE Choices
  BY <1>3, <1>6, ChoicesKeep
<1>7. CASE UNCHANGED vars
  BY <1>3, <1>7 DEF vars
<1> QED
  BY <1>4, <1>5, <1>6, <1>7 DEF Next

\* No quote is collected but as the maker meant it when it asked to sign: an
\* assignment during or after signing makes a quote that is refused.
THEOREM OnlyMeantQuotesCount == Spec => []CollectedWasMeant
<1>1. Init => CollectedWasMeant
  BY DEF Init, CollectedWasMeant
<1> QED
  BY <1>1, MeantStep, TypeCorrect, PTL DEF Spec

-----------------------------------------------------------------------------
(* Reports *)

\* The ids of the quotes that were meant are told apart, and terminal statuses
\* in the book are statuses of quotes that were collected.
ReportsInv ==
  /\ \A p, q \in meant :
       p.client_quote_id = q.client_quote_id /\ p.client_quote_id # NilId => p = q
  /\ \A id \in AllIds : book[id] \in Terminal =>
       \E n \in DOMAIN taken : /\ taken[n].quote.client_quote_id = id
                             /\ taken[n].status = book[id]
  /\ book[NilId] = "none"

LEMMA ReportsStep ==
  TypeOK /\ ReportsInv /\ [Next]_vars => ReportsInv'
<1> SUFFICES ASSUME TypeOK, ReportsInv, [Next]_vars  PROVE ReportsInv'
  OBVIOUS
<1> USE DEF ReportsInv
<1>1. ASSUME NEW c \in Connections, NEW accepted \in BOOLEAN, Collect(c, accepted)
      PROVE  ReportsInv'
  <2>1. \A n \in DOMAIN taken : n \in DOMAIN taken' /\ taken'[n] = taken[n]
    BY <1>1, CollectKeeps
  <2> QED
    BY <1>1, <2>1 DEF Collect, wallet_vars
<1>2. ASSUME NEW n \in DOMAIN taken, NEW status \in Terminal, Settle(n, status)
      PROVE  ReportsInv'
  <2>1. \A k \in DOMAIN taken : taken[k].status \in Terminal =>
          k \in DOMAIN taken' /\ taken'[k] = taken[k]
    BY <1>2, TakenItem DEF Settle, Terminal
  <2>2. book' = book /\ meant' = meant
    BY <1>2 DEF Settle, wallet_vars
  <2>3. \A id \in AllIds : book[id] \in Terminal =>
          \E k \in DOMAIN taken' : /\ taken'[k].quote.client_quote_id = id
                                 /\ taken'[k].status = book[id]
    BY <2>1
  <2> QED
    BY <2>2, <2>3
<1>3. ASSUME NEW c \in Connections, OnReport(c)
      PROVE  ReportsInv'
  <2> DEFINE m == Head(down[c])
             status == IF m.type = "quote_result" THEN m.status
                       ELSE IF m.accepted THEN "accepted" ELSE "refused"
  <2>1. m \in DownMessages /\ m.type \in {"quote_ack", "quote_result"}
    BY <1>3, NextDown DEF OnReport
  <2>2. /\ meant' = meant /\ taken' = taken
        /\ book' = IF m.client_quote_id = <<>> THEN book
                   ELSE [book EXCEPT ![m.client_quote_id[1]] = status]
    BY <1>3 DEF OnReport, wallet_vars, gateway_vars
  <2>3. CASE m.client_quote_id = <<>>
    BY <2>2, <2>3
  <2>4. CASE m.client_quote_id # <<>>
    <3> DEFINE name == m.client_quote_id[1]
    <3>1. /\ name \in AllIds \ {NilId}
          /\ m.type = "quote_result" =>
               \E n \in DOMAIN taken : /\ taken[n].quote.client_quote_id = name
                                     /\ taken[n].status = m.status
      BY <2>1, <2>4, ReportFields
    <3>2. /\ book'[name] = status
          /\ \A id \in AllIds \ {name} : book'[id] = book[id]
      BY <2>2, <2>4, <3>1 DEF TypeOK
    <3>3. status \in Terminal => m.type = "quote_result" /\ status = m.status
      BY DEF Terminal
    <3>4. NilId \in AllIds
      BY DEF AllIds
    <3> HIDE DEF name, status
    <3> QED
      BY <2>2, <3>1, <3>2, <3>3, <3>4
  <2> QED
    BY <2>3, <2>4
<1>4. ASSUME NEW c \in Connections, NEW odds \in OddsValues, NEW max_fill \in Fills,
             NEW id \in AllIds, QuoteRfq(c, odds, max_fill, id)
      PROVE  ReportsInv'
  <2> DEFINE quote == NewQuote(Head(down[c]).request, odds, max_fill, id)
  <2>1. /\ meant' = meant \cup {quote} /\ quote.client_quote_id = id
        /\ book' = book /\ taken' = taken
        /\ id # NilId => \A q \in meant : q.client_quote_id # id
    BY <1>4 DEF QuoteRfq, NewQuote, gateway_vars
  <2> HIDE DEF quote
  <2> QED
    BY <2>1
<1>5. CASE UNCHANGED <<meant, book, taken>>
  BY <1>5
<1>6. CASE GatewayStep
  BY <1>1, <1>2, <1>5, <1>6 DEF GatewayStep, SendChallenge, CheckAuthResponse,
     AcceptSubscription, wallet_vars
<1>7. CASE MakerStep
  BY <1>3, <1>5, <1>7 DEF MakerStep, RefuseChallenge, AnswerChallenge, OnAuthResult, OnSubscribed,
     IgnoreRfq, SendAuthResponse, EndSigning, wallet_vars, gateway_vars
<1>8. CASE Choices
  BY <1>4, <1>5, <1>8 DEF Choices, Connect, Drop, Broadcast, EditWhileSigning, EditSigned,
     SendQuote, wallet_vars, gateway_vars
<1>9. CASE UNCHANGED vars
  BY <1>5, <1>9 DEF vars
<1> QED
  BY <1>6, <1>7, <1>8, <1>9 DEF Next

\* However acknowledgements and results of many quotes are mixed, what is noted
\* under an id is the fate of the one quote that was given that id.
THEOREM ReportsAreAboutOneQuote == Spec => []ReportsNameOneQuote
<1>1. Init => ReportsInv
  BY DEF Init, ReportsInv, Terminal, AllIds
<1>2. CollectedWasMeant /\ ReportsInv => ReportsNameOneQuote
  <2> SUFFICES ASSUME CollectedWasMeant, ReportsInv, NEW id \in AllIds
               PROVE  LET named == {n \in DOMAIN taken : taken[n].quote.client_quote_id = id}
                      IN  /\ book[id] \in Terminal => \E n \in named : taken[n].status = book[id]
                          /\ book[id] # "none" =>
                               \A m, n \in named : taken[m].quote = taken[n].quote
    BY DEF ReportsNameOneQuote
  <2> DEFINE named == {n \in DOMAIN taken : taken[n].quote.client_quote_id = id}
  <2>1. book[id] \in Terminal => \E n \in named : taken[n].status = book[id]
    BY DEF ReportsInv
  <2>2. ASSUME book[id] # "none", NEW m \in named, NEW n \in named
        PROVE  taken[m].quote = taken[n].quote
    <3>1. id # NilId
      BY <2>2 DEF ReportsInv
    <3>2. taken[m].quote \in meant /\ taken[n].quote \in meant
      BY DEF CollectedWasMeant
    <3> QED
      BY <3>1, <3>2 DEF ReportsInv
  <2> QED
    BY <2>1, <2>2
<1> QED
  BY <1>1, <1>2, ReportsStep, OnlyMeantQuotesCount, TypeCorrect, PTL DEF Spec
-----------------------------------------------------------------------------
(* Accepted quotes are not forgotten *)

\* Reports that accept the quote of this name, or tell its fate.
IsAck(m, id) == m.type = "quote_ack" /\ m.accepted /\ m.client_quote_id = <<id>>
IsResult(m, id) == m.type = "quote_result" /\ m.client_quote_id = <<id>>

\* A quote of this name that came on this connection is not settled yet.
Owing(items, c, id) ==
  \E n \in DOMAIN items : /\ items[n].quote.client_quote_id = id
                          /\ items[n].status = "open"
                          /\ items[n].connection = c

HasResult(channel, id) == \E i \in DOMAIN channel : IsResult(channel[i], id)

\* What follows each acceptance in a channel, or will.
Followed(channel, items, c) ==
  \A i \in DOMAIN channel, id \in QuoteIds :
    IsAck(channel[i], id) =>
      \/ Owing(items, c, id)
      \/ \E j \in DOMAIN channel : j > i /\ IsResult(channel[j], id)

\* The strengthening: an acceptance on its way is followed by the result, or the
\* quote is still to be settled; nothing is on its way where nothing is open.
AcksAreFollowed == \A c \in Connections : Followed(down[c], taken, c)

SilentUnlessOpen ==
  \A c \in Connections :
    ~IsOpen(c) => down[c] = <<>> /\ gateway[c].phase \in {"new", "closed"}

OwedInv == SilentUnlessOpen /\ AcksAreFollowed /\ AcceptedIsStillOwed

LEMMA NothingFollows ==
  ASSUME NEW items, NEW c
  PROVE  Followed(<<>>, items, c)
BY DEF Followed

\* The head of a channel is handled.
LEMMA FollowedTail ==
  ASSUME NEW S, NEW s \in Seq(S), s # <<>>, NEW items, NEW c, Followed(s, items, c)
  PROVE  Followed(Tail(s), items, c)
<1> DEFINE t == Tail(s)
<1>1. /\ DOMAIN t = 1 .. Len(s) - 1 /\ DOMAIN s = 1 .. Len(s) /\ Len(s) \in Nat
      /\ \A i \in DOMAIN t : i + 1 \in DOMAIN s /\ t[i] = s[i + 1]
      /\ \A j \in DOMAIN s : j > 1 => j - 1 \in DOMAIN t /\ t[j - 1] = s[j]
  OBVIOUS
<1> SUFFICES ASSUME NEW i \in DOMAIN t, NEW id \in QuoteIds, IsAck(t[i], id),
                    ~Owing(items, c, id)
             PROVE  \E j \in DOMAIN t : j > i /\ IsResult(t[j], id)
  BY DEF Followed
<1> HIDE DEF t
<1>2. i + 1 \in DOMAIN s /\ IsAck(s[i + 1], id)
  BY <1>1
<1>3. PICK j \in DOMAIN s : j > i + 1 /\ IsResult(s[j], id)
  BY <1>2 DEF Followed
<1>4. i \in Nat \ {0} /\ j \in Nat
  BY <1>1
<1>5. j - 1 \in DOMAIN t /\ j - 1 > i /\ IsResult(t[j - 1], id)
  BY <1>1, <1>3, <1>4
<1> QED
  BY <1>5

\* A message is sent that accepts nothing, or accepts what is owed.
LEMMA FollowedAppend ==
  ASSUME NEW S, NEW s \in Seq(S), NEW e, NEW items, NEW c, Followed(s, items, c),
         \A id \in QuoteIds : IsAck(e, id) => Owing(items, c, id)
  PROVE  Followed(Append(s, e), items, c)
<1> DEFINE t == Append(s, e)
<1>1. /\ DOMAIN t = DOMAIN s \cup {Len(s) + 1}
      /\ \A i \in DOMAIN s : t[i] = s[i]
      /\ t[Len(s) + 1] = e
  OBVIOUS
<1> HIDE DEF t
<1>2. Followed(t, items, c)
  BY <1>1 DEF Followed
<1> QED
  BY <1>2 DEF t

\* What is owed is only settled by a result that is sent.
LEMMA FollowedChange ==
  ASSUME NEW s, NEW items, NEW items2, NEW c, Followed(s, items, c),
         \A id \in QuoteIds : Owing(items, c, id) => Owing(items2, c, id)
  PROVE  Followed(s, items2, c)
BY DEF Followed

LEMMA FollowedResult ==
  ASSUME NEW S, NEW s \in Seq(S), NEW e, NEW items, NEW items2, NEW c, Followed(s, items, c),
         \A id \in QuoteIds :
           ~IsAck(e, id) /\ (Owing(items, c, id) => Owing(items2, c, id) \/ IsResult(e, id))
  PROVE  Followed(Append(s, e), items2, c)
<1> DEFINE t == Append(s, e)
<1>1. /\ DOMAIN t = DOMAIN s \cup {Len(s) + 1}
      /\ DOMAIN s = 1 .. Len(s) /\ Len(s) \in Nat
      /\ \A i \in DOMAIN s : t[i] = s[i]
      /\ t[Len(s) + 1] = e
  OBVIOUS
<1> HIDE DEF t
<1>2. \A i \in DOMAIN s : Len(s) + 1 > i
  BY <1>1
<1>3. Followed(t, items2, c)
  <2> SUFFICES ASSUME NEW i \in DOMAIN t, NEW id \in QuoteIds, IsAck(t[i], id),
                      ~Owing(items2, c, id)
               PROVE  \E j \in DOMAIN t : j > i /\ IsResult(t[j], id)
    BY DEF Followed
  <2>1. i \in DOMAIN s /\ IsAck(s[i], id)
    BY <1>1
  <2>2. CASE Owing(items, c, id)
    BY <1>1, <1>2, <2>1, <2>2
  <2>3. CASE ~Owing(items, c, id)
    <3>1. PICK j \in DOMAIN s : j > i /\ IsResult(s[j], id)
      BY <2>1, <2>3 DEF Followed
    <3> QED
      BY <1>1, <3>1
  <2> QED
    BY <2>2, <2>3
<1> QED
  BY <1>3 DEF t

\* A result stays in its channel until it is handled.
LEMMA ResultStays ==
  ASSUME NEW S, NEW s \in Seq(S), NEW id, HasResult(s, id)
  PROVE  /\ \A e : HasResult(Append(s, e), id)
         /\ s # <<>> /\ (~IsResult(Head(s), id) => HasResult(Tail(s), id))
<1>1. PICK i \in DOMAIN s : IsResult(s[i], id)
  BY DEF HasResult
<1>2. ASSUME NEW e  PROVE HasResult(Append(s, e), id)
  <2>1. i \in DOMAIN Append(s, e) /\ Append(s, e)[i] = s[i]
    OBVIOUS
  <2> QED
    BY <1>1, <2>1 DEF HasResult
<1>3. s # <<>>
  OBVIOUS
<1>4. ASSUME ~IsResult(Head(s), id)  PROVE HasResult(Tail(s), id)
  <2>1. i # 1
    BY <1>1, <1>4
  <2>2. i - 1 \in DOMAIN Tail(s) /\ Tail(s)[i - 1] = s[i]
    BY <2>1
  <2> QED
    BY <1>1, <2>2 DEF HasResult
<1> QED
  BY <1>2, <1>3, <1>4

\* Most steps send, or handle, no report.
QuietChannel(s, t) ==
  \/ t = s
  \/ \E e : t = Append(s, e) /\ e.type \notin {"quote_ack", "quote_result"}
  \/ s # <<>> /\ t = Tail(s) /\ Head(s).type \notin {"quote_ack", "quote_result"}

QuietStep ==
  /\ UNCHANGED <<taken, book>>
  /\ \A c \in Connections : /\ link[c] \in {"open", "closed"} => link'[c] = link[c]
                            /\ QuietChannel(down[c], down'[c])

LEMMA TakeUpIsQuiet ==
  ASSUME TypeOK, NEW c \in Connections, NEW reply, TakeUp(c, reply),
         reply.type \notin {"quote_ack", "quote_result"}
  PROVE  \A d \in Connections : QuietChannel(down[d], down'[d])
BY DEF TakeUp, QuietChannel, TypeOK

LEMMA TakeDownIsQuiet ==
  ASSUME TypeOK, NEW c \in Connections, NEW replies, TakeDown(c, replies),
         NEW type, NextIs(down, c, type), type \notin {"quote_ack", "quote_result"}
  PROVE  \A d \in Connections : QuietChannel(down[d], down'[d])
BY DEF TakeDown, NextIs, QuietChannel, TypeOK

LEMMA QuietSteps ==
  ASSUME TypeOK, [Next]_vars,
         \A c \in Connections : ~Drop(c) /\ ~OnReport(c),
         \A c \in Connections, accepted \in BOOLEAN : ~Collect(c, accepted),
         \A n \in DOMAIN taken, status \in Terminal : ~Settle(n, status)
  PROVE  QuietStep
<1>1. CASE GatewayStep
  <2>1. ASSUME NEW c \in Connections, NEW id \in Challenges, NEW timestamp \in Timestamps,
               SendChallenge(c, id, timestamp)
        PROVE  QuietStep
    BY <2>1, TakeUpIsQuiet DEF SendChallenge, QuietStep, wallet_vars
  <2>2. ASSUME NEW c \in Connections, CheckAuthResponse(c)  PROVE QuietStep
    <3>1. PICK good : TakeUp(c, [type |-> "auth_result", success |-> good])
      BY <2>2 DEF CheckAuthResponse
    <3> QED
      BY <2>2, <3>1, TakeUpIsQuiet DEF CheckAuthResponse, QuietStep, wallet_vars
  <2>3. ASSUME NEW c \in Connections, AcceptSubscription(c)  PROVE QuietStep
    BY <2>3, TakeUpIsQuiet DEF AcceptSubscription, QuietStep, wallet_vars
  <2> QED
    BY <1>1, <2>1, <2>2, <2>3 DEF GatewayStep
<1>2. CASE MakerStep
  <2>1. ASSUME NEW c \in Connections, RefuseChallenge(c)  PROVE QuietStep
    BY <2>1, TakeDownIsQuiet DEF RefuseChallenge, QuietStep, gateway_vars
  <2>2. ASSUME NEW c \in Connections, AnswerChallenge(c)  PROVE QuietStep
    <3>1. PICK replies : TakeDown(c, replies)
      BY <2>2 DEF AnswerChallenge
    <3> QED
      BY <2>2, <3>1, TakeDownIsQuiet DEF AnswerChallenge, QuietStep, gateway_vars
  <2>3. ASSUME NEW c \in Connections, OnAuthResult(c)  PROVE QuietStep
    <3>1. PICK replies : TakeDown(c, replies)
      BY <2>3 DEF OnAuthResult
    <3> QED
      BY <2>3, <3>1, TakeDownIsQuiet DEF OnAuthResult, QuietStep, gateway_vars
  <2>4. ASSUME NEW c \in Connections, OnSubscribed(c) \/ IgnoreRfq(c)  PROVE QuietStep
    BY <2>4, TakeDownIsQuiet DEF OnSubscribed, IgnoreRfq, QuietStep, gateway_vars
  <2>5. ASSUME NEW c \in Connections, NEW job \in jobs, SendAuthResponse(c, job)
        PROVE  QuietStep
    BY <2>5 DEF SendAuthResponse, QuietStep, QuietChannel, gateway_vars
  <2>6. ASSUME NEW job \in jobs, EndSigning(job)  PROVE QuietStep
    BY <2>6 DEF EndSigning, QuietStep, QuietChannel, gateway_vars
  <2> QED
    BY <1>2, <2>1, <2>2, <2>3, <2>4, <2>5, <2>6 DEF MakerStep
<1>3. CASE Choices
  <2>1. ASSUME NEW c \in Connections, Connect(c)  PROVE QuietStep
    BY <2>1 DEF Connect, QuietStep, QuietChannel, gateway_vars, TypeOK
  <2>2. ASSUME NEW r \in Requests, Broadcast(r)  PROVE QuietStep
    BY <2>2 DEF Broadcast, QuietStep, QuietChannel, wallet_vars
  <2>3. ASSUME NEW c \in Connections, NEW odds \in OddsValues, NEW max_fill \in Fills,
               NEW id \in AllIds, QuoteRfq(c, odds, max_fill, id)
        PROVE  QuietStep
    <3>1. /\ NextIs(down, c, "rfq") /\ UNCHANGED <<taken, book, link>>
          /\ TakeDown(c, <<>>) \/ UNCHANGED <<up, down>>
      BY <2>3 DEF QuoteRfq, gateway_vars
    <3>2. CASE TakeDown(c, <<>>)
      BY <3>1, <3>2, TakeDownIsQuiet DEF QuietStep
    <3>3. CASE UNCHANGED <<up, down>>
      BY <3>1, <3>3 DEF QuietStep, QuietChannel
    <3> QED
      BY <3>1, <3>2, <3>3
  <2>4. ASSUME NEW job \in jobs, NEW odds \in OddsValues, EditWhileSigning(job, odds)
        PROVE  QuietStep
    BY <2>4 DEF EditWhileSigning, QuietStep, QuietChannel, gateway_vars
  <2>5. ASSUME NEW signed \in quotes, NEW odds \in OddsValues, NEW max_fill \in Fills,
               EditSigned(signed, odds, max_fill)
        PROVE  QuietStep
    BY <2>5 DEF EditSigned, QuietStep, QuietChannel, gateway_vars
  <2>6. ASSUME NEW c \in Connections, NEW signed \in quotes, SendQuote(c, signed)
        PROVE  QuietStep
    BY <2>6 DEF SendQuote, QuietStep, QuietChannel, gateway_vars, wallet_vars
  <2> QED
    BY <1>3, <2>1, <2>2, <2>3, <2>4, <2>5, <2>6 DEF Choices
<1>4. CASE UNCHANGED vars
  BY <1>4 DEF vars, QuietStep, QuietChannel
<1> QED
  BY <1>1, <1>2, <1>3, <1>4 DEF Next

\* A message is handled and answered on a connection that is open.
LEMMA OpenStepIsSilent ==
  ASSUME SilentUnlessOpen, NEW c \in Connections, IsOpen(c), UNCHANGED link,
         \A d \in Connections \ {c} : down'[d] = down[d] /\ gateway'[d] = gateway[d]
  PROVE  SilentUnlessOpen'
BY DEF SilentUnlessOpen, IsOpen

LEMMA SilentStep ==
  TypeOK /\ SilentUnlessOpen /\ [Next]_vars => SilentUnlessOpen'
<1> SUFFICES ASSUME TypeOK, SilentUnlessOpen, [Next]_vars  PROVE SilentUnlessOpen'
  OBVIOUS
<1>1. CASE UNCHANGED <<link, down, gateway>>
  BY <1>1 DEF SilentUnlessOpen, IsOpen
<1>2. /\ down \in [Connections -> Seq(DownMessages)]
      /\ gateway \in [Connections -> Sessions]
  BY DEF TypeOK
<1>3. CASE GatewayStep
  <2>1. ASSUME NEW c \in Connections, NEW id \in Challenges, NEW timestamp \in Timestamps,
               SendChallenge(c, id, timestamp)
        PROVE  SilentUnlessOpen'
    <3>1. /\ IsOpen(c) /\ UNCHANGED link
          /\ \A d \in Connections \ {c} : down'[d] = down[d] /\ gateway'[d] = gateway[d]
      BY <1>2, <2>1 DEF SendChallenge, NextIs, TakeUp
    <3> QED
      BY <3>1, OpenStepIsSilent
  <2>2. ASSUME NEW c \in Connections, CheckAuthResponse(c)  PROVE SilentUnlessOpen'
    <3>1. PICK reply, phase : /\ TakeUp(c, reply)
                              /\ gateway' = [gateway EXCEPT ![c].phase = phase]
      BY <2>2 DEF CheckAuthResponse
    <3>2. /\ IsOpen(c) /\ UNCHANGED link
          /\ \A d \in Connections \ {c} : down'[d] = down[d] /\ gateway'[d] = gateway[d]
      BY <1>2, <2>2, <3>1 DEF CheckAuthResponse, NextIs, TakeUp
    <3> QED
      BY <3>2, OpenStepIsSilent
  <2>3. ASSUME NEW c \in Connections, AcceptSubscription(c)  PROVE SilentUnlessOpen'
    <3>1. /\ IsOpen(c) /\ UNCHANGED link
          /\ \A d \in Connections \ {c} : down'[d] = down[d] /\ gateway'[d] = gateway[d]
      BY <1>2, <2>3 DEF AcceptSubscription, NextIs, TakeUp
    <3> QED
      BY <3>1, OpenStepIsSilent
  <2>4. ASSUME NEW c \in Connections, NEW accepted \in BOOLEAN, Collect(c, accepted)
        PROVE  SilentUnlessOpen'
    <3>1. PICK reply : TakeUp(c, reply)
      BY <2>4 DEF Collect
    <3>2. /\ IsOpen(c) /\ UNCHANGED link
          /\ \A d \in Connections \ {c} : down'[d] = down[d] /\ gateway'[d] = gateway[d]
      BY <1>2, <2>4, <3>1 DEF Collect, NextIs, TakeUp
    <3> QED
      BY <3>2, OpenStepIsSilent
  <2>5. ASSUME NEW n \in DOMAIN taken, NEW status \in Terminal, Settle(n, status)
        PROVE  SilentUnlessOpen'
    <3> DEFINE c == taken[n].connection
    <3>1. c \in Connections /\ UNCHANGED <<link, gateway>>
      BY <2>5, TakenItem DEF Settle
    <3>2. CASE IsOpen(c)
      <4>1. \A d \in Connections \ {c} : down'[d] = down[d]
        BY <1>2, <2>5, <3>2 DEF Settle
      <4> QED
        BY <3>1, <3>2, <4>1, OpenStepIsSilent
    <3>3. CASE ~IsOpen(c)
      BY <1>1, <2>5, <3>1, <3>3 DEF Settle
    <3> QED
      BY <3>2, <3>3
  <2> QED
    BY <1>3, <2>1, <2>2, <2>3, <2>4, <2>5 DEF GatewayStep
<1>4. CASE MakerStep
  <2>1. ASSUME NEW c \in Connections, NEW replies, NextIs(down, c, "auth_challenge") \/
                 NextIs(down, c, "auth_result") \/ NextIs(down, c, "subscribed") \/
                 NextIs(down, c, "rfq") \/ NextIs(down, c, "quote_ack") \/
                 NextIs(down, c, "quote_result"),
               TakeDown(c, replies), UNCHANGED <<link, gateway>>
        PROVE  SilentUnlessOpen'
    <3>1. IsOpen(c) /\ \A d \in Connections \ {c} : down'[d] = down[d]
      BY <1>2, <2>1 DEF NextIs, TakeDown
    <3> QED
      BY <2>1, <3>1, OpenStepIsSilent
  <2>2. ASSUME NEW c \in Connections,
               RefuseChallenge(c) \/ OnSubscribed(c) \/ IgnoreRfq(c) \/ OnReport(c)
        PROVE  SilentUnlessOpen'
    BY <2>1, <2>2 DEF RefuseChallenge, OnSubscribed, IgnoreRfq, OnReport, gateway_vars
  <2>3. ASSUME NEW c \in Connections, AnswerChallenge(c)  PROVE SilentUnlessOpen'
    <3>1. PICK replies : TakeDown(c, replies)
      BY <2>3 DEF AnswerChallenge
    <3> QED
      BY <2>1, <2>3, <3>1 DEF AnswerChallenge, gateway_vars
  <2>4. ASSUME NEW c \in Connections, OnAuthResult(c)  PROVE SilentUnlessOpen'
    <3>1. PICK replies : TakeDown(c, replies)
      BY <2>4 DEF OnAuthResult
    <3> QED
      BY <2>1, <2>4, <3>1 DEF OnAuthResult, gateway_vars
  <2>5. ASSUME NEW job \in jobs, EndSigning(job) \/ \E c \in Connections : SendAuthResponse(c, job)
        PROVE  SilentUnlessOpen'
    BY <1>1, <2>5 DEF EndSigning, SendAuthResponse, gateway_vars
  <2> QED
    BY <1>4, <2>2, <2>3, <2>4, <2>5 DEF MakerStep
<1>5. CASE Choices
  <2>1. ASSUME NEW c \in Connections, Connect(c)  PROVE SilentUnlessOpen'
    BY <2>1 DEF Connect, SilentUnlessOpen, IsOpen, gateway_vars, TypeOK
  <2>2. ASSUME NEW c \in Connections, Drop(c)  PROVE SilentUnlessOpen'
    BY <1>2, <2>2 DEF Drop, SilentUnlessOpen, IsOpen, TypeOK, Sessions
  <2>3. ASSUME NEW r \in Requests, Broadcast(r)  PROVE SilentUnlessOpen'
    BY <1>2, <2>3 DEF Broadcast, SilentUnlessOpen, IsOpen
  <2>4. ASSUME NEW c \in Connections, NEW odds \in OddsValues, NEW max_fill \in Fills,
               NEW id \in AllIds, QuoteRfq(c, odds, max_fill, id)
        PROVE  SilentUnlessOpen'
    <3>1. /\ NextIs(down, c, "rfq") /\ UNCHANGED <<link, gateway>>
          /\ TakeDown(c, <<>>) \/ UNCHANGED <<up, down>>
      BY <2>4 DEF QuoteRfq, gateway_vars
    <3>2. IsOpen(c) /\ \A d \in Connections \ {c} : down'[d] = down[d]
      BY <1>2, <3>1 DEF NextIs, TakeDown
    <3> QED
      BY <3>1, <3>2, OpenStepIsSilent
  <2>5. ASSUME NEW job \in jobs, NEW odds \in OddsValues, EditWhileSigning(job, odds)
        PROVE  SilentUnlessOpen'
    BY <1>1, <2>5 DEF EditWhileSigning, gateway_vars
  <2>6. ASSUME NEW signed \in quotes, NEW odds \in OddsValues, NEW max_fill \in Fills,
               EditSigned(signed, odds, max_fill)
        PROVE  SilentUnlessOpen'
    BY <1>1, <2>6 DEF EditSigned, gateway_vars
  <2>7. ASSUME NEW c \in Connections, NEW signed \in quotes, SendQuote(c, signed)
        PROVE  SilentUnlessOpen'
    BY <1>1, <2>7 DEF SendQuote, gateway_vars
  <2> QED
    BY <1>5, <2>1, <2>2, <2>3, <2>4, <2>5, <2>6, <2>7 DEF Choices
<1>6. CASE UNCHANGED vars
  BY <1>1, <1>6 DEF vars
<1> QED
  BY <1>3, <1>4, <1>5, <1>6 DEF Next

\* What steps do to the quotes that were taken.
LEMMA SettleChanges ==
  ASSUME TypeOK, NEW n \in DOMAIN taken, NEW status \in Terminal, Settle(n, status)
  PROVE  /\ taken[n].connection \in Connections /\ taken[n].quote \in Offers
         /\ DOMAIN taken' = DOMAIN taken
         /\ \A k \in DOMAIN taken \ {n} : taken'[k] = taken[k]
         /\ taken'[n] = [taken[n] EXCEPT !.status = status]
         /\ taken[n].status = "open"
BY TakenItem DEF Settle, TypeOK

\* The messages about a quote say its name, if it has one.
LEMMA ReportsNameTheQuote ==
  ASSUME NEW q \in Offers, NEW id \in QuoteIds, NEW n, NEW accepted \in BOOLEAN, NEW status
  PROVE  /\ ~IsAck(QuoteResult(q, n, status), id) /\ ~IsResult(QuoteAck(q, n, accepted), id)
         /\ IsAck(QuoteAck(q, n, accepted), id) <=> accepted /\ q.client_quote_id = id
         /\ IsResult(QuoteResult(q, n, status), id) <=> q.client_quote_id = id
BY QuoteAssumption DEF IsAck, IsResult, QuoteAck, QuoteResult, ClientQuoteId

LEMMA QuietFollowed ==
  ASSUME TypeOK, AcksAreFollowed, QuietStep
  PROVE  AcksAreFollowed'
<1> SUFFICES ASSUME NEW c \in Connections  PROVE Followed(down'[c], taken', c)
  BY DEF AcksAreFollowed
<1>1. /\ down[c] \in Seq(DownMessages) /\ taken' = taken
      /\ Followed(down[c], taken, c) /\ QuietChannel(down[c], down'[c])
  BY DEF TypeOK, AcksAreFollowed, QuietStep
<1>2. CASE down'[c] = down[c]
  BY <1>1, <1>2
<1>3. ASSUME NEW e, down'[c] = Append(down[c], e), e.type \notin {"quote_ack", "quote_result"}
      PROVE  Followed(down'[c], taken', c)
  <2>1. \A id \in QuoteIds : ~IsAck(e, id)
    BY <1>3 DEF IsAck
  <2> QED
    BY <1>1, <1>3, <2>1, FollowedAppend
<1>4. CASE down[c] # <<>> /\ down'[c] = Tail(down[c])
  BY <1>1, <1>4, FollowedTail
<1> QED
  BY <1>1, <1>2, <1>3, <1>4 DEF QuietChannel

LEMMA FollowedStep ==
  TypeOK /\ SilentUnlessOpen /\ AcksAreFollowed /\ [Next]_vars => AcksAreFollowed'
<1> SUFFICES ASSUME TypeOK, SilentUnlessOpen, AcksAreFollowed, [Next]_vars
             PROVE  AcksAreFollowed'
  OBVIOUS
<1>1. \A c \in Connections : down[c] \in Seq(DownMessages) /\ Followed(down[c], taken, c)
  BY DEF TypeOK, AcksAreFollowed
<1>2. down \in [Connections -> Seq(DownMessages)]
  BY DEF TypeOK
<1>3. ASSUME NEW c \in Connections, Drop(c)  PROVE AcksAreFollowed'
  <2>1. taken' = taken /\ down' = [down EXCEPT ![c] = <<>>]
    BY <1>3 DEF Drop
  <2> QED
    BY <1>1, <1>2, <2>1, NothingFollows DEF AcksAreFollowed
<1>4. ASSUME NEW c \in Connections, OnReport(c)  PROVE AcksAreFollowed'
  <2>1. /\ taken' = taken /\ down' = [down EXCEPT ![c] = Tail(@)] /\ down[c] # <<>>
    BY <1>4 DEF OnReport, TakeDown, NextIs, gateway_vars
  <2>2. Followed(Tail(down[c]), taken, c)
    BY <1>1, <2>1, FollowedTail
  <2> QED
    BY <1>1, <1>2, <2>1, <2>2 DEF AcksAreFollowed
<1>5. ASSUME NEW c \in Connections, NEW accepted \in BOOLEAN, Collect(c, accepted)
      PROVE  AcksAreFollowed'
  <2> DEFINE m == Head(up[c])
             Item == [connection : Connections, quote : Offers, status : {"open"} \cup Terminal]
             new == [connection |-> c, quote |-> m.quote, status |-> "open"]
             number == IF accepted THEN Len(taken') ELSE 0
  <2>1. m.quote \in Offers
    BY <1>5, NextUp, UpFields DEF Collect
  <2>2. /\ taken' = IF accepted THEN Append(taken, new) ELSE taken
        /\ down' = [down EXCEPT ![c] = Append(@, QuoteAck(m.quote, number, accepted))]
    BY <1>5 DEF Collect, TakeUp
  <2>3. taken \in Seq(Item)
    BY DEF TypeOK
  <2>4. new.quote = m.quote /\ new.status = "open" /\ new.connection = c
    OBVIOUS
  <2> HIDE DEF m, Item, new, number
  <2>5. \A n \in DOMAIN taken : n \in DOMAIN taken' /\ taken'[n] = taken[n]
    BY <1>5, CollectKeeps
  <2>6. \A d \in Connections, id \in QuoteIds : Owing(taken, d, id) => Owing(taken', d, id)
    BY <2>5 DEF Owing
  <2>7. \A d \in Connections : Followed(down[d], taken', d)
    BY <1>1, <2>6, FollowedChange
  <2>8. \A id \in QuoteIds : IsAck(QuoteAck(m.quote, number, accepted), id) => Owing(taken', c, id)
    <3> SUFFICES ASSUME NEW id \in QuoteIds, IsAck(QuoteAck(m.quote, number, accepted), id)
                 PROVE  Owing(taken', c, id)
      OBVIOUS
    <3>1. accepted /\ m.quote.client_quote_id = id
      BY <2>1, ReportsNameTheQuote
    <3>2. Len(taken) + 1 \in DOMAIN taken' /\ taken'[Len(taken) + 1] = new
      BY <2>2, <2>3, <3>1
    <3> QED
      BY <2>4, <3>1, <3>2 DEF Owing
  <2>9. Followed(Append(down[c], QuoteAck(m.quote, number, accepted)), taken', c)
    BY <1>1, <2>7, <2>8, FollowedAppend
  <2> QED
    BY <1>2, <2>2, <2>7, <2>9 DEF AcksAreFollowed
<1>6. ASSUME NEW n \in DOMAIN taken, NEW status \in Terminal, Settle(n, status)
      PROVE  AcksAreFollowed'
  <2> DEFINE c == taken[n].connection
             result == QuoteResult(taken[n].quote, n, status)
  <2>1. /\ c \in Connections /\ taken[n].quote \in Offers
        /\ DOMAIN taken' = DOMAIN taken
        /\ \A k \in DOMAIN taken \ {n} : taken'[k] = taken[k]
    BY <1>6, SettleChanges
  <2>2. \A id \in QuoteIds : /\ ~IsAck(result, id)
                             /\ IsResult(result, id) <=> taken[n].quote.client_quote_id = id
    BY <2>1, ReportsNameTheQuote
  <2>3. down' = IF IsOpen(c) THEN [down EXCEPT ![c] = Append(@, result)] ELSE down
    BY <1>6 DEF Settle
  <2> HIDE DEF result
  <2>4. \A d \in Connections \ {c}, id \in QuoteIds :
          Owing(taken, d, id) => Owing(taken', d, id)
    BY <2>1 DEF Owing
  <2>5. \A id \in QuoteIds :
          Owing(taken, c, id) => Owing(taken', c, id) \/ IsResult(result, id)
    BY <2>1, <2>2 DEF Owing
  <2>6. \A d \in Connections \ {c} : Followed(down'[d], taken', d)
    <3>1. \A d \in Connections \ {c} : down'[d] = down[d]
      BY <1>2, <2>3
    <3> QED
      BY <1>1, <2>4, <3>1, FollowedChange
  <2>7. Followed(down'[c], taken', c)
    <3>1. CASE IsOpen(c)
      <4>1. Followed(Append(down[c], result), taken', c)
        BY <1>1, <2>1, <2>2, <2>5, FollowedResult
      <4> QED
        BY <1>2, <2>1, <2>3, <3>1, <4>1
    <3>2. CASE ~IsOpen(c)
      <4>1. down'[c] = <<>>
        BY <2>1, <2>3, <3>2 DEF SilentUnlessOpen
      <4> QED
        BY <4>1, NothingFollows
    <3> QED
      BY <3>1, <3>2
  <2> QED
    BY <2>6, <2>7 DEF AcksAreFollowed
<1> QED
  BY <1>3, <1>4, <1>5, <1>6, QuietSteps, QuietFollowed

\* What AcceptedIsStillOwed asks for one name.
StillOwed(id) ==
  \/ \E c \in Connections : IsOpen(c) /\ Owing(taken, c, id)
  \/ \E c \in Connections : HasResult(down[c], id)

LEMMA OwedUnfolded ==
  ASSUME TypeOK, AcceptedIsStillOwed, \A c \in Connections : link[c] # "closed",
         NEW id \in QuoteIds, book[id] = "accepted"
  PROVE  StillOwed(id)
<1>1. CASE \E n \in DOMAIN taken :
             /\ taken[n].quote.client_quote_id = id /\ taken[n].status = "open"
             /\ IsOpen(taken[n].connection)
  BY <1>1, TakenItem DEF StillOwed, Owing
<1>2. CASE \E c \in Connections : \E i \in DOMAIN down[c] :
             down[c][i].type = "quote_result" /\ down[c][i].client_quote_id = <<id>>
  BY <1>2 DEF StillOwed, HasResult, IsResult
<1> QED
  BY <1>1, <1>2 DEF AcceptedIsStillOwed

LEMMA OwedStep ==
  TypeOK /\ OwedInv /\ [Next]_vars => AcceptedIsStillOwed'
<1> SUFFICES ASSUME TypeOK, OwedInv, [Next]_vars,
                    \A c \in Connections : link'[c] # "closed",
                    NEW id \in QuoteIds, book'[id] = "accepted"
             PROVE  \/ \E c \in Connections : IsOpen(c)' /\ Owing(taken', c, id)
                    \/ \E c \in Connections : HasResult(down'[c], id)
  BY DEF AcceptedIsStillOwed, Owing, HasResult, IsResult
<1> DEFINE Goal == \/ \E c \in Connections : IsOpen(c)' /\ Owing(taken', c, id)
                   \/ \E c \in Connections : HasResult(down'[c], id)
<1>1. /\ down \in [Connections -> Seq(DownMessages)]
      /\ \A c \in Connections : down[c] \in Seq(DownMessages)
      /\ AcceptedIsStillOwed /\ AcksAreFollowed
  BY DEF TypeOK, OwedInv
<1>2. ASSUME QuietStep  PROVE Goal
  <2>1. \A c \in Connections : link[c] # "closed"
    BY <1>2 DEF QuietStep
  <2>2. book' = book /\ taken' = taken
    BY <1>2 DEF QuietStep
  <2>3. StillOwed(id)
    BY <1>1, <2>1, <2>2, OwedUnfolded
  <2>4. ASSUME NEW c \in Connections, IsOpen(c), Owing(taken, c, id)  PROVE Goal
    BY <1>2, <2>2, <2>4 DEF QuietStep, IsOpen
  <2>5. ASSUME NEW c \in Connections, HasResult(down[c], id)  PROVE Goal
    <3>1. QuietChannel(down[c], down'[c]) /\ down[c] \in Seq(DownMessages)
      BY <1>1, <1>2 DEF QuietStep
    <3>2. HasResult(down'[c], id)
      <4>1. CASE down'[c] = down[c]
        BY <2>5, <4>1
      <4>2. CASE \E e : down'[c] = Append(down[c], e)
        BY <2>5, <3>1, <4>2, ResultStays
      <4>3. CASE /\ down'[c] = Tail(down[c])
                 /\ Head(down[c]).type \notin {"quote_ack", "quote_result"}
        <5>1. ~IsResult(Head(down[c]), id)
          BY <4>3 DEF IsResult
        <5> QED
          BY <2>5, <3>1, <4>3, <5>1, ResultStays
      <4> QED
        BY <3>1, <4>1, <4>2, <4>3 DEF QuietChannel
    <3> QED
      BY <3>2
  <2> QED
    BY <2>3, <2>4, <2>5 DEF StillOwed
<1>3. ASSUME NEW c \in Connections, Drop(c)  PROVE Goal
  <2>1. link'[c] = "closed"
    BY <1>3 DEF Drop, TypeOK
  <2> QED
    BY <2>1
<1>4. ASSUME NEW c \in Connections, OnReport(c)  PROVE Goal
  <2> DEFINE m == Head(down[c])
             status == IF m.type = "quote_result" THEN m.status
                       ELSE IF m.accepted THEN "accepted" ELSE "refused"
  <2>1. /\ UNCHANGED <<link, taken>> /\ IsOpen(c) /\ down[c] # <<>>
        /\ down' = [down EXCEPT ![c] = Tail(@)]
        /\ book' = IF m.client_quote_id = <<>> THEN book
                   ELSE [book EXCEPT ![m.client_quote_id[1]] = status]
        /\ m \in DownMessages /\ m.type \in {"quote_ack", "quote_result"}
    BY <1>4, NextDown DEF OnReport, TakeDown, NextIs, gateway_vars
  <2>2. m.type = "quote_result" => m.status \in Terminal
    BY <2>1, DownFields DEF Results, QuoteResult
  <2>3. \/ m.client_quote_id = <<>>
        \/ m.client_quote_id = <<m.client_quote_id[1]>>
    BY <2>1, DownFields, TakenItem DEF Acks, Results, QuoteAck, QuoteResult, ClientQuoteId
  <2>4. CASE m.client_quote_id = <<id>>
    <3>1. m.client_quote_id[1] = id /\ m.client_quote_id # <<>>
      <4>1. \A name : name = <<id>> => name[1] = id /\ name # <<>>
        OBVIOUS
      <4> HIDE DEF m
      <4> QED
        BY <2>4, <4>1
    <3>2. status = "accepted"
      BY <2>1, <3>1 DEF TypeOK, AllIds
    <3>3. IsAck(m, id)
      BY <2>1, <2>2, <2>4, <3>2 DEF IsAck, Terminal
    <3>4. 1 \in DOMAIN down[c] /\ down[c][1] = m
      BY <1>1, <2>1
    <3>5. \/ Owing(taken, c, id)
          \/ \E j \in DOMAIN down[c] : j > 1 /\ IsResult(down[c][j], id)
      BY <1>1, <3>3, <3>4 DEF AcksAreFollowed, Followed
    <3>6. CASE Owing(taken, c, id)
      BY <2>1, <3>6 DEF IsOpen
    <3>7. ASSUME NEW j \in DOMAIN down[c], j > 1, IsResult(down[c][j], id)  PROVE Goal
      <4>1. j - 1 \in DOMAIN Tail(down[c]) /\ Tail(down[c])[j - 1] = down[c][j]
        BY <1>1, <2>1, <3>7
      <4>2. HasResult(down'[c], id)
        BY <1>1, <2>1, <3>7, <4>1 DEF HasResult
      <4> QED
        BY <4>2
    <3> QED
      BY <3>5, <3>6, <3>7
  <2>5. CASE m.client_quote_id # <<id>>
    <3>1. book[id] = "accepted"
      <4>1. CASE m.client_quote_id = <<>>
        BY <2>1, <4>1
      <4>2. CASE m.client_quote_id # <<>>
        <5>1. m.client_quote_id[1] # id
          BY <2>3, <2>5, <4>2
        <5> QED
          BY <2>1, <4>2, <5>1 DEF TypeOK, AllIds
      <4> QED
        BY <4>1, <4>2
    <3>2. StillOwed(id)
      BY <1>1, <2>1, <3>1, OwedUnfolded
    <3>3. ASSUME NEW d \in Connections, HasResult(down[d], id)  PROVE Goal
      <4>1. ~IsResult(m, id)
        BY <2>5 DEF IsResult
      <4>2. HasResult(down'[d], id)
        BY <1>1, <2>1, <3>3, <4>1, ResultStays
      <4> QED
        BY <4>2
    <3> QED
      BY <2>1, <3>2, <3>3 DEF StillOwed, IsOpen
  <2> QED
    BY <2>4, <2>5
<1>5. ASSUME NEW c \in Connections, NEW accepted \in BOOLEAN, Collect(c, accepted)
      PROVE  Goal
  <2>1. PICK reply : /\ down' = [down EXCEPT ![c] = Append(@, reply)]
                     /\ UNCHANGED <<link, book>>
    BY <1>5 DEF Collect, TakeUp, wallet_vars
  <2>2. \A n \in DOMAIN taken : n \in DOMAIN taken' /\ taken'[n] = taken[n]
    BY <1>5, CollectKeeps
  <2>3. StillOwed(id)
    BY <1>1, <2>1, OwedUnfolded
  <2>4. ASSUME NEW d \in Connections, IsOpen(d), Owing(taken, d, id)  PROVE Goal
    BY <2>1, <2>2, <2>4 DEF Owing, IsOpen
  <2>5. ASSUME NEW d \in Connections, HasResult(down[d], id)  PROVE Goal
    <3>1. HasResult(down'[d], id)
      BY <1>1, <2>1, <2>5, ResultStays
    <3> QED
      BY <3>1
  <2> QED
    BY <2>3, <2>4, <2>5 DEF StillOwed
<1>6. ASSUME NEW n \in DOMAIN taken, NEW status \in Terminal, Settle(n, status)
      PROVE  Goal
  <2> DEFINE c == taken[n].connection
             result == QuoteResult(taken[n].quote, n, status)
  <2>1. /\ c \in Connections /\ taken[n].quote \in Offers
        /\ DOMAIN taken' = DOMAIN taken
        /\ \A k \in DOMAIN taken \ {n} : taken'[k] = taken[k]
    BY <1>6, SettleChanges
  <2>2. /\ down' = IF IsOpen(c) THEN [down EXCEPT ![c] = Append(@, result)] ELSE down
        /\ UNCHANGED <<link, book>>
    BY <1>6 DEF Settle
  <2>3. IsResult(result, id) <=> taken[n].quote.client_quote_id = id
    BY <2>1, ReportsNameTheQuote
  <2> HIDE DEF result
  <2>4. StillOwed(id)
    BY <1>1, <2>2, OwedUnfolded
  <2>5. ASSUME NEW d \in Connections, HasResult(down[d], id)  PROVE Goal
    <3>1. HasResult(down'[d], id)
      BY <1>1, <2>1, <2>2, <2>5, ResultStays
    <3> QED
      BY <3>1
  <2>6. ASSUME NEW d \in Connections, IsOpen(d), NEW k \in DOMAIN taken,
               taken[k].quote.client_quote_id = id, taken[k].status = "open",
               taken[k].connection = d
        PROVE  Goal
    <3>1. CASE k # n
      BY <2>1, <2>2, <2>6, <3>1 DEF Owing, IsOpen
    <3>2. CASE k = n
      <4>1. IsOpen(c) /\ IsResult(result, id)
        BY <2>3, <2>6, <3>2
      <4>2. down'[c] = Append(down[c], result)
        BY <1>1, <2>1, <2>2, <4>1
      <4>3. Len(down[c]) + 1 \in DOMAIN down'[c] /\ down'[c][Len(down[c]) + 1] = result
        BY <1>1, <2>1, <4>2
      <4>4. HasResult(down'[c], id)
        BY <4>1, <4>3 DEF HasResult
      <4> QED
        BY <2>1, <4>4
    <3> QED
      BY <3>1, <3>2
  <2> QED
    BY <2>4, <2>5, <2>6 DEF StillOwed, Owing
<1> QED
  BY <1>2, <1>3, <1>4, <1>5, <1>6, QuietSteps

LEMMA OwedInvHolds == Spec => []OwedInv
<1>1. Init => OwedInv
  BY QuoteAssumption DEF Init, OwedInv, SilentUnlessOpen, AcksAreFollowed, Followed, NoSession,
     AcceptedIsStillOwed, AllIds
<1>2. TypeOK /\ OwedInv /\ [Next]_vars => OwedInv'
  BY SilentStep, FollowedStep, OwedStep DEF OwedInv
<1> QED
  BY <1>1, <1>2, TypeCorrect, PTL DEF Spec

\* The part of AcceptedIsSettled that no fairness is needed for: while no
\* connection is lost, an accepted quote of the maker is settled later or its
\* result is on its way, for any number of quotes and repeated sends.
THEOREM AcceptedIsNotForgotten == Spec => []AcceptedIsStillOwed
<1>1. OwedInv => AcceptedIsStillOwed
  BY DEF OwedInv
<1> QED
  BY <1>1, OwedInvHolds, PTL

-----------------------------------------------------------------------------
(* The book of quotes *)

\* What the book shows of the quotes that were taken.
FateOf(item) == [quote |-> item.quote, status |-> item.status]
FatesOf(items) == [n \in DOMAIN items |-> FateOf(items[n])]

LEMMA FatesAppended ==
  ASSUME NEW S, NEW s \in Seq(S), NEW e
  PROVE  FatesOf(Append(s, e)) = Append(FatesOf(s), FateOf(e))
<1> DEFINE F == {FateOf(x) : x \in S}
           f == FatesOf(s)
           t == Append(s, e)
           g == Append(f, FateOf(e))
<1>1. /\ Len(s) \in Nat /\ DOMAIN s = 1 .. Len(s) /\ \A n \in DOMAIN s : s[n] \in S
      /\ DOMAIN t = 1 .. Len(s) + 1 /\ t[Len(s) + 1] = e
      /\ \A n \in DOMAIN s : t[n] = s[n]
  OBVIOUS
<1>2. f \in [1 .. Len(s) -> F]
  BY <1>1 DEF FatesOf
<1>3. f \in Seq(F) /\ Len(f) = Len(s)
  BY <1>1, <1>2
<1>4. g = [n \in 1 .. Len(s) + 1 |-> IF n = Len(s) + 1 THEN FateOf(e) ELSE f[n]]
  <2> HIDE DEF f, F
  <2>1. /\ g \in Seq(F \cup {FateOf(e)}) /\ DOMAIN g = 1 .. Len(s) + 1
        /\ \A n \in 1 .. Len(s) + 1 : g[n] = IF n = Len(s) + 1 THEN FateOf(e) ELSE f[n]
    BY <1>1, <1>3
  <2> HIDE DEF g
  <2>2. g = [n \in DOMAIN g |-> g[n]]
    BY <2>1
  <2> QED
    BY <2>1, <2>2
<1>5. FatesOf(t) = [n \in 1 .. Len(s) + 1 |-> FateOf(t[n])]
  BY <1>1 DEF FatesOf
<1>6. \A n \in 1 .. Len(s) + 1 :
        FateOf(t[n]) = IF n = Len(s) + 1 THEN FateOf(e) ELSE f[n]
  <2> SUFFICES ASSUME NEW n \in 1 .. Len(s) + 1
               PROVE  FateOf(t[n]) = IF n = Len(s) + 1 THEN FateOf(e) ELSE f[n]
    OBVIOUS
  <2> HIDE DEF t
  <2>1. CASE n = Len(s) + 1
    BY <1>1, <2>1
  <2>2. CASE n # Len(s) + 1
    <3>1. n \in DOMAIN s
      BY <1>1, <2>2
    <3> QED
      BY <1>1, <2>2, <3>1 DEF FatesOf
  <2> QED
    BY <2>1, <2>2
<1> HIDE DEF f, t, g
<1>7. g = FatesOf(t)
  BY <1>4, <1>5, <1>6
<1> QED
  BY <1>7 DEF f, t, g

LEMMA SameBook ==
  ASSUME UNCHANGED <<meant, taken, book>>
  PROVE  UNCHANGED Book!bookVars
BY DEF Book!bookVars

LEMMA QuotingIsMeaning ==
  ASSUME NEW c \in Connections, NEW odds \in OddsValues, NEW max_fill \in Fills,
         NEW id \in AllIds, QuoteRfq(c, odds, max_fill, id)
  PROVE  Book!Mean
<1> DEFINE quote == NewQuote(Head(down[c]).request, odds, max_fill, id)
<1>1. /\ meant' = meant \cup {quote} /\ quote.client_quote_id = id
      /\ UNCHANGED <<taken, book>>
      /\ id # NilId => \A q \in meant : q.client_quote_id # id
  BY DEF QuoteRfq, NewQuote, gateway_vars
<1> HIDE DEF quote
<1> QED
  BY <1>1 DEF Book!Mean

LEMMA CollectingIsTaking ==
  ASSUME TypeOK, CollectedWasMeant', NEW c \in Connections, NEW accepted \in BOOLEAN,
         Collect(c, accepted)
  PROVE  Book!Take \/ UNCHANGED Book!bookVars
<1> DEFINE Item == [connection : Connections, quote : Offers, status : {"open"} \cup Terminal]
           new == [connection |-> c, quote |-> Head(up[c]).quote, status |-> "open"]
<1>1. /\ taken \in Seq(Item)
      /\ taken' = IF accepted THEN Append(taken, new) ELSE taken
      /\ UNCHANGED <<meant, book>>
  BY DEF Collect, TypeOK, wallet_vars
<1>2. FateOf(new) = [quote |-> new.quote, status |-> "open"]
  BY DEF FateOf
<1> HIDE DEF Item, new
<1>3. CASE accepted
  <2>1. Len(taken) + 1 \in DOMAIN taken' /\ taken'[Len(taken) + 1] = new
    BY <1>1, <1>3
  <2>2. new.quote \in meant
    BY <1>1, <2>1 DEF CollectedWasMeant
  <2>3. FatesOf(taken') = Append(FatesOf(taken), FateOf(new))
    BY <1>1, <1>3, FatesAppended
  <2> QED
    BY <1>1, <1>2, <2>2, <2>3 DEF Book!Take, FatesOf, FateOf
<1>4. CASE ~accepted
  BY <1>1, <1>4, SameBook
<1> QED
  BY <1>3, <1>4

LEMMA SettlingIsDeciding ==
  ASSUME TypeOK, NEW n \in DOMAIN taken, NEW status \in Terminal, Settle(n, status)
  PROVE  Book!Decide
<1>1. /\ DOMAIN taken' = DOMAIN taken
      /\ \A k \in DOMAIN taken \ {n} : taken'[k] = taken[k]
      /\ taken'[n] = [taken[n] EXCEPT !.status = status]
      /\ taken[n].status = "open"
  BY SettleChanges
<1>2. taken[n] \in [connection : Connections, quote : Offers, status : {"open"} \cup Terminal]
  BY TakenItem
<1>3. FateOf(taken'[n]) = [FateOf(taken[n]) EXCEPT !.status = status]
  BY <1>1, <1>2 DEF FateOf
<1>4. FatesOf(taken') = [FatesOf(taken) EXCEPT ![n].status = status]
  BY <1>1, <1>3 DEF FatesOf
<1>5. n \in DOMAIN FatesOf(taken) /\ FatesOf(taken)[n].status = "open"
  BY <1>1 DEF FatesOf, FateOf
<1>6. UNCHANGED <<meant, book>> /\ status \in Book!Fates
  BY DEF Settle, wallet_vars, Terminal, Book!Fates
<1> QED
  BY <1>4, <1>5, <1>6 DEF Book!Decide, FatesOf, FateOf

LEMMA ReportingIsLearning ==
  ASSUME TypeOK, NEW c \in Connections, OnReport(c)
  PROVE  Book!Learn \/ UNCHANGED Book!bookVars
<1> DEFINE m == Head(down[c])
           name == m.client_quote_id[1]
           status == IF m.type = "quote_result" THEN m.status
                     ELSE IF m.accepted THEN "accepted" ELSE "refused"
<1>1. /\ down[c] # <<>> /\ UNCHANGED <<meant, taken>>
      /\ book' = IF m.client_quote_id = <<>> THEN book
                 ELSE [book EXCEPT ![name] = status]
      /\ m \in DownMessages /\ m.type \in {"quote_ack", "quote_result"}
  BY NextDown DEF OnReport, NextIs, gateway_vars, wallet_vars
<1>2. CASE m.client_quote_id = <<>>
  BY <1>1, <1>2, SameBook
<1>3. CASE m.client_quote_id # <<>>
  <2>1. /\ name \in AllIds \ {NilId}
        /\ m.type = "quote_result" =>
             /\ m.status \in Terminal
             /\ \E n \in DOMAIN taken : /\ taken[n].quote.client_quote_id = name
                                        /\ taken[n].status = m.status
    BY <1>1, <1>3, ReportFields
  <2>2. status \in {"refused", "accepted"} \cup Book!Fates
    BY <1>1, <2>1 DEF Terminal, Book!Fates
  <2>3. status # "refused" =>
          \E n \in DOMAIN taken : /\ taken[n].quote.client_quote_id = name
                                  /\ status \in Book!Fates => taken[n].status = status
    <3>1. CASE m.type = "quote_result"
      BY <2>1, <3>1
    <3>2. CASE m.type = "quote_ack" /\ m.accepted
      <4>1. PICK n \in DOMAIN taken : m.client_quote_id = ClientQuoteId(taken[n].quote)
        BY <1>1, <3>2, DownFields, AckFields
      <4>2. taken[n].quote.client_quote_id = name
        BY <1>3, <2>1, <4>1 DEF ClientQuoteId
      <4> QED
        BY <3>2, <4>2 DEF Book!Fates
    <3> QED
      BY <1>1, <3>1, <3>2
  <2> DEFINE T == [n \in DOMAIN taken |-> [quote |-> taken[n].quote, status |-> taken[n].status]]
  <2>4. status # "refused" =>
          \E n \in DOMAIN T : /\ T[n].quote.client_quote_id = name
                              /\ status \in Book!Fates => T[n].status = status
    <3> HIDE DEF name, status
    <3> QED
      BY <2>3
  <2>5. UNCHANGED T /\ book' = [book EXCEPT ![name] = status] /\ meant' = meant
    BY <1>1, <1>3
  <2> HIDE DEF name, status, m
  <2>6. \E id \in AllIds \ {NilId}, told \in {"refused", "accepted"} \cup Book!Fates :
          /\ book' = [book EXCEPT ![id] = told]
          /\ told # "refused" =>
               \E n \in DOMAIN T : /\ T[n].quote.client_quote_id = id
                                   /\ told \in Book!Fates => T[n].status = told
    <3> HIDE DEF T
    <3> QED
      BY <2>1, <2>2, <2>4, <2>5
  <2> QED
    BY <2>5, <2>6, Zenon DEF Book!Learn
<1> QED
  BY <1>2, <1>3

\* On any connections, with any wallet and any assignments, sessions only take
\* the steps of the book of quotes (ws.rs, rfq.rs, mm.rs and their twins).
THEOREM SessionsKeepTheBook == Spec => KeepsTheBook
<1>1. Init => Book!BookInit
  BY DEF Init, Book!BookInit
<1>2. ASSUME TypeOK, CollectedWasMeant', [Next]_vars
      PROVE  [Book!BookNext]_(Book!bookVars)
  <2>1. ASSUME UNCHANGED <<meant, taken, book>>
        PROVE  [Book!BookNext]_(Book!bookVars)
    BY <2>1, SameBook
  <2>2. CASE GatewayStep
    BY <1>2, <2>1, <2>2, CollectingIsTaking, SettlingIsDeciding DEF GatewayStep, SendChallenge,
       CheckAuthResponse, AcceptSubscription, wallet_vars, Book!BookNext
  <2>3. CASE MakerStep
    BY <1>2, <2>1, <2>3, ReportingIsLearning DEF MakerStep, RefuseChallenge, AnswerChallenge,
       OnAuthResult, OnSubscribed, IgnoreRfq, SendAuthResponse, EndSigning, wallet_vars,
       gateway_vars, Book!BookNext
  <2>4. CASE Choices
    BY <2>1, <2>4, QuotingIsMeaning DEF Choices, Connect, Drop, Broadcast, EditWhileSigning,
       EditSigned, SendQuote, wallet_vars, gateway_vars, Book!BookNext
  <2>5. CASE UNCHANGED vars
    BY <2>1, <2>5 DEF vars
  <2> QED
    BY <1>2, <2>2, <2>3, <2>4, <2>5 DEF Next
<1> QED
  BY <1>1, <1>2, OnlyMeantQuotesCount, TypeCorrect, PTL DEF Spec, KeepsTheBook, Book!BookSpec

\* LearnedIsSo of QuoteBook, for any quotes, fates and notes.
LearnedSo(M, T, B) ==
  /\ T \in Seq([quote : M, status : {"open"} \cup Terminal])
  /\ B \in [AllIds -> {"none", "refused", "accepted"} \cup Terminal]
  /\ \A quote, other \in M :
       quote.client_quote_id = other.client_quote_id /\ quote # other =>
         quote.client_quote_id = NilId
  /\ \A id \in AllIds \ {NilId} : B[id] \in Terminal =>
       \E n \in DOMAIN T : T[n].quote.client_quote_id = id /\ T[n].status = B[id]

LEMMA MeaningStaysSo ==
  ASSUME NEW M, NEW T, NEW B, LearnedSo(M, T, B), NEW quote,
         quote.client_quote_id # NilId =>
           \A earlier \in M : earlier.client_quote_id # quote.client_quote_id
  PROVE  LearnedSo(M \cup {quote}, T, B)
<1> DEFINE Item == [quote : M, status : {"open"} \cup Terminal]
           Wider == [quote : M \cup {quote}, status : {"open"} \cup Terminal]
<1>1. T \in Seq(Item) /\ Item \subseteq Wider
  BY DEF LearnedSo
<1> HIDE DEF Item
<1>2. T \in Seq(Wider)
  <2> HIDE DEF Wider
  <2> QED
    BY <1>1
<1> QED
  BY <1>2 DEF LearnedSo

LEMMA TakingStaysSo ==
  ASSUME NEW M, NEW T, NEW B, LearnedSo(M, T, B), NEW quote \in M
  PROVE  LearnedSo(M, Append(T, [quote |-> quote, status |-> "open"]), B)
<1> DEFINE Item == [quote : M, status : {"open"} \cup Terminal]
           item == [quote |-> quote, status |-> "open"]
           new == Append(T, item)
<1>1. T \in Seq(Item) /\ item \in Item
  BY DEF LearnedSo
<1> HIDE DEF Item, item
<1>2. /\ new \in Seq(Item) /\ DOMAIN T \subseteq DOMAIN new
      /\ \A n \in DOMAIN T : new[n] = T[n]
  BY <1>1
<1> HIDE DEF new
<1> QED
  BY <1>2 DEF LearnedSo, new, Item, item

LEMMA DecidingStaysSo ==
  ASSUME NEW M, NEW T, NEW B, LearnedSo(M, T, B),
         NEW n \in DOMAIN T, NEW fate \in Terminal, T[n].status = "open"
  PROVE  LearnedSo(M, [T EXCEPT ![n].status = fate], B)
<1> DEFINE Item == [quote : M, status : {"open"} \cup Terminal]
           item == [T[n] EXCEPT !.status = fate]
           new == [T EXCEPT ![n] = item]
<1>1. T \in Seq(Item) /\ DOMAIN T = 1 .. Len(T) /\ Len(T) \in Nat
  BY DEF LearnedSo
<1>2. T[n] \in Item
  <2> HIDE DEF Item
  <2> QED
    BY <1>1
<1>3. item \in Item /\ item.status = fate
  BY <1>2
<1>4. [T EXCEPT ![n].status = fate] = new
  OBVIOUS
<1> HIDE DEF item, Item
<1>5. /\ new \in Seq(Item) /\ DOMAIN new = DOMAIN T
      /\ \A k \in DOMAIN T : k # n => new[k] = T[k]
  BY <1>1, <1>3
<1>6. "open" \notin Terminal
  BY DEF Terminal
<1> HIDE DEF new
<1>7. \A id \in AllIds \ {NilId} : B[id] \in Terminal =>
        \E k \in DOMAIN new : new[k].quote.client_quote_id = id /\ new[k].status = B[id]
  <2> SUFFICES ASSUME NEW id \in AllIds \ {NilId}, B[id] \in Terminal
               PROVE  \E k \in DOMAIN new : /\ new[k].quote.client_quote_id = id
                                            /\ new[k].status = B[id]
    OBVIOUS
  <2>1. PICK k \in DOMAIN T : T[k].quote.client_quote_id = id /\ T[k].status = B[id]
    BY DEF LearnedSo
  <2> QED
    BY <2>1, <1>5, <1>6
<1> QED
  BY <1>4, <1>5, <1>7 DEF LearnedSo, Item

\* What the book is worth: the maker is held to what it meant, and a fate that it
\* has learned under an id is the fate of its only quote with this id.  Only the
\* steps of QuoteBook are used, here and below.
THEOREM LearnedFatesAreTrue == Spec => []Book!LearnedIsSo
<1> DEFINE T == FatesOf(taken)
<1>1. Book!LearnedIsSo <=> LearnedSo(meant, T, book)
  BY DEF Book!LearnedIsSo, LearnedSo, FatesOf, FateOf, Book!Fates, Terminal
<1>2. Book!BookInit => LearnedSo(meant, T, book)
  BY DEF Book!BookInit, LearnedSo, FatesOf, FateOf, Terminal
<1>3. LearnedSo(meant, T, book) /\ [Book!BookNext]_(Book!bookVars)
        => LearnedSo(meant, T, book)'
  <2> SUFFICES ASSUME LearnedSo(meant, T, book), [Book!BookNext]_(Book!bookVars)
               PROVE  LearnedSo(meant', T', book')
    OBVIOUS
  <2>1. ASSUME Book!Mean PROVE LearnedSo(meant', T', book')
    <3>1. /\ T' = T /\ book' = book
          /\ \E quote \in meant' :
               /\ meant' = meant \cup {quote}
               /\ quote.client_quote_id # NilId =>
                    \A earlier \in meant : earlier.client_quote_id # quote.client_quote_id
      BY <2>1 DEF Book!Mean, FatesOf, FateOf
    <3> HIDE DEF T
    <3> QED
      BY <3>1, MeaningStaysSo
  <2>2. ASSUME Book!Take PROVE LearnedSo(meant', T', book')
    <3>1. /\ meant' = meant /\ book' = book
          /\ \E quote \in meant : T' = Append(T, [quote |-> quote, status |-> "open"])
      BY <2>2 DEF Book!Take, FatesOf, FateOf
    <3> HIDE DEF T
    <3> QED
      BY <3>1, TakingStaysSo
  <2>3. ASSUME Book!Decide PROVE LearnedSo(meant', T', book')
    <3>1. /\ meant' = meant /\ book' = book
          /\ \E n \in DOMAIN T, fate \in Terminal :
               T[n].status = "open" /\ T' = [T EXCEPT ![n].status = fate]
      BY <2>3 DEF Book!Decide, Book!Fates, Terminal, FatesOf, FateOf
    <3> HIDE DEF T
    <3>2. PICK n \in DOMAIN T, fate \in Terminal :
            T[n].status = "open" /\ T' = [T EXCEPT ![n].status = fate]
      BY <3>1
    <3> QED
      BY <3>1, <3>2, DecidingStaysSo
  <2>4. ASSUME Book!Learn PROVE LearnedSo(meant', T', book')
    <3>1. /\ meant' = meant /\ T' = T
          /\ \E id \in AllIds \ {NilId}, status \in {"refused", "accepted"} \cup Terminal :
               /\ book' = [book EXCEPT ![id] = status]
               /\ status \in Terminal =>
                    \E n \in DOMAIN T : /\ T[n].quote.client_quote_id = id
                                        /\ T[n].status = status
      <4> DEFINE K == [n \in DOMAIN taken |->
                         [quote |-> taken[n].quote, status |-> taken[n].status]]
      <4>1. /\ meant' = meant /\ K' = K
            /\ \E id \in AllIds \ {NilId}, status \in {"refused", "accepted"} \cup Book!Fates :
                 /\ book' = [book EXCEPT ![id] = status]
                 /\ status # "refused" =>
                      \E n \in DOMAIN K : /\ K[n].quote.client_quote_id = id
                                          /\ status \in Book!Fates => K[n].status = status
        BY <2>4, Zenon DEF Book!Learn
      <4>2. K = T /\ K' = T'
        BY DEF FatesOf, FateOf
      <4>3. Book!Fates = Terminal /\ "refused" \notin Terminal
        BY DEF Book!Fates, Terminal
      <4> HIDE DEF K, T
      <4>4. PICK id \in AllIds \ {NilId}, status \in {"refused", "accepted"} \cup Terminal :
              /\ book' = [book EXCEPT ![id] = status]
              /\ status # "refused" =>
                   \E n \in DOMAIN T : /\ T[n].quote.client_quote_id = id
                                       /\ status \in Terminal => T[n].status = status
        BY <4>1, <4>2, <4>3
      <4>5. status \in Terminal =>
              \E n \in DOMAIN T : /\ T[n].quote.client_quote_id = id
                                  /\ T[n].status = status
        BY <4>3, <4>4
      <4> QED
        BY <4>1, <4>2, <4>4, <4>5, Zenon
    <3> HIDE DEF T
    <3> QED
      BY <3>1 DEF LearnedSo
  <2>5. ASSUME UNCHANGED Book!bookVars PROVE LearnedSo(meant', T', book')
    <3>1. meant' = meant /\ T' = T /\ book' = book
      BY <2>5 DEF Book!bookVars, FatesOf, FateOf
    <3> QED
      BY <3>1
  <2> QED
    BY <2>1, <2>2, <2>3, <2>4, <2>5 DEF Book!BookNext
<1> HIDE DEF T
<1> QED
  BY <1>1, <1>2, <1>3, SessionsKeepTheBook, PTL DEF KeepsTheBook, Book!BookSpec

\* A fate that a quote has got is never another one, whatever is sent again,
\* reported late or opened anew.
THEOREM FatesStayAsTheyAre == Spec => Book!FatesAreFinal
<1> DEFINE K == [n \in DOMAIN taken |->
                   [quote |-> taken[n].quote, status |-> taken[n].status]]
           Final == \A n \in DOMAIN K : /\ n \in DOMAIN K'
                                        /\ K'[n].quote = K[n].quote
                                        /\ K[n].status # "open" => K'[n] = K[n]
<1>1. Book!LearnedIsSo /\ [Book!BookNext]_(Book!bookVars) => [Final]_(Book!bookVars)
  <2> SUFFICES ASSUME Book!LearnedIsSo, Book!BookNext PROVE Final
    OBVIOUS
  <2> DEFINE Item == [quote : meant, status : {"open"} \cup Book!Fates]
  <2>1. K \in Seq(Item)
    BY DEF Book!LearnedIsSo
  <2>2. \/ K' = K
        \/ \E quote \in meant : K' = Append(K, [quote |-> quote, status |-> "open"])
        \/ \E n \in DOMAIN K, fate \in Book!Fates :
             K[n].status = "open" /\ K' = [K EXCEPT ![n].status = fate]
    BY Zenon DEF Book!BookNext, Book!Mean, Book!Take, Book!Decide, Book!Learn
  <2> HIDE DEF K, Item
  <2>3. DOMAIN K = 1 .. Len(K) /\ Len(K) \in Nat
    BY <2>1
  <2>4. CASE K' = K
    BY <2>4
  <2>5. ASSUME NEW quote \in meant, K' = Append(K, [quote |-> quote, status |-> "open"])
        PROVE  Final
    <3>1. DOMAIN K \subseteq DOMAIN K' /\ \A n \in DOMAIN K : K'[n] = K[n]
      BY <2>1, <2>3, <2>5
    <3> QED
      BY <3>1
  <2>6. ASSUME NEW n \in DOMAIN K, NEW fate \in Book!Fates, K[n].status = "open",
               K' = [K EXCEPT ![n].status = fate]
        PROVE  Final
    <3>1. K[n] \in Item
      BY <2>1, <2>3
    <3>2. /\ DOMAIN K' = DOMAIN K /\ \A k \in DOMAIN K : k # n => K'[k] = K[k]
          /\ K'[n] = [K[n] EXCEPT !.status = fate]
      BY <2>6
    <3>3. K'[n].quote = K[n].quote
      BY <3>1, <3>2 DEF Item
    <3> QED
      BY <2>6, <3>2, <3>3
  <2> QED
    BY <2>2, <2>4, <2>5, <2>6
<1> QED
  BY <1>1, LearnedFatesAreTrue, SessionsKeepTheBook, PTL
     DEF KeepsTheBook, Book!BookSpec, Book!FatesAreFinal
=============================================================================
