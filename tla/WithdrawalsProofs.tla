-------------------------- MODULE WithdrawalsProofs --------------------------
(***************************************************************************)
(* Theorems about Withdrawals, for any accounts, servers, keys and         *)
(* amounts, and any number of signatures and requests.                     *)
(***************************************************************************)
EXTENDS Withdrawals, TLAPS

\* What a wallet signs: a withdrawal with all its terms, or a login.
Withdrawal(s) ==
  /\ s.for.domain \in Domains /\ s.for.chain \in Chains /\ s.for.terms \in Terms
  /\ s.message = MessageFor(s.for.domain, s.for.chain, s.by, s.for.terms, s.message.at)

Login(s) ==
  /\ s.for.chain = None
  /\ s.message.purpose = "authentication"

SignaturesAreMade == \A s \in signed : Withdrawal(s) \/ Login(s)

RequestsAreSigned ==
  \A r \in sent : r.at = r.signature.message.at /\ r.signature.by = r.from

\* An answer that could be a queued one has all the fields of a queued one.
AnswersAreWhole ==
  answer # None =>
    ("delivery_status" \in answer.fields => QueuedResponse \subseteq answer.fields)

\* A server has one operation for a key, however it was spelled.
OneOperationPerKey ==
  \A o, p \in ops : o.at = p.at /\ o.by = p.by /\ o.text.key = p.text.key => o = p

IInv ==
  /\ TypeOK
  /\ SignaturesAreMade /\ RequestsAreSigned
  /\ DeliveredAsSigned /\ OneOperationPerKey
  /\ AnswersAreWhole /\ ReadCompletedWasDelivered

-----------------------------------------------------------------------------
(* Messages.                                                               *)

\* A message of a withdrawal says where, how much and under which key: nothing
\* that was signed can be taken for other terms.
LEMMA MessagesAreInjective ==
  ASSUME NEW domain1, NEW chain1, NEW a1, NEW t1, NEW at1,
         NEW domain2, NEW chain2, NEW a2, NEW t2, NEW at2,
         MessageFor(domain1, chain1, a1, t1, at1) = MessageFor(domain2, chain2, a2, t2, at2)
  PROVE  /\ domain1 = domain2 /\ chain1 = chain2 /\ a1 = a2 /\ at1 = at2
         /\ t1.amount = t2.amount /\ t1.text.key = t2.text.key
         /\ Destination(a1, t1) = Destination(a2, t2)
<1> DEFINE m(domain, chain, a, t, at) == MessageFor(domain, chain, a, t, at)
<1>1. \A domain, chain, a, t, at :
        /\ m(domain, chain, a, t, at).domain = domain
        /\ m(domain, chain, a, t, at).chain = chain
        /\ m(domain, chain, a, t, at).auth = a
        /\ m(domain, chain, a, t, at).at = at
        /\ m(domain, chain, a, t, at).amount = t.amount
        /\ m(domain, chain, a, t, at).key = t.text.key
        /\ m(domain, chain, a, t, at).destination = Destination(a, t)
  BY DEF MessageFor, WithdrawMessage, Canonical
<1> HIDE DEF m
<1> QED
  BY <1>1 DEF m

LEMMA MessageType ==
  ASSUME NEW domain \in Domains, NEW chain \in Chains, NEW a \in Accounts,
         NEW terms \in Terms, NEW at \in Times
  PROVE  /\ MessageFor(domain, chain, a, terms, at) \in WithdrawMessages
         /\ MessageFor(domain, chain, a, terms, at).purpose = "withdrawal"
         /\ MessageFor(domain, chain, a, terms, at).at = at
         /\ Destination(a, terms) \in Addresses
<1>1. Destination(a, terms) \in Addresses
  BY WithdrawalsAssumption DEF Destination, Terms
<1>2. terms.amount \in Amounts /\ terms.text.key \in Keys
  BY DEF Terms, Texts
<1> QED
  BY <1>1, <1>2 DEF MessageFor, WithdrawMessage, WithdrawMessages, Canonical

-----------------------------------------------------------------------------
(* Answers.                                                                *)

LEMMA ReadAnswers ==
  ASSUME NEW a, a.code \in {200, 202},
         a.fields \subseteq Fields, Always \subseteq a.fields,
         a.code = 200 => "tx_hash" \in a.fields \/ "status" \in a.fields,
         a.code = 202 => QueuedResponse \subseteq a.fields \/ "status" \in a.fields
  PROVE  /\ Read(a) # "error"
         /\ Read(a) = "Completed" <=> (a.code = 200 /\ "tx_hash" \in a.fields)
<1>1. CASE a.code = 200
  <2>1. /\ Variants(a.code)[1] = [name |-> "Completed", needs |-> Always \cup {"tx_hash"}]
        /\ Variants(a.code)[2] = [name |-> "OperationStatus", needs |-> Always \cup {"status"}]
    BY <1>1 DEF Variants
  <2> QED
    BY <1>1, <2>1 DEF Read
<1>2. CASE a.code = 202
  <2>1. /\ Variants(a.code)[1] = [name |-> "Queued", needs |-> QueuedResponse]
        /\ Variants(a.code)[2] = [name |-> "Recovery", needs |-> Always \cup {"status"}]
    BY <1>2 DEF Variants
  <2> QED
    BY <1>2, <2>1 DEF Read
<1> QED
  BY <1>1, <1>2

\* Answers, as servers write them.
LEMMA WrittenFields ==
  ASSUME NEW optional \in SUBSET Perhaps
  PROVE  /\ UserWithdrawResponse(optional) \subseteq Fields
         /\ Always \subseteq UserWithdrawResponse(optional)
         /\ "tx_hash" \in UserWithdrawResponse(optional)
         /\ "delivery_status" \notin UserWithdrawResponse(optional)
         /\ QueuedResponse \subseteq Fields /\ Always \subseteq QueuedResponse
         /\ \A stage \in Stages :
              /\ StatusResponse(stage, optional) \subseteq Fields
              /\ Always \subseteq StatusResponse(stage, optional)
              /\ "status" \in StatusResponse(stage, optional)
              /\ "delivery_status" \notin StatusResponse(stage, optional)
              /\ "tx_hash" \in StatusResponse(stage, optional) <=> stage = "completed"
BY DEF UserWithdrawResponse, StatusResponse, QueuedResponse, Fields, Always, Perhaps, Stages

-----------------------------------------------------------------------------
(* The invariant.                                                          *)

LEMMA InitIInv == Init => IInv
BY DEF Init, IInv, TypeOK, SignaturesAreMade, RequestsAreSigned, DeliveredAsSigned,
       OneOperationPerKey, AnswersAreWhole, ReadCompletedWasDelivered

\* Signatures are added and stay.
LEMMA SigningIInv ==
  ASSUME IInv, NEW s, s \in Signature, Withdrawal(s) \/ Login(s),
         signed' = signed \cup {s}, UNCHANGED <<sent, ops, answer>>
  PROVE  IInv'
<1> USE DEF IInv
<1>1. TypeOK'
  BY DEF TypeOK
<1>2. SignaturesAreMade'
  BY DEF SignaturesAreMade, Withdrawal, Login
<1>3. DeliveredAsSigned'
  <2> SUFFICES ASSUME NEW o \in ops
               PROVE  \E z \in signed' :
                        /\ z.by = o.by
                        /\ z.for.domain = o.at.domain /\ z.for.chain = o.at.chain
                        /\ z.for.terms.amount = o.amount
                        /\ Destination(o.by, z.for.terms) = o.destination
                        /\ z.for.terms.text.key = o.text.key
    BY DEF DeliveredAsSigned
  <2> QED
    BY DEF DeliveredAsSigned
<1>4. RequestsAreSigned' /\ OneOperationPerKey' /\ AnswersAreWhole' /\ ReadCompletedWasDelivered'
  BY DEF RequestsAreSigned, OneOperationPerKey, AnswersAreWhole, ReadCompletedWasDelivered
<1> QED
  BY <1>1, <1>2, <1>3, <1>4

LEMMA SignWithdrawalIInv ==
  ASSUME IInv, NEW a \in Accounts, NEW terms \in Terms, NEW domain \in Domains,
         NEW chain \in Chains, NEW at \in Times, SignWithdrawal(a, terms, domain, chain, at)
  PROVE  IInv'
<1> DEFINE s == [by |-> a, message |-> MessageFor(domain, chain, a, terms, at),
                 for |-> Intent(domain, chain, terms)]
<1>1. signed' = signed \cup {s} /\ UNCHANGED <<sent, ops, answer>>
  BY DEF SignWithdrawal
<1>2. MessageFor(domain, chain, a, terms, at) \in WithdrawMessages
      /\ MessageFor(domain, chain, a, terms, at).at = at
  BY MessageType
<1>3. s \in Signature
  BY <1>2 DEF Signature, Intent
<1>4. Withdrawal(s)
  BY <1>2 DEF Withdrawal, Intent
<1> HIDE DEF s
<1> QED
  BY <1>1, <1>3, <1>4, SigningIInv

LEMMA SignLoginIInv ==
  ASSUME IInv, NEW a \in Accounts, NEW domain \in Domains, NEW at \in Times,
         SignLogin(a, domain, at)
  PROVE  IInv'
<1> DEFINE s == [by |-> a, message |-> AuthMessage(domain, a, at),
                 for |-> Intent(domain, None, None)]
<1>1. signed' = signed \cup {s} /\ UNCHANGED <<sent, ops, answer>>
  BY DEF SignLogin
<1>2. AuthMessage(domain, a, at) \in AuthMessages
  BY DEF AuthMessage, AuthMessages
<1>3. s \in Signature
  BY <1>2 DEF Signature, Intent
<1>4. Login(s)
  BY DEF Login, Intent, AuthMessage
<1> HIDE DEF s
<1> QED
  BY <1>1, <1>3, <1>4, SigningIInv

LEMMA SendIInv ==
  ASSUME IInv, NEW a \in Accounts, NEW terms \in Terms, NEW s \in signed, Send(a, terms, s)
  PROVE  IInv'
<1> USE DEF IInv
<1> DEFINE r == [from |-> a, terms |-> terms, signature |-> s, at |-> s.message.at]
<1>1. /\ sent' = sent \cup {r} /\ s.by = a
      /\ UNCHANGED <<signed, ops, answer>>
  BY DEF Send
<1>2. r.from \in Accounts /\ r.terms \in Terms /\ r.signature \in signed
      /\ r.at = r.signature.message.at /\ r.signature.by = r.from
  BY <1>1
<1> HIDE DEF r
<1>3. TypeOK' /\ RequestsAreSigned'
  BY <1>1, <1>2 DEF TypeOK, RequestsAreSigned
<1>4. SignaturesAreMade' /\ DeliveredAsSigned' /\ OneOperationPerKey' /\ AnswersAreWhole'
      /\ ReadCompletedWasDelivered'
  BY <1>1 DEF SignaturesAreMade, Withdrawal, Login, DeliveredAsSigned, OneOperationPerKey,
              AnswersAreWhole, ReadCompletedWasDelivered
<1> QED
  BY <1>3, <1>4

\* What an answer has to be: typed, whole, and completed only of an operation
\* that was delivered.
LEMMA ReplyIsRight ==
  ASSUME IInv, NEW o, o \in ops', ops' \subseteq Op,
         NEW code \in {200, 202}, NEW fields \in SUBSET Fields,
         NEW written \in {"Completed", "OperationStatus", "Queued", "Recovery"},
         Reply(o, code, fields, written),
         Always \subseteq fields,
         code = 200 => "tx_hash" \in fields \/ "status" \in fields,
         code = 202 => QueuedResponse \subseteq fields \/ "status" \in fields,
         "delivery_status" \in fields => QueuedResponse \subseteq fields,
         code = 200 /\ "tx_hash" \in fields => o.stage = "completed"
  PROVE  /\ answer' \in Answer \cup {None}
         /\ AnswersAreWhole' /\ ReadCompletedWasDelivered'
<1>1. answer' = [op |-> [at |-> o.at, by |-> o.by, key |-> o.text.key], code |-> code,
                 fields |-> fields, written |-> written]
  BY DEF Reply
<1>2. o.at \in Deployments /\ o.by \in Accounts /\ o.text.key \in Keys
  BY DEF Op, Texts
<1>3. answer' \in Answer
  BY <1>1, <1>2 DEF Answer
<1>4. /\ answer'.op = [at |-> o.at, by |-> o.by, key |-> o.text.key]
      /\ answer'.code = code /\ answer'.fields = fields
  BY <1>1
<1>5. /\ Read(answer') # "error"
      /\ Read(answer') = "Completed" => o.stage = "completed"
  BY <1>4, ReadAnswers
<1>6. AnswersAreWhole'
  BY <1>4 DEF AnswersAreWhole
<1>7. Status("completed") = "success"
  BY DEF Status
<1>8. ReadCompletedWasDelivered'
  BY <1>4, <1>5, <1>7 DEF ReadCompletedWasDelivered
<1> QED
  BY <1>3, <1>6, <1>8

LEMMA StatusReplyIsRight ==
  ASSUME IInv, NEW o, o \in ops', ops' \subseteq Op,
         NEW code \in {200, 202}, NEW optional \in SUBSET Perhaps,
         NEW written \in {"OperationStatus", "Recovery"},
         Reply(o, code, StatusResponse(o.stage, optional), written)
  PROVE  /\ answer' \in Answer \cup {None}
         /\ AnswersAreWhole' /\ ReadCompletedWasDelivered'
<1> DEFINE fields == StatusResponse(o.stage, optional)
<1>1. o.stage \in Stages
  BY DEF Op
<1>2. /\ fields \subseteq Fields /\ Always \subseteq fields
      /\ "status" \in fields /\ "delivery_status" \notin fields
      /\ "tx_hash" \in fields <=> o.stage = "completed"
  BY <1>1 DEF StatusResponse, Fields, Always, Perhaps, Stages
<1>3. written \in {"Completed", "OperationStatus", "Queued", "Recovery"}
  OBVIOUS
<1>4. Reply(o, code, fields, written)
  OBVIOUS
<1> HIDE DEF fields
<1> QED
  BY <1>2, <1>3, <1>4, ReplyIsRight

LEMMA AcceptIInv ==
  ASSUME IInv, NEW d \in Deployments, NEW r \in sent, NEW stage \in Stages,
         Accept(d, r, stage)
  PROVE  IInv'
<1> USE DEF IInv
<1> DEFINE o == [at |-> d, by |-> r.from, text |-> r.terms.text, stage |-> stage,
                 destination |-> Destination(r.from, r.terms), amount |-> r.terms.amount]
           s == r.signature
<1>1. /\ Authorized(d, r) /\ Existing(d, r) = {}
      /\ ops' = ops \cup {o} /\ UNCHANGED <<signed, sent>>
  BY DEF Accept
<1>2. r.from \in Accounts /\ r.terms \in Terms /\ s \in signed
  BY DEF TypeOK
<1>3. /\ o.at = d /\ o.by = r.from /\ o.text = r.terms.text /\ o.stage = stage
      /\ o.destination = Destination(r.from, r.terms) /\ o.amount = r.terms.amount
  OBVIOUS
<1>4. o \in Op
  <2>1. Destination(r.from, r.terms) \in Addresses
    BY <1>2, WithdrawalsAssumption DEF Destination, Terms
  <2> QED
    BY <1>2, <2>1 DEF Op, Terms
<1>5. ops' \subseteq Op /\ o \in ops'
  BY <1>1, <1>4 DEF TypeOK
<1>6. PICK optional \in SUBSET Perhaps :
        \/ stage = "completed" /\ Reply(o, 200, UserWithdrawResponse(optional), "Completed")
        \/ stage = "onchain_queued" /\ Reply(o, 202, QueuedResponse, "Queued")
        \/ stage \in {"processing", "held"}
             /\ Reply(o, 202, StatusResponse(stage, optional), "Recovery")
  BY Zenon DEF Accept
<1>7. DeliveredAsSigned'
  <2>1. s.by = r.from /\ s.message = MessageFor(d.domain, d.chain, r.from, r.terms, r.at)
    BY <1>1 DEF Authorized
  <2>2. s.message.purpose = "withdrawal"
    BY <2>1 DEF MessageFor, WithdrawMessage
  <2>3. Withdrawal(s)
    BY <1>2, <2>2 DEF SignaturesAreMade, Login
  <2>4. /\ s.for.domain = d.domain /\ s.for.chain = d.chain
        /\ s.for.terms.amount = r.terms.amount
        /\ Destination(s.by, s.for.terms) = Destination(r.from, r.terms)
        /\ s.for.terms.text.key = r.terms.text.key
    <3>1. MessageFor(s.for.domain, s.for.chain, s.by, s.for.terms, s.message.at)
            = MessageFor(d.domain, d.chain, r.from, r.terms, r.at)
      BY <2>1, <2>3 DEF Withdrawal
    <3> QED
      BY <3>1, MessagesAreInjective
  <2> HIDE DEF o, s
  <2> QED
    BY <1>1, <1>2, <1>3, <2>1, <2>4 DEF DeliveredAsSigned
<1> HIDE DEF o
<1>8. OneOperationPerKey'
  <2>1. \A p \in ops : ~(p.at = o.at /\ p.by = o.by /\ p.text.key = o.text.key)
    BY <1>1, <1>3 DEF Existing, Canonical
  <2> QED
    BY <1>1, <2>1 DEF OneOperationPerKey
<1>9. /\ answer' \in Answer \cup {None}
      /\ AnswersAreWhole' /\ ReadCompletedWasDelivered'
  <2>1. CASE stage = "completed" /\ Reply(o, 200, UserWithdrawResponse(optional), "Completed")
    BY <2>1, <1>3, <1>5, WrittenFields, ReplyIsRight
  <2>2. CASE stage = "onchain_queued" /\ Reply(o, 202, QueuedResponse, "Queued")
    BY <2>2, <1>5, WrittenFields, ReplyIsRight
  <2>3. CASE stage \in {"processing", "held"}
               /\ Reply(o, 202, StatusResponse(stage, optional), "Recovery")
    <3>1. Reply(o, 202, StatusResponse(o.stage, optional), "Recovery")
      BY <2>3, <1>3
    <3> QED
      BY <3>1, <1>5, StatusReplyIsRight
  <2> QED
    BY <1>6, <2>1, <2>2, <2>3
<1>10. TypeOK'
  BY <1>1, <1>5, <1>9 DEF TypeOK
<1>11. SignaturesAreMade' /\ RequestsAreSigned'
  BY <1>1 DEF SignaturesAreMade, Withdrawal, Login, RequestsAreSigned
<1> QED
  BY <1>7, <1>8, <1>9, <1>10, <1>11

LEMMA ReplayIInv ==
  ASSUME IInv, NEW d \in Deployments, NEW r \in sent, NEW optional \in SUBSET Perhaps,
         Replay(d, r, optional)
  PROVE  IInv'
<1> USE DEF IInv
<1>1. UNCHANGED <<signed, sent, ops>>
  BY DEF Replay
<1>2. PICK o \in ops :
        IF o.stage \in {"completed", "failed"}
        THEN Reply(o, 200, StatusResponse(o.stage, optional), "OperationStatus")
        ELSE Reply(o, 202, StatusResponse(o.stage, optional), "Recovery")
  BY DEF Replay, Existing
<1>3. o \in ops' /\ ops' \subseteq Op /\ o.stage \in Stages
  BY <1>1 DEF TypeOK, Op
<1>4. /\ answer' \in Answer \cup {None}
      /\ AnswersAreWhole' /\ ReadCompletedWasDelivered'
  <2>1. CASE o.stage \in {"completed", "failed"}
    <3>1. Reply(o, 200, StatusResponse(o.stage, optional), "OperationStatus")
      BY <1>2, <2>1
    <3> QED
      BY <3>1, <1>3, StatusReplyIsRight
  <2>2. CASE o.stage \notin {"completed", "failed"}
    <3>1. Reply(o, 202, StatusResponse(o.stage, optional), "Recovery")
      BY <1>2, <2>2
    <3> QED
      BY <3>1, <1>3, StatusReplyIsRight
  <2> QED
    BY <2>1, <2>2
<1>5. TypeOK'
  BY <1>1, <1>4 DEF TypeOK
<1>6. /\ SignaturesAreMade' /\ RequestsAreSigned' /\ DeliveredAsSigned' /\ OneOperationPerKey'
  BY <1>1 DEF SignaturesAreMade, Withdrawal, Login, RequestsAreSigned, DeliveredAsSigned,
              OneOperationPerKey
<1> QED
  BY <1>4, <1>5, <1>6

LEMMA ProgressIInv == ASSUME IInv, NEW o \in ops, Progress(o) PROVE IInv'
<1> USE DEF IInv
<1>1. PICK stage \in Successors(o.stage) :
        ops' = (ops \ {o}) \cup {[o EXCEPT !.stage = stage]}
  BY DEF Progress
<1> DEFINE q == [o EXCEPT !.stage = stage]
<1>2. UNCHANGED <<signed, sent, answer>> /\ ops' = (ops \ {o}) \cup {q}
  BY <1>1 DEF Progress
<1>3. o \in Op /\ stage \in Stages /\ o.stage # "completed"
  BY DEF TypeOK, Successors, Stages
<1>4. /\ q \in Op
      /\ q.at = o.at /\ q.by = o.by /\ q.text = o.text
      /\ q.destination = o.destination /\ q.amount = o.amount
  BY <1>3 DEF Op
<1> HIDE DEF q
<1>5. TypeOK'
  BY <1>2, <1>4 DEF TypeOK
<1>6. SignaturesAreMade' /\ RequestsAreSigned' /\ AnswersAreWhole'
  BY <1>2 DEF SignaturesAreMade, Withdrawal, Login, RequestsAreSigned, AnswersAreWhole
<1>7. DeliveredAsSigned'
  BY <1>2, <1>4 DEF DeliveredAsSigned
<1>8. OneOperationPerKey'
  BY <1>2, <1>4 DEF OneOperationPerKey
<1>9. ReadCompletedWasDelivered'
  <2>1. Status(o.stage) # "success"
    BY <1>3 DEF Status
  <2> QED
    BY <1>2, <2>1 DEF ReadCompletedWasDelivered
<1> QED
  BY <1>5, <1>6, <1>7, <1>8, <1>9

LEMMA NextIInv == IInv /\ [Next]_vars => IInv'
<1> SUFFICES ASSUME IInv, [Next]_vars PROVE IInv'
  OBVIOUS
<1>1. CASE Next
  BY <1>1, SignWithdrawalIInv, SignLoginIInv, SendIInv, AcceptIInv, ReplayIInv,
     ProgressIInv DEF Next
<1>2. CASE UNCHANGED vars
  BY <1>2 DEF vars, IInv, TypeOK, SignaturesAreMade, Withdrawal, Login, RequestsAreSigned,
              DeliveredAsSigned, OneOperationPerKey, AnswersAreWhole, ReadCompletedWasDelivered
<1> QED
  BY <1>1, <1>2

LEMMA Invariant == Spec => []IInv
BY InitIInv, NextIInv, PTL DEF Spec

-----------------------------------------------------------------------------
(* The theorems.                                                           *)

\* Requests, operations and answers have their types; a message names an
\* address also when the request leaves it out.
THEOREM Typed == Spec => []TypeOK
<1>1. IInv => TypeOK
  BY DEF IInv
<1> QED
  BY Invariant, <1>1, PTL

\* A server that rebuilds the message (request.rs) pays out what the wallet
\* signed for its domain and chain, and nothing else.
THEOREM DeliversAsSigned == Spec => []DeliveredAsSigned
<1>1. IInv => DeliveredAsSigned
  BY DEF IInv
<1> QED
  BY Invariant, <1>1, PTL

\* A request that means what was signed is accepted as signed, with another
\* spelling of the key and with the omitted destination named.
THEOREM UnderstandsSigned == Spec => []SignedIsUnderstood
<1>1. IInv => SignedIsUnderstood
  <2> SUFFICES ASSUME IInv, NEW d \in Deployments, NEW r \in sent,
                      r.signature.for.domain = d.domain,
                      r.signature.for.chain = d.chain,
                      r.signature.for.terms.amount = r.terms.amount,
                      r.signature.for.terms.text.key = r.terms.text.key,
                      Destination(r.from, r.signature.for.terms) = Destination(r.from, r.terms)
               PROVE  r.signature.message
                        = MessageFor(d.domain, d.chain, r.from, r.terms, r.at)
    BY DEF SignedIsUnderstood
  <2> DEFINE s == r.signature
  <2>1. s \in signed /\ s.by = r.from /\ r.at = s.message.at
    BY DEF IInv, TypeOK, RequestsAreSigned
  <2>2. d.chain \in Chains
    BY WithdrawalsAssumption
  <2>3. Withdrawal(s)
    BY <2>1, <2>2, WithdrawalsAssumption DEF IInv, SignaturesAreMade, Login
  <2>4. s.message = MessageFor(d.domain, d.chain, r.from, s.for.terms, r.at)
    BY <2>1, <2>3 DEF Withdrawal
  <2> QED
    BY <2>4 DEF MessageFor, WithdrawMessage, Canonical
<1> QED
  BY Invariant, <1>1, PTL

\* Every answer can be read, and one that is read as completed has the hash of
\* a delivery that succeeded (the untagged enums of response.rs).
THEOREM ReadsWhatWasDelivered == Spec => []ReadCompletedWasDelivered
<1>1. IInv => ReadCompletedWasDelivered
  BY DEF IInv
<1> QED
  BY Invariant, <1>1, PTL

\* The selectors of api.py find the variant that serde finds by trying.
THEOREM PythonSelectsAlike == Spec => []PythonReadsAlike
<1>1. IInv => PythonReadsAlike
  <2> SUFFICES ASSUME IInv, answer # None PROVE ReadPython(answer) = Read(answer)
    BY DEF PythonReadsAlike
  <2>1. /\ answer.code \in {200, 202}
        /\ "delivery_status" \in answer.fields => QueuedResponse \subseteq answer.fields
    BY DEF IInv, TypeOK, Answer, AnswersAreWhole
  <2>2. CASE answer.code = 200
    <3>1. /\ Variants(200)[1] = [name |-> "Completed", needs |-> Always \cup {"tx_hash"}]
          /\ Variants(200)[2] = [name |-> "OperationStatus", needs |-> Always \cup {"status"}]
          /\ Selectors(200)[1] = Always \cup {"tx_hash"}
          /\ Selectors(200)[2] = Always \cup {"status"}
      BY DEF Variants, Selectors
    <3> QED
      BY <2>2, <3>1 DEF Read, ReadPython
  <2>3. CASE answer.code = 202
    <3>1. /\ Variants(202)[1] = [name |-> "Queued", needs |-> QueuedResponse]
          /\ Variants(202)[2] = [name |-> "Recovery", needs |-> Always \cup {"status"}]
          /\ Selectors(202)[1] = Always \cup {"delivery_status"}
          /\ Selectors(202)[2] = Always \cup {"status"}
      BY DEF Variants, Selectors
    <3>2. QueuedResponse \subseteq answer.fields
            <=> Always \cup {"delivery_status"} \subseteq answer.fields
      BY <2>1 DEF QueuedResponse
    <3> QED
      BY <2>3, <3>1, <3>2 DEF Read, ReadPython
  <2> QED
    BY <2>1, <2>2, <2>3
<1> QED
  BY Invariant, <1>1, PTL
-----------------------------------------------------------------------------
(* The ledger.                                                             *)

\* The pair that a signature of a withdrawal authorises.
PairOf(s) ==
  Payout([domain |-> s.for.domain, chain |-> s.for.chain], s.by, s.for.terms.text.key,
         Destination(s.by, s.for.terms), s.for.terms.amount)

\* Nothing that the ledger shows has changed.
LEMMA SameLedger ==
  ASSUME UNCHANGED <<signed, ops>>
  PROVE  UNCHANGED Ledger!ledgerVars
BY DEF Ledger!ledgerVars, AuthorizedPayouts, Payouts

\* A signature adds what it authorises: a login nothing.
LEMMA SigningIsAuthorizing ==
  ASSUME NEW s, signed' = signed \cup {s}, UNCHANGED ops
  PROVE  [Ledger!LedgerNext]_(Ledger!ledgerVars)
<1>1. UNCHANGED <<Payouts(Stages), Payouts({"completed"}), Payouts({"failed"})>>
  BY DEF Payouts
<1>2. CASE s.for.chain = None
  <2>1. AuthorizedPayouts' = AuthorizedPayouts
    BY <1>2 DEF AuthorizedPayouts
  <2> QED
    BY <1>1, <2>1 DEF Ledger!ledgerVars
<1>3. CASE s.for.chain # None
  <2>1. AuthorizedPayouts' = AuthorizedPayouts \cup {PairOf(s)}
    BY <1>3 DEF AuthorizedPayouts, PairOf
  <2>2. Ledger!Authorize
    BY <1>1, <2>1 DEF Ledger!Authorize
  <2> QED
    BY <1>1, <2>2 DEF Ledger!LedgerNext
<1> QED
  BY <1>2, <1>3

\* A signature that was made for an operation authorises it.
LEMMA SignedForIsAuthorized ==
  ASSUME NEW o \in Op, NEW s \in signed,
         s.by = o.by,
         s.for.domain = o.at.domain, s.for.chain = o.at.chain,
         s.for.terms.amount = o.amount,
         Destination(o.by, s.for.terms) = o.destination,
         s.for.terms.text.key = o.text.key
  PROVE  PayoutOf(o) \in AuthorizedPayouts
<1>1. o.at \in [domain : Domains, chain : Chains]
  BY WithdrawalsAssumption DEF Op
<1>2. o.at = [domain |-> s.for.domain, chain |-> s.for.chain]
  BY <1>1
<1>3. s.for.chain # None
  BY <1>1, WithdrawalsAssumption
<1>4. PayoutOf(o) = PairOf(s)
  BY <1>2 DEF PayoutOf, PairOf
<1> QED
  BY <1>3, <1>4 DEF AuthorizedPayouts, PairOf

\* Operations of one identity are one operation.
LEMMA OneIdentityOneOperation ==
  ASSUME IInv, NEW o \in ops, NEW p \in ops, PayoutOf(o)[1] = PayoutOf(p)[1]
  PROVE  o = p
BY DEF IInv, OneOperationPerKey, PayoutOf, Payout

\* A first attempt is granted.
LEMMA AcceptingIsGranting ==
  ASSUME IInv, IInv', NEW d \in Deployments, NEW r \in sent, NEW stage \in Stages,
         Accept(d, r, stage)
  PROVE  [Ledger!LedgerNext]_(Ledger!ledgerVars)
<1> DEFINE o == [at |-> d, by |-> r.from, text |-> r.terms.text, stage |-> stage,
                 destination |-> Destination(r.from, r.terms), amount |-> r.terms.amount]
<1>1. /\ Existing(d, r) = {} /\ ops' = ops \cup {o} /\ UNCHANGED <<signed, sent>>
      /\ stage # "failed"
  BY DEF Accept
<1>2. o.at = d /\ o.by = r.from /\ o.text = r.terms.text /\ o.stage = stage
  OBVIOUS
<1> HIDE DEF o
<1>3. o \in Op
  BY <1>1 DEF IInv, TypeOK
<1>4. PICK s \in signed :
        /\ s.by = o.by
        /\ s.for.domain = o.at.domain /\ s.for.chain = o.at.chain
        /\ s.for.terms.amount = o.amount
        /\ Destination(o.by, s.for.terms) = o.destination
        /\ s.for.terms.text.key = o.text.key
  BY <1>1 DEF IInv, DeliveredAsSigned
<1>5. PayoutOf(o) \in AuthorizedPayouts
  BY <1>3, <1>4, SignedForIsAuthorized
<1>6. AuthorizedPayouts' = AuthorizedPayouts
  BY <1>1 DEF AuthorizedPayouts
<1>7. \A earlier \in Payouts(Stages) : earlier[1] # PayoutOf(o)[1]
  <2>1. \A p \in ops : ~(p.at = o.at /\ p.by = o.by /\ p.text.key = o.text.key)
    BY <1>1, <1>2 DEF Existing, Canonical
  <2> QED
    BY <2>1 DEF Payouts, PayoutOf, Payout
<1>8. /\ Payouts(Stages)' = Payouts(Stages) \cup {PayoutOf(o)}
      /\ Payouts({"failed"})' = Payouts({"failed"})
      /\ Payouts({"completed"})' \subseteq Payouts({"completed"}) \cup {PayoutOf(o)}
      /\ Payouts({"completed"}) \subseteq Payouts({"completed"})'
  BY <1>1, <1>2, <1>3 DEF Payouts, Op
<1>9. PayoutOf(o) \notin Payouts(Stages)
  BY <1>7
<1>10. Ledger!Grant
  BY <1>5, <1>6, <1>7, <1>8 DEF Ledger!Grant
<1>11. Ledger!GrantPayout
  BY <1>8, <1>9, <1>10 DEF Ledger!GrantPayout
<1> QED
  BY <1>11 DEF Ledger!LedgerNext

\* An operation that goes on to its end is paid or fails, and before that it is
\* neither; on the way there the ledger does not change.
LEMMA ProgressIsSettling ==
  ASSUME IInv, NEW o \in ops, Progress(o)
  PROVE  [Ledger!LedgerNext]_(Ledger!ledgerVars)
<1>1. PICK stage \in Successors(o.stage) :
        ops' = (ops \ {o}) \cup {[o EXCEPT !.stage = stage]}
  BY DEF Progress
<1> DEFINE q == [o EXCEPT !.stage = stage]
<1>2. UNCHANGED <<signed, sent, answer>> /\ ops' = (ops \ {o}) \cup {q}
  BY <1>1 DEF Progress
<1>3. o \in Op /\ o.stage \in Stages \ {"completed", "failed"} /\ stage \in Stages
  BY DEF IInv, TypeOK, Op, Successors, Stages
<1>4. q.stage = stage /\ PayoutOf(q) = PayoutOf(o)
  BY <1>3 DEF Op, PayoutOf, Payout
<1> HIDE DEF q
<1>5. AuthorizedPayouts' = AuthorizedPayouts /\ Payouts(Stages)' = Payouts(Stages)
  BY <1>2, <1>3, <1>4 DEF AuthorizedPayouts, Payouts
<1>6. \A end \in {"completed", "failed"} :
        Payouts({end})' = IF stage = end THEN Payouts({end}) \cup {PayoutOf(o)}
                          ELSE Payouts({end})
  <2> SUFFICES ASSUME NEW end \in {"completed", "failed"}
               PROVE  Payouts({end})' = IF stage = end THEN Payouts({end}) \cup {PayoutOf(o)}
                                        ELSE Payouts({end})
    OBVIOUS
  <2>1. {p \in ops : p.stage \in {end}}' =
          IF stage = end THEN {p \in ops : p.stage \in {end}} \cup {q}
          ELSE {p \in ops : p.stage \in {end}}
    BY <1>2, <1>3, <1>4
  <2> QED
    BY <1>4, <2>1 DEF Payouts
<1>7. /\ PayoutOf(o) \in Payouts(Stages)
      /\ PayoutOf(o) \notin Payouts({"completed"}) \cup Payouts({"failed"})
  <2>1. \A p \in ops : PayoutOf(p) = PayoutOf(o) => p = o
    BY OneIdentityOneOperation
  <2> QED
    BY <1>3, <2>1 DEF Payouts
<1>8. CASE stage \in {"completed", "failed"}
  <2>1. Ledger!Settle
    BY <1>5, <1>6, <1>7, <1>8 DEF Ledger!Settle, Ledger!abstractVars
  <2> QED
    BY <2>1 DEF Ledger!LedgerNext
<1>9. CASE stage \notin {"completed", "failed"}
  BY <1>5, <1>6, <1>9 DEF Ledger!ledgerVars
<1> QED
  BY <1>8, <1>9

\* Each key of a wallet is granted once by each server and as the wallet
\* authorised for that server (request.rs, with the messages of api.rs, api.ts
\* and api.py), and what was paid or has failed stays so: every step of the
\* detailed specification is one step of the ledger, or none.
THEOREM WithdrawalsKeepTheLedger == Spec => KeepsTheLedger
<1>1. Init => Ledger!LedgerInit
  BY DEF Init, Ledger!LedgerInit, Ledger!AbstractInit, AuthorizedPayouts, Payouts
<1>2. ASSUME IInv, IInv', [Next]_vars
      PROVE  [Ledger!LedgerNext]_(Ledger!ledgerVars)
  <2>1. ASSUME NEW a \in Accounts, NEW terms \in Terms, NEW domain \in Domains,
               NEW chain \in Chains, NEW at \in Times,
               SignWithdrawal(a, terms, domain, chain, at)
        PROVE  [Ledger!LedgerNext]_(Ledger!ledgerVars)
    BY <2>1, SigningIsAuthorizing DEF SignWithdrawal
  <2>2. ASSUME NEW a \in Accounts, NEW domain \in Domains, NEW at \in Times,
               SignLogin(a, domain, at)
        PROVE  [Ledger!LedgerNext]_(Ledger!ledgerVars)
    BY <2>2, SigningIsAuthorizing DEF SignLogin
  <2>3. ASSUME UNCHANGED <<signed, ops>>
        PROVE  [Ledger!LedgerNext]_(Ledger!ledgerVars)
    BY <2>3, SameLedger
  <2>4. CASE Next
    BY <1>2, <2>1, <2>2, <2>3, <2>4, AcceptingIsGranting, ProgressIsSettling
       DEF Next, Send, Replay
  <2>5. CASE UNCHANGED vars
    BY <2>3, <2>5 DEF vars
  <2> QED
    BY <1>2, <2>4, <2>5
<1> QED
  BY <1>1, <1>2, Invariant, PTL DEF Spec, KeepsTheLedger, Ledger!LedgerSpec

\* What the ledger is worth: a payout is as the wallet authorised it for its server
\* and key, another for the same key there is none, and it either leaves or stays.
\* Only the steps of WithdrawalLedger are used, here and below.
THEOREM OwnersArePaidOnce == Spec => [](Ledger!GrantedAsAuthorized /\ Ledger!SettledOnce)
<1>1. Ledger!LedgerInit => Ledger!GrantedAsAuthorized /\ Ledger!SettledOnce
  BY DEF Ledger!LedgerInit, Ledger!AbstractInit, Ledger!GrantedAsAuthorized,
         Ledger!SettledOnce
<1>2. /\ Ledger!GrantedAsAuthorized /\ Ledger!SettledOnce
      /\ [Ledger!LedgerNext]_(Ledger!ledgerVars)
      => (Ledger!GrantedAsAuthorized /\ Ledger!SettledOnce)'
  BY DEF Ledger!GrantedAsAuthorized, Ledger!SettledOnce, Ledger!LedgerNext,
         Ledger!ledgerVars, Ledger!abstractVars, Ledger!Authorize, Ledger!Grant,
         Ledger!GrantPayout, Ledger!Settle
<1> QED
  BY <1>1, <1>2, WithdrawalsKeepTheLedger, PTL DEF KeepsTheLedger, Ledger!LedgerSpec

\* No step takes back what was granted, paid or given up, however often a
\* withdrawal is asked for again and whatever its operation goes through.
THEOREM PayoutsAreFinal == Spec => Ledger!NothingIsUndone
<1>1. [Ledger!LedgerNext]_(Ledger!ledgerVars) =>
        [/\ Payouts(Stages) \subseteq Payouts(Stages)'
         /\ Payouts({"completed"}) \subseteq Payouts({"completed"})'
         /\ Payouts({"failed"}) \subseteq Payouts({"failed"})']_(Ledger!ledgerVars)
  BY DEF Ledger!LedgerNext, Ledger!ledgerVars, Ledger!abstractVars, Ledger!Authorize,
         Ledger!Grant, Ledger!GrantPayout, Ledger!Settle
<1> QED
  BY <1>1, WithdrawalsKeepTheLedger, PTL
     DEF KeepsTheLedger, Ledger!LedgerSpec, Ledger!NothingIsUndone
=============================================================================
