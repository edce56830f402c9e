----------------------------- MODULE Withdrawals -----------------------------
(***************************************************************************)
(* Withdrawals that a wallet authorizes: the messages that the builders of *)
(* the three packages make, the request, and the answers that clients read *)
(* through untagged unions.                                                *)
(*                                                                         *)
(* Servers, wallets and the network are external.  A server builds the     *)
(* message of a request with the same crate, and keeps one operation for   *)
(* an idempotency key.  Requests are lost, late, repeated and out of       *)
(* order: what was sent stays in the network.                              *)
(***************************************************************************)
EXTENDS Integers, FiniteSets

CONSTANTS
  Accounts,     \* wallets of clients
  Addresses,    \* where withdrawn funds can go
  Domains, Chains,
  Deployments,  \* servers: their wallet-auth domain and settlement chain
  Amounts,
  Keys,         \* UUIDs
  Spellings,    \* of UUIDs in text, in upper or lower case, with or without braces
  None,         \* nothing
  Times,        \* when messages are signed, by the clocks of clients
  MaxSigned, MaxSent  \* bounds

ASSUME WithdrawalsAssumption ==
  /\ Accounts \subseteq Addresses /\ None \notin Addresses \cup Chains
  /\ Deployments \subseteq [domain : Domains, chain : Chains]
  /\ MaxSigned \in Nat /\ MaxSent \in Nat

VARIABLES
  signed,   \* history: what wallets have signed
  sent,     \* requests in the network
  ops,      \* the operations that servers keep
  answer    \* the last answer that a server wrote: clients read each by itself

vars == <<signed, sent, ops, answer>>

Texts == [key : Keys, spelling : Spellings]
Terms == [amount : Amounts, destination : Addresses \cup {None}, text : Texts]

-----------------------------------------------------------------------------
(* Messages *)

\* Mutant: the key is taken as it is written.
CanonicalAsIs(text) == text

\* The UUID that a text stands for.
Canonical(text) == text.key

AuthMessages == [purpose : {"authentication"}, domain : Domains, auth : Accounts, at : Times]
WithdrawMessages ==
  [purpose : {"withdrawal"}, domain : Domains, chain : Chains, auth : Accounts,
   destination : Addresses, amount : Amounts, key : Keys, at : Times]

AuthMessage(domain, auth, at) ==
  [purpose |-> "authentication", domain |-> domain, auth |-> auth, at |-> at]

\* Mutant: without the chain.
WithdrawMessageAnyChain(domain, chain, auth, destination, amount, text, at) ==
  [purpose |-> "withdrawal", domain |-> domain, chain |-> CHOOSE c \in Chains : TRUE,
   auth |-> auth, destination |-> destination, amount |-> amount,
   key |-> Canonical(text), at |-> at]

\* Mutant: without the destination.
WithdrawMessageAnywhere(domain, chain, auth, destination, amount, text, at) ==
  [purpose |-> "withdrawal", domain |-> domain, chain |-> chain, auth |-> auth,
   destination |-> CHOOSE a \in Addresses : TRUE, amount |-> amount,
   key |-> Canonical(text), at |-> at]

WithdrawMessage(domain, chain, auth, destination, amount, text, at) ==
  [purpose |-> "withdrawal", domain |-> domain, chain |-> chain, auth |-> auth,
   destination |-> destination, amount |-> amount, key |-> Canonical(text), at |-> at]

\* An omitted destination is the address of the session.
Destination(account, terms) ==
  IF terms.destination = None THEN account ELSE terms.destination

MessageFor(domain, chain, account, terms, at) ==
  WithdrawMessage(domain, chain, account, Destination(account, terms), terms.amount,
                  terms.text, at)

\* A message, and what it was signed for.
Intent(domain, chain, terms) == [domain |-> domain, chain |-> chain, terms |-> terms]
Signature ==
  [by : Accounts, message : AuthMessages \cup WithdrawMessages,
   for : [domain : Domains, chain : Chains \cup {None}, terms : Terms \cup {None}]]

-----------------------------------------------------------------------------
(* Clients *)

\* Domain and chain are configured by the client, rightly or not.
SignWithdrawal(a, terms, domain, chain, at) ==
  /\ Cardinality(signed) < MaxSigned
  /\ signed' = signed \cup
       {[by |-> a, message |-> MessageFor(domain, chain, a, terms, at),
         for |-> Intent(domain, chain, terms)]}
  /\ UNCHANGED <<sent, ops, answer>>

SignLogin(a, domain, at) ==
  /\ Cardinality(signed) < MaxSigned
  /\ signed' = signed \cup
       {[by |-> a, message |-> AuthMessage(domain, a, at),
         for |-> Intent(domain, None, None)]}
  /\ UNCHANGED <<sent, ops, answer>>

Request == [from : Accounts, terms : Terms, signature : Signature, at : Times]

\* A request, perhaps edited since it was signed, with a signature that the client has.
Send(a, terms, s) ==
  /\ s \in signed /\ s.by = a /\ Cardinality(sent) < MaxSent
  /\ sent' = sent \cup
       {[from |-> a, terms |-> terms, signature |-> s, at |-> s.message.at]}
  /\ UNCHANGED <<signed, ops, answer>>

-----------------------------------------------------------------------------
(* Answers, as they are written *)

Stages == {"processing", "held", "onchain_queued", "completed", "failed"}

Status(stage) ==
  CASE stage = "completed" -> "success"
    [] stage = "failed" -> "failed"
    [] OTHER -> "pending"

Always == {"amount_micros", "operation_id"}
Perhaps == {"withdrawal_stage", "submission_tx_hash"}

\* Only the fields that tell the variants apart; those that are None are absent.
UserWithdrawResponse(optional) == Always \cup {"tx_hash"} \cup optional

\* Mutant: the hash of any transaction, of one that failed also.
StatusResponseAnyHash(stage, optional) ==
  Always \cup {"status"} \cup optional
         \cup (IF stage \in {"completed", "failed"} THEN {"tx_hash"} ELSE {})

\* The hash is of the confirmed delivery.
StatusResponse(stage, optional) ==
  Always \cup {"status"} \cup optional
         \cup (IF stage = "completed" THEN {"tx_hash"} ELSE {})

QueuedResponse == Always \cup {"delivery_status"} \cup Perhaps

Fields == Always \cup Perhaps \cup {"tx_hash", "status", "delivery_status"}

\* An answer, and what it was written as.
Answer == [op : [at : Deployments, by : Accounts, key : Keys], code : {200, 202},
           fields : SUBSET Fields,
           written : {"Completed", "OperationStatus", "Queued", "Recovery"}]

-----------------------------------------------------------------------------
(* Answers, as they are read *)

\* The variants of WithdrawOperationResponse and AcceptedWithdrawOperationResponse,
\* in their order, with the fields that they need.
Variants(code) ==
  IF code = 200
  THEN <<[name |-> "Completed", needs |-> Always \cup {"tx_hash"}],
         [name |-> "OperationStatus", needs |-> Always \cup {"status"}]>>
  ELSE <<[name |-> "Queued", needs |-> QueuedResponse],
         [name |-> "Recovery", needs |-> Always \cup {"status"}]>>

\* Mutant: another field selects the queued variant.
SelectorsByStage(code) ==
  IF code = 200
  THEN <<Always \cup {"tx_hash"}, Always \cup {"status"}>>
  ELSE <<Always \cup {"withdrawal_stage"}, Always \cup {"status"}>>

\* The fields by which Python selects a variant.
Selectors(code) ==
  IF code = 200
  THEN <<Always \cup {"tx_hash"}, Always \cup {"status"}>>
  ELSE <<Always \cup {"delivery_status"}, Always \cup {"status"}>>

\* Rust and TypeScript try the variants in their order.
Read(a) ==
  LET v == Variants(a.code)
  IN IF v[1].needs \subseteq a.fields THEN v[1].name
     ELSE IF v[2].needs \subseteq a.fields THEN v[2].name ELSE "error"

\* Python selects a variant, whose decoder may then raise an error.
ReadPython(a) ==
  LET v == Variants(a.code)
      s == Selectors(a.code)
      decoded(i) == IF v[i].needs \subseteq a.fields THEN v[i].name ELSE "error"
  IN IF s[1] \subseteq a.fields THEN decoded(1)
     ELSE IF s[2] \subseteq a.fields THEN decoded(2) ELSE "error"

-----------------------------------------------------------------------------
(* Servers *)

Op == [at : Deployments, by : Accounts, text : Texts, destination : Addresses,
       amount : Amounts, stage : Stages]

\* The account of a request is that of its session.
Authorized(d, r) ==
  /\ r.signature.by = r.from
  /\ r.signature.message = MessageFor(d.domain, d.chain, r.from, r.terms, r.at)

Existing(d, r) ==
  {o \in ops : o.at = d /\ o.by = r.from /\ Canonical(o.text) = Canonical(r.terms.text)}

Reply(o, code, fields, written) ==
  answer' = [op |-> [at |-> o.at, by |-> o.by, key |-> o.text.key], code |-> code,
             fields |-> fields, written |-> written]

\* A first attempt is delivered at once, queued, or left to recovery.
Accept(d, r, stage) ==
  LET o == [at |-> d, by |-> r.from, text |-> r.terms.text, stage |-> stage,
            destination |-> Destination(r.from, r.terms), amount |-> r.terms.amount]
  IN /\ r \in sent /\ Authorized(d, r) /\ Existing(d, r) = {}
     /\ ops' = ops \cup {o}
     /\ \/ stage = "completed" /\ \E optional \in SUBSET Perhaps :
             Reply(o, 200, UserWithdrawResponse(optional), "Completed")
        \/ stage = "onchain_queued" /\ Reply(o, 202, QueuedResponse, "Queued")
        \/ stage \in {"processing", "held"} /\ \E optional \in SUBSET Perhaps :
             Reply(o, 202, StatusResponse(stage, optional), "Recovery")
     /\ UNCHANGED <<signed, sent>>

\* Another attempt has the status of the first.
Replay(d, r, optional) ==
  /\ r \in sent /\ Authorized(d, r)
  /\ \E o \in Existing(d, r) :
       IF o.stage \in {"completed", "failed"}
       THEN Reply(o, 200, StatusResponse(o.stage, optional), "OperationStatus")
       ELSE Reply(o, 202, StatusResponse(o.stage, optional), "Recovery")
  /\ UNCHANGED <<signed, sent, ops>>

Successors(stage) ==
  CASE stage = "processing" -> {"held", "onchain_queued", "completed", "failed"}
    [] stage = "held" -> {"processing", "failed"}
    [] stage = "onchain_queued" -> {"completed", "failed"}
    [] OTHER -> {}

Progress(o) ==
  /\ o \in ops
  /\ \E stage \in Successors(o.stage) : ops' = (ops \ {o}) \cup {[o EXCEPT !.stage = stage]}
  /\ UNCHANGED <<signed, sent, answer>>

Init ==
  /\ signed = {} /\ sent = {} /\ ops = {} /\ answer = None

Next ==
  \/ \E a \in Accounts, terms \in Terms, domain \in Domains, chain \in Chains, at \in Times :
       SignWithdrawal(a, terms, domain, chain, at)
  \/ \E a \in Accounts, domain \in Domains, at \in Times : SignLogin(a, domain, at)
  \/ \E a \in Accounts, terms \in Terms, s \in signed : Send(a, terms, s)
  \/ \E d \in Deployments, r \in sent, stage \in Stages : Accept(d, r, stage)
  \/ \E d \in Deployments, r \in sent, optional \in SUBSET Perhaps : Replay(d, r, optional)
  \/ \E o \in ops : Progress(o)

Spec == Init /\ [][Next]_vars

-----------------------------------------------------------------------------
(* Properties *)

\* Every part of the state has its type: a message names a destination also when
\* the request leaves it out.
TypeOK ==
  /\ signed \subseteq Signature
  /\ \A r \in sent : r.from \in Accounts /\ r.terms \in Terms /\ r.signature \in signed
  /\ ops \subseteq Op
  /\ answer \in Answer \cup {None}

\* A server pays out what the wallet signed for this deployment: the address, the
\* amount and the key, though the request was edited after it was signed, and a
\* signature for another domain, chain or purpose came with it.
DeliveredAsSigned ==
  \A o \in ops : \E s \in signed :
    /\ s.by = o.by
    /\ s.for.domain = o.at.domain /\ s.for.chain = o.at.chain
    /\ s.for.terms.amount = o.amount
    /\ Destination(o.by, s.for.terms) = o.destination
    /\ s.for.terms.text.key = o.text.key

\* What an account still asks for after it signed is what the server rebuilds,
\* though the request spells the key in another way, or names the session's
\* address that the signed terms left out.
SignedIsUnderstood ==
  \A d \in Deployments, r \in sent :
    LET for == r.signature.for
    IN /\ for.domain = d.domain /\ for.chain = d.chain
       /\ for.terms.amount = r.terms.amount
       /\ for.terms.text.key = r.terms.text.key
       /\ Destination(r.from, for.terms) = Destination(r.from, r.terms)
       => r.signature.message = MessageFor(d.domain, d.chain, r.from, r.terms, r.at)

\* What wallets have authorised, and what servers have made of it.
Payout(at, by, key, destination, amount) ==
  <<[at |-> at, by |-> by, key |-> key], [destination |-> destination, amount |-> amount]>>
PayoutOf(o) == Payout(o.at, o.by, o.text.key, o.destination, o.amount)
Payouts(stages) == {PayoutOf(o) : o \in {p \in ops : p.stage \in stages}}
AuthorizedPayouts ==
  {Payout([domain |-> s.for.domain, chain |-> s.for.chain], s.by, s.for.terms.text.key,
          Destination(s.by, s.for.terms), s.for.terms.amount) :
     s \in {z \in signed : z.for.chain # None}}

\* Signing, sending, editing, retrying and answering are steps of the ledger or
\* none of its steps: each key of a wallet is granted once by each server, as
\* the wallet authorised for this server, and what was paid or has failed stays
\* so.
Ledger == INSTANCE WithdrawalLedger
  WITH authorized <- AuthorizedPayouts, granted <- Payouts(Stages),
       paid <- Payouts({"completed"}), failed <- Payouts({"failed"})
KeepsTheLedger == Ledger!LedgerSpec

\* Every answer can be read, and a client that reads it as completed has the hash
\* of a delivery that was confirmed, however it was meant and whenever it is read.
ReadCompletedWasDelivered ==
  answer # None =>
    /\ Read(answer) # "error"
    /\ Read(answer) = "Completed" =>
         \E o \in ops : /\ [at |-> o.at, by |-> o.by, key |-> o.text.key] = answer.op
                       /\ Status(o.stage) = "success"

\* Python, which selects a variant by fields of its own table, reads an answer as
\* Rust and TypeScript do, which try each in turn.
PythonReadsAlike == answer # None => ReadPython(answer) = Read(answer)

\* The documentation of the answers: a replay returns a durable operation status.
\* A client reads it as one.
ReplaysAreStatuses ==
  answer # None /\ answer.written = "OperationStatus" => Read(answer) = "OperationStatus"
=============================================================================
