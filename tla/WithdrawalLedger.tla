--------------------------- MODULE WithdrawalLedger ---------------------------
(***************************************************************************)
(* What withdrawals promise to the owner of a wallet, without messages,    *)
(* spellings of keys, retries, stages or answers: funds leave at most once *)
(* for one key, as the wallet authorised for this key and this server, and *)
(* what has been paid or has failed stays so.                              *)
(*                                                                         *)
(* An identity is a server, a wallet and a key; the choice that is         *)
(* authorised for it is an address and an amount.                          *)
(***************************************************************************)
EXTENDS AuthorizedOrders

VARIABLES
  paid,    \* the pairs whose funds have left
  failed   \* the pairs whose funds stay

ledgerVars == <<authorized, granted, paid, failed>>

LedgerInit ==
  /\ AbstractInit
  /\ paid = {} /\ failed = {}

\* What is granted may be paid in the same step.
GrantPayout ==
  /\ Grant
  /\ paid' \subseteq paid \cup (granted' \ granted) /\ paid \subseteq paid'
  /\ UNCHANGED failed

Settle ==
  /\ \E pair \in granted \ (paid \cup failed) :
       \/ paid' = paid \cup {pair} /\ failed' = failed
       \/ failed' = failed \cup {pair} /\ paid' = paid
  /\ UNCHANGED abstractVars

LedgerNext ==
  \/ Authorize /\ UNCHANGED <<paid, failed>>
  \/ GrantPayout
  \/ Settle

LedgerSpec == LedgerInit /\ [][LedgerNext]_ledgerVars

\* What owners rely on besides: funds leave or stay, only where that was granted,
\* and nothing that was granted, paid or given up is undone.
SettledOnce == paid \cup failed \subseteq granted /\ paid \cap failed = {}
NothingIsUndone ==
  [][granted \subseteq granted' /\ paid \subseteq paid' /\ failed \subseteq failed']_ledgerVars
=============================================================================
