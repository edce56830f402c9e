--------------------------- MODULE AuthorizedOrders ---------------------------
(***************************************************************************)
(* What a wallet that signs is promised, without signatures, JSON, clocks  *)
(* or a network: what it asks for is taken on at most once, and only as    *)
(* its owner authorised.  An authorisation is an <<identity, choice>>      *)
(* pair.  For an RFQ order the identity is every field but its funding     *)
(* choice; WithdrawalLedger says what it is for a withdrawal.              *)
(***************************************************************************)
VARIABLES
  authorized,   \* the pairs that owners have authorised
  granted       \* the pairs that the system has taken on

abstractVars == <<authorized, granted>>

AbstractInit ==
  /\ authorized = {}
  /\ granted = {}

\* An owner signs for an identity and a choice.
Authorize ==
  /\ \E pair \in authorized' : authorized' = authorized \cup {pair}
  /\ UNCHANGED granted

\* The system takes on what it has not taken on before.
Grant ==
  /\ \E pair \in authorized :
       /\ \A earlier \in granted : earlier[1] # pair[1]
       /\ granted' = granted \cup {pair}
  /\ UNCHANGED authorized

AbstractNext == Authorize \/ Grant

AbstractSpec == AbstractInit /\ [][AbstractNext]_abstractVars

\* What owners rely on: nothing is taken on that they did not authorise, and
\* nothing twice.
GrantedAsAuthorized ==
  /\ granted \subseteq authorized
  /\ \A pair, other \in granted : pair[1] = other[1] => pair = other
=============================================================================
