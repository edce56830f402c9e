--------------------------- MODULE MCWithdrawals ---------------------------
(***************************************************************************)
(* A small instance of Withdrawals.                                        *)
(***************************************************************************)
EXTENDS Withdrawals

CONSTANTS a1, other, d1, d2, c1, c2, plain, braced

\* Two servers that differ in the chain they settle on.
TwoChains == {[domain |-> d1, chain |-> c] : c \in {c1, c2}}

OneServer == {[domain |-> d1, chain |-> c1]}
=============================================================================
