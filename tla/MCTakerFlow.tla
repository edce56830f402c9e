----------------------------- MODULE MCTakerFlow -----------------------------
(***************************************************************************)
(* A small instance of TakerFlow.                                          *)
(***************************************************************************)
EXTENDS TakerFlow, TLC

CONSTANT alice

\* The decimal is as far below the odds as it can be.
MostDrift == {-4}

SaltsAreAlike == Permutations(Salts)

LegUp   == [market_id |-> 1, direction |-> 0]
LegZero == [market_id |-> 0, direction |-> 0]

Base(user, legs) ==
  [user |-> user, wager_micros |-> 5, min_odds_bps |-> 4, legs |-> legs,
   nonce |-> 1, expires_at_ms |-> 1, order_type |-> 2, shield_on |-> FALSE,
   signature |-> NoSignature]

\* Two orders that an edit of every field, or of the legs alone, turns into
\* each other or into a mixture: IOC for FOK, and other legs.  An order with
\* the legs of the second may be signed but is never heard (market id 0).
EditDrafts ==
  {Base(alice, <<LegUp>>),
   [Base(alice, <<LegZero>>) EXCEPT !.order_type = 1]}
=============================================================================
