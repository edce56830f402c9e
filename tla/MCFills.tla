------------------------------- MODULE MCFills -------------------------------
(***************************************************************************)
(* A small instance of Fills: amounts below 12, odds up to 3.5x.           *)
(***************************************************************************)
EXTENDS Fills
=============================================================================
