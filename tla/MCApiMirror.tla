----------------------------- MODULE MCApiMirror -----------------------------
(***************************************************************************)
(* A small instance of ApiMirror: two names of fields, integers of two    *)
(* bits, and numbers below, in and above both ranges.                      *)
(***************************************************************************)
EXTENDS ApiMirror, TLC

CONSTANTS f, g

Symmetry == Permutations(Fields)

SmallNumbers == {-3, -1, 0, 1, 4}
=============================================================================
