---------------------------- MODULE MCReleaseGate ----------------------------
(***************************************************************************)
(* A small instance of ReleaseGate.                                        *)
(***************************************************************************)
EXTENDS ReleaseGate

CONSTANT other

\* Branch protection can be lifted, in the run about commits.
Protections == {"protection"} \X Repositories

NoChecks == [r \in Repositories |-> {}]

OneCheckEach ==
  [r \in Repositories |-> IF r = "upstream" THEN {"Protocol Export"} ELSE {"rust"}]

\* Settings of every kind can be changed, in the run about checks.
OneSettingOfEachKind ==
  Bindings \cup {<<"owners", "upstream">>, <<"environment", "downstream">>}
=============================================================================
