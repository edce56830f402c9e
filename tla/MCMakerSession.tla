--------------------------- MODULE MCMakerSession ---------------------------
(***************************************************************************)
(* Small instances of MakerSession.                                        *)
(***************************************************************************)
EXTENDS MakerSession

Id(n, uuid, canonical, variant, version) ==
  [token |-> n, uuid |-> uuid, canonical |-> canonical, variant |-> variant, version |-> version]

\* Good ids, and one that fails each check.
AllChallenges ==
  {Id(1, TRUE, TRUE, TRUE, TRUE), Id(2, TRUE, TRUE, TRUE, TRUE),
   Id(3, FALSE, FALSE, FALSE, FALSE), Id(3, TRUE, FALSE, TRUE, TRUE),
   Id(3, TRUE, TRUE, FALSE, TRUE), Id(3, TRUE, TRUE, TRUE, FALSE)}

\* Good ids only.
GoodChallenges == {id \in AllChallenges : id.uuid /\ id.canonical /\ id.variant /\ id.version}

\* One connection is challenged once.
OneChallenge == {id \in GoodChallenges : id.token = 1}
=============================================================================
