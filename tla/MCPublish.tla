------------------------------ MODULE MCPublish ------------------------------
(***************************************************************************)
(* Small instances of Publish.                                             *)
(***************************************************************************)
EXTENDS Publish, TLC

Symmetry == Permutations(Helpers)

\* At first there is at most a contract of the server in one package, so that
\* an edit can bring in something else, or remove that contract.
CleanTree == [p \in Packages |-> {}]
MCInit ==
  /\ Init /\ dist = None
  /\ tree \in {CleanTree} \cup {[CleanTree EXCEPT ![p] = Marks \cap {"private"}] : p \in Packages}

MCSpec == MCInit /\ [][Next]_vars
=============================================================================
