----------------------------- MODULE MCDirectory -----------------------------
(* A small instance of Directory for TLC. *)
EXTENDS Directory, TLC

CONSTANTS a1, g1, n1

Other == Word("other")

\* Every path of the layout, and what another hand may put beside them.
SomePaths ==
  UNION {Above(p) \union {p} :
    p \in {Vault(a1), StagedVault(a1), <<Stage(a1), Other>>,
           ImportScratch(n1), GroupKey(g1), StagedKey(g1), <<Word("groups"), Other>>,
           <<Other, KeyFile(g1)>>, <<Other, Other, Other, Other>>,
           Doc, DocStage, Lock}}

ProcSymmetry == Permutations(Procs)
=============================================================================
