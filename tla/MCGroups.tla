------------------------------ MODULE MCGroups ------------------------------
(* Small instances of Groups for TLC. *)
EXTENDS Groups, TLC

Symmetric == Permutations(Ids) \union Permutations(Procs)

=============================================================================
