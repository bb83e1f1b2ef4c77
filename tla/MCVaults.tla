------------------------------ MODULE MCVaults ------------------------------
(* Small instances of Vaults for TLC. *)
EXTENDS Vaults, TLC

EveryOp == AllOps

Changes == {"rekey", "delete", "import"}

\* An earlier import was killed before its rename and left its stage, whole;
\* which password it was is all the same.
AfterAKill ==
  /\ vault = [a \in Addresses |-> NoFile]
  /\ stage = [a \in Addresses |-> [content |-> Anything, by |-> {}]]
  /\ told = [a \in Addresses |-> {Absent, Anything}]
  /\ cut = [a \in Addresses |-> {Anything}]
  /\ scratch = {}
  /\ rows = {}
  /\ lock = Nobody
  /\ call = [p \in Procs |-> IdleCall]
  /\ mishaps = MaxMishaps
  /\ troubled = Addresses

\* Peers nothing cuts short, on a clean directory or on that one.  There nobody
\* imports the account again, and those who want it contend for settle's lock.
PeersStep(p) ==
  \/ Calls(p) /\ (mishaps > 0 => call'[p].op # "import")
  \/ Proceed(p)

PeersSpec == (Init \/ AfterAKill) /\ [][\E p \in Procs : PeersStep(p)]_vars

AnyProc == Permutations(Procs)

=============================================================================
