--------------------------- MODULE ApprovalPromise ---------------------------
(***************************************************************************)
(* What the approval ledger promises about each request, whatever callers, *)
(* clocks and sweeps do: it is open until ONE decision closes it, the      *)
(* decision never changes, signatures exist only because it was approved   *)
(* and at most once, and a closed request is forgotten only when nothing   *)
(* is left to collect.  One call decides yes to at most one request.       *)
(***************************************************************************)
EXTENDS FiniteSets

CONSTANT Requests

VARIABLES phase,     \* where each request is in its life
          holding    \* the requests whose signatures wait to be collected

vars == <<phase, holding>>

Phases == {"unmade", "open", "approved", "declined", "forgotten"}

TypeOK ==
  /\ phase \in [Requests -> Phases]
  /\ holding \subseteq Requests

Init ==
  /\ phase = [r \in Requests |-> "unmade"]
  /\ holding = {}

\* The phases one call may take a request to.
May(from) ==
  CASE from = "unmade"    -> {"unmade", "open"}
    [] from = "open"      -> {"open", "approved", "declined"}
    [] from = "approved"  -> {"approved", "forgotten"}
    [] from = "declined"  -> {"declined", "forgotten"}
    [] from = "forgotten" -> {"forgotten"}

Yes(r) == phase[r] = "open" /\ phase'[r] = "approved"

\* Signatures appear with the yes and never again.
Collectable(r) ==
  r \in holding' => r \in holding \/ Yes(r)

\* Signatures exist only for an approved request.
OnlyApproved(r) ==
  r \in holding' => phase'[r] = "approved"

Call ==
  /\ phase' \in [Requests -> Phases]
  /\ holding' \subseteq Requests
  /\ \A r \in Requests :
       phase'[r] \in May(phase[r]) /\ Collectable(r) /\ OnlyApproved(r)
  /\ \A q, r \in Requests : Yes(q) /\ Yes(r) => q = r

\* The ledger's process ends: whatever it knew is gone, and nothing is decided.
Crash ==
  /\ phase' = [r \in Requests |->
                 IF phase[r] = "unmade" THEN "unmade" ELSE "forgotten"]
  /\ holding' = {}

Next == Call \/ Crash

Spec == Init /\ [][Next]_vars
=============================================================================
