-------------------------- MODULE MCApprovalsShown --------------------------
(* Approvals with a history of what was ever claimed for display. *)
EXTENDS MCApprovals

VARIABLE shown

ShownInit == Init /\ shown = {}

ShownNext == Next /\ shown' = shown \union onScreen'

ShownSpec == ShownInit /\ [][ShownNext]_<<vars, shown>>

\* docs/specs.md: "once Rendered, there is no timeout on the human"; approval.rs:
\* the sweep settles "Offered records nobody ever came for".  A request an
\* approver claimed is then never settled as expired for want of a claim.
ClaimedNeverExpires ==
  \A h \in Handles : records[h].state = "expired_no_ack" => h \notin shown
=============================================================================
