----------------------------- MODULE MCApprovals -----------------------------
(* Small instances of Approvals for TLC. *)
EXTENDS Approvals, TLC

CONSTANTS signerUi, terminal, wallet, dapp

\* A second approver beside the default one, nobody, a document that is refused.
TwoSurfaces ==
  { [approvers |-> {signerUi, terminal, Blank}, custodians |-> {signerUi}],
    [approvers |-> {Blank}, custodians |-> {signerUi}],
    Malformed }

NobodyApproves == { [approvers |-> {}, custodians |-> {signerUi}] }

Module(n) == [kind |-> "module", name |-> n]
Host == [kind |-> "host", name |-> Blank]
Derived(n) == [kind |-> "derived", name |-> n]

TwoApprovers == {Module(signerUi), Module(terminal), Host, Derived(signerUi)}
OneApprover == {Module(signerUi)}

OneRequester == {Module(wallet), Host}
TwoRequesters == {Module(wallet), Module(dapp)}

Symmetric ==
  Permutations(Handles) \union Permutations(Bundles)
    \union Permutations({wallet, dapp})
=============================================================================
