-------------------------------- MODULE Gate --------------------------------
(***************************************************************************)
(* Who may call what (rust-lib/src/gate.rs).  Two roles, each a SET of     *)
(* module names: approvers (Tier A) and custodians (Tier D).  They hold    *)
(* the built-in defaults from load and are replaced as a whole by          *)
(* configure.  Names stand for module names after the trimming the code    *)
(* does; Blank is the name that trims to nothing.                          *)
(***************************************************************************)
CONSTANTS
  Names,             \* module names
  Blank,             \* whitespace, or the absence of a name
  DefaultApprover,   \* evm_signer_ui
  DefaultCustodian,  \* evm_keystore_ui
  Documents          \* the configuration documents configure is called with

Entries == Names \union {Blank}

(***************************************************************************)
(* A parsed document: a role it does not name is the empty list.  Anything *)
(* that does not parse, is not an object or has an unknown key is one      *)
(* value, Malformed.                                                       *)
(***************************************************************************)
RolesDocument == [approvers : SUBSET Entries, custodians : SUBSET Entries]

Malformed == [malformed |-> TRUE]

ASSUME GateAssumption ==
  /\ Blank \notin Names
  /\ {DefaultApprover, DefaultCustodian} \subseteq Names
  /\ Documents \subseteq RolesDocument \union {Malformed}

VARIABLES approvers, custodians

roles == <<approvers, custodians>>

-----------------------------------------------------------------------------
(* Callers. *)

Callers ==
  [kind : {"module", "derived", "operator"}, name : Names]
    \union [kind : {"unknown", "host"}, name : {Blank}]

IsModule(caller, name) == caller.kind = "module" /\ caller.name = name

\* Only a plainly named module has a name to record a request against.
Named(caller) == caller.kind = "module"

HoldsRole(holder, caller) == holder # Blank /\ IsModule(caller, holder)

HoldsAnyRole(holders, caller) == \E holder \in holders : HoldsRole(holder, caller)

TierDMethods ==
  { "create_mnemonic", "import_mnemonic", "import_private_key",
    "import_keystore_json", "export_keystore_json", "change_password",
    "set_label", "set_group_label", "delete_account", "derive_next_account",
    "derive_account_at", "preview_addresses", "create_unrelated_account",
    "forget_derivation", "remove_group", "settle", "remove_unexplained" }

TierDAdmits(method, holders, caller) ==
  method \in TierDMethods /\ HoldsAnyRole(holders, caller)

-----------------------------------------------------------------------------
(* Configuration. *)

\* Mutant: a blank survives into the list.
IntoEntries(raw) == raw

\* Blanks are dropped, so an empty set and "admits nobody" are the same thing.
IntoHolders(raw) == raw \ {Blank}

GateInit ==
  /\ approvers = {DefaultApprover}
  /\ custodians = {DefaultCustodian}

\* TOTAL: both roles are replaced.  A malformed document changes nothing.
Configure(doc) ==
  /\ doc # Malformed
  /\ approvers' = IntoHolders(doc.approvers)
  /\ custodians' = IntoHolders(doc.custodians)

IsApprover(caller) == HoldsAnyRole(approvers, caller)

MayMutate(method, caller) == TierDAdmits(method, custodians, caller)

=============================================================================
