-------------------------------- MODULE Layout --------------------------------
(***************************************************************************)
(* The directory of a keystore and what a scan says of it: layout.rs.  A   *)
(* tree is a function from paths to nodes; a path is a sequence of names.  *)
(***************************************************************************)
EXTENDS Integers, SequencesExt

CONSTANTS
  Accounts,   \* addresses
  Groups,     \* group ids
  Imports,    \* nonces of imports
  Nothing

ASSUME LayoutAssumption ==
  Nothing \notin Accounts \union Groups \union Imports

-----------------------------------------------------------------------------
(* Names, and the path each thing is written at (Slot::rel, staged_name). *)

VaultFile(a) == <<"vault", a>>      \* <addr>.json
KeyFile(g) == <<"key", g>>          \* <id>.json
Bare(g) == <<"id", g>>              \* <id>
Stage(x) == <<"stage", x>>          \* .stage-<addr>, .stage-<id>, .stage-import-<n>
Word(w) == <<w, Nothing>>           \* a name with nothing in it

Name == STRING \X (Accounts \union Groups \union Imports \union {Nothing})

Vault(a) == <<VaultFile(a)>>
VaultStage(a) == <<Stage(a)>>
StagedVault(a) == <<Stage(a), VaultFile(a)>>
ImportStage(n) == <<Stage(n)>>
ImportScratch(n) == <<Stage(n), Word("import")>>
GroupDir == <<Word("groups")>>
GroupKey(g) == <<Word("groups"), KeyFile(g)>>
GroupStage(g) == <<Word("groups"), Stage(g)>>
StagedKey(g) == <<Word("groups"), Stage(g), KeyFile(g)>>
Doc == <<Word("doc")>>
DocStage == <<Word("docstage")>>
Lock == <<Word("lock")>>

\* What a path leads to.  A file, or the target of a link, may hold the key of
\* an account or of a wallet, and a vault may declare another address.  Not
\* open: a file or directory that cannot be read, a link that leads nowhere.
Node == [kind : {"file", "dir", "link", "other"}, open : BOOLEAN,
         holds : Accounts \union Groups \union {Nothing}, disputes : BOOLEAN]

File(key) == [kind |-> "file", open |-> TRUE, holds |-> key, disputes |-> FALSE]
Dir == [File(Nothing) EXCEPT !.kind = "dir"]

IsShut(node) == node.kind = "dir" /\ ~node.open

Below(t, p) == {q \in DOMAIN t : IsPrefix(p, q)}

-----------------------------------------------------------------------------
(* classify: every shape the keystore writes, at the kind it writes it as. *)

\* Mutant: whatever is in a stage is what it stages.
AnyInStage(p) == Len(p) > 1 /\ p[Len(p) - 1][1] = "stage"

\* Mutant: the scratch file of an import is not a shape of its own.
VaultInStage(p) ==
  \/ \E a \in Accounts : p = StagedVault(a)
  \/ \E g \in Groups : p = StagedKey(g)

\* A stage holds one file, under the name it is staging and nothing else.
HeldInStage(p) ==
  \/ \E a \in Accounts : p = StagedVault(a)
  \/ \E n \in Imports : p = ImportScratch(n)
  \/ \E g \in Groups : p = StagedKey(g)

Explained(p, kind) ==
  \/ kind = "file" /\ \/ p \in {Doc, DocStage, Lock}
                      \/ \E a \in Accounts : p = Vault(a)
                      \/ \E g \in Groups : p = GroupKey(g)
                      \/ HeldInStage(p)
  \/ kind = "dir" /\ \/ p = GroupDir
                     \/ \E a \in Accounts : p = VaultStage(a)
                     \/ \E n \in Imports : p = ImportStage(n)
                     \/ \E g \in Groups : p = GroupStage(g)

-----------------------------------------------------------------------------
(* walk and file: what is seen, and which bucket it falls into. *)

MaxDepth == 3

\* A directory is entered when it can be read and is not as deep as the layout
\* goes; links are not followed.
Enters(t, p) == t[p].kind = "dir" /\ t[p].open /\ Len(p) < MaxDepth

Seen(t, p) ==
  p \in DOMAIN t /\ \A n \in 1 .. Len(p) - 1 : Enters(t, SubSeq(p, 1, n))

\* look, and what the walk says of a directory: it holds a vault's bytes, or
\* there was no looking inside.
MayHoldKey(t, p) ==
  \/ t[p].kind = "dir" /\ ~Enters(t, p)
  \/ t[p].kind = "file" /\ (~t[p].open \/ t[p].holds # Nothing)

NamesKey(name) == \E g \in Groups : name \in {KeyFile(g), Bare(g), Stage(g)}

\* Mutant: severity goes by the directory.
CouldBeKeyByPlace(t, p) == p[1] = Word("groups")

CouldBeKey(t, p) ==
  \/ MayHoldKey(t, p)
  \/ \E i \in 1 .. Len(p) : NamesKey(p[i])
  \/ p[1] = Word("groups")

SeenAs(t, p, kind) == Seen(t, p) /\ t[p].kind = kind

Vaults(t) == {a \in Accounts : SeenAs(t, Vault(a), "file")}
StagedVaults(t) == {a \in Accounts : SeenAs(t, StagedVault(a), "file")}
VaultStages(t) == {a \in Accounts : SeenAs(t, VaultStage(a), "dir")}
ImportStages(t) == {n \in Imports : SeenAs(t, ImportStage(n), "dir")}
Keys(t) == {g \in Groups : SeenAs(t, GroupKey(g), "file")}
StagedKeys(t) == {g \in Groups : SeenAs(t, StagedKey(g), "file")}
DocStages(t) == {p \in {DocStage} : SeenAs(t, p, "file")}

\* Everything the layout does not explain, and what it does but cannot read.
NotExplained(t) ==
  {p \in DOMAIN t : Seen(t, p) /\ ~Explained(p, t[p].kind)}

PossibleKeys(t) ==
  {p \in NotExplained(t) : CouldBeKey(t, p)}
    \union {p \in DOMAIN t : Seen(t, p) /\ IsShut(t[p])}

Stray(t) == NotExplained(t) \union PossibleKeys(t)

\* Mutant: a vault that disputes its name is among them.
MismatchedToo(t) ==
  Stray(t) \union DocStages(t) \union {Vault(a) : a \in {b \in Vaults(t) : t[Vault(b)].disputes}}

\* What a caller may name to have removed.
UnexplainedAll(t) == Stray(t) \union DocStages(t)
=============================================================================
