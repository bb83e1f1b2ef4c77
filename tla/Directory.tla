------------------------------ MODULE Directory ------------------------------
(***************************************************************************)
(* One keystore directory between its own writes, what others put into it, *)
(* and the calls that put it in order: settle (which every listing runs),  *)
(* remove_unexplained and delete_account of keystore.rs.  A write is here  *)
(* what it leaves, whole or killed; Vaults and Groups have its steps.      *)
(***************************************************************************)
EXTENDS Layout, Functions

CONSTANTS
  Procs,
  Paths,        \* the paths considered, with every path above one of them
  MaxEvents,    \* writes, foreign or not, in a behaviour
  NoCall

ASSUME DirectoryAssumption ==
  /\ Paths \subseteq Seq(Name) \ {<<>>}
  /\ \A p \in Paths : \A n \in 1 .. Len(p) : SubSeq(p, 1, n) \in Paths
  /\ \A a \in Accounts : StagedVault(a) \in Paths => Vault(a) \in Paths
  /\ MaxEvents \in Nat

VARIABLES
  tree,     \* what is in the directory
  call,     \* the removal each process is at: the path, and what was reported
  events,
  foreign   \* history: paths that another hand put there or shut

vars == <<tree, call, events, foreign>>

\* What a hand other than the keystore's may put at a path.
Planted ==
  {node \in Node :
     /\ node.kind \in {"dir", "other"} => node.holds = Nothing
     /\ node.kind = "other" => node.open
     /\ node.kind = "link" /\ ~node.open => node.holds = Nothing
     /\ node.disputes => node.kind = "file" /\ node.open /\ node.holds \in Accounts}

-----------------------------------------------------------------------------
(* Changes of a tree. *)

Above(p) == {SubSeq(p, 1, n) : n \in 1 .. Len(p) - 1}

\* There is room for a node at p: nothing stands there or in the way.
Free(t, p) ==
  /\ p \notin DOMAIN t
  /\ \A q \in Above(p) \intersect DOMAIN t : t[q].kind = "dir" /\ t[q].open

With(t, p, node) ==
  [q \in DOMAIN t \union Above(p) \union {p} |->
     IF q = p THEN node ELSE IF q \in DOMAIN t THEN t[q] ELSE Dir]

Without(t, gone) == Restrict(t, DOMAIN t \ gone)

\* remove_dir_all does not get at what is in a directory that cannot be read,
\* nor at a directory that is not empty.
Stuck(t, p) == \E q \in DOMAIN t : IsShut(t[q]) /\ (IsPrefix(p, q) \/ IsPrefix(q, p))

\* remove_dir_all of each of these: it goes, or as much of it as was removed
\* before the failure.
Cleared(t, dirs) ==
  LET inside == UNION {Below(t, d) : d \in dirs}
      whole == UNION {Below(t, d) : d \in {e \in dirs : ~Stuck(t, e)}}
  IN  {Without(t, whole \union gone) :
         gone \in {s \in SUBSET {p \in inside \ whole : ~Stuck(t, p)} :
                     \A p \in s : Below(t, p) \subseteq s}}

-----------------------------------------------------------------------------
(* settle: a staged vault comes to its path or goes; scratch goes. *)

\* Path::exists follows links.
Exists(t, p) == p \in DOMAIN t /\ (t[p].kind = "link" => t[p].open)

Openable(t, p) ==
  /\ Seen(t, p)
  /\ t[p].kind \in {"file", "link"} /\ t[p].open /\ t[p].holds # Nothing

\* Mutant: nothing staged is ever brought to its path.
Sweeps(t, a) == FALSE

Promotable(t, a) == ~Exists(t, Vault(a)) /\ Openable(t, StagedVault(a))

Settlings(t) ==
  LET moved == {a \in VaultStages(t) : Promotable(t, a)}
      mended == [p \in (DOMAIN t \ {StagedVault(a) : a \in moved})
                         \union {Vault(a) : a \in moved} |->
                   IF \E a \in moved : p = Vault(a)
                     THEN t[StagedVault(p[1][2])] ELSE t[p]]
  IN  Cleared(mended, {<<Stage(x)>> : x \in VaultStages(t) \union ImportStages(t)})

-----------------------------------------------------------------------------
(* remove_path: whatever it turned out to be; a directory that does not go is *)
(* opened and tried once more.                                                *)

\* Mutant: it is not opened.
StaysShut(t, p) == t

Reopened(t, p) == [t EXCEPT ![p].open = TRUE]

PathRemoved(t, p) ==
  IF t[p].kind # "dir"
    THEN {Without(t, {p})}
    ELSE UNION {IF p \in DOMAIN u THEN Cleared(Reopened(u, p), {p}) ELSE {u} :
                  u \in Cleared(t, {p})}

-----------------------------------------------------------------------------
Init ==
  /\ tree = [p \in {} |-> Dir]
  /\ call = [q \in Procs |-> NoCall]
  /\ events = 0
  /\ foreign = {}

Event ==
  /\ events < MaxEvents
  /\ events' = events + 1
  /\ UNCHANGED call

\* Another hand puts something where there is room for it.
Plant(p) ==
  /\ Event
  /\ Free(tree, p)
  /\ \E node \in Planted : tree' = With(tree, p, node)
  /\ foreign' = foreign \union {p}

\* Another hand takes away the right to read a directory.
Shut(p) ==
  /\ Event
  /\ Seen(tree, p) /\ tree[p].kind = "dir" /\ tree[p].open
  /\ tree' = [tree EXCEPT ![p].open = FALSE]
  /\ foreign' = foreign \union {p}

\* What a write of the keystore leaves where there is room: a vault, a key or a
\* document at its path; killed, a stage with its file or without.
Leaves(p) ==
  /\ Event
  /\ Free(tree, p)
  /\ \/ \E a \in Accounts : /\ p \in {Vault(a), StagedVault(a)}
                            /\ tree' = With(tree, p, File(a))
     \/ \E g \in Groups : /\ p \in {GroupKey(g), StagedKey(g)}
                          /\ tree' = With(tree, p, File(g))
     \/ \E n \in Imports, a \in Accounts : /\ p = ImportScratch(n)
                                           /\ tree' = With(tree, p, File(a))
     \/ /\ p \in {Doc, DocStage, Lock}
        /\ tree' = With(tree, p, File(Nothing))
     \/ /\ p = GroupDir \/ \E x \in Accounts \union Groups \union Imports :
                              p \in {<<Stage(x)>>, GroupStage(x)}
        /\ Explained(p, "dir")
        /\ tree' = With(tree, p, Dir)
  /\ UNCHANGED foreign

Settle ==
  /\ tree' \in Settlings(tree)
  /\ UNCHANGED <<call, events, foreign>>

\* remove_unexplained: the path is one the scan reports.
Look(q) ==
  /\ call[q] = NoCall
  /\ \E p \in UnexplainedAll(tree) :
       call' = [call EXCEPT ![q] = [path |-> p, seen |-> tree[p]]]
  /\ UNCHANGED <<tree, events, foreign>>

\* Then it is removed, and the listing of the event settles.
RemoveUnexplained(q) ==
  LET p == call[q].path
  IN  /\ call[q] # NoCall
      /\ call' = [call EXCEPT ![q] = NoCall]
      /\ IF p \notin DOMAIN tree
           THEN tree' \in Settlings(tree)
           ELSE IF \E d \in Above(p) : ~tree[d].open
           THEN UNCHANGED tree
           ELSE \E u \in PathRemoved(tree, p) :
                  IF p \in DOMAIN u THEN tree' = u ELSE tree' \in Settlings(u)
      /\ UNCHANGED <<events, foreign>>

\* The vault the scan names, if it opens to this account (signer_for).
Opens(t, a) ==
  a \in Vaults(t) /\ t[Vault(a)].open /\ t[Vault(a)].holds = a

\* use_vault settles when there is nothing at all at the account's path.
Delete(a) ==
  /\ \E t \in (IF Vault(a) \in DOMAIN tree THEN {tree} ELSE Settlings(tree)) :
       IF Opens(t, a) THEN tree' \in Settlings(Without(t, {Vault(a)}))
                      ELSE tree' = t
  /\ UNCHANGED <<call, events, foreign>>

Next ==
  \/ \E p \in Paths : Plant(p) \/ Shut(p) \/ Leaves(p)
  \/ Settle
  \/ \E q \in Procs : Look(q) \/ RemoveUnexplained(q)
  \/ \E a \in Accounts : Delete(a)

Spec == Init /\ [][Next]_vars

-----------------------------------------------------------------------------
(* Properties. *)

\* A tree is closed: what is above a node is a directory in it.
TypeOK ==
  /\ \A p \in DOMAIN tree :
       /\ p \in Paths /\ tree[p] \in Node
       /\ \A q \in Above(p) : q \in DOMAIN tree /\ tree[q].kind = "dir"
  /\ call \in [Procs -> [path : Paths, seen : Node] \union {NoCall}]
  /\ events \in 0 .. MaxEvents
  /\ foreign \subseteq Paths

Covers(paths, p) == \E q \in paths : IsPrefix(q, p)

\* No file with a key in it, wherever it was put, is hidden from the report: it
\* is named as what it is, or it or a directory above it is reported.  Only a
\* document's name and the lock's say nothing of what they hold.
NothingHidden ==
  LET named == {Vault(a) : a \in Vaults(tree)}
                 \union {StagedVault(a) : a \in StagedVaults(tree)}
                 \union {ImportScratch(n) : n \in ImportStages(tree)}
                 \union {GroupKey(g) : g \in Keys(tree)}
                 \union {StagedKey(g) : g \in StagedKeys(tree)}
  IN  \A p \in DOMAIN tree :
        tree[p].kind = "file" /\ tree[p].holds # Nothing /\ p \notin {Doc, Lock}
          => p \in named \/ Covers(UnexplainedAll(tree), p)

\* A wallet's key that another hand put anywhere is reported as one, it or a
\* directory above it, unless its name is the name of something else.  A link is
\* not followed: one that leads to a wallet's key is reported, but as a link.
WorstCaseAssumed ==
  \A p \in DOMAIN tree :
    tree[p].holds \in Groups /\ ~Explained(p, tree[p].kind) =>
      Covers(IF tree[p].kind = "link" THEN UnexplainedAll(tree)
                                      ELSE PossibleKeys(tree), p)

\* What the keystore writes itself, also killed on the way, and what settle and
\* removals make of it, is never reported as unexplained.  What is, another hand
\* put there or shut, or made on the way to something below it, or put into the
\* stage that settle brought it from.
OwnWritesExplained ==
  \A p \in Stray(tree) :
    \E f \in foreign :
      \/ IsPrefix(p, f)
      \/ \E a \in Accounts : p = Vault(a) /\ f = StagedVault(a)

\* An account that opens is lost to nothing but its deletion: not to settle, and
\* not to a removal, unless the path was reported as something else and the
\* vault has come there since (the scan is taken before the lock).
AccountsSpared ==
  [][\A a \in Accounts :
       Opens(tree, a) /\ ~Opens(tree', a)
         => \/ Delete(a)
            \/ \E p \in Paths : Shut(p)
            \/ \E q \in Procs : /\ call[q] # NoCall /\ RemoveUnexplained(q)
                                /\ call[q].path = Vault(a)
                                /\ call[q].seen # tree[Vault(a)]]_vars

\* A staged vault that can be read goes only where something stands at its
\* account's path, or to that path.
StagedKept ==
  [][\A a \in Accounts :
       LET p == StagedVault(a)
       IN  Openable(tree, p) /\ p \notin DOMAIN tree' /\ Settle
             => Vault(a) \in DOMAIN tree']_vars

\* After a removal the path is no longer reported, or something below it is that
\* can be removed first, or settle has brought a staged link there.  The rest is
\* a directory that cannot be read, deeper than the scan goes.
NoDeadEnd ==
  [][\A q \in Procs : call[q] # NoCall /\ call'[q] = NoCall =>
       LET p == call[q].path
           left == UnexplainedAll(tree')
       IN  \/ p \notin left
           \/ \E r \in left : IsStrictPrefix(p, r)
           \/ \E a \in Accounts :
                p = Vault(a) /\ StagedVault(a) \in DOMAIN tree \ DOMAIN tree'
           \/ \E r \in DOMAIN tree' :
                IsStrictPrefix(p, r) /\ IsShut(tree'[r]) /\ Len(r) > MaxDepth]_vars
=============================================================================
