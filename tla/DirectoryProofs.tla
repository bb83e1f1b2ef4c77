--------------------------- MODULE DirectoryProofs ---------------------------
(***************************************************************************)
(* Proofs about Directory: for every directory that can come about, with   *)
(* any number of accounts, wallets, processes and foreign files, nothing   *)
(* is hidden from the reports and no account is lost to what they allow.   *)
(***************************************************************************)
EXTENDS Directory, SequenceTheorems, TLAPS

-----------------------------------------------------------------------------
(* The invariant, node by node. *)

Sound(t, p) ==
  /\ p \in Paths /\ t[p] \in Node
  /\ \A q \in Above(p) : q \in DOMAIN t /\ t[q].kind = "dir"

\* A wallet's key is in a file, or in one that a link leads to.
KeyReached(t, p) == t[p].holds \in Groups => t[p].kind \in {"file", "link"}

\* What is not the keystore's own is there by another hand.
Traced(t, f, p) ==
  \/ Explained(p, t[p].kind) /\ ~IsShut(t[p])
  \/ p \in f
  \/ t[p].kind = "dir" /\ \E g \in f : IsPrefix(p, g)
  \/ \E a \in Accounts : p = Vault(a) /\ StagedVault(a) \in f

Tree(t, f) == \A p \in DOMAIN t : Sound(t, p) /\ KeyReached(t, p) /\ Traced(t, f, p)

\* What was reported was no vault at its path.
NotAVault(c) ==
  c # NoCall => \A a \in Accounts : c.path = Vault(a) => c.seen.kind # "file"

Inv ==
  /\ Tree(tree, foreign)
  /\ call \in [Procs -> [path : Paths, seen : Node] \union {NoCall}]
  /\ \A q \in Procs : NotAVault(call[q])
  /\ events \in 0 .. MaxEvents
  /\ foreign \subseteq Paths

-----------------------------------------------------------------------------
(* Paths. *)

\* A path is a sequence of names and not empty.
LEMMA PathIsSeq ==
  ASSUME NEW p \in Paths
  PROVE  p \in Seq(Name) /\ Len(p) \in Nat \ {0}
<1>1. p \in Seq(Name) /\ p # <<>>
  BY DirectoryAssumption
<1> QED
  BY <1>1, EmptySeq, LenProperties

\* What is above a path is the beginning of it, and shorter.
LEMMA AbovePath ==
  ASSUME NEW p \in Paths, NEW n \in 1 .. Len(p) - 1
  PROVE  /\ SubSeq(p, 1, n) \in Paths
         /\ SubSeq(p, 1, n) \in Above(p)
         /\ Len(SubSeq(p, 1, n)) = n
         /\ \A m \in 1 .. n : SubSeq(SubSeq(p, 1, n), 1, m) = SubSeq(p, 1, m)
<1>0. p \in Seq(Name) /\ Len(p) \in Nat \ {0}
  BY PathIsSeq
<1>1. SubSeq(p, 1, n) \in Paths /\ SubSeq(p, 1, n) \in Above(p)
  BY <1>0, DirectoryAssumption DEF Above
<1>2. \A i \in 1 .. n : p[i] \in Name
  BY <1>0, ElementOfSeq
<1>3. /\ SubSeq(p, 1, n) \in Seq(Name)
      /\ Len(SubSeq(p, 1, n)) = n
      /\ \A i \in 1 .. n : SubSeq(p, 1, n)[i] = p[i]
  BY <1>0, <1>2, SubSeqProperties
<1>4. ASSUME NEW m \in 1 .. n
      PROVE  SubSeq(SubSeq(p, 1, n), 1, m) = SubSeq(p, 1, m)
  <2> DEFINE s == SubSeq(p, 1, n)
  <2>1. \A i \in 1 .. m : p[i] \in Name /\ s[i] = p[i]
    BY <1>2, <1>3
  <2>2. /\ SubSeq(s, 1, m) \in Seq(Name) /\ Len(SubSeq(s, 1, m)) = m
        /\ \A i \in 1 .. m : SubSeq(s, 1, m)[i] = s[i]
    <3>1. \A i \in 1 .. m : s[i] \in Name
      BY <2>1
    <3> HIDE DEF s
    <3> QED
      BY <3>1, SubSeqProperties
  <2>3. /\ SubSeq(p, 1, m) \in Seq(Name) /\ Len(SubSeq(p, 1, m)) = m
        /\ \A i \in 1 .. m : SubSeq(p, 1, m)[i] = p[i]
    BY <2>1, SubSeqProperties
  <2> HIDE DEF s
  <2>4. SubSeq(s, 1, m) = SubSeq(p, 1, m)
    BY <2>1, <2>2, <2>3, SeqEqual
  <2> QED
    BY <2>4 DEF s
<1> QED
  BY <1>1, <1>3, <1>4

\* A prefix of a path is the path or is above it.
LEMMA PrefixMeans ==
  ASSUME NEW p \in Paths, NEW q \in Paths
  PROVE  IsPrefix(q, p) <=> q = p \/ q \in Above(p)
<1>0. p \in Seq(Name) /\ q \in Seq(Name) /\ Len(p) \in Nat \ {0} /\ Len(q) \in Nat \ {0}
  BY PathIsSeq
<1>1. SubSeq(p, 1, Len(p)) = p /\ SubSeq(q, 1, Len(q)) = q
  BY <1>0, SubSeqFull
<1>2. ASSUME IsPrefix(q, p) PROVE q = p \/ q \in Above(p)
  <2>1. Len(q) <= Len(p) /\ q = SubSeq(p, 1, Len(q))
    BY <1>1, <1>2 DEF IsPrefix
  <2>2. CASE Len(q) = Len(p)
    BY SMTT(30), <1>1, <2>1, <2>2
  <2>3. CASE Len(q) < Len(p)
    <3>1. Len(q) \in 1 .. Len(p) - 1
      BY <1>0, <2>3
    <3> QED
      BY <2>1, <3>1 DEF Above
  <2> QED
    BY <1>0, <2>1, <2>2, <2>3
<1>3. ASSUME q \in Above(p) PROVE IsPrefix(q, p)
  <2>1. PICK n \in 1 .. Len(p) - 1 : q = SubSeq(p, 1, n)
    BY <1>3 DEF Above
  <2>2. Len(q) = n
    BY <2>1, AbovePath
  <2> QED
    BY <1>0, <1>1, <2>1, <2>2 DEF IsPrefix
<1>4. IsPrefix(p, p)
  BY <1>0 DEF IsPrefix
<1> QED
  BY <1>2, <1>3, <1>4

\* Above is transitive and irreflexive.
LEMMA AboveOrders ==
  ASSUME NEW p \in Paths, NEW q \in Above(p)
  PROVE  q \in Paths /\ q # p /\ Above(q) \subseteq Above(p)
<1>0. Len(p) \in Nat \ {0}
  BY PathIsSeq
<1>1. PICK n \in 1 .. Len(p) - 1 : q = SubSeq(p, 1, n)
  BY DEF Above
<1>2. q \in Paths /\ Len(q) = n
  BY <1>1, AbovePath
<1>3. ASSUME NEW r \in Above(q) PROVE r \in Above(p)
  <2>1. PICK m \in 1 .. n - 1 : r = SubSeq(q, 1, m)
    BY <1>2, <1>3 DEF Above
  <2>2. r = SubSeq(p, 1, m)
    BY <1>1, <2>1, AbovePath
  <2> QED
    BY <1>0, <2>1, <2>2 DEF Above
<1> QED
  BY <1>0, <1>2, <1>3

\* What is above the layout's own paths.
LEMMA ShortPaths ==
  /\ \A x : Above(<<x>>) = {}
  /\ \A x, y : Above(<<x, y>>) = {<<x>>}
  /\ \A x, y, z : Above(<<x, y, z>>) = {<<x>>, <<x, y>>}
  BY DEF Above

\* Different things have different names.
LEMMA Names ==
  /\ \A a, b \in Accounts : Vault(a) = Vault(b) => a = b
  /\ \A a, b \in Accounts : StagedVault(a) = StagedVault(b) => a = b
  /\ \A a \in Accounts : \A x : Vault(a) # <<Stage(x)>> /\ Vault(a) # StagedVault(x)
  /\ \A a \in Accounts : Vault(a) \notin {Doc, DocStage, Lock, GroupDir}
  BY DEF Vault, StagedVault, VaultFile, Stage, Doc, DocStage, Lock, GroupDir, Word

-----------------------------------------------------------------------------
(* Changes of a tree. *)

\* Whether a node is traced depends on the node, and on nothing another hand
\* may add.
LEMMA StaysTraced ==
  ASSUME NEW t, NEW u, NEW f, NEW g, f \subseteq g, NEW p,
         t[p] = u[p], Traced(t, f, p)
  PROVE  Traced(u, g, p)
  BY DEF Traced

\* The nodes the keystore writes are nodes, and can be read.
LEMMA NodeKinds ==
  /\ Dir \in Node /\ Dir.kind = "dir" /\ Dir.holds = Nothing /\ ~IsShut(Dir)
  /\ \A key \in Accounts \union Groups \union {Nothing} :
       File(key) \in Node /\ File(key).kind = "file" /\ ~IsShut(File(key))
  BY DEF Dir, File, Node, IsShut

\* A node where there is room, with the directories above it.
LEMMA Grows ==
  ASSUME NEW t, NEW f, Tree(t, f), NEW g, f \subseteq g,
         NEW p \in Paths, Free(t, p),
         NEW node \in Node, node.holds \in Groups => node.kind \in {"file", "link"},
         \A u : u[p] = node => Traced(u, g, p),
         \A u : \A r \in Above(p) : u[r] = Dir => Traced(u, g, r)
  PROVE  /\ Tree(With(t, p, node), g)
         /\ \A r \in DOMAIN t : r \in DOMAIN With(t, p, node) /\ With(t, p, node)[r] = t[r]
<1> DEFINE u == With(t, p, node)
<1>1. DOMAIN u = DOMAIN t \union Above(p) \union {p}
  BY DEF With
<1>2. u[p] = node
  BY DEF With
<1>3. \A r \in DOMAIN t : u[r] = t[r]
  BY DEF With, Free
<1>4. \A r \in Above(p) : r \notin DOMAIN t => u[r] = Dir
  BY AboveOrders DEF With
<1> HIDE DEF u
<1>5. \A r \in Above(p) : u[r].kind = "dir"
  BY <1>3, <1>4, NodeKinds DEF Free
<1>6. ASSUME NEW r \in DOMAIN t
      PROVE  Sound(u, r) /\ KeyReached(u, r) /\ Traced(u, g, r)
  <2>1. Sound(t, r) /\ KeyReached(t, r) /\ Traced(t, f, r)
    BY DEF Tree
  <2>2. Traced(u, g, r)
    BY <1>3, <2>1, StaysTraced
  <2> QED
    BY <1>1, <1>3, <2>1, <2>2 DEF Sound, KeyReached
<1>7. ASSUME NEW r \in Above(p), r \notin DOMAIN t
      PROVE  Sound(u, r) /\ KeyReached(u, r) /\ Traced(u, g, r)
  <2>1. r \in Paths /\ Above(r) \subseteq Above(p)
    BY AboveOrders
  <2>2. u[r] = Dir
    BY <1>4, <1>7
  <2>3. Sound(u, r)
    BY <1>1, <1>5, <2>1, <2>2, NodeKinds DEF Sound
  <2>4. KeyReached(u, r)
    BY <2>2, NodeKinds, LayoutAssumption DEF KeyReached
  <2> QED
    BY <2>2, <2>3, <2>4
<1>8. Sound(u, p) /\ KeyReached(u, p) /\ Traced(u, g, p)
  BY <1>1, <1>2, <1>5 DEF Sound, KeyReached
<1>9. Tree(u, g)
  BY <1>1, <1>6, <1>7, <1>8 DEF Tree
<1> QED
  BY <1>1, <1>3, <1>9 DEF u

\* Whatever goes takes what is below it along.
LEMMA Shrinks ==
  ASSUME NEW t, NEW f, Tree(t, f), NEW gone,
         \A q \in gone : \A r \in DOMAIN t : q \in Above(r) => r \in gone
  PROVE  /\ Tree(Without(t, gone), f)
         /\ DOMAIN Without(t, gone) = DOMAIN t \ gone
         /\ \A r \in DOMAIN t \ gone : Without(t, gone)[r] = t[r]
<1> DEFINE u == Without(t, gone)
<1>1. DOMAIN u = DOMAIN t \ gone /\ \A r \in DOMAIN u : u[r] = t[r]
  BY DEF Without, Restrict
<1> HIDE DEF u
<1>2. ASSUME NEW r \in DOMAIN u
      PROVE  Sound(u, r) /\ KeyReached(u, r) /\ Traced(u, f, r)
  <2>1. Sound(t, r) /\ KeyReached(t, r) /\ Traced(t, f, r)
    BY <1>1 DEF Tree
  <2>2. Traced(u, f, r)
    BY <1>1, <2>1, StaysTraced
  <2>3. Above(r) \subseteq DOMAIN u
    BY <1>1, <2>1 DEF Sound
  <2> QED
    BY <1>1, <2>1, <2>2, <2>3 DEF Sound, KeyReached
<1>3. Tree(u, f)
  BY <1>2 DEF Tree
<1> QED
  BY <1>1, <1>3 DEF u

\* What is left of t when only what is below dirs may have gone.
Rest(t, u, dirs) ==
  /\ DOMAIN u \subseteq DOMAIN t
  /\ \A p \in DOMAIN u : u[p] = t[p]
  /\ \A p \in DOMAIN t : (\A d \in dirs : ~IsPrefix(d, p)) => p \in DOMAIN u

\* Clearing directories leaves a tree, with what is not below them as it was.
LEMMA Clears ==
  ASSUME NEW t, NEW f, Tree(t, f), NEW dirs \in SUBSET Paths, NEW u \in Cleared(t, dirs)
  PROVE  Tree(u, f) /\ Rest(t, u, dirs)
<1> DEFINE inside == UNION {Below(t, d) : d \in dirs}
           whole == UNION {Below(t, d) : d \in {e \in dirs : ~Stuck(t, e)}}
<1>1. PICK gone \in SUBSET inside :
        /\ \A p \in gone : Below(t, p) \subseteq gone
        /\ u = Without(t, whole \union gone)
  BY DEF Cleared
<1>2. \A q \in DOMAIN t : q \in Paths
  BY DEF Tree, Sound
<1>3. ASSUME NEW q \in whole \union gone, NEW r \in DOMAIN t, q \in Above(r)
      PROVE  r \in whole \union gone
  <2>1. q \in DOMAIN t /\ q \in Paths /\ r \in Paths
    BY <1>1, <1>2 DEF Below
  <2>2. CASE q \in gone
    <3>1. IsPrefix(q, r)
      BY <1>3, <2>1, PrefixMeans
    <3> QED
      BY <1>1, <2>2, <3>1 DEF Below
  <2>3. CASE q \in whole
    <3>1. PICK d \in dirs : ~Stuck(t, d) /\ q \in Below(t, d)
      BY <2>3
    <3>2. q = d \/ d \in Above(q)
      BY <2>1, <3>1, PrefixMeans DEF Below
    <3>3. d \in Above(r)
      BY <1>3, <2>1, <3>2, AboveOrders
    <3>4. IsPrefix(d, r)
      BY <2>1, <3>3, PrefixMeans
    <3> QED
      BY <3>1, <3>4 DEF Below
  <2> QED
    BY <2>2, <2>3
<1>4. \A q \in whole \union gone : \E d \in dirs : IsPrefix(d, q)
  BY <1>1 DEF Below
<1> HIDE DEF inside, whole
<1>5. /\ Tree(u, f)
      /\ DOMAIN u = DOMAIN t \ (whole \union gone)
      /\ \A r \in DOMAIN t \ (whole \union gone) : u[r] = t[r]
  BY <1>1, <1>3, Shrinks
<1> QED
  BY <1>4, <1>5 DEF Rest

\* A path of one name is seen when it is there, and one of two when its
\* directory is entered as well.
LEMMA SeenShallow ==
  ASSUME NEW t
  PROVE  /\ \A x : Seen(t, <<x>>) <=> <<x>> \in DOMAIN t
         /\ \A x, y : Seen(t, <<x, y>>) =>
              <<x, y>> \in DOMAIN t /\ t[<<x>>].kind = "dir"
<1>1. ASSUME NEW x PROVE Seen(t, <<x>>) <=> <<x>> \in DOMAIN t
  BY DEF Seen
<1>2. ASSUME NEW x, NEW y, Seen(t, <<x, y>>)
      PROVE  <<x, y>> \in DOMAIN t /\ t[<<x>>].kind = "dir"
  <2> DEFINE p == <<x, y>>
  <2>1. 1 \in 1 .. Len(p) - 1 /\ Above(p) = {<<x>>}
    BY ShortPaths
  <2> HIDE DEF p
  <2>2. SubSeq(p, 1, 1) = <<x>>
    BY <2>1 DEF Above
  <2>3. Seen(t, p)
    BY <1>2 DEF p
  <2>4. p \in DOMAIN t /\ t[<<x>>].kind = "dir"
    BY <2>1, <2>2, <2>3 DEF Seen, Enters
  <2> QED
    BY <2>4 DEF p
<1> QED
  BY <1>1, <1>2

\* Only directories have something above which they are.
LEMMA LeafHasNothing ==
  ASSUME NEW t, NEW f, Tree(t, f), NEW p, t[p].kind # "dir", NEW r \in DOMAIN t
  PROVE  p \notin Above(r)
  BY DEF Tree, Sound

-----------------------------------------------------------------------------
(* settle *)

Moving(t) == {a \in VaultStages(t) : Promotable(t, a)}

Mended(t) ==
  [p \in (DOMAIN t \ {StagedVault(a) : a \in Moving(t)})
            \union {Vault(a) : a \in Moving(t)} |->
     IF \E a \in Moving(t) : p = Vault(a)
       THEN t[StagedVault(p[1][2])] ELSE t[p]]

Swept(t) == {<<Stage(x)>> : x \in VaultStages(t) \union ImportStages(t)}

\* settle is the repair and then the sweep.
LEMMA SettlingsMean ==
  ASSUME NEW t
  PROVE  Settlings(t) = Cleared(Mended(t), Swept(t))
  BY DEF Settlings, Moving, Mended, Swept

\* A vault is brought to its path from where it was staged, and nothing else
\* is touched.
LEMMA MendedNodes ==
  ASSUME NEW t, NEW f, Tree(t, f)
  PROVE  /\ \A a \in Moving(t) :
              /\ a \in Accounts /\ Vault(a) \in DOMAIN Mended(t)
              /\ Mended(t)[Vault(a)] = t[StagedVault(a)]
              /\ StagedVault(a) \in DOMAIN t /\ t[StagedVault(a)].kind \in {"file", "link"}
              /\ Vault(a) \in DOMAIN t => t[Vault(a)].kind = "link"
         /\ \A p \in DOMAIN t :
              \/ \E a \in Moving(t) : p \in {Vault(a), StagedVault(a)}
              \/ p \in DOMAIN Mended(t) /\ Mended(t)[p] = t[p]
         /\ \A p \in DOMAIN Mended(t) : p \in DOMAIN t \/ \E a \in Moving(t) : p = Vault(a)
<1>1. ASSUME NEW a \in Moving(t)
      PROVE  /\ a \in Accounts /\ Vault(a) \in DOMAIN Mended(t)
             /\ Mended(t)[Vault(a)] = t[StagedVault(a)]
  <2>1. a \in Accounts
    BY DEF Moving, VaultStages
  <2>2. Vault(a)[1][2] = a
    BY DEF Vault, VaultFile
  <2>3. Vault(a) \in DOMAIN Mended(t)
    BY DEF Mended
  <2> QED
    BY <2>1, <2>2, <2>3 DEF Mended
<1>2. ASSUME NEW a \in Moving(t)
      PROVE  /\ StagedVault(a) \in DOMAIN t /\ t[StagedVault(a)].kind \in {"file", "link"}
             /\ Vault(a) \in DOMAIN t => t[Vault(a)].kind = "link"
  BY DEF Moving, Promotable, Openable, Seen, Exists
<1>3. \A p \in DOMAIN t :
        \/ \E a \in Moving(t) : p \in {Vault(a), StagedVault(a)}
        \/ p \in DOMAIN Mended(t) /\ Mended(t)[p] = t[p]
  BY DEF Mended
<1>4. \A p \in DOMAIN Mended(t) : p \in DOMAIN t \/ \E a \in Moving(t) : p = Vault(a)
  BY DEF Mended
<1> QED
  BY <1>1, <1>2, <1>3, <1>4

\* The repair leaves a tree.
LEMMA MendedTree ==
  ASSUME NEW t, NEW f, Tree(t, f)
  PROVE  Tree(Mended(t), f)
<1> DEFINE u == Mended(t)
<1>1. ASSUME NEW r \in DOMAIN t, NEW q \in Above(r)
      PROVE  q \in DOMAIN u /\ u[q].kind = "dir"
  <2>1. q \in DOMAIN t /\ t[q].kind = "dir"
    BY DEF Tree, Sound
  <2>2. ASSUME NEW a \in Moving(t) PROVE q \notin {Vault(a), StagedVault(a)}
    BY <2>1, MendedNodes
  <2> QED
    BY <2>1, <2>2, MendedNodes
<1>2. ASSUME NEW a \in Moving(t)
      PROVE  Sound(u, Vault(a)) /\ KeyReached(u, Vault(a)) /\ Traced(u, f, Vault(a))
  <2> DEFINE s == StagedVault(a)
  <2>1. /\ a \in Accounts /\ Vault(a) \in DOMAIN u /\ u[Vault(a)] = t[s]
        /\ s \in DOMAIN t /\ t[s].kind \in {"file", "link"}
    BY MendedNodes
  <2>2. Sound(t, s) /\ KeyReached(t, s) /\ Traced(t, f, s)
    BY <2>1 DEF Tree
  <2>3. Vault(a) \in Paths
    BY <2>1, <2>2, DirectoryAssumption DEF Sound
  <2>4. Above(Vault(a)) = {}
    BY ShortPaths DEF Vault
  <2>5. Traced(u, f, Vault(a))
    <3>1. CASE t[s].kind = "file"
      <4>1. Explained(Vault(a), "file")
        BY <2>1 DEF Explained
      <4> QED
        BY <2>1, <3>1, <4>1 DEF Traced, IsShut
    <3>2. CASE t[s].kind = "link"
      <4>1. s \in f
        <5>1. ~Explained(s, "link") 
          BY DEF Explained
        <5>2. ~ \E b \in Accounts : s = Vault(b)
          BY <2>1, Names
        <5> QED
          BY <2>2, <3>2, <5>1, <5>2 DEF Traced
      <4> QED
        BY <2>1, <4>1 DEF Traced
    <3> QED
      BY <2>1, <3>1, <3>2
  <2> QED
    BY <2>1, <2>2, <2>3, <2>4, <2>5 DEF Sound, KeyReached
<1>3. ASSUME NEW r \in DOMAIN u, r \in DOMAIN t, \A a \in Moving(t) : r # Vault(a)
      PROVE  Sound(u, r) /\ KeyReached(u, r) /\ Traced(u, f, r)
  <2>1. Sound(t, r) /\ KeyReached(t, r) /\ Traced(t, f, r)
    BY <1>3 DEF Tree
  <2>2. u[r] = t[r]
    BY <1>3 DEF Mended
  <2>3. Traced(u, f, r)
    BY <2>1, <2>2, StaysTraced
  <2> HIDE DEF u
  <2> QED
    BY <1>1, <1>3, <2>1, <2>2, <2>3 DEF Sound, KeyReached
<1>4. \A r \in DOMAIN u : r \in DOMAIN t \/ \E a \in Moving(t) : r = Vault(a)
  BY MendedNodes
<1> HIDE DEF u
<1>5. Tree(u, f)
  BY <1>2, <1>3, <1>4 DEF Tree
<1> QED
  BY <1>5 DEF u

\* settle leaves a tree, keeps what stands at a vault's path, and brings every
\* vault there that it can.
LEMMA Settles ==
  ASSUME NEW t, NEW f, Tree(t, f), NEW u \in Settlings(t)
  PROVE  /\ Tree(u, f)
         /\ \A a \in Accounts : Exists(t, Vault(a)) =>
              Vault(a) \in DOMAIN u /\ u[Vault(a)] = t[Vault(a)]
         /\ \A a \in Moving(t) : Vault(a) \in DOMAIN u
<1>1. Swept(t) \in SUBSET Paths
  BY DEF Swept, VaultStages, ImportStages, SeenAs, Seen, VaultStage, ImportStage, Tree, Sound
<1>2. Tree(Mended(t), f)
  BY MendedTree
<1>3. u \in Cleared(Mended(t), Swept(t))
  BY SettlingsMean
<1>4. Tree(u, f) /\ Rest(Mended(t), u, Swept(t))
  BY <1>1, <1>2, <1>3, Clears
<1>5. ASSUME NEW a \in Accounts, Vault(a) \in DOMAIN Mended(t)
      PROVE  Vault(a) \in DOMAIN u /\ u[Vault(a)] = Mended(t)[Vault(a)]
  <2>1. Vault(a) \in Paths
    BY <1>2, <1>5 DEF Tree, Sound
  <2>2. ASSUME NEW d \in Swept(t) PROVE ~IsPrefix(d, Vault(a))
    <3>1. d # Vault(a)
      BY Names DEF Swept
    <3>2. Above(Vault(a)) = {}
      BY ShortPaths DEF Vault
    <3> QED
      BY <1>1, <2>1, <3>1, <3>2, PrefixMeans
  <2> QED
    BY <1>4, <1>5, <2>2 DEF Rest
<1>6. ASSUME NEW a \in Accounts, Exists(t, Vault(a))
      PROVE  Vault(a) \in DOMAIN Mended(t) /\ Mended(t)[Vault(a)] = t[Vault(a)]
  <2>1. Vault(a) \in DOMAIN t /\ a \notin Moving(t)
    BY <1>6 DEF Exists, Moving, Promotable
  <2>2. ASSUME NEW b \in Moving(t) PROVE Vault(a) \notin {Vault(b), StagedVault(b)}
    BY <2>1, MendedNodes, Names
  <2> QED
    BY <2>1, <2>2, MendedNodes
<1>7. \A a \in Moving(t) : a \in Accounts /\ Vault(a) \in DOMAIN Mended(t)
  BY MendedNodes
<1> QED
  BY <1>4, <1>5, <1>6, <1>7

-----------------------------------------------------------------------------
(* remove_path *)

\* A removal leaves a tree, with what is not below its path as it was.
LEMMA Removes ==
  ASSUME NEW t, NEW f, Tree(t, f), NEW p \in DOMAIN t,
         NEW u \in PathRemoved(t, p)
  PROVE  /\ Tree(u, f)
         /\ \A r \in DOMAIN t : ~IsPrefix(p, r) => r \in DOMAIN u /\ u[r] = t[r]
<1>0. p \in Paths /\ t[p] \in Node /\ Traced(t, f, p)
  BY DEF Tree, Sound
<1>1. CASE t[p].kind # "dir"
  <2>1. u = Without(t, {p})
    BY <1>1 DEF PathRemoved
  <2>2. \A q \in {p} : \A r \in DOMAIN t : q \in Above(r) => r \in {p}
    BY <1>1, LeafHasNothing
  <2>3. IsPrefix(p, p)
    BY <1>0, PrefixMeans
  <2> QED
    BY ZenonT(60), <2>1, <2>2, <2>3, Shrinks
<1>2. CASE t[p].kind = "dir"
  <2>1. PICK w \in Cleared(t, {p}) :
          u \in IF p \in DOMAIN w THEN Cleared(Reopened(w, p), {p}) ELSE {w}
    BY <1>2 DEF PathRemoved
  <2>2. Tree(w, f) /\ Rest(t, w, {p})
    BY <1>0, <2>1, Clears
  <2>3. CASE p \notin DOMAIN w
    <3>1. u = w
      BY <2>1, <2>3
    <3> QED
      BY <2>2, <3>1 DEF Rest
  <2>4. CASE p \in DOMAIN w
    <3> DEFINE v == Reopened(w, p)
    <3>1. u \in Cleared(v, {p})
      BY <2>1, <2>4
    <3>2. DOMAIN v = DOMAIN w /\ \A r \in DOMAIN w : r # p => v[r] = w[r]
      BY DEF Reopened
    <3>3. w[p] = t[p]
      BY <2>2, <2>4 DEF Rest
    <3>4. v[p] = [w[p] EXCEPT !.open = TRUE]
      BY <2>4 DEF Reopened
    <3>5. /\ v[p] \in Node /\ v[p].kind = w[p].kind /\ v[p].holds = w[p].holds
          /\ ~IsShut(v[p])
      BY <1>0, <3>3, <3>4 DEF Node, IsShut
    <3> HIDE DEF v
    <3>7. Traced(v, f, p)
      BY <1>0, <3>3, <3>5 DEF Traced
    <3>8. ASSUME NEW r \in DOMAIN v
          PROVE  Sound(v, r) /\ KeyReached(v, r) /\ Traced(v, f, r)
      <4>1. Sound(w, r) /\ KeyReached(w, r) /\ Traced(w, f, r)
        BY <2>2, <3>2 DEF Tree
      <4>2. Traced(v, f, r)
        BY <3>2, <3>7, <4>1, StaysTraced
      <4>3. \A q \in DOMAIN w : v[q].kind = w[q].kind /\ v[q].holds = w[q].holds
        BY <3>2, <3>5
      <4>4. v[r] \in Node
        BY <3>2, <3>5, <4>1 DEF Sound
      <4> QED
        BY <3>2, <4>1, <4>2, <4>3, <4>4 DEF Sound, KeyReached
    <3>9. Tree(v, f)
      BY <3>8 DEF Tree
    <3>10. Tree(u, f) /\ Rest(v, u, {p})
      BY <1>0, <3>1, <3>9, Clears
    <3>11. IsPrefix(p, p)
      BY <1>0, PrefixMeans
    <3> QED
      BY <2>2, <3>2, <3>10, <3>11 DEF Rest
  <2> QED
    BY <2>3, <2>4
<1> QED
  BY <1>1, <1>2

-----------------------------------------------------------------------------
(* Every step keeps the invariant. *)

\* The empty directory.
LEMMA InitKeeps == Init => Inv
<1> SUFFICES ASSUME Init PROVE Inv
  OBVIOUS
<1>1. Tree(tree, foreign)
  BY DEF Init, Tree
<1>2. call \in [Procs -> [path : Paths, seen : Node] \union {NoCall}]
  BY DEF Init
<1>3. \A q \in Procs : NotAVault(call[q])
  BY DEF Init, NotAVault
<1>4. events \in 0 .. MaxEvents
  BY DirectoryAssumption DEF Init
<1> QED
  BY <1>1, <1>2, <1>3, <1>4 DEF Init, Inv

\* What another hand or a write changes beside the tree.
LEMMA EventCounts ==
  ASSUME Inv, Event
  PROVE  events' \in 0 .. MaxEvents /\ call' = call
  BY DirectoryAssumption DEF Inv, Event

\* A step that puts something at p.
LEMMA GrowKeeps ==
  ASSUME Inv, Event, foreign' \subseteq Paths, foreign \subseteq foreign',
         NEW p \in Paths, Free(tree, p), NEW node \in Node,
         node.holds \in Groups => node.kind \in {"file", "link"},
         \A u : u[p] = node => Traced(u, foreign', p),
         \A u : \A r \in Above(p) : u[r] = Dir => Traced(u, foreign', r),
         tree' = With(tree, p, node)
  PROVE  /\ Inv'
         /\ \A r \in DOMAIN tree : r \in DOMAIN tree' /\ tree'[r] = tree[r]
<1>1. /\ Tree(tree', foreign')
      /\ \A r \in DOMAIN tree : r \in DOMAIN tree' /\ tree'[r] = tree[r]
  BY Grows DEF Inv
<1> QED
  BY <1>1, EventCounts DEF Inv

\* Another hand puts something there.
LEMMA PlantKeeps ==
  ASSUME Inv, NEW p \in Paths, Plant(p)
  PROVE  /\ Inv'
         /\ \A r \in DOMAIN tree : r \in DOMAIN tree' /\ tree'[r] = tree[r]
<1>1. PICK node \in Planted : tree' = With(tree, p, node)
  BY DEF Plant
<1>2. node \in Node /\ (node.holds \in Groups => node.kind \in {"file", "link"})
  BY LayoutAssumption DEF Planted, Node
<1>3. foreign' = foreign \union {p} /\ foreign' \subseteq Paths
  BY DEF Plant, Inv
<1>4. \A r \in Above(p) : IsPrefix(r, p)
  BY AboveOrders, PrefixMeans
<1>5. \A u : \A r \in Above(p) : u[r] = Dir => Traced(u, foreign', r)
  BY <1>3, <1>4, NodeKinds DEF Traced
<1>6. \A u : Traced(u, foreign', p)
  BY <1>3 DEF Traced
<1> QED
  BY <1>1, <1>2, <1>3, <1>5, <1>6, GrowKeeps DEF Plant

\* Another hand shuts a directory: nothing is moved, and it is traced.
LEMMA ShutKeeps ==
  ASSUME Inv, NEW p \in Paths, Shut(p)
  PROVE  Inv'
<1>1. /\ p \in DOMAIN tree /\ tree' = [tree EXCEPT ![p].open = FALSE]
      /\ foreign' = foreign \union {p} /\ foreign' \subseteq Paths
  BY DEF Shut, Seen, Inv
<1>2. tree[p] \in Node
  BY <1>1 DEF Inv, Tree, Sound
<1>3. tree'[p] = [tree[p] EXCEPT !.open = FALSE]
  BY <1>1
<1>4. DOMAIN tree' = DOMAIN tree /\ \A r \in DOMAIN tree : r # p => tree'[r] = tree[r]
  BY <1>1
<1>5. tree'[p] \in Node /\ tree'[p].kind = tree[p].kind /\ tree'[p].holds = tree[p].holds
  BY <1>2, <1>3 DEF Node
<1>6. ASSUME NEW r \in DOMAIN tree
      PROVE  Sound(tree', r) /\ KeyReached(tree', r) /\ Traced(tree', foreign', r)
  <2>1. Sound(tree, r) /\ KeyReached(tree, r) /\ Traced(tree, foreign, r)
    BY DEF Inv, Tree
  <2>2. Traced(tree', foreign', r)
    <3>1. CASE r = p
      BY <1>1, <3>1 DEF Traced
    <3>2. CASE r # p
      BY <1>1, <1>4, <2>1, <3>2, StaysTraced
    <3> QED
      BY <3>1, <3>2
  <2>3. \A q \in DOMAIN tree : tree'[q].kind = tree[q].kind /\ tree'[q].holds = tree[q].holds
    BY <1>4, <1>5
  <2>4. tree'[r] \in Node
    BY <1>4, <1>5, <2>1 DEF Sound
  <2> QED
    BY <1>4, <2>1, <2>2, <2>3, <2>4 DEF Sound, KeyReached
<1>7. Tree(tree', foreign')
  BY <1>4, <1>6 DEF Tree
<1> QED
  BY <1>1, <1>7, EventCounts DEF Inv, Shut

\* Where the keystore writes is explained, and so is every directory above it.
LEMMA WritesExplained ==
  ASSUME NEW p
  PROVE  /\ \A a \in Accounts : p \in {Vault(a), StagedVault(a)} =>
              Explained(p, "file") /\ \A r \in Above(p) : Explained(r, "dir")
         /\ \A g \in Groups : p \in {GroupKey(g), StagedKey(g)} =>
              Explained(p, "file") /\ \A r \in Above(p) : Explained(r, "dir")
         /\ \A n \in Imports : p = ImportScratch(n) =>
              Explained(p, "file") /\ \A r \in Above(p) : Explained(r, "dir")
         /\ p \in {Doc, DocStage, Lock} =>
              Explained(p, "file") /\ \A r \in Above(p) : Explained(r, "dir")
         /\ p = GroupDir \/ (\E x \in Accounts \union Groups \union Imports :
                               p \in {<<Stage(x)>>, GroupStage(x)}) =>
              \A r \in Above(p) : Explained(r, "dir")
<1>1. \A a \in Accounts : Above(Vault(a)) = {} /\ Above(StagedVault(a)) = {VaultStage(a)}
  BY ShortPaths DEF Vault, StagedVault, VaultStage
<1>2. \A g \in Groups : /\ Above(GroupKey(g)) = {GroupDir}
                        /\ Above(StagedKey(g)) = {GroupDir, GroupStage(g)}
  BY ShortPaths DEF GroupKey, StagedKey, GroupDir, GroupStage
<1>3. \A n \in Imports : Above(ImportScratch(n)) = {ImportStage(n)}
  BY ShortPaths DEF ImportScratch, ImportStage
<1>4. Above(Doc) = {} /\ Above(DocStage) = {} /\ Above(Lock) = {} /\ Above(GroupDir) = {}
  BY ShortPaths DEF Doc, DocStage, Lock, GroupDir
<1>5. \A x : Above(<<Stage(x)>>) = {} /\ Above(GroupStage(x)) = {GroupDir}
  BY ShortPaths DEF GroupStage, GroupDir
<1>6. ASSUME NEW a \in Accounts, p \in {Vault(a), StagedVault(a)}
      PROVE  Explained(p, "file") /\ \A r \in Above(p) : Explained(r, "dir")
  BY <1>1, <1>6 DEF Explained, HeldInStage
<1>7. ASSUME NEW g \in Groups, p \in {GroupKey(g), StagedKey(g)}
      PROVE  Explained(p, "file") /\ \A r \in Above(p) : Explained(r, "dir")
  BY <1>2, <1>7 DEF Explained, HeldInStage
<1>8. ASSUME NEW n \in Imports, p = ImportScratch(n)
      PROVE  Explained(p, "file") /\ \A r \in Above(p) : Explained(r, "dir")
  BY <1>3, <1>8 DEF Explained, HeldInStage
<1>9. ASSUME p \in {Doc, DocStage, Lock}
      PROVE  Explained(p, "file") /\ \A r \in Above(p) : Explained(r, "dir")
  BY <1>4, <1>9 DEF Explained
<1>10. ASSUME p = GroupDir \/ \E x \in Accounts \union Groups \union Imports :
                                p \in {<<Stage(x)>>, GroupStage(x)}
       PROVE  \A r \in Above(p) : Explained(r, "dir")
  BY <1>4, <1>5, <1>10 DEF Explained
<1> QED
  BY <1>6, <1>7, <1>8, <1>9, <1>10

\* A write of the keystore: what it leaves is explained.
LEMMA LeavesKeeps ==
  ASSUME Inv, NEW p \in Paths, Leaves(p)
  PROVE  /\ Inv'
         /\ \A r \in DOMAIN tree : r \in DOMAIN tree' /\ tree'[r] = tree[r]
<1> DEFINE Fits(node) ==
      /\ node \in Node /\ (node.holds \in Groups => node.kind \in {"file", "link"})
      /\ ~IsShut(node)
      /\ Explained(p, node.kind) /\ \A r \in Above(p) : Explained(r, "dir")
      /\ tree' = With(tree, p, node)
<1>1. PICK node : Fits(node)
  <2>1. ASSUME NEW key \in Accounts \union Groups \union {Nothing},
               Explained(p, "file") /\ \A r \in Above(p) : Explained(r, "dir"),
               tree' = With(tree, p, File(key))
        PROVE  \E node : Fits(node)
    BY <2>1, NodeKinds
  <2>2. ASSUME p = GroupDir \/ \E x \in Accounts \union Groups \union Imports :
                                p \in {<<Stage(x)>>, GroupStage(x)},
               Explained(p, "dir"), tree' = With(tree, p, Dir)
        PROVE  \E node : Fits(node)
    <3>1. \A r \in Above(p) : Explained(r, "dir")
      BY <2>2, WritesExplained
    <3> QED
      BY <2>2, <3>1, NodeKinds, LayoutAssumption
  <2> HIDE DEF Fits
  <2>3. ASSUME NEW a \in Accounts, p \in {Vault(a), StagedVault(a)},
               tree' = With(tree, p, File(a))
        PROVE  \E node : Fits(node)
    BY <2>1, <2>3, WritesExplained
  <2>4. ASSUME NEW g \in Groups, p \in {GroupKey(g), StagedKey(g)},
               tree' = With(tree, p, File(g))
        PROVE  \E node : Fits(node)
    BY <2>1, <2>4, WritesExplained
  <2>5. ASSUME NEW n \in Imports, NEW a \in Accounts, p = ImportScratch(n),
               tree' = With(tree, p, File(a))
        PROVE  \E node : Fits(node)
    BY <2>1, <2>5, WritesExplained
  <2>6. ASSUME p \in {Doc, DocStage, Lock}, tree' = With(tree, p, File(Nothing))
        PROVE  \E node : Fits(node)
    BY <2>1, <2>6, WritesExplained
  <2> QED
    BY <2>2, <2>3, <2>4, <2>5, <2>6 DEF Leaves
<1>2. Event /\ Free(tree, p) /\ foreign' = foreign /\ foreign \subseteq Paths
  BY DEF Leaves, Inv
<1>3. \A u : u[p] = node => Traced(u, foreign', p)
  BY <1>1 DEF Traced
<1>4. \A u : \A r \in Above(p) : u[r] = Dir => Traced(u, foreign', r)
  BY <1>1, NodeKinds DEF Traced
<1> QED
  BY <1>1, <1>2, <1>3, <1>4, GrowKeeps

\* settle and the listings.
LEMMA SettleKeeps ==
  ASSUME Inv, Settle
  PROVE  Inv'
<1>1. Tree(tree', foreign')
  BY Settles DEF Inv, Settle
<1> QED
  BY <1>1 DEF Inv, Settle

\* What is reported is no vault at its path.
LEMMA LookKeeps ==
  ASSUME Inv, NEW q \in Procs, Look(q)
  PROVE  Inv'
<1>1. PICK p \in UnexplainedAll(tree) :
        call' = [call EXCEPT ![q] = [path |-> p, seen |-> tree[p]]]
  BY DEF Look
<1>2. p \in DOMAIN tree
  BY DEF UnexplainedAll, Stray, NotExplained, PossibleKeys, DocStages, SeenAs, Seen
<1>3. p \in Paths /\ tree[p] \in Node
  BY <1>2 DEF Inv, Tree, Sound
<1>4. ASSUME NEW a \in Accounts, p = Vault(a), tree[p].kind = "file"
      PROVE  FALSE
  <2>1. Explained(p, tree[p].kind)
    BY <1>4 DEF Explained
  <2>2. ~IsShut(tree[p])
    BY <1>4 DEF IsShut
  <2>3. p # DocStage
    BY <1>4, Names
  <2> QED
    BY <2>1, <2>2, <2>3 DEF UnexplainedAll, Stray, NotExplained, PossibleKeys, DocStages
<1>5. NotAVault([path |-> p, seen |-> tree[p]])
  BY <1>4 DEF NotAVault
<1>6. \A r \in Procs : NotAVault(call'[r])
  BY <1>1, <1>5 DEF Inv
<1>7. call' \in [Procs -> [path : Paths, seen : Node] \union {NoCall}]
  BY <1>1, <1>3 DEF Inv
<1> QED
  BY <1>6, <1>7 DEF Inv, Look

\* A removal leaves a tree with everything that is not below its path.
LEMMA RemovalKeeps ==
  ASSUME Inv, NEW q \in Procs, RemoveUnexplained(q)
  PROVE  /\ Inv'
         /\ \A a \in Accounts :
              /\ Vault(a) \in DOMAIN tree /\ tree[Vault(a)].kind = "file"
              /\ call[q].path # Vault(a)
              => Vault(a) \in DOMAIN tree' /\ tree'[Vault(a)] = tree[Vault(a)]
<1> DEFINE p == call[q].path
           Kept(t, u) == \A a \in Accounts :
              /\ Vault(a) \in DOMAIN t /\ t[Vault(a)].kind = "file" /\ p # Vault(a)
              => Vault(a) \in DOMAIN u /\ u[Vault(a)] = t[Vault(a)]
<1>0. p \in Paths /\ Tree(tree, foreign)
  BY DEF Inv, RemoveUnexplained
<1>1. ASSUME NEW t, Tree(t, foreign), NEW u \in Settlings(t)
      PROVE  Tree(u, foreign) /\ Kept(t, u)
  BY <1>1, Settles DEF Exists
<1>2. ASSUME p \in DOMAIN tree, NEW u \in PathRemoved(tree, p)
      PROVE  Tree(u, foreign) /\ Kept(tree, u)
  <2>1. /\ Tree(u, foreign)
        /\ \A r \in DOMAIN tree : ~IsPrefix(p, r) => r \in DOMAIN u /\ u[r] = tree[r]
    BY <1>0, <1>2, Removes
  <2>2. ASSUME NEW a \in Accounts, Vault(a) \in DOMAIN tree, p # Vault(a)
        PROVE  ~IsPrefix(p, Vault(a))
    <3>1. Above(Vault(a)) = {}
      BY ShortPaths DEF Vault
    <3>2. Vault(a) \in Paths
      BY <1>0, <2>2 DEF Tree, Sound
    <3> QED
      BY <1>0, <2>2, <3>1, <3>2, PrefixMeans
  <2> QED
    BY <2>1, <2>2
<1>3. Tree(tree', foreign) /\ Kept(tree, tree')
  <2>1. CASE tree' \in Settlings(tree)
    BY <1>0, <1>1, <2>1
  <2>2. CASE tree' = tree
    BY <1>0, <2>2
  <2>3. ASSUME p \in DOMAIN tree, NEW u \in PathRemoved(tree, p),
               tree' = u \/ tree' \in Settlings(u)
        PROVE  Tree(tree', foreign) /\ Kept(tree, tree')
    <3>1. Tree(u, foreign) /\ Kept(tree, u)
      BY <1>2, <2>3
    <3>2. CASE tree' = u
      BY <3>1, <3>2
    <3>3. CASE tree' \in Settlings(u)
      <4>1. Tree(tree', foreign) /\ Kept(u, tree')
        BY <1>1, <3>1, <3>3
      <4> QED
        BY <3>1, <4>1
    <3> QED
      BY <2>3, <3>2, <3>3
  <2>4. \/ tree' \in Settlings(tree) \/ tree' = tree
        \/ p \in DOMAIN tree /\ \E u \in PathRemoved(tree, p) :
             tree' = u \/ tree' \in Settlings(u)
    BY DEF RemoveUnexplained
  <2> QED
    BY <2>1, <2>2, <2>3, <2>4
<1>4. /\ call' \in [Procs -> [path : Paths, seen : Node] \union {NoCall}]
      /\ \A r \in Procs : NotAVault(call'[r])
  BY DEF Inv, RemoveUnexplained, NotAVault
<1>5. foreign' = foreign /\ events' = events
  BY DEF RemoveUnexplained
<1> QED
  BY <1>3, <1>4, <1>5 DEF Inv

\* What an account that opens is.
LEMMA OpensMeans ==
  ASSUME NEW t, NEW a \in Accounts
  PROVE  Opens(t, a) <=> /\ Vault(a) \in DOMAIN t
                         /\ t[Vault(a)].kind = "file" /\ t[Vault(a)].open
                         /\ t[Vault(a)].holds = a
  BY SeenShallow DEF Opens, Vaults, SeenAs, Vault

\* A deletion removes one vault and keeps every other that opens.
LEMMA DeleteKeeps ==
  ASSUME Inv, NEW a \in Accounts, Delete(a)
  PROVE  /\ Inv'
         /\ \A b \in Accounts \ {a} :
              Vault(b) \in DOMAIN tree /\ tree[Vault(b)].kind = "file"
              => Vault(b) \in DOMAIN tree' /\ tree'[Vault(b)] = tree[Vault(b)]
<1> DEFINE Kept(t, u) == \A b \in Accounts \ {a} :
              Vault(b) \in DOMAIN t /\ t[Vault(b)].kind = "file"
              => Vault(b) \in DOMAIN u /\ u[Vault(b)] = t[Vault(b)]
<1>1. ASSUME NEW t, Tree(t, foreign), NEW u \in Settlings(t)
      PROVE  Tree(u, foreign) /\ Kept(t, u)
  BY <1>1, Settles DEF Exists
<1>2. PICK t : /\ t = tree \/ t \in Settlings(tree)
               /\ IF Opens(t, a) THEN tree' \in Settlings(Without(t, {Vault(a)}))
                                 ELSE tree' = t
  BY DEF Delete
<1>3. Tree(t, foreign) /\ Kept(tree, t)
  BY <1>1, <1>2 DEF Inv
<1>4. Tree(tree', foreign) /\ Kept(t, tree')
  <2>1. CASE tree' = t
    BY <1>3, <2>1
  <2>2. CASE Opens(t, a) /\ tree' \in Settlings(Without(t, {Vault(a)}))
    <3> DEFINE u == Without(t, {Vault(a)})
    <3>1. t[Vault(a)].kind # "dir"
      BY <2>2, OpensMeans
    <3>2. \A q \in {Vault(a)} : \A r \in DOMAIN t : q \in Above(r) => r \in {Vault(a)}
      BY <1>3, <3>1, LeafHasNothing
    <3>3. /\ Tree(u, foreign) /\ DOMAIN u = DOMAIN t \ {Vault(a)}
          /\ \A r \in DOMAIN t \ {Vault(a)} : u[r] = t[r]
      BY <1>3, <3>2, Shrinks
    <3>4. tree' \in Settlings(u)
      BY <2>2
    <3> HIDE DEF u
    <3>5. Tree(tree', foreign) /\ Kept(u, tree')
      BY <1>1, <3>3, <3>4
    <3>6. Kept(t, u)
      BY <3>3, Names
    <3> QED
      BY <3>5, <3>6
  <2> QED
    BY <1>2, <2>1, <2>2
<1> QED
  BY <1>3, <1>4 DEF Inv, Delete

\* Every step keeps the invariant.
LEMMA NextKeeps == Inv /\ [Next]_vars => Inv'
<1> SUFFICES ASSUME Inv, [Next]_vars PROVE Inv'
  OBVIOUS
<1>1. CASE UNCHANGED vars
  BY <1>1 DEF Inv, vars
<1>2. CASE Next
  BY <1>2, PlantKeeps, ShutKeeps, LeavesKeeps, SettleKeeps, LookKeeps,
     RemovalKeeps, DeleteKeeps DEF Next
<1> QED
  BY <1>1, <1>2

\* Inv is an invariant, whatever the accounts, the wallets and the paths.
THEOREM AlwaysInv == Spec => []Inv
  BY InitKeeps, NextKeeps, PTL DEF Spec

-----------------------------------------------------------------------------
(* What the invariant says of the reports. *)

\* What is not seen is below a directory that is, and is not entered.
LEMMA UnseenIsBelow ==
  ASSUME NEW t, NEW f, Tree(t, f), NEW p \in DOMAIN t, ~Seen(t, p)
  PROVE  \E q \in DOMAIN t :
           /\ Seen(t, q) /\ t[q].kind = "dir" /\ ~Enters(t, q)
           /\ t[q] \in Node /\ IsPrefix(q, p) /\ Len(q) \in Nat
<1>0. p \in Paths /\ \A q \in Above(p) : q \in DOMAIN t /\ t[q].kind = "dir"
  BY DEF Tree, Sound
<1>1. Len(p) \in Nat \ {0}
  BY <1>0, PathIsSeq
<1> DEFINE Stops(n) == n \in 1 .. Len(p) - 1 /\ ~Enters(t, SubSeq(p, 1, n))
<1>2. PICK k \in 1 .. Len(p) - 1 : Stops(k)
  BY DEF Seen
<1>3. PICK n \in 1 .. 3 : Stops(n) /\ \A m \in 1 .. n - 1 : ~Stops(m)
  <2>1. k > 3 => Stops(3)
    <3>1. k > 3 => 3 \in 1 .. Len(p) - 1
      BY <1>1, <1>2
    <3>2. 3 \in 1 .. Len(p) - 1 => Len(SubSeq(p, 1, 3)) = 3
      BY <1>0, AbovePath
    <3> QED
      BY <3>1, <3>2 DEF Enters, MaxDepth
  <2> HIDE DEF Stops
  <2>2. Stops(1) \/ Stops(2) \/ Stops(3)
    BY <1>1, <1>2, <2>1
  <2>3. CASE Stops(1)
    BY <2>3
  <2>4. CASE ~Stops(1) /\ Stops(2)
    BY <2>4
  <2>5. CASE ~Stops(1) /\ ~Stops(2) /\ Stops(3)
    BY <2>5
  <2> QED
    BY <2>2, <2>3, <2>4, <2>5
<1> DEFINE q == SubSeq(p, 1, n)
<1>4. n \in 1 .. Len(p) - 1 /\ ~Enters(t, q)
  BY <1>3
<1>5. /\ q \in Paths /\ q \in Above(p) /\ Len(q) = n
      /\ \A m \in 1 .. n : SubSeq(q, 1, m) = SubSeq(p, 1, m)
  BY <1>0, <1>4, AbovePath
<1>6. \A m \in 1 .. n - 1 : Enters(t, SubSeq(p, 1, m))
  BY <1>1, <1>3, <1>4
<1> HIDE DEF q
<1>7. q \in DOMAIN t /\ t[q].kind = "dir" /\ t[q] \in Node
  BY <1>0, <1>5 DEF Tree, Sound
<1>8. Seen(t, q)
  <2>1. \A m \in 1 .. n - 1 : SubSeq(q, 1, m) = SubSeq(p, 1, m)
    BY <1>1, <1>4, <1>5
  <2>2. \A m \in 1 .. n - 1 : Enters(t, SubSeq(q, 1, m))
    BY <1>6, <2>1
  <2> QED
    BY <1>5, <1>7, <2>2 DEF Seen
<1>9. IsPrefix(q, p)
  BY <1>0, <1>5, PrefixMeans
<1> QED
  BY <1>4, <1>5, <1>7, <1>8, <1>9 DEF q

\* A directory that is seen and not entered is among the possible keys: it
\* cannot be read, or it is deeper than anything the layout explains.
LEMMA UnenteredReported ==
  ASSUME NEW t, NEW q \in DOMAIN t, Seen(t, q), t[q].kind = "dir", ~Enters(t, q),
         Len(q) \in Nat, t[q] \in Node
  PROVE  q \in PossibleKeys(t)
<1>1. CASE ~t[q].open
  BY <1>1 DEF PossibleKeys, IsShut
<1>2. CASE t[q].open
  <2>1. Len(q) >= 3
    BY <1>2 DEF Enters, MaxDepth
  <2>2. \A x : Len(<<x>>) = 1
    OBVIOUS
  <2>3. \A x, y : Len(<<x, y>>) = 2
    OBVIOUS
  <2>4. ASSUME Explained(q, "dir") PROVE Len(q) < 3
    <3>1. (\E x : q = <<x>>) \/ (\E x, y : q = <<x, y>>)
      BY <2>4 DEF Explained, GroupDir, VaultStage, ImportStage, GroupStage
    <3> QED
      BY <2>2, <2>3, <3>1
  <2>5. ~Explained(q, t[q].kind)
    BY <2>1, <2>4
  <2>6. CouldBeKey(t, q)
    BY DEF CouldBeKey, MayHoldKey
  <2> QED
    BY <2>5, <2>6 DEF PossibleKeys, NotExplained
<1> QED
  BY <1>1, <1>2 DEF Node

\* A report of possible keys is a report.
LEMMA PossibleReported ==
  ASSUME NEW t, NEW p, Covers(PossibleKeys(t), p)
  PROVE  Covers(UnexplainedAll(t), p)
  BY DEF Covers, UnexplainedAll, Stray

\* What is not seen is covered by the report of what is above it.
LEMMA UnseenCovered ==
  ASSUME Inv, NEW p \in DOMAIN tree, ~Seen(tree, p)
  PROVE  Covers(PossibleKeys(tree), p)
  BY UnseenIsBelow, UnenteredReported DEF Inv, Covers

\* What is seen is named or reported; what is not is below something reported.
LEMMA InvHidesNothing == Inv => NothingHidden
<1> SUFFICES ASSUME Inv, NEW p \in DOMAIN tree,
                    tree[p].kind = "file", p \notin {Doc, Lock}
             PROVE  \/ p \in {Vault(a) : a \in Vaults(tree)}
                               \union {StagedVault(a) : a \in StagedVaults(tree)}
                               \union {ImportScratch(n) : n \in ImportStages(tree)}
                               \union {GroupKey(g) : g \in Keys(tree)}
                               \union {StagedKey(g) : g \in StagedKeys(tree)}
                    \/ Covers(UnexplainedAll(tree), p)
  BY DEF NothingHidden
<1>0. p \in Paths
  BY DEF Inv, Tree, Sound
<1>1. p \in UnexplainedAll(tree) => Covers(UnexplainedAll(tree), p)
  BY <1>0, PrefixMeans DEF Covers
<1>2. CASE ~Seen(tree, p)
  BY <1>2, UnseenCovered, PossibleReported
<1>3. CASE Seen(tree, p) /\ ~Explained(p, "file")
  BY <1>1, <1>3 DEF UnexplainedAll, Stray, NotExplained
<1>4. CASE Seen(tree, p) /\ Explained(p, "file")
  <2>1. CASE p = DocStage
    BY <1>1, <1>4, <2>1 DEF UnexplainedAll, DocStages, SeenAs
  <2>2. ASSUME NEW a \in Accounts, p = Vault(a) PROVE a \in Vaults(tree)
    BY <1>4, <2>2 DEF Vaults, SeenAs
  <2>3. ASSUME NEW a \in Accounts, p = StagedVault(a) PROVE a \in StagedVaults(tree)
    BY <1>4, <2>3 DEF StagedVaults, SeenAs
  <2>4. ASSUME NEW n \in Imports, p = ImportScratch(n) PROVE n \in ImportStages(tree)
    <3>1. Above(p) = {<<Stage(n)>>}
      BY <2>4, ShortPaths DEF ImportScratch
    <3>2. <<Stage(n)>> \in DOMAIN tree /\ tree[<<Stage(n)>>].kind = "dir"
      BY <3>1 DEF Inv, Tree, Sound
    <3> QED
      BY <3>2, SeenShallow DEF ImportStages, SeenAs, ImportStage
  <2>5. ASSUME NEW g \in Groups, p = GroupKey(g) PROVE g \in Keys(tree)
    BY <1>4, <2>5 DEF Keys, SeenAs
  <2>6. ASSUME NEW g \in Groups, p = StagedKey(g) PROVE g \in StagedKeys(tree)
    BY <1>4, <2>6 DEF StagedKeys, SeenAs
  <2>7. \/ p = DocStage
        \/ \E a \in Accounts : p = Vault(a) \/ p = StagedVault(a)
        \/ \E n \in Imports : p = ImportScratch(n)
        \/ \E g \in Groups : p = GroupKey(g) \/ p = StagedKey(g)
    BY <1>4 DEF Explained, HeldInStage
  <2> QED
    BY <2>1, <2>2, <2>3, <2>4, <2>5, <2>6, <2>7
<1> QED
  BY <1>2, <1>3, <1>4

\* A wallet's key is in a file, which then may hold a key, or behind a link,
\* which no shape of the keystore is.
LEMMA InvAssumesWorst == Inv => WorstCaseAssumed
<1> SUFFICES ASSUME Inv, NEW p \in DOMAIN tree, tree[p].holds \in Groups,
                    ~Explained(p, tree[p].kind)
             PROVE  Covers(IF tree[p].kind = "link" THEN UnexplainedAll(tree)
                                                    ELSE PossibleKeys(tree), p)
  BY DEF WorstCaseAssumed
<1>1. p \in Paths /\ tree[p].kind \in {"file", "link"}
  BY DEF Inv, Tree, Sound, KeyReached
<1>2. CASE ~Seen(tree, p)
  BY <1>2, UnseenCovered, PossibleReported
<1>3. CASE Seen(tree, p) /\ tree[p].kind = "file"
  <2>1. CouldBeKey(tree, p)
    BY <1>3, LayoutAssumption DEF CouldBeKey, MayHoldKey
  <2>2. p \in PossibleKeys(tree)
    BY <1>3, <2>1 DEF PossibleKeys, NotExplained
  <2> QED
    BY <1>1, <1>3, <2>2, PrefixMeans DEF Covers
<1>4. CASE Seen(tree, p) /\ tree[p].kind = "link"
  <2>1. p \in UnexplainedAll(tree)
    BY <1>4 DEF UnexplainedAll, Stray, NotExplained
  <2> QED
    BY <1>1, <1>4, <2>1, PrefixMeans DEF Covers
<1> QED
  BY <1>1, <1>2, <1>3, <1>4

\* What is stray is not explained, so it is traced to another hand.
LEMMA InvTracesStray == Inv => OwnWritesExplained
<1> SUFFICES ASSUME Inv, NEW p \in Stray(tree)
             PROVE  \E f \in foreign :
                      \/ IsPrefix(p, f)
                      \/ \E a \in Accounts : p = Vault(a) /\ f = StagedVault(a)
  BY DEF OwnWritesExplained
<1>1. p \in DOMAIN tree /\ (~Explained(p, tree[p].kind) \/ IsShut(tree[p]))
  BY DEF Stray, NotExplained, PossibleKeys
<1>2. p \in Paths /\ Traced(tree, foreign, p)
  BY <1>1 DEF Inv, Tree, Sound
<1> QED
  BY <1>1, <1>2, PrefixMeans DEF Traced

\* The types are part of the invariant.
LEMMA InvTypes == Inv => TypeOK
  BY DEF Inv, Tree, Sound, TypeOK

\* Nodes and calls have their types, and a tree is closed.
THEOREM TypeCorrect == Spec => []TypeOK
  BY AlwaysInv, InvTypes, PTL

\* No file with a key in it is hidden from the report, whatever is put where.
THEOREM HidesNothing == Spec => []NothingHidden
  BY AlwaysInv, InvHidesNothing, PTL

\* A file with a wallet's key that has no name of the keystore's is reported as
\* a possible key, and a link to one as a link (could_be_key, look in layout.rs).
THEOREM AssumesWorst == Spec => []WorstCaseAssumed
  BY AlwaysInv, InvAssumesWorst, PTL

\* What the keystore writes itself is never reported as unexplained.
THEOREM ExplainsOwn == Spec => []OwnWritesExplained
  BY AlwaysInv, InvTracesStray, PTL

-----------------------------------------------------------------------------
(* What a step does to accounts. *)

\* An account stops opening only when it is deleted, or in a removal of what
\* was something else when it was reported.
LEMMA StepSpares ==
  ASSUME Inv, [Next]_vars, NEW a \in Accounts, Opens(tree, a), ~Opens(tree', a)
  PROVE  \/ Delete(a)
         \/ \E p \in Paths : Shut(p)
         \/ \E q \in Procs : /\ call[q] # NoCall /\ RemoveUnexplained(q)
                             /\ call[q].path = Vault(a)
                             /\ call[q].seen # tree[Vault(a)]
<1>0. Vault(a) \in DOMAIN tree /\ tree[Vault(a)].kind = "file"
  BY OpensMeans
<1>1. ~(Vault(a) \in DOMAIN tree' /\ tree'[Vault(a)] = tree[Vault(a)])
  BY OpensMeans
<1>2. CASE UNCHANGED vars
  BY <1>0, <1>1, <1>2 DEF vars
<1>3. ASSUME NEW p \in Paths, Plant(p) \/ Leaves(p) PROVE FALSE
  BY <1>0, <1>1, <1>3, PlantKeeps, LeavesKeeps
<1>4. CASE Settle
  BY <1>0, <1>1, <1>4, Settles DEF Settle, Inv, Exists
<1>5. ASSUME NEW q \in Procs, Look(q) PROVE FALSE
  BY <1>0, <1>1, <1>5 DEF Look
<1>6. ASSUME NEW q \in Procs, RemoveUnexplained(q)
      PROVE  /\ call[q] # NoCall /\ call[q].path = Vault(a)
             /\ call[q].seen # tree[Vault(a)]
  <2>1. call[q].path = Vault(a)
    BY <1>0, <1>1, <1>6, RemovalKeeps
  <2>2. call[q] # NoCall /\ NotAVault(call[q])
    BY <1>6 DEF RemoveUnexplained, Inv
  <2> QED
    BY <1>0, <2>1, <2>2 DEF NotAVault
<1>7. ASSUME NEW b \in Accounts, Delete(b) PROVE b = a
  BY <1>0, <1>1, <1>7, DeleteKeeps
<1> QED
  BY <1>2, <1>3, <1>4, <1>5, <1>6, <1>7 DEF Next

\* An account that opens is lost to its deletion alone, or to a removal of what
\* was something else when it was reported.
THEOREM SparesAccounts == Spec => AccountsSpared
<1> DEFINE Lost == \A a \in Accounts :
       Opens(tree, a) /\ ~Opens(tree', a)
         => \/ Delete(a)
            \/ \E p \in Paths : Shut(p)
            \/ \E q \in Procs : /\ call[q] # NoCall /\ RemoveUnexplained(q)
                                /\ call[q].path = Vault(a)
                                /\ call[q].seen # tree[Vault(a)]
<1>1. Inv /\ [Next]_vars => [Lost]_vars
  BY StepSpares
<1> QED
  BY <1>1, AlwaysInv, PTL DEF Spec, AccountsSpared

\* settle takes a staged vault that can be read to its account's path, or finds
\* something there.
LEMMA SettleBrings ==
  ASSUME Inv, Settle, NEW a \in Accounts, Openable(tree, StagedVault(a))
  PROVE  Vault(a) \in DOMAIN tree'
<1>0. Tree(tree, foreign) /\ tree' \in Settlings(tree)
  BY DEF Inv, Settle
<1>1. CASE Exists(tree, Vault(a))
  BY <1>0, <1>1, Settles
<1>2. CASE ~Exists(tree, Vault(a))
  <2>1. StagedVault(a) \in DOMAIN tree
    BY DEF Openable, Seen
  <2>2. Above(StagedVault(a)) = {VaultStage(a)}
    BY ShortPaths DEF StagedVault, VaultStage
  <2>3. VaultStage(a) \in DOMAIN tree /\ tree[VaultStage(a)].kind = "dir"
    BY <1>0, <2>1, <2>2 DEF Tree, Sound
  <2>4. a \in VaultStages(tree)
    BY <2>3, SeenShallow DEF VaultStages, SeenAs, VaultStage
  <2>5. a \in Moving(tree)
    BY <1>2, <2>4 DEF Moving, Promotable
  <2> QED
    BY <1>0, <2>5, Settles
<1> QED
  BY <1>1, <1>2

\* A staged vault that can be read is not swept away without a trace.
THEOREM KeepsStaged == Spec => StagedKept
<1> DEFINE Stays == \A a \in Accounts :
       LET p == StagedVault(a)
       IN  Openable(tree, p) /\ p \notin DOMAIN tree' /\ Settle
             => Vault(a) \in DOMAIN tree'
<1>1. Inv /\ [Next]_vars => [Stays]_vars
  BY SettleBrings
<1> QED
  BY <1>1, AlwaysInv, PTL DEF Spec, StagedKept

-----------------------------------------------------------------------------
(* What a removal that fails leaves in the report. *)

\* Two beginnings of one path: one of them begins the other.
LEMMA BeginningsCompare ==
  ASSUME NEW r \in Paths, NEW p \in Paths, NEW q \in Paths,
         IsPrefix(p, r), IsPrefix(q, r)
  PROVE  q = p \/ q \in Above(p) \/ IsStrictPrefix(p, q)
<1>0. /\ Len(p) \in Nat \ {0} /\ Len(q) \in Nat \ {0} /\ Len(r) \in Nat \ {0}
      /\ p \in Seq(Name) /\ q \in Seq(Name)
  BY PathIsSeq
<1>1. /\ p = SubSeq(r, 1, Len(p)) /\ q = SubSeq(r, 1, Len(q))
      /\ Len(p) <= Len(r) /\ Len(q) <= Len(r)
  BY <1>0, SubSeqFull DEF IsPrefix
<1>2. \A x, y \in Paths :
        /\ x = SubSeq(r, 1, Len(x)) /\ y = SubSeq(r, 1, Len(y))
        /\ Len(x) \in Nat \ {0} /\ Len(y) \in Nat /\ Len(x) < Len(y) /\ Len(y) <= Len(r)
        => x \in Above(y)
  <2> SUFFICES ASSUME NEW x \in Paths, NEW y \in Paths,
                 x = SubSeq(r, 1, Len(x)), y = SubSeq(r, 1, Len(y)),
                 Len(x) \in Nat \ {0}, Len(y) \in Nat,
                 Len(x) < Len(y), Len(y) <= Len(r)
               PROVE  x \in Above(y)
    BY SMTT(30)
  <2>1. CASE Len(y) = Len(r)
    <3>1. y = r
      BY <2>1, PathIsSeq, SubSeqFull
    <3>2. Len(x) \in 1 .. Len(y) - 1
      OBVIOUS
    <3> QED
      BY <3>1, <3>2 DEF Above
  <2>2. CASE Len(y) < Len(r)
    <3>1. Len(y) \in 1 .. Len(r) - 1 /\ Len(x) \in 1 .. Len(y) /\ Len(x) \in 1 .. Len(y) - 1
      BY <1>0, <2>2
    <3>2. SubSeq(y, 1, Len(x)) = x
      BY SMTT(30), <3>1, AbovePath
    <3> QED
      BY <3>1, <3>2 DEF Above
  <2> QED
    BY <1>0, <2>1, <2>2
<1>3. CASE Len(q) = Len(p)
  BY <1>1, <1>3
<1>4. CASE Len(q) < Len(p)
  BY <1>0, <1>1, <1>2, <1>4
<1>5. CASE Len(p) < Len(q)
  <2>1. p \in Above(q)
    BY <1>0, <1>1, <1>2, <1>5
  <2> QED
    BY <2>1, AboveOrders, PrefixMeans DEF IsStrictPrefix
<1> QED
  BY <1>0, <1>3, <1>4, <1>5

\* Clearing adds nothing.
LEMMA ClearsWithin ==
  ASSUME NEW t, NEW dirs, NEW u \in Cleared(t, dirs)
  PROVE  DOMAIN u \subseteq DOMAIN t
<1>1. \E gone : u = Without(t, gone)
  BY DEF Cleared
<1> QED
  BY <1>1 DEF Without, Restrict

\* What settle adds to a tree is a vault that it takes from its stage.
LEMMA SettlesOnly ==
  ASSUME NEW t, NEW f, Tree(t, f), NEW u \in Settlings(t), NEW p \in DOMAIN u \ DOMAIN t
  PROVE  \E a \in Accounts : p = Vault(a) /\ StagedVault(a) \in DOMAIN t \ DOMAIN u
<1>1. DOMAIN u \subseteq DOMAIN Mended(t)
  BY SettlingsMean, ClearsWithin
<1>2. PICK a \in Moving(t) : p = Vault(a)
  BY <1>1, MendedNodes
<1>3. a \in Accounts /\ StagedVault(a) \in DOMAIN t
  BY MendedNodes
<1>4. \A b \in Moving(t) : StagedVault(a) # Vault(b)
  BY MendedNodes, Names
<1>5. StagedVault(a) \notin DOMAIN Mended(t)
  BY <1>4 DEF Mended
<1> QED
  BY <1>1, <1>2, <1>3, <1>5

\* A directory that was cleared and is still there holds one that is shut.
LEMMA ClearedStuck ==
  ASSUME NEW t, NEW p \in Paths, p \in DOMAIN t,
         NEW u \in Cleared(t, {p}), p \in DOMAIN u
  PROVE  Stuck(t, p) /\ \A r \in DOMAIN t : Stuck(t, r) => r \in DOMAIN u /\ u[r] = t[r]
<1> DEFINE whole == UNION {Below(t, d) : d \in {e \in {p} : ~Stuck(t, e)}}
<1>1. PICK gone : /\ \A r \in gone : ~Stuck(t, r)
                  /\ u = Without(t, whole \union gone)
  BY DEF Cleared
<1>2. p \in Below(t, p)
  BY PrefixMeans DEF Below
<1>3. p \notin whole
  BY <1>1 DEF Without, Restrict
<1>4. Stuck(t, p)
  BY <1>2, <1>3
<1>5. whole = {}
  BY <1>4
<1> HIDE DEF whole
<1> QED
  BY <1>1, <1>4, <1>5 DEF Without, Restrict

\* A removal that leaves its path leaves something shut below it.
LEMMA RemovedShut ==
  ASSUME NEW t, NEW f, Tree(t, f), NEW p \in DOMAIN t, \A d \in Above(p) : t[d].open,
         NEW u \in PathRemoved(t, p), p \in DOMAIN u
  PROVE  /\ \A d \in Above(p) \union {p} : u[d].open
         /\ \E r \in DOMAIN u : IsStrictPrefix(p, r) /\ IsShut(u[r])
<1>0. p \in Paths
  BY DEF Tree, Sound
<1>1. t[p].kind = "dir"
  BY DEF PathRemoved, Without, Restrict
<1>2. PICK w \in Cleared(t, {p}) :
        u \in IF p \in DOMAIN w THEN Cleared(Reopened(w, p), {p}) ELSE {w}
  BY <1>1 DEF PathRemoved
<1>3. p \in DOMAIN w
  BY <1>2
<1> DEFINE v == Reopened(w, p)
<1>4. u \in Cleared(v, {p})
  BY <1>2, <1>3
<1>5. Tree(w, f) /\ Rest(t, w, {p})
  BY <1>0, Clears
<1>6. DOMAIN v = DOMAIN w /\ \A r \in DOMAIN w : r # p => v[r] = w[r]
  BY DEF Reopened
<1>7. v[p].open
  <2>1. w[p] \in Node
    BY <1>3, <1>5 DEF Tree, Sound
  <2>2. v[p] = [w[p] EXCEPT !.open = TRUE]
    BY <1>3 DEF Reopened
  <2> QED
    BY <2>1, <2>2 DEF Node
<1> HIDE DEF v
<1>8. Stuck(v, p) /\ \A r \in DOMAIN v : Stuck(v, r) => r \in DOMAIN u /\ u[r] = v[r]
  BY <1>0, <1>3, <1>4, <1>6, ClearedStuck
<1>9. \A d \in Above(p) : d \in DOMAIN v /\ v[d].open
  <2>1. \A d \in Above(p) : d \in DOMAIN w /\ d # p
    BY <1>0, <1>3, <1>5, AboveOrders DEF Tree, Sound
  <2> QED
    BY <1>5, <1>6, <2>1 DEF Rest
<1>10. PICK r \in DOMAIN v : IsShut(v[r]) /\ (IsPrefix(p, r) \/ IsPrefix(r, p))
  BY <1>8 DEF Stuck
<1>11. r \in Paths /\ r # p /\ r \notin Above(p)
  <2>1. r \in Paths
    BY <1>5, <1>6 DEF Tree, Sound
  <2> QED
    BY <1>7, <1>9, <1>10, <2>1 DEF IsShut
<1>12. IsStrictPrefix(p, r)
  BY <1>0, <1>10, <1>11, PrefixMeans DEF IsStrictPrefix
<1>13. r \in DOMAIN u /\ u[r] = v[r]
  <2>1. IsPrefix(r, r)
    BY <1>11, PrefixMeans
  <2> QED
    BY <1>8, <1>10, <2>1 DEF Stuck
<1>14. ASSUME NEW d \in Above(p) \union {p} PROVE u[d].open
  <2>1. d \in DOMAIN v /\ v[d].open
    BY <1>3, <1>6, <1>7, <1>9
  <2>2. IsPrefix(d, p) \/ d = p
    BY <1>0, AboveOrders, PrefixMeans
  <2>3. d \in Paths
    BY <1>0, AboveOrders
  <2>4. IsPrefix(d, r)
    <3>1. p \in Above(r)
      BY <1>0, <1>11, <1>12, PrefixMeans DEF IsStrictPrefix
    <3>2. d \in Above(r)
      BY <1>11, <3>1, AboveOrders
    <3> QED
      BY <1>11, <2>3, <3>2, PrefixMeans
  <2>5. Stuck(v, d)
    BY <1>10, <2>4 DEF Stuck
  <2> QED
    BY <1>8, <2>1, <2>5
<1> QED
  BY <1>10, <1>12, <1>13, <1>14

\* Something shut below an open path is reported, or something above it is
\* that is below that path, or it is deeper than the scan goes.
LEMMA ShutReported ==
  ASSUME NEW t, NEW f, Tree(t, f), NEW p \in DOMAIN t,
         \A d \in Above(p) \union {p} : t[d].open,
         NEW r \in DOMAIN t, IsStrictPrefix(p, r), IsShut(t[r]), ~(Len(r) > MaxDepth)
  PROVE  \E s \in UnexplainedAll(t) : IsStrictPrefix(p, s)
<1>0. p \in Paths /\ r \in Paths /\ IsPrefix(p, r) /\ Len(r) \in Nat
  BY PathIsSeq DEF Tree, Sound, IsStrictPrefix
<1>1. CASE Seen(t, r)
  BY <1>1 DEF UnexplainedAll, Stray, PossibleKeys
<1>2. CASE ~Seen(t, r)
  <2>1. PICK s \in DOMAIN t :
          /\ Seen(t, s) /\ t[s].kind = "dir" /\ ~Enters(t, s)
          /\ t[s] \in Node /\ IsPrefix(s, r) /\ Len(s) \in Nat
    BY <1>2, UnseenIsBelow
  <2>2. s \in Paths /\ s # r
    BY <1>2, <2>1 DEF Tree, Sound
  <2>3. s \in Above(r)
    BY <1>0, <2>1, <2>2, PrefixMeans
  <2>4. Len(s) < Len(r)
    <3>1. PICK n \in 1 .. Len(r) - 1 : s = SubSeq(r, 1, n)
      BY <2>3 DEF Above
    <3> QED
      BY <1>0, <3>1, AbovePath
  <2>5. Len(s) < MaxDepth
    BY <1>0, <2>1, <2>4 DEF MaxDepth
  <2>6. IsShut(t[s])
    BY <2>1, <2>5 DEF Enters, IsShut, Node
  <2>7. s \in UnexplainedAll(t)
    BY <2>1, <2>6 DEF UnexplainedAll, Stray, PossibleKeys
  <2>8. s # p /\ s \notin Above(p)
    BY <2>6 DEF IsShut
  <2>9. IsStrictPrefix(p, s)
    BY <1>0, <2>1, <2>2, <2>8, BeginningsCompare
  <2> QED
    BY <2>7, <2>9
<1> QED
  BY <1>1, <1>2

\* A removal adds nothing.
LEMMA RemovesOnly ==
  ASSUME NEW t, NEW p, NEW u \in PathRemoved(t, p)
  PROVE  DOMAIN u \subseteq DOMAIN t
<1>1. \A w, d : \A x \in Cleared(w, d) : DOMAIN x \subseteq DOMAIN w
  BY ClearsWithin
<1>2. \A w : DOMAIN Reopened(w, p) = DOMAIN w
  BY DEF Reopened
<1>3. CASE t[p].kind # "dir"
  BY <1>3 DEF PathRemoved, Without, Restrict
<1>4. CASE t[p].kind = "dir"
  <2>1. PICK w \in Cleared(t, {p}) :
          u \in IF p \in DOMAIN w THEN Cleared(Reopened(w, p), {p}) ELSE {w}
    BY <1>4 DEF PathRemoved
  <2> QED
    BY <1>1, <1>2, <2>1
<1> QED
  BY <1>3, <1>4

\* What a removal leaves in the report when it is answered.
LEMMA RemovalEnds ==
  ASSUME Inv, [Next]_vars, NEW q \in Procs, call[q] # NoCall, call'[q] = NoCall,
         call[q].path \in UnexplainedAll(tree')
  PROVE  LET p == call[q].path
         IN  \/ \E r \in UnexplainedAll(tree') : IsStrictPrefix(p, r)
             \/ \E a \in Accounts :
                  p = Vault(a) /\ StagedVault(a) \in DOMAIN tree \ DOMAIN tree'
             \/ \E r \in DOMAIN tree' :
                  IsStrictPrefix(p, r) /\ IsShut(tree'[r]) /\ Len(r) > MaxDepth
<1> DEFINE p == call[q].path
<1>1. RemoveUnexplained(q)
  <2>1. call' # call
    OBVIOUS
  <2>2. \A r \in Procs : Look(r) => (call[r] = NoCall /\ call'[q] = call[q]) \/ r = q
    BY DEF Look, Inv
  <2>3. \A r \in Procs : RemoveUnexplained(r) => r = q
    BY DEF RemoveUnexplained, Inv
  <2>4. PICK r \in Procs : Look(r) \/ RemoveUnexplained(r)
    BY <2>1 DEF Next, vars, Plant, Shut, Leaves, Settle, Delete, Event
  <2>5. ~Look(r)
    BY <2>2 DEF Look
  <2> QED
    BY <2>3, <2>4, <2>5
<1>2. p \in DOMAIN tree' /\ Seen(tree', p)
  BY DEF UnexplainedAll, Stray, NotExplained, PossibleKeys, DocStages, SeenAs, Seen
<1>3. Tree(tree, foreign) /\ Tree(tree', foreign)
  BY <1>1, RemovalKeeps DEF Inv, RemoveUnexplained
<1>4. CASE p \notin DOMAIN tree
  <2>1. tree' \in Settlings(tree)
    BY <1>1, <1>4 DEF RemoveUnexplained
  <2> QED
    BY <1>2, <1>3, <1>4, <2>1, SettlesOnly
<1>5. CASE p \in DOMAIN tree /\ \E d \in Above(p) : ~tree[d].open
  <2>1. tree' = tree
    BY <1>1, <1>5 DEF RemoveUnexplained
  <2>2. PICK n \in 1 .. Len(p) - 1 : ~tree[SubSeq(p, 1, n)].open
    BY <1>5 DEF Above
  <2>3. Enters(tree, SubSeq(p, 1, n))
    BY <1>2, <2>1, <2>2 DEF Seen
  <2> QED
    BY <2>2, <2>3 DEF Enters
<1>6. CASE p \in DOMAIN tree /\ \A d \in Above(p) : tree[d].open
  <2>1. PICK u \in PathRemoved(tree, p) :
          IF p \in DOMAIN u THEN tree' = u ELSE tree' \in Settlings(u)
    BY <1>1, <1>6 DEF RemoveUnexplained
  <2>2. CASE p \notin DOMAIN u
    <3>1. Tree(u, foreign) /\ DOMAIN u \subseteq DOMAIN tree
      BY <1>3, <1>6, <2>1, Removes, RemovesOnly
    <3>2. PICK a \in Accounts : p = Vault(a) /\ StagedVault(a) \in DOMAIN u \ DOMAIN tree'
      BY <1>2, <2>1, <2>2, <3>1, SettlesOnly
    <3> QED
      BY <3>1, <3>2
  <2>3. CASE p \in DOMAIN u
    <3>1. tree' = u
      BY <2>1, <2>3
    <3>2. /\ \A d \in Above(p) \union {p} : u[d].open
          /\ \E r \in DOMAIN u : IsStrictPrefix(p, r) /\ IsShut(u[r])
      BY <1>3, <1>6, <2>1, <2>3, RemovedShut
    <3> QED
      BY <1>2, <1>3, <3>1, <3>2, ShutReported
  <2> QED
    BY <2>2, <2>3
<1> QED
  BY <1>4, <1>5, <1>6

\* A removal that leaves its path in the report leaves something below it there
\* to be removed first, but for what is deeper than the scan goes or what settle
\* has brought.
THEOREM NoEnd == Spec => NoDeadEnd
<1> DEFINE Ends == \A q \in Procs : call[q] # NoCall /\ call'[q] = NoCall =>
       LET p == call[q].path
           left == UnexplainedAll(tree')
       IN  \/ p \notin left
           \/ \E r \in left : IsStrictPrefix(p, r)
           \/ \E a \in Accounts :
                p = Vault(a) /\ StagedVault(a) \in DOMAIN tree \ DOMAIN tree'
           \/ \E r \in DOMAIN tree' :
                IsStrictPrefix(p, r) /\ IsShut(tree'[r]) /\ Len(r) > MaxDepth
<1>1. Inv /\ [Next]_vars => [Ends]_vars
  BY RemovalEnds
<1> QED
  BY <1>1, AlwaysInv, PTL DEF Spec, NoDeadEnd
==============================================================================
