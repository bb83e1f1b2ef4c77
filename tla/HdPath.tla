------------------------------- MODULE HdPath -------------------------------
(***************************************************************************)
(* Derivation paths and the keys they lead to (hd.rs): which texts are     *)
(* taken for a path or for the prefix of a wallet, what is written for     *)
(* one, and which child indices are then derived.                          *)
(*                                                                         *)
(* A text is the sequence of what stands between its slashes.  A key is    *)
(* the sequence of child indices that leads to it from the root: the       *)
(* arithmetic of BIP-32 is the library's.                                  *)
(***************************************************************************)
EXTENDS Integers, Sequences

CONSTANTS
  Hardened,   \* HARDENED, 2^31: the first hardened child index
  Purpose,    \* PURPOSE, 44
  CoinType,   \* COIN_TYPE_ETH, 60
  Texts       \* the texts considered

Indexes == 0 .. Hardened - 1

\* A number may be marked as hardened, by ' or by h.
Segment == [says : {"m", "number", "other"}, value : Nat, mark : {"hard", "open"}]

ASSUME HdPathAssumption ==
  /\ Hardened \in Nat \ {0, 1}
  /\ Purpose \in Indexes /\ CoinType \in Indexes
  /\ Texts \subseteq Seq(Segment)

Bip44Path == [account : Indexes, change : 0 .. 1, index : Indexes]

-----------------------------------------------------------------------------
(* Reading a text. *)

IsM(seg) == seg.says = "m"

\* parse_component: digits that fit below the hardened indices.
IsComponent(seg) == seg.says = "number" /\ seg.value < Hardened

\* split_path: m where it belongs, and exactly so many levels below it.
Splits(s, want) ==
  /\ Len(s) = want + 1
  /\ IsM(s[1])
  /\ \A i \in 2 .. want + 1 : IsComponent(s[i])

\* expect_prefix
HasPrefix(s) ==
  /\ s[2].value = Purpose /\ s[2].mark = "hard"
  /\ s[3].value = CoinType /\ s[3].mark = "hard"
  /\ s[4].mark = "hard"

\* Bip44Path::new
InLayout(account, change, index) ==
  account < Hardened /\ change <= 1 /\ index < Hardened

\* Mutant: the marks of the last two levels are not looked at.
OpenMarked(s) == TRUE

\* The two levels below the account are not hardened.
OpenBelow(s) == s[5].mark = "open" /\ s[6].mark = "open"

ParsesPath(s) ==
  /\ Splits(s, 5) /\ HasPrefix(s) /\ OpenBelow(s)
  /\ InLayout(s[4].value, s[5].value, s[6].value)

Parsed(s) ==
  [account |-> s[4].value, change |-> s[5].value, index |-> s[6].value]

ParsesPrefix(s) == Splits(s, 3) /\ HasPrefix(s)

-----------------------------------------------------------------------------
(* Writing one. *)

Root == [says |-> "m", value |-> 0, mark |-> "open"]
Number(value, mark) == [says |-> "number", value |-> value, mark |-> mark]

AccountPrefix(account) ==
  <<Root, Number(Purpose, "hard"), Number(CoinType, "hard"), Number(account, "hard")>>

\* Display of Bip44Path: what is recorded for an account.
Display(p) ==
  AccountPrefix(p.account)
    \o <<Number(p.change, "open"), Number(p.index, "open")>>

-----------------------------------------------------------------------------
(* Deriving. *)

\* harden_index: a bare addition, in a u32.
Harden(i) == (i + Hardened) % (2 * Hardened)

AccountKey(account) == <<Harden(Purpose), Harden(CoinType), Harden(account)>>

KeyInAccount(key, change, index) == key \o <<change, index>>

SignerAt(p) == KeyInAccount(AccountKey(p.account), p.change, p.index)

AccountDepth == 3

\* encode_account_key, decode_account_key: the depth of a key that is kept.
Storable(key) == Len(key) = AccountDepth

-----------------------------------------------------------------------------
(* The key a text names, by BIP-32: one child for each level, in order, its *)
(* index past the limit where it is marked.                                 *)

NamedIndex(seg) == IF seg.mark = "hard" THEN seg.value + Hardened ELSE seg.value

Named(s) == [i \in 1 .. Len(s) - 1 |-> NamedIndex(s[i + 1])]

\* A text that is accepted leads to the key it names and to no other: no level
\* is dropped, moved or wrapped on the way (Bip44Path::parse, key_in_account).
TextNamesItsKey(s) ==
  /\ ParsesPath(s) => SignerAt(Parsed(s)) = Named(s)
  /\ ParsesPrefix(s) => AccountKey(s[4].value) = Named(s) /\ Storable(Named(s))

\* What is recorded for an account is accepted, and is that path again
\* (Display against Bip44Path::parse and parse_account_prefix).
ReadsBack(p) ==
  /\ ParsesPath(Display(p)) /\ Parsed(Display(p)) = p
  /\ ParsesPrefix(AccountPrefix(p.account))
  /\ Named(Display(p)) = SignerAt(p)
=============================================================================
