------------------------------- MODULE Groups -------------------------------
(***************************************************************************)
(* Wallets (derivation groups), their keys, accounts and indices: the      *)
(* methods of keystore.rs over groups.json, accounts.json, group-labels    *)
(* and groups/.  One update of a document is one step (see Documents), and *)
(* so is the write of an account's vault (see Vaults): what is modelled is *)
(* the order of these steps, what a kill or a failure between them leaves, *)
(* and what a call read that another process has changed since.            *)
(***************************************************************************)
EXTENDS Integers, FiniteSets

CONSTANTS
  Procs,
  Ids,          \* group ids, minted at random
  Phrases,      \* recovery phrases (with passphrase and BIP-44 account)
  MaxIndex,     \* the last index that is not hardened
  MaxScan,      \* MAX_INDEX_SCAN
  Labels,       \* what a wallet may be named: a name, a blank one
  MaxMishaps,   \* kills and failing calls in a behaviour
  MaxRenaming,  \* wallets and mishaps where one is named after its import
  NoRecord, NoRow, Ungrouped, Unminted

Indices == 0 .. MaxIndex

\* An index derives one address of a phrase.
Addresses == Phrases \X Indices

Record == [storage : {"plain", "extkey"}, next : 0 .. MaxIndex + 1,
           retired : SUBSET Indices]

Row == [group : Ids, index : Indices]

ASSUME GroupsAssumption ==
  /\ Ids # {} /\ Phrases # {}
  /\ Labels \subseteq {"name", "blank"}
  /\ MaxIndex \in Nat /\ MaxScan \in Nat \ {0} /\ MaxMishaps \in Nat
  /\ MaxRenaming \in Nat
  /\ NoRecord \notin Record
  /\ NoRow # Ungrouped /\ NoRow \notin Row /\ Ungrouped \notin Row
  /\ Unminted \notin Phrases

VARIABLES
  record,     \* groups.json
  named,      \* the ids group-labels.json has a name for
  rows,       \* accounts.json: which group and index an account came from
  keys,       \* the ids with a key at groups/<id>.json
  stage,      \* groups/.stage-<id>/: none, without a key in it, or with one
  vaults,     \* the addresses held
  phrase,     \* the phrase each minted id stands for
  call,       \* the call each process is in
  mishaps,
  given,      \* history: the <<id, index>> pairs that became accounts
  unbooked,   \* history: those whose call ended before they were booked
  botched,    \* history: ids whose key a rollback failed to remove
  free,       \* history: ids last named by a call that proved nothing
  renamed     \* history: whether a wallet was named after its import

disk == <<record, named, rows, keys, stage, vaults>>
history == <<given, unbooked, botched, free, renamed>>
vars == <<disk, phrase, call, mishaps, history>>

-----------------------------------------------------------------------------
(* Calls. *)

Ops == {"none", "import", "next", "at", "raw", "delete", "forget", "remove",
        "label"}

Undoing == {"undo_key", "undo_stage", "undo_name", "undo_record"}

Steps ==
  {"idle", "answer",
   "record", "name", "stage", "encrypt", "promote", "drop",   \* import
   "resolve", "open", "start", "hold", "try",                 \* derive
   "passrow", "passbump",                                     \* walk past
   "persist", "row", "bump",                                  \* an account
   "forget_key", "forget_stage", "downgrade",                 \* forget
   "store", "accounts", "recorded", "naming",                 \* remove
   "unrecord", "unname",
   "recall", "tally", "survey", "weigh", "label",             \* set_group_label
   "unvault", "unrow", "retire"}                              \* delete
  \union Undoing

Call ==
  [op : Ops, at : Steps, group : Ids,
   index : 0 .. MaxIndex + 1,
   addr : Addresses,
   kept : {"plain", "extkey"},       \* the storage an import asks for
   label : {"name", "blank"},
   held : SUBSET Addresses,          \* the addresses held, when last looked
   walked : 0 .. MaxScan,
   found : SUBSET {"record", "name", "account", "key", "staged"},
   verdict : {"none", "ok", "refused"},
   since : 0 .. MaxMishaps]          \* history: mishaps before the call

IdleCall ==
  [op |-> "none", at |-> "idle", group |-> CHOOSE g \in Ids : TRUE,
   index |-> 0, addr |-> CHOOSE a \in Addresses : TRUE, kept |-> "plain",
   label |-> "blank", held |-> {}, walked |-> 0, found |-> {},
   verdict |-> "none", since |-> 0]

At(p, step) == call[p].at = step
Go(p, step) == call' = [call EXCEPT ![p].at = step]

\* The answer of a call; nothing of what it read outlives it.
Ends(p, verdict) ==
  call' = [call EXCEPT ![p] = [IdleCall EXCEPT
    !.op = call[p].op, !.group = call[p].group, !.since = call[p].since,
    !.at = "answer", !.verdict = verdict]]

Refuse(p) == Ends(p, "refused")

Minted == {g \in Ids : phrase[g] # Unminted}

\* Bound: how much happens where a wallet is named after its import.
Few(renaming, wallets, hurt) ==
  renaming => Cardinality(wallets) + hurt <= MaxRenaming

Mishap ==
  /\ mishaps < MaxMishaps
  /\ Few(renamed, Minted, mishaps + 1)
  /\ mishaps' = mishaps + 1

Larger(i, j) == IF i < j THEN j ELSE i

Init ==
  /\ record = [g \in Ids |-> NoRecord]
  /\ named = {} /\ keys = {} /\ vaults = {}
  /\ rows = [a \in Addresses |-> NoRow]
  /\ stage = [g \in Ids |-> "none"]
  /\ phrase = [g \in Ids |-> Unminted]
  /\ call = [p \in Procs |-> IdleCall]
  /\ mishaps = 0
  /\ given = {} /\ unbooked = {} /\ botched = {} /\ free = {}
  /\ renamed = FALSE

Starts(p, c) ==
  /\ At(p, "idle")
  /\ call' = [call EXCEPT ![p] = [c EXCEPT !.since = mishaps]]
  /\ renamed' = (renamed \/ c.op = "label")
  /\ UNCHANGED <<disk, mishaps, given, unbooked, botched, free>>

BeginImport(p) ==
  \E g \in Ids, ph \in Phrases, i \in Indices, kept \in {"plain", "extkey"},
     label \in Labels :
    /\ phrase[g] = Unminted
    /\ Few(renamed, Minted \union {g}, mishaps)
    /\ phrase' = [phrase EXCEPT ![g] = ph]
    /\ Starts(p, [IdleCall EXCEPT
         !.op = "import", !.at = "record", !.group = g, !.index = i,
         !.addr = <<ph, i>>, !.kept = kept, !.label = label])

BeginDerive(p) ==
  \E g \in Ids, i \in Indices, op \in {"next", "at"} :
    /\ phrase[g] # Unminted
    /\ op = "next" => i = 0
    /\ Starts(p, [IdleCall EXCEPT
         !.op = op, !.at = "resolve", !.group = g, !.index = i,
         !.addr = <<phrase[g], i>>])
    /\ UNCHANGED phrase

BeginAccount(p) ==
  \E a \in Addresses, op \in {"raw", "delete"} :
    /\ Starts(p, [IdleCall EXCEPT
         !.op = op, !.addr = a,
         !.at = IF op = "raw" THEN "persist" ELSE "unvault"])
    /\ UNCHANGED phrase

BeginGroup(p) ==
  \E g \in Ids, op \in {"forget", "remove"} :
    /\ phrase[g] # Unminted
    /\ Starts(p, [IdleCall EXCEPT
         !.op = op, !.group = g,
         !.at = IF op = "forget" THEN "forget_key" ELSE "store"])
    /\ UNCHANGED phrase

BeginLabel(p) ==
  \E g \in Ids, label \in Labels \union {"blank"} :
    /\ phrase[g] # Unminted
    /\ Few(TRUE, Minted, mishaps)
    /\ Starts(p, [IdleCall EXCEPT
         !.op = "label", !.group = g, !.label = label, !.at = "recall"])
    /\ UNCHANGED phrase

-----------------------------------------------------------------------------
(* import_mnemonic_ex: the record, the name, the key, the account. *)

PutRecord(p) ==
  LET c == call[p]
  IN  /\ At(p, "record")
      /\ record' = [record EXCEPT ![c.group] =
                      [storage |-> c.kept, next |-> 0, retired |-> {}]]
      /\ Go(p, "name")
      /\ UNCHANGED <<named, rows, keys, stage, vaults, phrase, mishaps, history>>

PutName(p) ==
  LET c == call[p]
  IN  /\ At(p, "name")
      /\ named' = IF c.label = "name" THEN named \union {c.group}
                                      ELSE named \ {c.group}
      /\ Go(p, IF c.kept = "extkey" THEN "stage" ELSE "persist")
      /\ UNCHANGED <<record, rows, keys, stage, vaults, phrase, mishaps, history>>

\* write_group_vault: one step of its stage.
StageMoves(p, from, content, to) ==
  /\ At(p, from)
  /\ stage' = [stage EXCEPT ![call[p].group] = content]
  /\ Go(p, to)
  /\ UNCHANGED <<record, named, rows, vaults, phrase, mishaps, history>>

PutStage(p) == StageMoves(p, "stage", "empty", "encrypt") /\ UNCHANGED keys

Encrypt(p) == StageMoves(p, "encrypt", "key", "promote") /\ UNCHANGED keys

Promote(p) ==
  /\ StageMoves(p, "promote", "empty", "drop")
  /\ keys' = keys \union {call[p].group}

DropStage(p) == StageMoves(p, "drop", "none", "persist") /\ UNCHANGED keys

\* persist_signer, of every method that ends with an account.
Derives(c) == c.op \in {"import", "next", "at"}

Persist(p) ==
  LET c == call[p]
  IN  /\ At(p, "persist")
      /\ vaults' = vaults \union {c.addr}
      /\ given' = IF Derives(c) THEN given \union {<<c.group, c.index>>}
                                ELSE given
      /\ Go(p, "row")
      /\ UNCHANGED <<record, named, rows, keys, stage, phrase, mishaps,
                     unbooked, botched, free, renamed>>

PutRow(p) ==
  LET c == call[p]
  IN  /\ At(p, "row")
      /\ rows' = [rows EXCEPT ![c.addr] =
                    IF Derives(c) THEN [group |-> c.group, index |-> c.index]
                                  ELSE Ungrouped]
      /\ IF Derives(c) THEN Go(p, "bump") ELSE Ends(p, "ok")
      /\ UNCHANGED <<record, named, keys, stage, vaults, phrase, mishaps, history>>

\* Mutant: the cache holds the last index and not the next one.
LastUsed(r, index) == [r EXCEPT !.next = Larger(@, index)]

Covering(r, index) == [r EXCEPT !.next = Larger(@, index + 1)]

\* A change of a record, where it is still there.
Rerecord(g, new) ==
  record' = IF record[g] = NoRecord THEN record
                                    ELSE [record EXCEPT ![g] = new]

Bump(p) ==
  LET c == call[p]
  IN  /\ At(p, "bump")
      /\ Rerecord(c.group, Covering(record[c.group], c.index))
      /\ Ends(p, "ok")
      /\ UNCHANGED <<named, rows, keys, stage, vaults, phrase, mishaps, history>>

\* The rollback of an import that failed; what fails in it is ignored.
UndoKey(p) ==
  /\ At(p, "undo_key")
  /\ keys' = keys \ {call[p].group}
  /\ Go(p, "undo_stage")
  /\ UNCHANGED <<record, named, rows, stage, vaults, phrase, mishaps, history>>

UndoStage(p) ==
  /\ At(p, "undo_stage")
  /\ stage' = [stage EXCEPT ![call[p].group] = "none"]
  /\ Go(p, "undo_name")
  /\ UNCHANGED <<record, named, rows, keys, vaults, phrase, mishaps, history>>

\* Mutant: the rollback forgets the name, which is not in the record.
NameKept(names, g) == names

Unnamed(names, g) == names \ {g}

UndoName(p) ==
  /\ At(p, "undo_name")
  /\ named' = Unnamed(named, call[p].group)
  /\ Go(p, "undo_record")
  /\ UNCHANGED <<record, rows, keys, stage, vaults, phrase, mishaps, history>>

UndoRecord(p) ==
  /\ At(p, "undo_record")
  /\ record' = [record EXCEPT ![call[p].group] = NoRecord]
  /\ Refuse(p)
  /\ UNCHANGED <<named, rows, keys, stage, vaults, phrase, mishaps, history>>

-----------------------------------------------------------------------------
(* derive_next_account and derive_account_at. *)

Reads(p) == UNCHANGED <<disk, phrase, mishaps, history>>

\* The record says the wallet can derive, and where it stands.
Resolve(p) ==
  LET c == call[p]
      r == record[c.group]
  IN  /\ At(p, "resolve")
      /\ IF r = NoRecord \/ r.storage # "extkey"
           THEN Refuse(p)
           ELSE call' = [call EXCEPT ![p].at = "open",
                           ![p].index = IF c.op = "next" THEN r.next ELSE @]
      /\ Reads(p)

\* The key opens, if it is there and the password is its own.
Open(p) ==
  LET c == call[p]
  IN  /\ At(p, "open")
      /\ \/ Refuse(p)
         \/ /\ c.group \in keys
            /\ Go(p, IF c.op = "next" THEN "start" ELSE "hold")
      /\ Reads(p)

\* The indices accounts.json has for a wallet.
Used(g) == {i \in Indices : \E a \in Addresses : rows[a] = [group |-> g, index |-> i]}

\* next_index: past the cache and past every recorded index.
Start(p) ==
  LET c == call[p]
  IN  /\ At(p, "start")
      /\ \E start \in {c.index} \union {i + 1 : i \in Used(c.group)} :
           /\ start >= c.index
           /\ \A i \in Used(c.group) : start > i
           /\ call' = [call EXCEPT ![p].index = start, ![p].at = "hold"]
      /\ Reads(p)

Hold(p) ==
  /\ At(p, "hold")
  /\ call' = [call EXCEPT ![p].held = vaults, ![p].at = "try"]
  /\ Reads(p)

\* Mutant: an address is not looked up before its vault is written.
Untaken(c, addr) == FALSE

Taken(c, addr) == addr \in c.held

\* Mutant: one more index than the path admits.
InRangeOrNext(index) == index <= MaxIndex + 1

InRange(index) == index <= MaxIndex

Try(p) ==
  LET c == call[p]
      addr == <<phrase[c.group], c.index>>
  IN  /\ At(p, "try")
      /\ IF ~InRange(c.index) \/ c.walked = MaxScan
              \/ (c.op = "at" /\ Taken(c, addr))
           THEN Refuse(p)
           ELSE call' = [call EXCEPT
                  ![p].addr = addr,
                  ![p].at = IF Taken(c, addr) THEN "passrow" ELSE "persist"]
      /\ Reads(p)

\* What occupies an index is recorded, unless something already is.
PassRow(p) ==
  LET c == call[p]
  IN  /\ At(p, "passrow")
      /\ rows' = [rows EXCEPT ![c.addr] =
                    IF @ = NoRow THEN [group |-> c.group, index |-> c.index]
                                 ELSE @]
      /\ Go(p, "passbump")
      /\ UNCHANGED <<record, named, keys, stage, vaults, phrase, mishaps, history>>

PassBump(p) ==
  LET c == call[p]
  IN  /\ At(p, "passbump")
      /\ Rerecord(c.group, Covering(record[c.group], c.index))
      /\ call' = [call EXCEPT ![p].index = @ + 1, ![p].walked = @ + 1,
                              ![p].at = "try"]
      /\ UNCHANGED <<named, rows, keys, stage, vaults, phrase, mishaps, history>>

-----------------------------------------------------------------------------
(* forget_derivation: the key first, then the record. *)

ForgetKey(p) ==
  LET g == call[p].group
  IN  /\ At(p, "forget_key")
      /\ keys' = keys \ {g}
      /\ call' = [call EXCEPT ![p].found = IF g \in keys THEN {"key"} ELSE {},
                              ![p].at = "forget_stage"]
      /\ UNCHANGED <<record, named, rows, stage, vaults, phrase, mishaps, history>>

ForgetStage(p) ==
  LET g == call[p].group
  IN  /\ At(p, "forget_stage")
      /\ stage' = [stage EXCEPT ![g] = "none"]
      /\ IF call[p].found = {} /\ stage[g] = "none"
           THEN Refuse(p)
           ELSE Go(p, "downgrade")
      /\ UNCHANGED <<record, named, rows, keys, vaults, phrase, mishaps, history>>

Downgrade(p) ==
  LET g == call[p].group
  IN  /\ At(p, "downgrade")
      /\ Rerecord(g, [record[g] EXCEPT !.storage = "plain"])
      /\ Ends(p, "ok")
      /\ UNCHANGED <<named, rows, keys, stage, vaults, phrase, mishaps, history>>

-----------------------------------------------------------------------------
(* remove_group: it looks for a key, for accounts, for a record and a name, *)
(* and then removes the last two.                                           *)

\* Mutant: a staged key is not a key.
LiveKey(g) == g \in keys

HoldsKey(g) == g \in keys \/ stage[g] = "key"

LookAtStore(p) ==
  /\ At(p, "store")
  /\ IF HoldsKey(call[p].group) THEN Refuse(p) ELSE Go(p, "accounts")
  /\ Reads(p)

\* Mutant: what a wallet holds is weighed against no provenance.
NoAccounts(g) == FALSE

HoldsAccounts(g) == Used(g) # {}

LookAtAccounts(p) ==
  /\ At(p, "accounts")
  /\ IF HoldsAccounts(call[p].group) THEN Refuse(p) ELSE Go(p, "recorded")
  /\ Reads(p)

LookAtRecord(p) ==
  LET g == call[p].group
  IN  /\ At(p, "recorded")
      /\ call' = [call EXCEPT
           ![p].found = IF record[g] = NoRecord THEN {} ELSE {"record"},
           ![p].at = "naming"]
      /\ Reads(p)

LookAtName(p) ==
  LET c == call[p]
      found == c.found \union (IF c.group \in named THEN {"name"} ELSE {})
  IN  /\ At(p, "naming")
      /\ IF found = {}
           THEN Refuse(p)
           ELSE call' = [call EXCEPT
                  ![p].found = found,
                  ![p].at = IF "record" \in found THEN "unrecord" ELSE "unname"]
      /\ Reads(p)

Unrecord(p) ==
  LET c == call[p]
  IN  /\ At(p, "unrecord")
      /\ record' = [record EXCEPT ![c.group] = NoRecord]
      /\ IF "name" \in c.found THEN Go(p, "unname") ELSE Ends(p, "ok")
      /\ UNCHANGED <<named, rows, keys, stage, vaults, phrase, mishaps, history>>

Unname(p) ==
  /\ At(p, "unname")
  /\ named' = named \ {call[p].group}
  /\ Ends(p, "ok")
  /\ UNCHANGED <<record, rows, keys, stage, vaults, phrase, mishaps, history>>

-----------------------------------------------------------------------------
(* set_group_label: what the wallet is and holds is read first, and says    *)
(* what naming it takes.  A name an older build kept in the record is left  *)
(* out.                                                                     *)

\* One reading of set_group_label.
Finds(p, from, new, to) ==
  /\ At(p, from)
  /\ call' = [call EXCEPT ![p].found = @ \union new, ![p].at = to]
  /\ Reads(p)

Recall(p) ==
  Finds(p, "recall",
        IF record[call[p].group] = NoRecord THEN {} ELSE {"record"}, "tally")

\* Holdings::of counts the accounts; the caller may name any one of them.
Tally(p) ==
  LET g == call[p].group
  IN  /\ At(p, "tally")
      /\ IF HoldsAccounts(g)
           THEN \E a \in Addresses :
                  /\ rows[a] \in Row /\ rows[a].group = g
                  /\ call' = [call EXCEPT ![p].found = @ \union {"account"},
                                          ![p].addr = a, ![p].at = "survey"]
           ELSE Go(p, "survey")
      /\ Reads(p)

\* Mutant: what an interrupted import left does not count.
LiveKeys(g) == IF g \in keys THEN {"key"} ELSE {}

KeysFound(g) ==
  (IF g \in keys THEN {"key"} ELSE {})
    \union (IF stage[g] = "key" THEN {"staged"} ELSE {})

Survey(p) == Finds(p, "survey", KeysFound(call[p].group), "weigh")

\* A wallet that holds something is named by who can open it; clearing is free.
Priced(c) == c.label = "name" /\ c.found \intersect {"account", "key", "staged"} # {}

\* prove_custody, prove_group_custody: what there is to open; an account before
\* the key, and a live key before a staged one.
Provable(c) ==
  CASE "account" \in c.found -> c.addr \in vaults
    [] "account" \notin c.found /\ "key" \in c.found -> c.group \in keys
    [] OTHER -> stage[c.group] = "key"

Weigh(p) ==
  LET c == call[p]
  IN  /\ At(p, "weigh")
      /\ \/ /\ (c.found = {} /\ c.group \notin named) \/ Priced(c)
            /\ Refuse(p)
         \/ /\ c.found # {} \/ c.group \in named
            /\ Priced(c) => Provable(c)
            /\ Go(p, "label")
      /\ Reads(p)

PutLabel(p) ==
  LET c == call[p]
      g == c.group
  IN  /\ At(p, "label")
      /\ named' = IF c.label = "name" THEN named \union {g} ELSE named \ {g}
      /\ free' = IF c.label = "name" /\ ~Priced(c) THEN free \union {g}
                                                 ELSE free \ {g}
      /\ Ends(p, "ok")
      /\ UNCHANGED <<record, rows, keys, stage, vaults, phrase, mishaps,
                     given, unbooked, botched, renamed>>

-----------------------------------------------------------------------------
(* delete_account: the vault, its row, and the index it retires. *)

Unvault(p) ==
  LET a == call[p].addr
  IN  /\ At(p, "unvault")
      /\ \/ /\ Refuse(p)
            /\ UNCHANGED vaults
         \/ /\ a \in vaults
            /\ vaults' = vaults \ {a}
            /\ Go(p, "unrow")
      /\ UNCHANGED <<record, named, rows, keys, stage, phrase, mishaps, history>>

Unrow(p) ==
  LET a == call[p].addr
  IN  /\ At(p, "unrow")
      /\ rows' = [rows EXCEPT ![a] = NoRow]
      /\ IF rows[a] \in {NoRow, Ungrouped}
           THEN Ends(p, "ok")
           ELSE call' = [call EXCEPT ![p].group = rows[a].group,
                           ![p].index = rows[a].index, ![p].at = "retire"]
      /\ UNCHANGED <<record, named, keys, stage, vaults, phrase, mishaps, history>>

Retire(p) ==
  LET c == call[p]
      r == record[c.group]
  IN  /\ At(p, "retire")
      /\ Rerecord(c.group,
           [Covering(r, c.index) EXCEPT !.retired = @ \union {c.index}])
      /\ Ends(p, "ok")
      /\ UNCHANGED <<named, rows, keys, stage, vaults, phrase, mishaps, history>>

Answer(p) ==
  /\ At(p, "answer")
  /\ call' = [call EXCEPT ![p] = IdleCall]
  /\ UNCHANGED <<disk, phrase, mishaps, history>>

-----------------------------------------------------------------------------
(* What may go wrong. *)

\* History: an account of this call is not booked yet.
Booking(c) == Derives(c) /\ c.at \in {"row", "bump"}

Unbooks(c) == unbooked' = unbooked \union
                (IF Booking(c) THEN {<<c.group, c.index>>} ELSE {})

Importing == {"name", "stage", "encrypt", "promote", "persist", "row", "bump"}

\* A failing import rolls back; a stage it has open goes with its guard.
ImportFails(p) ==
  LET c == call[p]
  IN  /\ c.op = "import" /\ c.at \in Importing
      /\ Mishap
      /\ stage' = [stage EXCEPT ![c.group] =
                     IF c.at \in {"encrypt", "promote"} THEN "none" ELSE @]
      /\ Go(p, "undo_key")
      /\ Unbooks(c)
      /\ UNCHANGED <<record, named, rows, keys, vaults, phrase, given, botched, free, renamed>>

\* Elsewhere the call is refused as it stands, except where a failure is
\* ignored.
Ignoring == {"drop", "downgrade"} \union Undoing

CallFails(p) ==
  LET c == call[p]
  IN  /\ c.at \notin Ignoring \union {"idle", "answer", "try"}
      /\ c.op = "import" => c.at = "record"
      /\ Mishap
      /\ Refuse(p)
      /\ Unbooks(c)
      /\ UNCHANGED <<disk, phrase, given, botched, free, renamed>>

Ignored(p) ==
  LET c == call[p]
  IN  /\ Mishap
      /\ \/ At(p, "drop") /\ Go(p, "persist")
         \/ At(p, "downgrade") /\ Ends(p, "ok")
         \/ At(p, "undo_key") /\ Go(p, "undo_stage")
         \/ At(p, "undo_stage") /\ Go(p, "undo_name")
         \/ At(p, "undo_name") /\ Go(p, "undo_record")
         \/ At(p, "undo_record") /\ Refuse(p)
      /\ botched' = IF c.at \in {"undo_key", "undo_stage"}
                      THEN botched \union {c.group} ELSE botched
      /\ UNCHANGED <<disk, phrase, given, unbooked, free, renamed>>

Kill(p) ==
  LET c == call[p]
  IN  /\ c.at \notin {"idle", "answer"}
      /\ Mishap
      /\ call' = [call EXCEPT ![p] = IdleCall]
      /\ Unbooks(c)
      /\ UNCHANGED <<disk, phrase, given, botched, free, renamed>>

-----------------------------------------------------------------------------
Begins(p) ==
  \/ BeginImport(p) \/ BeginDerive(p) \/ BeginAccount(p) \/ BeginGroup(p)
  \/ BeginLabel(p)

Import(p) ==
  \/ PutRecord(p) \/ PutName(p)
  \/ PutStage(p) \/ Encrypt(p) \/ Promote(p) \/ DropStage(p)
  \/ UndoKey(p) \/ UndoStage(p) \/ UndoName(p) \/ UndoRecord(p)

Derive(p) ==
  \/ Resolve(p) \/ Open(p) \/ Start(p) \/ Hold(p) \/ Try(p)
  \/ PassRow(p) \/ PassBump(p)

Account(p) ==
  Persist(p) \/ PutRow(p) \/ Bump(p) \/ Unvault(p) \/ Unrow(p) \/ Retire(p)

Forget(p) == ForgetKey(p) \/ ForgetStage(p) \/ Downgrade(p)

Remove(p) ==
  \/ LookAtStore(p) \/ LookAtAccounts(p) \/ LookAtRecord(p) \/ LookAtName(p)
  \/ Unrecord(p) \/ Unname(p)

Label(p) == Recall(p) \/ Tally(p) \/ Survey(p) \/ Weigh(p) \/ PutLabel(p)

Proceed(p) ==
  \/ Import(p) \/ Derive(p) \/ Account(p) \/ Forget(p) \/ Remove(p)
  \/ Label(p) \/ Answer(p)

Fails(p) == ImportFails(p) \/ CallFails(p) \/ Ignored(p)

Next == \E p \in Procs : Begins(p) \/ Proceed(p) \/ Fails(p) \/ Kill(p)

Spec == Init /\ [][Next]_vars

-----------------------------------------------------------------------------
(* Properties. *)

TypeOK ==
  /\ record \in [Ids -> Record \union {NoRecord}]
  /\ named \in SUBSET Ids
  /\ rows \in [Addresses -> Row \union {NoRow, Ungrouped}]
  /\ keys \in SUBSET Ids
  /\ stage \in [Ids -> {"none", "empty", "key"}]
  /\ vaults \in SUBSET Addresses
  /\ phrase \in [Ids -> Phrases \union {Unminted}]
  /\ call \in [Procs -> Call]
  /\ mishaps \in 0 .. MaxMishaps
  /\ given \in SUBSET (Ids \X Indices)
  /\ unbooked \in SUBSET given
  /\ botched \in SUBSET Ids
  /\ free \in SUBSET Ids
  /\ renamed \in BOOLEAN

\* derive_next_account is about to write the account of this pair.
Hands(p, pair) ==
  /\ At(p, "persist") /\ call[p].op = "next"
  /\ pair = <<call[p].group, call[p].index>>

\* The next index is one its wallet never handed out, also after deletes,
\* kills and lost updates, unless the call that handed it out ended before it
\* was booked (next_index, bump_next_index, retire).
FreshIndex ==
  \A p \in Procs, pair \in given : Hands(p, pair) => pair \in unbooked

\* Deriving never overwrites a vault, whatever came to be there since the
\* wallet was made (held_addresses).
NeverOverwrites ==
  \A p \in Procs :
    At(p, "persist") /\ call[p].op \in {"next", "at"}
      => call[p].addr \notin vaults

\* list_groups: a key on disk that no record names.
Stranded(g) == record[g] = NoRecord /\ (g \in keys \/ stage[g] = "key")

\* There is no key without the record that makes it reachable, whatever an
\* import or its rollback did not get to, short of a removal that failed.
KeyHasRecord == \A g \in Ids : Stranded(g) => g \in botched

\* No account is left with nothing to name its wallet: a record is removed
\* only when no account has it, and what a rollback leaves was never booked.
AccountsListed ==
  \A g \in Ids : \A i \in Used(g) :
    record[g] # NoRecord \/ <<g, i>> \in unbooked

\* An import that failed once is undone: its record, name and key are gone.
RolledBack ==
  \A p \in Procs :
    LET c == call[p]
    IN  c.op = "import" /\ c.verdict = "refused" /\ mishaps <= c.since + 1
          => /\ record[c.group] = NoRecord /\ c.group \notin named
             /\ c.group \notin keys /\ stage[c.group] = "none"

\* A name nobody had to prove anything for never comes to stand over an account
\* or a key, live or staged, then or later (Holdings, set_group_label).
NamesArePaid ==
  \A g \in free \intersect named :
    ~HoldsAccounts(g) /\ g \notin keys /\ stage[g] # "key"

\* What docs/specs.md says of a deleted account's index: it is never reused.
NeverReused ==
  \A p \in Procs, pair \in given : Hands(p, pair) => FALSE
=============================================================================
