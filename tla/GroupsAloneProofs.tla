------------------------- MODULE GroupsAloneProofs -------------------------
(***************************************************************************)
(* Proofs about Groups for one process alone on its directory: every       *)
(* property of the wallets, for any set of ids and phrases, any walk and   *)
(* any number of kills and failing calls.                                  *)
(***************************************************************************)
EXTENDS GroupsProofs

-----------------------------------------------------------------------------
(* The invariant. *)

\* Nothing is known of this wallet.
Unknown(g) ==
  /\ record[g] = NoRecord /\ stage[g] = "none"
  /\ g \notin named /\ g \notin keys /\ g \notin free
  /\ Used(g) = {}
  /\ \A i \in Indices : <<g, i>> \notin given

NewIds == \A g \in Ids : phrase[g] = Unminted => Unknown(g)

\* An account's index is behind the next one of its wallet, unless its call
\* ended early or has yet to book it.
Booked(c) ==
  \A g \in Ids, i \in Indices :
    <<g, i>> \in given =>
      \/ <<g, i>> \in unbooked
      \/ Booking(c) /\ Pair(c) = <<g, i>>
      \/ record[g] = NoRecord
      \/ record[g].next > i

World(c) ==
  NewIds /\ Booked(c) /\ KeyHasRecord /\ AccountsListed /\ NamesArePaid

Making == Importing \union {"drop"}

\* An import: its record stands, and its only account may be in its row.
ImportKnows(c) ==
  /\ c.at = "record" => Unknown(c.group)
  /\ c.op = "import" /\ c.at \in Making =>
       /\ record[c.group] # NoRecord /\ c.group \notin free
       /\ \A i \in Used(c.group) : c.at = "bump" /\ i = c.index
  /\ c.op = "import" => c.at \in Making \union Undoing \union {"record", "answer"}

\* How far a rollback has come, if nothing failed in it as well.
UndoKnows(c) ==
  /\ c.at \in Undoing =>
       /\ mishaps > c.since
       /\ \A i \in Used(c.group) : <<c.group, i>> \in unbooked
  /\ c.at \in {"undo_stage", "undo_name", "undo_record"} /\ c.group \in keys =>
       c.group \in botched /\ mishaps > c.since + 1
  /\ c.at \in {"undo_name", "undo_record"} /\ stage[c.group] # "none" =>
       c.group \in botched /\ mishaps > c.since + 1
  /\ c.at = "undo_record" /\ c.group \in named => mishaps > c.since + 1

AnswerKnows(c) ==
  /\ c.since <= mishaps
  /\ c.at # "answer" => c.verdict = "none"
  /\ c.op = "import" /\ c.verdict = "refused" /\ mishaps <= c.since + 1 =>
       /\ record[c.group] = NoRecord /\ c.group \notin named
       /\ c.group \notin keys /\ stage[c.group] = "none"

Deriving(c) == c.op \in {"next", "at"}

Opened == {"start", "hold", "try", "passrow", "passbump", "persist", "row", "bump"}

Looking == {"open", "start", "hold", "try", "passrow", "passbump", "persist"}

\* A derivation: what it read still stands, and its index is not behind.
DeriveKnows(c) ==
  /\ Deriving(c) /\ c.at \in Opened \union {"open"} => record[c.group] # NoRecord
  /\ Deriving(c) /\ c.at \in Opened => c.group \in keys
  /\ c.op = "next" /\ c.at \in Looking => c.index >= record[c.group].next
  /\ Deriving(c) /\ c.at \in {"try", "passrow", "passbump", "persist"} => c.held = vaults
  /\ Deriving(c) /\ c.at = "persist" => c.addr \notin c.held

Naming == {"recall", "tally", "survey", "weigh", "label"}

Removing == {"accounts", "recorded", "naming", "unrecord"}

\* A removal or a naming: what it did not find is still not there.
LookKnows(c) ==
  /\ c.at \in Removing => ~HoldsKey(c.group)
  /\ c.at \in Removing \ {"accounts"} => ~HoldsAccounts(c.group)
  /\ c.at \in {"survey", "weigh", "label"} /\ "account" \notin c.found =>
       ~HoldsAccounts(c.group)
  /\ c.at \in {"weigh", "label"} =>
       /\ "key" \notin c.found => c.group \notin keys
       /\ "staged" \notin c.found => stage[c.group] # "key"
  /\ c.at \in Naming => phrase[c.group] # Unminted

Knows(c) ==
  ImportKnows(c) /\ UndoKnows(c) /\ AnswerKnows(c) /\ DeriveKnows(c) /\ LookKnows(c)

Alone(p) == World(call[p]) /\ Knows(call[p])

-----------------------------------------------------------------------------
(* What a step leaves as it was. *)

LEMMA Alike ==
  ASSUME Typed, NEW p \in Procs
  PROVE  /\ call[p] \in Call /\ Formed(call[p], phrase, given) /\ DiskOK
         /\ call[p].group \in Ids /\ call[p].addr \in Addresses
         /\ call[p].index \in 0 .. MaxIndex + 1
         /\ call[p].since \in Nat /\ mishaps \in Nat
         /\ call[p].found \in SUBSET Findings /\ call[p].at \in Steps
         /\ call \in [Procs -> Call] /\ free \in SUBSET Ids
<1>1. call[p] \in Call /\ Formed(call[p], phrase, given) /\ DiskOK
  BY DEF Typed, TypeOK, DiskOK
<1>2. 0 .. MaxMishaps \subseteq Nat /\ mishaps \in 0 .. MaxMishaps
  BY GroupsAssumption DEF Typed, TypeOK
<1> QED
  BY <1>1, <1>2, CallFields DEF Typed, TypeOK

\* Which call has something to know.
LEMMA ImportSilent ==
  ASSUME NEW p, call'[p].op # "import", call'[p].at # "record"
  PROVE  ImportKnows(call[p])'
  BY DEF ImportKnows

LEMMA UndoSilent ==
  ASSUME NEW p, call'[p].at \notin Undoing
  PROVE  UndoKnows(call[p])'
  BY DEF UndoKnows, Undoing

LEMMA DeriveSilent ==
  ASSUME NEW p, \/ call'[p].op \notin {"next", "at"}
                \/ call'[p].at \notin Opened \union {"open"}
  PROVE  DeriveKnows(call[p])'
  BY DEF DeriveKnows, Deriving, Opened, Looking

LEMMA LookSilent ==
  ASSUME NEW p, call'[p].at \notin Removing \union Naming
  PROVE  LookKnows(call[p])'
  BY DEF LookKnows, Removing, Naming

LEMMA AnswerSilent ==
  ASSUME NEW p, call'[p].since <= mishaps', call'[p].verdict = "none"
  PROVE  AnswerKnows(call[p])'
  BY DEF AnswerKnows

\* Going on, a call has still no verdict.
LEMMA GoAnswers ==
  ASSUME Typed, NEW p \in Procs, AnswerKnows(call[p]), NEW step, Go(p, step),
         call[p].at # "answer", mishaps' \in Nat, mishaps' >= mishaps
  PROVE  AnswerKnows(call[p])'
  BY GoIs, Alike, AnswerSilent DEF AnswerKnows

\* What an answer says of an import that failed is all there is to know.
LEMMA EndsKnows ==
  ASSUME Typed, NEW p \in Procs, AnswerKnows(call[p]), NEW verdict,
         Ends(p, verdict), mishaps' \in Nat, mishaps' >= mishaps,
         call[p].op = "import" /\ verdict = "refused"
             /\ mishaps' <= call[p].since + 1 =>
           /\ record'[call[p].group] = NoRecord /\ call[p].group \notin named'
           /\ call[p].group \notin keys' /\ stage'[call[p].group] = "none"
  PROVE  Knows(call[p])'
<1>1. UndoKnows(call[p])' /\ DeriveKnows(call[p])' /\ LookKnows(call[p])'
  BY EndsIs, UndoSilent, DeriveSilent, LookSilent
     DEF Undoing, Opened, Removing, Naming
<1>2. ImportKnows(call[p])'
  BY EndsIs DEF ImportKnows, Making, Importing
<1>3. AnswerKnows(call[p])'
  BY EndsIs, Alike DEF AnswerKnows
<1> QED
  BY <1>1, <1>2, <1>3 DEF Knows

LEMMA IdleKnows ==
  ASSUME NEW p, call'[p] = IdleCall, mishaps' \in Nat
  PROVE  Knows(call[p])'
<1>1. /\ IdleCall.at = "idle" /\ IdleCall.op = "none" /\ IdleCall.since = 0
      /\ IdleCall.verdict = "none"
  BY DEF IdleCall
<1> QED
  BY <1>1, ImportSilent, UndoSilent, DeriveSilent, LookSilent, AnswerSilent
     DEF Knows, Undoing, Opened, Removing, Naming

\* Accounts that rows have for a wallet.
LEMMA UsedSame ==
  ASSUME rows' = rows
  PROVE  \A g : Used(g)' = Used(g) /\ HoldsAccounts(g)' = HoldsAccounts(g)
  BY DEF Used, HoldsAccounts

LEMMA UsedPut ==
  ASSUME DiskOK, NEW a \in Addresses, NEW row, rows' = [rows EXCEPT ![a] = row]
  PROVE  \A g, i : i \in Used(g)' =>
           /\ i \in Indices
           /\ i \in Used(g) \/ row = [group |-> g, index |-> i]
  BY DEF DiskOK, Used

\* A step that books nothing, and takes no next index back.
LEMMA BookedStays ==
  ASSUME Typed, NEW p \in Procs, Booked(call[p]),
         given' = given, unbooked \subseteq unbooked',
         \A g \in Ids : record'[g] # NoRecord =>
           /\ record[g] # NoRecord
           /\ record'[g] \in Record /\ record'[g].next >= record[g].next,
         Booking(call[p]) =>
           \/ Pair(call[p]) \in unbooked'
           \/ Booking(call'[p]) /\ Pair(call'[p]) = Pair(call[p])
           \/ record'[call[p].group] = NoRecord
           \/ record'[call[p].group].next > call[p].index
  PROVE  Booked(call[p])'
<1> SUFFICES ASSUME NEW g \in Ids, NEW i \in Indices, <<g, i>> \in given
             PROVE  \/ <<g, i>> \in unbooked'
                    \/ Booking(call'[p]) /\ Pair(call'[p]) = <<g, i>>
                    \/ record'[g] = NoRecord
                    \/ record'[g].next > i
  BY DEF Booked, Booking, Derives, Pair
<1>1. CASE <<g, i>> \in unbooked
  BY <1>1
<1>2. CASE Booking(call[p]) /\ Pair(call[p]) = <<g, i>>
  <2>1. call[p].group = g /\ call[p].index = i
    BY <1>2 DEF Pair
  <2> QED
    BY <1>2, <2>1
<1>3. CASE record[g] = NoRecord
  BY <1>3
<1>4. CASE record[g] # NoRecord /\ record[g].next > i
  <2>1. record[g] \in Record
    BY <1>4, Alike DEF DiskOK
  <2>2. record'[g] # NoRecord => record'[g].next \in Int
    BY GroupsAssumption DEF Record
  <2>3. record[g].next \in Int /\ i \in Int
    BY <2>1, GroupsAssumption DEF Record, Indices
  <2> QED
    BY <1>4, <2>2, <2>3
<1> QED
  BY <1>1, <1>2, <1>3, <1>4 DEF Booked

\* Where the disk stays as it was, so does what is true of it.
LEMMA WorldStays ==
  ASSUME Typed, NEW p \in Procs, World(call[p]), UNCHANGED disk,
         given' = given, free' = free, botched \subseteq botched',
         unbooked \subseteq unbooked',
         \A g \in Ids : phrase'[g] = Unminted => phrase[g] = Unminted,
         Booking(call[p]) =>
           \/ Pair(call[p]) \in unbooked'
           \/ Booking(call'[p]) /\ Pair(call'[p]) = Pair(call[p])
  PROVE  World(call[p])'
<1>1. /\ UNCHANGED <<record, named, rows, keys, stage, vaults>>
      /\ \A g : Used(g)' = Used(g) /\ HoldsAccounts(g)' = HoldsAccounts(g)
  BY UsedSame DEF disk
<1>2. NewIds'
  BY <1>1 DEF World, NewIds, Unknown
<1>3. \A g \in Ids : record'[g] # NoRecord =>
        /\ record[g] # NoRecord
        /\ record'[g] \in Record /\ record'[g].next >= record[g].next
  <2> SUFFICES ASSUME NEW g \in Ids, record[g] # NoRecord
               PROVE  record[g] \in Record /\ record[g].next >= record[g].next
    BY <1>1
  <2>1. record[g] \in Record
    BY Alike DEF DiskOK
  <2> QED
    BY <2>1, GroupsAssumption DEF Record
<1>4. Booked(call[p])'
  BY <1>3, BookedStays DEF World
<1>5. KeyHasRecord'
  BY <1>1 DEF World, KeyHasRecord, Stranded
<1>6. AccountsListed'
  BY <1>1 DEF World, AccountsListed
<1>7. NamesArePaid'
  BY <1>1 DEF World, NamesArePaid
<1> QED
  BY <1>2, <1>4, <1>5, <1>6, <1>7 DEF World

-----------------------------------------------------------------------------
(* The calls. *)

LEMMA BeginsAlone ==
  ASSUME Typed, NEW p \in Procs, Alone(p), Begins(p)
  PROVE  Alone(p)'
<1> USE DEF Alone
<1>1. ASSUME NEW c \in Call, Starts(p, c), c.verdict = "none",
             c.at \in {"record", "resolve", "persist", "unvault",
                        "forget_key", "store", "recall"},
             c.op = "import" => c.at = "record",
             c.at = "resolve" => c.op \in {"next", "at"},
             c.at = "persist" => c.op = "raw",
             c.at = "record" => Unknown(c.group),
             c.at = "recall" => phrase'[c.group] # Unminted,
             \A g \in Ids : phrase'[g] = Unminted => phrase[g] = Unminted
      PROVE  Alone(p)'
  <2>1. /\ call'[p].at = c.at /\ call'[p].op = c.op /\ call'[p].group = c.group
        /\ call'[p].verdict = "none" /\ call'[p].since = mishaps
        /\ mishaps' = mishaps /\ mishaps \in Nat
    BY <1>1, Alike DEF Starts, Call
  <2>2. World(call[p])'
    <3>1. ~Booking(call[p])
      BY <1>1 DEF Starts, At, Booking
    <3> QED
      BY <1>1, <3>1, WorldStays DEF Starts
  <2>3. AnswerKnows(call[p])' /\ UndoKnows(call[p])'
    BY <1>1, <2>1, AnswerSilent, UndoSilent DEF Undoing
  <2>4. DeriveKnows(call[p])'
    BY <1>1, <2>1, DeriveSilent DEF Opened
  <2>5. LookKnows(call[p])'
    BY <1>1, <2>1 DEF LookKnows, Removing, Naming
  <2>6. ImportKnows(call[p])'
    <3>1. CASE c.op # "import" /\ c.at # "record"
      BY <2>1, <3>1, ImportSilent
    <3>2. CASE c.at = "record"
      <4>1. Unknown(c.group) => Unknown(c.group)'
        BY <1>1, UsedSame DEF Starts, disk, Unknown
      <4> QED
        BY <1>1, <2>1, <3>2, <4>1 DEF ImportKnows, Making, Importing, Unknown, Used
    <3> QED
      BY <1>1, <3>1, <3>2
  <2> QED
    BY <2>2, <2>3, <2>4, <2>5, <2>6 DEF Knows
<1>2. /\ IdleCall.at = "idle" /\ IdleCall.op = "none"
      /\ IdleCall.verdict = "none" /\ IdleCall \in Call
  BY IdleIsCall DEF IdleCall
<1>3. CASE BeginImport(p)
  <2>1. PICK g \in Ids, ph \in Phrases, i \in Indices,
             kept \in {"plain", "extkey"}, label \in Labels :
          /\ phrase[g] = Unminted
          /\ phrase' = [phrase EXCEPT ![g] = ph]
          /\ Starts(p, [IdleCall EXCEPT
               !.op = "import", !.at = "record", !.group = g, !.index = i,
               !.addr = <<ph, i>>, !.kept = kept, !.label = label])
    BY ZenonT(60), <1>3 DEF BeginImport
  <2> DEFINE c == [IdleCall EXCEPT
               !.op = "import", !.at = "record", !.group = g, !.index = i,
               !.addr = <<ph, i>>, !.kept = kept, !.label = label]
  <2>2. i \in 0 .. MaxIndex + 1 /\ <<ph, i>> \in Addresses
        /\ label \in {"name", "blank"}
    BY GroupsAssumption DEF Indices, Addresses
  <2>3. /\ c \in Call /\ c.at = "record" /\ c.op = "import" /\ c.group = g
        /\ c.verdict = "none"
    BY <1>2, <2>2 DEF Call, Ops, Steps
  <2>4. Unknown(g)
    BY <2>1 DEF World, NewIds
  <2>5. \A h \in Ids : phrase'[h] = Unminted => phrase[h] = Unminted
    BY <2>1 DEF Typed, TypeOK
  <2>6. Starts(p, c)
    BY <2>1
  <2> HIDE DEF c
  <2> QED
    BY <1>1, <2>3, <2>4, <2>5, <2>6
<1>4. CASE BeginDerive(p)
  <2>1. PICK g \in Ids, i \in Indices, op \in {"next", "at"} :
          /\ phrase[g] # Unminted
          /\ Starts(p, [IdleCall EXCEPT
               !.op = op, !.at = "resolve", !.group = g, !.index = i,
               !.addr = <<phrase[g], i>>])
          /\ UNCHANGED phrase
    BY <1>4 DEF BeginDerive
  <2> DEFINE c == [IdleCall EXCEPT
               !.op = op, !.at = "resolve", !.group = g, !.index = i,
               !.addr = <<phrase[g], i>>]
  <2>2. i \in 0 .. MaxIndex + 1 /\ <<phrase[g], i>> \in Addresses
    BY <2>1, GroupsAssumption DEF Indices, Addresses, Typed, TypeOK
  <2>3. /\ c \in Call /\ c.at = "resolve" /\ c.op \in {"next", "at"}
        /\ c.verdict = "none"
    BY <1>2, <2>2 DEF Call, Ops, Steps
  <2>4. Starts(p, c) /\ UNCHANGED phrase
    BY <2>1
  <2> HIDE DEF c
  <2> QED
    BY <1>1, <2>3, <2>4
<1>5. CASE BeginAccount(p)
  <2>1. PICK a \in Addresses, op \in {"raw", "delete"} :
          /\ Starts(p, [IdleCall EXCEPT
               !.op = op, !.addr = a,
               !.at = IF op = "raw" THEN "persist" ELSE "unvault"])
          /\ UNCHANGED phrase
    BY <1>5 DEF BeginAccount
  <2> DEFINE c == [IdleCall EXCEPT
               !.op = op, !.addr = a,
               !.at = IF op = "raw" THEN "persist" ELSE "unvault"]
  <2>2. /\ c \in Call /\ c.op = op /\ c.verdict = "none"
        /\ c.at = IF op = "raw" THEN "persist" ELSE "unvault"
    BY ZenonT(60), <1>2 DEF Call, Ops, Steps
  <2>3. Starts(p, c) /\ UNCHANGED phrase
    BY <2>1
  <2> HIDE DEF c
  <2> QED
    BY <1>1, <2>2, <2>3
<1>6. CASE BeginGroup(p)
  <2>1. PICK g \in Ids, op \in {"forget", "remove"} :
          /\ Starts(p, [IdleCall EXCEPT
               !.op = op, !.group = g,
               !.at = IF op = "forget" THEN "forget_key" ELSE "store"])
          /\ UNCHANGED phrase
    BY <1>6 DEF BeginGroup
  <2> DEFINE c == [IdleCall EXCEPT
               !.op = op, !.group = g,
               !.at = IF op = "forget" THEN "forget_key" ELSE "store"]
  <2>2. /\ c \in Call /\ c.op = op /\ c.verdict = "none"
        /\ c.at = IF op = "forget" THEN "forget_key" ELSE "store"
    BY ZenonT(60), <1>2 DEF Call, Ops, Steps
  <2>3. Starts(p, c) /\ UNCHANGED phrase
    BY <2>1
  <2> HIDE DEF c
  <2> QED
    BY <1>1, <2>2, <2>3
<1>7. CASE BeginLabel(p)
  <2>1. PICK g \in Ids, label \in Labels \union {"blank"} :
          /\ phrase[g] # Unminted
          /\ Starts(p, [IdleCall EXCEPT
               !.op = "label", !.group = g, !.label = label, !.at = "recall"])
          /\ UNCHANGED phrase
    BY <1>7 DEF BeginLabel
  <2> DEFINE c == [IdleCall EXCEPT
               !.op = "label", !.group = g, !.label = label, !.at = "recall"]
  <2>2. label \in {"name", "blank"}
    BY GroupsAssumption
  <2>3. /\ c \in Call /\ c.op = "label" /\ c.verdict = "none"
        /\ c.at = "recall" /\ c.group = g
    BY <1>2, <2>2 DEF Call, Ops, Steps
  <2>4. Starts(p, c) /\ UNCHANGED phrase
    BY <2>1
  <2> HIDE DEF c
  <2> QED
    BY <1>1, <2>1, <2>3, <2>4
<1> QED
  BY <1>3, <1>4, <1>5, <1>6, <1>7 DEF Begins

-----------------------------------------------------------------------------
(* An import. *)

\* An import goes on where only its own name, key and stage have changed.
LEMMA MakingAlone ==
  ASSUME Typed, NEW p \in Procs, Alone(p), call[p].op = "import",
         call[p].at \in Making \ {"persist", "row", "bump"},
         NEW step \in Making \ {"row", "bump"}, Go(p, step),
         UNCHANGED <<record, rows, vaults, phrase, given, free, unbooked>>,
         botched \subseteq botched',
         mishaps' \in Nat, mishaps' >= mishaps,
         \A g \in Ids \ {call[p].group} :
           /\ g \in named' <=> g \in named
           /\ g \in keys' <=> g \in keys
           /\ stage'[g] = stage[g]
  PROVE  Alone(p)'
<1> DEFINE c == call[p]
<1>1. /\ c.group \in Ids /\ c.at # "answer" /\ phrase[c.group] # Unminted
      /\ record[c.group] # NoRecord /\ c.group \notin free
      /\ \A i \in Used(c.group) : c.at = "bump" /\ i = c.index
      /\ World(c)
  BY Alike DEF Alone, Knows, ImportKnows, Making, Importing, Formed, Derives
<1>2. \A g : Used(g)' = Used(g) /\ HoldsAccounts(g)' = HoldsAccounts(g)
  BY UsedSame
<1>3. NewIds'
  BY <1>1, <1>2 DEF World, NewIds, Unknown
<1>4. Booked(c)'
  <2>1. \A g \in Ids : record'[g] # NoRecord =>
          /\ record[g] # NoRecord
          /\ record'[g] \in Record /\ record'[g].next >= record[g].next
    <3> SUFFICES ASSUME NEW g \in Ids, record[g] # NoRecord
                 PROVE  record[g] \in Record /\ record[g].next >= record[g].next
      OBVIOUS
    <3>1. record[g] \in Record
      BY Alike DEF DiskOK
    <3> QED
      BY <3>1, GroupsAssumption DEF Record
  <2>2. ~Booking(c)
    BY DEF Booking
  <2> QED
    BY <1>1, <2>1, <2>2, BookedStays DEF World
<1>5. KeyHasRecord' /\ AccountsListed' /\ NamesArePaid'
  <2>1. KeyHasRecord'
    BY <1>1 DEF World, KeyHasRecord, Stranded
  <2>2. AccountsListed'
    BY <1>1, <1>2 DEF World, AccountsListed
  <2>3. NamesArePaid'
    BY <1>1, <1>2, Alike DEF World, NamesArePaid
  <2> QED
    BY <2>1, <2>2, <2>3
<1>6. call'[p].at = step /\ call'[p].op = "import" /\ call'[p].group = c.group
  BY GoIs
<1>7. UndoKnows(c)' /\ DeriveKnows(c)' /\ LookKnows(c)'
  BY <1>6, UndoSilent, DeriveSilent, LookSilent
     DEF Making, Importing, Undoing, Removing, Naming
<1>8. AnswerKnows(c)'
  BY <1>1, GoAnswers DEF Alone, Knows
<1>9. ImportKnows(c)'
  BY <1>1, <1>2, <1>6 DEF ImportKnows, Making, Importing
<1> QED
  BY <1>3, <1>4, <1>5, <1>7, <1>8, <1>9 DEF World, Knows, Alone

LEMMA PutRecordAlone ==
  ASSUME Typed, NEW p \in Procs, Alone(p), PutRecord(p)
  PROVE  Alone(p)'
<1> DEFINE c == call[p]
           new == [storage |-> c.kept, next |-> 0, retired |-> {}]
<1>1. /\ c.at = "record" /\ c.op = "import" /\ Unknown(c.group)
      /\ phrase[c.group] # Unminted /\ c.group \in Ids /\ World(c)
  BY Alike DEF PutRecord, At, Alone, Knows, ImportKnows, Formed, ImportSteps, Derives
<1>2. /\ Go(p, "name")
      /\ UNCHANGED <<named, rows, keys, stage, vaults, phrase, mishaps, history>>
      /\ \A g : Used(g)' = Used(g) /\ HoldsAccounts(g)' = HoldsAccounts(g)
  BY UsedSame DEF PutRecord
<1>3. new # NoRecord
  BY Alike, GroupsAssumption DEF Record, Call
<1>4. /\ record'[c.group] # NoRecord
      /\ \A g \in Ids \ {c.group} : record'[g] = record[g]
  BY <1>1, <1>3, Alike DEF PutRecord, DiskOK
<1>5. NewIds'
  BY <1>1, <1>2, <1>4 DEF World, NewIds, Unknown, history
<1>6. Booked(c)'
  <2>1. ~Booking(c)
    BY <1>1 DEF Booking
  <2> QED
    BY <1>1, <1>2, <1>4, <2>1 DEF World, Booked, Unknown, history
<1>7. KeyHasRecord' /\ AccountsListed' /\ NamesArePaid'
  BY <1>1, <1>2, <1>4
     DEF World, KeyHasRecord, Stranded, AccountsListed, NamesArePaid, history
<1>8. call'[p].at = "name" /\ call'[p].op = "import" /\ call'[p].group = c.group
  BY <1>1, <1>2, GoIs
<1>9. UndoKnows(c)' /\ DeriveKnows(c)' /\ LookKnows(c)'
  BY <1>8, UndoSilent, DeriveSilent, LookSilent DEF Undoing, Removing, Naming
<1>10. AnswerKnows(c)'
  BY <1>1, <1>2, Alike, GoAnswers DEF Alone, Knows
<1>11. ImportKnows(c)'
  BY <1>1, <1>2, <1>4, <1>8 DEF ImportKnows, Making, Importing, Unknown, history
<1> QED
  BY <1>5, <1>6, <1>7, <1>9, <1>10, <1>11 DEF World, Knows, Alone

LEMMA MakesAlone ==
  ASSUME Typed, NEW p \in Procs, Alone(p),
         PutName(p) \/ PutStage(p) \/ Encrypt(p) \/ Promote(p) \/ DropStage(p)
  PROVE  Alone(p)'
<1> DEFINE c == call[p]
<1>1. /\ c.at \in {"name", "stage", "encrypt", "promote", "drop"}
      /\ c.at \in Making \ {"persist", "row", "bump"}
      /\ c.op = "import" /\ c.group \in Ids /\ DiskOK
      /\ UNCHANGED <<record, rows, vaults, phrase, given, free, unbooked,
                     botched, mishaps>>
  BY Alike
     DEF PutName, PutStage, Encrypt, Promote, DropStage, StageMoves, At,
         Formed, ImportSteps, Making, Importing, history
<1>2. mishaps' \in Nat /\ mishaps' >= mishaps
  BY <1>1, Alike
<1>3. \A g \in Ids \ {c.group} :
        /\ g \in named' <=> g \in named
        /\ g \in keys' <=> g \in keys
        /\ stage'[g] = stage[g]
  BY <1>1
     DEF PutName, PutStage, Encrypt, Promote, DropStage, StageMoves, DiskOK
<1>4. PICK step \in Making \ {"row", "bump"} : Go(p, step)
  BY DEF PutName, PutStage, Encrypt, Promote, DropStage, StageMoves,
         Making, Importing
<1> QED
  BY <1>1, <1>2, <1>3, <1>4, MakingAlone

\* A rollback goes on.
LEMMA UndoingAlone ==
  ASSUME Typed, NEW p \in Procs, Alone(p),
         Go(p, "undo_stage") \/ Go(p, "undo_name") \/ Go(p, "undo_record"),
         call[p].at \in {"undo_key", "undo_stage", "undo_name"},
         UNCHANGED <<record, rows, vaults, phrase, given, free, unbooked>>,
         botched \subseteq botched', named' \subseteq named, keys' \subseteq keys,
         \A g \in Ids : stage'[g] \in {stage[g], "none"},
         mishaps' \in Nat, mishaps' >= mishaps,
         UndoKnows(call[p])'
  PROVE  Alone(p)'
<1> DEFINE c == call[p]
<1>1. /\ c.group \in Ids /\ c.at # "answer" /\ c.op = "import"
      /\ World(c)
  BY Alike DEF Alone, Formed, ImportSteps, Undoing
<1>2. \A g : Used(g)' = Used(g) /\ HoldsAccounts(g)' = HoldsAccounts(g)
  BY UsedSame
<1>3. NewIds'
  BY <1>1, <1>2 DEF World, NewIds, Unknown
<1>4. Booked(c)'
  <2>1. ~Booking(c)
    BY DEF Booking
  <2> QED
    BY <1>1, <2>1 DEF World, Booked
<1>5. KeyHasRecord' /\ AccountsListed' /\ NamesArePaid'
  <2>1. KeyHasRecord'
    BY <1>1 DEF World, KeyHasRecord, Stranded
  <2>2. AccountsListed'
    BY <1>1, <1>2 DEF World, AccountsListed
  <2>3. NamesArePaid'
    BY <1>1, <1>2, Alike DEF World, NamesArePaid
  <2> QED
    BY <2>1, <2>2, <2>3
<1>6. call'[p].at \in Undoing /\ call'[p].op = "import" /\ call'[p].group = c.group
  BY <1>1, GoIs DEF Undoing
<1>7. DeriveKnows(c)' /\ LookKnows(c)'
  BY <1>6, DeriveSilent, LookSilent DEF Undoing, Removing, Naming
<1>8. AnswerKnows(c)'
  BY <1>1, GoAnswers DEF Alone, Knows
<1>9. ImportKnows(c)'
  BY <1>6 DEF ImportKnows, Making, Importing, Undoing
<1> QED
  BY <1>3, <1>4, <1>5, <1>7, <1>8, <1>9 DEF World, Knows, Alone

LEMMA UndoesAlone ==
  ASSUME Typed, NEW p \in Procs, Alone(p),
         UndoKey(p) \/ UndoStage(p) \/ UndoName(p)
  PROVE  Alone(p)'
<1> DEFINE c == call[p]
<1>1. /\ c.at \in {"undo_key", "undo_stage", "undo_name"}
      /\ c.group \in Ids /\ UndoKnows(c) /\ DiskOK
      /\ UNCHANGED <<record, rows, vaults, phrase, given, free, unbooked,
                     botched, mishaps>>
      /\ mishaps' \in Nat /\ mishaps' >= mishaps
      /\ named' \subseteq named /\ keys' \subseteq keys
  BY Alike
     DEF UndoKey, UndoStage, UndoName, Unnamed, At, Alone, Knows, history
<1>2. \A g \in Ids : stage'[g] \in {stage[g], "none"}
  BY <1>1 DEF UndoKey, UndoStage, UndoName, DiskOK
<1>3. \A g : Used(g)' = Used(g)
  BY <1>1, UsedSame
<1>4. CASE UndoKey(p)
  <2>1. /\ Go(p, "undo_stage") /\ c.group \notin keys' /\ c.at = "undo_key"
    BY <1>4 DEF UndoKey, At
  <2>2. UndoKnows(c)'
    BY <1>1, <1>3, <2>1, GoIs DEF UndoKnows, Undoing
  <2> QED
    BY <1>1, <1>2, <2>1, <2>2, UndoingAlone
<1>5. CASE UndoStage(p)
  <2>1. /\ Go(p, "undo_name") /\ stage'[c.group] = "none" /\ c.at = "undo_stage"
        /\ keys' = keys
    BY <1>1, <1>5 DEF UndoStage, At, DiskOK
  <2>2. UndoKnows(c)'
    BY <1>1, <1>3, <2>1, GoIs DEF UndoKnows, Undoing
  <2> QED
    BY <1>1, <1>2, <2>1, <2>2, UndoingAlone
<1>6. CASE UndoName(p)
  <2>1. /\ Go(p, "undo_record") /\ c.group \notin named' /\ c.at = "undo_name"
        /\ keys' = keys /\ stage' = stage
    BY <1>6 DEF UndoName, Unnamed, At
  <2>2. UndoKnows(c)'
    BY <1>1, <1>3, <2>1, GoIs DEF UndoKnows, Undoing
  <2> QED
    BY <1>1, <1>2, <2>1, <2>2, UndoingAlone
<1> QED
  BY <1>4, <1>5, <1>6

\* The record goes last, when nothing but what a rollback could not remove and
\* what its call did not book is left to name it.
LEMMA UndoRecordAlone ==
  ASSUME Typed, NEW p \in Procs, Alone(p), UndoRecord(p)
  PROVE  Alone(p)'
<1> DEFINE c == call[p]
<1>1. /\ c.at = "undo_record" /\ c.op = "import" /\ c.group \in Ids
      /\ UndoKnows(c) /\ AnswerKnows(c) /\ World(c) /\ DiskOK
  BY Alike DEF UndoRecord, At, Alone, Knows, Formed, ImportSteps, Undoing
<1>2. /\ Refuse(p) /\ record'[c.group] = NoRecord
      /\ \A g \in Ids \ {c.group} : record'[g] = record[g]
      /\ UNCHANGED <<named, rows, keys, stage, vaults, phrase, mishaps, history>>
      /\ \A g : Used(g)' = Used(g) /\ HoldsAccounts(g)' = HoldsAccounts(g)
  BY <1>1, UsedSame DEF UndoRecord, DiskOK
<1>3. NewIds'
  BY <1>1, <1>2 DEF World, NewIds, Unknown, history
<1>4. Booked(c)'
  <2>1. ~Booking(c)
    BY <1>1 DEF Booking
  <2> QED
    BY <1>1, <1>2, <2>1 DEF World, Booked, history
<1>5. KeyHasRecord'
  BY <1>1, <1>2
     DEF World, KeyHasRecord, Stranded, UndoKnows, history
<1>6. AccountsListed'
  BY <1>1, <1>2 DEF World, AccountsListed, UndoKnows, Undoing, history
<1>7. NamesArePaid'
  BY <1>1, <1>2 DEF World, NamesArePaid, history
<1>8. /\ mishaps <= c.since + 1 =>
           c.group \notin named /\ c.group \notin keys /\ stage[c.group] = "none"
  <2>1. mishaps > c.since + 1 => ~(mishaps <= c.since + 1)
    BY Alike
  <2> QED
    BY <1>1, <2>1 DEF UndoKnows
<1>9. Knows(c)'
  BY <1>1, <1>2, <1>8, Alike, EndsKnows DEF Refuse
<1> QED
  BY <1>3, <1>4, <1>5, <1>6, <1>7, <1>9 DEF World, Alone

LEMMA ImportAlone ==
  ASSUME Typed, NEW p \in Procs, Alone(p), Import(p)
  PROVE  Alone(p)'
  BY PutRecordAlone, MakesAlone, UndoesAlone, UndoRecordAlone DEF Import

-----------------------------------------------------------------------------
(* Steps that write nothing. *)

\* A call that only reads keeps what is true of the disk, and if it derives it
\* has to know what it read.
LEMMA ReadsWorld ==
  ASSUME Typed, NEW p \in Procs, Alone(p), Reads(p), ~Booking(call[p])
  PROVE  World(call[p])' /\ mishaps' \in Nat /\ mishaps' >= mishaps
<1>1. /\ UNCHANGED disk /\ given' = given /\ free' = free /\ botched' = botched
      /\ unbooked' = unbooked /\ phrase' = phrase /\ mishaps' = mishaps
  BY DEF Reads, history
<1>2. mishaps' \in Nat /\ mishaps' >= mishaps
  BY <1>1, Alike
<1> QED
  BY <1>1, <1>2, WorldStays DEF Alone

\* Refusing what is no import leaves nothing to know.
LEMMA RefusesAlone ==
  ASSUME Typed, NEW p \in Procs, Alone(p), Reads(p), Refuse(p),
         ~Booking(call[p]), call[p].op # "import"
  PROVE  Alone(p)'
<1>1. World(call[p])' /\ mishaps' \in Nat /\ mishaps' >= mishaps
  BY ReadsWorld
<1>2. Knows(call[p])'
  BY <1>1, EndsKnows DEF Alone, Knows, Refuse
<1> QED
  BY <1>1, <1>2 DEF Alone

\* A call that derives, and reads.
LEMMA DeriveReads ==
  ASSUME Typed, NEW p \in Procs, Alone(p), Reads(p), call[p].at \in DeriveSteps,
         call'[p].op = call[p].op, call'[p].at \in Steps,
         call'[p].at \in DeriveSteps \union {"persist"},
         call'[p].since = call[p].since, call'[p].verdict = call[p].verdict,
         DeriveKnows(call[p])'
  PROVE  Alone(p)'
<1> DEFINE c == call[p]
<1>1. c.op \in {"next", "at"} /\ ~Booking(c) /\ AnswerKnows(c)
      /\ c.at # "answer"
  BY Alike DEF Formed, DeriveSteps, Booking, Alone, Knows
<1>2. World(c)' /\ mishaps' \in Nat /\ mishaps' >= mishaps
  BY <1>1, ReadsWorld
<1>3. ImportKnows(c)' /\ UndoKnows(c)' /\ LookKnows(c)'
  BY <1>1, ImportSilent, UndoSilent, LookSilent
     DEF DeriveSteps, Undoing, Removing, Naming
<1>4. AnswerKnows(c)'
  <2>1. c.since <= mishaps'
    BY <1>1, <1>2, Alike DEF AnswerKnows
  <2> QED
    BY <1>1, <2>1, AnswerSilent DEF AnswerKnows
<1> QED
  BY <1>2, <1>3, <1>4 DEF Alone, Knows

\* The walk: what it has read of the record, the key and the vaults stands
\* while it is the only one to write them.
LEMMA WalkReadsAlone ==
  ASSUME Typed, NEW p \in Procs, Alone(p),
         Resolve(p) \/ Open(p) \/ Start(p) \/ Hold(p) \/ Try(p)
  PROVE  Alone(p)'
<1> DEFINE c == call[p]
<1>1. /\ c.at \in {"resolve", "open", "start", "hold", "try"}
      /\ c.at \in DeriveSteps /\ c.op \in {"next", "at"} /\ Reads(p)
      /\ c \in Call /\ DiskOK /\ DeriveKnows(c) /\ ~Booking(c)
      /\ c.group \in Ids /\ c.op # "import"
  BY Alike
     DEF Resolve, Open, Start, Hold, Try, At, DeriveSteps, Formed, Booking,
         Alone, Knows
<1>2. UNCHANGED <<record, keys, vaults>>
  BY <1>1 DEF Reads, disk
<1>3. record[c.group] # NoRecord => record[c.group].next \in 0 .. MaxIndex + 1
  BY <1>1 DEF DiskOK, Record
<1>4. CASE Resolve(p)
  <2> DEFINE r == record[c.group]
             index == IF c.op = "next" THEN r.next ELSE c.index
  <2>1. CASE Refuse(p)
    BY <1>1, <2>1, RefusesAlone
  <2>2. CASE /\ r # NoRecord
             /\ call' = [call EXCEPT ![p].at = "open", ![p].index = index]
    <3>1. /\ call'[p].at = "open" /\ call'[p].op = c.op
          /\ call'[p].index = index /\ call'[p].group = c.group
          /\ call'[p].since = c.since /\ call'[p].verdict = c.verdict
      BY <1>1, <2>2, Alike DEF Call
    <3>2. c.op = "next" => index >= r.next
      BY <1>3, <2>2
    <3> HIDE DEF index
    <3>3. DeriveKnows(c)'
      BY <1>2, <2>2, <3>1, <3>2 DEF DeriveKnows, Opened, Looking
    <3> QED
      BY <1>1, <3>1, <3>3, DeriveReads DEF DeriveSteps, Steps
  <2> QED
    BY <1>4, <2>1, <2>2 DEF Resolve
<1>5. CASE Open(p)
  <2>1. CASE Refuse(p)
    BY <1>1, <2>1, RefusesAlone
  <2>2. ASSUME c.group \in keys, NEW step \in {"start", "hold"}, Go(p, step)
        PROVE  Alone(p)'
    <3>1. c.at = "open"
      BY <1>5 DEF Open, At
    <3>2. DeriveKnows(c)'
      BY <1>1, <1>2, <2>2, <3>1, GoIs DEF DeriveKnows, Opened, Looking, Deriving
    <3> QED
      BY <1>1, <2>2, <3>2, GoIs, DeriveReads DEF DeriveSteps, Steps
  <2> QED
    BY <1>5, <2>1, <2>2 DEF Open
<1>6. CASE Start(p)
  <2>1. PICK start \in {c.index} \union {i + 1 : i \in Used(c.group)} :
          /\ start >= c.index
          /\ call' = [call EXCEPT ![p].index = start, ![p].at = "hold"]
    BY <1>6 DEF Start
  <2>2. /\ call'[p].at = "hold" /\ call'[p].op = c.op
        /\ call'[p].index = start /\ call'[p].group = c.group
        /\ call'[p].since = c.since /\ call'[p].verdict = c.verdict
    BY <1>1, <2>1, Alike DEF Call
  <2>3. c.at = "start"
    BY <1>6 DEF Start, At
  <2>4. record[c.group] # NoRecord /\ c.group \in keys
        /\ (c.op = "next" => c.index >= record[c.group].next)
    BY <1>1, <2>3 DEF DeriveKnows, Opened, Looking, Deriving
  <2>5. start \in Int /\ c.index \in Int
    <3>1. c.index \in Int
      BY Alike, GroupsAssumption
    <3>2. \A i \in Used(c.group) : i + 1 \in Int
      BY GroupsAssumption DEF Used, Indices
    <3> QED
      BY <3>1, <3>2
  <2>6. c.op = "next" => start >= record[c.group].next
    BY <1>3, <2>1, <2>4, <2>5, GroupsAssumption
  <2>7. DeriveKnows(c)'
    BY <1>1, <1>2, <2>2, <2>4, <2>6 DEF DeriveKnows, Opened, Looking, Deriving
  <2> QED
    BY <1>1, <2>2, <2>7, DeriveReads DEF DeriveSteps, Steps
<1>7. CASE Hold(p)
  <2>1. call' = [call EXCEPT ![p].held = vaults, ![p].at = "try"] /\ c.at = "hold"
    BY <1>7 DEF Hold, At
  <2>2. /\ call'[p].at = "try" /\ call'[p].op = c.op /\ call'[p].held = vaults
        /\ call'[p].index = c.index /\ call'[p].group = c.group
        /\ call'[p].since = c.since /\ call'[p].verdict = c.verdict
    BY <1>1, <2>1, Alike DEF Call
  <2>3. DeriveKnows(c)'
    BY <1>1, <1>2, <2>1, <2>2 DEF DeriveKnows, Opened, Looking, Deriving
  <2> QED
    BY <1>1, <2>2, <2>3, DeriveReads DEF DeriveSteps, Steps
<1>8. CASE Try(p)
  <2> DEFINE addr == <<phrase[c.group], c.index>>
             step == IF Taken(c, addr) THEN "passrow" ELSE "persist"
  <2>1. CASE Refuse(p)
    BY <1>1, <2>1, RefusesAlone
  <2>2. CASE call' = [call EXCEPT ![p].addr = addr, ![p].at = step]
    <3>1. c.at = "try"
      BY <1>8 DEF Try, At
    <3>2. /\ call'[p].at = step /\ call'[p].op = c.op /\ call'[p].held = c.held
          /\ call'[p].index = c.index /\ call'[p].group = c.group
          /\ call'[p].addr = addr
          /\ call'[p].since = c.since /\ call'[p].verdict = c.verdict
      BY <1>1, <2>2, Alike DEF Call
    <3>3. step = "persist" => addr \notin c.held
      BY DEF Taken
    <3>4. step \in {"passrow", "persist"}
      OBVIOUS
    <3> HIDE DEF step, addr
    <3>5. DeriveKnows(c)'
      BY <1>1, <1>2, <3>1, <3>2, <3>3, <3>4
        DEF DeriveKnows, Opened, Looking, Deriving
    <3> QED
      BY <1>1, <3>2, <3>4, <3>5, DeriveReads DEF DeriveSteps, Steps
  <2> QED
    BY <1>8, <2>1, <2>2 DEF Try
<1> QED
  BY <1>4, <1>5, <1>6, <1>7, <1>8

-----------------------------------------------------------------------------
(* Accounts: their vaults, their rows, their indices. *)

\* A record that covers one more index keeps every index it covered.
LEMMA Covers ==
  ASSUME Typed, NEW g \in Ids, NEW i \in Indices, NEW new, Rerecord(g, new),
         record[g] # NoRecord =>
           new \in Record /\ new.next = Covering(record[g], i).next
  PROVE  /\ \A h \in Ids : record'[h] = NoRecord <=> record[h] = NoRecord
         /\ \A h \in Ids : record'[h] # NoRecord =>
              /\ record[h] # NoRecord /\ record'[h] \in Record
              /\ record'[h].next >= record[h].next
         /\ record[g] # NoRecord => record'[g].next = Larger(record[g].next, i + 1)
         /\ record[g] # NoRecord => record[g].next \in Nat
<1>1. DiskOK
  BY DEF Typed, TypeOK, DiskOK
<1>2. /\ \A h \in Ids : record'[h] = NoRecord <=> record[h] = NoRecord
      /\ \A h \in Ids \ {g} : record'[h] = record[h]
      /\ record[g] # NoRecord => record'[g] = new
  BY <1>1, RerecordKeeps
<1>3. \A h \in Ids : record[h] # NoRecord =>
        record[h] \in Record /\ record[h].next \in Nat
  BY <1>1, GroupsAssumption DEF DiskOK, Record
<1>4. record[g] # NoRecord =>
        /\ Covering(record[g], i).next = Larger(record[g].next, i + 1)
        /\ Larger(record[g].next, i + 1) >= record[g].next
  BY <1>3, GroupsAssumption DEF Covering, Record, Larger, Indices
<1>5. \A h \in Ids : record[h] # NoRecord => record[h].next >= record[h].next
  BY <1>3
<1> QED
  BY <1>2, <1>3, <1>4, <1>5

\* Where only records change and none comes or goes, the rest of the world is
\* as it was.
LEMMA RerecordedWorld ==
  ASSUME Typed, NEW c, World(c),
         \A h \in Ids : record'[h] = NoRecord <=> record[h] = NoRecord,
         UNCHANGED <<named, rows, keys, stage, phrase, given, free>>,
         unbooked \subseteq unbooked', botched \subseteq botched'
  PROVE  NewIds' /\ KeyHasRecord' /\ AccountsListed' /\ NamesArePaid'
<1>1. \A g : Used(g)' = Used(g) /\ HoldsAccounts(g)' = HoldsAccounts(g)
  BY UsedSame
<1>2. NewIds'
  BY <1>1 DEF World, NewIds, Unknown
<1>3. KeyHasRecord' /\ AccountsListed'
  BY <1>1 DEF World, KeyHasRecord, Stranded, AccountsListed, Used
<1>4. NamesArePaid'
  BY <1>1 DEF World, NamesArePaid
<1> QED
  BY <1>2, <1>3, <1>4

\* Rows that name no wallet anew but one with a record, and none that was
\* named for free, leave the world as it was.
LEMMA RowedWorld ==
  ASSUME Typed, NewIds, KeyHasRecord, AccountsListed, NamesArePaid,
         UNCHANGED <<record, named, keys, stage, phrase, history>>,
         \A g \in Ids, i \in Indices : i \in Used(g)' =>
           \/ i \in Used(g)
           \/ /\ record[g] # NoRecord /\ phrase[g] # Unminted
              /\ g \notin free \/ g \in keys
  PROVE  NewIds' /\ KeyHasRecord' /\ AccountsListed' /\ NamesArePaid'
<1>1. \A g, i : i \in Used(g) \/ i \in Used(g)' => i \in Indices
  BY DEF Used
<1>2. NewIds'
  <2> SUFFICES ASSUME NEW g \in Ids, phrase[g] = Unminted
               PROVE  Unknown(g)'
    BY DEF NewIds
  <2>1. Unknown(g)
    BY DEF NewIds
  <2>2. Used(g)' = {}
    BY <1>1, <2>1 DEF Unknown
  <2> QED
    BY <2>1, <2>2 DEF Unknown, history
<1>3. KeyHasRecord'
  BY DEF KeyHasRecord, Stranded, history
<1>4. AccountsListed'
  BY <1>1 DEF AccountsListed, history
<1>5. NamesArePaid'
  <2> SUFFICES ASSUME NEW g \in free \intersect named
               PROVE  Used(g)' = {} /\ g \notin keys /\ stage[g] # "key"
    BY DEF NamesArePaid, HoldsAccounts, history
  <2>1. g \in Ids /\ Used(g) = {} /\ g \notin keys /\ stage[g] # "key"
    BY DEF NamesArePaid, HoldsAccounts, Typed, TypeOK
  <2>2. \A i : i \notin Used(g)'
    BY <1>1, <2>1
  <2> QED
    BY <2>1, <2>2
<1> QED
  BY <1>2, <1>3, <1>4, <1>5

LEMMA PassRowAlone ==
  ASSUME Typed, NEW p \in Procs, Alone(p), PassRow(p)
  PROVE  Alone(p)'
<1> DEFINE c == call[p]
           row == IF rows[c.addr] = NoRow
                    THEN [group |-> c.group, index |-> c.index] ELSE rows[c.addr]
<1>1. /\ c.at = "passrow" /\ c.op = "next" /\ c.group \in Ids
      /\ c.addr \in Addresses /\ c.index \in Indices /\ DiskOK
      /\ phrase[c.group] # Unminted /\ ~Booking(c) /\ World(c)
      /\ DeriveKnows(c) /\ AnswerKnows(c)
  BY Alike DEF PassRow, At, Formed, Derives, Booking, Alone, Knows
<1>2. /\ rows' = [rows EXCEPT ![c.addr] = row] /\ Go(p, "passbump")
      /\ UNCHANGED <<record, named, keys, stage, vaults, phrase, mishaps, history>>
  BY DEF PassRow
<1>3. \A g \in Ids, i \in Indices : row = [group |-> g, index |-> i] =>
        i \in Used(g) \/ (g = c.group /\ i = c.index)
  BY <1>1 DEF Used
<1>4. record[c.group] # NoRecord /\ c.group \in keys
      /\ c.index >= record[c.group].next /\ c.held = vaults
  BY <1>1 DEF DeriveKnows, Deriving, Opened, Looking
<1> HIDE DEF row
<1>5. NewIds' /\ KeyHasRecord' /\ AccountsListed' /\ NamesArePaid'
  <2>1. \A g \in Ids, i \in Indices : i \in Used(g)' =>
          i \in Used(g) \/ (g = c.group /\ i = c.index)
    BY <1>1, <1>2, <1>3, UsedPut
  <2> QED
    BY <1>1, <1>2, <1>4, <2>1, RowedWorld DEF World
<1>6. Booked(c)'
  BY <1>1, <1>2 DEF World, Booked, history
<1>7. /\ call'[p].at = "passbump" /\ call'[p].op = "next"
      /\ call'[p].group = c.group /\ call'[p].index = c.index
      /\ call'[p].held = c.held
  BY <1>1, <1>2, GoIs
<1>8. ImportKnows(c)' /\ UndoKnows(c)' /\ LookKnows(c)'
  BY <1>7, ImportSilent, UndoSilent, LookSilent DEF Undoing, Removing, Naming
<1>9. AnswerKnows(c)'
  BY <1>1, <1>2, Alike, GoAnswers
<1>10. DeriveKnows(c)'
  BY <1>2, <1>4, <1>7 DEF DeriveKnows, Deriving, Opened, Looking
<1> QED
  BY <1>5, <1>6, <1>8, <1>9, <1>10 DEF World, Knows, Alone

LEMMA PassBumpAlone ==
  ASSUME Typed, NEW p \in Procs, Alone(p), PassBump(p)
  PROVE  Alone(p)'
<1> DEFINE c == call[p]
           r == record[c.group]
<1>1. /\ c.at = "passbump" /\ c.op = "next" /\ c.group \in Ids
      /\ c.index \in Indices /\ ~Booking(c) /\ World(c) /\ DiskOK
      /\ DeriveKnows(c) /\ AnswerKnows(c) /\ c \in Call
  BY Alike DEF PassBump, At, Formed, Booking, Alone, Knows
<1>2. /\ Rerecord(c.group, Covering(r, c.index))
      /\ UNCHANGED <<named, rows, keys, stage, vaults, phrase, mishaps, history>>
      /\ call' = [call EXCEPT ![p].index = @ + 1, ![p].walked = @ + 1, ![p].at = "try"]
  BY DEF PassBump
<1>3. r # NoRecord /\ c.group \in keys /\ c.index >= r.next /\ c.held = vaults
  BY <1>1 DEF DeriveKnows, Deriving, Opened, Looking
<1>4. Covering(r, c.index) \in Record
  <2>1. r \in Record
    BY <1>1, <1>3 DEF DiskOK
  <2> QED
    BY <1>1, <2>1, CoveringIsRecord
<1>5. /\ \A h \in Ids : record'[h] = NoRecord <=> record[h] = NoRecord
      /\ \A h \in Ids : record'[h] # NoRecord =>
           /\ record[h] # NoRecord /\ record'[h] \in Record
           /\ record'[h].next >= record[h].next
      /\ record'[c.group].next = Larger(r.next, c.index + 1)
      /\ r.next \in Nat
  BY <1>1, <1>2, <1>3, <1>4, Covers
<1>6. NewIds' /\ KeyHasRecord' /\ AccountsListed' /\ NamesArePaid'
  BY <1>1, <1>2, <1>5, RerecordedWorld DEF history
<1>7. Booked(c)'
  BY <1>1, <1>2, <1>5, BookedStays DEF World, history
<1>8. /\ call'[p].at = "try" /\ call'[p].op = "next"
      /\ call'[p].group = c.group /\ call'[p].index = c.index + 1
      /\ call'[p].held = c.held /\ call'[p].since = c.since
      /\ call'[p].verdict = c.verdict
  BY <1>1, <1>2, Alike DEF Call
<1>9. ImportKnows(c)' /\ UndoKnows(c)' /\ LookKnows(c)'
  BY SMTT(30), <1>8, ImportSilent, UndoSilent, LookSilent DEF Undoing, Removing, Naming
<1>10. AnswerKnows(c)'
  BY <1>1, <1>2, <1>8, Alike, AnswerSilent DEF AnswerKnows
<1>11. DeriveKnows(c)'
  <2>1. c.index + 1 >= Larger(r.next, c.index + 1)
    BY <1>1, <1>3, <1>5, GroupsAssumption DEF Larger, Indices
  <2>2. record'[c.group] # NoRecord
    BY <1>1, <1>3, <1>5
  <2> QED
    BY <1>2, <1>3, <1>5, <1>8, <2>1, <2>2 DEF DeriveKnows, Deriving, Opened, Looking
<1> QED
  BY <1>6, <1>7, <1>9, <1>10, <1>11 DEF World, Knows, Alone

LEMMA DeriveAlone ==
  ASSUME Typed, NEW p \in Procs, Alone(p), Derive(p)
  PROVE  Alone(p)'
  BY WalkReadsAlone, PassRowAlone, PassBumpAlone DEF Derive

LEMMA PersistAlone ==
  ASSUME Typed, NEW p \in Procs, Alone(p), Persist(p)
  PROVE  Alone(p)'
<1> DEFINE c == call[p]
<1>1. /\ c.at = "persist" /\ c.group \in Ids /\ c.index \in Indices
      /\ (Derives(c) => phrase[c.group] # Unminted)
      /\ ~Booking(c) /\ World(c) /\ Knows(c) /\ DiskOK
  BY Alike DEF Persist, At, Formed, Booking, Alone
<1>2. /\ Go(p, "row")
      /\ UNCHANGED <<record, named, rows, keys, stage, phrase, mishaps,
                     unbooked, botched, free, renamed>>
      /\ given' = IF Derives(c) THEN given \union {<<c.group, c.index>>} ELSE given
      /\ \A g : Used(g)' = Used(g) /\ HoldsAccounts(g)' = HoldsAccounts(g)
  BY UsedSame DEF Persist
<1>3. /\ call'[p].at = "row" /\ call'[p].op = c.op
      /\ call'[p].group = c.group /\ call'[p].index = c.index
  BY <1>2, GoIs
<1>4. NewIds'
  <2> SUFFICES ASSUME NEW g \in Ids, phrase[g] = Unminted
               PROVE  Unknown(g)'
    BY <1>2 DEF NewIds
  <2>1. Unknown(g)
    BY <1>1 DEF World, NewIds
  <2>2. \A i \in Indices : <<g, i>> \notin given'
    BY <1>1, <1>2, <2>1 DEF Unknown
  <2> QED
    BY <1>2, <2>1, <2>2 DEF Unknown
<1>5. Booked(c)'
  <2> SUFFICES ASSUME NEW g \in Ids, NEW i \in Indices, <<g, i>> \in given'
               PROVE  \/ <<g, i>> \in unbooked
                      \/ Booking(call'[p]) /\ Pair(call'[p]) = <<g, i>>
                      \/ record[g] = NoRecord
                      \/ record[g].next > i
    BY <1>2 DEF Booked, Booking, Derives, Pair
  <2>1. CASE <<g, i>> \in given
    BY <1>1, <2>1 DEF World, Booked
  <2>2. CASE Derives(c) /\ <<g, i>> = <<c.group, c.index>>
    BY <1>3, <2>2 DEF Booking, Derives, Pair
  <2> QED
    BY <1>2, <2>1, <2>2
<1>6. KeyHasRecord' /\ AccountsListed' /\ NamesArePaid'
  BY <1>1, <1>2
     DEF World, KeyHasRecord, Stranded, AccountsListed, NamesArePaid
<1>7. UndoKnows(c)' /\ LookKnows(c)'
  BY <1>3, UndoSilent, LookSilent DEF Undoing, Removing, Naming
<1>8. AnswerKnows(c)'
  BY <1>1, <1>2, Alike, GoAnswers DEF Knows
<1>9. ImportKnows(c)'
  BY <1>1, <1>2, <1>3 DEF Knows, ImportKnows, Making, Importing
<1>10. DeriveKnows(c)'
  BY <1>1, <1>2, <1>3 DEF Knows, DeriveKnows, Deriving, Opened, Looking
<1> QED
  BY <1>4, <1>5, <1>6, <1>7, <1>8, <1>9, <1>10 DEF World, Knows, Alone

LEMMA PutRowAlone ==
  ASSUME Typed, NEW p \in Procs, Alone(p), PutRow(p)
  PROVE  Alone(p)'
<1> DEFINE c == call[p]
           row == IF Derives(c) THEN [group |-> c.group, index |-> c.index]
                                ELSE Ungrouped
<1>1. /\ c.at = "row" /\ c.group \in Ids /\ c.index \in Indices
      /\ c.addr \in Addresses
      /\ (Derives(c) => phrase[c.group] # Unminted)
      /\ World(c) /\ Knows(c) /\ DiskOK
  BY Alike DEF PutRow, At, Formed, Alone
<1>2. /\ rows' = [rows EXCEPT ![c.addr] = row]
      /\ IF Derives(c) THEN Go(p, "bump") ELSE Ends(p, "ok")
      /\ UNCHANGED <<record, named, keys, stage, vaults, phrase, mishaps, history>>
  BY DEF PutRow
<1>3. Derives(c) => /\ record[c.group] # NoRecord
                    /\ c.group \notin free \/ c.group \in keys
  BY <1>1 DEF Knows, ImportKnows, Making, Importing, DeriveKnows, Deriving,
              Opened, Derives
<1>4. \A g, i : row = [group |-> g, index |-> i] /\ g \in Ids /\ i \in Indices =>
        Derives(c) /\ g = c.group /\ i = c.index
  <2>1. ASSUME NEW g \in Ids, NEW i \in Indices PROVE [group |-> g, index |-> i] \in Row
    BY DEF Row
  <2> QED
    BY <2>1, GroupsAssumption
<1> HIDE DEF row
<1>5. \A g \in Ids, i \in Indices : i \in Used(g)' =>
        i \in Used(g) \/ (Derives(c) /\ g = c.group /\ i = c.index)
  BY <1>1, <1>2, <1>4, UsedPut
<1>6. NewIds' /\ KeyHasRecord' /\ AccountsListed' /\ NamesArePaid'
  BY <1>1, <1>2, <1>3, <1>5, RowedWorld DEF World
<1>7. CASE Derives(c)
  <2>1. /\ call'[p].at = "bump" /\ call'[p].op = c.op
        /\ call'[p].group = c.group /\ call'[p].index = c.index
    BY <1>2, <1>7, GoIs
  <2>2. Booking(c) /\ Booking(call'[p]) /\ Pair(call'[p]) = Pair(c)
    BY <1>1, <1>7, <2>1 DEF Booking, Derives, Pair
  <2>3. Booked(c)'
    BY <1>1, <1>2, <2>2 DEF World, Booked, history, Booking, Derives, Pair
  <2>4. UndoKnows(c)' /\ LookKnows(c)'
    BY <2>1, UndoSilent, LookSilent DEF Undoing, Removing, Naming
  <2>5. AnswerKnows(c)'
    BY <1>1, <1>2, <1>7, Alike, GoAnswers DEF Knows
  <2>6. ImportKnows(c)'
    <3>1. c.op = "import" => \A i \in Used(c.group)' : i = c.index
      <4>1. \A i \in Used(c.group)' : i \in Indices
        BY DEF Used
      <4>2. c.op = "import" => \A i \in Used(c.group) : FALSE
        BY <1>1 DEF Knows, ImportKnows, Making, Importing
      <4> QED
        BY <1>1, <1>5, <2>1, <4>1, <4>2
    <3> QED
      BY <1>1, <1>2, <2>1, <3>1
         DEF Knows, ImportKnows, Making, Importing, history
  <2>7. DeriveKnows(c)'
    BY <1>1, <1>2, <2>1 DEF Knows, DeriveKnows, Deriving, Opened, Looking
  <2> QED
    BY <1>6, <2>3, <2>4, <2>5, <2>6, <2>7 DEF World, Knows, Alone
<1>8. CASE ~Derives(c)
  <2>1. ~Booking(c)
    BY <1>8 DEF Booking
  <2>2. Booked(c)'
    BY <1>1, <1>2, <2>1 DEF World, Booked, history
  <2>3. Knows(c)'
    BY <1>1, <1>2, <1>8, Alike, EndsKnows DEF Knows, Derives
  <2> QED
    BY <1>6, <2>2, <2>3 DEF World, Alone
<1> QED
  BY <1>7, <1>8

LEMMA BumpAlone ==
  ASSUME Typed, NEW p \in Procs, Alone(p), Bump(p)
  PROVE  Alone(p)'
<1> DEFINE c == call[p]
           r == record[c.group]
<1>1. /\ c.at = "bump" /\ c.group \in Ids /\ c.index \in Indices
      /\ World(c) /\ Knows(c) /\ DiskOK
  BY Alike DEF Bump, At, Formed, Alone
<1>2. /\ Rerecord(c.group, Covering(r, c.index)) /\ Ends(p, "ok")
      /\ UNCHANGED <<named, rows, keys, stage, vaults, phrase, mishaps, history>>
  BY DEF Bump
<1>3. r # NoRecord => Covering(r, c.index) \in Record
  BY <1>1, CoveringIsRecord DEF DiskOK
<1>4. /\ \A h \in Ids : record'[h] = NoRecord <=> record[h] = NoRecord
      /\ \A h \in Ids : record'[h] # NoRecord =>
           /\ record[h] # NoRecord /\ record'[h] \in Record
           /\ record'[h].next >= record[h].next
      /\ r # NoRecord => record'[c.group].next = Larger(r.next, c.index + 1)
      /\ r # NoRecord => r.next \in Nat
  BY <1>1, <1>2, <1>3, Covers
<1>5. NewIds' /\ KeyHasRecord' /\ AccountsListed' /\ NamesArePaid'
  BY <1>1, <1>2, <1>4, RerecordedWorld DEF history
<1>6. record'[c.group] = NoRecord \/ record'[c.group].next > c.index
  <2>1. CASE r # NoRecord
    <3>1. Larger(r.next, c.index + 1) > c.index
      BY <1>1, <1>4, <2>1, GroupsAssumption DEF Larger, Indices
    <3> QED
      BY <1>4, <2>1, <3>1
  <2>2. CASE r = NoRecord
    BY <1>1, <1>4, <2>2
  <2> QED
    BY <2>1, <2>2
<1>7. Booked(c)'
  BY <1>1, <1>2, <1>4, <1>6, BookedStays DEF World, history
<1>8. Knows(c)'
  BY <1>1, <1>2, Alike, EndsKnows DEF Knows
<1> QED
  BY <1>5, <1>7, <1>8 DEF World, Alone

LEMMA UnvaultAlone ==
  ASSUME Typed, NEW p \in Procs, Alone(p), Unvault(p)
  PROVE  Alone(p)'
<1> DEFINE c == call[p]
<1>1. /\ c.at = "unvault" /\ c.op = "delete" /\ ~Booking(c)
      /\ World(c) /\ Knows(c)
      /\ UNCHANGED <<record, named, rows, keys, stage, phrase, mishaps, history>>
      /\ Refuse(p) \/ Go(p, "unrow")
  BY Alike DEF Unvault, At, Formed, Booking, Alone
<1>2. \A g : Used(g)' = Used(g) /\ HoldsAccounts(g)' = HoldsAccounts(g)
  BY <1>1, UsedSame
<1>3. NewIds' /\ KeyHasRecord' /\ AccountsListed' /\ NamesArePaid'
  BY <1>1, <1>2
     DEF World, NewIds, Unknown, KeyHasRecord, Stranded, AccountsListed,
         NamesArePaid, history
<1>4. Booked(c)'
  BY <1>1 DEF World, Booked, history
<1>5. CASE Refuse(p)
  <2>1. Knows(c)'
    BY <1>1, <1>5, Alike, EndsKnows DEF Knows, Refuse
  <2> QED
    BY <1>3, <1>4, <2>1 DEF World, Alone
<1>6. CASE Go(p, "unrow")
  <2>1. call'[p].at = "unrow" /\ call'[p].op = "delete"
    BY <1>1, <1>6, GoIs
  <2>2. Knows(c)'
    BY <1>1, <1>6, <2>1, Alike, GoAnswers, ImportSilent, UndoSilent,
       DeriveSilent, LookSilent
       DEF Knows, Undoing, Opened, Removing, Naming
  <2> QED
    BY <1>3, <1>4, <2>2 DEF World, Alone
<1> QED
  BY <1>1, <1>5, <1>6

LEMMA UnrowAlone ==
  ASSUME Typed, NEW p \in Procs, Alone(p), Unrow(p)
  PROVE  Alone(p)'
<1> DEFINE c == call[p]
           a == c.addr
<1>1. /\ c.at = "unrow" /\ c.op = "delete" /\ ~Booking(c) /\ a \in Addresses
      /\ World(c) /\ Knows(c) /\ DiskOK
      /\ rows' = [rows EXCEPT ![a] = NoRow]
      /\ UNCHANGED <<record, named, keys, stage, vaults, phrase, mishaps, history>>
  BY Alike DEF Unrow, At, Formed, Booking, Alone
<1>2. \A g \in Ids, i \in Indices : NoRow # [group |-> g, index |-> i]
  <2>1. ASSUME NEW g \in Ids, NEW i \in Indices PROVE [group |-> g, index |-> i] \in Row
    BY DEF Row
  <2> QED
    BY <2>1, GroupsAssumption
<1>3. NewIds' /\ KeyHasRecord' /\ AccountsListed' /\ NamesArePaid'
  <2>1. \A g \in Ids, i \in Indices : i \in Used(g)' => i \in Used(g)
    BY <1>1, <1>2, UsedPut
  <2> QED
    BY <1>1, <2>1, RowedWorld DEF World
<1>4. Booked(c)'
  BY <1>1 DEF World, Booked, history
<1>5. CASE Ends(p, "ok")
  <2>1. Knows(c)'
    BY <1>1, <1>5, Alike, EndsKnows DEF Knows
  <2> QED
    BY <1>3, <1>4, <2>1 DEF World, Alone
<1>6. CASE call' = [call EXCEPT ![p].group = rows[a].group,
                       ![p].index = rows[a].index, ![p].at = "retire"]
  <2>1. /\ call'[p].at = "retire" /\ call'[p].op = "delete"
        /\ call'[p].since = c.since /\ call'[p].verdict = c.verdict
    BY <1>1, <1>6, Alike DEF Call
  <2>2. AnswerKnows(c)'
    BY <1>1, <2>1, Alike, AnswerSilent DEF Knows, AnswerKnows
  <2>3. Knows(c)'
    BY <2>1, <2>2, ImportSilent, UndoSilent, DeriveSilent, LookSilent
       DEF Knows, Undoing, Opened, Removing, Naming
  <2> QED
    BY <1>3, <1>4, <2>3 DEF World, Alone
<1> QED
  BY <1>5, <1>6 DEF Unrow

LEMMA RetireAlone ==
  ASSUME Typed, NEW p \in Procs, Alone(p), Retire(p)
  PROVE  Alone(p)'
<1> DEFINE c == call[p]
           r == record[c.group]
           new == [Covering(r, c.index) EXCEPT !.retired = @ \union {c.index}]
<1>1. /\ c.at = "retire" /\ c.op = "delete" /\ ~Booking(c)
      /\ c.group \in Ids /\ c.index \in Indices
      /\ World(c) /\ Knows(c) /\ DiskOK
      /\ Rerecord(c.group, new) /\ Ends(p, "ok")
      /\ UNCHANGED <<named, rows, keys, stage, vaults, phrase, mishaps, history>>
  BY Alike DEF Retire, At, Formed, Booking, Alone
<1>2. r # NoRecord => new \in Record /\ new.next = Covering(r, c.index).next
  <2> SUFFICES ASSUME r # NoRecord
               PROVE  new \in Record /\ new.next = Covering(r, c.index).next
    OBVIOUS
  <2>1. Covering(r, c.index) \in Record
    BY <1>1, CoveringIsRecord DEF DiskOK
  <2> HIDE DEF r
  <2> QED
    BY <1>1, <2>1 DEF Record
<1> HIDE DEF new
<1>3. /\ \A h \in Ids : record'[h] = NoRecord <=> record[h] = NoRecord
      /\ \A h \in Ids : record'[h] # NoRecord =>
           /\ record[h] # NoRecord /\ record'[h] \in Record
           /\ record'[h].next >= record[h].next
  BY <1>1, <1>2, Covers
<1>4. NewIds' /\ KeyHasRecord' /\ AccountsListed' /\ NamesArePaid'
  BY <1>1, <1>3, RerecordedWorld DEF history
<1>5. Booked(c)'
  BY <1>1, <1>3, BookedStays DEF World, history
<1>6. Knows(c)'
  BY <1>1, Alike, EndsKnows DEF Knows
<1> QED
  BY <1>4, <1>5, <1>6 DEF World, Alone

LEMMA AccountAlone ==
  ASSUME Typed, NEW p \in Procs, Alone(p), Account(p)
  PROVE  Alone(p)'
  BY PersistAlone, PutRowAlone, BumpAlone, UnvaultAlone, UnrowAlone, RetireAlone
     DEF Account

-----------------------------------------------------------------------------
(* Keys that go, and wallets that are looked at. *)

\* Keys and names that go leave the world as it was.
LEMMA ShrinksWorld ==
  ASSUME Typed, NEW p \in Procs, World(call[p]), ~Booking(call[p]),
         UNCHANGED <<record, rows, vaults, phrase, history>>,
         named' \subseteq named, keys' \subseteq keys,
         \A g \in Ids : stage'[g] \in {stage[g], "none"}
  PROVE  World(call[p])'
<1>1. \A g : Used(g)' = Used(g) /\ HoldsAccounts(g)' = HoldsAccounts(g)
  BY UsedSame
<1>2. NewIds' /\ KeyHasRecord'
  BY <1>1 DEF World, NewIds, Unknown, KeyHasRecord, Stranded, history
<1>3. Booked(call[p])'
  BY DEF World, Booked, history
<1>4. AccountsListed'
  BY <1>1 DEF World, AccountsListed, history
<1>5. NamesArePaid'
  BY <1>1, Alike DEF World, NamesArePaid, history
<1> QED
  BY <1>2, <1>3, <1>4, <1>5 DEF World

LEMMA ForgetAlone ==
  ASSUME Typed, NEW p \in Procs, Alone(p), Forget(p)
  PROVE  Alone(p)'
<1> DEFINE c == call[p]
<1>1. /\ c \in Call /\ World(c) /\ Knows(c) /\ DiskOK /\ c.group \in Ids
      /\ Formed(c, phrase, given)
  BY Alike DEF Alone
<1>2. CASE ForgetKey(p)
  <2>1. /\ c.at = "forget_key" /\ ~Booking(c)
        /\ UNCHANGED <<record, named, rows, stage, vaults, phrase, mishaps, history>>
        /\ keys' \subseteq keys
    BY <1>2 DEF ForgetKey, At, Booking
  <2>2. World(c)'
    BY <1>1, <2>1, ShrinksWorld
  <2>3. /\ call'[p].at = "forget_stage" /\ call'[p].op = c.op
        /\ call'[p].since = c.since /\ call'[p].verdict = c.verdict
    BY <1>1, <1>2, Alike DEF ForgetKey, Call
  <2>4. c.op # "import"
    BY <1>1, <2>1 DEF Knows, ImportKnows, Making, Importing, Undoing
  <2>5. AnswerKnows(c)'
    BY <1>1, <2>1, <2>3, AnswerSilent DEF Knows, AnswerKnows
  <2> QED
    BY <2>2, <2>3, <2>4, <2>5, ImportSilent, UndoSilent, DeriveSilent, LookSilent
       DEF Alone, Knows, Undoing, Opened, Removing, Naming
<1>3. CASE ForgetStage(p)
  <2>1. /\ c.at = "forget_stage" /\ ~Booking(c)
        /\ UNCHANGED <<record, named, rows, keys, vaults, phrase, mishaps, history>>
        /\ \A g \in Ids : stage'[g] \in {stage[g], "none"}
    BY <1>1, <1>3 DEF ForgetStage, At, Booking, DiskOK
  <2>2. World(c)'
    BY <1>1, <2>1, ShrinksWorld
  <2>3. c.op # "import"
    BY <1>1, <2>1 DEF Knows, ImportKnows, Making, Importing, Undoing
  <2>4. CASE Refuse(p)
    <3>1. Knows(c)'
      BY <1>1, <2>1, <2>3, <2>4, Alike, EndsKnows DEF Knows, Refuse
    <3> QED
      BY <2>2, <3>1 DEF Alone
  <2>5. CASE Go(p, "downgrade")
    <3>1. call'[p].at = "downgrade" /\ call'[p].op = c.op
      BY <2>5, GoIs
    <3>2. AnswerKnows(c)'
      BY <1>1, <2>1, <2>5, Alike, GoAnswers DEF Knows
    <3> QED
      BY <2>2, <2>3, <3>1, <3>2, ImportSilent, UndoSilent, DeriveSilent, LookSilent
         DEF Alone, Knows, Undoing, Opened, Removing, Naming
  <2> QED
    BY <1>3, <2>4, <2>5 DEF ForgetStage
<1>4. CASE Downgrade(p)
  <2> DEFINE r == record[c.group]
             new == [r EXCEPT !.storage = "plain"]
  <2>1. /\ c.at = "downgrade" /\ ~Booking(c)
        /\ Rerecord(c.group, new) /\ Ends(p, "ok")
        /\ UNCHANGED <<named, rows, keys, stage, vaults, phrase, mishaps, history>>
    BY <1>4 DEF Downgrade, At, Booking
  <2>2. r # NoRecord => new \in Record /\ new.next = r.next /\ r.next >= r.next
    <3>1. r # NoRecord => r \in Record
      BY <1>1 DEF DiskOK
    <3> HIDE DEF r
    <3> QED
      BY <3>1, GroupsAssumption DEF Record
  <2> HIDE DEF new
  <2>3. /\ \A h \in Ids : record'[h] = NoRecord <=> record[h] = NoRecord
        /\ \A h \in Ids \ {c.group} : record'[h] = record[h]
        /\ r # NoRecord => record'[c.group] = new
    BY <1>1, <2>1, <2>2, RerecordKeeps
  <2>4. \A h \in Ids : record'[h] # NoRecord =>
          /\ record[h] # NoRecord /\ record'[h] \in Record
          /\ record'[h].next >= record[h].next
    <3> SUFFICES ASSUME NEW h \in Ids, record'[h] # NoRecord
                 PROVE  /\ record[h] # NoRecord /\ record'[h] \in Record
                        /\ record'[h].next >= record[h].next
      OBVIOUS
    <3>1. CASE h = c.group
      BY <2>2, <2>3, <3>1
    <3>2. CASE h # c.group
      <4>1. record'[h] = record[h] /\ record[h] \in Record
        BY <1>1, <2>3, <3>2 DEF DiskOK
      <4> QED
        BY <4>1, GroupsAssumption DEF Record
    <3> QED
      BY <3>1, <3>2
  <2>5. NewIds' /\ KeyHasRecord' /\ AccountsListed' /\ NamesArePaid'
    BY <1>1, <2>1, <2>3, RerecordedWorld DEF history
  <2>6. Booked(c)'
    BY <1>1, <2>1, <2>4, BookedStays DEF World, history
  <2>7. Knows(c)'
    BY <1>1, <2>1, Alike, EndsKnows DEF Knows
  <2> QED
    BY <2>5, <2>6, <2>7 DEF World, Alone
<1> QED
  BY <1>2, <1>3, <1>4 DEF Forget

\* A call that looks at a wallet, and reads.
LEMMA LookReads ==
  ASSUME Typed, NEW p \in Procs, Alone(p), Reads(p),
         call[p].at \in Removing \union Naming \union {"store"},
         call'[p].op = call[p].op,
         call'[p].at \in Removing \union Naming \union {"unname"},
         call'[p].since = call[p].since, call'[p].verdict = call[p].verdict,
         LookKnows(call[p])'
  PROVE  Alone(p)'
<1> DEFINE c == call[p]
<1>1. c.op # "import" /\ ~Booking(c) /\ AnswerKnows(c) /\ c.at # "answer"
  BY DEF Alone, Knows, ImportKnows, Making, Importing, Undoing, Removing,
         Naming, Booking
<1>2. World(c)' /\ mishaps' \in Nat /\ mishaps' >= mishaps
  BY <1>1, ReadsWorld
<1>3. ImportKnows(c)' /\ UndoKnows(c)' /\ DeriveKnows(c)'
  BY <1>1, ImportSilent, UndoSilent, DeriveSilent
     DEF Undoing, Removing, Naming, Opened
<1>4. AnswerKnows(c)'
  <2>1. c.since <= mishaps'
    BY <1>1, <1>2, Alike DEF AnswerKnows
  <2> QED
    BY <1>1, <2>1, AnswerSilent DEF AnswerKnows
<1> QED
  BY <1>2, <1>3, <1>4 DEF Alone, Knows

LEMMA RemoveAlone ==
  ASSUME Typed, NEW p \in Procs, Alone(p), Remove(p)
  PROVE  Alone(p)'
<1> DEFINE c == call[p]
<1>1. /\ c \in Call /\ World(c) /\ Knows(c) /\ DiskOK /\ c.group \in Ids
      /\ LookKnows(c)
  BY Alike DEF Alone, Knows
<1>2. c.at \in {"store", "accounts", "recorded", "naming", "unrecord", "unname"} =>
        ~Booking(c) /\ c.op # "import"
  BY <1>1 DEF Booking, Knows, ImportKnows, Making, Importing, Undoing
<1>3. Reads(p) =>
        /\ UNCHANGED <<record, named, rows, keys, stage, vaults, phrase>>
        /\ \A g : Used(g)' = Used(g) /\ HoldsAccounts(g)' = HoldsAccounts(g)
        /\ \A g : HoldsKey(g)' = HoldsKey(g)
  BY UsedSame DEF Reads, disk, HoldsKey
<1>4. CASE LookAtStore(p)
  <2>1. c.at = "store" /\ Reads(p)
    BY <1>4 DEF LookAtStore, At
  <2>2. CASE Refuse(p)
    BY <1>2, <2>1, <2>2, RefusesAlone
  <2>3. CASE ~HoldsKey(c.group) /\ Go(p, "accounts")
    <3>1. LookKnows(c)'
      BY <1>3, <2>1, <2>3, GoIs DEF LookKnows, Removing, Naming
    <3> QED
      BY <2>1, <2>3, <3>1, GoIs, LookReads DEF Removing
  <2> QED
    BY <1>4, <2>2, <2>3 DEF LookAtStore
<1>5. CASE LookAtAccounts(p)
  <2>1. c.at = "accounts" /\ Reads(p)
    BY <1>5 DEF LookAtAccounts, At
  <2>2. CASE Refuse(p)
    BY <1>2, <2>1, <2>2, RefusesAlone
  <2>3. CASE ~HoldsAccounts(c.group) /\ Go(p, "recorded")
    <3>1. LookKnows(c)'
      BY <1>1, <1>3, <2>1, <2>3, GoIs DEF LookKnows, Removing, Naming
    <3> QED
      BY <2>1, <2>3, <3>1, GoIs, LookReads DEF Removing
  <2> QED
    BY <1>5, <2>2, <2>3 DEF LookAtAccounts
<1>6. ASSUME NEW found, NEW step \in {"naming", "unrecord", "unname"}, Reads(p),
             c.at \in {"recorded", "naming"},
             call' = [call EXCEPT ![p].found = found, ![p].at = step]
      PROVE  Alone(p)'
  <2>1. /\ call'[p].at = step /\ call'[p].op = c.op /\ call'[p].group = c.group
        /\ call'[p].since = c.since /\ call'[p].verdict = c.verdict
    BY <1>1, <1>6, Alike DEF Call
  <2>2. LookKnows(c)'
    BY <1>1, <1>3, <1>6, <2>1 DEF LookKnows, Removing, Naming
  <2> QED
    BY <1>6, <2>1, <2>2, LookReads DEF Removing
<1>7. CASE LookAtRecord(p)
  BY <1>6, <1>7 DEF LookAtRecord, At
<1>8. CASE LookAtName(p)
  <2> DEFINE found == c.found \union (IF c.group \in named THEN {"name"} ELSE {})
             step == IF "record" \in found THEN "unrecord" ELSE "unname"
  <2>1. c.at = "naming" /\ Reads(p)
    BY <1>8 DEF LookAtName, At
  <2>2. CASE Refuse(p)
    BY <1>2, <2>1, <2>2, RefusesAlone
  <2>3. CASE call' = [call EXCEPT ![p].found = found, ![p].at = step]
    <3>1. step \in {"naming", "unrecord", "unname"}
      OBVIOUS
    <3> HIDE DEF found, step
    <3> QED
      BY <1>6, <2>1, <2>3, <3>1
  <2> QED
    BY <1>8, <2>2, <2>3 DEF LookAtName
<1>9. CASE Unrecord(p)
  <2>1. /\ c.at = "unrecord" /\ ~HoldsKey(c.group) /\ ~HoldsAccounts(c.group)
        /\ record'[c.group] = NoRecord
        /\ \A g \in Ids \ {c.group} : record'[g] = record[g]
        /\ UNCHANGED <<named, rows, keys, stage, vaults, phrase, mishaps, history>>
        /\ \A g : Used(g)' = Used(g) /\ HoldsAccounts(g)' = HoldsAccounts(g)
    BY <1>1, <1>9, UsedSame DEF Unrecord, At, LookKnows, Removing, DiskOK
  <2>2. NewIds'
    BY <1>1, <2>1 DEF World, NewIds, Unknown, history
  <2>3. Booked(c)'
    BY <1>1, <1>2, <2>1 DEF World, Booked, history
  <2>4. KeyHasRecord'
    BY <1>1, <2>1 DEF World, KeyHasRecord, Stranded, HoldsKey, history
  <2>5. AccountsListed'
    BY <1>1, <2>1 DEF World, AccountsListed, HoldsAccounts, history
  <2>6. NamesArePaid'
    BY <1>1, <2>1 DEF World, NamesArePaid, history
  <2>7. CASE Ends(p, "ok")
    <3>1. Knows(c)'
      BY <1>1, <2>1, <2>7, Alike, EndsKnows DEF Knows
    <3> QED
      BY <2>2, <2>3, <2>4, <2>5, <2>6, <3>1 DEF World, Alone
  <2>8. CASE Go(p, "unname")
    <3>1. call'[p].at = "unname" /\ call'[p].op = c.op
      BY <2>8, GoIs
    <3>2. AnswerKnows(c)'
      BY <1>1, <2>1, <2>8, Alike, GoAnswers DEF Knows
    <3>3. Knows(c)'
      BY <1>2, <2>1, <3>1, <3>2, ImportSilent, UndoSilent, DeriveSilent, LookSilent
         DEF Knows, Undoing, Opened, Removing, Naming
    <3> QED
      BY <2>2, <2>3, <2>4, <2>5, <2>6, <3>3 DEF World, Alone
  <2> QED
    BY <1>9, <2>7, <2>8 DEF Unrecord
<1>10. CASE Unname(p)
  <2>1. /\ c.at = "unname" /\ Ends(p, "ok") /\ named' \subseteq named
        /\ UNCHANGED <<record, rows, keys, stage, vaults, phrase, mishaps, history>>
    BY <1>10 DEF Unname, At
  <2>2. World(c)'
    BY <1>1, <1>2, <2>1, ShrinksWorld
  <2>3. Knows(c)'
    BY <1>1, <2>1, Alike, EndsKnows DEF Knows
  <2> QED
    BY <2>2, <2>3 DEF Alone
<1> QED
  BY <1>4, <1>5, <1>7, <1>8, <1>9, <1>10 DEF Remove

LEMMA LabelAlone ==
  ASSUME Typed, NEW p \in Procs, Alone(p), Label(p)
  PROVE  Alone(p)'
<1> DEFINE c == call[p]
           g == c.group
<1>1. /\ c \in Call /\ World(c) /\ Knows(c) /\ DiskOK /\ g \in Ids
      /\ LookKnows(c) /\ c.found \in SUBSET Findings
  BY Alike DEF Alone, Knows
<1>2. c.at \in Naming => ~Booking(c) /\ c.op # "import" /\ phrase[g] # Unminted
  BY <1>1 DEF Booking, Knows, ImportKnows, Making, Importing, Undoing, Naming,
              LookKnows
<1>3. Reads(p) =>
        /\ UNCHANGED <<record, named, rows, keys, stage, vaults, phrase>>
        /\ \A h : Used(h)' = Used(h) /\ HoldsAccounts(h)' = HoldsAccounts(h)
  BY UsedSame DEF Reads, disk
<1>4. ASSUME NEW found, NEW addr, NEW step \in {"tally", "survey", "weigh"},
             Reads(p), c.at \in {"recall", "tally", "survey"}, c.found \subseteq found,
             call' = [call EXCEPT ![p] =
                        [c EXCEPT !.found = found, !.addr = addr, !.at = step]],
             step \in {"survey", "weigh"} /\ "account" \notin found =>
               ~HoldsAccounts(g),
             step = "weigh" =>
               /\ "key" \notin found => g \notin keys
               /\ "staged" \notin found => stage[g] # "key"
      PROVE  Alone(p)'
  <2>1. /\ call'[p].at = step /\ call'[p].op = c.op /\ call'[p].group = g
        /\ call'[p].since = c.since /\ call'[p].verdict = c.verdict
        /\ call'[p].found = found
    BY <1>1, <1>4, Alike DEF Call
  <2>2. phrase[g] # Unminted
    BY <1>2, <1>4 DEF Naming
  <2>3. LookKnows(c)'
    BY <1>3, <1>4, <2>1, <2>2 DEF LookKnows, Removing, Naming
  <2> QED
    BY <1>4, <2>1, <2>3, LookReads DEF Naming
<1>5. CASE Recall(p)
  <2>1. c.at = "recall" /\ Reads(p)
    BY <1>5 DEF Recall, Finds, At
  <2> DEFINE new == IF record[g] = NoRecord THEN {} ELSE {"record"}
             found == c.found \union new
             addr == c.addr
  <2>2. call' = [call EXCEPT ![p] = [c EXCEPT !.found = found,
                                               !.addr = addr, !.at = "tally"]]
    BY <1>1, <1>5 DEF Recall, Finds, Call
  <2>3. c.found \subseteq found
    OBVIOUS
  <2> HIDE DEF new, found, addr
  <2> QED
    BY <1>4, <2>1, <2>2, <2>3
<1>6. CASE Tally(p)
  <2>1. c.at = "tally" /\ Reads(p)
    BY <1>6 DEF Tally, At
  <2>2. CASE ~HoldsAccounts(g) /\ Go(p, "survey")
    <3>1. call' = [call EXCEPT ![p] = [c EXCEPT !.found = c.found,
                                                 !.addr = c.addr, !.at = "survey"]]
      BY <1>1, <2>2 DEF Go, Call
    <3> QED
      BY <1>4, <2>1, <2>2, <3>1
  <2>3. ASSUME NEW a \in Addresses,
               call' = [call EXCEPT ![p].found = @ \union {"account"},
                                    ![p].addr = a, ![p].at = "survey"]
        PROVE  Alone(p)'
    <3> DEFINE found == c.found \union {"account"}
    <3>1. call' = [call EXCEPT ![p] = [c EXCEPT !.found = found,
                                                 !.addr = a, !.at = "survey"]]
      BY <2>3
    <3>2. c.found \subseteq found /\ "account" \in found
      OBVIOUS
    <3> HIDE DEF found
    <3> QED
      BY <1>4, <2>1, <3>1, <3>2
  <2> QED
    BY <1>6, <2>2, <2>3 DEF Tally
<1>7. CASE Survey(p)
  <2>1. c.at = "survey" /\ Reads(p)
    BY <1>7 DEF Survey, Finds, At
  <2> DEFINE found == c.found \union KeysFound(g)
             addr == c.addr
  <2>2. call' = [call EXCEPT ![p] = [c EXCEPT !.found = found,
                                               !.addr = addr, !.at = "weigh"]]
    BY <1>1, <1>7 DEF Survey, Finds, Call
  <2>3. c.found \subseteq found /\ ("account" \notin found => ~HoldsAccounts(g))
    BY <1>1, <2>1 DEF LookKnows
  <2>4. /\ "key" \notin found => g \notin keys
        /\ "staged" \notin found => stage[g] # "key"
    BY DEF KeysFound
  <2> HIDE DEF found, addr
  <2> QED
    BY <1>4, <2>1, <2>2, <2>3, <2>4
<1>8. CASE Weigh(p)
  <2>1. c.at = "weigh" /\ Reads(p)
    BY <1>8 DEF Weigh, At
  <2>2. CASE Refuse(p)
    BY <1>2, <2>1, <2>2, RefusesAlone DEF Naming
  <2>3. CASE Go(p, "label")
    <3>1. LookKnows(c)'
      BY <1>1, <1>2, <1>3, <2>1, <2>3, GoIs DEF LookKnows, Removing, Naming
    <3> QED
      BY <2>1, <2>3, <3>1, GoIs, LookReads DEF Naming
  <2> QED
    BY <1>8, <2>2, <2>3 DEF Weigh
<1>9. CASE PutLabel(p)
  <2>1. /\ c.at = "label" /\ ~Booking(c) /\ phrase[g] # Unminted
        /\ named' = IF c.label = "name" THEN named \union {g} ELSE named \ {g}
        /\ free' = IF c.label = "name" /\ ~Priced(c) THEN free \union {g}
                                                      ELSE free \ {g}
        /\ Ends(p, "ok")
        /\ UNCHANGED <<record, rows, keys, stage, vaults, phrase, mishaps,
                       given, unbooked, botched, renamed>>
        /\ \A h : Used(h)' = Used(h) /\ HoldsAccounts(h)' = HoldsAccounts(h)
    BY <1>2, <1>9, UsedSame DEF PutLabel, At, Naming
  <2>2. NewIds'
    BY <1>1, <2>1 DEF World, NewIds, Unknown
  <2>3. Booked(c)'
    BY <1>1, <2>1 DEF World, Booked
  <2>4. KeyHasRecord' /\ AccountsListed'
    BY <1>1, <2>1 DEF World, KeyHasRecord, Stranded, AccountsListed
  <2>5. NamesArePaid'
    <3>1. c.label = "name" /\ ~Priced(c) =>
            ~HoldsAccounts(g) /\ g \notin keys /\ stage[g] # "key"
      BY <1>1, <2>1 DEF Priced, LookKnows
    <3> QED
      BY <1>1, <2>1, <3>1 DEF World, NamesArePaid
  <2>6. Knows(c)'
    BY <1>1, <2>1, Alike, EndsKnows DEF Knows
  <2> QED
    BY <2>2, <2>3, <2>4, <2>5, <2>6 DEF World, Alone
<1> QED
  BY <1>5, <1>6, <1>7, <1>8, <1>9 DEF Label

-----------------------------------------------------------------------------
(* What may go wrong. *)

\* Who fails or dies while booking an account leaves it unbooked, and nothing
\* else has changed.
LEMMA HurtWorld ==
  ASSUME Typed, NEW p \in Procs, World(call[p]), UNCHANGED disk,
         UNCHANGED <<phrase, given, free>>, botched \subseteq botched',
         Unbooks(call[p])
  PROVE  World(call[p])'
<1>1. unbooked \subseteq unbooked'
  BY DEF Unbooks
<1>2. Booking(call[p]) => Pair(call[p]) \in unbooked'
  BY DEF Unbooks, Pair
<1> QED
  BY <1>1, <1>2, WorldStays

LEMMA ImportFailsAlone ==
  ASSUME Typed, NEW p \in Procs, Alone(p), ImportFails(p)
  PROVE  Alone(p)'
<1> DEFINE c == call[p]
<1> DEFINE left == IF c.at \in {"encrypt", "promote"} THEN "none" ELSE stage[c.group]
<1>0. /\ c.op = "import" /\ c.at \in Importing /\ Go(p, "undo_key") /\ Unbooks(c)
      /\ mishaps' = mishaps + 1
      /\ UNCHANGED <<record, named, rows, keys, vaults, phrase, given, botched, free>>
      /\ stage' = [stage EXCEPT ![c.group] = left]
  BY DEF ImportFails, Mishap
<1>1. /\ c.at # "answer" /\ c.group \in Ids /\ DiskOK /\ World(c) /\ Knows(c)
      /\ phrase[c.group] # Unminted
      /\ mishaps' \in Nat /\ mishaps' > mishaps /\ mishaps' >= mishaps
      /\ \A g \in Ids : stage'[g] \in {stage[g], "none"}
  <2>1. c.at # "answer" /\ c.group \in Ids /\ DiskOK /\ World(c) /\ Knows(c)
    BY <1>0, Alike DEF Importing, Alone
  <2>2. phrase[c.group] # Unminted
    BY <1>0, Alike DEF Formed, Derives
  <2>3. mishaps' \in Nat /\ mishaps' > mishaps /\ mishaps' >= mishaps
    BY <1>0, Alike
  <2>4. left \in {stage[c.group], "none"}
    OBVIOUS
  <2> HIDE DEF left
  <2>5. \A g \in Ids : stage'[g] \in {stage[g], "none"}
    BY <1>0, <2>1, <2>4 DEF DiskOK
  <2> QED
    BY <2>1, <2>2, <2>3, <2>5
<1> HIDE DEF left
<1>2. \A g : Used(g)' = Used(g) /\ HoldsAccounts(g)' = HoldsAccounts(g)
  BY <1>0, <1>1, UsedSame
<1>3. unbooked \subseteq unbooked'
  BY <1>0, <1>1 DEF Unbooks
<1>4. Booking(c) => <<c.group, c.index>> \in unbooked'
  BY <1>0, <1>1 DEF Unbooks
<1>5. NewIds' /\ KeyHasRecord'
  BY <1>0, <1>1, <1>2 DEF World, NewIds, Unknown, KeyHasRecord, Stranded
<1>6. Booked(c)'
  BY <1>0, <1>1, <1>3, <1>4 DEF World, Booked, Pair
<1>7. AccountsListed'
  BY <1>0, <1>1, <1>2, <1>3 DEF World, AccountsListed
<1>8. NamesArePaid'
  BY <1>0, <1>1, <1>2, Alike DEF World, NamesArePaid
<1>9. /\ call'[p].at = "undo_key" /\ call'[p].op = "import"
      /\ call'[p].group = c.group /\ call'[p].since = c.since
  BY <1>0, <1>1, GoIs
<1>10. DeriveKnows(c)' /\ LookKnows(c)' /\ ImportKnows(c)'
  BY <1>9, DeriveSilent, LookSilent
     DEF ImportKnows, Making, Importing, Undoing, Removing, Naming
<1>11. AnswerKnows(c)'
  BY <1>0, <1>1, GoAnswers DEF Knows
<1>12. UndoKnows(c)'
  <2>1. \A i \in Used(c.group) : <<c.group, i>> \in unbooked'
    <3> SUFFICES ASSUME NEW i \in Used(c.group)
                 PROVE  <<c.group, i>> \in unbooked'
      OBVIOUS
    <3>1. c.at = "bump" /\ i = c.index
      BY <1>0, <1>1 DEF Knows, ImportKnows, Making
    <3>2. Booking(c)
      BY <1>0, <1>1, <3>1 DEF Booking, Derives
    <3> QED
      BY <1>4, <3>1, <3>2
  <2>2. mishaps' > c.since
    BY <1>0, <1>1, Alike DEF Knows, AnswerKnows
  <2> QED
    BY <1>2, <1>9, <2>1, <2>2 DEF UndoKnows
<1> QED
  BY <1>5, <1>6, <1>7, <1>8, <1>10, <1>11, <1>12 DEF World, Knows, Alone

LEMMA CallFailsAlone ==
  ASSUME Typed, NEW p \in Procs, Alone(p), CallFails(p)
  PROVE  Alone(p)'
<1> DEFINE c == call[p]
<1>1. /\ c.op = "import" => c.at = "record"
      /\ mishaps' \in Nat /\ mishaps' >= mishaps /\ Refuse(p) /\ Unbooks(c)
      /\ UNCHANGED <<disk, phrase, given, botched, free>>
      /\ World(c) /\ Knows(c)
  BY Alike DEF CallFails, Mishap, Alone
<1>2. World(c)'
  BY <1>1, HurtWorld
<1>3. c.op = "import" =>
        /\ record'[c.group] = NoRecord /\ c.group \notin named'
        /\ c.group \notin keys' /\ stage'[c.group] = "none"
  BY <1>1 DEF Knows, ImportKnows, Unknown, disk
<1>4. Knows(c)'
  BY <1>1, <1>3, EndsKnows DEF Knows, Refuse
<1> QED
  BY <1>2, <1>4 DEF Alone

LEMMA IgnoredAlone ==
  ASSUME Typed, NEW p \in Procs, Alone(p), Ignored(p)
  PROVE  Alone(p)'
<1> DEFINE c == call[p]
<1>1. /\ mishaps' = mishaps + 1 /\ mishaps' \in Nat /\ mishaps' >= mishaps
      /\ UNCHANGED <<record, named, rows, keys, stage, vaults, phrase, given,
                     unbooked, free>>
      /\ UNCHANGED disk /\ botched \subseteq botched'
      /\ c.at \in {"undo_key", "undo_stage"} => c.group \in botched'
      /\ World(c) /\ Knows(c) /\ c.group \in Ids /\ DiskOK
  BY Alike DEF Ignored, Mishap, disk, Alone
<1>2. \A g : Used(g)' = Used(g)
  BY <1>1, UsedSame
<1>3. CASE At(p, "drop") /\ Go(p, "persist")
  <2>1. c.at = "drop" /\ c.op = "import"
    BY <1>3, Alike DEF At, Formed, ImportSteps
  <2> QED
    BY <1>1, <1>3, <2>1, MakingAlone DEF Making, Importing
<1>4. CASE At(p, "downgrade") /\ Ends(p, "ok")
  <2>1. ~Booking(c)
    BY <1>4 DEF At, Booking
  <2>2. World(c)'
    BY <1>1, <2>1, WorldStays
  <2>3. Knows(c)'
    BY <1>1, <1>4, EndsKnows DEF Knows
  <2> QED
    BY <2>2, <2>3 DEF Alone
<1>5. c.at \in Undoing => UndoKnows(c) /\ mishaps' > c.since + 1 /\ mishaps' > c.since
  <2>1. c.at \in Undoing => mishaps > c.since /\ UndoKnows(c)
    BY <1>1 DEF Knows, UndoKnows
  <2> QED
    BY <1>1, <2>1, Alike
<1>6. CASE At(p, "undo_key") /\ Go(p, "undo_stage")
  <2>1. UndoKnows(c)'
    BY <1>1, <1>2, <1>5, <1>6, GoIs DEF At, UndoKnows, Undoing
  <2> QED
    BY <1>1, <1>6, <2>1, UndoingAlone DEF At
<1>7. CASE At(p, "undo_stage") /\ Go(p, "undo_name")
  <2>1. UndoKnows(c)'
    BY <1>1, <1>2, <1>5, <1>7, GoIs DEF At, UndoKnows, Undoing
  <2> QED
    BY <1>1, <1>7, <2>1, UndoingAlone DEF At
<1>8. CASE At(p, "undo_name") /\ Go(p, "undo_record")
  <2>1. UndoKnows(c)'
    BY <1>1, <1>2, <1>5, <1>8, GoIs DEF At, UndoKnows, Undoing
  <2> QED
    BY <1>1, <1>8, <2>1, UndoingAlone DEF At
<1>9. CASE At(p, "undo_record") /\ Refuse(p)
  <2>1. ~Booking(c) /\ c.at \in Undoing
    BY <1>9 DEF At, Booking, Undoing
  <2>2. World(c)'
    BY <1>1, <2>1, WorldStays
  <2>3. ~(mishaps' <= c.since + 1)
    BY <1>1, <1>5, <2>1, Alike
  <2>4. Knows(c)'
    BY <1>1, <1>9, <2>3, EndsKnows DEF Knows, Refuse
  <2> QED
    BY <2>2, <2>4 DEF Alone
<1> QED
  BY <1>3, <1>4, <1>6, <1>7, <1>8, <1>9 DEF Ignored

LEMMA KillAlone ==
  ASSUME Typed, NEW p \in Procs, Alone(p), Kill(p) \/ Answer(p)
  PROVE  Alone(p)'
<1> DEFINE c == call[p]
<1>1. call'[p] = IdleCall /\ mishaps' \in Nat
  BY Alike DEF Kill, Answer, Mishap
<1>2. CASE Kill(p)
  BY <1>1, <1>2, HurtWorld, IdleKnows DEF Kill, Alone
<1>3. CASE Answer(p)
  <2>1. ~Booking(c)
    BY <1>3 DEF Answer, At, Booking
  <2>2. World(c)'
    BY <1>3, <2>1, WorldStays DEF Answer, Alone, history
  <2> QED
    BY <1>1, <2>2, IdleKnows DEF Alone
<1> QED
  BY <1>2, <1>3

-----------------------------------------------------------------------------
(* The theorems. *)

LEMMA InitAlone ==
  ASSUME NEW p \in Procs, Init
  PROVE  Alone(p)
<1>1. /\ call[p] = IdleCall /\ IdleCall.at = "idle" /\ IdleCall.op = "none"
      /\ IdleCall.since = 0 /\ IdleCall.verdict = "none" /\ mishaps = 0
  BY DEF Init, IdleCall
<1>2. \A g \in Ids : Used(g) = {}
  <2>1. \A g \in Ids, i \in Indices : NoRow # [group |-> g, index |-> i]
    <3>1. ASSUME NEW g \in Ids, NEW i \in Indices
          PROVE  [group |-> g, index |-> i] \in Row
      BY DEF Row
    <3> QED
      BY <3>1, GroupsAssumption
  <2> QED
    BY <2>1 DEF Init, Used
<1>3. World(call[p])
  BY <1>2
     DEF Init, World, NewIds, Unknown, Booked, KeyHasRecord, Stranded,
         AccountsListed, NamesArePaid
<1>4. ImportKnows(call[p]) /\ UndoKnows(call[p]) /\ AnswerKnows(call[p])
  BY <1>1 DEF ImportKnows, UndoKnows, AnswerKnows, Undoing
<1>5. DeriveKnows(call[p]) /\ LookKnows(call[p])
  BY <1>1 DEF DeriveKnows, Deriving, LookKnows, Removing, Naming
<1> QED
  BY <1>3, <1>4, <1>5 DEF Alone, Knows

LEMMA NextAlone ==
  ASSUME NEW p, Procs = {p}, Typed, Alone(p), [Next]_vars
  PROVE  Alone(p)'
<1> p \in Procs
  OBVIOUS
<1>1. CASE UNCHANGED vars
  <2>1. UNCHANGED <<record, named, rows, keys, stage, vaults, phrase, call, mishaps,
                    given, unbooked, botched, free, renamed>>
    BY <1>1 DEF vars, disk, history
  <2>2. \A g : Used(g)' = Used(g) /\ HoldsAccounts(g)' = HoldsAccounts(g)
    BY <2>1, UsedSame
  <2>3. World(call[p])'
    BY <2>1, <2>2
       DEF Alone, World, NewIds, Unknown, Booked, Booking, Derives, Pair,
           KeyHasRecord, Stranded, AccountsListed, NamesArePaid
  <2>4. Knows(call[p])'
    BY <2>1, <2>2
       DEF Alone, Knows, ImportKnows, UndoKnows, AnswerKnows, DeriveKnows,
           Deriving, LookKnows, Unknown, HoldsKey
  <2> QED
    BY <2>3, <2>4 DEF Alone
<1>2. CASE Begins(p) \/ Proceed(p) \/ Fails(p) \/ Kill(p)
  BY <1>2, BeginsAlone, ImportAlone, DeriveAlone, AccountAlone, ForgetAlone,
     RemoveAlone, LabelAlone, ImportFailsAlone, CallFailsAlone, IgnoredAlone,
     KillAlone DEF Proceed, Fails
<1> QED
  BY <1>1, <1>2 DEF Next

\* Whatever is cut short or fails, the documents, keys and vaults of one process
\* fit each other and what its call knows of them.
THEOREM AloneSound ==
  ASSUME NEW p, Procs = {p}
  PROVE  Spec => [](Typed /\ Alone(p))
<1>1. p \in Procs
  OBVIOUS
<1>2. Init => Typed /\ Alone(p)
  BY <1>1, InitTyped, InitAlone
<1>3. Typed /\ Alone(p) /\ [Next]_vars => (Typed /\ Alone(p))'
  BY NextTyped, NextAlone
<1> QED
  BY <1>2, <1>3, PTL DEF Spec

\* No index is handed out twice by derive_next_account, through deletes, kills
\* and failing updates, unless the call that first did ended before it was
\* booked (next_index, bump_next_index, retire).
THEOREM IndicesFresh ==
  ASSUME NEW p, Procs = {p}
  PROVE  Spec => []FreshIndex
<1>1. Typed /\ Alone(p) => FreshIndex
  <2> SUFFICES ASSUME Typed, Alone(p), NEW pair \in given, Hands(p, pair)
               PROVE  pair \in unbooked
    BY DEF FreshIndex
  <2> DEFINE c == call[p]
             r == record[c.group]
  <2>1. /\ c.at = "persist" /\ c.op = "next" /\ pair = <<c.group, c.index>>
        /\ c.group \in Ids /\ c.index \in Indices /\ DiskOK /\ ~Booking(c)
    BY Alike DEF Hands, At, Formed, Booking
  <2>2. r # NoRecord /\ c.index >= r.next
    BY <2>1 DEF Alone, Knows, DeriveKnows, Deriving, Opened, Looking
  <2>3. ~(r.next > c.index)
    <3>1. r.next \in Int
      BY <2>1, <2>2, GroupsAssumption DEF DiskOK, Record
    <3> QED
      BY <2>1, <2>2, <3>1, GroupsAssumption DEF Indices
  <2> QED
    BY <2>1, <2>2, <2>3 DEF Alone, World, Booked
<1> QED
  BY <1>1, AloneSound, PTL

\* No derivation writes over a vault that is there (held_addresses,
\* derive_next_account, derive_account_at).
THEOREM OverwritesNothing ==
  ASSUME NEW p, Procs = {p}
  PROVE  Spec => []NeverOverwrites
<1>1. Typed /\ Alone(p) => NeverOverwrites
  BY DEF NeverOverwrites, At, Alone, Knows, DeriveKnows, Deriving
<1> QED
  BY <1>1, AloneSound, PTL

\* Every key on disk is reachable through a record, whatever a rollback or a
\* removal did not get to, short of a key it failed to remove
\* (import_mnemonic_ex, remove_group).
THEOREM KeysRecorded ==
  ASSUME NEW p, Procs = {p}
  PROVE  Spec => []KeyHasRecord
<1>1. Typed /\ Alone(p) => KeyHasRecord
  BY DEF Alone, World
<1> QED
  BY <1>1, AloneSound, PTL

\* Every account is listed under a wallet that has a record: one goes only when
\* no account is left that was booked (remove_group, import_mnemonic_ex).
THEOREM AccountsNamed ==
  ASSUME NEW p, Procs = {p}
  PROVE  Spec => []AccountsListed
<1>1. Typed /\ Alone(p) => AccountsListed
  BY DEF Alone, World
<1> QED
  BY <1>1, AloneSound, PTL

\* An import that failed, and whose rollback did not, leaves nothing behind
\* (import_mnemonic_ex).
THEOREM ImportsUndone ==
  ASSUME NEW p, Procs = {p}
  PROVE  Spec => []RolledBack
<1>1. Typed /\ Alone(p) => RolledBack
  BY DEF RolledBack, Alone, Knows, AnswerKnows
<1> QED
  BY <1>1, AloneSound, PTL

\* No name that nobody had to prove anything for stands over an account or a
\* key, nor comes to (set_group_label, Holdings).
THEOREM NamesPaid ==
  ASSUME NEW p, Procs = {p}
  PROVE  Spec => []NamesArePaid
<1>1. Typed /\ Alone(p) => NamesArePaid
  BY DEF Alone, World
<1> QED
  BY <1>1, AloneSound, PTL

=============================================================================
