---------------------------- MODULE GroupsProofs ----------------------------
(***************************************************************************)
(* Proofs about Groups: its types, where an account came from and which    *)
(* index may come twice, for any number of processes on one directory and  *)
(* any number of kills and failing calls.                                  *)
(***************************************************************************)
EXTENDS Groups, TLAPS

-----------------------------------------------------------------------------
(* The invariant. *)

DiskOK ==
  /\ record \in [Ids -> Record \union {NoRecord}]
  /\ named \in SUBSET Ids
  /\ rows \in [Addresses -> Row \union {NoRow, Ungrouped}]
  /\ keys \in SUBSET Ids
  /\ stage \in [Ids -> {"none", "empty", "key"}]
  /\ vaults \in SUBSET Addresses

ImportSteps ==
  {"record", "name", "stage", "encrypt", "promote", "drop"} \union Undoing

DeriveSteps ==
  {"resolve", "open", "start", "hold", "try", "passrow", "passbump"}

\* What the step a call is at says of its method, its index and its wallet.
Formed(c, ph, made) ==
  /\ c.at \in ImportSteps => c.op = "import"
  /\ c.at \in DeriveSteps => c.op \in {"next", "at"}
  /\ c.at \in {"start", "passrow", "passbump"} => c.op = "next"
  /\ c.at \in {"unvault", "unrow", "retire"} => c.op = "delete"
  /\ c.at \in {"persist", "row", "bump", "passrow", "passbump", "retire"}
       => c.index \in Indices
  /\ c.op \in {"import", "at"} => c.index \in Indices
  /\ c.at \in {"passrow", "passbump"} => c.walked < MaxScan
  /\ Derives(c) => ph[c.group] # Unminted
  /\ Booking(c) => <<c.group, c.index>> \in made

Typed ==
  /\ TypeOK
  /\ \A p \in Procs : Formed(call[p], phrase, given)

Findings == {"record", "name", "account", "key", "staged"}

Moved(p, d) == call' = [call EXCEPT ![p] = d]

-----------------------------------------------------------------------------
(* Values and calls. *)

\* The fields of a call.
LEMMA CallFields ==
  ASSUME NEW c \in Call
  PROVE  /\ c.op \in Ops /\ c.at \in Steps /\ c.group \in Ids
         /\ c.index \in 0 .. MaxIndex + 1 /\ c.addr \in Addresses
         /\ c.kept \in {"plain", "extkey"} /\ c.label \in {"name", "blank"}
         /\ c.held \in SUBSET Addresses /\ c.walked \in 0 .. MaxScan
         /\ c.found \in SUBSET Findings
         /\ c.verdict \in {"none", "ok", "refused"}
         /\ c.since \in 0 .. MaxMishaps
  BY DEF Call, Findings

\* The idle call is a call, and says nothing.
LEMMA IdleIsCall ==
  /\ IdleCall \in Call
  /\ IdleCall.at = "idle" /\ IdleCall.op = "none"
  /\ \A ph, made : Formed(IdleCall, ph, made)
<1>1. (CHOOSE g \in Ids : TRUE) \in Ids
  BY GroupsAssumption
<1>2. PICK w \in Phrases : TRUE
  BY GroupsAssumption
<1>3. <<w, 0>> \in Addresses
  BY <1>2, GroupsAssumption DEF Addresses, Indices
<1>4. (CHOOSE a \in Addresses : TRUE) \in Addresses
  BY <1>3
<1>5. IdleCall \in Call
  BY <1>1, <1>4, GroupsAssumption DEF IdleCall, Call, Ops, Steps
<1> QED
  BY <1>5 DEF IdleCall, Formed, Derives, Booking, ImportSteps, DeriveSteps,
              Undoing

\* A record covered up to an index is a record, and its next index is past
\* both.
LEMMA CoveringIsRecord ==
  ASSUME NEW r \in Record, NEW i \in Indices
  PROVE  /\ Covering(r, i) \in Record
         /\ Covering(r, i).next > i /\ Covering(r, i).next >= r.next
         /\ Covering(r, i).next \in {r.next, i + 1}
         /\ Covering(r, i).storage = r.storage
         /\ Covering(r, i).retired = r.retired
  BY GroupsAssumption DEF Covering, Record, Indices, Larger

\* A changed record is still one, and no record appears or goes.
LEMMA RerecordKeeps ==
  ASSUME DiskOK, NEW g \in Ids, NEW new, Rerecord(g, new),
         record[g] # NoRecord => new \in Record
  PROVE  /\ record' \in [Ids -> Record \union {NoRecord}]
         /\ \A h \in Ids : record'[h] = NoRecord <=> record[h] = NoRecord
         /\ \A h \in Ids \ {g} : record'[h] = record[h]
         /\ record[g] # NoRecord => record'[g] = new
  BY GroupsAssumption DEF DiskOK, Rerecord

-----------------------------------------------------------------------------
(* A step of one call. *)

\* A step that leaves its own call in order, the disk well typed and what was
\* minted or given as it was keeps the invariant.
LEMMA StepKeeps ==
  ASSUME Typed, NEW p \in Procs, NEW d \in Call, Moved(p, d), DiskOK',
         phrase' \in [Ids -> Phrases \union {Unminted}],
         \A g \in Ids : phrase[g] # Unminted => phrase'[g] = phrase[g],
         mishaps' \in 0 .. MaxMishaps,
         given \subseteq given', given' \in SUBSET (Ids \X Indices),
         unbooked' \in SUBSET given', botched' \in SUBSET Ids,
         free' \in SUBSET Ids, renamed' \in BOOLEAN,
         Formed(d, phrase', given')
  PROVE  Typed'
<1>1. /\ call' \in [Procs -> Call] /\ call'[p] = d
      /\ \A q \in Procs \ {p} : call'[q] = call[q]
  BY DEF Moved, Typed, TypeOK
<1>2. TypeOK'
  BY <1>1 DEF TypeOK, DiskOK
<1>3. \A q \in Procs : Formed(call'[q], phrase', given')
  <2> SUFFICES ASSUME NEW q \in Procs
               PROVE  Formed(call'[q], phrase', given')
    OBVIOUS
  <2>1. CASE q = p
    BY <2>1, <1>1
  <2>2. CASE q # p
    <3>1. call'[q] = call[q] /\ call[q] \in Call /\ Formed(call[q], phrase, given)
      BY <2>2, <1>1 DEF Typed, TypeOK
    <3>2. call[q].group \in Ids
      BY <3>1, CallFields
    <3> QED
      BY <3>1, <3>2 DEF Formed
  <2> QED
    BY <2>1, <2>2
<1> QED
  BY <1>2, <1>3 DEF Typed

\* What the steps below leave alone.
Settled(p) ==
  /\ UNCHANGED <<phrase, given>>
  /\ mishaps' \in 0 .. MaxMishaps
  /\ unbooked' \in SUBSET given
  /\ botched' \in SUBSET Ids
  /\ free' \in SUBSET Ids /\ renamed' \in BOOLEAN

LEMMA GoKeeps ==
  ASSUME Typed, NEW p \in Procs, NEW step \in Steps, Go(p, step), DiskOK',
         Settled(p),
         step \in {"persist", "row", "bump", "passrow", "passbump", "retire"}
           => call[p].index \in Indices,
         step \in {"passrow", "passbump"} => call[p].walked < MaxScan,
         step \in ImportSteps => call[p].op = "import",
         step \in DeriveSteps => call[p].op \in {"next", "at"},
         step \in {"start", "passrow", "passbump"} => call[p].op = "next",
         step \in {"unvault", "unrow", "retire"} => call[p].op = "delete",
         step \in {"row", "bump"} /\ Derives(call[p])
           => <<call[p].group, call[p].index>> \in given
  PROVE  Typed'
<1> DEFINE d == [call[p] EXCEPT !.at = step]
<1>1. call[p] \in Call /\ Formed(call[p], phrase, given)
  BY DEF Typed, TypeOK
<1>2. d \in Call
  BY <1>1 DEF Call
<1>3. /\ d.at = step /\ d.op = call[p].op /\ d.group = call[p].group
      /\ d.index = call[p].index /\ d.walked = call[p].walked
  BY <1>1 DEF Call
<1>4. Moved(p, d)
  BY DEF Go, Moved
<1>5. Formed(d, phrase, given)
  BY <1>1, <1>3 DEF Formed, Derives, Booking
<1>6. /\ phrase \in [Ids -> Phrases \union {Unminted}]
      /\ given \in SUBSET (Ids \X Indices)
  BY DEF Typed, TypeOK
<1> HIDE DEF d
<1> QED
  BY <1>2, <1>4, <1>5, <1>6, StepKeeps DEF Settled

LEMMA EndsKeeps ==
  ASSUME Typed, NEW p \in Procs, NEW verdict \in {"ok", "refused"},
         Ends(p, verdict), DiskOK', Settled(p)
  PROVE  Typed'
<1> DEFINE d == [IdleCall EXCEPT !.op = call[p].op, !.group = call[p].group,
                   !.since = call[p].since, !.at = "answer",
                   !.verdict = verdict]
<1>1. call[p] \in Call /\ Formed(call[p], phrase, given)
  BY DEF Typed, TypeOK
<1>2. d \in Call
  <2>1. /\ call[p].op \in Ops /\ call[p].group \in Ids
        /\ call[p].since \in 0 .. MaxMishaps /\ "answer" \in Steps
        /\ verdict \in {"none", "ok", "refused"}
    BY <1>1, CallFields DEF Steps
  <2> QED
    BY <2>1, IdleIsCall DEF Call
<1>3. /\ d.at = "answer" /\ d.op = call[p].op /\ d.group = call[p].group
      /\ d.index = 0 /\ 0 \in Indices
  BY IdleIsCall, GroupsAssumption DEF Call, IdleCall, Indices
<1>4. Moved(p, d)
  BY DEF Ends, Moved
<1>5. Formed(d, phrase, given)
  BY <1>1, <1>3 DEF Formed, Derives, Booking, ImportSteps, DeriveSteps, Undoing
<1>6. /\ phrase \in [Ids -> Phrases \union {Unminted}]
      /\ given \in SUBSET (Ids \X Indices)
  BY DEF Typed, TypeOK
<1> HIDE DEF d
<1> QED
  BY <1>2, <1>4, <1>5, <1>6, StepKeeps DEF Settled

LEMMA KillKeeps ==
  ASSUME Typed, NEW p \in Procs, call' = [call EXCEPT ![p] = IdleCall],
         DiskOK', Settled(p)
  PROVE  Typed'
<1>1. Moved(p, IdleCall)
  BY DEF Moved
<1>2. /\ phrase \in [Ids -> Phrases \union {Unminted}]
      /\ given \in SUBSET (Ids \X Indices)
  BY DEF Typed, TypeOK
<1> QED
  BY <1>1, <1>2, IdleIsCall, StepKeeps DEF Settled

\* Where nothing is written, the disk and the histories are as they were.
LEMMA DiskStays ==
  ASSUME Typed
  PROVE  /\ DiskOK
         /\ UNCHANGED disk => DiskOK'
         /\ \A p : UNCHANGED <<phrase, mishaps, history>> => Settled(p)
  BY DEF Typed, TypeOK, DiskOK, disk, history, Settled

-----------------------------------------------------------------------------
(* The calls. *)

LEMMA BeginsTyped ==
  ASSUME Typed, NEW p \in Procs, Begins(p)
  PROVE  Typed'
<1>1. /\ phrase \in [Ids -> Phrases \union {Unminted}]
      /\ given \in SUBSET (Ids \X Indices) /\ unbooked \in SUBSET given
      /\ botched \in SUBSET Ids /\ mishaps \in 0 .. MaxMishaps
      /\ free \in SUBSET Ids /\ renamed \in BOOLEAN
  BY DEF Typed, TypeOK
<1>2. 0 \in Indices /\ IdleCall.index = 0
  BY GroupsAssumption DEF Indices, IdleCall
<1>3. ASSUME NEW c \in Call, Starts(p, c),
             phrase' \in [Ids -> Phrases \union {Unminted}],
             \A g \in Ids : phrase[g] # Unminted => phrase'[g] = phrase[g],
             c.index \in Indices,
             c.at \in {"record", "resolve", "persist", "unvault",
                        "forget_key", "store", "recall"},
             c.at = "record" => c.op = "import",
             c.at = "unvault" => c.op = "delete",
             c.at = "resolve" => c.op \in {"next", "at"},
             Derives(c) => phrase'[c.group] # Unminted
      PROVE  Typed'
  <2> DEFINE d == [c EXCEPT !.since = mishaps]
  <2>1. d \in Call
    BY <1>1, <1>3 DEF Call
  <2>2. /\ d.at = c.at /\ d.op = c.op /\ d.group = c.group
        /\ d.index = c.index /\ d.walked = c.walked
    BY <1>3 DEF Call
  <2>3. Moved(p, d)
    BY <1>3 DEF Starts, Moved
  <2>4. Formed(d, phrase', given)
    BY <1>3, <2>2 DEF Formed, Derives, Booking, ImportSteps, DeriveSteps,
                      Undoing
  <2>5. /\ DiskOK' /\ UNCHANGED <<mishaps, given, unbooked, botched, free>>
        /\ renamed' \in BOOLEAN
    BY <1>1, <1>3, DiskStays DEF Starts
  <2> HIDE DEF d
  <2> QED
    BY <1>1, <1>3, <2>1, <2>3, <2>4, <2>5, StepKeeps
<1>4. CASE BeginImport(p)
  <2>1. PICK g \in Ids, ph \in Phrases, i \in Indices,
             kept \in {"plain", "extkey"}, label \in Labels :
          /\ phrase[g] = Unminted
          /\ phrase' = [phrase EXCEPT ![g] = ph]
          /\ Starts(p, [IdleCall EXCEPT
               !.op = "import", !.at = "record", !.group = g, !.index = i,
               !.addr = <<ph, i>>, !.kept = kept, !.label = label])
    BY <1>4 DEF BeginImport
  <2> DEFINE c == [IdleCall EXCEPT
               !.op = "import", !.at = "record", !.group = g, !.index = i,
               !.addr = <<ph, i>>, !.kept = kept, !.label = label]
  <2>a. <<ph, i>> \in Addresses /\ i \in 0 .. MaxIndex + 1
        /\ "import" \in Ops /\ "record" \in Steps /\ label \in {"name", "blank"}
    BY GroupsAssumption DEF Ops, Steps, Addresses, Indices
  <2>2. /\ c \in Call /\ c.index = i /\ c.at = "record" /\ c.group = g
        /\ c.op = "import"
    BY <2>a, IdleIsCall DEF Call
  <2>3. /\ phrase' \in [Ids -> Phrases \union {Unminted}]
        /\ \A h \in Ids : phrase[h] # Unminted => phrase'[h] = phrase[h]
        /\ phrase'[g] # Unminted
    BY <1>1, <2>1, GroupsAssumption
  <2>4. Starts(p, c)
    BY <2>1
  <2> HIDE DEF c
  <2> QED
    BY <1>3, <2>2, <2>3, <2>4
<1>5. CASE BeginDerive(p)
  <2>1. PICK g \in Ids, i \in Indices, op \in {"next", "at"} :
          /\ phrase[g] # Unminted
          /\ Starts(p, [IdleCall EXCEPT
               !.op = op, !.at = "resolve", !.group = g, !.index = i,
               !.addr = <<phrase[g], i>>])
          /\ UNCHANGED phrase
    BY <1>5 DEF BeginDerive
  <2> DEFINE c == [IdleCall EXCEPT
               !.op = op, !.at = "resolve", !.group = g, !.index = i,
               !.addr = <<phrase[g], i>>]
  <2>a. <<phrase[g], i>> \in Addresses /\ i \in 0 .. MaxIndex + 1
        /\ op \in Ops /\ "resolve" \in Steps
    BY <1>1, <2>1, GroupsAssumption DEF Ops, Steps, Addresses, Indices
  <2>2. /\ c \in Call /\ c.index = i /\ c.at = "resolve" /\ c.group = g
        /\ c.op = op
    BY <2>a, IdleIsCall DEF Call
  <2>3. Starts(p, c)
    BY <2>1
  <2> HIDE DEF c
  <2> QED
    BY <1>1, <1>3, <2>1, <2>2, <2>3
<1>6. CASE BeginAccount(p)
  <2>1. PICK a \in Addresses, op \in {"raw", "delete"} :
          /\ Starts(p, [IdleCall EXCEPT
               !.op = op, !.addr = a,
               !.at = IF op = "raw" THEN "persist" ELSE "unvault"])
          /\ UNCHANGED phrase
    BY <1>6 DEF BeginAccount
  <2> DEFINE c == [IdleCall EXCEPT
               !.op = op, !.addr = a,
               !.at = IF op = "raw" THEN "persist" ELSE "unvault"]
  <2>a. op \in Ops /\ "persist" \in Steps /\ "unvault" \in Steps
    BY DEF Ops, Steps
  <2>2. /\ c \in Call /\ c.index = 0 /\ c.at \in {"persist", "unvault"}
        /\ c.op = op /\ (c.at = "unvault" => op = "delete")
    BY <1>2, <2>a, IdleIsCall DEF Call
  <2>3. Starts(p, c)
    BY <2>1
  <2> HIDE DEF c
  <2> QED
    BY <1>1, <1>2, <1>3, <2>1, <2>2, <2>3 DEF Derives
<1>7. CASE BeginGroup(p)
  <2>1. PICK g \in Ids, op \in {"forget", "remove"} :
          /\ Starts(p, [IdleCall EXCEPT
               !.op = op, !.group = g,
               !.at = IF op = "forget" THEN "forget_key" ELSE "store"])
          /\ UNCHANGED phrase
    BY <1>7 DEF BeginGroup
  <2> DEFINE c == [IdleCall EXCEPT
               !.op = op, !.group = g,
               !.at = IF op = "forget" THEN "forget_key" ELSE "store"]
  <2>a. op \in Ops /\ "forget_key" \in Steps /\ "store" \in Steps
    BY DEF Ops, Steps
  <2>2. /\ c \in Call /\ c.index = 0 /\ c.at \in {"forget_key", "store"}
        /\ c.op = op
    BY <1>2, <2>a, IdleIsCall DEF Call
  <2>3. Starts(p, c)
    BY <2>1
  <2> HIDE DEF c
  <2> QED
    BY <1>1, <1>2, <1>3, <2>1, <2>2, <2>3 DEF Derives
<1>8. CASE BeginLabel(p)
  <2>1. PICK g \in Ids, label \in Labels \union {"blank"} :
          /\ phrase[g] # Unminted
          /\ Starts(p, [IdleCall EXCEPT
               !.op = "label", !.group = g, !.label = label, !.at = "recall"])
          /\ UNCHANGED phrase
    BY <1>8 DEF BeginLabel
  <2> DEFINE c == [IdleCall EXCEPT
               !.op = "label", !.group = g, !.label = label, !.at = "recall"]
  <2>a. "label" \in Ops /\ "recall" \in Steps /\ label \in {"name", "blank"}
    BY GroupsAssumption DEF Ops, Steps
  <2>2. /\ c \in Call /\ c.index = 0 /\ c.at = "recall" /\ c.op = "label"
    BY <1>2, <2>a, IdleIsCall DEF Call
  <2>3. Starts(p, c)
    BY <2>1
  <2> HIDE DEF c
  <2> QED
    BY <1>1, <1>2, <1>3, <2>1, <2>2, <2>3 DEF Derives
<1> QED
  BY <1>4, <1>5, <1>6, <1>7, <1>8 DEF Begins

LEMMA ImportTyped ==
  ASSUME Typed, NEW p \in Procs, Import(p)
  PROVE  Typed'
<1>1. /\ call[p] \in Call /\ Formed(call[p], phrase, given) /\ DiskOK
      /\ call[p].group \in Ids /\ call[p].kept \in {"plain", "extkey"}
      /\ call[p].at \in ImportSteps => call[p].op = "import" /\ call[p].index \in Indices
  BY CallFields DEF Typed, TypeOK, DiskOK, Formed
<1>2. CASE PutRecord(p)
  <2>1. record' = [record EXCEPT ![call[p].group] =
                     [storage |-> call[p].kept, next |-> 0, retired |-> {}]]
        /\ UNCHANGED <<named, rows, keys, stage, vaults>>
        /\ Go(p, "name") /\ UNCHANGED <<phrase, mishaps, history>>
    BY <1>2 DEF PutRecord
  <2>2. [storage |-> call[p].kept, next |-> 0, retired |-> {}] \in Record
    BY <1>1, GroupsAssumption DEF Record
  <2>3. DiskOK'
    BY <1>1, <2>1, <2>2 DEF DiskOK
  <2> QED
    BY <1>1, <1>2, <2>1, <2>3, DiskStays, GoKeeps
      DEF PutRecord, At, Steps, ImportSteps, DeriveSteps, Undoing
<1>3. CASE PutName(p)
  <2>1. named' \in {named \union {call[p].group}, named \ {call[p].group}}
        /\ UNCHANGED <<record, rows, keys, stage, vaults>>
        /\ UNCHANGED <<phrase, mishaps, history>>
        /\ Go(p, IF call[p].kept = "extkey" THEN "stage" ELSE "persist")
    BY <1>3 DEF PutName
  <2>2. DiskOK'
    BY <1>1, <2>1 DEF DiskOK
  <2>3. call[p].index \in Indices /\ call[p].op = "import"
    BY <1>1, <1>3 DEF Formed, PutName, At, ImportSteps
  <2> QED
    BY <2>1, <2>2, <2>3, DiskStays, GoKeeps DEF Steps, ImportSteps, DeriveSteps, Undoing
<1>4. CASE PutStage(p)
  <2>1. DiskOK' /\ Settled(p)
    BY <1>1, <1>4, DiskStays DEF PutStage, StageMoves, DiskOK
  <2> QED
    BY <1>1, <1>4, <2>1, GoKeeps DEF PutStage, StageMoves, At, Steps, ImportSteps, DeriveSteps, Undoing
<1>5. CASE Encrypt(p)
  <2>1. DiskOK' /\ Settled(p)
    BY <1>1, <1>5, DiskStays DEF Encrypt, StageMoves, DiskOK
  <2> QED
    BY <1>1, <1>5, <2>1, GoKeeps DEF Encrypt, StageMoves, At, Steps, ImportSteps, DeriveSteps, Undoing
<1>6. CASE Promote(p)
  <2>1. DiskOK' /\ Settled(p)
    BY <1>1, <1>6, DiskStays DEF Promote, StageMoves, DiskOK
  <2> QED
    BY <1>1, <1>6, <2>1, GoKeeps DEF Promote, StageMoves, At, Steps, ImportSteps, DeriveSteps, Undoing
<1>7. CASE DropStage(p)
  <2>1. DiskOK' /\ Settled(p)
    BY <1>1, <1>7, DiskStays DEF DropStage, StageMoves, DiskOK
  <2> QED
    BY <1>1, <1>7, <2>1, GoKeeps DEF DropStage, StageMoves, At, Steps, ImportSteps, DeriveSteps, Undoing
<1>8. CASE UndoKey(p)
  <2>1. DiskOK' /\ Settled(p)
    BY <1>1, <1>8, DiskStays DEF UndoKey, DiskOK
  <2> QED
    BY <1>1, <1>8, <2>1, GoKeeps DEF UndoKey, At, Steps, ImportSteps, DeriveSteps, Undoing
<1>9. CASE UndoStage(p)
  <2>1. DiskOK' /\ Settled(p)
    BY <1>1, <1>9, DiskStays DEF UndoStage, DiskOK
  <2> QED
    BY <1>1, <1>9, <2>1, GoKeeps DEF UndoStage, At, Steps, ImportSteps, DeriveSteps, Undoing
<1>10. CASE UndoName(p)
  <2>1. DiskOK' /\ Settled(p)
    BY <1>1, <1>10, DiskStays DEF UndoName, Unnamed, DiskOK
  <2> QED
    BY <1>1, <1>10, <2>1, GoKeeps DEF UndoName, Unnamed, At, Steps, ImportSteps, DeriveSteps, Undoing
<1>11. CASE UndoRecord(p)
  <2>1. DiskOK' /\ Settled(p)
    BY <1>1, <1>11, DiskStays DEF UndoRecord, DiskOK
  <2> QED
    BY <1>11, <2>1, EndsKeeps DEF UndoRecord, Refuse
<1> QED
  BY <1>2, <1>3, <1>4, <1>5, <1>6, <1>7, <1>8, <1>9, <1>10, <1>11 DEF Import

\* A read that moves its own call on keeps the invariant.
LEMMA ReadKeeps ==
  ASSUME Typed, NEW p \in Procs, Reads(p), NEW d \in Call, Moved(p, d),
         Formed(d, phrase, given)
  PROVE  Typed'
<1>1. /\ phrase \in [Ids -> Phrases \union {Unminted}]
      /\ given \in SUBSET (Ids \X Indices)
  BY DEF Typed, TypeOK
<1>2. DiskOK' /\ Settled(p) /\ UNCHANGED phrase
  BY DiskStays DEF Reads
<1> QED
  BY <1>1, <1>2, StepKeeps DEF Settled

LEMMA DeriveTyped ==
  ASSUME Typed, NEW p \in Procs, Derive(p)
  PROVE  Typed'
<1> DEFINE c == call[p]
<1>1. /\ c \in Call /\ Formed(c, phrase, given) /\ DiskOK
      /\ c.group \in Ids /\ c.index \in 0 .. MaxIndex + 1
      /\ c.addr \in Addresses /\ c.walked \in 0 .. MaxScan
  BY CallFields DEF Typed, TypeOK, DiskOK
<1>2. Reads(p) => DiskOK' /\ Settled(p)
  BY DiskStays DEF Reads
<1>3. CASE Resolve(p)
  <2>1. c.op \in {"next", "at"} /\ c.at = "resolve" /\ Reads(p)
    BY <1>1, <1>3 DEF Resolve, At, Formed, DeriveSteps
  <2>2. CASE Refuse(p)
    BY <1>2, <2>1, <2>2, EndsKeeps DEF Refuse
  <2>3. CASE record[c.group] # NoRecord /\ ~Refuse(p)
    <3> DEFINE index == IF c.op = "next" THEN record[c.group].next ELSE c.index
               d == [c EXCEPT !.at = "open", !.index = index]
    <3>1. record[c.group] \in Record
      BY <1>1, <2>3 DEF DiskOK
    <3>2. index \in 0 .. MaxIndex + 1
      BY <1>1, <3>1 DEF Record
    <3>3. c.op = "at" => index = c.index
      OBVIOUS
    <3>4. Moved(p, d)
      BY <1>3, <2>3 DEF Resolve, Moved
    <3> HIDE DEF index
    <3>5. /\ d \in Call /\ d.at = "open" /\ d.op = c.op /\ d.group = c.group
          /\ d.index = index
      BY <1>1, <3>2 DEF Call, Steps
    <3>6. Formed(d, phrase, given)
      BY <1>1, <2>1, <3>3, <3>5
        DEF Formed, Derives, Booking, ImportSteps, DeriveSteps, Undoing
    <3> HIDE DEF d
    <3> QED
      BY <2>1, <3>4, <3>5, <3>6, ReadKeeps
  <2> QED
    BY <1>3, <2>2, <2>3 DEF Resolve
<1>4. CASE Open(p)
  <2>1. c.op \in {"next", "at"} /\ c.at = "open" /\ Reads(p)
    BY <1>1, <1>4 DEF Open, At, Formed, DeriveSteps
  <2>2. CASE Refuse(p)
    BY <1>2, <2>1, <2>2, EndsKeeps DEF Refuse
  <2>3. CASE Go(p, IF c.op = "next" THEN "start" ELSE "hold")
    BY <1>2, <2>1, <2>3, GoKeeps DEF Steps, ImportSteps, DeriveSteps, Undoing
  <2> QED
    BY <1>4, <2>2, <2>3 DEF Open
<1>5. CASE Start(p)
  <2>1. c.op = "next" /\ c.at = "start" /\ Reads(p)
    BY <1>1, <1>5 DEF Start, At, Formed
  <2>2. PICK start \in {c.index} \union {i + 1 : i \in Used(c.group)} :
          call' = [call EXCEPT ![p].index = start, ![p].at = "hold"]
    BY <1>5 DEF Start
  <2>3. start \in 0 .. MaxIndex + 1
    <3>1. CASE start = c.index
      BY <1>1, <3>1
    <3>2. ASSUME NEW i \in Indices, start = i + 1
          PROVE  start \in 0 .. MaxIndex + 1
      BY <3>2, GroupsAssumption DEF Indices
    <3>3. Used(c.group) \subseteq Indices
      BY DEF Used
    <3> QED
      BY <2>2, <3>1, <3>2, <3>3
  <2> DEFINE d == [c EXCEPT !.index = start, !.at = "hold"]
  <2>4. Moved(p, d)
    BY <2>2 DEF Moved
  <2>5. /\ d \in Call /\ d.at = "hold" /\ d.op = c.op /\ d.group = c.group
        /\ d.index = start
    BY <1>1, <2>3 DEF Call, Steps
  <2>6. Formed(d, phrase, given)
    BY <1>1, <2>1, <2>5
      DEF Formed, Derives, Booking, ImportSteps, DeriveSteps, Undoing
  <2> HIDE DEF d
  <2> QED
    BY <2>1, <2>4, <2>5, <2>6, ReadKeeps
<1>6. CASE Hold(p)
  <2> DEFINE d == [c EXCEPT !.held = vaults, !.at = "try"]
  <2>1. c.op \in {"next", "at"} /\ c.at = "hold" /\ Reads(p) /\ Moved(p, d)
    BY <1>1, <1>6 DEF Hold, At, Formed, DeriveSteps, Moved
  <2>2. /\ d \in Call /\ d.at = "try" /\ d.op = c.op /\ d.group = c.group
        /\ d.index = c.index
    BY <1>1 DEF Call, Steps, DiskOK
  <2>3. Formed(d, phrase, given)
    BY <1>1, <2>1, <2>2
      DEF Formed, Derives, Booking, ImportSteps, DeriveSteps, Undoing
  <2> HIDE DEF d
  <2> QED
    BY <2>1, <2>2, <2>3, ReadKeeps
<1>7. CASE Try(p)
  <2> DEFINE addr == <<phrase[c.group], c.index>>
             step == IF Taken(c, addr) THEN "passrow" ELSE "persist"
             d == [c EXCEPT !.addr = addr, !.at = step]
  <2>1. c.op \in {"next", "at"} /\ c.at = "try" /\ Reads(p)
    BY <1>1, <1>7 DEF Try, At, Formed, DeriveSteps
  <2>2. CASE Refuse(p)
    BY <1>2, <2>1, <2>2, EndsKeeps DEF Refuse
  <2>3. CASE ~Refuse(p)
    <3>1. InRange(c.index) /\ c.walked # MaxScan /\ Moved(p, d)
      BY <1>7, <2>3 DEF Try, Moved
    <3>2. c.index \in Indices /\ c.walked < MaxScan
      BY <1>1, <3>1, GroupsAssumption DEF InRange, Indices
    <3>3. phrase[c.group] \in Phrases
      BY <1>1, <2>1 DEF Formed, Derives, Typed, TypeOK
    <3>4. addr \in Addresses
      BY <3>2, <3>3 DEF Addresses
    <3>5. step \in {"passrow", "persist"} /\ (step = "passrow" => c.op = "next")
      BY <1>7, <2>1, <2>3 DEF Try
    <3> HIDE DEF addr, step
    <3>6. /\ d \in Call /\ d.at = step /\ d.op = c.op /\ d.group = c.group
          /\ d.index = c.index /\ d.walked = c.walked
      BY <1>1, <3>4, <3>5 DEF Call, Steps
    <3>7. Formed(d, phrase, given)
      BY <1>1, <2>1, <3>2, <3>5, <3>6
        DEF Formed, Derives, Booking, ImportSteps, DeriveSteps, Undoing
    <3> HIDE DEF d
    <3> QED
      BY <2>1, <3>1, <3>6, <3>7, ReadKeeps
  <2> QED
    BY <2>2, <2>3
<1>8. CASE PassRow(p)
  <2>1. c.at = "passrow" /\ c.op = "next"
        /\ c.index \in Indices /\ c.walked < MaxScan
    BY <1>1, <1>8 DEF PassRow, At, Formed, DeriveSteps
  <2>2. [group |-> c.group, index |-> c.index] \in Row
    BY <1>1, <2>1 DEF Row
  <2>3. /\ rows' \in [Addresses -> Row \union {NoRow, Ungrouped}]
        /\ UNCHANGED <<record, named, keys, stage, vaults>>
        /\ UNCHANGED <<phrase, mishaps, history>> /\ Go(p, "passbump")
    BY <1>1, <1>8, <2>2 DEF PassRow, DiskOK
  <2>4. DiskOK' /\ Settled(p)
    BY <1>1, <2>3, DiskStays DEF DiskOK
  <2> QED
    BY <2>1, <2>3, <2>4, GoKeeps DEF Steps, ImportSteps, DeriveSteps, Undoing
<1>9. CASE PassBump(p)
  <2> DEFINE d == [c EXCEPT !.index = @ + 1, !.walked = @ + 1, !.at = "try"]
  <2>1. c.at = "passbump" /\ c.op = "next"
        /\ c.index \in Indices /\ c.walked < MaxScan
    BY <1>1, <1>9 DEF PassBump, At, Formed
  <2>2. c.index + 1 \in 0 .. MaxIndex + 1 /\ c.walked + 1 \in 0 .. MaxScan
    BY <1>1, <2>1, GroupsAssumption DEF Indices
  <2>3. record[c.group] # NoRecord => Covering(record[c.group], c.index) \in Record
    BY <1>1, <2>1, CoveringIsRecord DEF DiskOK
  <2>4. record' \in [Ids -> Record \union {NoRecord}]
    BY <1>1, <1>9, <2>3, RerecordKeeps DEF PassBump
  <2>5. DiskOK' /\ Settled(p) /\ UNCHANGED <<phrase, given>>
    BY <1>1, <1>9, <2>4, DiskStays DEF PassBump, DiskOK, history
  <2>6. /\ d \in Call /\ d.at = "try" /\ d.op = c.op /\ d.group = c.group
    BY <1>1, <2>2 DEF Call, Steps
  <2>7. Moved(p, d)
    BY <1>9 DEF PassBump, Moved
  <2>8. Formed(d, phrase, given)
    BY <1>1, <2>1, <2>6
      DEF Formed, Derives, Booking, ImportSteps, DeriveSteps, Undoing
  <2>9. /\ phrase \in [Ids -> Phrases \union {Unminted}]
        /\ given \in SUBSET (Ids \X Indices)
    BY DEF Typed, TypeOK
  <2> HIDE DEF d
  <2> QED
    BY <2>5, <2>6, <2>7, <2>8, <2>9, StepKeeps DEF Settled
<1> QED
  BY <1>3, <1>4, <1>5, <1>6, <1>7, <1>8, <1>9 DEF Derive

LEMMA AccountTyped ==
  ASSUME Typed, NEW p \in Procs, Account(p)
  PROVE  Typed'
<1> DEFINE c == call[p]
<1>1. /\ c \in Call /\ Formed(c, phrase, given) /\ DiskOK
      /\ c.group \in Ids /\ c.addr \in Addresses
  BY CallFields DEF Typed, TypeOK, DiskOK
<1>2. CASE Persist(p)
  <2> DEFINE d == [c EXCEPT !.at = "row"]
  <2>1. c.at = "persist" /\ c.index \in Indices
    BY <1>1, <1>2 DEF Persist, At, Formed
  <2>2. /\ d \in Call /\ d.at = "row" /\ d.op = c.op /\ d.group = c.group
        /\ d.index = c.index
    BY <1>1 DEF Call, Steps
  <2>3. Moved(p, d)
    BY <1>2 DEF Persist, Moved, Go
  <2>4. DiskOK'
    BY <1>1, <1>2 DEF Persist, DiskOK
  <2>5. /\ given \subseteq given' /\ given' \in SUBSET (Ids \X Indices)
        /\ Derives(c) => <<c.group, c.index>> \in given'
    BY <1>1, <1>2, <2>1 DEF Persist, Typed, TypeOK
  <2>6. /\ phrase' = phrase /\ phrase \in [Ids -> Phrases \union {Unminted}]
        /\ mishaps' \in 0 .. MaxMishaps /\ unbooked' \in SUBSET given'
        /\ botched' \in SUBSET Ids
        /\ free' \in SUBSET Ids /\ renamed' \in BOOLEAN
    BY <1>2, <2>5 DEF Persist, Typed, TypeOK
  <2>7. Formed(d, phrase', given')
    BY <1>1, <2>1, <2>2, <2>5, <2>6
      DEF Formed, Derives, Booking, ImportSteps, DeriveSteps, Undoing
  <2> HIDE DEF d
  <2> QED
    BY <2>2, <2>3, <2>4, <2>5, <2>6, <2>7, StepKeeps
<1>3. CASE PutRow(p)
  <2>1. c.at = "row" /\ c.index \in Indices
        /\ (Derives(c) => <<c.group, c.index>> \in given)
    BY <1>1, <1>3 DEF PutRow, At, Formed, Booking
  <2>2. [group |-> c.group, index |-> c.index] \in Row
    BY <1>1, <2>1 DEF Row
  <2>3. DiskOK'
    BY <1>1, <1>3, <2>2 DEF PutRow, DiskOK
  <2>4. Settled(p)
    BY <1>3, DiskStays DEF PutRow
  <2>5. CASE Derives(c)
    BY <1>3, <2>1, <2>3, <2>4, <2>5, GoKeeps
      DEF PutRow, Steps, ImportSteps, DeriveSteps, Undoing
  <2>6. CASE ~Derives(c)
    BY <1>3, <2>3, <2>4, <2>6, EndsKeeps DEF PutRow
  <2> QED
    BY <2>5, <2>6
<1>4. CASE Bump(p)
  <2>1. c.index \in Indices
    BY <1>1, <1>4 DEF Bump, At, Formed
  <2>2. record[c.group] # NoRecord => Covering(record[c.group], c.index) \in Record
    BY <1>1, <2>1, CoveringIsRecord DEF DiskOK
  <2>3. record' \in [Ids -> Record \union {NoRecord}]
    BY <1>1, <1>4, <2>2, RerecordKeeps DEF Bump
  <2>4. DiskOK' /\ Settled(p)
    BY <1>1, <1>4, <2>3, DiskStays DEF Bump, DiskOK
  <2> QED
    BY <1>4, <2>4, EndsKeeps DEF Bump
<1>5. CASE Unvault(p)
  <2>1. DiskOK' /\ Settled(p)
    BY <1>1, <1>5, DiskStays DEF Unvault, DiskOK
  <2>2. CASE Refuse(p)
    BY <2>1, <2>2, EndsKeeps DEF Refuse
  <2>3. CASE Go(p, "unrow")
    BY <1>1, <1>5, <2>1, <2>3, GoKeeps
      DEF Unvault, At, Formed, Steps, ImportSteps, DeriveSteps, Undoing
  <2> QED
    BY <1>5, <2>2, <2>3 DEF Unvault
<1>6. CASE Unrow(p)
  <2>1. DiskOK' /\ Settled(p) /\ UNCHANGED phrase
    BY <1>1, <1>6, DiskStays DEF Unrow, DiskOK
  <2>2. CASE rows[c.addr] \in {NoRow, Ungrouped}
    BY <1>6, <2>1, <2>2, EndsKeeps DEF Unrow
  <2>3. CASE rows[c.addr] \notin {NoRow, Ungrouped}
    <3> DEFINE r == rows[c.addr]
               d == [c EXCEPT !.group = r.group, !.index = r.index,
                              !.at = "retire"]
    <3>1. r \in Row
      BY <1>1, <2>3 DEF DiskOK
    <3>2. r.group \in Ids /\ r.index \in Indices
      BY <3>1 DEF Row
    <3>3. Moved(p, d) /\ c.at = "unrow"
      BY <1>6, <2>3 DEF Unrow, Moved, At
    <3>4. r.index \in 0 .. MaxIndex + 1
      BY <3>2, GroupsAssumption DEF Indices
    <3> HIDE DEF r
    <3>5. /\ d \in Call /\ d.at = "retire" /\ d.op = c.op /\ d.index = r.index
      BY <1>1, <3>2, <3>4 DEF Call, Steps
    <3>6. c.op = "delete"
      BY <1>1, <3>3 DEF Formed
    <3>7. Formed(d, phrase, given)
      BY <1>1, <3>2, <3>5, <3>6
        DEF Formed, Derives, Booking, ImportSteps, DeriveSteps, Undoing
    <3>8. /\ phrase \in [Ids -> Phrases \union {Unminted}]
          /\ given \in SUBSET (Ids \X Indices)
      BY DEF Typed, TypeOK
    <3> HIDE DEF d
    <3> QED
      BY <2>1, <3>3, <3>5, <3>7, <3>8, StepKeeps DEF Settled
  <2> QED
    BY <2>2, <2>3
<1>7. CASE Retire(p)
  <2>1. c.index \in Indices
    BY <1>1, <1>7 DEF Retire, At, Formed
  <2> DEFINE new == [Covering(record[c.group], c.index)
                       EXCEPT !.retired = @ \union {c.index}]
  <2>2. record[c.group] # NoRecord => new \in Record
    BY <1>1, <2>1, CoveringIsRecord DEF DiskOK, Record
  <2>3. Rerecord(c.group, new)
    BY <1>7 DEF Retire
  <2> HIDE DEF new
  <2>4. record' \in [Ids -> Record \union {NoRecord}]
    BY <1>1, <2>2, <2>3, RerecordKeeps
  <2>5. DiskOK' /\ Settled(p)
    BY <1>1, <1>7, <2>4, DiskStays DEF Retire, DiskOK
  <2> QED
    BY <1>7, <2>5, EndsKeeps DEF Retire
<1> QED
  BY <1>2, <1>3, <1>4, <1>5, <1>6, <1>7 DEF Account

LEMMA ForgetTyped ==
  ASSUME Typed, NEW p \in Procs, Forget(p)
  PROVE  Typed'
<1> DEFINE c == call[p]
<1>1. /\ c \in Call /\ Formed(c, phrase, given) /\ DiskOK /\ c.group \in Ids
  BY CallFields DEF Typed, TypeOK, DiskOK
<1>2. CASE ForgetKey(p)
  <2> DEFINE found == IF c.group \in keys THEN {"key"} ELSE {}
             d == [c EXCEPT !.found = found, !.at = "forget_stage"]
  <2>1. Moved(p, d) /\ c.at = "forget_key"
    BY <1>2 DEF ForgetKey, Moved, At
  <2>2. DiskOK' /\ Settled(p)
    BY <1>1, <1>2, DiskStays DEF ForgetKey, DiskOK
  <2>3. found \in SUBSET Findings
    BY DEF Findings
  <2> HIDE DEF found
  <2>4. /\ d \in Call /\ d.at = "forget_stage" /\ d.op = c.op
        /\ d.group = c.group /\ d.index = c.index
    BY <1>1, <2>3 DEF Call, Steps, Findings
  <2>5. Formed(d, phrase, given)
    BY <1>1, <2>4
      DEF Formed, Derives, Booking, ImportSteps, DeriveSteps, Undoing
  <2>6. /\ phrase \in [Ids -> Phrases \union {Unminted}]
        /\ given \in SUBSET (Ids \X Indices)
    BY DEF Typed, TypeOK
  <2> HIDE DEF d
  <2> QED
    BY <2>1, <2>2, <2>4, <2>5, <2>6, StepKeeps DEF Settled
<1>3. CASE ForgetStage(p)
  <2>1. DiskOK' /\ Settled(p)
    BY <1>1, <1>3, DiskStays DEF ForgetStage, DiskOK
  <2>2. CASE Refuse(p)
    BY <2>1, <2>2, EndsKeeps DEF Refuse
  <2>3. CASE Go(p, "downgrade")
    BY <2>1, <2>3, GoKeeps DEF Steps, ImportSteps, DeriveSteps, Undoing
  <2> QED
    BY <1>3, <2>2, <2>3 DEF ForgetStage
<1>4. CASE Downgrade(p)
  <2> DEFINE new == [record[c.group] EXCEPT !.storage = "plain"]
  <2>1. record[c.group] # NoRecord => new \in Record
    BY <1>1 DEF DiskOK, Record
  <2>2. Rerecord(c.group, new)
    BY <1>4 DEF Downgrade
  <2> HIDE DEF new
  <2>3. record' \in [Ids -> Record \union {NoRecord}]
    BY <1>1, <2>1, <2>2, RerecordKeeps
  <2>4. DiskOK' /\ Settled(p)
    BY <1>1, <1>4, <2>3, DiskStays DEF Downgrade, DiskOK
  <2> QED
    BY <1>4, <2>4, EndsKeeps DEF Downgrade
<1> QED
  BY <1>2, <1>3, <1>4 DEF Forget

LEMMA RemoveTyped ==
  ASSUME Typed, NEW p \in Procs, Remove(p)
  PROVE  Typed'
<1> DEFINE c == call[p]
<1>1. /\ c \in Call /\ Formed(c, phrase, given) /\ DiskOK /\ c.group \in Ids
  BY CallFields DEF Typed, TypeOK, DiskOK
<1>2. ASSUME NEW found \in SUBSET Findings,
             NEW step \in {"naming", "unrecord", "unname"}, Reads(p),
             call' = [call EXCEPT ![p].found = found, ![p].at = step]
      PROVE  Typed'
  <2> DEFINE d == [c EXCEPT !.found = found, !.at = step]
  <2>1. Moved(p, d)
    BY <1>2 DEF Moved
  <2>2. /\ d \in Call /\ d.at = step /\ d.op = c.op
        /\ d.group = c.group /\ d.index = c.index
    BY <1>1, <1>2 DEF Call, Steps, Findings
  <2>3. Formed(d, phrase, given)
    BY <1>1, <2>2
      DEF Formed, Derives, Booking, ImportSteps, DeriveSteps, Undoing
  <2> HIDE DEF d
  <2> QED
    BY <1>2, <2>1, <2>2, <2>3, ReadKeeps
<1>3. Reads(p) => DiskOK' /\ Settled(p)
  BY DiskStays DEF Reads
<1>4. CASE LookAtStore(p)
  <2>1. CASE Refuse(p)
    BY <1>3, <1>4, <2>1, EndsKeeps DEF LookAtStore, Refuse
  <2>2. CASE Go(p, "accounts")
    BY <1>3, <1>4, <2>2, GoKeeps
      DEF LookAtStore, Steps, ImportSteps, DeriveSteps, Undoing
  <2> QED
    BY <1>4, <2>1, <2>2 DEF LookAtStore
<1>5. CASE LookAtAccounts(p)
  <2>1. CASE Refuse(p)
    BY <1>3, <1>5, <2>1, EndsKeeps DEF LookAtAccounts, Refuse
  <2>2. CASE Go(p, "recorded")
    BY <1>3, <1>5, <2>2, GoKeeps
      DEF LookAtAccounts, Steps, ImportSteps, DeriveSteps, Undoing
  <2> QED
    BY <1>5, <2>1, <2>2 DEF LookAtAccounts
<1>6. CASE LookAtRecord(p)
  <2>1. /\ {} \in SUBSET Findings /\ {"record"} \in SUBSET Findings
        /\ (IF record[c.group] = NoRecord THEN {} ELSE {"record"})
             \in SUBSET Findings
    BY DEF Findings
  <2> QED
    BY <1>2, <1>6, <2>1 DEF LookAtRecord
<1>7. CASE LookAtName(p)
  <2> DEFINE found == c.found \union (IF c.group \in named THEN {"name"} ELSE {})
             step == IF "record" \in found THEN "unrecord" ELSE "unname"
  <2>1. found \in SUBSET Findings
    BY <1>1, CallFields DEF Findings
  <2>2. CASE Refuse(p)
    BY <1>3, <1>7, <2>2, EndsKeeps DEF LookAtName, Refuse
  <2>3. CASE call' = [call EXCEPT ![p].found = found, ![p].at = step]
    <3>1. step \in {"naming", "unrecord", "unname"}
      OBVIOUS
    <3> HIDE DEF found, step
    <3> QED
      BY <1>2, <1>7, <2>1, <2>3, <3>1 DEF LookAtName
  <2> QED
    BY <1>7, <2>2, <2>3 DEF LookAtName
<1>8. CASE Unrecord(p)
  <2>1. DiskOK' /\ Settled(p)
    BY <1>1, <1>8, DiskStays DEF Unrecord, DiskOK
  <2>2. CASE Ends(p, "ok")
    BY <2>1, <2>2, EndsKeeps
  <2>3. CASE Go(p, "unname")
    BY <2>1, <2>3, GoKeeps DEF Steps, ImportSteps, DeriveSteps, Undoing
  <2> QED
    BY <1>8, <2>2, <2>3 DEF Unrecord
<1>9. CASE Unname(p)
  <2>1. DiskOK' /\ Settled(p)
    BY <1>1, <1>9, DiskStays DEF Unname, DiskOK
  <2> QED
    BY <1>9, <2>1, EndsKeeps DEF Unname
<1> QED
  BY <1>4, <1>5, <1>6, <1>7, <1>8, <1>9 DEF Remove

LEMMA LabelTyped ==
  ASSUME Typed, NEW p \in Procs, Label(p)
  PROVE  Typed'
<1> DEFINE c == call[p]
<1>1. /\ c \in Call /\ Formed(c, phrase, given) /\ DiskOK /\ c.group \in Ids
      /\ c.found \in SUBSET Findings /\ c.addr \in Addresses
  BY CallFields DEF Typed, TypeOK, DiskOK
<1>2. ASSUME NEW found \in SUBSET Findings, NEW addr \in Addresses,
             NEW step \in {"tally", "survey", "weigh"}, Reads(p),
             Moved(p, [c EXCEPT !.found = found, !.addr = addr, !.at = step])
      PROVE  Typed'
  <2> DEFINE d == [c EXCEPT !.found = found, !.addr = addr, !.at = step]
  <2>1. /\ d \in Call /\ d.at = step /\ d.op = c.op
        /\ d.group = c.group /\ d.index = c.index
    BY <1>1, <1>2 DEF Call, Steps, Findings
  <2>2. Formed(d, phrase, given)
    BY <1>1, <2>1
      DEF Formed, Derives, Booking, ImportSteps, DeriveSteps, Undoing
  <2>3. Moved(p, d)
    BY <1>2
  <2> HIDE DEF d
  <2> QED
    BY <1>2, <2>1, <2>2, <2>3, ReadKeeps
<1>3. Reads(p) => DiskOK' /\ Settled(p)
  BY DiskStays DEF Reads
<1>4. ASSUME NEW from, NEW new \in SUBSET Findings,
             NEW to \in {"tally", "survey", "weigh"}, Finds(p, from, new, to)
      PROVE  Typed'
  <2>1. c.found \union new \in SUBSET Findings
    BY <1>1
  <2>2. Moved(p, [c EXCEPT !.found = c.found \union new, !.addr = c.addr,
                           !.at = to])
    BY <1>1, <1>4 DEF Finds, Moved, Call
  <2> QED
    BY <1>1, <1>2, <1>4, <2>1, <2>2 DEF Finds
<1>5. CASE Recall(p)
  <2>1. (IF record[c.group] = NoRecord THEN {} ELSE {"record"})
          \in SUBSET Findings
    BY DEF Findings
  <2> QED
    BY <1>4, <1>5, <2>1 DEF Recall
<1>6. CASE Tally(p)
  <2>1. CASE Go(p, "survey")
    BY <1>3, <1>6, <2>1, GoKeeps
      DEF Tally, Steps, ImportSteps, DeriveSteps, Undoing
  <2>2. ASSUME NEW a \in Addresses,
               call' = [call EXCEPT ![p].found = @ \union {"account"},
                                    ![p].addr = a, ![p].at = "survey"]
        PROVE  Typed'
    <3>1. c.found \union {"account"} \in SUBSET Findings
      BY <1>1 DEF Findings
    <3>2. Moved(p, [c EXCEPT !.found = c.found \union {"account"}, !.addr = a,
                             !.at = "survey"])
      BY <2>2 DEF Moved
    <3> QED
      BY <1>2, <1>6, <2>2, <3>1, <3>2 DEF Tally
  <2> QED
    BY <1>6, <2>1, <2>2 DEF Tally
<1>7. CASE Survey(p)
  <2>1. KeysFound(c.group) \in SUBSET Findings
    BY DEF KeysFound, Findings
  <2> QED
    BY <1>4, <1>7, <2>1 DEF Survey
<1>8. CASE Weigh(p)
  <2>1. CASE Refuse(p)
    BY <1>3, <1>8, <2>1, EndsKeeps DEF Weigh, Refuse
  <2>2. CASE Go(p, "label")
    BY <1>3, <1>8, <2>2, GoKeeps
      DEF Weigh, Steps, ImportSteps, DeriveSteps, Undoing
  <2> QED
    BY <1>8, <2>1, <2>2 DEF Weigh
<1>9. CASE PutLabel(p)
  <2>1. /\ named' \in SUBSET Ids
        /\ UNCHANGED <<record, rows, keys, stage, vaults>>
    BY <1>1, <1>9 DEF PutLabel, DiskOK
  <2>2. DiskOK'
    BY <1>1, <2>1 DEF DiskOK
  <2>3. Settled(p)
    BY <1>1, <1>9 DEF PutLabel, Settled, Typed, TypeOK
  <2> QED
    BY <1>9, <2>2, <2>3, EndsKeeps DEF PutLabel
<1> QED
  BY <1>5, <1>6, <1>7, <1>8, <1>9 DEF Label

LEMMA MishapsTyped ==
  ASSUME Typed, NEW p \in Procs, Fails(p) \/ Kill(p) \/ Answer(p)
  PROVE  Typed'
<1> DEFINE c == call[p]
<1>1. /\ c \in Call /\ Formed(c, phrase, given) /\ DiskOK /\ c.group \in Ids
      /\ unbooked \in SUBSET given /\ botched \in SUBSET Ids
      /\ free \in SUBSET Ids /\ renamed \in BOOLEAN
      /\ mishaps \in 0 .. MaxMishaps
      /\ c.at \in ImportSteps => c.op = "import" /\ c.index \in Indices
  BY CallFields DEF Typed, TypeOK, DiskOK, Formed
<1>2. Mishap => mishaps' \in 0 .. MaxMishaps
  BY <1>1, GroupsAssumption DEF Mishap
<1>3. Unbooks(c) => unbooked' \in SUBSET given
  BY <1>1 DEF Unbooks, Formed
<1>4. CASE ImportFails(p)
  <2>1. DiskOK' /\ Settled(p)
    BY <1>1, <1>2, <1>3, <1>4 DEF ImportFails, DiskOK, Settled
  <2> QED
    BY <1>4, <2>1, GoKeeps
      DEF ImportFails, Steps, ImportSteps, DeriveSteps, Undoing
<1>5. CASE CallFails(p)
  <2>1. DiskOK' /\ Settled(p)
    BY <1>1, <1>2, <1>3, <1>5 DEF CallFails, disk, DiskOK, Settled
  <2> QED
    BY <1>5, <2>1, EndsKeeps DEF CallFails, Refuse
<1>6. CASE Ignored(p)
  <2>1. DiskOK' /\ Settled(p)
    BY <1>1, <1>2, <1>6 DEF Ignored, disk, DiskOK, Settled
  <2>2. CASE \/ At(p, "drop") /\ Go(p, "persist")
             \/ At(p, "undo_key") /\ Go(p, "undo_stage")
             \/ At(p, "undo_stage") /\ Go(p, "undo_name")
             \/ At(p, "undo_name") /\ Go(p, "undo_record")
    BY <1>1, <2>1, <2>2, GoKeeps
      DEF At, Steps, ImportSteps, DeriveSteps, Undoing
  <2>3. CASE Ends(p, "ok") \/ Refuse(p)
    BY <2>1, <2>3, EndsKeeps DEF Refuse
  <2> QED
    BY <1>6, <2>2, <2>3 DEF Ignored
<1>7. CASE Kill(p)
  <2>1. DiskOK' /\ Settled(p)
    BY <1>1, <1>2, <1>3, <1>7 DEF Kill, disk, DiskOK, Settled
  <2> QED
    BY <1>7, <2>1, KillKeeps DEF Kill
<1>8. CASE Answer(p)
  <2>1. DiskOK' /\ Settled(p)
    BY <1>8, DiskStays DEF Answer
  <2> QED
    BY <1>8, <2>1, KillKeeps DEF Answer
<1> QED
  BY <1>4, <1>5, <1>6, <1>7, <1>8 DEF Fails

-----------------------------------------------------------------------------
(* The theorem. *)

LEMMA InitTyped == Init => Typed
<1> SUFFICES ASSUME Init PROVE Typed
  OBVIOUS
<1>1. TypeOK
  <2>1. renamed \in BOOLEAN
    BY Zenon DEF Init
  <2>2. DiskOK
    BY GroupsAssumption DEF Init, DiskOK
  <2>3. /\ call \in [Procs -> Call] /\ mishaps \in 0 .. MaxMishaps
        /\ phrase \in [Ids -> Phrases \union {Unminted}]
    BY IdleIsCall, GroupsAssumption DEF Init
  <2>4. /\ given \in SUBSET (Ids \X Indices) /\ unbooked \in SUBSET given
        /\ botched \in SUBSET Ids /\ free \in SUBSET Ids
    BY DEF Init
  <2> QED
    BY <2>1, <2>2, <2>3, <2>4 DEF TypeOK, DiskOK
<1>2. \A p \in Procs : Formed(call[p], phrase, given)
  BY IdleIsCall DEF Init
<1> QED
  BY <1>1, <1>2 DEF Typed

LEMMA NextTyped == Typed /\ [Next]_vars => Typed'
<1> SUFFICES ASSUME Typed, [Next]_vars PROVE Typed'
  OBVIOUS
<1>1. CASE UNCHANGED vars
  BY <1>1 DEF vars, disk, history, Typed, TypeOK, Formed
<1>2. ASSUME NEW p \in Procs, Begins(p) \/ Proceed(p) \/ Fails(p) \/ Kill(p)
      PROVE  Typed'
  BY <1>2, BeginsTyped, ImportTyped, DeriveTyped, AccountTyped, ForgetTyped,
     RemoveTyped, LabelTyped, MishapsTyped DEF Proceed
<1> QED
  BY <1>1, <1>2 DEF Next

\* TypeOK always holds: with any number of processes on one directory, kills
\* and failing calls, no record, row or call ever has an index that the path
\* format has no room for, and what is booked was given.
THEOREM TypeCorrect == Spec => []TypeOK
<1>1. Typed => TypeOK
  BY DEF Typed
<1> QED
  BY <1>1, InitTyped, NextTyped, PTL DEF Spec

-----------------------------------------------------------------------------
(* Any number of processes: where an account came from, and which index may *)
(* be handed out again.                                                     *)

\* An account's row says where it came from, whoever writes it and whatever
\* fails: its wallet derives exactly this address at its index, so that no two
\* accounts ever claim one index of one wallet (bind_account, persist_derived,
\* the walk of derive_next_account).
RowsTellTrue ==
  \A a \in Addresses : rows[a] \in Row =>
    /\ phrase[rows[a].group] # Unminted
    /\ a = <<phrase[rows[a].group], rows[a].index>>

Pair(c) == <<c.group, c.index>>

\* An account whose call has booked it.
Counted(pair) ==
  /\ pair \in given \ unbooked
  /\ \A p \in Procs : Booking(call[p]) => pair # Pair(call[p])

\* Between the look at the cache and the write of the account's vault.
Choosing == {"open", "start", "hold", "try", "passrow", "passbump", "persist"}

\* derive_next_account takes an index past everything that was booked when it
\* looked at its wallet.
LooksPast(p) ==
  At(p, "resolve") /\ call[p].op = "next" /\ call'[p].at = "open"
    => \A i \in Indices :
         Counted(<<call[p].group, i>>) => call'[p].index > i

\* And from there it only goes up.
GoesUp(p) ==
  call[p].op = "next" /\ call[p].at \in Choosing /\ call'[p].at \in Choosing
    => call'[p].index >= call[p].index

\* The next index of a wallet never falls, and a wallet with an account never
\* gets a second record to count from.
CacheKept(g) ==
  /\ record[g] # NoRecord =>
       record'[g] = NoRecord \/ record'[g].next >= record[g].next
  /\ record[g] = NoRecord /\ (\E i \in Indices : <<g, i>> \in given) =>
       record'[g] = NoRecord

\* With any number of processes, derive_next_account hands out the index of an
\* account again only where their calls overlap, or where the first ended before
\* its account was booked: a call that begins later never gets one that was
\* booked (next_index, bump_next_index, retire).
ReuseTakesOverlap ==
  [][/\ \A p \in Procs : LooksPast(p) /\ GoesUp(p)
     /\ \A g \in Ids : CacheKept(g)]_vars

\* A wallet nobody minted has no record and no account.
Unheard ==
  \A g \in Ids : phrase[g] = Unminted =>
    record[g] = NoRecord /\ \A i \in Indices : <<g, i>> \notin given

\* A booked account is behind the next index of its wallet.
Behind ==
  \A g \in Ids, i \in Indices :
    Counted(<<g, i>>) => record[g] = NoRecord \/ record[g].next > i

\* A call that knows nothing of its wallet, or has finished with it.
Still(c) ==
  c.op # "import" /\ (c.op \in {"next", "at"} => c.at \in {"resolve", "answer"})

\* The record of a new wallet is written before anyone can derive from it.
Fresh(p) ==
  At(p, "record") =>
    LET g == call[p].group
    IN  /\ record[g] = NoRecord
        /\ \A i \in Indices : <<g, i>> \notin given
        /\ \A q \in Procs \ {p} : call[q].group = g => Still(call[q])

\* The address of a call is the one its wallet derives at its index.
Accounting == {"passrow", "passbump", "persist", "row", "bump"}

Derived(c) == c.at \in ImportSteps \/ (Derives(c) /\ c.at \in Accounting)

Aimed(c) == Derived(c) => c.addr = <<phrase[c.group], c.index>>

Shared ==
  /\ Unheard /\ RowsTellTrue /\ Behind
  /\ \A p \in Procs : Fresh(p) /\ Aimed(call[p])

Kept == \A g \in Ids : CacheKept(g)

\* No record appears, and no next index falls.
RecordsKept ==
  \A g \in Ids :
    /\ record[g] = NoRecord => record'[g] = NoRecord
    /\ record'[g] # NoRecord => record'[g].next >= record[g].next

\* A call that only goes on keeps what it was given and found.
LEMMA GoIs ==
  ASSUME Typed, NEW p \in Procs, NEW step, Go(p, step)
  PROVE  /\ call'[p].at = step /\ call'[p].op = call[p].op
         /\ call'[p].group = call[p].group /\ call'[p].index = call[p].index
         /\ call'[p].addr = call[p].addr /\ call'[p].held = call[p].held
         /\ call'[p].found = call[p].found /\ call'[p].since = call[p].since
         /\ call'[p].verdict = call[p].verdict
         /\ call'[p].label = call[p].label
  BY DEF Go, Typed, TypeOK, Call

LEMMA EndsIs ==
  ASSUME Typed, NEW p \in Procs, NEW verdict, Ends(p, verdict)
  PROVE  /\ call'[p].at = "answer" /\ call'[p].op = call[p].op
         /\ call'[p].group = call[p].group /\ call'[p].since = call[p].since
         /\ call'[p].verdict = verdict
  BY DEF Ends, Typed, TypeOK, Call, IdleCall

\* What the types say of one call.
LEMMA Kinds ==
  ASSUME Typed, NEW p \in Procs
  PROVE  /\ call[p] \in Call /\ call \in [Procs -> Call]
         /\ Formed(call[p], phrase, given) /\ DiskOK
         /\ call[p].group \in Ids /\ call[p].addr \in Addresses
         /\ call[p].index \in 0 .. MaxIndex + 1 /\ call[p].index \in Int
         /\ call[p].at \in Steps /\ call[p].op \in Ops
  BY GroupsAssumption, CallFields DEF Typed, TypeOK, DiskOK

LEMMA NextIsInt ==
  ASSUME DiskOK, NEW g \in Ids, record[g] # NoRecord
  PROVE  record[g] \in Record /\ record[g].next \in Int
  BY GroupsAssumption DEF DiskOK, Record

\* An untouched record is kept.
LEMMA SameRecords ==
  ASSUME Typed, record' = record
  PROVE  RecordsKept
<1> SUFFICES ASSUME NEW g \in Ids, record[g] # NoRecord
             PROVE  record[g].next >= record[g].next
  BY DEF RecordsKept
<1>1. DiskOK
  BY DEF Typed, TypeOK, DiskOK
<1> QED
  BY <1>1, NextIsInt

\* So is one that only changes elsewhere, or upwards.
LEMMA RaisedRecords ==
  ASSUME Typed, NEW g \in Ids, NEW new, Rerecord(g, new),
         record[g] # NoRecord => new \in Record /\ new.next >= record[g].next
  PROVE  RecordsKept
<1>1. DiskOK
  BY DEF Typed, TypeOK, DiskOK
<1>2. /\ \A h \in Ids : record'[h] = NoRecord <=> record[h] = NoRecord
      /\ \A h \in Ids \ {g} : record'[h] = record[h]
      /\ record[g] # NoRecord => record'[g] = new
  BY <1>1, RerecordKeeps
<1> SUFFICES ASSUME NEW h \in Ids, record[h] # NoRecord
             PROVE  record'[h].next >= record[h].next
  BY <1>2 DEF RecordsKept
<1>3. CASE h = g
  BY <1>2, <1>3
<1>4. CASE h # g
  BY <1>1, <1>2, <1>4, NextIsInt
<1> QED
  BY <1>3, <1>4

\* And one that goes.
LEMMA GoneRecord ==
  ASSUME Typed, NEW g \in Ids, record' = [record EXCEPT ![g] = NoRecord]
  PROVE  RecordsKept
<1>1. DiskOK
  BY DEF Typed, TypeOK, DiskOK
<1> SUFFICES ASSUME NEW h \in Ids
             PROVE  /\ record[h] = NoRecord => record'[h] = NoRecord
                    /\ record'[h] # NoRecord => record'[h].next >= record[h].next
  BY DEF RecordsKept
<1>2. CASE h = g
  BY <1>1, <1>2 DEF DiskOK
<1>3. CASE h # g
  BY <1>1, <1>3, NextIsInt DEF DiskOK
<1> QED
  BY <1>2, <1>3

LEMMA SameRows ==
  ASSUME RowsTellTrue, rows' = rows, phrase' = phrase
  PROVE  RowsTellTrue'
  BY DEF RowsTellTrue

\* Where a step leaves what was booked: behind its next index, and with no call
\* of another process disturbed.
LEMMA StepShares ==
  ASSUME Typed, Shared, NEW p \in Procs, NEW d, Moved(p, d), Typed',
         phrase' = phrase, RowsTellTrue', RecordsKept,
         unbooked \subseteq unbooked',
         \/ given' = given
         \/ /\ given' = given \union {Pair(call[p])} /\ ~Still(call[p])
            /\ Booking(d) /\ Pair(d) = Pair(call[p]),
         Booking(call[p]) =>
           \/ Pair(call[p]) \in unbooked'
           \/ Booking(d) /\ Pair(d) = Pair(call[p])
           \/ record'[call[p].group] = NoRecord
           \/ record'[call[p].group].next > call[p].index,
         d.at # "record",
         \/ Still(d)
         \/ /\ d.group = call[p].group
            /\ ~Still(call[p]) \/ record[d.group] # NoRecord,
         Aimed(d)
  PROVE  Shared' /\ Kept
<1>1. /\ call'[p] = d /\ \A q \in Procs \ {p} : call'[q] = call[q]
      /\ DiskOK /\ DiskOK' /\ call[p].group \in Ids
  BY Kinds DEF Moved, Typed, TypeOK, DiskOK
<1>2. Unheard'
  <2> SUFFICES ASSUME NEW g \in Ids, phrase[g] = Unminted
               PROVE  record'[g] = NoRecord /\ \A i \in Indices : <<g, i>> \notin given'
    BY DEF Unheard
  <2>1. record[g] = NoRecord /\ \A i \in Indices : <<g, i>> \notin given
    BY DEF Shared, Unheard
  <2>2. ~Still(call[p]) => call[p].group # g
    <3>1. Derives(call[p]) => phrase[call[p].group] # Unminted
      BY Kinds DEF Formed
    <3> QED
      BY <3>1 DEF Still, Derives
  <2> QED
    BY <2>1, <2>2 DEF RecordsKept, Pair
<1>3. Behind'
  <2> SUFFICES ASSUME NEW g \in Ids, NEW i \in Indices,
                      Counted(<<g, i>>)', record'[g] # NoRecord
               PROVE  record'[g].next > i
    BY DEF Behind
  <2>1. /\ <<g, i>> \in given' \ unbooked'
        /\ \A q \in Procs : Booking(call'[q]) => <<g, i>> # Pair(call'[q])
    BY DEF Counted, Booking, Derives, Pair
  <2>2. <<g, i>> \in given \ unbooked
    BY <1>1, <2>1
  <2>3. CASE Booking(call[p]) /\ Pair(call[p]) = <<g, i>>
    <3>1. call[p].group = g /\ call[p].index = i
      BY <2>3 DEF Pair
    <3> QED
      BY <1>1, <2>1, <2>3, <3>1
  <2>4. CASE ~(Booking(call[p]) /\ Pair(call[p]) = <<g, i>>)
    <3>1. Counted(<<g, i>>)
      BY <1>1, <2>1, <2>2, <2>4 DEF Counted
    <3>2. record[g] # NoRecord /\ record'[g].next >= record[g].next
      BY DEF RecordsKept
    <3>3. record[g].next > i
      BY <3>1, <3>2 DEF Shared, Behind
    <3>4. record[g].next \in Int /\ record'[g].next \in Int /\ i \in Int
      <4>1. record'[g] \in Record
        BY <1>1 DEF DiskOK
      <4> QED
        BY <1>1, <3>2, <4>1, NextIsInt, GroupsAssumption DEF Record, Indices
    <3> QED
      BY <3>2, <3>3, <3>4
  <2> QED
    BY <2>3, <2>4
<1>4. ASSUME NEW q \in Procs
      PROVE  Fresh(q)'
  <2> SUFFICES ASSUME At(q, "record")'
               PROVE  /\ record'[call'[q].group] = NoRecord
                      /\ \A i \in Indices : <<call'[q].group, i>> \notin given'
                      /\ \A r \in Procs \ {q} :
                           call'[r].group = call'[q].group => Still(call'[r])
    BY DEF Fresh, Still
  <2>1. q # p /\ call'[q] = call[q] /\ At(q, "record") /\ call[q].group \in Ids
    BY <1>1, Kinds DEF At
  <2> DEFINE g == call[q].group
  <2>2. /\ record[g] = NoRecord /\ \A i \in Indices : <<g, i>> \notin given
        /\ \A r \in Procs \ {q} : call[r].group = g => Still(call[r])
    BY <2>1 DEF Shared, Fresh
  <2>3. record'[g] = NoRecord
    BY <2>1, <2>2 DEF RecordsKept
  <2>4. \A i \in Indices : <<g, i>> \notin given'
    BY <2>1, <2>2 DEF Pair
  <2>5. ASSUME NEW r \in Procs \ {q}, call'[r].group = g
        PROVE  Still(call'[r])
    <3>1. CASE r = p
      BY <1>1, <2>1, <2>2, <2>5, <3>1
    <3>2. CASE r # p
      BY <1>1, <2>2, <2>5, <3>2
    <3> QED
      BY <3>1, <3>2
  <2> QED
    BY <2>1, <2>3, <2>4, <2>5
<1>5. ASSUME NEW q \in Procs
      PROVE  Aimed(call[q])'
  <2>1. Aimed(call'[q])
    BY <1>1 DEF Shared
  <2> QED
    BY <2>1 DEF Aimed, Derived, Accounting, ImportSteps, Undoing
<1>6. Kept
  BY DEF RecordsKept, Kept, CacheKept
<1> QED
  BY <1>2, <1>3, <1>4, <1>5, <1>6 DEF Shared

\* A step that only moves its call on.
LEMMA GoShares ==
  ASSUME Typed, Shared, NEW p \in Procs, NEW step, Go(p, step), Typed',
         phrase' = phrase, given' = given, rows' = rows, RecordsKept,
         unbooked \subseteq unbooked', step # "record",
         call[p].at \notin {"idle", "answer", "resolve"},
         call[p].at \in {"row", "bump"} =>
           step \in {"row", "bump"} \/ Pair(call[p]) \in unbooked' \/ ~Derives(call[p]),
         step \in ImportSteps \union Accounting =>
           call[p].at \in ImportSteps \union Accounting
  PROVE  Shared' /\ Kept
<1> DEFINE d == [call[p] EXCEPT !.at = step]
<1>1. Moved(p, d)
  BY DEF Go, Moved
<1>2. /\ d.at = step /\ d.op = call[p].op /\ d.group = call[p].group
      /\ d.index = call[p].index /\ d.addr = call[p].addr
  BY Kinds DEF Call
<1> HIDE DEF d
<1>3. Booking(call[p]) =>
        Pair(call[p]) \in unbooked' \/ (Booking(d) /\ Pair(d) = Pair(call[p]))
  BY <1>2 DEF Booking, Derives, Pair
<1>4. Still(d) \/ (d.group = call[p].group /\ ~Still(call[p]))
  BY <1>2 DEF Still
<1>5. Aimed(d)
  <2>1. Aimed(call[p]) /\ call'[p] = d
    BY <1>1, Kinds DEF Shared, Moved
  <2>2. d.at \in ImportSteps => Derives(d)
    BY <2>1 DEF Typed, Formed, Derives
  <2>3. Derived(d) => Derived(call[p])
    BY <1>2, <2>2 DEF Derived, Accounting, ImportSteps, Undoing, Derives
  <2> QED
    BY <1>2, <2>1, <2>3 DEF Aimed
<1>6. RowsTellTrue'
  BY SameRows DEF Shared
<1> QED
  BY <1>1, <1>2, <1>3, <1>4, <1>5, <1>6, StepShares

\* A step that ends its call.
LEMMA EndsShares ==
  ASSUME Typed, Shared, NEW p \in Procs, NEW verdict, Ends(p, verdict), Typed',
         phrase' = phrase, given' = given, RowsTellTrue', RecordsKept,
         unbooked \subseteq unbooked',
         Booking(call[p]) =>
           \/ Pair(call[p]) \in unbooked'
           \/ record'[call[p].group] = NoRecord
           \/ record'[call[p].group].next > call[p].index
  PROVE  Shared' /\ Kept
<1>1. Moved(p, call'[p]) /\ call \in [Procs -> Call]
  BY Kinds DEF Ends, Moved
<1>2. /\ call'[p].at = "answer" /\ call'[p].op = call[p].op
      /\ call'[p].group = call[p].group
  BY EndsIs
<1>3. Still(call'[p]) \/ ~Still(call[p])
  BY <1>2 DEF Still
<1>4. Aimed(call'[p])
  BY <1>2 DEF Aimed, Derived, Accounting, ImportSteps, Undoing
<1> QED
  BY <1>1, <1>2, <1>3, <1>4, StepShares

\* A step after which its process is in no call.
LEMMA IdleShares ==
  ASSUME Typed, Shared, NEW p \in Procs, call' = [call EXCEPT ![p] = IdleCall],
         Typed', phrase' = phrase, given' = given, rows' = rows,
         record' = record, unbooked \subseteq unbooked',
         Booking(call[p]) => Pair(call[p]) \in unbooked'
  PROVE  Shared' /\ Kept
<1>1. Moved(p, IdleCall)
  BY DEF Moved
<1>2. IdleCall.at = "idle" /\ IdleCall.op = "none"
  BY DEF IdleCall
<1>3. Still(IdleCall) /\ Aimed(IdleCall)
  BY <1>2 DEF Still, Aimed, Derived, Accounting, ImportSteps, Undoing
<1>4. RecordsKept /\ RowsTellTrue'
  BY SameRecords, SameRows DEF Shared
<1> QED
  BY <1>1, <1>2, <1>3, <1>4, StepShares

\* A step of a call that derives nothing.
LEMMA OtherShares ==
  ASSUME Typed, Shared, NEW p \in Procs, NEW d, Moved(p, d), Typed',
         phrase' = phrase, given' = given, unbooked' = unbooked,
         RowsTellTrue', RecordsKept, d.at # "record", d.op = call[p].op,
         call[p].op \notin {"import", "next", "at"}
  PROVE  Shared' /\ Kept
<1>1. d.at \in ImportSteps => d.op = "import"
  BY Kinds DEF Moved, Typed, Formed
<1>2. Still(d) /\ Aimed(d) /\ ~Booking(call[p])
  BY <1>1 DEF Still, Aimed, Derived, Booking, Derives
<1> QED
  BY <1>2, StepShares

-----------------------------------------------------------------------------
(* The calls, where there are peers. *)

LEMMA BeginsShare ==
  ASSUME Typed, Shared, NEW p \in Procs, Begins(p), Typed'
  PROVE  Shared' /\ Kept
<1>1. /\ IdleCall.at = "idle" /\ IdleCall.op = "none" /\ IdleCall \in Call
  BY IdleIsCall
<1>2. ASSUME NEW c \in Call, Starts(p, c), UNCHANGED phrase, c.at # "record",
             Still(c), ~Derived(c)
      PROVE  Shared' /\ Kept
  <2> DEFINE d == [c EXCEPT !.since = mishaps]
  <2>1. d.at = c.at /\ d.op = c.op
    BY <1>2 DEF Call
  <2>2. /\ Moved(p, d) /\ ~Booking(call[p])
        /\ UNCHANGED <<record, rows, given, unbooked>>
    BY <1>2 DEF Starts, Moved, Booking, At, disk
  <2> HIDE DEF d
  <2>3. Still(d) /\ Aimed(d)
    BY <1>2, <2>1 DEF Still, Aimed, Derived, Derives
  <2>4. RecordsKept /\ RowsTellTrue'
    BY <1>2, <2>2, SameRecords, SameRows DEF Shared
  <2> QED
    BY <1>2, <2>1, <2>2, <2>3, <2>4, StepShares
<1>3. CASE BeginImport(p)
  <2>1. PICK g \in Ids, ph \in Phrases, i \in Indices,
             kept \in {"plain", "extkey"}, label \in Labels :
          /\ phrase[g] = Unminted
          /\ phrase' = [phrase EXCEPT ![g] = ph]
          /\ Starts(p, [IdleCall EXCEPT
               !.op = "import", !.at = "record", !.group = g, !.index = i,
               !.addr = <<ph, i>>, !.kept = kept, !.label = label])
    BY <1>3 DEF BeginImport
  <2>2. /\ call'[p].op = "import" /\ call'[p].at = "record"
        /\ call'[p].group = g /\ call'[p].index = i /\ call'[p].addr = <<ph, i>>
        /\ \A q \in Procs \ {p} : call'[q] = call[q]
        /\ UNCHANGED <<record, rows, given, unbooked>>
        /\ ~Booking(call[p]) /\ ~Booking(call'[p])
    BY <2>1, <1>1, Kinds DEF Starts, At, Booking, Call, disk
  <2>3. /\ phrase'[g] = ph /\ ph # Unminted
        /\ \A h \in Ids \ {g} : phrase'[h] = phrase[h]
    BY <2>1, GroupsAssumption DEF Typed, TypeOK
  <2>4. \A q \in Procs : Derives(call[q]) => call[q].group # g
    <3>1. \A q \in Procs : Formed(call[q], phrase, given)
      BY DEF Typed
    <3> QED
      BY <2>1, <3>1 DEF Formed
  <2>5. Unheard'
    BY <2>2, <2>3 DEF Shared, Unheard
  <2>6. RowsTellTrue'
    <3> SUFFICES ASSUME NEW a \in Addresses, rows[a] \in Row
                 PROVE  /\ phrase'[rows[a].group] # Unminted
                        /\ a = <<phrase'[rows[a].group], rows[a].index>>
      BY <2>2 DEF RowsTellTrue
    <3>1. rows[a].group \in Ids /\ phrase[rows[a].group] # Unminted
      BY DEF Shared, RowsTellTrue, Row
    <3> QED
      BY <2>1, <2>3, <3>1 DEF Shared, RowsTellTrue
  <2>7. Behind'
    <3>1. ASSUME NEW h \in Ids, NEW j \in Indices, Counted(<<h, j>>)'
          PROVE  Counted(<<h, j>>)
      <4>1. /\ <<h, j>> \in given \ unbooked
            /\ \A q \in Procs : Booking(call'[q]) => <<h, j>> # Pair(call'[q])
        BY <3>1, <2>2 DEF Counted, Booking, Derives, Pair
      <4> QED
        BY <4>1, <2>2 DEF Counted
    <3> QED
      BY <2>2, <3>1 DEF Shared, Behind
  <2>8. ASSUME NEW q \in Procs
        PROVE  Fresh(q)'
    <3> SUFFICES ASSUME At(q, "record")'
                 PROVE  /\ record'[call'[q].group] = NoRecord
                        /\ \A k \in Indices : <<call'[q].group, k>> \notin given'
                        /\ \A r \in Procs \ {q} :
                             call'[r].group = call'[q].group => Still(call'[r])
      BY DEF Fresh, Still
    <3>1. CASE q = p
      <4>1. record[g] = NoRecord /\ \A k \in Indices : <<g, k>> \notin given
        BY <2>1 DEF Shared, Unheard
      <4>2. \A r \in Procs : call[r].group = g => Still(call[r])
        BY <2>4 DEF Still, Derives
      <4> QED
        BY <2>2, <3>1, <4>1, <4>2
    <3>2. CASE q # p
      <4>1. At(q, "record") /\ call'[q] = call[q]
        BY <2>2, <3>2 DEF At
      <4>2. call[q].group # g
        BY <4>1, <2>4, Kinds DEF Formed, At, ImportSteps, Derives
      <4>3. /\ record[call[q].group] = NoRecord
            /\ \A k \in Indices : <<call[q].group, k>> \notin given
            /\ \A r \in Procs \ {q} :
                 call[r].group = call[q].group => Still(call[r])
        BY <4>1 DEF Shared, Fresh
      <4> QED
        BY <2>2, <4>1, <4>2, <4>3
    <3> QED
      BY <3>1, <3>2
  <2>9. ASSUME NEW q \in Procs
        PROVE  Aimed(call[q])'
    <3>1. CASE q = p
      BY <2>2, <2>3, <3>1 DEF Aimed
    <3>2. CASE q # p
      <4>1. call'[q] = call[q] /\ Aimed(call[q]) /\ call[q].group \in Ids
        BY <2>2, <3>2, Kinds DEF Shared
      <4>2. Derived(call[q]) => call[q].group # g
        BY <2>4, Kinds DEF Derived, Derives, Formed
      <4> QED
        BY <2>3, <4>1, <4>2 DEF Aimed, Derived, Accounting, ImportSteps, Undoing
    <3> QED
      BY <3>1, <3>2
  <2>10. Kept
    <3>1. RecordsKept
      BY <2>2, SameRecords
    <3> QED
      BY <3>1 DEF RecordsKept, Kept, CacheKept
  <2> QED
    BY <2>5, <2>6, <2>7, <2>8, <2>9, <2>10 DEF Shared
<1>4. CASE BeginDerive(p)
  <2>1. PICK g \in Ids, i \in Indices, op \in {"next", "at"} :
          /\ phrase[g] # Unminted
          /\ Starts(p, [IdleCall EXCEPT
               !.op = op, !.at = "resolve", !.group = g, !.index = i,
               !.addr = <<phrase[g], i>>])
          /\ UNCHANGED phrase
    BY <1>4 DEF BeginDerive
  <2> DEFINE c == [IdleCall EXCEPT
               !.op = op, !.at = "resolve", !.group = g, !.index = i,
               !.addr = <<phrase[g], i>>]
  <2>a. /\ <<phrase[g], i>> \in Addresses /\ i \in 0 .. MaxIndex + 1
        /\ op \in Ops /\ "resolve" \in Steps
    BY <2>1, GroupsAssumption DEF Ops, Steps, Addresses, Indices, Typed, TypeOK
  <2>2. c \in Call /\ c.at = "resolve" /\ c.op = op /\ Starts(p, c)
    BY <1>1, <2>1, <2>a DEF Call
  <2> HIDE DEF c
  <2>3. Still(c) /\ ~Derived(c)
    BY <2>2 DEF Still, Derived, Derives, Accounting, ImportSteps, Undoing
  <2> QED
    BY <1>2, <2>1, <2>2, <2>3
<1>5. CASE BeginAccount(p)
  <2>1. PICK a \in Addresses, op \in {"raw", "delete"} :
          /\ Starts(p, [IdleCall EXCEPT
               !.op = op, !.addr = a,
               !.at = IF op = "raw" THEN "persist" ELSE "unvault"])
          /\ UNCHANGED phrase
    BY <1>5 DEF BeginAccount
  <2> DEFINE c == [IdleCall EXCEPT
               !.op = op, !.addr = a,
               !.at = IF op = "raw" THEN "persist" ELSE "unvault"]
  <2>a. op \in Ops /\ "persist" \in Steps /\ "unvault" \in Steps
    BY DEF Ops, Steps
  <2>2. /\ c \in Call /\ c.at \in {"persist", "unvault"} /\ c.op = op
        /\ Starts(p, c)
    BY <1>1, <2>1, <2>a DEF Call
  <2> HIDE DEF c
  <2>3. Still(c) /\ ~Derived(c)
    BY <2>2 DEF Still, Derived, Derives, Accounting, ImportSteps, Undoing
  <2> QED
    BY <1>2, <2>1, <2>2, <2>3
<1>6. CASE BeginGroup(p)
  <2>1. PICK g \in Ids, op \in {"forget", "remove"} :
          /\ Starts(p, [IdleCall EXCEPT
               !.op = op, !.group = g,
               !.at = IF op = "forget" THEN "forget_key" ELSE "store"])
          /\ UNCHANGED phrase
    BY <1>6 DEF BeginGroup
  <2> DEFINE c == [IdleCall EXCEPT
               !.op = op, !.group = g,
               !.at = IF op = "forget" THEN "forget_key" ELSE "store"]
  <2>a. op \in Ops /\ "forget_key" \in Steps /\ "store" \in Steps
    BY DEF Ops, Steps
  <2>2. /\ c \in Call /\ c.at \in {"forget_key", "store"} /\ c.op = op
        /\ Starts(p, c)
    BY <1>1, <2>1, <2>a DEF Call
  <2> HIDE DEF c
  <2>3. Still(c) /\ ~Derived(c)
    BY <2>2 DEF Still, Derived, Derives, Accounting, ImportSteps, Undoing
  <2> QED
    BY <1>2, <2>1, <2>2, <2>3
<1>7. CASE BeginLabel(p)
  <2>1. PICK g \in Ids, label \in Labels \union {"blank"} :
          /\ Starts(p, [IdleCall EXCEPT
               !.op = "label", !.group = g, !.label = label, !.at = "recall"])
          /\ UNCHANGED phrase
    BY <1>7 DEF BeginLabel
  <2> DEFINE c == [IdleCall EXCEPT
               !.op = "label", !.group = g, !.label = label, !.at = "recall"]
  <2>a. "label" \in Ops /\ "recall" \in Steps /\ label \in {"name", "blank"}
    BY GroupsAssumption DEF Ops, Steps
  <2>2. c \in Call /\ c.at = "recall" /\ c.op = "label" /\ Starts(p, c)
    BY <1>1, <2>1, <2>a DEF Call
  <2> HIDE DEF c
  <2>3. Still(c) /\ ~Derived(c)
    BY <2>2 DEF Still, Derived, Derives, Accounting, ImportSteps, Undoing
  <2> QED
    BY <1>2, <2>1, <2>2, <2>3
<1> QED
  BY <1>3, <1>4, <1>5, <1>6, <1>7 DEF Begins

\* A new wallet's record: nothing was ever given of it.
LEMMA PutRecordShares ==
  ASSUME Typed, Shared, NEW p \in Procs, PutRecord(p), Typed'
  PROVE  Shared' /\ Kept
<1> DEFINE g == call[p].group
<1>1. /\ call'[p].at = "name" /\ call'[p].op = call[p].op /\ call'[p].group = g
      /\ call'[p].index = call[p].index /\ call'[p].addr = call[p].addr
      /\ \A q \in Procs \ {p} : call'[q] = call[q]
      /\ UNCHANGED <<rows, given, unbooked, phrase>>
  <2>1. Go(p, "name")
    BY DEF PutRecord
  <2> QED
    BY <2>1, GoIs, Kinds DEF PutRecord, Go, history
<1>2. /\ g \in Ids /\ DiskOK /\ call[p].op = "import" /\ call[p].at = "record"
      /\ phrase[g] # Unminted
  BY Kinds DEF PutRecord, At, Formed, ImportSteps, Derives
<1>3. /\ \A h \in Ids \ {g} : record'[h] = record[h]
  BY <1>2 DEF PutRecord, DiskOK
<1>4. /\ record[g] = NoRecord /\ \A i \in Indices : <<g, i>> \notin given
      /\ \A q \in Procs \ {p} : call[q].group = g => Still(call[q])
  BY <1>2 DEF Shared, Fresh, At
<1>5. Unheard'
  BY <1>1, <1>2, <1>3 DEF Shared, Unheard
<1>6. RowsTellTrue'
  BY <1>1, SameRows DEF Shared
<1>7. Behind'
  <2> SUFFICES ASSUME NEW h \in Ids, NEW i \in Indices, Counted(<<h, i>>)'
               PROVE  record'[h] = NoRecord \/ record'[h].next > i
    BY DEF Behind
  <2>1. /\ <<h, i>> \in given \ unbooked
        /\ \A q \in Procs : Booking(call'[q]) => <<h, i>> # Pair(call'[q])
    BY <1>1 DEF Counted, Booking, Derives, Pair
  <2>2. h # g
    BY <1>4, <2>1
  <2>3. Counted(<<h, i>>)
    BY <1>1, <1>2, <2>1 DEF Counted, Booking
  <2> QED
    BY <1>3, <2>2, <2>3 DEF Shared, Behind
<1>8. ASSUME NEW q \in Procs
      PROVE  Fresh(q)'
  <2> SUFFICES ASSUME At(q, "record")'
               PROVE  /\ record'[call'[q].group] = NoRecord
                      /\ \A k \in Indices : <<call'[q].group, k>> \notin given'
                      /\ \A r \in Procs \ {q} :
                           call'[r].group = call'[q].group => Still(call'[r])
    BY DEF Fresh, Still
  <2>1. q # p /\ call'[q] = call[q] /\ At(q, "record") /\ call[q].group \in Ids
    BY <1>1, Kinds DEF At
  <2>2. call[q].op = "import"
    BY <2>1, Kinds DEF Formed, ImportSteps, At
  <2>3. call[q].group # g
    BY <1>4, <2>1, <2>2 DEF Still
  <2>4. /\ record[call[q].group] = NoRecord
        /\ \A k \in Indices : <<call[q].group, k>> \notin given
        /\ \A r \in Procs \ {q} :
             call[r].group = call[q].group => Still(call[r])
    BY <2>1 DEF Shared, Fresh
  <2> QED
    BY <1>1, <1>3, <2>1, <2>3, <2>4
<1>9. ASSUME NEW q \in Procs
      PROVE  Aimed(call[q])'
  <2>1. Aimed(call[q]) /\ (q = p => Derived(call[q]))
    BY <1>2 DEF Shared, Derived, Accounting, ImportSteps, Undoing
  <2>2. call'[q].addr = call[q].addr /\ call'[q].group = call[q].group
        /\ call'[q].index = call[q].index
        /\ (q # p => call'[q] = call[q])
    BY <1>1
  <2> QED
    BY <1>1, <2>1, <2>2 DEF Aimed, Derived, Accounting, ImportSteps, Undoing
<1>10. Kept
  <2>1. ASSUME NEW h \in Ids \ {g}, record[h] # NoRecord
        PROVE  record'[h].next >= record[h].next
    BY <1>2, <1>3, <2>1, NextIsInt
  <2> QED
    BY <1>3, <1>4, <2>1 DEF Kept, CacheKept
<1> QED
  BY <1>5, <1>6, <1>7, <1>8, <1>9, <1>10 DEF Shared

LEMMA ImportShares ==
  ASSUME Typed, Shared, NEW p \in Procs, Import(p), Typed'
  PROVE  Shared' /\ Kept
<1>1. call[p].at \in ImportSteps => call[p].op = "import"
  BY Kinds DEF Formed
<1>2. CASE PutRecord(p)
  BY <1>2, PutRecordShares
<1>3. CASE PutName(p)
  <2>1. RecordsKept
    BY <1>3, SameRecords DEF PutName
  <2> QED
    BY <1>1, <1>3, <2>1, GoShares DEF PutName, At, history, ImportSteps
<1>4. ASSUME NEW from, NEW content, NEW to, StageMoves(p, from, content, to),
             from \in {"stage", "encrypt", "promote", "drop"},
             to \in {"encrypt", "promote", "drop", "persist"}
      PROVE  Shared' /\ Kept
  <2>1. RecordsKept
    BY <1>4, SameRecords DEF StageMoves
  <2> QED
    BY <1>1, <1>4, <2>1, GoShares DEF StageMoves, At, history, ImportSteps
<1>5. CASE PutStage(p) \/ Encrypt(p) \/ Promote(p) \/ DropStage(p)
  BY <1>4, <1>5 DEF PutStage, Encrypt, Promote, DropStage
<1>6. CASE UndoKey(p)
  <2>1. RecordsKept
    BY <1>6, SameRecords DEF UndoKey
  <2> QED
    BY <1>6, <2>1, GoShares
       DEF UndoKey, At, history, ImportSteps, Undoing, Accounting
<1>7. CASE UndoStage(p)
  <2>1. RecordsKept
    BY <1>7, SameRecords DEF UndoStage
  <2> QED
    BY <1>7, <2>1, GoShares
       DEF UndoStage, At, history, ImportSteps, Undoing, Accounting
<1>8. CASE UndoName(p)
  <2>1. RecordsKept
    BY <1>8, SameRecords DEF UndoName
  <2> QED
    BY <1>8, <2>1, GoShares
       DEF UndoName, At, history, ImportSteps, Undoing, Accounting
<1>9. CASE UndoRecord(p)
  <2>1. RecordsKept
    BY <1>9, GoneRecord, Kinds DEF UndoRecord
  <2>2. RowsTellTrue'
    BY <1>9, SameRows DEF UndoRecord, Shared
  <2> QED
    BY <1>9, <2>1, <2>2, EndsShares DEF UndoRecord, Refuse, At, Booking, history
<1> QED
  BY <1>2, <1>3, <1>5, <1>6, <1>7, <1>8, <1>9 DEF Import

\* A row that is written is the derived one.
LEMMA PutTellsTrue ==
  ASSUME Typed, RowsTellTrue, NEW p \in Procs, Aimed(call[p]), Derived(call[p]),
         NEW row, rows' = [rows EXCEPT ![call[p].addr] = row], phrase' = phrase,
         row = [group |-> call[p].group, index |-> call[p].index]
           \/ row = rows[call[p].addr]
  PROVE  RowsTellTrue'
<1>1. phrase[call[p].group] # Unminted
  BY Kinds DEF Derived, Accounting, ImportSteps, Undoing, Derives, Formed
<1>2. call[p].addr = <<phrase[call[p].group], call[p].index>>
  BY DEF Aimed
<1>3. \A a \in Addresses \ {call[p].addr} : rows'[a] = rows[a]
  BY Kinds DEF DiskOK
<1>4. rows'[call[p].addr] = row
  BY Kinds DEF DiskOK
<1> QED
  BY <1>1, <1>2, <1>3, <1>4 DEF RowsTellTrue

LEMMA DeriveShares ==
  ASSUME Typed, Shared, NEW p \in Procs, Derive(p), Typed'
  PROVE  Shared' /\ Kept
<1> DEFINE c == call[p]
<1>1. /\ c \in Call /\ DiskOK /\ c.group \in Ids /\ Aimed(c)
      /\ c.at \in DeriveSteps => c.op \in {"next", "at"}
  BY Kinds DEF Formed, Shared
<1>2. ASSUME Reads(p)
      PROVE  /\ phrase' = phrase /\ given' = given /\ rows' = rows
             /\ unbooked \subseteq unbooked' /\ RecordsKept /\ RowsTellTrue'
  BY <1>2, SameRecords, SameRows DEF Reads, disk, history, Shared
<1>3. ASSUME Reads(p), Refuse(p), ~Booking(c)
      PROVE  Shared' /\ Kept
  BY <1>2, <1>3, EndsShares DEF Refuse
<1>4. ASSUME NEW d, Moved(p, d), Reads(p), c.at \in DeriveSteps,
             d.at \in Choosing, d.group = c.group,
             c.at = "resolve" => record[c.group] # NoRecord,
             d.at \in {"passrow", "passbump", "persist"} =>
               d.addr = <<phrase[d.group], d.index>>,
             d.op = c.op
      PROVE  Shared' /\ Kept
  <2>1. Aimed(d)
    BY <1>1, <1>4
       DEF Aimed, Derived, Derives, ImportSteps, Undoing, Accounting, Choosing
  <2>2. ~Booking(c) /\ (~Still(c) \/ record[d.group] # NoRecord)
    BY <1>1, <1>4 DEF Booking, Still, DeriveSteps
  <2> QED
    BY <1>2, <1>4, <2>1, <2>2, StepShares DEF Choosing
<1>5. CASE Resolve(p)
  <2>1. Reads(p) /\ c.at = "resolve"
    BY <1>5 DEF Resolve, At
  <2>2. CASE Refuse(p)
    BY <1>3, <2>1, <2>2 DEF Booking
  <2>3. CASE ~Refuse(p)
    <3> DEFINE d == [c EXCEPT !.at = "open",
                       !.index = IF c.op = "next" THEN record[c.group].next ELSE @]
    <3>1. record[c.group] # NoRecord /\ Moved(p, d)
      <4>1. /\ record[c.group] # NoRecord
            /\ call' = [call EXCEPT ![p].at = "open",
                 ![p].index = IF c.op = "next" THEN record[c.group].next ELSE @]
        BY <1>5, <2>3 DEF Resolve
      <4> QED
        BY <4>1 DEF Moved
    <3>2. d.at = "open" /\ d.op = c.op /\ d.group = c.group
      BY <1>1 DEF Call
    <3> HIDE DEF d
    <3> QED
      BY <1>4, <2>1, <3>1, <3>2 DEF DeriveSteps, Choosing
  <2> QED
    BY <2>2, <2>3
<1>6. CASE Open(p)
  <2>1. Reads(p) /\ c.at = "open"
    BY <1>6 DEF Open, At
  <2>2. CASE Refuse(p)
    BY <1>3, <2>1, <2>2 DEF Booking
  <2>3. ASSUME NEW step \in {"start", "hold"}, Go(p, step)
        PROVE  Shared' /\ Kept
    BY <1>2, <2>1, <2>3, GoShares DEF ImportSteps, Undoing, Accounting
  <2> QED
    BY <1>6, <2>2, <2>3 DEF Open
<1>7. CASE Start(p)
  <2>1. PICK start : call' = [call EXCEPT ![p].index = start, ![p].at = "hold"]
    BY <1>7 DEF Start
  <2> DEFINE d == [c EXCEPT !.index = start, !.at = "hold"]
  <2>2. Moved(p, d)
    BY <2>1 DEF Moved
  <2>3. d.at = "hold" /\ d.op = c.op /\ d.group = c.group
    BY <1>1 DEF Call
  <2> HIDE DEF d
  <2> QED
    BY <1>4, <1>7, <2>2, <2>3 DEF Start, At, DeriveSteps, Choosing
<1>8. CASE Hold(p)
  <2> DEFINE d == [c EXCEPT !.held = vaults, !.at = "try"]
  <2>2. Moved(p, d)
    BY <1>8 DEF Moved, Hold
  <2>3. d.at = "try" /\ d.op = c.op /\ d.group = c.group
    BY <1>1 DEF Call
  <2> HIDE DEF d
  <2> QED
    BY <1>4, <1>8, <2>2, <2>3 DEF Hold, At, DeriveSteps, Choosing
<1>9. CASE Try(p)
  <2>1. Reads(p) /\ c.at = "try"
    BY <1>9 DEF Try, At
  <2>2. CASE Refuse(p)
    BY <1>3, <2>1, <2>2 DEF Booking
  <2>3. CASE ~Refuse(p)
    <3>1. PICK step \in {"passrow", "persist"} :
            call' = [call EXCEPT ![p].addr = <<phrase[c.group], c.index>>,
                                 ![p].at = step]
      BY <1>9, <2>3 DEF Try
    <3> DEFINE d == [c EXCEPT !.addr = <<phrase[c.group], c.index>>, !.at = step]
    <3>2. Moved(p, d)
      BY <3>1 DEF Moved
    <3>3. /\ d.at = step /\ d.op = c.op /\ d.group = c.group
          /\ d.addr = <<phrase[c.group], c.index>> /\ d.index = c.index
      BY <1>1 DEF Call
    <3> HIDE DEF d
    <3> QED
      BY <1>4, <2>1, <3>1, <3>2, <3>3 DEF DeriveSteps, Choosing
  <2> QED
    BY <2>2, <2>3
<1>10. CASE PassRow(p)
  <2>1. c.at = "passrow" /\ c.op \in {"next", "at"} /\ Go(p, "passbump")
    BY <1>1, <1>10 DEF PassRow, At, DeriveSteps
  <2> DEFINE d == [c EXCEPT !.at = "passbump"]
  <2>2. Moved(p, d)
    BY <2>1 DEF Go, Moved
  <2>3. /\ d.at = "passbump" /\ d.op = c.op /\ d.group = c.group
        /\ d.addr = c.addr /\ d.index = c.index
    BY <1>1 DEF Call
  <2> HIDE DEF d
  <2>4. Derived(c) /\ Aimed(d) /\ ~Still(c) /\ ~Booking(c)
    BY <1>1, <2>1, <2>3
      
          DEF Aimed, Derived, Derives, Accounting, ImportSteps, Undoing, Still,
              Booking
  <2>5. RowsTellTrue' /\ RecordsKept
    BY <1>1, <1>10, <2>4, PutTellsTrue, SameRecords DEF PassRow, Shared
  <2> QED
    BY <1>10, <2>2, <2>3, <2>4, <2>5, StepShares DEF PassRow, history
<1>11. CASE PassBump(p)
  <2>1. c.at = "passbump" /\ c.op \in {"next", "at"} /\ c.index \in Indices
    BY <1>1, <1>11, Kinds DEF PassBump, At, DeriveSteps, Formed
  <2> DEFINE d == [c EXCEPT !.index = @ + 1, !.walked = @ + 1, !.at = "try"]
  <2>2. Moved(p, d)
    BY <1>11 DEF PassBump, Moved
  <2>3. d.at = "try" /\ d.op = c.op /\ d.group = c.group
    BY <1>1 DEF Call
  <2> HIDE DEF d
  <2>4. Aimed(d) /\ ~Still(c) /\ ~Booking(c)
    BY <2>1, <2>3
       DEF Aimed, Derived, Accounting, ImportSteps, Undoing, Still, Booking
  <2>5. RowsTellTrue'
    BY <1>11, SameRows DEF PassBump, Shared
  <2>6. RecordsKept
    <3>1. record[c.group] # NoRecord =>
            /\ Covering(record[c.group], c.index) \in Record
            /\ Covering(record[c.group], c.index).next >= record[c.group].next
      BY <1>1, <2>1, NextIsInt, CoveringIsRecord
    <3> QED
      BY <1>1, <1>11, <3>1, RaisedRecords DEF PassBump
  <2> QED
    BY <1>11, <2>2, <2>3, <2>4, <2>5, <2>6, StepShares DEF PassBump, history
<1> QED
  BY <1>5, <1>6, <1>7, <1>8, <1>9, <1>10, <1>11 DEF Derive

LEMMA AccountShares ==
  ASSUME Typed, Shared, NEW p \in Procs, Account(p), Typed'
  PROVE  Shared' /\ Kept
<1> DEFINE c == call[p]
<1>1. /\ c \in Call /\ DiskOK /\ c.group \in Ids /\ Aimed(c)
      /\ Formed(c, phrase, given) /\ c.addr \in Addresses
  BY Kinds DEF Shared
<1>2. CASE Persist(p)
  <2> DEFINE d == [c EXCEPT !.at = "row"]
  <2>1. Moved(p, d) /\ c.at = "persist"
    BY <1>2 DEF Persist, Go, Moved, At
  <2>2. /\ d.at = "row" /\ d.op = c.op /\ d.group = c.group
        /\ d.addr = c.addr /\ d.index = c.index
    BY <1>1 DEF Call
  <2> HIDE DEF d
  <2>3. RowsTellTrue' /\ RecordsKept
    BY <1>2, SameRows, SameRecords DEF Persist, Shared
  <2>4. Aimed(d) /\ ~Booking(c)
    BY <1>1, <2>1, <2>2
       DEF Aimed, Derived, Derives, Accounting, ImportSteps, Undoing, Booking
  <2>5. CASE Derives(c)
    <3>1. ~Still(c) /\ Booking(d) /\ Pair(d) = Pair(c)
      BY <2>1, <2>2, <2>5 DEF Still, Booking, Derives, Pair
    <3>2. given' = given \union {Pair(c)}
      BY <1>2, <2>5 DEF Persist, Pair
    <3> QED
      BY <1>2, <2>1, <2>2, <2>3, <2>4, <3>1, <3>2, StepShares DEF Persist
  <2>6. CASE ~Derives(c)
    <3>1. Still(d)
      BY <2>2, <2>6 DEF Still, Derives
    <3>2. given' = given
      BY <1>2, <2>6 DEF Persist
    <3> QED
      BY <1>2, <2>1, <2>2, <2>3, <2>4, <3>1, <3>2, StepShares DEF Persist
  <2> QED
    BY <2>5, <2>6
<1>3. CASE PutRow(p)
  <2>1. c.at = "row" /\ RecordsKept
    BY <1>3, SameRecords DEF PutRow, At
  <2>2. CASE Derives(c)
    <3> DEFINE d == [c EXCEPT !.at = "bump"]
    <3>1. Moved(p, d)
      BY <1>3, <2>2 DEF PutRow, Go, Moved
    <3>2. /\ d.at = "bump" /\ d.op = c.op /\ d.group = c.group
          /\ d.addr = c.addr /\ d.index = c.index
      BY <1>1 DEF Call
    <3> HIDE DEF d
    <3>3. /\ Derived(c) /\ Aimed(d) /\ ~Still(c)
          /\ Booking(d) /\ Pair(d) = Pair(c)
      BY <1>1, <2>1, <2>2, <3>2
         DEF Aimed, Derived, Accounting, ImportSteps, Undoing, Derives, Still,
             Booking, Pair
    <3>4. RowsTellTrue'
      BY <1>1, <1>3, <2>2, <3>3, PutTellsTrue DEF PutRow, Shared
    <3> QED
      BY <1>3, <2>1, <3>1, <3>2, <3>3, <3>4, StepShares DEF PutRow, history
  <2>3. CASE ~Derives(c)
    <3>1. Ends(p, "ok") /\ ~Booking(c)
      BY <1>3, <2>3 DEF PutRow, Booking
    <3>2. RowsTellTrue'
      <4>1. rows' = [rows EXCEPT ![c.addr] = Ungrouped] /\ phrase' = phrase
        BY <1>3, <2>3 DEF PutRow
      <4> QED
        BY <1>1, <4>1, GroupsAssumption DEF RowsTellTrue, Shared, DiskOK
    <3> QED
      BY <1>3, <2>1, <3>1, <3>2, EndsShares DEF PutRow, history
  <2> QED
    BY <2>2, <2>3
<1>4. CASE Bump(p)
  <2>1. c.at = "bump" /\ c.index \in Indices
    BY <1>1, <1>4 DEF Bump, At, Formed
  <2>2. record[c.group] # NoRecord =>
          /\ Covering(record[c.group], c.index) \in Record
          /\ Covering(record[c.group], c.index).next >= record[c.group].next
          /\ Covering(record[c.group], c.index).next > c.index
    BY <1>1, <2>1, NextIsInt, CoveringIsRecord
  <2>3. RecordsKept
    BY <1>1, <1>4, <2>2, RaisedRecords DEF Bump
  <2>4. record'[c.group] = NoRecord \/ record'[c.group].next > c.index
    BY <1>1, <1>4, <2>2, RerecordKeeps DEF Bump
  <2>5. RowsTellTrue'
    BY <1>4, SameRows DEF Bump, Shared
  <2> QED
    BY <1>4, <2>3, <2>4, <2>5, EndsShares DEF Bump, history
<1>5. CASE Unvault(p)
  <2>1. c.at = "unvault" /\ RecordsKept /\ RowsTellTrue'
    BY <1>5, SameRecords, SameRows DEF Unvault, At, Shared
  <2>2. CASE Refuse(p)
    BY <1>5, <2>1, <2>2, EndsShares DEF Unvault, Refuse, Booking, history
  <2>3. CASE Go(p, "unrow")
    BY <1>5, <2>1, <2>3, GoShares
       DEF Unvault, history, ImportSteps, Undoing, Accounting
  <2> QED
    BY <1>5, <2>2, <2>3 DEF Unvault
<1>6. CASE Unrow(p)
  <2>1. /\ c.at = "unrow" /\ c.op = "delete" /\ RecordsKept
    BY <1>1, <1>6, SameRecords DEF Unrow, At, Formed
  <2>2. RowsTellTrue'
    <3>1. rows' = [rows EXCEPT ![c.addr] = NoRow] /\ phrase' = phrase
      BY <1>6 DEF Unrow
    <3> QED
      BY <1>1, <3>1, GroupsAssumption DEF RowsTellTrue, Shared, DiskOK
  <2>3. CASE Ends(p, "ok")
    BY <1>6, <2>1, <2>2, <2>3, EndsShares DEF Unrow, Booking, history
  <2>4. CASE ~Ends(p, "ok")
    <3> DEFINE d == [c EXCEPT !.group = rows[c.addr].group,
                              !.index = rows[c.addr].index, !.at = "retire"]
    <3>1. Moved(p, d)
      BY <1>6, <2>4 DEF Unrow, Moved
    <3>2. d.at = "retire" /\ d.op = c.op
      BY <1>1 DEF Call
    <3> HIDE DEF d
    <3> QED
      BY <1>6, <2>1, <2>2, <3>1, <3>2, OtherShares DEF Unrow, history
  <2> QED
    BY <2>3, <2>4
<1>7. CASE Retire(p)
  <2>1. c.at = "retire" /\ c.index \in Indices
    BY <1>1, <1>7 DEF Retire, At, Formed
  <2> DEFINE new == [Covering(record[c.group], c.index)
                       EXCEPT !.retired = @ \union {c.index}]
  <2>2. record[c.group] # NoRecord =>
          new \in Record /\ new.next >= record[c.group].next
    <3>1. record[c.group] # NoRecord =>
            /\ Covering(record[c.group], c.index) \in Record
            /\ Covering(record[c.group], c.index).next >= record[c.group].next
      BY <1>1, <2>1, NextIsInt, CoveringIsRecord
    <3> QED
      BY <2>1, <3>1 DEF Record
  <2>3. RecordsKept
    BY <1>1, <1>7, <2>2, RaisedRecords DEF Retire
  <2>4. RowsTellTrue'
    BY <1>7, SameRows DEF Retire, Shared
  <2> QED
    BY <1>7, <2>1, <2>3, <2>4, EndsShares DEF Retire, Booking, history
<1> QED
  BY <1>2, <1>3, <1>4, <1>5, <1>6, <1>7 DEF Account

LEMMA ForgetShares ==
  ASSUME Typed, Shared, NEW p \in Procs, Forget(p), Typed'
  PROVE  Shared' /\ Kept
<1> DEFINE c == call[p]
<1>1. c \in Call /\ DiskOK /\ c.group \in Ids /\ Aimed(c)
  BY Kinds DEF Shared
<1>2. CASE ForgetKey(p)
  <2>1. PICK new : call' = [call EXCEPT ![p].found = new, ![p].at = "forget_stage"]
    BY <1>2 DEF ForgetKey
  <2> DEFINE d == [c EXCEPT !.found = new, !.at = "forget_stage"]
  <2>2. Moved(p, d)
    BY <2>1 DEF Moved
  <2>3. /\ d.at = "forget_stage" /\ d.op = c.op /\ d.group = c.group
        /\ d.index = c.index /\ d.addr = c.addr
    BY <1>1 DEF Call
  <2> HIDE DEF d
  <2>4. RecordsKept /\ RowsTellTrue' /\ c.at = "forget_key"
    BY <1>2, SameRecords, SameRows DEF ForgetKey, Shared, At
  <2>5. /\ ~Booking(c) /\ Aimed(d)
        /\ Still(d) \/ (d.group = c.group /\ ~Still(c))
    BY <1>1, <2>3, <2>4
       DEF Booking, Still, Aimed, Derived, Accounting, ImportSteps, Undoing
  <2> QED
    BY <1>2, <2>2, <2>3, <2>4, <2>5, StepShares DEF ForgetKey, history
<1>3. CASE ForgetStage(p)
  <2>1. RecordsKept /\ RowsTellTrue' /\ c.at = "forget_stage"
    BY <1>3, SameRecords, SameRows DEF ForgetStage, Shared, At
  <2>2. CASE Refuse(p)
    BY <1>3, <2>1, <2>2, EndsShares DEF ForgetStage, Refuse, Booking, history
  <2>3. CASE Go(p, "downgrade")
    BY <1>3, <2>1, <2>3, GoShares
       DEF ForgetStage, history, ImportSteps, Undoing, Accounting
  <2> QED
    BY <1>3, <2>2, <2>3 DEF ForgetStage
<1>4. CASE Downgrade(p)
  <2> DEFINE new == [record[c.group] EXCEPT !.storage = "plain"]
  <2>1. record[c.group] # NoRecord =>
          new \in Record /\ new.next >= record[c.group].next
    BY <1>1, NextIsInt DEF Record
  <2>2. RecordsKept /\ RowsTellTrue' /\ c.at = "downgrade"
    BY <1>1, <1>4, <2>1, RaisedRecords, SameRows DEF Downgrade, Shared, At
  <2> QED
    BY <1>4, <2>2, EndsShares DEF Downgrade, Booking, history
<1> QED
  BY <1>2, <1>3, <1>4 DEF Forget

\* The steps of a removal and of a naming: all but the last of them read.
LEMMA LookShares ==
  ASSUME Typed, Shared, NEW p \in Procs, Typed', Reads(p),
         call[p].at \notin {"idle", "answer", "resolve", "row", "bump"}
  PROVE  /\ \A verdict : Ends(p, verdict) => Shared' /\ Kept
         /\ \A d : /\ Moved(p, d) /\ d.op = call[p].op
                   /\ d.group = call[p].group
                   /\ d.at \in {"accounts", "recorded", "naming", "unrecord",
                                "unname", "tally", "survey", "weigh", "label"}
                   => Shared' /\ Kept
<1>1. /\ phrase' = phrase /\ given' = given /\ rows' = rows
      /\ unbooked' = unbooked /\ RecordsKept /\ RowsTellTrue'
  BY SameRecords, SameRows DEF Reads, disk, history, Shared
<1>2. \A verdict : Ends(p, verdict) => Shared' /\ Kept
  BY <1>1, EndsShares DEF Booking
<1>3. ASSUME NEW d, Moved(p, d), d.op = call[p].op, d.group = call[p].group,
             d.at \in {"accounts", "recorded", "naming", "unrecord", "unname",
                       "tally", "survey", "weigh", "label"}
      PROVE  Shared' /\ Kept
  <2>1. Still(d) \/ (d.group = call[p].group /\ ~Still(call[p]))
    BY <1>3 DEF Still
  <2>2. Aimed(d) /\ ~Booking(call[p])
    BY <1>3 DEF Aimed, Derived, Accounting, ImportSteps, Undoing, Booking
  <2> QED
    BY <1>1, <1>3, <2>1, <2>2, StepShares
<1> QED
  BY <1>2, <1>3

LEMMA RemoveShares ==
  ASSUME Typed, Shared, NEW p \in Procs, Remove(p), Typed'
  PROVE  Shared' /\ Kept
<1> DEFINE c == call[p]
<1>1. c \in Call /\ c.group \in Ids
  BY Kinds
<1>2. ASSUME NEW step, Go(p, step)
      PROVE  /\ Moved(p, [c EXCEPT !.at = step])
             /\ [c EXCEPT !.at = step].at = step
             /\ [c EXCEPT !.at = step].op = c.op
             /\ [c EXCEPT !.at = step].group = c.group
  BY <1>1, <1>2 DEF Go, Moved, Call
<1>3. CASE LookAtStore(p)
  BY <1>2, <1>3, LookShares DEF LookAtStore, At, Refuse
<1>4. CASE LookAtAccounts(p)
  BY <1>2, <1>4, LookShares DEF LookAtAccounts, At, Refuse
<1>5. ASSUME NEW new, NEW step \in {"naming", "unrecord", "unname"},
             call' = [call EXCEPT ![p].found = new, ![p].at = step],
             Reads(p), c.at \in {"recorded", "naming"}
      PROVE  Shared' /\ Kept
  <2> DEFINE d == [c EXCEPT !.found = new, !.at = step]
  <2>1. Moved(p, d)
    BY <1>5 DEF Moved
  <2>2. d.at = step /\ d.op = c.op /\ d.group = c.group
    BY <1>1 DEF Call
  <2> HIDE DEF d
  <2> QED
    BY <1>5, <2>1, <2>2, LookShares
<1>6. CASE LookAtRecord(p)
  BY <1>5, <1>6 DEF LookAtRecord, At
<1>7. CASE LookAtName(p)
  <2>1. CASE Refuse(p)
    BY <1>7, <2>1, LookShares DEF LookAtName, At, Refuse
  <2>2. CASE ~Refuse(p)
    BY <1>5, <1>7, <2>2 DEF LookAtName, At
  <2> QED
    BY <2>1, <2>2
<1>8. CASE Unrecord(p)
  <2>1. RecordsKept /\ RowsTellTrue' /\ c.at = "unrecord"
    BY <1>1, <1>8, GoneRecord, SameRows DEF Unrecord, Shared, At
  <2>2. CASE Ends(p, "ok")
    BY <1>8, <2>1, <2>2, EndsShares DEF Unrecord, Booking, history
  <2>3. CASE Go(p, "unname")
    BY <1>8, <2>1, <2>3, GoShares
       DEF Unrecord, history, ImportSteps, Undoing, Accounting
  <2> QED
    BY <1>8, <2>2, <2>3 DEF Unrecord
<1>9. CASE Unname(p)
  <2>1. RecordsKept /\ RowsTellTrue' /\ c.at = "unname"
    BY <1>9, SameRecords, SameRows DEF Unname, Shared, At
  <2> QED
    BY <1>9, <2>1, EndsShares DEF Unname, Booking, history
<1> QED
  BY <1>3, <1>4, <1>6, <1>7, <1>8, <1>9 DEF Remove

LEMMA LabelShares ==
  ASSUME Typed, Shared, NEW p \in Procs, Label(p), Typed'
  PROVE  Shared' /\ Kept
<1> DEFINE c == call[p]
<1>1. c \in Call /\ c.group \in Ids
  BY Kinds
<1>2. ASSUME NEW d, Moved(p, d), Reads(p), d.op = c.op, d.group = c.group,
             c.at \in {"recall", "tally", "survey", "weigh"},
             d.at \in {"tally", "survey", "weigh", "label"}
      PROVE  Shared' /\ Kept
  BY <1>2, LookShares
<1>3. ASSUME NEW from \in {"recall", "survey"}, NEW new,
             NEW to \in {"tally", "weigh"}, Finds(p, from, new, to)
      PROVE  Shared' /\ Kept
  <2> DEFINE d == [c EXCEPT !.found = @ \union new, !.at = to]
  <2>1. Moved(p, d)
    BY <1>3 DEF Finds, Moved
  <2>2. d.at = to /\ d.op = c.op /\ d.group = c.group
    BY <1>1 DEF Call
  <2> HIDE DEF d
  <2> QED
    BY <1>2, <1>3, <2>1, <2>2 DEF Finds, At
<1>4. ASSUME NEW step \in {"survey", "label"}, Go(p, step), Reads(p),
             c.at \in {"tally", "weigh"}
      PROVE  Shared' /\ Kept
  <2> DEFINE d == [c EXCEPT !.at = step]
  <2>1. Moved(p, d)
    BY <1>4 DEF Go, Moved
  <2>2. d.at = step /\ d.op = c.op /\ d.group = c.group
    BY <1>1 DEF Call
  <2> HIDE DEF d
  <2> QED
    BY <1>2, <1>4, <2>1, <2>2
<1>5. CASE Recall(p) \/ Survey(p)
  BY <1>3, <1>5 DEF Recall, Survey
<1>6. CASE Tally(p)
  <2>1. Reads(p) /\ c.at = "tally"
    BY <1>6 DEF Tally, At
  <2>2. CASE Go(p, "survey")
    BY <1>4, <2>1, <2>2
  <2>3. ASSUME NEW a,
               call' = [call EXCEPT ![p].found = @ \union {"account"},
                                    ![p].addr = a, ![p].at = "survey"]
        PROVE  Shared' /\ Kept
    <3> DEFINE d == [c EXCEPT !.found = @ \union {"account"}, !.addr = a,
                              !.at = "survey"]
    <3>1. Moved(p, d)
      BY <2>3 DEF Moved
    <3>2. d.at = "survey" /\ d.op = c.op /\ d.group = c.group
      BY <1>1 DEF Call
    <3> HIDE DEF d
    <3> QED
      BY <1>2, <2>1, <3>1, <3>2
  <2> QED
    BY <1>6, <2>2, <2>3 DEF Tally
<1>7. CASE Weigh(p)
  <2>1. Reads(p) /\ c.at = "weigh"
    BY <1>7 DEF Weigh, At
  <2>2. CASE Refuse(p)
    BY <2>1, <2>2, LookShares DEF Refuse
  <2> QED
    BY <1>4, <1>7, <2>1, <2>2 DEF Weigh
<1>8. CASE PutLabel(p)
  <2>1. RecordsKept /\ RowsTellTrue' /\ c.at = "label"
    BY <1>8, SameRecords, SameRows DEF PutLabel, Shared, At
  <2> QED
    BY <1>8, <2>1, EndsShares DEF PutLabel, Booking
<1> QED
  BY <1>5, <1>6, <1>7, <1>8 DEF Label

LEMMA MishapsShare ==
  ASSUME Typed, Shared, NEW p \in Procs, Fails(p) \/ Kill(p) \/ Answer(p),
         Typed'
  PROVE  Shared' /\ Kept
<1> DEFINE c == call[p]
<1>1. /\ c.at \in ImportSteps => c.op = "import"
  BY Kinds DEF Formed
<1>2. Unbooks(c) => /\ unbooked \subseteq unbooked'
                    /\ Booking(c) => Pair(c) \in unbooked'
  BY DEF Unbooks, Pair
<1>3. CASE ImportFails(p)
  <2>1. RecordsKept
    BY <1>3, SameRecords DEF ImportFails
  <2>2. c.at \in {"row", "bump"} => Booking(c)
    BY <1>3 DEF ImportFails, Booking, Derives
  <2> QED
    BY <1>2, <1>3, <2>1, <2>2, GoShares
       DEF ImportFails, Importing, ImportSteps, Undoing, Accounting
<1>4. CASE CallFails(p)
  <2>1. RecordsKept /\ RowsTellTrue'
    BY <1>4, SameRecords, SameRows DEF CallFails, disk, Shared
  <2> QED
    BY <1>2, <1>4, <2>1, EndsShares DEF CallFails, Refuse, disk
<1>5. CASE Ignored(p)
  <2>1. /\ RecordsKept /\ RowsTellTrue'
        /\ UNCHANGED <<rows, phrase, given, unbooked>>
    BY <1>5, SameRecords, SameRows DEF Ignored, disk, Shared
  <2>2. CASE \/ At(p, "drop") /\ Go(p, "persist")
             \/ At(p, "undo_key") /\ Go(p, "undo_stage")
             \/ At(p, "undo_stage") /\ Go(p, "undo_name")
             \/ At(p, "undo_name") /\ Go(p, "undo_record")
    BY <2>1, <2>2, GoShares DEF At, ImportSteps, Undoing, Accounting
  <2>3. CASE \/ At(p, "downgrade") /\ Ends(p, "ok")
             \/ At(p, "undo_record") /\ Refuse(p)
    BY <2>1, <2>3, EndsShares DEF At, Refuse, Booking
  <2> QED
    BY <1>5, <2>2, <2>3 DEF Ignored
<1>6. CASE Kill(p)
  BY <1>2, <1>6, IdleShares DEF Kill, disk
<1>7. CASE Answer(p)
  BY <1>7, IdleShares DEF Answer, disk, history, At, Booking
<1> QED
  BY <1>3, <1>4, <1>5, <1>6, <1>7 DEF Fails

-----------------------------------------------------------------------------
(* The theorems about peers. *)

LEMMA InitShares == Init => Shared
<1> SUFFICES ASSUME Init PROVE Shared
  OBVIOUS
<1>1. IdleCall.at = "idle" /\ IdleCall.op = "none"
  BY DEF IdleCall
<1>2. \A p \in Procs : call[p] = IdleCall
  BY DEF Init
<1>3. \A a \in Addresses : rows[a] \notin Row
  BY GroupsAssumption DEF Init
<1>4. Unheard /\ RowsTellTrue /\ Behind
  BY <1>3 DEF Init, Unheard, RowsTellTrue, Behind, Counted
<1>5. \A p \in Procs : Fresh(p) /\ Aimed(call[p])
  BY <1>1, <1>2
     DEF Fresh, At, Aimed, Derived, Accounting, ImportSteps, Undoing
<1> QED
  BY <1>4, <1>5 DEF Shared

LEMMA NextShares == Typed /\ Shared /\ [Next]_vars => Shared' /\ Kept
<1> SUFFICES ASSUME Typed, Shared, [Next]_vars PROVE Shared' /\ Kept
  OBVIOUS
<1>1. CASE UNCHANGED vars
  <2>1. /\ UNCHANGED <<record, rows, phrase, call, given, unbooked>>
        /\ RecordsKept /\ RowsTellTrue'
    BY <1>1, SameRecords, SameRows DEF vars, disk, history, Shared
  <2>2. Unheard' /\ Kept
    BY <2>1 DEF Shared, Unheard, RecordsKept, Kept, CacheKept
  <2>3. Behind'
    BY <2>1 DEF Shared, Behind, Counted, Booking, Derives, Pair
  <2>4. \A p \in Procs : Fresh(p)' /\ Aimed(call[p])'
    BY <2>1 DEF Shared, Fresh, At, Still, Aimed, Derived, Derives
  <2> QED
    BY <2>1, <2>2, <2>3, <2>4 DEF Shared
<1>2. ASSUME NEW p \in Procs, Begins(p) \/ Proceed(p) \/ Fails(p) \/ Kill(p)
      PROVE  Shared' /\ Kept
  <2>1. Typed'
    BY NextTyped
  <2> QED
    BY <1>2, <2>1, BeginsShare, ImportShares, DeriveShares, AccountShares,
       ForgetShares, RemoveShares, LabelShares, MishapsShare DEF Proceed
<1> QED
  BY <1>1, <1>2 DEF Next

\* A step is of one call.
LEMMA StepMoves ==
  ASSUME Typed, NEW p \in Procs, Begins(p) \/ Proceed(p) \/ Fails(p) \/ Kill(p)
  PROVE  \E d : call' = [call EXCEPT ![p] = d]
<1>1. CASE Begins(p)
  BY ZenonT(60), <1>1 DEF Begins, BeginImport, BeginDerive, BeginAccount, BeginGroup,
              BeginLabel, Starts
<1>2. CASE Import(p)
  BY <1>2 DEF Import, PutRecord, PutName, PutStage, Encrypt, Promote, DropStage,
              StageMoves, UndoKey, UndoStage, UndoName, UndoRecord, Go, Refuse,
              Ends
<1>3. CASE Derive(p)
  BY <1>3 DEF Derive, Resolve, Open, Start, Hold, Try, PassRow, PassBump, Go,
              Refuse, Ends
<1>4. CASE Account(p)
  BY <1>4 DEF Account, Persist, PutRow, Bump, Unvault, Unrow, Retire, Go,
              Refuse, Ends
<1>5. CASE Forget(p)
  BY <1>5 DEF Forget, ForgetKey, ForgetStage, Downgrade, Go, Refuse, Ends
<1>6. CASE Remove(p)
  BY <1>6 DEF Remove, LookAtStore, LookAtAccounts, LookAtRecord, LookAtName,
              Unrecord, Unname, Go, Refuse, Ends
<1>7. CASE Label(p)
  BY <1>7 DEF Label, Recall, Tally, Survey, Weigh, PutLabel, Finds, Go, Refuse,
              Ends
<1>8. CASE Answer(p) \/ Kill(p)
  BY <1>8 DEF Answer, Kill
<1>9. CASE Fails(p)
  BY <1>9 DEF Fails, ImportFails, CallFails, Ignored, Go, Refuse, Ends
<1> QED
  BY SMTT(30), <1>1, <1>2, <1>3, <1>4, <1>5, <1>6, <1>7, <1>8, <1>9 DEF Proceed

\* A look at the cache, and what goes on from there.
LEMMA NextLooks == Typed /\ Shared /\ [Next]_vars =>
                     \A p \in Procs : LooksPast(p) /\ GoesUp(p)
<1> SUFFICES ASSUME Typed, Shared, [Next]_vars, NEW q \in Procs
             PROVE  LooksPast(q) /\ GoesUp(q)
  OBVIOUS
<1> DEFINE c == call[q]
<1>1. ASSUME call'[q] = call[q]
      PROVE  LooksPast(q) /\ GoesUp(q)
  BY <1>1, Kinds DEF LooksPast, GoesUp, At
<1>2. ASSUME c.at \notin Choosing \union {"resolve"} \/ c.op # "next"
      PROVE  LooksPast(q) /\ GoesUp(q)
  BY <1>2 DEF LooksPast, GoesUp, At
<1>3. ASSUME call'[q].at \notin Choosing
      PROVE  LooksPast(q) /\ GoesUp(q)
  BY <1>3 DEF LooksPast, GoesUp, Choosing
<1>4. CASE UNCHANGED vars
  BY <1>1, <1>4 DEF vars
<1>5. ASSUME NEW p \in Procs, Begins(p) \/ Proceed(p) \/ Fails(p) \/ Kill(p)
      PROVE  LooksPast(q) /\ GoesUp(q)
  <2>1. CASE q # p
    <3>1. \E d : call' = [call EXCEPT ![p] = d]
      BY <1>5, StepMoves
    <3> QED
      BY <1>1, <2>1, <3>1, Kinds
  <2>2. CASE q = p
    <3>1. /\ c \in Call /\ DiskOK /\ c.group \in Ids /\ c.index \in Int
          /\ call \in [Procs -> Call] /\ Formed(c, phrase, given)
      BY Kinds
    <3>2. ASSUME NEW verdict, Ends(q, verdict)
          PROVE  LooksPast(q) /\ GoesUp(q)
      BY <1>3, <3>2, EndsIs DEF Choosing
    <3>3. ASSUME NEW step, Go(q, step), c.at # "resolve"
          PROVE  LooksPast(q) /\ GoesUp(q)
      <4>1. call'[q].index = c.index
        BY <3>3, GoIs
      <4> QED
        BY <3>1, <3>3, <4>1 DEF LooksPast, GoesUp, At
    <3>4. CASE Begins(p)
      <4>1. c.at = "idle"
        BY ZenonT(60), <2>2, <3>4
           DEF Begins, BeginImport, BeginDerive, BeginAccount, BeginGroup,
               BeginLabel, Starts, At
      <4> QED
        BY SMTT(30), <1>2, <4>1 DEF Choosing
    <3>5. CASE Import(p)
      <4>1. c.at \in ImportSteps
        BY <2>2, <3>5
           DEF Import, PutRecord, PutName, PutStage, Encrypt, Promote,
               DropStage, StageMoves, UndoKey, UndoStage, UndoName, UndoRecord,
               At, ImportSteps, Undoing
      <4> QED
        BY <1>2, <4>1 DEF Choosing, ImportSteps, Undoing
    <3>6. CASE Forget(p) \/ Remove(p) \/ Label(p) \/ Answer(p)
      <4>1. c.at \notin Choosing \union {"resolve"}
        BY <2>2, <3>6
           DEF Forget, ForgetKey, ForgetStage, Downgrade, Remove, LookAtStore,
               LookAtAccounts, LookAtRecord, LookAtName, Unrecord, Unname,
               Label, Recall, Tally, Survey, Weigh, PutLabel, Finds, Answer, At,
               Choosing
      <4> QED
        BY <1>2, <4>1
    <3>7. CASE Account(p)
      <4>1. CASE Persist(p)
        BY <2>2, <3>3, <4>1 DEF Persist, At
      <4>2. CASE ~Persist(p)
        <5>1. c.at \notin Choosing \union {"resolve"}
          BY <2>2, <3>7, <4>2
             DEF Account, PutRow, Bump, Unvault, Unrow, Retire, At, Choosing
        <5> QED
          BY <1>2, <5>1
      <4> QED
        BY <4>1, <4>2
    <3>8. CASE Kill(p)
      <4>1. call'[q] = IdleCall /\ IdleCall.at = "idle"
        BY <2>2, <3>1, <3>8 DEF Kill, IdleCall
      <4> QED
        BY <1>3, <4>1 DEF Choosing
    <3>9. CASE Fails(p)
      <4>1. CASE ImportFails(p)
        BY <1>2, <2>2, <4>1 DEF ImportFails
      <4>2. CASE CallFails(p)
        BY <2>2, <3>2, <4>2 DEF CallFails, Refuse
      <4>3. CASE Ignored(p)
        <5>1. c.at \in {"drop", "downgrade"} \union Undoing
          BY <2>2, <4>3 DEF Ignored, At, Undoing
        <5> QED
          BY <1>2, <5>1 DEF Choosing, Undoing
      <4> QED
        BY <3>9, <4>1, <4>2, <4>3 DEF Fails
    <3>10. CASE Derive(p)
      <4>1. CASE Resolve(p)
        <5>1. CASE Refuse(p)
          BY <2>2, <3>2, <5>1 DEF Refuse
        <5>2. CASE ~Refuse(p)
          <6>1. /\ c.at = "resolve" /\ record[c.group] # NoRecord
                /\ call'[q].index = IF c.op = "next" THEN record[c.group].next
                                                     ELSE c.index
            BY <2>2, <3>1, <4>1, <5>2 DEF Resolve, At, Call
          <6>2. \A i \in Indices :
                  Counted(<<c.group, i>>) => record[c.group].next > i
            BY <3>1, <6>1 DEF Shared, Behind
          <6> QED
            BY <6>1, <6>2 DEF LooksPast, GoesUp, Choosing
        <5> QED
          BY <5>1, <5>2
      <4>2. CASE Open(p)
        BY <2>2, <3>2, <3>3, <4>2 DEF Open, Refuse, At
      <4>3. CASE Start(p)
        <5>1. c.at = "start" /\ call'[q].index >= c.index
          <6>1. PICK start \in {c.index} \union {i + 1 : i \in Used(c.group)} :
                  /\ start >= c.index
                  /\ call' = [call EXCEPT ![q].index = start, ![q].at = "hold"]
            BY <2>2, <4>3 DEF Start
          <6> QED
            BY <2>2, <3>1, <4>3, <6>1 DEF Start, At, Call
        <5> QED
          BY <5>1 DEF LooksPast, GoesUp, At
      <4>4. CASE Hold(p)
        <5>1. c.at = "hold" /\ call'[q].index = c.index
          BY <2>2, <3>1, <4>4 DEF Hold, At, Call
        <5> QED
          BY <3>1, <5>1 DEF LooksPast, GoesUp, At
      <4>5. CASE Try(p)
        <5>1. CASE Refuse(p)
          BY <2>2, <3>2, <5>1 DEF Refuse
        <5>2. CASE ~Refuse(p)
          <6>1. c.at = "try" /\ call'[q].index = c.index
            BY <2>2, <3>1, <4>5, <5>2 DEF Try, At, Call
          <6> QED
            BY <3>1, <6>1 DEF LooksPast, GoesUp, At
        <5> QED
          BY <5>1, <5>2
      <4>6. CASE PassRow(p)
        BY <2>2, <3>3, <4>6 DEF PassRow, At
      <4>7. CASE PassBump(p)
        <5>1. c.at = "passbump" /\ call'[q].index = c.index + 1
          BY <2>2, <3>1, <4>7 DEF PassBump, At, Call
        <5> QED
          BY <3>1, <5>1 DEF LooksPast, GoesUp, At
      <4> QED
        BY <3>10, <4>1, <4>2, <4>3, <4>4, <4>5, <4>6, <4>7 DEF Derive
    <3> QED
      BY <1>5, <3>4, <3>5, <3>6, <3>7, <3>8, <3>9, <3>10 DEF Proceed
  <2> QED
    BY <2>1, <2>2
<1> QED
  BY <1>4, <1>5 DEF Next

\* RowsTellTrue always holds: with any number of processes on one directory,
\* kills and failing calls, a row of accounts.json names the wallet and index
\* that derive its address.
THEOREM OriginsTrue == Spec => []RowsTellTrue
<1>1. Shared => RowsTellTrue
  BY DEF Shared
<1> QED
  BY <1>1, InitTyped, NextTyped, InitShares, NextShares, PTL DEF Spec

\* ReuseTakesOverlap holds: a derive_next_account that looks at its wallet after
\* an account was booked never gets the index of that account, whatever its
\* peers do.
THEOREM BookedStaysBooked == Spec => ReuseTakesOverlap
<1>1. Typed /\ Shared /\ [Next]_vars =>
        [/\ \A p \in Procs : LooksPast(p) /\ GoesUp(p)
         /\ \A g \in Ids : CacheKept(g)]_vars
  BY NextShares, NextLooks DEF Kept
<1> QED
  BY <1>1, InitTyped, NextTyped, InitShares, NextShares, PTL
     DEF Spec, ReuseTakesOverlap

=============================================================================
