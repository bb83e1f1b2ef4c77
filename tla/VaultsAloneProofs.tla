------------------------- MODULE VaultsAloneProofs -------------------------
(***************************************************************************)
(* Proofs about one process alone with its keystore directory, for every   *)
(* set of addresses, passwords and scratch names and any number of kills   *)
(* and failures: vaults are whole, and AccountStore's promise is kept.     *)
(***************************************************************************)
EXTENDS VaultsProofs

-----------------------------------------------------------------------------
(* The invariant. *)

Storing == {"stage", "create", "write", "promote"}

\* No write is under way in a vault, and the only stage being filled is the
\* one of the call at "write".
FilesShut(p) ==
  \A a \in Addresses :
    /\ IsFile(vault[a]) => vault[a].content # Torn /\ vault[a].by = {}
    /\ IsFile(stage[a]) =>
         stage[a].by = {} \/ (At(p, "write") /\ call[p].addr = a)

\* The stage is as the write in progress left it.
StageIs(p) ==
  LET s == stage[call[p].addr]
  IN  /\ At(p, "create") => s = NoFile
      /\ At(p, "write") => s = [content |-> Torn, by |-> {p}]
      /\ At(p, "promote") => s = [content |-> call[p].new, by |-> {}]

\* What settle judged is still so when it renames.
RepairStands(p) == At(p, "rename") => Repairs(call[p].item)

\* The password presented still opens the account.
StillOpens(p) ==
  (call[p].op = "rekey" /\ call[p].at \in Storing) \/ At(p, "remove")
    => Live(call[p].addr) = call[p].given

AloneInv(p) == FilesShut(p) /\ StageIs(p) /\ RepairStands(p) /\ StillOpens(p)

Delicate == Storing \union {"remove", "rename"}

-----------------------------------------------------------------------------
(* The invariant, step by step. *)

\* Steps that touch no file and lead nowhere a file must be right.
LEMMA CalmStep ==
  ASSUME Typed, NEW p \in Procs, AloneInv(p), ~At(p, "write"),
         UNCHANGED <<vault, stage>>, call'[p].at \notin Delicate
  PROVE  AloneInv(p)'
BY DEF AloneInv, FilesShut, StageIs, RepairStands, StillOpens, At, Delicate,
       Storing

LEMMA BeginAlone ==
  ASSUME Typed, NEW p \in Procs, AloneInv(p), NEW op \in AllOps,
         NEW a \in Addresses, NEW given \in Passwords, NEW new \in Passwords,
         Begin(p, op, a, given, new)
  PROVE  AloneInv(p)'
<1> DEFINE others == UNION {Outcome(call[r].op, call[r].new) :
                              r \in {r \in Procs : Busy(r)
                                       /\ call[r].addr = a}}
           d == [IdleCall EXCEPT
                   !.op = op, !.addr = a, !.given = given, !.new = new,
                   !.at = FirstStep(op), !.ok = (op = "list"),
                   !.since = mishaps, !.over = others]
<1>1. call'[p] = d
  BY DEF Begin
<1>2. d.op = op /\ d.at = FirstStep(op)
  BY DEF IdleCall
<1> HIDE DEF d
<1>3. /\ FirstStep(op) \in {"locate", "open", "stage", "scratch", "scan"}
      /\ FirstStep(op) = "stage" => op # "rekey"
  BY DEF FirstStep, AllOps
<1>4. At(p, "idle")
  BY DEF Begin, Busy, At
<1>5. UNCHANGED <<vault, stage>>
  BY DEF Begin, disk
<1>6. QED
  BY <1>1, <1>2, <1>3, <1>4, <1>5
     DEF AloneInv, FilesShut, StageIs, RepairStands, StillOpens, At, Storing

\* Opening a vault and unwrapping a document.
LEMMA OpeningAlone ==
  ASSUME Typed, NEW p \in Procs, AloneInv(p),
         Find(p) \/ Miss(p) \/ Decrypt(p) \/ Scratch(p) \/ Unwrap(p) \/ Toss(p)
  PROVE  AloneInv(p)'
<1>1. call[p] \in Call /\ Shaped(call[p])
  BY CallFields
<1>2. CASE Find(p)
  <2>1. call'[p].at \in {"open", "decrypt"}
    BY <1>2, FindMoves DEF Moves
  <2>2. QED
    BY <1>2, <2>1, CalmStep DEF Find, disk, At, Delicate, Storing
<1>3. CASE Miss(p)
  <2>1. call'[p].at \in {"scan", "answer"}
    BY <1>3, MissMoves DEF Moves
  <2>2. QED
    BY <1>3, <2>1, CalmStep DEF Miss, disk, At, Delicate, Storing
<1>4. CASE Decrypt(p)
  <2> DEFINE opened == Opens(vault[call[p].addr], call[p].given)
  <2>1. CASE ~opened \/ call[p].op = "sign"
    <3>1. call'[p].at = "answer"
      BY <1>4, <2>1, FailMoves, GoWithMoves DEF Decrypt, Moves
    <3>2. QED
      BY <1>4, <3>1, CalmStep DEF Decrypt, disk, At, Delicate, Storing
  <2>2. CASE opened /\ call[p].op # "sign"
    <3>1. call[p].op \in {"rekey", "delete"}
      BY <1>1, <1>4, <2>2 DEF Shaped, Decrypt, At, Opening
    <3>2. /\ Moves(p, "stage", call[p].ok) \/ Moves(p, "remove", call[p].ok)
          /\ call[p].op = "rekey" => call'[p].at = "stage"
      BY <1>4, <2>2, <3>1, GoMoves DEF Decrypt, Moves
    <3>3. Live(call[p].addr) = call[p].given
      BY <2>2 DEF Opens, Live
    <3>4. UNCHANGED <<vault, stage>>
      BY <1>4 DEF Decrypt, disk
    <3>5. At(p, "decrypt")
      BY <1>4 DEF Decrypt
    <3>6. QED
      BY <3>2, <3>3, <3>4, <3>5
         DEF AloneInv, FilesShut, StageIs, RepairStands, StillOpens, At,
             Storing, Moves, SameCall, Live
  <2>3. QED
    BY <2>1, <2>2
<1>5. CASE Scratch(p)
  <2>1. call'[p].at = "unwrap"
    BY <1>5, ScratchMoves DEF Moves
  <2>2. QED
    BY <1>5, <2>1, CalmStep DEF Scratch, disk, At, Delicate, Storing
<1>6. CASE Unwrap(p)
  <2>1. call'[p].at = "toss"
    BY <1>6, GoWithMoves DEF Unwrap, Moves
  <2>2. QED
    BY <1>6, <2>1, CalmStep DEF Unwrap, disk, At, Delicate, Storing
<1>7. CASE Toss(p)
  <2>1. /\ call'[p].at \in {"stage", "answer"}
        /\ call'[p].op = call[p].op
    BY <1>7, TossedMoves DEF Toss, Moves, SameCall
  <2>2. call[p].op = "json"
    BY <1>1, <1>7 DEF Shaped, Toss, At
  <2>3. QED
    BY <1>7, <2>1, <2>2
       DEF Toss, AloneInv, FilesShut, StageIs, RepairStands, StillOpens, At,
           Storing
<1>8. QED
  BY <1>2, <1>3, <1>4, <1>5, <1>6, <1>7

\* Writing a vault: stage, fill, rename, drop.
LEMMA WritingAlone ==
  ASSUME Typed, NEW p \in Procs, AloneInv(p), Writing(p)
  PROVE  AloneInv(p)'
<1> DEFINE a == call[p].addr
<1>1. /\ call[p] \in Call /\ Shaped(call[p])
      /\ a \in Addresses /\ call[p].new \in Passwords
  BY CallFields
<1>2. /\ vault \in [Addresses -> File \union {NoFile}]
      /\ stage \in [Addresses -> File \union {NoFile, NoStage}]
  BY DEF Typed, TypeOK
<1>3. CASE MakeStage(p)
  <2>1. Moves(p, "create", call[p].ok)
    BY <1>3, GoMoves DEF MakeStage
  <2>2. /\ vault' = vault
        /\ stage' = [stage EXCEPT ![a] = NoFile]
        /\ At(p, "stage")
    BY <1>3 DEF MakeStage
  <2>3. ~IsFile(NoFile)
    BY DEF IsFile
  <2>4. QED
    BY <1>1, <1>2, <2>1, <2>2, <2>3
       DEF AloneInv, FilesShut, StageIs, RepairStands, StillOpens, At, Storing,
           Moves, SameCall, Live
<1>4. CASE Create(p)
  <2>1. stage[a] = NoFile /\ NoFile # NoStage
    BY <1>4, FileAssumption DEF FileAssumption, Create, AloneInv, StageIs
  <2>2. Moves(p, "write", call[p].ok)
    BY <1>4, <2>1, GoMoves DEF Create
  <2>3. Created(NoFile, p) = [content |-> Torn, by |-> {p}]
    BY DEF Created, IsFile
  <2>4. /\ vault' = vault
        /\ stage' = [stage EXCEPT ![a] = [content |-> Torn, by |-> {p}]]
        /\ At(p, "create")
    BY <1>4, <2>1, <2>3 DEF Create
  <2>5. QED
    BY <1>1, <1>2, <2>2, <2>4
       DEF AloneInv, FilesShut, StageIs, RepairStands, StillOpens, At, Storing,
           Moves, SameCall, Live
<1>5. CASE Write(p)
  <2>1. stage[a] = [content |-> Torn, by |-> {p}] /\ At(p, "write")
    BY <1>5 DEF Write, AloneInv, StageIs
  <2>2. Moves(p, "promote", call[p].ok)
    BY <1>5, GoMoves DEF Write
  <2>3. Written(stage[a], p, call[p].new) = [content |-> call[p].new, by |-> {}]
    <3>1. stage[a] \in File
      BY <1>1, <2>1 DEF File
    <3>2. IsFile(stage[a])
      BY <3>1, FileAssumption DEF FileAssumption, IsFile
    <3>3. QED
      BY <2>1, <3>2 DEF Written
  <2>4. Written(vault[a], p, call[p].new) = vault[a]
    BY <1>1 DEF Written, AloneInv, FilesShut
  <2>5. /\ vault' = vault
        /\ stage' = [stage EXCEPT ![a] = [content |-> call[p].new, by |-> {}]]
    BY <1>1, <1>2, <1>5, <2>3, <2>4 DEF Write
  <2>6. QED
    BY <1>1, <1>2, <2>1, <2>2, <2>5
       DEF AloneInv, FilesShut, StageIs, RepairStands, StillOpens, At, Storing,
           Moves, SameCall, Live
<1>6. CASE Promote(p)
  <2>1. At(p, "promote") /\ stage[a] = [content |-> call[p].new, by |-> {}]
    BY <1>6 DEF Promote, AloneInv, StageIs
  <2>2. Moves(p, "drop", Promotable(stage[a]))
    BY <1>6, GoWithMoves DEF Promote
  <2>3. call[p].new # Torn
    BY <1>1, VaultsAssumption DEF VaultsAssumption
  <2>4. \/ UNCHANGED <<vault, stage>>
        \/ /\ vault' = [vault EXCEPT ![a] = [content |-> call[p].new, by |-> {}]]
           /\ stage' = [stage EXCEPT ![a] = NoFile]
    BY <1>6, <2>1 DEF Promote
  <2>5. QED
    BY <1>1, <1>2, <2>1, <2>2, <2>3, <2>4
       DEF AloneInv, FilesShut, StageIs, RepairStands, StillOpens, At, Storing,
           Moves, SameCall, IsFile
<1>7. CASE Drop(p)
  <2>1. call'[p].at \in {"record", "answer"}
    BY <1>7, GoMoves DEF Drop, Moves
  <2>2. /\ vault' = vault
        /\ stage' = [stage EXCEPT ![a] = NoStage]
        /\ At(p, "drop")
    BY <1>7 DEF Drop, Dropped
  <2>3. ~IsFile(NoStage)
    BY DEF IsFile
  <2>4. QED
    BY <1>1, <1>2, <2>1, <2>2, <2>3
       DEF AloneInv, FilesShut, StageIs, RepairStands, StillOpens, At, Storing
<1>8. QED
  BY <1>3, <1>4, <1>5, <1>6, <1>7 DEF Writing

\* The row, the removal and the answer.
LEMMA BookingAlone ==
  ASSUME Typed, NEW p \in Procs, AloneInv(p),
         Record(p) \/ Remove(p) \/ Retire(p) \/ Answer(p) \/ BookFails(p)
  PROVE  AloneInv(p)'
<1>1. call[p].addr \in Addresses
  BY CallFields
<1>2. CASE Record(p) \/ Retire(p)
  <2>1. call'[p].at \in {"scan", "answer"}
    BY <1>2, AnnounceMoves, FailMoves DEF Record, Retire, Moves
  <2>2. QED
    BY <1>2, <2>1, CalmStep DEF Record, Retire, At, Delicate, Storing
<1>3. CASE Remove(p)
  <2>1. /\ call'[p].at = "retire"
        /\ vault' = [vault EXCEPT ![call[p].addr] = NoFile]
        /\ stage' = stage
        /\ At(p, "remove")
    BY <1>3, GoMoves DEF Remove, Moves
  <2>2. ~IsFile(NoFile) /\ vault \in [Addresses -> File \union {NoFile}]
    BY DEF IsFile, Typed, TypeOK
  <2>3. QED
    BY <1>1, <2>1, <2>2
       DEF AloneInv, FilesShut, StageIs, RepairStands, StillOpens, At, Storing
<1>4. CASE Answer(p)
  <2>1. call'[p] = IdleCall
    BY <1>4 DEF Answer, Typed, TypeOK
  <2>2. IdleCall.at = "idle"
    BY DEF IdleCall
  <2>3. QED
    BY <1>4, <2>1, <2>2, CalmStep DEF Answer, disk, At, Delicate, Storing
<1>5. CASE BookFails(p)
  <2>1. call'[p].at = "answer"
    BY <1>5, FailMoves DEF BookFails, Moves
  <2>2. QED
    BY <1>5, <2>1, CalmStep DEF BookFails, disk, At, Delicate, Storing
<1>6. QED
  BY <1>2, <1>3, <1>4, <1>5

\* settle, and the repairs that fail.
LEMMA SettlingAlone ==
  ASSUME Typed, NEW p \in Procs, AloneInv(p), Settling(p) \/ RepairFails(p)
  PROVE  AloneInv(p)'
<1> DEFINE a == call[p].item
<1>1. a \in Addresses /\ call[p].back \in {"locate", "open", "answer"}
  BY CallFields
<1>2. /\ vault \in [Addresses -> File \union {NoFile}]
      /\ stage \in [Addresses -> File \union {NoFile, NoStage}]
  BY DEF Typed, TypeOK
<1>3. CASE SettleScan(p)
  <2>1. call'[p].at \in {"lock", "locate", "open", "answer"}
    BY <1>1, <1>3, ScanMoves DEF Moves
  <2>2. QED
    BY <1>3, <2>1, CalmStep DEF SettleScan, disk, At, Delicate, Storing
<1>4. CASE SettleLock(p)
  <2>1. call'[p].at \in {"sweep", "locate", "open", "answer"}
    BY <1>1, <1>4, GoMoves, SkippedMoves DEF SettleLock, Moves
  <2>2. QED
    BY <1>4, <2>1, CalmStep DEF SettleLock, disk, At, Delicate, Storing
<1>5. CASE SettleSweep(p)
  <2>1. call'[p].at = "check"
    BY <1>5, SweepMoves DEF SettleSweep, Moves
  <2>2. QED
    BY <1>5, <2>1, CalmStep DEF SettleSweep, At, Delicate, Storing
<1>6. CASE SettleCheck(p)
  <2>1. /\ call'[p].at \in {"rename", "clear"}
        /\ call'[p].at = "rename" => Repairs(call'[p].item)
    BY <1>6, CheckMoves DEF Moves
  <2>2. UNCHANGED <<vault, stage>> /\ At(p, "check")
    BY <1>6 DEF SettleCheck, disk
  <2>3. QED
    BY <2>1, <2>2
       DEF AloneInv, FilesShut, StageIs, RepairStands, StillOpens, At, Storing,
           Repairs
<1>7. CASE SettleRename(p)
  <2>1. At(p, "rename") /\ Openable(stage[a])
    BY <1>7 DEF SettleRename, AloneInv, RepairStands, Repairs
  <2>2. call'[p].at = "clear"
    BY <1>7, GoMoves DEF SettleRename, Moves
  <2>3. /\ vault' = [vault EXCEPT ![a] = stage[a]]
        /\ stage' = [stage EXCEPT ![a] = NoFile]
    BY <1>7, <2>1 DEF SettleRename, Openable
  <2>4. ~IsFile(NoFile)
    BY DEF IsFile
  <2>5. QED
    BY <1>1, <1>2, <2>1, <2>2, <2>3, <2>4
       DEF AloneInv, FilesShut, StageIs, RepairStands, StillOpens, At, Storing,
           Openable
<1>8. CASE SettleClear(p)
  <2>1. call'[p].at = "check"
    BY <1>8, ClearMoves DEF SettleClear, Moves
  <2>2. /\ vault' = vault
        /\ stage' = [stage EXCEPT ![a] = NoStage]
        /\ At(p, "clear")
    BY <1>8 DEF SettleClear
  <2>3. ~IsFile(NoStage)
    BY DEF IsFile
  <2>4. QED
    BY <1>1, <1>2, <2>1, <2>2, <2>3
       DEF AloneInv, FilesShut, StageIs, RepairStands, StillOpens, At, Storing
<1>9. CASE SettleDone(p)
  <2>1. call'[p].at \in {"locate", "open", "answer"}
    BY <1>1, <1>9, ResumeMoves DEF SettleDone, Moves
  <2>2. QED
    BY <1>9, <2>1, CalmStep DEF SettleDone, disk, At, Delicate, Storing
<1>10. CASE RepairFails(p)
  <2>1. call'[p].at \in {"locate", "open", "answer", "check", "clear"}
    BY <1>1, <1>10, SkippedMoves, SweepMoves, GoMoves, ClearMoves
       DEF RepairFails, Moves
  <2>2. QED
    BY <1>10, <2>1, CalmStep DEF RepairFails, disk, At, Delicate, Storing
<1>11. QED
  BY <1>3, <1>4, <1>5, <1>6, <1>7, <1>8, <1>9, <1>10 DEF Settling

\* A kill closes what was open; a failing write drops its stage.
LEMMA FailingAlone ==
  ASSUME Typed, NEW p \in Procs, AloneInv(p),
         Kill(p) \/ WriteFails(p) \/ CleanupFails(p)
  PROVE  AloneInv(p)'
<1> DEFINE a == call[p].addr
<1>1. a \in Addresses /\ call[p] \in Call /\ Shaped(call[p])
  BY CallFields
<1>2. /\ vault \in [Addresses -> File \union {NoFile}]
      /\ stage \in [Addresses -> File \union {NoFile, NoStage}]
  BY DEF Typed, TypeOK
<1>3. /\ ~IsFile(NoFile) /\ ~IsFile(NoStage)
      /\ \A f \in File : IsFile(f)
  BY FileAssumption DEF FileAssumption, IsFile
<1>4. \A f \in File \union {NoFile, NoStage} :
        /\ IsFile(Closed(f, p)) <=> IsFile(f)
        /\ IsFile(f) => /\ Closed(f, p).content = f.content
                        /\ Closed(f, p).by = f.by \ {p}
  <2>1. TAKE f \in File \union {NoFile, NoStage}
  <2>2. CASE f \in File
    <3>1. [f EXCEPT !.by = @ \ {p}] \in File
      BY <2>2 DEF File
    <3>2. Closed(f, p) = [f EXCEPT !.by = @ \ {p}]
      BY <1>3, <2>2 DEF Closed
    <3>3. QED
      BY <1>3, <2>2, <3>1, <3>2 DEF File
  <2>3. CASE f \notin File
    BY <1>3, <2>3 DEF Closed
  <2>4. QED
    BY <2>2, <2>3
<1>5. \A b \in Addresses : vault[b] \in File \union {NoFile, NoStage}
  BY <1>2
<1>6. CASE Kill(p)
  <2>1. call'[p].at = "idle"
    BY <1>6 DEF Kill, Typed, TypeOK, IdleCall
  <2>2. \A b \in Addresses : /\ vault'[b] = Closed(vault[b], p)
                             /\ stage'[b] = Closed(stage[b], p)
    BY <1>6 DEF Kill
  <2>3. \A b \in Addresses :
          IsFile(stage[b]) => stage[b].by \subseteq {p}
    BY DEF AloneInv, FilesShut, StageIs, At
  <2>4. FilesShut(p)'
    BY <1>2, <1>4, <1>5, <2>2, <2>3 DEF FilesShut, AloneInv
  <2>5. QED
    BY <2>1, <2>4 DEF AloneInv, StageIs, RepairStands, StillOpens, At, Storing
<1>7. CASE WriteFails(p)
  <2>1. CASE At(p, "scratch")
    <3>1. call'[p].at = "answer"
      BY <1>7, <2>1, FailMoves DEF WriteFails, At, Moves
    <3>2. QED
      BY <1>7, <2>1, <3>1, CalmStep DEF WriteFails, At, Delicate, Storing
  <2>2. CASE At(p, "stage")
    <3>1. /\ call'[p].at = "answer"
          /\ vault' = vault
          /\ stage' = [stage EXCEPT ![a] = NoStage]
      BY <1>7, <2>2, FailMoves DEF WriteFails, At, Moves
    <3>2. QED
      BY <1>1, <1>2, <1>3, <2>2, <3>1
         DEF AloneInv, FilesShut, StageIs, RepairStands, StillOpens, At, Storing
  <2>3. CASE At(p, "create") \/ At(p, "write") \/ At(p, "promote")
    <3>1. /\ call'[p].at = "drop"
          /\ vault' = [vault EXCEPT ![a] = Closed(@, p)]
          /\ stage' = [stage EXCEPT ![a] = Closed(@, p)]
      BY <1>7, <2>3, GoWithMoves DEF WriteFails, At, Moves
    <3>2. \A b \in Addresses :
            /\ vault'[b] = vault[b] \/ vault'[b] = Closed(vault[b], p)
            /\ stage'[b] = stage[b] \/ stage'[b] = Closed(stage[b], p)
            /\ b = a => stage'[b] = Closed(stage[b], p)
      BY <1>1, <1>2, <3>1
    <3>3. IsFile(stage[a]) => stage[a].by \subseteq {p}
      BY <1>1, <2>3 DEF AloneInv, FilesShut, StageIs, At
    <3>4. FilesShut(p)'
      BY <1>2, <1>4, <1>5, <3>2, <3>3 DEF FilesShut, AloneInv
    <3>5. QED
      BY <3>1, <3>4 DEF AloneInv, StageIs, RepairStands, StillOpens, At, Storing
  <2>4. QED
    BY <1>7, <2>1, <2>2, <2>3 DEF WriteFails
<1>8. CASE CleanupFails(p)
  <2>1. CASE At(p, "toss")
    <3>1. call'[p].at \in {"stage", "answer"} /\ call'[p].op = call[p].op
      BY <1>8, <2>1, TossedMoves DEF CleanupFails, At, Moves, SameCall
    <3>2. call[p].op = "json"
      BY <1>1, <2>1 DEF Shaped, At
    <3>3. UNCHANGED <<vault, stage>>
      BY <1>8 DEF CleanupFails, disk
    <3>4. QED
      BY <2>1, <3>1, <3>2, <3>3
         DEF AloneInv, FilesShut, StageIs, RepairStands, StillOpens, At, Storing
  <2>2. CASE At(p, "drop")
    <3>1. call'[p].at \in {"record", "answer"}
      BY <1>8, <2>2, GoMoves DEF CleanupFails, At, Moves
    <3>2. QED
      BY <1>8, <2>2, <3>1, CalmStep DEF CleanupFails, disk, At, Delicate, Storing
  <2>3. QED
    BY <1>8, <2>1, <2>2 DEF CleanupFails
<1>9. QED
  BY <1>6, <1>7, <1>8

LEMMA InitAlone ==
  ASSUME Init, NEW p \in Procs
  PROVE  AloneInv(p)
<1>1. call[p] = IdleCall /\ IdleCall.at = "idle"
  BY DEF Init, IdleCall
<1>2. ~IsFile(NoFile) /\ ~IsFile(NoStage)
  BY DEF IsFile
<1>3. QED
  BY <1>1, <1>2
     DEF Init, AloneInv, FilesShut, StageIs, RepairStands, StillOpens, At, Storing

LEMMA NextAlone ==
  ASSUME NEW p, Procs = {p}, Typed, AloneInv(p), [Next]_vars
  PROVE  AloneInv(p)'
<1>1. CASE UNCHANGED vars
  BY <1>1
     DEF vars, AloneInv, FilesShut, StageIs, RepairStands, StillOpens, At,
         Repairs, Live
<1>2. CASE Next
  <2>1. Calls(p) \/ Proceed(p) \/ Fails(p)
    BY <1>2 DEF Next
  <2>2. p \in Procs
    OBVIOUS
  <2>3. CASE Calls(p)
    BY <2>2, <2>3, BeginAlone, VaultsAssumption DEF VaultsAssumption, Calls
  <2>4. CASE Proceed(p)
    BY <2>2, <2>4, OpeningAlone, WritingAlone, BookingAlone, SettlingAlone
       DEF Proceed
  <2>5. CASE Fails(p)
    BY <2>2, <2>5, BookingAlone, SettlingAlone, FailingAlone DEF Fails
  <2>6. QED
    BY <2>1, <2>3, <2>4, <2>5
<1>3. QED
  BY <1>1, <1>2

\* A single process never has anything but complete vaults at their paths,
\* however often it is killed or a system call fails (write_vault, settle).
THEOREM VaultsWhole ==
  ASSUME NEW p, Procs = {p}
  PROVE  Spec => []WholeVaults
<1> DEFINE Inv == Typed /\ AloneInv(p)
<1>1. p \in Procs
  OBVIOUS
<1>2. Init => Inv
  BY <1>1, InitTyped, InitAlone
<1>3. Inv /\ [Next]_vars => Inv'
  BY NextTyped, NextAlone
<1>4. Inv => WholeVaults
  BY VaultsAssumption
     DEF VaultsAssumption, AloneInv, FilesShut, WholeVaults, Live
<1>5. QED
  BY <1>2, <1>3, <1>4, PTL DEF Spec

-----------------------------------------------------------------------------
(* What an abstract account store sees of a state, and its steps. *)

Acct == [a \in Addresses |-> Live(a)]
Draft == [a \in Addresses |-> Whole(stage[a])]
Doing == Shown(call[CHOOSE p \in Procs : TRUE])

PromiseStep == [Promise!Next]_(Promise!store)

LEMMA SoleCall ==
  ASSUME NEW p, Procs = {p}
  PROVE  Doing = Shown(call[p]) /\ Doing' = Shown(call'[p])
<1>1. (CHOOSE q \in Procs : TRUE) = p
  OBVIOUS
<1>2. QED
  BY <1>1 DEF Doing

LEMMA StutterStep ==
  ASSUME Acct' = Acct, Draft' = Draft, Doing' = Doing
  PROVE  PromiseStep
BY DEF PromiseStep, Promise!store, Acct, Draft, Doing

LEMMA DiscardStep ==
  ASSUME NEW a \in Addresses, Acct' = Acct, Doing' = Doing,
         Draft' = [Draft EXCEPT ![a] = Absent]
  PROVE  PromiseStep
BY DEF PromiseStep, Promise!Next, Promise!Discard, Acct, Draft, Doing

LEMMA RecoverStep ==
  ASSUME NEW a \in Addresses, Doing' = Doing,
         Acct[a] = Absent, Draft[a] # Absent,
         Acct' = [Acct EXCEPT ![a] = Draft[a]],
         Draft' = [Draft EXCEPT ![a] = Absent]
  PROVE  PromiseStep
BY DEF PromiseStep, Promise!Next, Promise!Recover, Acct, Draft, Doing

LEMMA PrepareStep ==
  ASSUME Doing.phase = "begun", Doing.op \in Writes, Promise!Allowed,
         Acct' = Acct, Doing' = Doing,
         Draft' = [Draft EXCEPT ![Doing.addr] = Doing.new]
  PROVE  PromiseStep
BY DEF PromiseStep, Promise!Next, Promise!Prepare, Promise!Writes, Writes,
       Acct, Draft, Doing

LEMMA PublishStep ==
  ASSUME Doing.phase = "begun", Doing.op \in Writes, Promise!Allowed,
         Draft[Doing.addr] = Doing.new,
         Acct' = [Acct EXCEPT ![Doing.addr] = Doing.new],
         Draft' = [Draft EXCEPT ![Doing.addr] = Absent],
         Doing' = [Doing EXCEPT !.phase = "took"]
  PROVE  PromiseStep
BY DEF PromiseStep, Promise!Next, Promise!Publish, Promise!Writes, Writes,
       Acct, Draft, Doing

LEMMA RemoveStep ==
  ASSUME Doing.phase = "begun", Doing.op = "delete", Promise!Allowed,
         Acct' = [Acct EXCEPT ![Doing.addr] = Absent],
         Draft' = Draft,
         Doing' = [Doing EXCEPT !.phase = "took"]
  PROVE  PromiseStep
BY DEF PromiseStep, Promise!Next, Promise!Remove, Acct, Draft, Doing

LEMMA RefuseStep ==
  ASSUME Promise!Pending, ~(Doing.op = "rekey" /\ Doing.phase = "took"),
         Acct' = Acct,
         Draft' \in {Draft, [Draft EXCEPT ![Doing.addr] = Absent]},
         Doing' = [Doing EXCEPT !.phase = "refused"]
  PROVE  PromiseStep
BY DEF PromiseStep, Promise!Next, Promise!Resolve, Acct, Draft, Doing

LEMMA ConfirmStep ==
  ASSUME Promise!Pending,
         Doing.op \in Writes \union {"delete"} => Doing.phase = "took",
         Doing.op = "sign" => Promise!Allowed,
         Acct' = Acct,
         Draft' \in {Draft, [Draft EXCEPT ![Doing.addr] = Absent]},
         Doing' = [Doing EXCEPT !.phase = "ok"]
  PROVE  PromiseStep
BY DEF PromiseStep, Promise!Next, Promise!Resolve, Promise!Writes, Writes,
       Acct, Draft, Doing

LEMMA EndStep ==
  ASSUME Doing' = Promise!Idle, Acct' = Acct, Draft' = Draft
  PROVE  PromiseStep
BY DEF PromiseStep, Promise!Next, Promise!Die, Acct, Draft, Doing

-----------------------------------------------------------------------------
(* What the call in progress looks like to that store. *)

Underway == Steps \ {"idle", "answer"}

LEMMA ShownFields ==
  ASSUME Typed, NEW p, Procs = {p}, call[p].at \in Underway
  PROVE  Doing = [op |-> call[p].op, addr |-> call[p].addr,
                  given |-> call[p].given, new |-> call[p].new,
                  phase |-> IF Took(call[p]) THEN "took" ELSE "begun"]
BY SoleCall DEF Shown, Phase, Underway

LEMMA ShownMoved ==
  ASSUME Typed, NEW p, Procs = {p}, call[p].at \in Underway,
         NEW s, s # "idle", NEW b, Moves(p, s, b)
  PROVE  Doing' = [Doing EXCEPT !.phase = Phase(call'[p])]
<1>1. Doing' = [op |-> call'[p].op, addr |-> call'[p].addr,
                given |-> call'[p].given, new |-> call'[p].new,
                phase |-> Phase(call'[p])]
  BY SoleCall DEF Shown, Moves
<1>2. SameCall(call[p], call'[p])
  BY DEF Moves
<1>3. QED
  BY <1>1, <1>2, ShownFields DEF SameCall

\* A call that moves on, with nothing taking effect.
LEMMA StaysShown ==
  ASSUME Typed, NEW p, Procs = {p}, call[p].at \in Underway,
         NEW s \in Underway, NEW b, Moves(p, s, b),
         Took(call'[p]) <=> Took(call[p])
  PROVE  Doing' = Doing
<1>1. Phase(call'[p]) = IF Took(call[p]) THEN "took" ELSE "begun"
  BY DEF Phase, Underway, Moves
<1>2. s # "idle"
  BY DEF Underway
<1>3. QED
  BY <1>1, <1>2, ShownMoved, ShownFields

\* The change the call was made for takes effect.
LEMMA TakesShown ==
  ASSUME Typed, NEW p, Procs = {p}, call[p].at \in Underway,
         NEW s \in Underway, NEW b, Moves(p, s, b), Took(call'[p])
  PROVE  Doing' = [Doing EXCEPT !.phase = "took"]
<1>1. Phase(call'[p]) = "took"
  BY DEF Phase, Underway, Moves
<1>2. s # "idle"
  BY DEF Underway
<1>3. QED
  BY <1>1, <1>2, ShownMoved

\* The outcome of the call is settled.
LEMMA ResolvesShown ==
  ASSUME Typed, NEW p, Procs = {p}, call[p].at \in Underway,
         NEW b \in BOOLEAN, Moves(p, "answer", b)
  PROVE  Doing' = [Doing EXCEPT !.phase = IF b THEN "ok" ELSE "refused"]
<1>1. Phase(call'[p]) = IF b THEN "ok" ELSE "refused"
  BY DEF Phase, Moves
<1>2. QED
  BY <1>1, ShownMoved

LEMMA VaultKept ==
  ASSUME vault' = vault
  PROVE  Acct' = Acct
BY DEF Acct, Live

LEMMA StageKept ==
  ASSUME stage' = stage
  PROVE  Draft' = Draft
BY DEF Draft

LEMMA VaultSet ==
  ASSUME Typed, NEW a \in Addresses, NEW f, vault' = [vault EXCEPT ![a] = f]
  PROVE  Acct' = [Acct EXCEPT ![a] = IF IsFile(f) THEN f.content ELSE Absent]
BY DEF Acct, Live, Typed, TypeOK

LEMMA StageSet ==
  ASSUME Typed, NEW a \in Addresses, NEW f, stage' = [stage EXCEPT ![a] = f]
  PROVE  Draft' = [Draft EXCEPT ![a] = Whole(f)]
BY DEF Draft, Typed, TypeOK

LEMMA NothingWhole == Whole(NoFile) = Absent /\ Whole(NoStage) = Absent
BY DEF Whole, Openable, IsFile

\* A call moves on, or comes to its outcome.
LEMMA Continues ==
  ASSUME Typed, NEW p, Procs = {p}, call[p].at \in Underway,
         NEW s \in Underway, NEW b, Moves(p, s, b),
         Took(call'[p]) <=> Took(call[p]),
         Acct' = Acct, Draft' = Draft
  PROVE  PromiseStep
BY StaysShown, StutterStep

LEMMA Refuses ==
  ASSUME Typed, NEW p, Procs = {p}, call[p].at \in Underway,
         Moves(p, "answer", FALSE), ~(call[p].op = "rekey" /\ Took(call[p])),
         Acct' = Acct,
         Draft' \in {Draft, [Draft EXCEPT ![call[p].addr] = Absent]}
  PROVE  PromiseStep
<1>1. /\ Doing.op = call[p].op /\ Doing.addr = call[p].addr
      /\ Doing.phase \in {"begun", "took"}
      /\ Doing.phase = "took" => Took(call[p])
  BY ShownFields
<1>2. Doing' = [Doing EXCEPT !.phase = "refused"]
  BY ResolvesShown
<1>3. Promise!Pending
  BY <1>1 DEF Promise!Pending, Doing
<1>4. QED
  BY <1>1, <1>2, <1>3, RefuseStep

LEMMA Confirms ==
  ASSUME Typed, NEW p, Procs = {p}, call[p].at \in Underway,
         Moves(p, "answer", TRUE),
         call[p].op \in Writes \union {"delete"} => Took(call[p]),
         call[p].op = "sign" => Live(call[p].addr) = call[p].given,
         Acct' = Acct,
         Draft' \in {Draft, [Draft EXCEPT ![call[p].addr] = Absent]}
  PROVE  PromiseStep
<1>1. /\ Doing.op = call[p].op /\ Doing.addr = call[p].addr
      /\ Doing.given = call[p].given
      /\ Doing.phase \in {"begun", "took"}
      /\ Took(call[p]) => Doing.phase = "took"
  BY ShownFields
<1>2. Doing' = [Doing EXCEPT !.phase = "ok"]
  BY ResolvesShown
<1>3. Promise!Pending
  BY <1>1 DEF Promise!Pending, Doing
<1>4. Doing.op = "sign" => Promise!Allowed
  <2>1. p \in Procs
    OBVIOUS
  <2>2. call[p].addr \in Addresses
    BY <2>1, CallFields
  <2>3. QED
    BY <1>1, <2>2 DEF Promise!Allowed, Doing
<1>5. QED
  BY <1>1, <1>2, <1>3, <1>4, ConfirmStep

-----------------------------------------------------------------------------
(* Each step keeps the promise. *)

LEMMA BeginKeeps ==
  ASSUME Typed, NEW p, Procs = {p}, NEW op \in AllOps,
         NEW a \in Addresses, NEW given \in Passwords, NEW new \in Passwords,
         Begin(p, op, a, given, new)
  PROVE  PromiseStep
<1> DEFINE others == UNION {Outcome(call[r].op, call[r].new) :
                              r \in {r \in Procs : Busy(r)
                                       /\ call[r].addr = a}}
           d == [IdleCall EXCEPT
                   !.op = op, !.addr = a, !.given = given, !.new = new,
                   !.at = FirstStep(op), !.ok = (op = "list"),
                   !.since = mishaps, !.over = others]
<1>1. call'[p] = d
  BY DEF Begin
<1>2. /\ d.op = op /\ d.at = FirstStep(op) /\ d.ok = (op = "list")
      /\ d.addr = a /\ d.given = given /\ d.new = new
  BY DEF IdleCall
<1> HIDE DEF d
<1>3. FirstStep(op) \in {"locate", "open", "stage", "scratch", "scan"}
  BY DEF FirstStep, AllOps
<1>4. ~Took(d)
  BY <1>2, <1>3 DEF Took, Writes
<1>5. Shown(d) = Promise!Call(op, a, given, new)
  BY <1>2, <1>3, <1>4 DEF Shown, Phase, Promise!Call
<1>6. Doing' = Promise!Call(op, a, given, new)
  BY <1>1, <1>5, SoleCall
<1>7. Doing = Promise!Idle
  BY SoleCall DEF Begin, Busy, Shown, Promise!Idle
<1>8. Acct' = Acct /\ Draft' = Draft
  BY VaultKept, StageKept DEF Begin, disk
<1>9. op \in Promise!AllOps
  BY DEF AllOps, Promise!AllOps, Promise!Writes
<1>10. QED
  BY <1>6, <1>7, <1>8, <1>9
     DEF PromiseStep, Promise!Next, Promise!Begin, Acct, Draft, Doing

LEMMA TossedKeeps ==
  ASSUME Typed, NEW p, Procs = {p}, At(p, "toss"), call' = Tossed(p),
         UNCHANGED <<vault, stage>>
  PROVE  PromiseStep
<1>1. call[p].at \in Underway /\ ~Took(call[p])
  BY DEF At, Underway, Steps, Took
<1>2. Acct' = Acct /\ Draft' = Draft
  BY VaultKept, StageKept
<1>3. Moves(p, IF call[p].ok THEN "stage" ELSE "answer", FALSE)
  BY TossedMoves
<1>4. CASE call[p].ok
  <2>1. Moves(p, "stage", FALSE) /\ "stage" \in Underway
    BY <1>3, <1>4 DEF Underway, Steps
  <2>2. ~Took(call'[p])
    BY <2>1 DEF Took, Moves
  <2>3. QED
    BY <1>1, <1>2, <2>1, <2>2, Continues
<1>5. CASE ~call[p].ok
  BY <1>1, <1>2, <1>3, <1>5, Refuses
<1>6. QED
  BY <1>4, <1>5

LEMMA OpeningKeeps ==
  ASSUME Typed, NEW p, Procs = {p},
         Find(p) \/ Miss(p) \/ Decrypt(p) \/ Scratch(p) \/ Unwrap(p) \/ Toss(p)
  PROVE  PromiseStep
<1>1. p \in Procs
  OBVIOUS
<1>2. Shaped(call[p])
  BY <1>1, CallFields
<1>3. CASE Find(p) \/ Miss(p) \/ Decrypt(p) \/ Scratch(p) \/ Unwrap(p)
  <2>1. /\ call[p].at \in {"locate", "open", "decrypt", "scratch", "unwrap"}
        /\ call[p].at \in Underway
        /\ ~call[p].ok /\ ~Took(call[p])
    BY <1>2, <1>3
       DEF Shaped, Find, Miss, Decrypt, Scratch, Unwrap, At, Underway, Steps,
           Took
  <2>2. Acct' = Acct /\ Draft' = Draft
    BY <1>3, VaultKept, StageKept
       DEF Find, Miss, Decrypt, Scratch, Unwrap, disk
  <2>3. CASE \E s \in {"open", "decrypt", "scan", "unwrap", "stage", "remove"} :
               Moves(p, s, call[p].ok)
    <3>1. PICK s \in {"open", "decrypt", "scan", "unwrap", "stage", "remove"} :
                 Moves(p, s, call[p].ok)
      BY <2>3
    <3>2. s \in Underway
      BY DEF Underway, Steps
    <3>3. ~Took(call'[p])
      BY <2>1, <3>1 DEF Took, Moves
    <3>4. QED
      BY <2>1, <2>2, <3>1, <3>2, <3>3, Continues
  <2>4. CASE \E b : Moves(p, "toss", b)
    <3>1. PICK b : Moves(p, "toss", b)
      BY <2>4
    <3>2. "toss" \in Underway
      BY DEF Underway, Steps
    <3>3. ~Took(call'[p])
      BY <3>1 DEF Took, Moves
    <3>4. QED
      BY <2>1, <2>2, <3>1, <3>2, <3>3, Continues
  <2>5. CASE Moves(p, "answer", FALSE)
    BY <2>1, <2>2, <2>5, Refuses
  <2>6. CASE Moves(p, "answer", TRUE) /\ call[p].op = "sign"
                                      /\ Live(call[p].addr) = call[p].given
    BY <2>1, <2>2, <2>6, Confirms DEF Writes
  <2>7. CASE Find(p)
    BY <1>1, <2>3, <2>7, FindMoves
  <2>8. CASE Miss(p)
    BY <1>1, <2>3, <2>5, <2>8, MissMoves
  <2>9. CASE Scratch(p)
    BY <1>1, <2>3, <2>9, ScratchMoves
  <2>10. CASE Unwrap(p)
    BY <1>1, <2>4, <2>10, GoWithMoves DEF Unwrap
  <2>11. CASE Decrypt(p)
    <3>1. call[p].op \in Opening
      BY <1>2, <2>11 DEF Shaped, Decrypt, At
    <3>2. CASE ~Opens(vault[call[p].addr], call[p].given)
      BY <1>1, <2>5, <2>11, <3>2, FailMoves DEF Decrypt
    <3>3. CASE Opens(vault[call[p].addr], call[p].given)
      <4>1. Live(call[p].addr) = call[p].given
        BY <3>3 DEF Opens, Live
      <4>2. CASE call[p].op = "sign"
        <5>1. GoWith(p, "answer", TRUE)
          BY <2>11, <3>3, <4>2 DEF Decrypt
        <5>2. Moves(p, "answer", TRUE)
          BY <1>1, <5>1, GoWithMoves
        <5>3. QED
          BY <2>6, <4>1, <4>2, <5>2
      <4>3. CASE call[p].op # "sign"
        <5>1. Go(p, "stage") \/ Go(p, "remove")
          BY <2>11, <3>1, <3>3, <4>3 DEF Decrypt, Opening
        <5>2. QED
          BY <1>1, <2>3, <5>1, GoMoves
      <4>4. QED
        BY <4>2, <4>3
    <3>4. QED
      BY <3>2, <3>3
  <2>12. QED
    BY <1>3, <2>7, <2>8, <2>9, <2>10, <2>11
<1>4. CASE Toss(p)
  BY <1>4, TossedKeeps DEF Toss
<1>5. QED
  BY <1>3, <1>4

\* Past the rename: the stage is dropped, or left, and the call goes on.
LEMMA DroppedKeeps ==
  ASSUME Typed, NEW p, Procs = {p}, At(p, "drop"),
         Go(p, IF call[p].ok /\ call[p].op # "rekey" THEN "record"
                                                     ELSE "answer"),
         vault' = vault,
         Draft' \in {Draft, [Draft EXCEPT ![call[p].addr] = Absent]}
  PROVE  PromiseStep
<1>1. p \in Procs
  OBVIOUS
<1>2. /\ call[p].at \in Underway /\ call[p].op \in Writes
      /\ Took(call[p]) <=> call[p].ok
  BY <1>1, CallFields DEF At, Shaped, Underway, Steps, Took
<1>3. call[p].addr \in Addresses /\ call[p].ok \in BOOLEAN
  BY <1>1, CallFields
<1>4. Acct' = Acct
  BY VaultKept
<1>5. CASE call[p].ok /\ call[p].op # "rekey"
  <2>1. Moves(p, "record", call[p].ok) /\ "record" \in Underway
    BY <1>1, <1>5, GoMoves DEF Underway, Steps
  <2>2. Took(call'[p])
    BY <1>2, <1>5, <2>1 DEF Took, Moves, SameCall
  <2>3. Doing' = Doing
    BY <1>2, <1>5, <2>1, <2>2, StaysShown
  <2>4. QED
    BY <1>3, <1>4, <2>3, DiscardStep, StutterStep
<1>6. CASE call[p].ok /\ call[p].op = "rekey"
  <2>1. call[p].ok = TRUE
    BY <1>3, <1>6
  <2>2. Moves(p, "answer", TRUE)
    BY <1>1, <1>6, <2>1, GoMoves
  <2>3. QED
    BY <1>2, <1>4, <1>6, <2>2, Confirms
<1>7. CASE ~call[p].ok
  <2>1. call[p].ok = FALSE
    BY <1>3, <1>7
  <2>2. Moves(p, "answer", FALSE)
    BY <1>1, <1>7, <2>1, GoMoves
  <2>3. QED
    BY <1>2, <1>4, <1>7, <2>2, Refuses
<1>8. QED
  BY <1>5, <1>6, <1>7

LEMMA WritingKeeps ==
  ASSUME Typed, NEW p, Procs = {p}, AloneInv(p), Writing(p)
  PROVE  PromiseStep
<1> DEFINE a == call[p].addr
           new == call[p].new
<1>1. p \in Procs
  OBVIOUS
<1>2. /\ call[p] \in Call /\ Shaped(call[p])
      /\ a \in Addresses /\ new \in Passwords
  BY <1>1, CallFields
<1>3. CASE Drop(p)
  <2>1. /\ stage' = [stage EXCEPT ![a] = NoStage] /\ vault' = vault
        /\ At(p, "drop")
        /\ Go(p, IF call[p].ok /\ call[p].op # "rekey" THEN "record"
                                                       ELSE "answer")
    BY <1>3 DEF Drop, Dropped
  <2>2. Draft' = [Draft EXCEPT ![a] = Absent]
    BY <1>2, <2>1, StageSet, NothingWhole
  <2>3. QED
    BY <2>1, <2>2, DroppedKeeps
<1>4. CASE ~Drop(p)
  <2>1. /\ call[p].at \in Storing /\ call[p].at \in Underway
        /\ call[p].op \in Writes
        /\ ~call[p].ok /\ ~Took(call[p])
    BY <1>2, <1>4
       DEF Writing, MakeStage, Create, Write, Promote, At, Shaped, Storing,
           Underway, Steps, Took
  <2>2. /\ Doing.op = call[p].op /\ Doing.addr = a /\ Doing.new = new
        /\ Doing.given = call[p].given /\ Doing.phase = "begun"
    BY <2>1, ShownFields
  <2>3. Promise!Allowed
    <3>1. call[p].op = "rekey" => Live(a) = call[p].given
      BY <2>1 DEF AloneInv, StillOpens
    <3>2. QED
      BY <1>2, <2>1, <2>2, <3>1 DEF Promise!Allowed, Doing, Writes
  <2>4. \A s \in Underway :
          Moves(p, s, call[p].ok) /\ s # "retire" => Doing' = Doing
    <3>1. TAKE s \in Underway
    <3>2. HAVE Moves(p, s, call[p].ok) /\ s # "retire"
    <3>3. ~Took(call'[p])
      BY <2>1, <3>2 DEF Took, Moves
    <3>4. QED
      BY <2>1, <3>2, <3>3, StaysShown
  <2>5. CASE MakeStage(p)
    <3>1. /\ vault' = vault /\ stage' = [stage EXCEPT ![a] = NoFile]
          /\ Moves(p, "create", call[p].ok)
      BY <1>1, <2>5, GoMoves DEF MakeStage
    <3>2. Draft' = [Draft EXCEPT ![a] = Absent]
      BY <1>2, <3>1, StageSet, NothingWhole
    <3>3. Doing' = Doing
      BY <2>4, <3>1 DEF Underway, Steps
    <3>4. QED
      BY <1>2, <3>1, <3>2, <3>3, VaultKept, DiscardStep
  <2>6. CASE Create(p)
    <3>1. stage[a] = NoFile /\ NoFile # NoStage
      BY <2>6, FileAssumption DEF FileAssumption, Create, AloneInv, StageIs
    <3>2. /\ vault' = vault /\ stage' = [stage EXCEPT ![a] = Created(NoFile, p)]
          /\ Moves(p, "write", call[p].ok)
      BY <1>1, <2>6, <3>1, GoMoves DEF Create
    <3>3. Whole(Created(NoFile, p)) = Absent
      BY DEF Created, Whole, Openable
    <3>4. Draft' = [Draft EXCEPT ![a] = Absent]
      BY <1>2, <3>2, <3>3, StageSet
    <3>5. Doing' = Doing
      BY <2>4, <3>2 DEF Underway, Steps
    <3>6. QED
      BY <1>2, <3>2, <3>4, <3>5, VaultKept, DiscardStep
  <2>7. CASE Write(p)
    <3>1. stage[a] = [content |-> Torn, by |-> {p}]
      BY <2>7 DEF Write, AloneInv, StageIs
    <3>2. stage[a] \in File /\ IsFile(stage[a])
      BY <1>1, <3>1, FileAssumption DEF FileAssumption, File, IsFile
    <3>3. Written(stage[a], p, new) = [content |-> new, by |-> {}]
      BY <3>1, <3>2 DEF Written
    <3>4. [content |-> new, by |-> {}] \in File /\ new # Torn
      BY <1>2, VaultsAssumption DEF VaultsAssumption, File
    <3>5. Whole([content |-> new, by |-> {}]) = new
      BY <3>4, FileAssumption DEF FileAssumption, Whole, Openable, IsFile
    <3>6. Written(vault[a], p, new) = vault[a]
      BY <1>2 DEF Written, AloneInv, FilesShut
    <3>7. /\ vault' = vault
          /\ stage' = [stage EXCEPT ![a] = [content |-> new, by |-> {}]]
          /\ Moves(p, "promote", call[p].ok)
      BY <1>1, <1>2, <2>7, <3>3, <3>6, GoMoves DEF Write, Typed, TypeOK
    <3>8. Draft' = [Draft EXCEPT ![a] = new]
      BY <1>2, <3>5, <3>7, StageSet
    <3>9. Doing' = Doing
      BY <2>4, <3>7 DEF Underway, Steps
    <3>10. QED
      BY <2>1, <2>2, <2>3, <3>7, <3>8, <3>9, VaultKept, PrepareStep
         DEF Promise!Pending, Doing
  <2>8. CASE Promote(p)
    <3>1. stage[a] = [content |-> new, by |-> {}]
      BY <2>8 DEF Promote, AloneInv, StageIs
    <3>2. stage[a] \in File /\ IsFile(stage[a])
      BY <1>2, <3>1, FileAssumption DEF FileAssumption, File, IsFile
    <3>3. new # Torn
      BY <1>2, VaultsAssumption DEF VaultsAssumption
    <3>4. Whole(stage[a]) = new
      BY <3>1, <3>2, <3>3 DEF Whole, Openable
    <3>5. /\ vault' = [vault EXCEPT ![a] = stage[a]]
          /\ stage' = [stage EXCEPT ![a] = NoFile]
      BY <2>8, <3>2 DEF Promote, Movable
    <3>6. Promotable(stage[a]) = TRUE
      BY <3>2 DEF Promotable, IsFile
    <3>7. Moves(p, "drop", TRUE)
      BY <1>1, <2>8, <3>6, GoWithMoves DEF Promote
    <3>8. Acct' = [Acct EXCEPT ![a] = new]
      <4>1. Acct' = [Acct EXCEPT ![a] = IF IsFile(stage[a])
                                          THEN stage[a].content ELSE Absent]
        BY <1>2, <3>5, VaultSet
      <4>2. stage[a].content = new
        BY <3>1
      <4>3. QED
        BY <3>2, <4>1, <4>2
    <3>9. Draft' = [Draft EXCEPT ![a] = Absent] /\ Draft[a] = new
      <4>1. Draft' = [Draft EXCEPT ![a] = Whole(NoFile)]
        BY <1>2, <3>5, StageSet
      <4>2. Draft[a] = new
        BY <1>2, <3>4 DEF Draft
      <4>3. QED
        BY <4>1, <4>2, NothingWhole
    <3>10. Took(call'[p]) /\ "drop" \in Underway
      BY <2>1, <3>7 DEF Took, Moves, SameCall, Underway, Steps
    <3>11. Doing' = [Doing EXCEPT !.phase = "took"]
      BY <2>1, <3>7, <3>10, TakesShown
    <3>12. QED
      BY <2>1, <2>2, <2>3, <3>8, <3>9, <3>11, PublishStep
  <2>9. QED
    BY <1>4, <2>5, <2>6, <2>7, <2>8 DEF Writing
<1>5. QED
  BY <1>3, <1>4

LEMMA BookingKeeps ==
  ASSUME Typed, NEW p, Procs = {p}, AloneInv(p),
         Record(p) \/ Remove(p) \/ Retire(p) \/ Answer(p) \/ BookFails(p)
  PROVE  PromiseStep
<1> DEFINE a == call[p].addr
<1>1. p \in Procs
  OBVIOUS
<1>2. Shaped(call[p]) /\ a \in Addresses
  BY <1>1, CallFields
<1>3. CASE Answer(p)
  <2>1. call'[p] = IdleCall
    BY <1>3 DEF Answer, Typed, TypeOK
  <2>2. Shown(IdleCall) = Promise!Idle
    BY DEF IdleCall, Shown, Promise!Idle
  <2>3. Doing' = Promise!Idle
    BY <2>1, <2>2, SoleCall
  <2>4. QED
    BY <1>3, <2>3, VaultKept, StageKept, EndStep DEF Answer, disk
<1>4. CASE Remove(p)
  <2>1. /\ call[p].at = "remove" /\ call[p].at \in Underway
        /\ call[p].op = "delete" /\ ~call[p].ok /\ ~Took(call[p])
    BY <1>2, <1>4 DEF Remove, At, Shaped, Underway, Steps, Took
  <2>2. /\ Doing.op = "delete" /\ Doing.addr = a
        /\ Doing.given = call[p].given /\ Doing.phase = "begun"
    BY <2>1, ShownFields
  <2>3. Live(a) = call[p].given
    BY <2>1 DEF AloneInv, StillOpens, At
  <2>4. Promise!Allowed
    BY <1>2, <2>2, <2>3 DEF Promise!Allowed, Doing
  <2>5. /\ vault' = [vault EXCEPT ![a] = NoFile] /\ stage' = stage
        /\ Moves(p, "retire", call[p].ok)
    BY <1>1, <1>4, GoMoves DEF Remove
  <2>6. Acct' = [Acct EXCEPT ![a] = Absent]
    <3>1. Acct' = [Acct EXCEPT ![a] = IF IsFile(NoFile)
                                        THEN NoFile.content ELSE Absent]
      BY <1>2, <2>5, VaultSet
    <3>2. QED
      BY <3>1 DEF IsFile
  <2>7. Took(call'[p]) /\ "retire" \in Underway
    BY <2>1, <2>5 DEF Took, Moves, SameCall, Underway, Steps
  <2>8. Doing' = [Doing EXCEPT !.phase = "took"]
    BY <2>1, <2>5, <2>7, TakesShown
  <2>9. QED
    BY <2>2, <2>4, <2>5, <2>6, <2>8, StageKept, RemoveStep
<1>5. CASE Record(p) \/ Retire(p) \/ BookFails(p)
  <2>1. /\ call[p].at \in {"record", "remove", "retire"}
        /\ call[p].at \in Underway
        /\ call[p].op \in Stores \union {"delete"}
    BY <1>2, <1>5
       DEF Record, Retire, BookFails, At, Shaped, Underway, Steps
  <2>2. Acct' = Acct /\ Draft' = Draft
    BY <1>5, VaultKept, StageKept DEF Record, Retire, BookFails, disk
  <2>3. CASE Fail(p)
    <3>1. Moves(p, "answer", FALSE)
      BY <1>1, <2>3, FailMoves
    <3>2. QED
      BY <2>1, <2>2, <3>1, Refuses DEF Stores
  <2>4. CASE Announce(p) /\ call[p].at # "remove"
    <3>1. Moves(p, "scan", TRUE) /\ "scan" \in Underway
      BY <1>1, <2>4, AnnounceMoves DEF Underway, Steps
    <3>2. Took(call[p]) /\ Took(call'[p])
      BY <1>2, <2>1, <2>4, <3>1
         DEF Took, Shaped, Moves, SameCall, Stores, Writes
    <3>3. QED
      BY <2>1, <2>2, <3>1, <3>2, Continues
  <2>5. QED
    BY <1>5, <2>3, <2>4 DEF Record, Retire, BookFails, At
<1>6. QED
  BY <1>3, <1>4, <1>5

\* settle returns to the call: an outcome carried along is confirmed.
LEMMA ResumedKeeps ==
  ASSUME Typed, NEW p, Procs = {p}, call[p].at \in SettleSteps,
         Moves(p, call[p].back, call[p].ok), UNCHANGED <<vault, stage>>
  PROVE  PromiseStep
<1>1. p \in Procs
  OBVIOUS
<1>2. /\ Shaped(call[p]) /\ call[p].ok \in BOOLEAN
      /\ call[p].back \in {"locate", "open", "answer"}
  BY <1>1, CallFields
<1>3. Acct' = Acct /\ Draft' = Draft
  BY VaultKept, StageKept
<1>4. call[p].at \in Underway
  BY DEF SettleSteps, Underway, Steps
<1>5. CASE call[p].back = "answer"
  <2>1. /\ call[p].ok = TRUE
        /\ call[p].op \notin {"sign", "rekey"}
    BY <1>2, <1>5 DEF Shaped
  <2>2. call[p].op \in Writes \union {"delete"} => Took(call[p])
    BY <2>1 DEF Took, SettleSteps
  <2>3. QED
    BY <1>3, <1>4, <1>5, <2>1, <2>2, Confirms
<1>6. CASE call[p].back # "answer"
  <2>1. ~call[p].ok /\ call[p].back \in Underway
    BY <1>2, <1>6 DEF Shaped, Underway, Steps
  <2>2. ~Took(call[p]) /\ ~Took(call'[p])
    BY <1>2, <1>6, <2>1 DEF Took, Moves, SettleSteps
  <2>3. QED
    BY <1>3, <1>4, <2>1, <2>2, Continues
<1>7. QED
  BY <1>5, <1>6

LEMMA SettlingKeeps ==
  ASSUME Typed, NEW p, Procs = {p}, AloneInv(p),
         Settling(p) \/ RepairFails(p)
  PROVE  PromiseStep
<1> DEFINE a == call[p].item
<1>1. p \in Procs
  OBVIOUS
<1>2. a \in Addresses
  BY <1>1, CallFields
<1>3. call[p].at \in SettleSteps /\ call[p].at \in Underway
  BY DEF Settling, SettleScan, SettleLock, SettleSweep, SettleCheck,
         SettleRename, SettleClear, SettleDone, RepairFails, At, SettleSteps,
         Underway, Steps
<1>4. ASSUME NEW s \in SettleSteps, Moves(p, s, call[p].ok)
      PROVE  Doing' = Doing
  <2>1. Took(call'[p]) <=> Took(call[p])
    BY <1>3, <1>4 DEF Took, Moves, SameCall, SettleSteps
  <2>2. s \in Underway
    BY DEF SettleSteps, Underway, Steps
  <2>3. QED
    BY <1>3, <1>4, <2>1, <2>2, StaysShown
<1>5. CASE SettleRename(p)
  <2>1. ~IsFile(vault[a]) /\ Openable(stage[a])
    BY <1>5 DEF SettleRename, AloneInv, RepairStands, Repairs
  <2>2. /\ vault' = [vault EXCEPT ![a] = stage[a]]
        /\ stage' = [stage EXCEPT ![a] = NoFile]
        /\ Moves(p, "clear", call[p].ok)
    BY <1>1, <1>5, <2>1, GoMoves DEF SettleRename, Openable
  <2>3. Acct[a] = Absent /\ Draft[a] = stage[a].content
    BY <1>2, <2>1 DEF Acct, Live, Draft, Whole
  <2>4. Draft[a] # Absent
    <3>1. stage[a] \in File
      BY <1>2, <2>1 DEF Typed, TypeOK, Openable, IsFile
    <3>2. QED
      BY <2>1, <2>3, <3>1, VaultsAssumption
         DEF VaultsAssumption, File, Openable
  <2>5. Acct' = [Acct EXCEPT ![a] = Draft[a]]
    <3>1. Acct' = [Acct EXCEPT ![a] = IF IsFile(stage[a])
                                        THEN stage[a].content ELSE Absent]
      BY <1>2, <2>2, VaultSet
    <3>2. IsFile(stage[a])
      BY <2>1 DEF Openable
    <3>3. QED
      BY <2>3, <3>1, <3>2
  <2>6. Draft' = [Draft EXCEPT ![a] = Absent]
    BY <1>2, <2>2, StageSet, NothingWhole
  <2>7. Doing' = Doing
    BY <1>4, <2>2 DEF SettleSteps
  <2>8. QED
    BY <1>2, <2>3, <2>4, <2>5, <2>6, <2>7, RecoverStep
<1>6. CASE SettleClear(p)
  <2>1. /\ vault' = vault
        /\ stage' = [stage EXCEPT ![a] = NoStage]
        /\ Moves(p, "check", call[p].ok)
    BY <1>1, <1>6, ClearMoves DEF SettleClear
  <2>2. Draft' = [Draft EXCEPT ![a] = Absent]
    BY <1>2, <2>1, StageSet, NothingWhole
  <2>3. Doing' = Doing
    BY <1>4, <2>1 DEF SettleSteps
  <2>4. QED
    BY <1>2, <2>1, <2>2, <2>3, VaultKept, DiscardStep
<1>7. CASE ~SettleRename(p) /\ ~SettleClear(p)
  <2>1. UNCHANGED <<vault, stage>>
    BY <1>7 DEF Settling, SettleScan, SettleLock, SettleSweep, SettleCheck,
                SettleDone, RepairFails, disk
  <2>2. Acct' = Acct /\ Draft' = Draft
    BY <2>1, VaultKept, StageKept
  <2>3. \/ Moves(p, call[p].back, call[p].ok)
        \/ \E s \in SettleSteps : Moves(p, s, call[p].ok)
    <3>1. CASE SettleScan(p)
      BY <1>1, <3>1, ScanMoves DEF SettleSteps
    <3>2. CASE SettleLock(p)
      BY <1>1, <3>2, GoMoves, SkippedMoves DEF SettleLock, SettleSteps
    <3>3. CASE SettleSweep(p)
      BY <1>1, <3>3, SweepMoves DEF SettleSweep, SettleSteps
    <3>4. CASE SettleCheck(p)
      BY <1>1, <3>4, CheckMoves DEF SettleSteps
    <3>5. CASE SettleDone(p)
      BY <1>1, <3>5, ResumeMoves DEF SettleDone
    <3>6. CASE RepairFails(p)
      BY <1>1, <3>6, SkippedMoves, SweepMoves, GoMoves, ClearMoves
         DEF RepairFails, SettleSteps
    <3>7. QED
      BY <1>7, <3>1, <3>2, <3>3, <3>4, <3>5, <3>6 DEF Settling
  <2>4. CASE Moves(p, call[p].back, call[p].ok)
    BY <1>3, <2>1, <2>4, ResumedKeeps
  <2>5. CASE \E s \in SettleSteps : Moves(p, s, call[p].ok)
    BY <1>4, <2>2, <2>5, StutterStep
  <2>6. QED
    BY <2>3, <2>4, <2>5
<1>8. QED
  BY <1>5, <1>6, <1>7

\* A closed handle changes nothing of what can be opened.
LEMMA ClosedSame ==
  ASSUME NEW f \in File \union {NoFile, NoStage}, NEW p
  PROVE  /\ IsFile(Closed(f, p)) <=> IsFile(f)
         /\ IsFile(f) => Closed(f, p).content = f.content
         /\ Whole(Closed(f, p)) = Whole(f)
<1>1. CASE f \in File
  <2>1. IsFile(f) /\ \A g \in File : IsFile(g)
    BY <1>1, FileAssumption DEF FileAssumption, IsFile
  <2>2. /\ [f EXCEPT !.by = @ \ {p}] \in File
        /\ [f EXCEPT !.by = @ \ {p}].content = f.content
    BY <1>1 DEF File
  <2>3. Closed(f, p) = [f EXCEPT !.by = @ \ {p}]
    BY <2>1 DEF Closed
  <2>4. QED
    BY <2>1, <2>2, <2>3 DEF Whole, Openable
<1>2. CASE f \notin File
  <2>1. ~IsFile(f)
    BY <1>2 DEF IsFile
  <2>2. QED
    BY <2>1 DEF Closed
<1>3. QED
  BY <1>1, <1>2

LEMMA ClosingKeeps ==
  ASSUME Typed, NEW p,
         \A b \in Addresses : /\ vault'[b] \in {vault[b], Closed(vault[b], p)}
                              /\ stage'[b] \in {stage[b], Closed(stage[b], p)}
  PROVE  Acct' = Acct /\ Draft' = Draft
<1>1. \A b \in Addresses : /\ vault[b] \in File \union {NoFile, NoStage}
                           /\ stage[b] \in File \union {NoFile, NoStage}
  BY DEF Typed, TypeOK
<1>2. \A b \in Addresses : Live(b)' = Live(b)
  BY <1>1, ClosedSame DEF Live
<1>3. \A b \in Addresses : Whole(stage'[b]) = Whole(stage[b])
  BY <1>1, ClosedSame
<1>4. QED
  BY <1>2, <1>3 DEF Acct, Draft

LEMMA FailingKeeps ==
  ASSUME Typed, NEW p, Procs = {p},
         Kill(p) \/ WriteFails(p) \/ CleanupFails(p)
  PROVE  PromiseStep
<1> DEFINE a == call[p].addr
<1>1. p \in Procs
  OBVIOUS
<1>2. Shaped(call[p]) /\ a \in Addresses
  BY <1>1, CallFields
<1>3. CASE Kill(p)
  <2>1. call'[p] = IdleCall
    BY <1>3 DEF Kill, Typed, TypeOK
  <2>2. Shown(IdleCall) = Promise!Idle
    BY DEF IdleCall, Shown, Promise!Idle
  <2>3. Doing' = Promise!Idle
    BY <2>1, <2>2, SoleCall
  <2>4. Acct' = Acct /\ Draft' = Draft
    BY <1>3, ClosingKeeps DEF Kill
  <2>5. QED
    BY <2>3, <2>4, EndStep
<1>4. CASE WriteFails(p)
  <2>1. CASE At(p, "scratch") \/ At(p, "stage")
    <3>1. /\ call[p].at \in Underway /\ ~Took(call[p])
      BY <1>2, <2>1 DEF At, Shaped, Took, Underway, Steps
    <3>2. Moves(p, "answer", FALSE) /\ vault' = vault
      BY <1>1, <1>4, <2>1, FailMoves DEF WriteFails, At
    <3>3. \/ stage' = stage
          \/ stage' = [stage EXCEPT ![a] = NoStage]
      BY <1>4, <2>1 DEF WriteFails, At
    <3>4. Draft' \in {Draft, [Draft EXCEPT ![a] = Absent]}
      BY <1>2, <3>3, StageKept, StageSet, NothingWhole
    <3>5. QED
      BY <3>1, <3>2, <3>4, VaultKept, Refuses
  <2>2. CASE At(p, "create") \/ At(p, "write") \/ At(p, "promote")
    <3>1. /\ call[p].at \in Underway /\ ~Took(call[p])
      BY <1>2, <2>2 DEF At, Shaped, Took, Underway, Steps
    <3>2. /\ Moves(p, "drop", FALSE)
          /\ vault' = [vault EXCEPT ![a] = Closed(@, p)]
          /\ stage' = [stage EXCEPT ![a] = Closed(@, p)]
      BY <1>1, <1>4, <2>2, GoWithMoves DEF WriteFails, At
    <3>3. Acct' = Acct /\ Draft' = Draft
      <4>1. \A b \in Addresses :
              /\ vault'[b] \in {vault[b], Closed(vault[b], p)}
              /\ stage'[b] \in {stage[b], Closed(stage[b], p)}
        BY <3>2 DEF Typed, TypeOK
      <4>2. QED
        BY <4>1, ClosingKeeps
    <3>4. ~Took(call'[p]) /\ "drop" \in Underway
      BY <3>2 DEF Took, Moves, Underway, Steps
    <3>5. QED
      BY <3>1, <3>2, <3>3, <3>4, Continues
  <2>3. QED
    BY <1>4, <2>1, <2>2 DEF WriteFails
<1>5. CASE CleanupFails(p)
  <2>1. UNCHANGED <<vault, stage>>
    BY <1>5 DEF CleanupFails, disk
  <2>2. CASE At(p, "toss")
    BY <1>5, <2>1, <2>2, TossedKeeps DEF CleanupFails, At
  <2>3. CASE At(p, "drop")
    BY <1>5, <2>1, <2>3, StageKept, DroppedKeeps DEF CleanupFails, At
  <2>4. QED
    BY <1>5, <2>2, <2>3 DEF CleanupFails
<1>6. QED
  BY <1>3, <1>4, <1>5

LEMMA NextKeeps ==
  ASSUME NEW p, Procs = {p}, Typed, AloneInv(p), [Next]_vars
  PROVE  PromiseStep
<1>1. CASE UNCHANGED vars
  BY <1>1, VaultKept, StageKept, StutterStep DEF vars, Doing
<1>2. CASE Next
  <2>1. Calls(p) \/ Proceed(p) \/ Fails(p)
    BY <1>2 DEF Next
  <2>2. CASE Calls(p)
    BY <2>2, BeginKeeps, VaultsAssumption DEF VaultsAssumption, Calls
  <2>3. CASE Proceed(p)
    BY <2>3, OpeningKeeps, WritingKeeps, BookingKeeps, SettlingKeeps DEF Proceed
  <2>4. CASE Fails(p)
    BY <2>4, BookingKeeps, SettlingKeeps, FailingKeeps DEF Fails
  <2>5. QED
    BY <2>1, <2>2, <2>3, <2>4
<1>3. QED
  BY <1>1, <1>2

LEMMA InitKeeps ==
  ASSUME NEW p, Procs = {p}, Init
  PROVE  Promise!Init
<1>1. call[p] = IdleCall
  BY DEF Init
<1>2. Doing = Promise!Idle
  BY <1>1, SoleCall DEF IdleCall, Shown, Promise!Idle
<1>3. \A a \in Addresses : Live(a) = Absent /\ Whole(stage[a]) = Absent
  BY DEF Init, Live, Whole, Openable, IsFile
<1>4. QED
  BY <1>2, <1>3 DEF Promise!Init, Doing

\* A single process keeps what AccountStore promises its callers, however
\* often it is killed or a system call fails: every call takes effect at one
\* moment or not at all (write_vault, delete_account, settle).
THEOREM VaultsImplement ==
  ASSUME NEW p, Procs = {p}
  PROVE  Spec => KeepsPromise
<1> DEFINE Inv == Typed /\ AloneInv(p)
<1>1. p \in Procs
  OBVIOUS
<1>2. Init => Inv /\ Promise!Init
  BY <1>1, InitTyped, InitAlone, InitKeeps
<1>3. Inv /\ [Next]_vars => Inv' /\ [Promise!Next]_(Promise!store)
  BY NextTyped, NextAlone, NextKeeps DEF PromiseStep
<1>4. QED
  BY <1>2, <1>3, PTL DEF Spec, KeepsPromise, Promise!Spec

-----------------------------------------------------------------------------
(* Rows and vaults. *)

\* A file in a stage is that of the write in progress, or was left by a call
\* that was cut between its vault and its row.
LeftTroubled(p) ==
  \A a \in Addresses :
    IsFile(stage[a]) =>
      \/ a \in troubled
      \/ /\ call[p].addr = a /\ ~call[p].ok
         /\ call[p].at \in {"write", "promote", "drop"}

\* A write that took effect has its vault, and nothing in its stage.
StoredAway(p) ==
  LET c == call[p]
  IN  c.op \in Writes /\ c.ok /\ c.at # "toss" =>
        IsFile(vault[c.addr]) /\ ~IsFile(stage[c.addr])

\* A removed vault is gone while its row is taken out.
GoneAway(p) == At(p, "retire") => ~IsFile(vault[call[p].addr])

\* The row is owed by a call that has changed the vault.
Owed(p, a) ==
  /\ call[p].addr = a
  /\ \/ call[p].op \in Stores /\ call[p].ok /\ call[p].at \in {"drop", "record"}
     \/ call[p].at = "retire"

\* Vault and row go together, but for what was cut and what is owed.
RowsAgree(p) ==
  \A a \in Addresses \ troubled : (IsFile(vault[a]) <=> a \in rows) \/ Owed(p, a)

\* A stored account has its row once it is past it.
Booked(p) ==
  LET c == call[p]
  IN  c.op \in Stores /\ c.ok /\ c.at \notin {"toss", "drop", "record"}
        => c.addr \in rows

RowInv(p) ==
  LeftTroubled(p) /\ StoredAway(p) /\ GoneAway(p) /\ RowsAgree(p) /\ Booked(p)

\* No file comes to a stage, and none to a vault's path or from it.
FilesStand ==
  \A a \in Addresses : /\ IsFile(vault'[a]) <=> IsFile(vault[a])
                       /\ IsFile(stage'[a]) => IsFile(stage[a])

LEMMA CalmRow ==
  ASSUME Typed, NEW p \in Procs, RowInv(p), NEW s, NEW b \in BOOLEAN,
         Moves(p, s, b), FilesStand, UNCHANGED <<rows, troubled>>,
         call[p].at \notin {"write", "promote", "drop", "record", "retire"},
         s # "retire", s \in {"drop", "record"} => ~b,
         b => \/ call[p].ok /\ call[p].at # "toss"
              \/ call[p].op \notin Writes
              \/ s = "toss"
  PROVE  RowInv(p)'
<1>1. Stores \subseteq Writes /\ call[p].addr \in Addresses
  BY CallFields DEF Stores, Writes
<1>2. LeftTroubled(p)' /\ GoneAway(p)' /\ RowsAgree(p)'
  BY DEF RowInv, LeftTroubled, GoneAway, RowsAgree, Owed, FilesStand, Moves,
         SameCall, At
<1>3. StoredAway(p)'
  BY <1>1 DEF RowInv, StoredAway, FilesStand, Moves, SameCall
<1>4. Booked(p)'
  BY <1>1 DEF RowInv, Booked, Moves, SameCall
<1> QED
  BY <1>2, <1>3, <1>4 DEF RowInv

LEMMA BeginRow ==
  ASSUME Typed, NEW p \in Procs, RowInv(p), NEW op \in AllOps,
         NEW a \in Addresses, NEW given \in Passwords, NEW new \in Passwords,
         Begin(p, op, a, given, new)
  PROVE  RowInv(p)'
<1>1. /\ call'[p].op = op /\ call'[p].at = FirstStep(op)
      /\ call'[p].ok = (op = "list")
  BY DEF Begin, IdleCall
<1>2. /\ FirstStep(op) \in {"locate", "open", "stage", "scratch", "scan"}
      /\ "list" \notin Writes
  BY DEF FirstStep, AllOps, Writes
<1>3. call[p].at = "idle" /\ UNCHANGED <<vault, stage, rows, troubled>>
  BY DEF Begin, Busy, disk
<1> QED
  BY <1>1, <1>2, <1>3 DEF RowInv, LeftTroubled, StoredAway, GoneAway, RowsAgree,
                          Owed, Booked, At, Stores, Writes

LEMMA OpeningRow ==
  ASSUME Typed, NEW p \in Procs, RowInv(p),
         Find(p) \/ Miss(p) \/ Decrypt(p) \/ Scratch(p) \/ Unwrap(p) \/ Toss(p)
  PROVE  RowInv(p)'
<1>1. /\ FilesStand /\ UNCHANGED <<rows, troubled>>
      /\ call[p].at \in {"locate", "open", "decrypt", "scratch", "unwrap", "toss"}
      /\ call[p].at # "toss" => ~call[p].ok
      /\ call[p].ok \in BOOLEAN
  BY CallFields DEF Find, Miss, Decrypt, Scratch, Unwrap, Toss, disk, history, At,
                    Shaped, FilesStand
<1>2. CASE \E s \in {"open", "decrypt", "scan", "answer", "unwrap", "stage", "remove"} :
             Moves(p, s, FALSE)
  BY <1>1, <1>2, CalmRow
<1>3. CASE Decrypt(p)
  <2>1. call[p].ok = FALSE
    BY <1>1, <1>3 DEF Decrypt, At
  <2>2. Moves(p, "answer", TRUE) /\ call[p].op = "sign" => RowInv(p)'
    BY <1>1, CalmRow DEF Writes
  <2> QED
    BY <1>2, <1>3, <2>1, <2>2, DecryptMoves
<1>4. CASE Unwrap(p)
  <2>1. PICK b \in BOOLEAN : Moves(p, "toss", b)
    BY <1>4, GoWithMoves DEF Unwrap
  <2> QED
    BY <1>1, <2>1, CalmRow
<1>5. CASE Toss(p)
  BY <1>2, <1>5, TossedMoves DEF Toss
<1>6. CASE Find(p) \/ Miss(p) \/ Scratch(p)
  <2>1. call[p].ok = FALSE
    BY <1>1, <1>6 DEF Find, Miss, Scratch, At
  <2> QED
    BY <1>2, <1>6, <2>1, FindMoves, MissMoves, ScratchMoves
<1> QED
  BY <1>3, <1>4, <1>5, <1>6

\* Steps that fill a stage, or give up filling it.
LEMMA FillRow ==
  ASSUME Typed, NEW p \in Procs, RowInv(p), NEW s, Moves(p, s, FALSE),
         ~call[p].ok, s \in {"write", "promote", "drop"},
         \A a \in Addresses :
           /\ IsFile(vault'[a]) <=> IsFile(vault[a])
           /\ IsFile(stage'[a]) => IsFile(stage[a]) \/ call[p].addr = a,
         call[p].at \in {"create", "write", "promote"},
         UNCHANGED <<rows, troubled>>
  PROVE  RowInv(p)'
BY DEF RowInv, LeftTroubled, StoredAway, GoneAway, RowsAgree, Owed, Booked, Moves,
       SameCall, At

LEMMA WritingRow ==
  ASSUME Typed, NEW p \in Procs, AloneInv(p), RowInv(p), Writing(p)
  PROVE  RowInv(p)'
<1>0. PICK a \in Addresses : a = call[p].addr
  BY CallFields
<1>1. /\ call[p].at \in {"stage", "create", "write", "promote", "drop"}
      /\ call[p].op \in Writes /\ UNCHANGED <<rows, troubled>>
      /\ call[p].ok \in BOOLEAN /\ call[p].new \in Passwords
      /\ call[p].at # "drop" => call[p].ok = FALSE
  BY CallFields
     DEF Writing, MakeStage, Create, Write, Promote, Drop, history, At, Shaped
<1>2. /\ vault \in [Addresses -> File \union {NoFile}]
      /\ stage \in [Addresses -> File \union {NoFile, NoStage}]
      /\ ~IsFile(NoFile) /\ ~IsFile(NoStage)
  BY DEF Typed, TypeOK, IsFile
<1>3. CASE MakeStage(p)
  <2>1. /\ vault' = vault /\ stage' = [stage EXCEPT ![a] = NoFile]
        /\ Moves(p, "create", FALSE) /\ call[p].at = "stage"
    BY <1>0, <1>1, <1>3, GoMoves DEF MakeStage, At
  <2>2. FilesStand
    BY <1>2, <2>1 DEF FilesStand
  <2> QED
    BY <1>1, <2>1, <2>2, CalmRow
<1>4. CASE Create(p)
  <2>1. /\ vault' = vault /\ call[p].at = "create"
        /\ \A b \in Addresses \ {a} : stage'[b] = stage[b]
        /\ Moves(p, "write", FALSE) \/ Moves(p, "drop", FALSE)
    BY <1>0, <1>1, <1>2, <1>4, GoMoves, GoWithMoves DEF Create, At
  <2> QED
    BY <1>0, <1>1, <2>1, FillRow
<1>5. CASE Write(p)
  <2>1. /\ vault' = [vault EXCEPT ![a] = Written(@, p, call[p].new)]
        /\ stage' = [stage EXCEPT ![a] = Written(@, p, call[p].new)]
        /\ Moves(p, "promote", FALSE) /\ call[p].at = "write"
    BY <1>0, <1>1, <1>5, GoMoves DEF Write, At
  <2>2. /\ IsFile(Written(vault[a], p, call[p].new)) <=> IsFile(vault[a])
        /\ IsFile(Written(stage[a], p, call[p].new)) <=> IsFile(stage[a])
    <3>1. vault[a] \in File \union {NoFile, NoStage}
          /\ stage[a] \in File \union {NoFile, NoStage}
      BY <1>2
    <3>2. \A f \in File \union {NoFile, NoStage} :
            IsFile(Written(f, p, call[p].new)) <=> IsFile(f)
      <4> TAKE f \in File \union {NoFile, NoStage}
      <4>1. CASE f \in File
        BY <1>1, <4>1, FileTyped, FileAssumption DEF FileAssumption, IsFile
      <4>2. CASE f \notin File
        BY <1>1, <4>2, FileTyped
      <4> QED
        BY <4>1, <4>2
    <3> QED
      BY <3>1, <3>2
  <2>3. \A b \in Addresses : /\ IsFile(vault'[b]) <=> IsFile(vault[b])
                             /\ IsFile(stage'[b]) <=> IsFile(stage[b])
    BY <1>2, <2>1, <2>2
  <2> QED
    BY <1>1, <2>1, <2>3, FillRow
<1>6. CASE Promote(p)
  <2>1. /\ At(p, "promote") /\ IsFile(stage[a])
        /\ vault' = [vault EXCEPT ![a] = stage[a]]
        /\ stage' = [stage EXCEPT ![a] = NoFile]
        /\ Moves(p, "drop", TRUE)
    <3>1. At(p, "promote") /\ stage[a] = [content |-> call[p].new, by |-> {}]
      BY <1>0, <1>6 DEF Promote, AloneInv, StageIs
    <3>2. stage[a] \in File
      BY <1>1, <3>1 DEF File
    <3>3. IsFile(stage[a])
      BY <3>2, FileAssumption DEF FileAssumption, IsFile
    <3>4. Promotable(stage[a]) = TRUE /\ Movable(stage[a])
      BY <3>3 DEF Promotable, Movable, IsFile
    <3> QED
      BY <1>0, <1>6, <3>1, <3>3, <3>4, GoWithMoves DEF Promote
  <2>2. /\ IsFile(vault'[a]) /\ ~IsFile(stage'[a])
        /\ \A b \in Addresses \ {a} : vault'[b] = vault[b] /\ stage'[b] = stage[b]
    BY <1>2, <2>1
  <2>3. call[p].op = "rekey" => IsFile(vault[a])
    <3>1. call[p].op = "rekey" => Live(a) = call[p].given
      BY <1>0, <2>1 DEF AloneInv, StillOpens, Storing, At
    <3> QED
      BY <3>1, CallFields, VaultsAssumption DEF Live, VaultsAssumption
  <2>4. LeftTroubled(p)' /\ StoredAway(p)' /\ GoneAway(p)' /\ Booked(p)'
    BY <1>0, <1>1, <2>1, <2>2
       DEF RowInv, LeftTroubled, StoredAway, GoneAway, Booked, Moves, SameCall, At
  <2>5. RowsAgree(p)'
    BY <1>0, <1>1, <2>1, <2>2, <2>3
       DEF RowInv, RowsAgree, Owed, Moves, SameCall, At, Stores, Writes
  <2> QED
    BY <2>4, <2>5 DEF RowInv
<1>7. CASE Drop(p)
  <2>1. /\ vault' = vault /\ stage' = [stage EXCEPT ![a] = NoStage]
        /\ call[p].at = "drop"
        /\ Moves(p, IF call[p].ok /\ call[p].op # "rekey" THEN "record" ELSE "answer",
                 call[p].ok)
    BY <1>0, <1>7, GoMoves DEF Drop, Dropped, At
  <2>2. /\ ~IsFile(stage'[a])
        /\ \A b \in Addresses \ {a} : stage'[b] = stage[b]
    BY <1>2, <2>1
  <2>3. LeftTroubled(p)' /\ StoredAway(p)' /\ GoneAway(p)' /\ Booked(p)'
    BY <1>0, <1>1, <2>1, <2>2
       DEF RowInv, LeftTroubled, StoredAway, GoneAway, Booked, Moves, SameCall, At,
           Stores
  <2>4. RowsAgree(p)'
    BY <1>0, <1>1, <2>1
       DEF RowInv, RowsAgree, Owed, Moves, SameCall, Stores
  <2> QED
    BY <2>3, <2>4 DEF RowInv
<1> QED
  BY <1>3, <1>4, <1>5, <1>6, <1>7 DEF Writing

LEMMA BookingRow ==
  ASSUME Typed, NEW p \in Procs, RowInv(p),
         Record(p) \/ Remove(p) \/ Retire(p) \/ Answer(p) \/ BookFails(p)
  PROVE  RowInv(p)'
<1>0. PICK a \in Addresses : a = call[p].addr
  BY CallFields
<1>1. /\ vault \in [Addresses -> File \union {NoFile}] /\ ~IsFile(NoFile)
      /\ call[p].op \in AllOps /\ Shaped(call[p])
  BY CallFields DEF Typed, TypeOK, IsFile
<1>2. CASE Record(p) /\ rows' = rows \union {a} /\ troubled' = troubled
  <2>1. /\ UNCHANGED <<vault, stage>> /\ call[p].at = "record"
        /\ Moves(p, "scan", TRUE) \/ Moves(p, "answer", FALSE)
    BY <1>2, AnnounceMoves, FailMoves DEF Record, At
  <2>2. call[p].ok /\ call[p].op \in Stores /\ IsFile(vault[a])
    BY <1>0, <1>1, <2>1 DEF RowInv, StoredAway, Shaped, Stores, Writes
  <2> QED
    BY <1>0, <1>2, <2>1, <2>2
       DEF RowInv, LeftTroubled, StoredAway, GoneAway, RowsAgree, Owed, Booked,
           Moves, SameCall, At
<1>3. CASE Retire(p) /\ rows' = rows \ {a} /\ troubled' = troubled
  <2>1. /\ UNCHANGED <<vault, stage>> /\ call[p].at = "retire"
        /\ Moves(p, "scan", TRUE) \/ Moves(p, "answer", FALSE)
    BY <1>3, AnnounceMoves, FailMoves DEF Retire, At
  <2>2. call[p].op = "delete" /\ ~IsFile(vault[a])
    BY <1>0, <1>1, <2>1 DEF RowInv, GoneAway, Shaped, At
  <2> QED
    BY <1>0, <1>3, <2>1, <2>2
       DEF RowInv, LeftTroubled, StoredAway, GoneAway, RowsAgree, Owed, Booked,
           Moves, SameCall, At, Stores, Writes
<1>4. CASE Moves(p, "answer", FALSE) /\ UNCHANGED <<vault, stage, rows>>
             /\ \/ troubled' = troubled \union {a}
                \/ troubled' = troubled /\ call[p].at = "remove"
             /\ call[p].at \in {"record", "remove", "retire"}
  BY <1>0, <1>4
     DEF RowInv, LeftTroubled, StoredAway, GoneAway, RowsAgree, Owed, Booked,
         Moves, SameCall, At
<1>5. CASE Remove(p)
  <2>1. /\ stage' = stage /\ UNCHANGED <<rows, troubled>> /\ call[p].at = "remove"
        /\ vault' = [vault EXCEPT ![a] = NoFile]
        /\ Moves(p, "retire", call[p].ok) /\ call[p].op = "delete"
    BY <1>0, <1>1, <1>5, GoMoves DEF Remove, history, At, Shaped
  <2>2. /\ ~IsFile(vault'[a])
        /\ \A b \in Addresses \ {a} : vault'[b] = vault[b]
    BY <1>1, <2>1
  <2> QED
    BY <1>0, <2>1, <2>2
       DEF RowInv, LeftTroubled, StoredAway, GoneAway, RowsAgree, Owed, Booked,
           Moves, SameCall, At, Stores, Writes
<1>6. CASE Answer(p)
  <2>1. /\ UNCHANGED <<vault, stage, rows>> /\ call[p].at = "answer"
        /\ call'[p].at = "idle" /\ ~call'[p].ok
        /\ \/ troubled' = troubled
           \/ troubled' = troubled \ {a} /\ call[p].ok /\ call[p].op \in Stores
    BY <1>0, <1>6 DEF Answer, disk, At, Typed, TypeOK, IdleCall, Stores
  <2>2. call[p].ok /\ call[p].op \in Stores
          => IsFile(vault[a]) /\ ~IsFile(stage[a]) /\ a \in rows
    BY <1>0, <2>1 DEF RowInv, StoredAway, Booked, Stores, Writes
  <2> QED
    BY <2>1, <2>2
       DEF RowInv, LeftTroubled, StoredAway, GoneAway, RowsAgree, Owed, Booked, At
<1>7. CASE BookFails(p)
  BY <1>0, <1>4, <1>7, FailMoves DEF BookFails, disk, At
<1>8. CASE Record(p)
  BY <1>0, <1>2, <1>4, <1>8, FailMoves DEF Record, At
<1>9. CASE Retire(p)
  BY <1>0, <1>3, <1>4, <1>9, FailMoves DEF Retire, Retired, At
<1> QED
  BY <1>5, <1>6, <1>7, <1>8, <1>9

LEMMA SettlingRow ==
  ASSUME Typed, NEW p \in Procs, AloneInv(p), RowInv(p),
         Settling(p) \/ RepairFails(p)
  PROVE  RowInv(p)'
<1>0. PICK a \in Addresses : a = call[p].item
  BY CallFields
<1>1. /\ call[p].at \in SettleSteps /\ UNCHANGED <<rows, troubled>>
      /\ call[p].back \in {"locate", "open", "answer"} /\ call[p].ok \in BOOLEAN
  BY CallFields
     DEF Settling, SettleScan, SettleLock, SettleSweep, SettleCheck, SettleRename,
         SettleClear, SettleDone, RepairFails, disk, history, At, SettleSteps
<1>2. /\ vault \in [Addresses -> File \union {NoFile}]
      /\ stage \in [Addresses -> File \union {NoFile, NoStage}]
      /\ ~IsFile(NoFile) /\ ~IsFile(NoStage)
  BY DEF Typed, TypeOK, IsFile
<1>3. ASSUME FilesStand,
             \E s \in {"lock", "sweep", "check", "rename", "clear", "locate",
                       "open", "answer"} : Moves(p, s, call[p].ok)
      PROVE  RowInv(p)'
  BY <1>1, <1>3, CalmRow DEF SettleSteps
<1>4. CASE SettleScan(p) \/ SettleLock(p) \/ SettleSweep(p) \/ SettleCheck(p)
             \/ SettleDone(p) \/ RepairFails(p)
  <2>1. FilesStand
    BY <1>4 DEF SettleScan, SettleLock, SettleSweep, SettleCheck, SettleDone,
                RepairFails, disk, FilesStand
  <2>2. \E s \in {"lock", "sweep", "check", "rename", "clear", "locate",
                  "open", "answer"} : Moves(p, s, call[p].ok)
    BY <1>1, <1>4, ScanMoves, GoMoves, SkippedMoves, SweepMoves, CheckMoves,
       ResumeMoves, ClearMoves
       DEF SettleLock, SettleSweep, SettleDone, RepairFails
  <2> QED
    BY <1>3, <2>1, <2>2
<1>5. CASE SettleClear(p)
  <2>1. /\ vault' = vault /\ stage' = [stage EXCEPT ![a] = NoStage]
        /\ Moves(p, "check", call[p].ok)
    BY <1>0, <1>5, ClearMoves DEF SettleClear
  <2>2. FilesStand
    BY <1>2, <2>1 DEF FilesStand
  <2> QED
    BY <1>3, <2>1, <2>2
\* What is repaired had been left by a call that was cut.
<1>6. CASE SettleRename(p)
  <2>1. /\ call[p].at = "rename" /\ IsFile(stage[a]) /\ a \in troubled
    BY <1>0, <1>6 DEF SettleRename, AloneInv, RepairStands, Repairs, Openable,
                      RowInv, LeftTroubled, At
  <2>2. /\ vault' = [vault EXCEPT ![a] = stage[a]]
        /\ stage' = [stage EXCEPT ![a] = NoFile]
        /\ Moves(p, "clear", call[p].ok)
    BY <1>0, <1>6, <2>1, GoMoves DEF SettleRename
  <2>3. /\ IsFile(vault'[a]) /\ ~IsFile(stage'[a])
        /\ \A b \in Addresses \ {a} : vault'[b] = vault[b] /\ stage'[b] = stage[b]
    BY <1>2, <2>1, <2>2
  <2>4. call[p].addr \in Addresses
    BY CallFields
  <2> QED
    BY <1>1, <2>1, <2>2, <2>3, <2>4
       DEF RowInv, LeftTroubled, StoredAway, GoneAway, RowsAgree, Owed, Booked,
           Moves, SameCall, At
<1> QED
  BY <1>4, <1>5, <1>6 DEF Settling

LEMMA FailingRow ==
  ASSUME Typed, NEW p \in Procs, RowInv(p),
         Kill(p) \/ WriteFails(p) \/ CleanupFails(p)
  PROVE  RowInv(p)'
<1>0. PICK a \in Addresses : a = call[p].addr
  BY CallFields
<1>1. /\ vault \in [Addresses -> File \union {NoFile}]
      /\ stage \in [Addresses -> File \union {NoFile, NoStage}]
      /\ ~IsFile(NoFile) /\ ~IsFile(NoStage)
      /\ call[p].ok \in BOOLEAN /\ Shaped(call[p])
  BY CallFields DEF Typed, TypeOK, IsFile
<1>2. CASE Kill(p)
  <2>1. /\ call'[p].at = "idle" /\ ~call'[p].ok /\ rows' = rows
        /\ troubled' = IF Outcome(call[p].op, call[p].new) # {}
                         THEN troubled \union {a} ELSE troubled
    BY <1>0, <1>2 DEF Kill, Typed, TypeOK, IdleCall
  <2>2. \A b \in Addresses : /\ IsFile(vault'[b]) <=> IsFile(vault[b])
                             /\ IsFile(stage'[b]) <=> IsFile(stage[b])
    BY <1>1, <1>2, ClosedKeeps DEF Kill
  <2>3. /\ call[p].at \in {"write", "promote", "drop", "record", "retire"}
             => a \in troubled'
        /\ call[p].op \in Stores /\ call[p].at \in {"drop", "record"}
             => a \in troubled'
        /\ troubled \subseteq troubled'
    BY <1>1, <2>1 DEF Shaped, Outcome, Writes, Stores
  <2> QED
    BY <1>0, <2>1, <2>2, <2>3
       DEF RowInv, LeftTroubled, StoredAway, GoneAway, RowsAgree, Owed, Booked, At
<1>3. CASE WriteFails(p)
  <2>1. UNCHANGED <<rows, troubled>>
    BY <1>3 DEF WriteFails
  <2>2. CASE At(p, "scratch") \/ At(p, "stage")
    <3>1. /\ vault' = vault
          /\ stage' = stage \/ stage' = [stage EXCEPT ![a] = NoStage]
          /\ Moves(p, "answer", FALSE)
      BY <1>0, <1>3, <2>2, FailMoves DEF WriteFails, At
    <3>2. FilesStand
      BY <1>1, <3>1 DEF FilesStand
    <3> QED
      BY <2>1, <2>2, <3>1, <3>2, CalmRow DEF At
  <2>3. CASE At(p, "create") \/ At(p, "write") \/ At(p, "promote")
    <3>1. /\ vault' = [vault EXCEPT ![a] = Closed(@, p)]
          /\ stage' = [stage EXCEPT ![a] = Closed(@, p)]
          /\ Moves(p, "drop", FALSE)
      BY <1>0, <1>3, <2>3, GoWithMoves DEF WriteFails, At
    <3>2. \A b \in Addresses : /\ IsFile(vault'[b]) <=> IsFile(vault[b])
                               /\ IsFile(stage'[b]) <=> IsFile(stage[b])
      BY <1>1, <3>1, ClosedKeeps
    <3> QED
      BY <1>1, <2>1, <2>3, <3>1, <3>2, FillRow DEF At, Shaped
  <2> QED
    BY <1>3, <2>2, <2>3 DEF WriteFails
<1>4. CASE CleanupFails(p)
  <2>1. UNCHANGED <<vault, stage, rows>>
    BY <1>4 DEF CleanupFails, disk
  <2>2. CASE At(p, "toss")
    <3>1. /\ troubled' = troubled
          /\ Moves(p, IF call[p].ok THEN "stage" ELSE "answer", FALSE)
      BY <1>4, <2>2, TossedMoves DEF CleanupFails, At
    <3> QED
      BY <2>1, <2>2, <3>1, CalmRow DEF At, FilesStand
  <2>3. CASE At(p, "drop")
    <3>1. /\ troubled' = troubled \union {a} /\ call[p].at = "drop"
          /\ Moves(p, IF call[p].ok /\ call[p].op # "rekey" THEN "record"
                                                            ELSE "answer",
                   call[p].ok)
          /\ call[p].op \in Writes
      BY <1>0, <1>1, <1>4, <2>3, GoMoves DEF CleanupFails, At, Shaped
    <3> QED
      BY <1>0, <2>1, <3>1
         DEF RowInv, LeftTroubled, StoredAway, GoneAway, RowsAgree, Owed, Booked,
             Moves, SameCall, At, Stores, Writes
  <2> QED
    BY <1>4, <2>2, <2>3 DEF CleanupFails
<1> QED
  BY <1>2, <1>3, <1>4

LEMMA NextRow ==
  ASSUME NEW p, Procs = {p}, Typed, AloneInv(p), RowInv(p), [Next]_vars
  PROVE  RowInv(p)'
<1>1. CASE UNCHANGED vars
  BY <1>1 DEF vars, RowInv, LeftTroubled, StoredAway, GoneAway, RowsAgree, Owed,
              Booked, At
<1>2. CASE Next
  <2>1. (Calls(p) \/ Proceed(p) \/ Fails(p)) /\ p \in Procs
    BY <1>2 DEF Next
  <2>2. CASE Calls(p)
    BY <2>1, <2>2, BeginRow, VaultsAssumption DEF VaultsAssumption, Calls
  <2>3. CASE Proceed(p)
    BY <2>1, <2>3, OpeningRow, WritingRow, BookingRow, SettlingRow DEF Proceed
  <2>4. CASE Fails(p)
    BY <2>1, <2>4, BookingRow, SettlingRow, FailingRow DEF Fails
  <2> QED
    BY <2>1, <2>2, <2>3, <2>4
<1> QED
  BY <1>1, <1>2

LEMMA InitRow ==
  ASSUME Init, NEW p \in Procs
  PROVE  RowInv(p)
<1>1. call[p].at = "idle" /\ ~call[p].ok
  BY DEF Init, IdleCall
<1> QED
  BY <1>1 DEF Init, RowInv, LeftTroubled, StoredAway, GoneAway, RowsAgree, Owed,
              Booked, IsFile, At

\* accounts.json explains exactly the vaults a single process keeps, but for
\* addresses a call was cut at between the vault and its row, and settle may
\* repair those behind its back (record_account and delete_account_impl,
\* keystore.rs).
THEOREM RowsFollowVaults ==
  ASSUME NEW p, Procs = {p}
  PROVE  Spec => []RowsFollow
<1> DEFINE Inv == Typed /\ AloneInv(p) /\ RowInv(p)
<1>1. p \in Procs
  OBVIOUS
<1>2. Init => Inv
  BY <1>1, InitTyped, InitAlone, InitRow
<1>3. Inv /\ [Next]_vars => Inv'
  BY NextTyped, NextAlone, NextRow
<1>4. Inv => RowsFollow
  BY <1>1 DEF RowInv, RowsAgree, Owed, RowsFollow, Quiet, Busy
<1> QED
  BY <1>2, <1>3, <1>4, PTL DEF Spec

\* One process, killed and failing as it may: with no call running, an account
\* stands as the last call answered ok left it, as one refused or killed since
\* left it, or as a killed write would have (write_vault and settle).
THEOREM OutcomesStand ==
  ASSUME NEW p, Procs = {p}
  PROVE  Spec => []QuietTold
<1> DEFINE Inv == Typed /\ AloneInv(p) /\ ToldInv
<1>1. p \in Procs
  OBVIOUS
<1>2. Init => Inv
  BY <1>1, InitTyped, InitAlone, InitTold
<1>3. Inv /\ [Next]_vars => Inv'
  BY NextTyped, NextAlone, NextTold
<1>4. Inv => QuietTold
  <2> SUFFICES ASSUME Inv, NEW a \in Addresses
               PROVE  Live(a) \in told[a] \union cut[a]
    BY DEF QuietTold
  <2>1. Live(a) # Torn
    BY VaultsAssumption DEF VaultsAssumption, AloneInv, FilesShut, Live
  <2> QED
    BY <2>1 DEF ToldInv, AccountsTold, Stands
<1> QED
  BY <1>2, <1>3, <1>4, PTL DEF Spec

-----------------------------------------------------------------------------
(* What a settle that nothing goes wrong in leaves. *)

\* The settle in progress knows of every staging directory there is.
Known(p) == \A a \in Addresses : stage[a] # NoStage => a \in call[p].todo

\* The call clears what it finds, and nothing went wrong in it so far.
Unhurt(p) ==
  /\ call[p].ok /\ call[p].op \notin {"sign", "rekey"}
  /\ call[p].since = mishaps

\* Such a call knows of every leftover until it has removed it.
TidyInv(p) ==
  /\ call[p].since <= mishaps
  /\ Unhurt(p) =>
       /\ call[p].at \in {"lock", "sweep"} => call[p].junk = scratch /\ Known(p)
       /\ call[p].at \in {"check", "rename", "clear"} => scratch = {} /\ Known(p)
       /\ At(p, "answer") => scratch = {} /\ \A a \in Addresses : stage[a] = NoStage

Judged == Locking \union {"lock", "answer"}

\* A step to where nothing is claimed.
LEMMA CalmTidy ==
  ASSUME Typed, NEW p \in Procs, TidyInv(p), NEW s, NEW b, Moves(p, s, b),
         mishaps' = mishaps,
         b /\ s \in Judged => call[p].op \in {"sign", "rekey"}
  PROVE  TidyInv(p)'
BY DEF TidyInv, Unhurt, Moves, SameCall, At, Judged, Locking

\* What went wrong in a call is counted after it began.
LEMMA HurtTidy ==
  ASSUME Typed, NEW p \in Procs, TidyInv(p), Mishap,
         call'[p].since = call[p].since \/ call'[p] = IdleCall
  PROVE  TidyInv(p)'
<1>1. call[p].since \in Nat /\ mishaps \in Nat
  BY DEF Typed, TypeOK, Call
<1>2. IdleCall.since = 0 /\ ~IdleCall.ok
  BY DEF IdleCall
<1> QED
  BY <1>1, <1>2 DEF TidyInv, Unhurt, Mishap

LEMMA FailsTidy ==
  ASSUME Typed, NEW p \in Procs, TidyInv(p), Fails(p)
  PROVE  TidyInv(p)'
<1>1. Mishap
  BY DEF Fails, WriteFails, BookFails, CleanupFails, RepairFails, Kill
<1>2. CASE Kill(p)
  <2>1. call'[p] = IdleCall
    BY <1>2 DEF Kill, Typed, TypeOK
  <2> QED
    BY <1>1, <2>1, HurtTidy
<1>3. CASE ~Kill(p)
  <2>1. \/ Fail(p) \/ call' = Tossed(p) \/ Skipped(p) \/ Swept(p) \/ NextItem(p)
        \/ \E s : Go(p, s)
        \/ \E s, b : GoWith(p, s, b)
    BY <1>3 DEF Fails, WriteFails, BookFails, CleanupFails, RepairFails
  <2>2. SameCall(call[p], call'[p])
    BY <2>1, FailMoves, TossedMoves, SkippedMoves, SweepMoves, ClearMoves, GoMoves,
       GoWithMoves DEF Moves
  <2> QED
    BY <1>1, <2>2, HurtTidy DEF SameCall
<1> QED
  BY <1>2, <1>3

LEMMA BeginTidy ==
  ASSUME Typed, NEW p \in Procs, TidyInv(p), NEW op \in AllOps,
         NEW a \in Addresses, NEW given \in Passwords, NEW new \in Passwords,
         Begin(p, op, a, given, new)
  PROVE  TidyInv(p)'
<1>1. /\ call'[p].at = FirstStep(op) /\ call'[p].since = mishaps
      /\ mishaps' = mishaps /\ mishaps \in Nat
  <2>1. call'[p].at = FirstStep(op)
    BY DEF Begin, IdleCall
  <2>2. call'[p].since = mishaps
    BY DEF Begin, IdleCall
  <2>3. mishaps' = mishaps
    BY DEF Begin
  <2>4. mishaps \in Nat
    BY DEF Typed, TypeOK
  <2> QED
    BY <2>1, <2>2, <2>3, <2>4
<1>2. FirstStep(op) \notin Judged
  BY DEF FirstStep, AllOps, Judged, Locking
<1> QED
  BY <1>1, <1>2 DEF TidyInv, At, Judged, Locking

LEMMA OpeningTidy ==
  ASSUME Typed, NEW p \in Procs, TidyInv(p),
         Find(p) \/ Miss(p) \/ Decrypt(p) \/ Scratch(p) \/ Unwrap(p) \/ Toss(p)
  PROVE  TidyInv(p)'
<1>1. mishaps' = mishaps
  BY DEF Find, Miss, Decrypt, Scratch, Unwrap, Toss
<1>2. {"open", "decrypt", "scan", "unwrap", "toss", "stage", "remove"}
        \intersect Judged = {}
  BY DEF Judged, Locking
<1>3. \/ \E s \in {"open", "decrypt", "scan", "unwrap", "toss", "stage", "remove"}, b \in BOOLEAN :
           Moves(p, s, b)
      \/ Moves(p, "answer", FALSE)
      \/ Moves(p, "answer", TRUE) /\ call[p].op = "sign"
  <2>1. CASE Unwrap(p)
    BY <2>1, GoWithMoves DEF Unwrap
  <2>2. CASE ~Unwrap(p)
    BY <2>2, CallFields, FindMoves, MissMoves, DecryptMoves, ScratchMoves,
       TossedMoves DEF Toss
  <2> QED
    BY <2>1, <2>2
<1> QED
  BY <1>1, <1>2, <1>3, CalmTidy

LEMMA WorkingTidy ==
  ASSUME Typed, NEW p \in Procs, TidyInv(p),
         Writing(p) \/ Record(p) \/ Remove(p) \/ Retire(p)
  PROVE  TidyInv(p)'
<1>1. mishaps' = mishaps
  BY DEF Writing, MakeStage, Create, Write, Promote, Drop, Record, Remove, Retire
<1>2. {"create", "write", "promote", "drop", "record", "retire", "scan"}
        \intersect Judged = {}
  BY DEF Judged, Locking
<1>3. \/ \E s \in {"create", "write", "promote", "drop", "record", "retire", "scan"},
           b \in BOOLEAN : Moves(p, s, b)
      \/ Moves(p, "answer", FALSE)
      \/ Moves(p, "answer", call[p].ok) /\ (call[p].ok => call[p].op = "rekey")
  <2>1. CASE Writing(p)
    <3>1. \/ Go(p, "create") \/ Go(p, "write") \/ Go(p, "promote")
          \/ Go(p, "record")
          \/ Go(p, "answer") /\ (call[p].ok => call[p].op = "rekey")
          \/ \E ok \in BOOLEAN : GoWith(p, "drop", ok)
      BY <2>1 DEF Writing, MakeStage, Create, Write, Promote, Promotable, IsFile,
                  Drop
    <3> QED
      BY <3>1, CallFields, GoMoves, GoWithMoves
  <2>2. CASE Record(p) \/ Remove(p) \/ Retire(p)
    BY <2>2, CallFields, GoMoves, AnnounceMoves, FailMoves
       DEF Record, Remove, Retire
  <2> QED
    BY <2>1, <2>2
<1> QED
  BY <1>1, <1>2, <1>3, CalmTidy

LEMMA AnswerTidy ==
  ASSUME Typed, NEW p \in Procs, TidyInv(p), Answer(p)
  PROVE  TidyInv(p)'
<1>1. /\ call'[p] = IdleCall /\ mishaps' = mishaps /\ mishaps \in Nat
      /\ IdleCall.since = 0 /\ ~IdleCall.ok
  BY DEF Answer, IdleCall, Typed, TypeOK
<1> QED
  BY <1>1 DEF TidyInv, Unhurt

\* With nobody else to hold it, the lock is there to take.
LEMMA SettlingTidy ==
  ASSUME NEW p, Procs = {p}, Typed, LockHeld, TidyInv(p), Settling(p)
  PROVE  TidyInv(p)'
<1>0. p \in Procs /\ call[p] \in Call /\ call[p].back \in {"locate", "open", "answer"}
  BY CallFields
<1>1. mishaps' = mishaps
  BY DEF Settling, SettleScan, SettleLock, SettleSweep, SettleCheck, SettleRename,
         SettleClear, SettleDone
<1>2. stage \in [Addresses -> File \union {NoFile, NoStage}]
  BY DEF Typed, TypeOK
<1>3. CASE SettleScan(p)
  <2> DEFINE stages == {a \in Addresses : stage[a] # NoStage}
  <2>1. UNCHANGED <<stage, scratch>>
    BY <1>3 DEF SettleScan, disk
  <2>2. CASE NothingLeft(stages, scratch)
    <3>1. Moves(p, call[p].back, call[p].ok)
      BY <1>0, <1>3, <2>2, ResumeMoves DEF SettleScan
    <3> QED
      BY <1>0, <1>1, <2>1, <2>2, <3>1
         DEF TidyInv, Unhurt, Moves, SameCall, NothingLeft, At
  <2>3. CASE ~NothingLeft(stages, scratch)
    <3>1. call'[p] = [call[p] EXCEPT !.todo = stages, !.junk = scratch, !.at = "lock"]
      BY <1>0, <1>3, <2>3 DEF SettleScan, Typed, TypeOK
    <3>2. /\ call'[p].at = "lock" /\ call'[p].junk = scratch
          /\ call'[p].todo = stages
          /\ call'[p].since = call[p].since
      BY <1>0, <3>1 DEF Call
    <3> QED
      BY <1>1, <2>1, <3>2 DEF TidyInv, Known, At
  <2> QED
    BY <2>2, <2>3
<1>4. CASE SettleLock(p)
  <2>1. lock = Nobody
    BY <1>0, <1>4 DEF SettleLock, LockHeld, Locking, At, Typed, TypeOK
  <2>2. Go(p, "sweep") /\ At(p, "lock") /\ UNCHANGED <<stage, scratch>>
    BY <1>4, <2>1 DEF SettleLock, disk
  <2>3. call'[p] = [call[p] EXCEPT !.at = "sweep"]
    BY <1>0, <2>2 DEF Go, Typed, TypeOK
  <2> QED
    BY <1>0, <1>1, <2>2, <2>3 DEF TidyInv, Unhurt, Known, At, Call
<1>5. CASE SettleSweep(p)
  <2>1. /\ call'[p] = [call[p] EXCEPT !.junk = {}, !.at = "check"]
        /\ scratch' = scratch \ call[p].junk /\ stage' = stage /\ At(p, "sweep")
    BY <1>0, <1>5 DEF SettleSweep, Swept, Typed, TypeOK
  <2> QED
    BY <1>0, <1>1, <2>1 DEF TidyInv, Unhurt, Known, At, Call
<1>6. CASE SettleCheck(p)
  <2>1. PICK a \in call[p].todo :
          call' = [call EXCEPT ![p].item = a,
                               ![p].at = IF Repairs(a) THEN "rename" ELSE "clear"]
    BY <1>6 DEF SettleCheck
  <2>2. /\ call'[p] = [call[p] EXCEPT
                         !.item = a, !.at = IF Repairs(a) THEN "rename" ELSE "clear"]
        /\ UNCHANGED <<stage, scratch>> /\ At(p, "check")
    BY <1>0, <1>6, <2>1 DEF SettleCheck, disk, Typed, TypeOK
  <2> QED
    BY <1>0, <1>1, <2>2 DEF TidyInv, Unhurt, Known, At, Call
<1>7. CASE SettleRename(p)
  <2>1. /\ call'[p] = [call[p] EXCEPT !.at = "clear"]
        /\ scratch' = scratch /\ At(p, "rename")
        /\ \A a \in Addresses : stage'[a] # NoStage => stage[a] # NoStage
    <3>1. stage' = stage \/ /\ stage' = [stage EXCEPT ![call[p].item] = NoFile]
                            /\ IsFile(stage[call[p].item])
      BY <1>7 DEF SettleRename
    <3> QED
      BY <1>0, <1>2, <1>7, <3>1 DEF SettleRename, Go, IsFile, Typed, TypeOK
  <2> QED
    BY <1>0, <1>1, <2>1 DEF TidyInv, Unhurt, Known, At, Call
<1>8. CASE SettleClear(p)
  <2>1. /\ call'[p] = [call[p] EXCEPT !.todo = @ \ {call[p].item},
                                      !.item = Anyone, !.at = "check"]
        /\ scratch' = scratch /\ At(p, "clear")
        /\ \A a \in Addresses : stage'[a] # NoStage =>
                                  stage[a] # NoStage /\ a # call[p].item
    BY <1>0, <1>2, <1>8 DEF SettleClear, NextItem, Typed, TypeOK
  <2>2. /\ call'[p].at = "check" /\ call'[p].todo = call[p].todo \ {call[p].item}
        /\ call'[p].ok = call[p].ok /\ call'[p].op = call[p].op
        /\ call'[p].since = call[p].since
    BY <1>0, <2>1 DEF Call
  <2> QED
    BY <1>1, <2>1, <2>2 DEF TidyInv, Unhurt, Known, At
<1>9. CASE SettleDone(p)
  <2>1. /\ Moves(p, call[p].back, call[p].ok) /\ At(p, "check")
        /\ call[p].todo = {} /\ UNCHANGED <<stage, scratch>>
    BY <1>0, <1>9, ResumeMoves DEF SettleDone, disk
  <2> QED
    BY <1>0, <1>1, <2>1 DEF TidyInv, Unhurt, Known, Moves, SameCall, At
<1> QED
  BY <1>3, <1>4, <1>5, <1>6, <1>7, <1>8, <1>9 DEF Settling

\* A listing, or a call of one process that announces its change, leaves no
\* leftover stage or scratch directory when nothing went wrong in it, whatever
\* earlier kills and failures had left (settle, keystore.rs).
THEOREM SettleClears ==
  ASSUME NEW p, Procs = {p}
  PROVE  Spec => []SettleCleans
<1> DEFINE Inv == Typed /\ LockHeld /\ TidyInv(p)
<1>1. p \in Procs
  OBVIOUS
<1>2. Init => Inv
  <2>1. Init => TidyInv(p)
    BY <1>1 DEF Init, TidyInv, Unhurt, IdleCall
  <2> QED
    BY <2>1, InitTyped, InitClean
<1>3. Inv /\ [Next]_vars => Inv'
  <2> SUFFICES ASSUME Inv, [Next]_vars
               PROVE  TidyInv(p)'
    BY NextTyped, NextLock
  <2>1. CASE UNCHANGED vars
    BY <2>1 DEF vars, TidyInv, Unhurt, Known, At
  <2>2. CASE Next
    <3>1. Calls(p) \/ Proceed(p) \/ Fails(p)
      BY <2>2 DEF Next
    <3>2. CASE Calls(p)
      BY <1>1, <3>2, BeginTidy, VaultsAssumption DEF VaultsAssumption, Calls
    <3>3. CASE Proceed(p)
      BY <1>1, <3>3, OpeningTidy, WorkingTidy, SettlingTidy, AnswerTidy DEF Proceed
    <3>4. CASE Fails(p)
      BY <1>1, <3>4, FailsTidy
    <3> QED
      BY <3>1, <3>2, <3>3, <3>4
  <2> QED
    BY <2>1, <2>2
<1>4. Inv => SettleCleans
  BY DEF TidyInv, Unhurt, SettleCleans, At
<1> QED
  BY <1>2, <1>3, <1>4, PTL DEF Spec
=============================================================================
