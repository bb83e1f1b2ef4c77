---------------------------- MODULE VaultsProofs ----------------------------
(***************************************************************************)
(* Proofs about the account vaults, for every set of processes, addresses, *)
(* passwords and scratch names and any number of kills and failures.       *)
(***************************************************************************)
EXTENDS Vaults, TLAPS, FiniteSetTheorems

-----------------------------------------------------------------------------
(* Which calls are where. *)

Opening == {"sign", "rekey", "delete"}
Stores == {"import", "json"}
SettleSteps == {"scan", "lock", "sweep", "check", "rename", "clear"}

\* What the step a call is at says of its operation and of its result.
Shaped(c) ==
  /\ c.at \in {"locate", "remove", "retire"} => c.op = "delete"
  /\ c.at \in {"open", "decrypt"} => c.op \in Opening
  /\ c.at \in {"scratch", "unwrap", "toss"} => c.op = "json"
  /\ c.at \in {"stage", "create", "write", "promote", "drop"} => c.op \in Writes
  /\ c.at = "record" => c.op \in Stores
  /\ c.back = "locate" => c.op = "delete"
  /\ c.back = "open" => c.op \in Opening
  /\ c.at \in {"idle", "locate", "open", "decrypt", "scratch", "unwrap", "stage",
               "create", "write", "promote", "remove", "retire"} => ~c.ok
  /\ c.at = "record" => c.ok
  /\ c.at \in SettleSteps => (c.ok <=> c.back = "answer")
  /\ c.at \in SettleSteps /\ c.ok => c.op \notin {"sign", "rekey"}

Formed == {c \in Call : Shaped(c)}

Typed == TypeOK /\ call \in [Procs -> Formed]

LEMMA IdleTyped == IdleCall \in Formed
<1>1. IdleCall \in Call
  BY VaultsAssumption, SMTT(30)
     DEF VaultsAssumption, IdleCall, Call, Anyone, Anything, AllOps, Steps
<1>2. Shaped(IdleCall)
  BY DEF IdleCall, Shaped, SettleSteps
<1>3. QED
  BY <1>1, <1>2 DEF Formed

\* Files stay files, whoever uses or closes a handle on them.
LEMMA FileTyped ==
  ASSUME NEW f \in File \union {NoFile, NoStage}, NEW p \in Procs,
         NEW w \in Passwords
  PROVE  /\ Created(f, p) \in File
         /\ f \in File => Written(f, p, w) \in File /\ Closed(f, p) \in File
         /\ f \notin File => Written(f, p, w) = f /\ Closed(f, p) = f
         /\ IsFile(f) <=> f \in File
  BY FileAssumption DEF FileAssumption, File, Created, Written, Closed, IsFile

LEMMA OneCallTyped ==
  ASSUME Typed, NEW p \in Procs, NEW d \in Formed,
         call' = [call EXCEPT ![p] = d]
  PROVE  call' \in [Procs -> Formed] /\ call' \in [Procs -> Call]
BY DEF Typed, Formed

LEMMA GoTyped ==
  ASSUME Typed, NEW p \in Procs, NEW s \in Steps, Go(p, s),
         Shaped([call[p] EXCEPT !.at = s])
  PROVE  call' \in [Procs -> Formed] /\ call' \in [Procs -> Call]
<1>1. call[p] \in Call
  BY DEF Typed, Formed
<1>2. [call[p] EXCEPT !.at = s] \in Formed
  BY <1>1 DEF Call, Formed
<1>3. call' = [call EXCEPT ![p] = [call[p] EXCEPT !.at = s]]
  BY DEF Go, Typed, TypeOK
<1>4. QED
  BY <1>2, <1>3, OneCallTyped

LEMMA GoWithTyped ==
  ASSUME Typed, NEW p \in Procs, NEW s \in Steps, NEW b \in BOOLEAN,
         GoWith(p, s, b), Shaped([call[p] EXCEPT !.at = s, !.ok = b])
  PROVE  call' \in [Procs -> Formed] /\ call' \in [Procs -> Call]
<1>1. call[p] \in Call
  BY DEF Typed, Formed
<1>2. [call[p] EXCEPT !.at = s, !.ok = b] \in Formed
  BY <1>1 DEF Call, Formed
<1>3. call' = [call EXCEPT ![p] = [call[p] EXCEPT !.at = s, !.ok = b]]
  BY DEF GoWith, Typed, TypeOK
<1>4. QED
  BY <1>2, <1>3, OneCallTyped

LEMMA FailTyped ==
  ASSUME Typed, NEW p \in Procs, Fail(p)
  PROVE  call' \in [Procs -> Formed] /\ call' \in [Procs -> Call]
<1>1. call[p] \in Call /\ Shaped(call[p])
  BY DEF Typed, Formed
<1>2. Shaped([call[p] EXCEPT !.at = "answer", !.ok = FALSE])
  BY <1>1 DEF Shaped, Call, SettleSteps
<1>3. QED
  BY <1>2, GoWithTyped DEF Fail, Steps

LEMMA AnnounceTyped ==
  ASSUME Typed, NEW p \in Procs, Announce(p),
         call[p].at \in {"record", "retire"}
  PROVE  call' \in [Procs -> Formed] /\ call' \in [Procs -> Call]
<1> DEFINE d == [call[p] EXCEPT !.at = "scan", !.back = "answer", !.ok = TRUE]
<1>1. call[p] \in Call /\ Shaped(call[p])
  BY DEF Typed, Formed
<1>2. d \in Call /\ Shaped(d)
  BY <1>1 DEF Call, Steps, Shaped, SettleSteps, Stores
<1>3. call' = [call EXCEPT ![p] = d]
  BY DEF Announce, Typed, TypeOK
<1>4. QED
  BY <1>2, <1>3, OneCallTyped DEF Formed

LEMMA ResumeTyped ==
  ASSUME Typed, NEW p \in Procs, Resume(p), call[p].at \in SettleSteps
  PROVE  call' \in [Procs -> Formed] /\ call' \in [Procs -> Call]
<1>1. call[p] \in Call /\ Shaped(call[p])
  BY DEF Typed, Formed
<1>2. call[p].back \in Steps
  BY <1>1 DEF Call, Steps
<1>3. Shaped([call[p] EXCEPT !.at = call[p].back])
  BY SMTT(30), <1>1 DEF Call, Shaped, SettleSteps
<1>4. QED
  BY <1>2, <1>3, GoTyped DEF Resume

LEMMA BeginTyped ==
  ASSUME Typed, NEW p \in Procs, NEW op \in AllOps, NEW a \in Addresses,
         NEW given \in Passwords, NEW new \in Passwords,
         Begin(p, op, a, given, new)
  PROVE  Typed'
<1>1. Outcome(op, new) \subseteq Passwords \union {Absent}
  BY DEF Outcome
<1>2. \A r \in Procs : call[r] \in Call /\ Shaped(call[r])
  BY DEF Typed, Formed
<1>3. \A r \in Procs : Outcome(call[r].op, call[r].new)
                         \subseteq Passwords \union {Absent}
  BY <1>2 DEF Outcome, Call
<1> DEFINE others == UNION {Outcome(call[r].op, call[r].new) :
                              r \in {r \in Procs : Busy(r)
                                       /\ call[r].addr = a}}
<1>4. others \subseteq Passwords \union {Absent}
  BY <1>3
<1> DEFINE d == [IdleCall EXCEPT
                   !.op = op, !.addr = a, !.given = given, !.new = new,
                   !.at = FirstStep(op), !.ok = (op = "list"),
                   !.since = mishaps, !.over = others]
<1>5. /\ FirstStep(op) \in Steps
      /\ FirstStep(op) = "locate" <=> op = "delete"
      /\ FirstStep(op) = "open" <=> op \in {"sign", "rekey"}
      /\ FirstStep(op) = "stage" <=> op = "import"
      /\ FirstStep(op) = "scratch" <=> op = "json"
      /\ FirstStep(op) = "scan" <=> op = "list"
      /\ FirstStep(op) \in {"locate", "open", "stage", "scratch", "scan"}
  BY DEF FirstStep, AllOps, Steps
<1>6. mishaps \in 0 .. MaxMishaps
  BY DEF Typed, TypeOK
<1> HIDE DEF others
<1>7. d \in Call
  BY <1>4, <1>5, <1>6, IdleTyped DEF Call, Formed
<1>8. Shaped(d)
  <2>1. /\ d.op = op /\ d.at = FirstStep(op) /\ d.ok = (op = "list")
        /\ d.back = "answer"
    BY IdleTyped DEF Formed, Call, IdleCall
  <2>2. QED
    BY <1>5, <2>1 DEF Shaped, SettleSteps, Opening, Writes
<1>9. \A q \in Procs :
        call'[q] = IF q = p THEN d
                   ELSE IF Busy(q) /\ call[q].addr = a
                     THEN [call[q] EXCEPT !.over = @ \union Outcome(op, new)]
                   ELSE call[q]
  BY DEF Begin, others
<1> HIDE DEF d
<1>10. \A q \in Procs :
        [call[q] EXCEPT !.over = @ \union Outcome(op, new)] \in Formed
  BY <1>1, <1>2 DEF Formed, Call, Shaped
<1>11. call' \in [Procs -> Formed]
  <2>1. \A q \in Procs : call'[q] \in Formed
    BY <1>2, <1>7, <1>8, <1>9, <1>10 DEF Formed
  <2>2. call' = [q \in Procs |-> call'[q]]
    BY DEF Begin
  <2>3. QED
    BY <2>1, <2>2
<1>12. told' \in [Addresses -> SUBSET (Passwords \union {Absent})]
  BY <1>1 DEF Begin, Typed, TypeOK
<1>13. QED
  BY <1>11, <1>12 DEF Begin, Typed, TypeOK, disk, Formed

LEMMA FindTyped ==
  ASSUME Typed, NEW p \in Procs, Find(p)
  PROVE  Typed'
<1> DEFINE d == [call[p] EXCEPT
                   !.at = IF @ = "locate" THEN "open" ELSE "decrypt",
                   !.tried = FALSE]
<1>1. call[p] \in Call /\ Shaped(call[p])
  BY DEF Typed, Formed
<1>2. call[p].at \in {"locate", "open"}
  BY DEF Find, At
<1>3. d \in Call
  BY <1>1, <1>2 DEF Call, Steps
<1>4. Shaped(d)
  BY <1>1, <1>2 DEF Call, Shaped, SettleSteps, Opening
<1>5. call' = [call EXCEPT ![p] = d]
  BY DEF Find, Typed, TypeOK
<1>6. call' \in [Procs -> Formed] /\ call' \in [Procs -> Call]
  BY <1>3, <1>4, <1>5, OneCallTyped DEF Formed
<1>7. QED
  BY <1>6 DEF Find, Typed, TypeOK, disk, history

LEMMA MissTyped ==
  ASSUME Typed, NEW p \in Procs, Miss(p)
  PROVE  Typed'
<1> DEFINE d == [call[p] EXCEPT !.at = "scan", !.back = call[p].at,
                                !.tried = TRUE]
<1>1. call[p] \in Call /\ Shaped(call[p])
  BY DEF Typed, Formed
<1>2. call[p].at \in {"locate", "open"}
  BY DEF Miss, At
<1>3. d \in Call
  BY <1>1, <1>2 DEF Call, Steps
<1>4. Shaped(d)
  BY <1>1, <1>2 DEF Call, Shaped, SettleSteps
<1>5. call' = [call EXCEPT ![p] = d] \/ Fail(p)
  BY DEF Miss, Typed, TypeOK
<1>6. call' \in [Procs -> Formed] /\ call' \in [Procs -> Call]
  BY <1>3, <1>4, <1>5, OneCallTyped, FailTyped DEF Formed
<1>7. QED
  BY <1>6 DEF Miss, Typed, TypeOK, disk, history

LEMMA DecryptTyped ==
  ASSUME Typed, NEW p \in Procs, Decrypt(p)
  PROVE  Typed'
<1>1. call[p] \in Call /\ Shaped(call[p])
  BY DEF Typed, Formed
<1>2. call[p].op \in Opening /\ ~call[p].ok
  BY <1>1 DEF Decrypt, At, Shaped
<1>3. CASE Opens(vault[call[p].addr], call[p].given)
  <2>1. CASE call[p].op = "sign"
    <3>1. Shaped([call[p] EXCEPT !.at = "answer", !.ok = TRUE])
      BY <1>1 DEF Call, Shaped, SettleSteps
    <3>2. QED
      BY <1>3, <2>1, <3>1, GoWithTyped
         DEF Decrypt, Steps, Typed, TypeOK, disk, history
  <2>2. CASE call[p].op = "rekey"
    <3>1. Shaped([call[p] EXCEPT !.at = "stage"])
      BY <1>1, <1>2, <2>2 DEF Call, Shaped, SettleSteps, Writes
    <3>2. QED
      BY <1>3, <2>2, <3>1, GoTyped
         DEF Decrypt, Steps, Typed, TypeOK, disk, history
  <2>3. CASE call[p].op = "delete"
    <3>1. Shaped([call[p] EXCEPT !.at = "remove"])
      BY <1>1, <1>2, <2>3 DEF Call, Shaped, SettleSteps
    <3>2. QED
      BY <1>3, <2>3, <3>1, GoTyped
         DEF Decrypt, Steps, Typed, TypeOK, disk, history
  <2>4. QED
    BY SMTT(30), <1>2, <2>1, <2>2, <2>3 DEF Opening
<1>4. CASE ~Opens(vault[call[p].addr], call[p].given)
  BY <1>4, FailTyped DEF Decrypt, Typed, TypeOK, disk, history
<1>5. QED
  BY <1>3, <1>4

LEMMA ScratchTyped ==
  ASSUME Typed, NEW p \in Procs, Scratch(p)
  PROVE  Typed'
<1>1. call[p] \in Call /\ Shaped(call[p])
  BY DEF Typed, Formed
<1>2. PICK n \in Nonces :
        /\ scratch' = scratch \union {n}
        /\ call' = [call EXCEPT ![p].mine = {n}, ![p].at = "unwrap"]
  BY DEF Scratch
<1> DEFINE d == [call[p] EXCEPT !.mine = {n}, !.at = "unwrap"]
<1>3. d \in Call /\ Shaped(d)
  BY <1>1 DEF Call, Steps, Shaped, SettleSteps, Scratch, At
<1>4. call' = [call EXCEPT ![p] = d]
  BY <1>2 DEF Typed, TypeOK
<1>5. call' \in [Procs -> Formed] /\ call' \in [Procs -> Call]
  BY <1>3, <1>4, OneCallTyped DEF Formed
<1>6. QED
  BY <1>2, <1>5 DEF Scratch, Typed, TypeOK, history

LEMMA UnwrapTyped ==
  ASSUME Typed, NEW p \in Procs, Unwrap(p)
  PROVE  Typed'
<1>1. call[p] \in Call /\ Shaped(call[p])
  BY DEF Typed, Formed
<1>2. \A b \in BOOLEAN : Shaped([call[p] EXCEPT !.at = "toss", !.ok = b])
  BY <1>1 DEF Call, Shaped, SettleSteps, Unwrap, At
<1>3. PICK b \in BOOLEAN : GoWith(p, "toss", b)
  BY DEF Unwrap
<1>4. QED
  BY <1>2, <1>3, GoWithTyped DEF Unwrap, Steps, Typed, TypeOK, disk, history

LEMMA TossedTyped ==
  ASSUME Typed, NEW p \in Procs, At(p, "toss"), call' = Tossed(p)
  PROVE  call' \in [Procs -> Formed] /\ call' \in [Procs -> Call]
<1>1. call[p] \in Call /\ Shaped(call[p])
  BY DEF Typed, Formed
<1> DEFINE d == [call[p] EXCEPT !.mine = {}, !.ok = FALSE,
                   !.at = IF call[p].ok THEN "stage" ELSE "answer"]
<1>2. d \in Call /\ Shaped(d)
  BY <1>1 DEF Call, Steps, Shaped, SettleSteps, At, Writes
<1>3. call' = [call EXCEPT ![p] = d]
  BY DEF Tossed, Typed, TypeOK
<1>4. QED
  BY <1>2, <1>3, OneCallTyped DEF Formed

LEMMA TossTyped ==
  ASSUME Typed, NEW p \in Procs, Toss(p)
  PROVE  Typed'
BY TossedTyped DEF Toss, Typed, TypeOK, history

LEMMA CutTyped ==
  ASSUME TypeOK, NEW a \in Addresses
  PROVE  /\ Unstaged(a) \in [Addresses -> SUBSET Passwords]
         /\ \A c \in Call : [cut EXCEPT ![c.addr] = @ \union {c.new}]
                               \in [Addresses -> SUBSET Passwords]
BY DEF TypeOK, Unstaged, Call

LEMMA MakeStageTyped ==
  ASSUME Typed, NEW p \in Procs, MakeStage(p)
  PROVE  Typed'
<1>1. call[p] \in Call /\ Shaped(call[p])
  BY DEF Typed, Formed
<1>2. Shaped([call[p] EXCEPT !.at = "create"])
  BY <1>1 DEF Call, Shaped, SettleSteps, MakeStage, At
<1>3. call' \in [Procs -> Formed] /\ call' \in [Procs -> Call]
  BY <1>2, GoTyped DEF MakeStage, Steps
<1>4. cut' \in [Addresses -> SUBSET Passwords]
  BY <1>1, CutTyped DEF MakeStage, Typed, Call
<1>5. QED
  BY <1>3, <1>4 DEF MakeStage, Typed, TypeOK

LEMMA CreateTyped ==
  ASSUME Typed, NEW p \in Procs, Create(p)
  PROVE  Typed'
<1>1. call[p] \in Call /\ Shaped(call[p])
  BY DEF Typed, Formed
<1>2. /\ Shaped([call[p] EXCEPT !.at = "write"])
      /\ Shaped([call[p] EXCEPT !.at = "drop", !.ok = FALSE])
  BY <1>1 DEF Call, Shaped, SettleSteps, Create, At
<1>3. call' \in [Procs -> Formed] /\ call' \in [Procs -> Call]
  BY <1>2, GoTyped, GoWithTyped DEF Create, Steps
<1>4. stage' \in [Addresses -> File \union {NoFile, NoStage}]
  <2>1. stage[call[p].addr] \in File \union {NoFile, NoStage}
    BY <1>1 DEF Typed, TypeOK, Call
  <2>2. Created(stage[call[p].addr], p) \in File
    BY <2>1, FileTyped, VaultsAssumption DEF VaultsAssumption
  <2>3. stage \in [Addresses -> File \union {NoFile, NoStage}]
    BY DEF Typed, TypeOK
  <2>4. \/ stage' = [stage EXCEPT ![call[p].addr] = Created(stage[call[p].addr], p)]
        \/ stage' = stage
    BY DEF Create
  <2>5. QED
    BY <2>2, <2>3, <2>4
<1>5. QED
  BY <1>3, <1>4 DEF Create, Typed, TypeOK, history

LEMMA WriteTyped ==
  ASSUME Typed, NEW p \in Procs, Write(p)
  PROVE  Typed'
<1>1. call[p] \in Call /\ Shaped(call[p])
  BY DEF Typed, Formed
<1>2. Shaped([call[p] EXCEPT !.at = "promote"])
  BY <1>1 DEF Call, Shaped, SettleSteps, Write, At
<1>3. call' \in [Procs -> Formed] /\ call' \in [Procs -> Call]
  BY <1>2, GoTyped DEF Write, Steps
<1>4. call[p].addr \in Addresses /\ call[p].new \in Passwords
  BY <1>1 DEF Call
<1> DEFINE a == call[p].addr
           v == Written(vault[a], p, call[p].new)
           s == Written(stage[a], p, call[p].new)
<1>5. /\ vault \in [Addresses -> File \union {NoFile}]
      /\ stage \in [Addresses -> File \union {NoFile, NoStage}]
  BY DEF Typed, TypeOK
<1>6. v \in File \union {NoFile} /\ s \in File \union {NoFile, NoStage}
  BY <1>4, <1>5, FileTyped
<1>7. vault' = [vault EXCEPT ![a] = v] /\ stage' = [stage EXCEPT ![a] = s]
  BY DEF Write
<1> HIDE DEF v, s
<1>8. /\ vault' \in [Addresses -> File \union {NoFile}]
      /\ stage' \in [Addresses -> File \union {NoFile, NoStage}]
  BY <1>5, <1>6, <1>7
<1>9. QED
  BY <1>3, <1>8 DEF Write, Typed, TypeOK, history

LEMMA PromoteTyped ==
  ASSUME Typed, NEW p \in Procs, Promote(p)
  PROVE  Typed'
<1>1. call[p] \in Call /\ Shaped(call[p])
  BY DEF Typed, Formed
<1>2. \A b \in BOOLEAN : Shaped([call[p] EXCEPT !.at = "drop", !.ok = b])
  BY SMTT(30), <1>1 DEF Call, Shaped, SettleSteps, Promote, At
<1>3. call' \in [Procs -> Formed] /\ call' \in [Procs -> Call]
  BY <1>2, GoWithTyped DEF Promote, Promotable, IsFile, Steps
<1>4. call[p].addr \in Addresses
  BY <1>1 DEF Call
<1>5. /\ vault' \in [Addresses -> File \union {NoFile}]
      /\ stage' \in [Addresses -> File \union {NoFile, NoStage}]
  BY <1>4, FileTyped DEF Promote, Movable, IsFile, Typed, TypeOK
<1>6. QED
  BY <1>3, <1>5 DEF Promote, Typed, TypeOK, history

LEMMA AfterDropTyped ==
  ASSUME Typed, NEW p \in Procs, At(p, "drop"),
         Go(p, IF call[p].ok /\ call[p].op # "rekey" THEN "record" ELSE "answer")
  PROVE  call' \in [Procs -> Formed] /\ call' \in [Procs -> Call]
<1>1. call[p] \in Call /\ Shaped(call[p])
  BY DEF Typed, Formed
<1>2. call[p].ok /\ call[p].op # "rekey"
        => Shaped([call[p] EXCEPT !.at = "record"])
  BY <1>1 DEF Call, Shaped, SettleSteps, At, Writes, Stores
<1>3. Shaped([call[p] EXCEPT !.at = "answer"])
  BY <1>1 DEF Call, Shaped, SettleSteps
<1>4. QED
  BY <1>2, <1>3, GoTyped DEF Steps

LEMMA DropTyped ==
  ASSUME Typed, NEW p \in Procs, Drop(p)
  PROVE  Typed'
<1>1. call[p] \in Call /\ Shaped(call[p])
  BY DEF Typed, Formed
<1>2. call' \in [Procs -> Formed] /\ call' \in [Procs -> Call]
  BY AfterDropTyped DEF Drop
<1>3. QED
  BY <1>2 DEF Drop, Dropped, Typed, TypeOK, history

LEMMA RecordTyped ==
  ASSUME Typed, NEW p \in Procs, Record(p)
  PROVE  Typed'
<1>1. call[p] \in Call /\ Shaped(call[p])
  BY DEF Typed, Formed
<1>2. call' \in [Procs -> Formed] /\ call' \in [Procs -> Call]
  BY AnnounceTyped, FailTyped DEF Record, At
<1>3. QED
  BY <1>1, <1>2 DEF Record, Typed, TypeOK, Call

LEMMA RetireTyped ==
  ASSUME Typed, NEW p \in Procs, Retire(p)
  PROVE  Typed'
<1>1. call[p] \in Call /\ Shaped(call[p])
  BY DEF Typed, Formed
<1>2. call' \in [Procs -> Formed] /\ call' \in [Procs -> Call]
  BY AnnounceTyped, FailTyped DEF Retire, At
<1>3. QED
  BY <1>1, <1>2 DEF Retire, Retired, Typed, TypeOK, Call

LEMMA RemoveTyped ==
  ASSUME Typed, NEW p \in Procs, Remove(p)
  PROVE  Typed'
<1>1. call[p] \in Call /\ Shaped(call[p])
  BY DEF Typed, Formed
<1>2. Shaped([call[p] EXCEPT !.at = "retire"])
  BY <1>1 DEF Call, Shaped, SettleSteps, Remove, At
<1>3. call' \in [Procs -> Formed] /\ call' \in [Procs -> Call]
  BY <1>2, GoTyped DEF Remove, Steps
<1>4. QED
  BY <1>3 DEF Remove, Typed, TypeOK, history

LEMMA SettleScanTyped ==
  ASSUME Typed, NEW p \in Procs, SettleScan(p)
  PROVE  Typed'
<1>1. call[p] \in Call /\ Shaped(call[p])
  BY DEF Typed, Formed
<1> DEFINE stages == {a \in Addresses : stage[a] # NoStage}
           d == [call[p] EXCEPT !.todo = stages, !.junk = scratch, !.at = "lock"]
<1>2. d \in Call /\ Shaped(d)
  <2>1. scratch \in SUBSET Nonces /\ stages \in SUBSET Addresses
    BY DEF Typed, TypeOK
  <2> HIDE DEF stages
  <2>2. QED
    BY <1>1, <2>1 DEF Call, Steps, Shaped, SettleSteps, SettleScan, At
<1>3. call' = [call EXCEPT ![p] = d] \/ Resume(p)
  BY DEF SettleScan, Typed, TypeOK
<1>4. call' \in [Procs -> Formed] /\ call' \in [Procs -> Call]
  BY <1>2, <1>3, OneCallTyped, ResumeTyped DEF SettleScan, At, Formed, SettleSteps
<1>5. QED
  BY <1>4 DEF SettleScan, Typed, TypeOK, disk, history

LEMMA SkippedTyped ==
  ASSUME Typed, NEW p \in Procs, At(p, "lock"), Skipped(p)
  PROVE  call' \in [Procs -> Formed] /\ call' \in [Procs -> Call]
<1>1. call[p] \in Call /\ Shaped(call[p])
  BY DEF Typed, Formed
<1> DEFINE d == [call[p] EXCEPT !.at = call[p].back, !.todo = {}, !.junk = {}]
<1>2. d \in Call /\ Shaped(d)
  BY <1>1 DEF Call, Steps, Shaped, SettleSteps, At
<1>3. call' = [call EXCEPT ![p] = d]
  BY DEF Skipped, Typed, TypeOK
<1>4. QED
  BY <1>2, <1>3, OneCallTyped DEF Formed

LEMMA SettleLockTyped ==
  ASSUME Typed, NEW p \in Procs, SettleLock(p)
  PROVE  Typed'
<1>1. call[p] \in Call /\ Shaped(call[p])
  BY DEF Typed, Formed
<1>2. Shaped([call[p] EXCEPT !.at = "sweep"])
  BY <1>1 DEF Call, Shaped, SettleSteps, SettleLock, At
<1>3. call' \in [Procs -> Formed] /\ call' \in [Procs -> Call]
  BY <1>2, GoTyped, SkippedTyped DEF SettleLock, Steps
<1>4. QED
  BY <1>3 DEF SettleLock, Typed, TypeOK, disk, history

LEMMA SweptTyped ==
  ASSUME Typed, NEW p \in Procs, At(p, "sweep"), Swept(p)
  PROVE  call' \in [Procs -> Formed] /\ call' \in [Procs -> Call]
<1> DEFINE d == [call[p] EXCEPT !.junk = {}, !.at = "check"]
<1>1. call[p] \in Call /\ Shaped(call[p])
  BY DEF Typed, Formed
<1>2. d \in Call /\ Shaped(d)
  BY <1>1 DEF Call, Steps, Shaped, SettleSteps, At
<1>3. call' = [call EXCEPT ![p] = d]
  BY DEF Swept, Typed, TypeOK
<1>4. QED
  BY <1>2, <1>3, OneCallTyped DEF Formed

LEMMA ClearedTyped ==
  ASSUME Typed, NEW p \in Procs, At(p, "clear"), NextItem(p)
  PROVE  call' \in [Procs -> Formed] /\ call' \in [Procs -> Call]
<1> DEFINE d == [call[p] EXCEPT !.todo = @ \ {call[p].item},
                                !.item = Anyone, !.at = "check"]
<1>1. call[p] \in Call /\ Shaped(call[p])
  BY DEF Typed, Formed
<1>2. Anyone \in Addresses
  BY VaultsAssumption DEF VaultsAssumption, Anyone
<1>3. d \in Call /\ Shaped(d)
  BY <1>1, <1>2 DEF Call, Steps, Shaped, SettleSteps, At
<1>4. call' = [call EXCEPT ![p] = d]
  BY DEF NextItem, Typed, TypeOK
<1>5. QED
  BY <1>3, <1>4, OneCallTyped DEF Formed

LEMMA SettleSweepTyped ==
  ASSUME Typed, NEW p \in Procs, SettleSweep(p)
  PROVE  Typed'
BY SweptTyped DEF SettleSweep, Typed, TypeOK, history

LEMMA SettleCheckTyped ==
  ASSUME Typed, NEW p \in Procs, SettleCheck(p)
  PROVE  Typed'
<1>1. call[p] \in Call /\ Shaped(call[p])
  BY DEF Typed, Formed
<1>2. PICK a \in call[p].todo :
        call' = [call EXCEPT ![p].item = a,
                             ![p].at = IF Repairs(a) THEN "rename" ELSE "clear"]
  BY DEF SettleCheck
<1> DEFINE d == [call[p] EXCEPT !.item = a,
                                !.at = IF Repairs(a) THEN "rename" ELSE "clear"]
<1>3. d \in Call /\ Shaped(d)
  BY <1>1 DEF Call, Steps, Shaped, SettleSteps, SettleCheck, At
<1>4. call' = [call EXCEPT ![p] = d]
  BY <1>2 DEF Typed, TypeOK
<1>5. call' \in [Procs -> Formed] /\ call' \in [Procs -> Call]
  BY <1>3, <1>4, OneCallTyped DEF Formed
<1>6. QED
  BY <1>5 DEF SettleCheck, Typed, TypeOK, disk, history

LEMMA SettleRenameTyped ==
  ASSUME Typed, NEW p \in Procs, SettleRename(p)
  PROVE  Typed'
<1>1. call[p] \in Call /\ Shaped(call[p])
  BY DEF Typed, Formed
<1>2. Shaped([call[p] EXCEPT !.at = "clear"])
  BY <1>1 DEF Call, Shaped, SettleSteps, SettleRename, At
<1>3. call' \in [Procs -> Formed] /\ call' \in [Procs -> Call]
  BY <1>2, GoTyped DEF SettleRename, Steps
<1>4. call[p].item \in Addresses
  BY <1>1 DEF Call
<1>5. /\ vault' \in [Addresses -> File \union {NoFile}]
      /\ stage' \in [Addresses -> File \union {NoFile, NoStage}]
  BY <1>4 DEF SettleRename, IsFile, Typed, TypeOK
<1>6. QED
  BY <1>3, <1>5 DEF SettleRename, Typed, TypeOK, history

LEMMA SettleClearTyped ==
  ASSUME Typed, NEW p \in Procs, SettleClear(p)
  PROVE  Typed'
<1>1. call[p] \in Call /\ Shaped(call[p])
  BY DEF Typed, Formed
<1>2. call' \in [Procs -> Formed] /\ call' \in [Procs -> Call]
  BY ClearedTyped DEF SettleClear
<1>3. cut' \in [Addresses -> SUBSET Passwords]
  BY <1>1, CutTyped DEF SettleClear, Typed, Call
<1>4. QED
  BY <1>2, <1>3 DEF SettleClear, Typed, TypeOK

LEMMA SettleDoneTyped ==
  ASSUME Typed, NEW p \in Procs, SettleDone(p)
  PROVE  Typed'
BY ResumeTyped DEF SettleDone, At, SettleSteps, Typed, TypeOK, disk, history

LEMMA EndTyped ==
  ASSUME Typed, NEW p \in Procs, call' = [call EXCEPT ![p] = IdleCall]
  PROVE  call' \in [Procs -> Formed] /\ call' \in [Procs -> Call]
BY IdleTyped, OneCallTyped

LEMMA AnswerTyped ==
  ASSUME Typed, NEW p \in Procs, Answer(p)
  PROVE  Typed'
<1>1. call[p] \in Call /\ Shaped(call[p])
  BY DEF Typed, Formed
<1>2. call' \in [Procs -> Formed] /\ call' \in [Procs -> Call]
  BY EndTyped DEF Answer
<1>3. /\ Outcome(call[p].op, call[p].new) \subseteq Passwords \union {Absent}
      /\ call[p].over \subseteq Passwords \union {Absent}
  BY <1>1 DEF Outcome, Call
<1>4. told' \in [Addresses -> SUBSET (Passwords \union {Absent})]
  BY <1>1, <1>3 DEF Answer, Typed, TypeOK, Call
<1>5. QED
  BY <1>2, <1>4 DEF Answer, Typed, TypeOK, disk

LEMMA ClosedTyped ==
  ASSUME TypeOK, NEW p \in Procs, NEW a \in Addresses
  PROVE  /\ Closed(vault[a], p) \in File \union {NoFile}
         /\ Closed(stage[a], p) \in File \union {NoFile, NoStage}
<1>1. /\ vault[a] \in File \union {NoFile}
      /\ stage[a] \in File \union {NoFile, NoStage}
  BY DEF TypeOK
<1>2. QED
  BY <1>1, FileTyped, VaultsAssumption DEF VaultsAssumption

LEMMA MishapTyped ==
  ASSUME TypeOK, Mishap
  PROVE  mishaps' \in 0 .. MaxMishaps
BY VaultsAssumption DEF VaultsAssumption, Mishap, TypeOK

LEMMA KillTyped ==
  ASSUME Typed, NEW p \in Procs, Kill(p)
  PROVE  Typed'
<1>1. call[p] \in Call /\ Shaped(call[p])
  BY DEF Typed, Formed
<1>2. call' \in [Procs -> Formed] /\ call' \in [Procs -> Call]
  BY EndTyped DEF Kill
<1>3. /\ vault' \in [Addresses -> File \union {NoFile}]
      /\ stage' \in [Addresses -> File \union {NoFile, NoStage}]
  BY ClosedTyped DEF Kill, Typed
<1>4. cut' \in [Addresses -> SUBSET Passwords]
  BY <1>1, CutTyped DEF Kill, Typed, TypeOK
<1>5. mishaps' \in 0 .. MaxMishaps
  BY MishapTyped DEF Kill, Typed
<1>6. QED
  BY <1>1, <1>2, <1>3, <1>4, <1>5 DEF Kill, Typed, TypeOK, Call

LEMMA WriteFailsTyped ==
  ASSUME Typed, NEW p \in Procs, WriteFails(p)
  PROVE  Typed'
<1>1. call[p] \in Call /\ Shaped(call[p])
  BY DEF Typed, Formed
<1>2. call' \in [Procs -> Formed] /\ call' \in [Procs -> Call]
  <2>1. CASE At(p, "create") \/ At(p, "write") \/ At(p, "promote")
    <3>1. Shaped([call[p] EXCEPT !.at = "drop", !.ok = FALSE])
      BY <1>1, <2>1 DEF Call, Shaped, SettleSteps, At
    <3>2. GoWith(p, "drop", FALSE)
      BY <2>1 DEF WriteFails, At
    <3>3. QED
      BY <3>1, <3>2, GoWithTyped DEF Steps
  <2>2. CASE ~(At(p, "create") \/ At(p, "write") \/ At(p, "promote"))
    BY <2>2, FailTyped DEF WriteFails
  <2>3. QED
    BY SMTT(30), <2>1, <2>2
<1>3. call[p].addr \in Addresses
  BY <1>1 DEF Call
<1>4. /\ vault' \in [Addresses -> File \union {NoFile}]
      /\ stage' \in [Addresses -> File \union {NoFile, NoStage}]
  <2> DEFINE a == call[p].addr
             v == Closed(vault[a], p)
             s == Closed(stage[a], p)
  <2>1. /\ v \in File \union {NoFile}
        /\ s \in File \union {NoFile, NoStage}
    BY <1>3, ClosedTyped DEF Typed
  <2>2. \/ vault' = vault
        \/ vault' = [vault EXCEPT ![a] = v]
    BY DEF WriteFails
  <2>3. \/ stage' = [stage EXCEPT ![a] = NoStage]
        \/ stage' = [stage EXCEPT ![a] = s]
        \/ stage' = stage
    BY DEF WriteFails
  <2> HIDE DEF v, s
  <2>4. QED
    BY <1>3, <2>1, <2>2, <2>3 DEF Typed, TypeOK
<1>5. cut' \in [Addresses -> SUBSET Passwords]
  <2>1. cut' = cut \/ cut' = Unstaged(call[p].addr)
    BY DEF WriteFails
  <2>2. QED
    BY <1>3, <2>1, CutTyped DEF Typed, TypeOK
<1>6. mishaps' \in 0 .. MaxMishaps
  BY MishapTyped DEF WriteFails, Typed
<1>7. QED
  BY <1>2, <1>4, <1>5, <1>6 DEF WriteFails, Typed, TypeOK

LEMMA BookFailsTyped ==
  ASSUME Typed, NEW p \in Procs, BookFails(p)
  PROVE  Typed'
<1>1. call[p] \in Call /\ Shaped(call[p])
  BY DEF Typed, Formed
<1>2. call' \in [Procs -> Formed] /\ call' \in [Procs -> Call]
  BY FailTyped DEF BookFails
<1>3. mishaps' \in 0 .. MaxMishaps
  BY MishapTyped DEF BookFails, Typed
<1>4. QED
  BY <1>1, <1>2, <1>3 DEF BookFails, Typed, TypeOK, disk, Call

LEMMA CleanupFailsTyped ==
  ASSUME Typed, NEW p \in Procs, CleanupFails(p)
  PROVE  Typed'
<1>1. call[p] \in Call /\ Shaped(call[p])
  BY DEF Typed, Formed
<1>2. call' \in [Procs -> Formed] /\ call' \in [Procs -> Call]
  BY TossedTyped, AfterDropTyped DEF CleanupFails
<1>3. cut' \in [Addresses -> SUBSET Passwords]
  BY <1>1, CutTyped DEF CleanupFails, Typed, TypeOK
<1>4. mishaps' \in 0 .. MaxMishaps
  BY MishapTyped DEF CleanupFails, Typed
<1>5. QED
  BY <1>1, <1>2, <1>3, <1>4 DEF CleanupFails, Typed, TypeOK, disk, Call

LEMMA RepairFailsTyped ==
  ASSUME Typed, NEW p \in Procs, RepairFails(p)
  PROVE  Typed'
<1>1. call[p] \in Call /\ Shaped(call[p])
  BY DEF Typed, Formed
<1>2. CASE At(p, "rename") /\ Go(p, "clear")
  <2>1. Shaped([call[p] EXCEPT !.at = "clear"])
    BY <1>1, <1>2 DEF Call, Shaped, SettleSteps, At
  <2>2. call' \in [Procs -> Formed] /\ call' \in [Procs -> Call]
    BY <1>2, <2>1, GoTyped DEF Steps
  <2>3. QED
    BY <2>2, MishapTyped DEF RepairFails, Typed, TypeOK, disk, history
<1>3. CASE ~(At(p, "rename") /\ Go(p, "clear"))
  <2>1. call' \in [Procs -> Formed] /\ call' \in [Procs -> Call]
    BY <1>3, SkippedTyped, SweptTyped, ClearedTyped DEF RepairFails
  <2>2. QED
    BY <2>1, MishapTyped DEF RepairFails, Typed, TypeOK, disk, history
<1>4. QED
  BY <1>2, <1>3

LEMMA NextTyped ==
  ASSUME Typed, [Next]_vars
  PROVE  Typed'
<1>1. CASE UNCHANGED vars
  BY <1>1 DEF vars, Typed, TypeOK
<1>2. ASSUME NEW p \in Procs, Calls(p)
      PROVE  Typed'
  BY <1>2, BeginTyped, VaultsAssumption DEF Calls, VaultsAssumption
<1>3. ASSUME NEW p \in Procs, Proceed(p)
      PROVE  Typed'
  BY <1>3, FindTyped, MissTyped, DecryptTyped, ScratchTyped, UnwrapTyped,
     TossTyped, MakeStageTyped, CreateTyped, WriteTyped, PromoteTyped,
     DropTyped, RecordTyped, RemoveTyped, RetireTyped, SettleScanTyped,
     SettleLockTyped, SettleSweepTyped, SettleCheckTyped, SettleRenameTyped,
     SettleClearTyped, SettleDoneTyped, AnswerTyped
     DEF Proceed, Writing, Settling
<1>4. ASSUME NEW p \in Procs, Fails(p)
      PROVE  Typed'
  BY <1>4, KillTyped, WriteFailsTyped, BookFailsTyped, CleanupFailsTyped,
     RepairFailsTyped DEF Fails
<1>5. QED
  BY <1>1, <1>2, <1>3, <1>4 DEF Next

LEMMA InitTyped ==
  ASSUME Init
  PROVE  Typed
<1>1. call \in [Procs -> Formed] /\ call \in [Procs -> Call]
  BY IdleTyped DEF Init, Formed
<1>2. QED
  BY <1>1, VaultsAssumption DEF VaultsAssumption, Init, Typed, TypeOK

-----------------------------------------------------------------------------
(* What a step does to the call. *)

\* d is the same call as c, at another step.
SameCall(c, d) ==
  /\ d.op = c.op /\ d.addr = c.addr /\ d.given = c.given /\ d.new = c.new
  /\ d.since = c.since /\ d.over = c.over

\* No other process is at anything else.
Others(p) == \A q \in Procs \ {p} : call'[q] = call[q]

Moves(p, step, ok) ==
  /\ Others(p)
  /\ SameCall(call[p], call'[p])
  /\ call'[p].at = step
  /\ call'[p].ok = ok

LEMMA CallFields ==
  ASSUME Typed, NEW p \in Procs
  PROVE  /\ call[p] \in Call
         /\ Shaped(call[p])
         /\ call[p].addr \in Addresses
         /\ call[p].item \in Addresses
         /\ call[p].new \in Passwords
         /\ call[p].given \in Passwords
         /\ call[p].ok \in BOOLEAN
         /\ call[p].op \in AllOps
         /\ call[p].todo \subseteq Addresses
         /\ call[p].back \in {"locate", "open", "answer"}
BY DEF Typed, Formed, Call

LEMMA GoMoves ==
  ASSUME Typed, NEW p \in Procs, NEW s, Go(p, s)
  PROVE  Moves(p, s, call[p].ok) /\ call'[p].item = call[p].item
<1>1. call[p] \in Call
  BY CallFields
<1>2. /\ Others(p)
      /\ call'[p] = [call[p] EXCEPT !.at = s]
  BY DEF Others, Go, Typed, TypeOK
<1>3. QED
  BY <1>1, <1>2 DEF Moves, SameCall, Call

LEMMA GoWithMoves ==
  ASSUME Typed, NEW p \in Procs, NEW s, NEW b, GoWith(p, s, b)
  PROVE  Moves(p, s, b)
<1>1. call[p] \in Call
  BY CallFields
<1>2. /\ Others(p)
      /\ call'[p] = [call[p] EXCEPT !.at = s, !.ok = b]
  BY DEF Others, GoWith, Typed, TypeOK
<1>3. QED
  BY <1>1, <1>2 DEF Moves, SameCall, Call

LEMMA FailMoves ==
  ASSUME Typed, NEW p \in Procs, Fail(p)
  PROVE  Moves(p, "answer", FALSE)
BY GoWithMoves DEF Fail

LEMMA AnnounceMoves ==
  ASSUME Typed, NEW p \in Procs, Announce(p)
  PROVE  Moves(p, "scan", TRUE)
<1>1. call[p] \in Call
  BY CallFields
<1>2. /\ Others(p)
      /\ call'[p] = [call[p] EXCEPT !.at = "scan", !.back = "answer", !.ok = TRUE]
  BY DEF Others, Announce, Typed, TypeOK
<1>3. QED
  BY <1>1, <1>2 DEF Moves, SameCall, Call

LEMMA ResumeMoves ==
  ASSUME Typed, NEW p \in Procs, Resume(p)
  PROVE  Moves(p, call[p].back, call[p].ok)
BY GoMoves DEF Resume

LEMMA SkippedMoves ==
  ASSUME Typed, NEW p \in Procs, Skipped(p)
  PROVE  Moves(p, call[p].back, call[p].ok)
<1>1. call[p] \in Call
  BY CallFields
<1>2. /\ Others(p)
      /\ call'[p] = [call[p] EXCEPT !.at = call[p].back, !.todo = {}, !.junk = {}]
  BY DEF Others, Skipped, Typed, TypeOK
<1>3. QED
  BY <1>1, <1>2 DEF Moves, SameCall, Call

LEMMA TossedMoves ==
  ASSUME Typed, NEW p \in Procs, call' = Tossed(p)
  PROVE  Moves(p, IF call[p].ok THEN "stage" ELSE "answer", FALSE)
<1>1. call[p] \in Call
  BY CallFields
<1>2. /\ Others(p)
      /\ call'[p] = [call[p] EXCEPT !.mine = {}, !.ok = FALSE,
                       !.at = IF call[p].ok THEN "stage" ELSE "answer"]
  BY DEF Others, Tossed, Typed, TypeOK
<1>3. QED
  BY <1>1, <1>2 DEF Moves, SameCall, Call

LEMMA FindMoves ==
  ASSUME Typed, NEW p \in Procs, Find(p)
  PROVE  Moves(p, IF call[p].at = "locate" THEN "open" ELSE "decrypt",
                  call[p].ok)
<1>1. call[p] \in Call
  BY CallFields
<1>2. /\ Others(p)
      /\ call'[p] = [call[p] EXCEPT
                       !.at = IF @ = "locate" THEN "open" ELSE "decrypt",
                       !.tried = FALSE]
  BY DEF Others, Find, Typed, TypeOK
<1>3. QED
  BY <1>1, <1>2 DEF Moves, SameCall, Call

LEMMA MissMoves ==
  ASSUME Typed, NEW p \in Procs, Miss(p)
  PROVE  Moves(p, "scan", call[p].ok) \/ Moves(p, "answer", FALSE)
<1>1. CASE SettleFirst(p)
  <2>1. call[p] \in Call
    BY CallFields
  <2>2. /\ Others(p)
        /\ call'[p] = [call[p] EXCEPT !.at = "scan", !.back = call[p].at,
                                      !.tried = TRUE]
    BY <1>1 DEF Others, Miss, Typed, TypeOK
  <2>3. QED
    BY <2>1, <2>2 DEF Moves, SameCall, Call
<1>2. CASE ~SettleFirst(p)
  BY <1>2, FailMoves DEF Miss
<1>3. QED
  BY <1>1, <1>2

LEMMA DecryptMoves ==
  ASSUME Typed, NEW p \in Procs, Decrypt(p)
  PROVE  \/ Moves(p, "answer", TRUE) /\ call[p].op = "sign"
         \/ Moves(p, "answer", FALSE)
         \/ Moves(p, "stage", call[p].ok) /\ call[p].op = "rekey"
         \/ Moves(p, "remove", call[p].ok) /\ call[p].op = "delete"
<1>1. call[p].op \in Opening
  BY CallFields DEF Decrypt, At, Shaped
<1>2. CASE Opens(vault[call[p].addr], call[p].given)
  BY <1>1, <1>2, GoMoves, GoWithMoves DEF Decrypt, Opening
<1>3. CASE ~Opens(vault[call[p].addr], call[p].given)
  BY <1>3, FailMoves DEF Decrypt
<1> QED
  BY <1>2, <1>3

LEMMA ScratchMoves ==
  ASSUME Typed, NEW p \in Procs, Scratch(p)
  PROVE  Moves(p, "unwrap", call[p].ok)
<1>1. PICK n \in Nonces :
        call' = [call EXCEPT ![p].mine = {n}, ![p].at = "unwrap"]
  BY DEF Scratch
<1>2. call[p] \in Call
  BY CallFields
<1>3. /\ Others(p)
      /\ call'[p] = [call[p] EXCEPT !.mine = {n}, !.at = "unwrap"]
  BY <1>1 DEF Others, Typed, TypeOK
<1>4. QED
  BY <1>2, <1>3 DEF Moves, SameCall, Call

LEMMA ScanMoves ==
  ASSUME Typed, NEW p \in Procs, SettleScan(p)
  PROVE  Moves(p, "lock", call[p].ok) \/ Moves(p, call[p].back, call[p].ok)
<1> DEFINE stages == {a \in Addresses : stage[a] # NoStage}
<1>1. CASE NothingLeft(stages, scratch)
  BY <1>1, ResumeMoves DEF SettleScan
<1>2. CASE ~NothingLeft(stages, scratch)
  <2>1. call[p] \in Call
    BY CallFields
  <2>2. /\ Others(p)
        /\ call'[p] = [call[p] EXCEPT !.todo = stages, !.junk = scratch,
                                      !.at = "lock"]
    BY <1>2 DEF Others, SettleScan, Typed, TypeOK
  <2> HIDE DEF stages
  <2>3. Moves(p, "lock", call[p].ok)
    BY <2>1, <2>2 DEF Moves, SameCall, Call
  <2>4. QED
    BY <2>3
<1>3. QED
  BY <1>1, <1>2

LEMMA SweepMoves ==
  ASSUME Typed, NEW p \in Procs, Swept(p)
  PROVE  Moves(p, "check", call[p].ok)
<1>1. call[p] \in Call
  BY CallFields
<1>2. /\ Others(p)
      /\ call'[p] = [call[p] EXCEPT !.junk = {}, !.at = "check"]
  BY DEF Others, Swept, Typed, TypeOK
<1>3. QED
  BY <1>1, <1>2 DEF Moves, SameCall, Call

LEMMA CheckMoves ==
  ASSUME Typed, NEW p \in Procs, SettleCheck(p)
  PROVE  /\ Moves(p, "rename", call[p].ok) \/ Moves(p, "clear", call[p].ok)
         /\ call'[p].at = "rename" => Repairs(call'[p].item)
<1>1. PICK a \in call[p].todo :
        call' = [call EXCEPT ![p].item = a,
                             ![p].at = IF Repairs(a) THEN "rename" ELSE "clear"]
  BY DEF SettleCheck
<1>2. call[p] \in Call
  BY CallFields
<1>3. /\ Others(p)
      /\ call'[p] = [call[p] EXCEPT
                       !.item = a, !.at = IF Repairs(a) THEN "rename" ELSE "clear"]
  BY <1>1 DEF Others, Typed, TypeOK
<1>4. QED
  BY <1>2, <1>3 DEF Moves, SameCall, Call

LEMMA ClearMoves ==
  ASSUME Typed, NEW p \in Procs, NextItem(p)
  PROVE  Moves(p, "check", call[p].ok)
<1>1. call[p] \in Call
  BY CallFields
<1>2. /\ Others(p)
      /\ call'[p] = [call[p] EXCEPT !.todo = @ \ {call[p].item},
                                    !.item = Anyone, !.at = "check"]
  BY DEF Others, NextItem, Typed, TypeOK
<1>3. QED
  BY <1>1, <1>2 DEF Moves, SameCall, Call

\* A call that begins tells the calls it overlaps of its effect, no more.
LEMMA BeginCalls ==
  ASSUME Typed, NEW p \in Procs, NEW op \in AllOps, NEW a \in Addresses,
         NEW given \in Passwords, NEW new \in Passwords,
         Begin(p, op, a, given, new), NEW q \in Procs \ {p}
  PROVE  /\ call'[q].op = call[q].op /\ call'[q].new = call[q].new
         /\ call'[q].addr = call[q].addr /\ call'[q].at = call[q].at
         /\ call'[q].ok = call[q].ok /\ call'[q].mine = call[q].mine
         /\ call[q].over \subseteq call'[q].over
         /\ Busy(q) /\ call[q].addr = a => Outcome(op, new) \subseteq call'[q].over
<1>1. call'[q] = IF Busy(q) /\ call[q].addr = a
                   THEN [call[q] EXCEPT !.over = @ \union Outcome(op, new)]
                   ELSE call[q]
  BY DEF Begin
<1>2. call[q] \in Call
  BY DEF Typed, TypeOK
<1>3. CASE Busy(q) /\ call[q].addr = a
  <2>1. call'[q] = [call[q] EXCEPT !.over = @ \union Outcome(op, new)]
    BY <1>1, <1>3
  <2> QED
    BY <2>1, <1>2 DEF Call
<1>4. CASE ~(Busy(q) /\ call[q].addr = a)
  BY <1>1, <1>4
<1> QED
  BY <1>3, <1>4

-----------------------------------------------------------------------------
(* Types. *)

\* Every reachable state of any number of processes is well typed, and every
\* call is at a step of its own operation (keystore.rs, the vault methods).
THEOREM TypeCorrect == Spec => []TypeOK
<1>1. Init => Typed
  BY InitTyped
<1>2. Typed /\ [Next]_vars => Typed'
  BY NextTyped
<1>3. Typed => TypeOK
  BY DEF Typed
<1>4. QED
  BY <1>1, <1>2, <1>3, PTL DEF Spec

-----------------------------------------------------------------------------
(* What any number of processes leave of an account. *)

Effect(c) == Outcome(c.op, c.new)

Moving == {"promote", "drop"}

\* A whole file in a stage was left by a write that was cut, or is that of a
\* call that has yet to move or to drop it.
StageOwned ==
  \A a \in Addresses :
    IsFile(stage[a]) =>
      \/ stage[a].content \in {Torn} \union cut[a]
      \/ \E q \in Procs :
           /\ call[q].at \in Moving
           /\ call[q].addr = a /\ call[q].new = stage[a].content

\* A call knows what those beside it on its account may make of it.
OverlapsKnown ==
  \A p, q \in Procs :
    p # q /\ Busy(p) /\ Busy(q) /\ call[p].addr = call[q].addr
      => Effect(call[q]) \subseteq call[p].over

\* What a call under way may do is allowed for.
CallsTold ==
  \A p \in Procs : Busy(p) => Effect(call[p]) \subseteq told[call[p].addr]

\* The account is as one of these left it, as a cut write did, or half written.
Stands(a, outcomes) == Live(a) \in {Torn} \union cut[a] \union outcomes

AccountsTold == \A a \in Addresses : Stands(a, told[a])

\* Once a call has taken effect, only calls that overlap it can take it away.
TakenTold ==
  \A p \in Procs :
    Took(call[p]) =>
      Stands(call[p].addr, Effect(call[p]) \union call[p].over)

ToldInv ==
  StageOwned /\ OverlapsKnown /\ CallsTold /\ AccountsTold /\ TakenTold

\* A step leaves an account alone, or as some call under way would.
Kept(a) == Live(a)' = Live(a) /\ (Live(a) \in cut[a] => Live(a) \in cut'[a])

Backed(a) ==
  \/ Live(a)' \in {Torn} \union cut'[a]
  \/ \E q \in Procs :
       Busy(q) /\ call[q].addr = a /\ Live(a)' \in Effect(call[q])

LEMMA GoesOnTold ==
  ASSUME Typed, ToldInv, NEW p \in Procs, NEW step, NEW ok, Moves(p, step, ok),
         Busy(p), step # "idle", told' = told, StageOwned',
         \A a \in Addresses : Kept(a) \/ Backed(a),
         \A a \in Addresses :
           call[p].addr = a /\ Took(call'[p]) => Took(call[p]) \/ Backed(a)
  PROVE  ToldInv'
<1>1. \A q \in Procs :
        /\ SameCall(call[q], call'[q]) /\ (Busy(q)' <=> Busy(q))
        /\ Effect(call'[q]) = Effect(call[q])
        /\ q # p => call'[q] = call[q]
        /\ call[q].addr \in Addresses
  BY CallFields DEF Moves, Others, SameCall, Busy, Effect
<1>2. OverlapsKnown' /\ CallsTold'
  BY <1>1 DEF ToldInv, OverlapsKnown, CallsTold, SameCall
<1>3. AccountsTold'
  <2> SUFFICES ASSUME NEW a \in Addresses
               PROVE  Live(a)' \in {Torn} \union cut'[a] \union told[a]
    BY DEF AccountsTold, Stands
  <2>1. CASE Kept(a)
    BY <2>1 DEF Kept, ToldInv, AccountsTold, Stands
  <2>2. CASE Backed(a)
    BY <2>2 DEF Backed, ToldInv, CallsTold
  <2> QED
    BY <2>1, <2>2
<1>4. TakenTold'
  <2> SUFFICES ASSUME NEW q \in Procs, Took(call'[q]),
                      NEW a \in Addresses, call[q].addr = a
               PROVE  Live(a)' \in {Torn} \union cut'[a]
                              \union (Effect(call[q]) \union call[q].over)
    BY <1>1 DEF TakenTold, Stands, SameCall, Live
  <2>1. Busy(q)
    BY <1>1, IdleTyped DEF Took, Busy, Typed, Formed, Shaped
  <2>2. CASE Backed(a)
    BY <2>1, <2>2 DEF Backed, ToldInv, OverlapsKnown
  <2>3. CASE ~Backed(a)
    <3>1. Kept(a) /\ Took(call[q])
      BY <1>1, <2>1, <2>3
    <3>2. QED
      BY <3>1 DEF Kept, ToldInv, TakenTold, Stands
  <2> QED
    BY <2>2, <2>3
<1> QED
  BY <1>2, <1>3, <1>4 DEF ToldInv

\* A step on no file of an account, that gives up no stage and takes no effect.
LEMMA CalmTold ==
  ASSUME Typed, ToldInv, NEW p \in Procs, NEW step, NEW ok, Moves(p, step, ok),
         Busy(p), step # "idle", UNCHANGED <<vault, stage, cut, told>>,
         call[p].at \notin Moving, Took(call'[p]) => Took(call[p])
  PROVE  ToldInv'
<1>1. StageOwned'
  BY DEF ToldInv, StageOwned, Moves, Others
<1>2. \A a \in Addresses : Kept(a)
  BY DEF Kept, Live
<1> QED
  BY <1>1, <1>2, GoesOnTold

\* A step that is no answer takes effect only where it says so.
LEMMA NotTaken ==
  ASSUME Typed, NEW p \in Procs, NEW step, NEW ok, Moves(p, step, ok),
         step # "retire", ok => (call[p].ok /\ ~At(p, "toss")) \/ step = "toss"
  PROVE  Took(call'[p]) => Took(call[p])
BY DEF Took, Moves, SameCall, At

LEMMA OpeningTold ==
  ASSUME Typed, ToldInv, NEW p \in Procs,
         Find(p) \/ Miss(p) \/ Decrypt(p) \/ Scratch(p) \/ Unwrap(p) \/ Toss(p)
  PROVE  ToldInv'
<1> DEFINE c == call[p]
<1>1. /\ UNCHANGED <<vault, stage, cut, told>>
      /\ c.at \in {"locate", "open", "decrypt", "scratch", "unwrap", "toss"}
      /\ c.at # "toss" => ~c.ok
  BY CallFields
     DEF Find, Miss, Decrypt, Scratch, Unwrap, Toss, disk, history, At, Shaped
<1>2. Busy(p) /\ c.at \notin Moving
  BY <1>1 DEF Busy, Moving
<1>3. CASE Find(p)
  <2>1. c.at \in {"locate", "open"}
    BY <1>3 DEF Find, At
  <2>2. Moves(p, IF c.at = "locate" THEN "open" ELSE "decrypt", c.ok)
    BY <1>3, FindMoves
  <2> QED
    BY <1>1, <1>2, <2>1, <2>2, NotTaken, CalmTold DEF At
<1>4. CASE Miss(p)
  <2>1. c.at \in {"locate", "open"}
    BY <1>4 DEF Miss, At
  <2>2. Moves(p, "scan", c.ok) \/ Moves(p, "answer", FALSE)
    BY <1>4, MissMoves
  <2> QED
    BY <1>1, <1>2, <2>1, <2>2, NotTaken, CalmTold DEF At
<1>5. CASE Decrypt(p)
  <2>1. At(p, "decrypt") /\ c.op \in Opening /\ ~c.ok
    BY <1>1, <1>5, CallFields DEF Decrypt, At, Shaped
  <2>2. CASE Moves(p, "answer", TRUE) /\ c.op = "sign"
    <3>1. ~Took(call'[p])
      BY <2>2 DEF Took, Moves, SameCall, Writes
    <3> QED
      BY <1>1, <1>2, <2>2, <3>1, CalmTold
  <2>3. CASE Moves(p, "answer", FALSE)
    BY <1>1, <1>2, <2>3, NotTaken, CalmTold
  <2>4. CASE Moves(p, "stage", c.ok) \/ Moves(p, "remove", c.ok)
    BY <1>1, <1>2, <2>1, <2>4, NotTaken, CalmTold
  <2> QED
    BY <1>5, <2>2, <2>3, <2>4, DecryptMoves
<1>6. CASE Scratch(p)
  <2>1. At(p, "scratch") /\ Moves(p, "unwrap", c.ok)
    BY <1>6, ScratchMoves DEF Scratch
  <2> QED
    BY <1>1, <1>2, <2>1, NotTaken, CalmTold DEF At
<1>7. CASE Unwrap(p)
  <2>1. PICK ok : Moves(p, "toss", ok)
    BY <1>7, GoWithMoves DEF Unwrap
  <2> QED
    BY <1>1, <1>2, <2>1, NotTaken, CalmTold
<1>8. CASE Toss(p)
  <2>1. Moves(p, IF c.ok THEN "stage" ELSE "answer", FALSE)
    BY <1>8, TossedMoves DEF Toss
  <2> QED
    BY <1>1, <1>2, <2>1, NotTaken, CalmTold
<1> QED
  BY <1>3, <1>4, <1>5, <1>6, <1>7, <1>8

LEMMA BookingTold ==
  ASSUME Typed, ToldInv, NEW p \in Procs,
         Record(p) \/ Retire(p) \/ BookFails(p)
  PROVE  ToldInv'
<1> DEFINE c == call[p]
<1>1. /\ UNCHANGED <<vault, stage, cut, told>>
      /\ c.at \in {"record", "remove", "retire"}
  BY DEF Record, Retire, BookFails, disk, At
<1>2. Busy(p) /\ c.at \notin Moving
  BY <1>1 DEF Busy, Moving
<1>3. CASE Moves(p, "answer", FALSE)
  BY <1>1, <1>2, <1>3, NotTaken, CalmTold
<1>4. CASE Moves(p, "scan", TRUE) /\ c.at \in {"record", "retire"}
  <2>1. Took(call'[p]) => Took(c)
    BY <1>4, CallFields DEF Took, Moves, SameCall, Shaped
  <2> QED
    BY <1>1, <1>2, <1>4, <2>1, CalmTold
<1>5. \/ Moves(p, "answer", FALSE)
      \/ Moves(p, "scan", TRUE) /\ c.at \in {"record", "retire"}
  BY FailMoves, AnnounceMoves DEF Record, Retire, BookFails, At
<1> QED
  BY <1>3, <1>4, <1>5

LEMMA RemoveTold ==
  ASSUME Typed, ToldInv, NEW p \in Procs, Remove(p)
  PROVE  ToldInv'
<1>0. PICK a \in Addresses : a = call[p].addr
  BY CallFields
<1>1. /\ At(p, "remove") /\ vault' = [vault EXCEPT ![a] = NoFile]
      /\ UNCHANGED <<stage, cut, told>>
      /\ Moves(p, "retire", call[p].ok)
  BY <1>0, GoMoves DEF Remove, history
<1>2. Busy(p) /\ call[p].op = "delete"
  BY <1>1, CallFields DEF Busy, At, Shaped
<1>3. \A b \in Addresses : b # a => Kept(b)
  BY <1>1 DEF Kept, Live, Typed, TypeOK
<1>4. Backed(a)
  <2>1. Live(a)' = Absent
    <3>1. vault'[a] = NoFile
      BY <1>1, <1>2 DEF Typed, TypeOK
    <3> QED
      BY <3>1 DEF Live, IsFile
  <2>2. Absent \in Effect(call[p])
    BY <1>2 DEF Effect, Outcome, Writes
  <2> QED
    BY <1>0, <1>2, <2>1, <2>2 DEF Backed
<1>5. StageOwned'
  BY <1>1 DEF ToldInv, StageOwned, Moves, Others, At, Moving
<1> QED
  BY <1>0, <1>1, <1>2, <1>3, <1>4, <1>5, GoesOnTold

\* A stage that is no file, or whose file keeps its content.
LEMMA StageStays ==
  ASSUME Typed, ToldInv, NEW p \in Procs, NEW step, NEW ok, Moves(p, step, ok),
         call[p].at \in Moving => step \in Moving,
         \A a \in Addresses :
           IsFile(stage'[a]) =>
             /\ IsFile(stage[a]) /\ stage'[a].content = stage[a].content
             /\ cut[a] \subseteq cut'[a]
  PROVE  StageOwned'
BY DEF ToldInv, StageOwned, Moves, Others, SameCall

\* Moving the stage to the vault's path.
LEMMA RenameTold ==
  ASSUME Typed, ToldInv, NEW a \in Addresses, IsFile(stage[a]),
         vault' = [vault EXCEPT ![a] = stage[a]],
         stage' = [stage EXCEPT ![a] = NoFile], cut' = cut
  PROVE  /\ \A b \in Addresses : Kept(b) \/ Backed(b)
         /\ Backed(a)
<1>1. \A b \in Addresses : b # a => Kept(b)
  BY DEF Kept, Live, Typed, TypeOK
<1>2. Live(a)' = stage[a].content
  <2>1. vault'[a] = stage[a]
    BY DEF Typed, TypeOK
  <2> QED
    BY <2>1 DEF Live
<1>3. Backed(a)
  <2>1. CASE stage[a].content \in {Torn} \union cut[a]
    BY <1>2, <2>1 DEF Backed
  <2>2. CASE stage[a].content \notin {Torn} \union cut[a]
    <3>1. PICK q \in Procs : /\ call[q].at \in Moving
                             /\ call[q].addr = a
                             /\ call[q].new = stage[a].content
      BY <2>2 DEF ToldInv, StageOwned
    <3>2. Busy(q) /\ call[q].op \in Writes
      BY <3>1, CallFields DEF Busy, Moving, Shaped
    <3> QED
      BY <1>2, <3>1, <3>2 DEF Backed, Effect, Outcome
  <2> QED
    BY <2>1, <2>2
<1> QED
  BY <1>1, <1>3

\* Unstaged forgets nothing that stands.
LEMMA UnstagedKept ==
  ASSUME Typed, NEW a \in Addresses, vault' = vault,
         cut' = cut \/ cut' = Unstaged(a)
  PROVE  /\ \A b \in Addresses : Kept(b)
         /\ \A b \in Addresses : b # a => cut'[b] = cut[b]
BY DEF Kept, Live, Unstaged, Typed, TypeOK

LEMMA WritingTold ==
  ASSUME Typed, ToldInv, NEW p \in Procs, Writing(p)
  PROVE  ToldInv'
<1> DEFINE c == call[p]
<1>0. PICK a \in Addresses : a = c.addr
  BY CallFields
<1>1. /\ c.at \in {"stage", "create", "write", "promote", "drop"}
      /\ told' = told
  BY DEF Writing, MakeStage, Create, Write, Promote, Drop, At, history
<1>2. /\ c.new \in Passwords /\ c.op \in Writes /\ Busy(p)
      /\ Effect(c) = {c.new}
  BY <1>1, CallFields DEF Shaped, Busy, Effect, Outcome
<1>3. /\ vault \in [Addresses -> File \union {NoFile}]
      /\ stage \in [Addresses -> File \union {NoFile, NoStage}]
      /\ ~IsFile(NoFile) /\ ~IsFile(NoStage)
  BY DEF Typed, TypeOK, IsFile
<1>4. CASE MakeStage(p)
  <2>1. /\ vault' = vault /\ stage' = [stage EXCEPT ![a] = NoFile]
        /\ cut' = Unstaged(a) /\ At(p, "stage")
        /\ Moves(p, "create", c.ok)
    BY <1>0, <1>4, GoMoves DEF MakeStage
  <2>2. StageOwned'
    BY <1>0, <1>2, <1>3, <2>1, UnstagedKept, StageStays DEF At, Moving
  <2>3. Took(call'[p]) => Took(c)
    BY <2>1, NotTaken DEF At
  <2> QED
    BY <1>0, <1>1, <1>2, <2>1, <2>2, <2>3, UnstagedKept, GoesOnTold
<1>5. CASE Create(p)
  <2>1. /\ UNCHANGED <<vault, cut>> /\ At(p, "create")
        /\ \/ stage' = [stage EXCEPT ![a] = Created(@, p)]
           \/ stage' = stage
    BY <1>0, <1>5 DEF Create, history
  <2>2. Moves(p, "write", c.ok) \/ Moves(p, "drop", FALSE)
    BY <1>5, GoMoves, GoWithMoves DEF Create
  <2>3. Created(stage[a], p).content = Torn
    BY DEF Created
  <2>4. StageOwned'
    BY <1>0, <1>2, <1>3, <2>1, <2>2, <2>3
       DEF ToldInv, StageOwned, Moves, Others, At, Moving
  <2>5. Took(call'[p]) => Took(c)
    BY <2>1, <2>2, NotTaken DEF At
  <2>6. \A b \in Addresses : Kept(b)
    BY <2>1 DEF Kept, Live
  <2> QED
    BY <1>0, <1>1, <1>2, <2>2, <2>4, <2>5, <2>6, GoesOnTold
<1>6. CASE Write(p)
  <2>1. /\ vault' = [vault EXCEPT ![a] = Written(@, p, c.new)]
        /\ stage' = [stage EXCEPT ![a] = Written(@, p, c.new)]
        /\ cut' = cut /\ At(p, "write")
        /\ Moves(p, "promote", c.ok)
    BY <1>0, <1>6, GoMoves DEF Write, history
  <2>2. /\ vault'[a] = Written(vault[a], p, c.new)
        /\ stage'[a] = Written(stage[a], p, c.new)
        /\ \A b \in Addresses : b # a => vault'[b] = vault[b]
                                         /\ stage'[b] = stage[b]
    BY <1>2, <1>3, <2>1
  <2>3. \A f : Written(f, p, c.new) = f \/ Written(f, p, c.new).content = c.new
    BY DEF Written
  <2>4. StageOwned'
    BY <1>0, <2>1, <2>2, <2>3
       DEF ToldInv, StageOwned, Moves, Others, SameCall, At, Moving
  <2>5. \A b \in Addresses : Kept(b) \/ Backed(b)
    <3>1. \A b \in Addresses : b # a => Kept(b)
      BY <2>1, <2>2 DEF Kept, Live
    <3>2. CASE vault'[a] = vault[a]
      BY <2>1, <3>1, <3>2 DEF Kept, Live
    <3>3. CASE vault'[a].content = c.new /\ vault'[a] # vault[a]
      <4>1. IsFile(vault'[a])
        <5>1. IsFile(vault[a]) /\ p \in vault[a].by
          BY <2>2, <3>3 DEF Written
        <5> QED
          BY <1>2, <1>3, <2>2, <5>1, FileTyped
      <4>2. Backed(a)
        BY <1>0, <1>2, <3>3, <4>1 DEF Backed, Live
      <4> QED
        BY <3>1, <4>2
    <3> QED
      BY <2>2, <2>3, <3>2, <3>3
  <2>6. Took(call'[p]) => Took(c)
    BY <2>1, NotTaken DEF At
  <2> QED
    BY <1>0, <1>1, <1>2, <2>1, <2>4, <2>5, <2>6, GoesOnTold
<1>7. CASE Promote(p)
  <2>1. At(p, "promote") /\ cut' = cut /\ Moves(p, "drop", IsFile(stage[a]))
    BY <1>0, <1>7, GoWithMoves DEF Promote, Promotable, history
  <2>2. CASE IsFile(stage[a])
    <3>1. /\ vault' = [vault EXCEPT ![a] = stage[a]]
          /\ stage' = [stage EXCEPT ![a] = NoFile]
      BY <1>0, <1>7, <2>2 DEF Promote, Movable
    <3>2. StageOwned'
      BY <1>0, <1>2, <1>3, <2>1, <3>1, StageStays DEF At, Moving
    <3> QED
      BY <1>0, <1>1, <1>2, <2>1, <2>2, <3>1, <3>2, RenameTold, GoesOnTold
  <2>3. CASE ~IsFile(stage[a])
    <3>1. UNCHANGED <<vault, stage>>
      BY <1>0, <1>7, <2>3 DEF Promote, Movable
    <3>2. StageOwned'
      BY <1>0, <2>1, <3>1, StageStays DEF At, Moving
    <3>3. \A b \in Addresses : Kept(b)
      BY <2>1, <3>1 DEF Kept, Live
    <3>4. Took(call'[p]) => Took(c)
      BY <2>1, <2>3, NotTaken
    <3> QED
      BY <1>0, <1>1, <1>2, <2>1, <3>2, <3>3, <3>4, GoesOnTold
  <2> QED
    BY <2>2, <2>3
<1>8. CASE Drop(p)
  <2>1. /\ UNCHANGED <<vault, cut>> /\ At(p, "drop")
        /\ stage' = [stage EXCEPT ![a] = NoStage]
        /\ Moves(p, "record", c.ok) \/ Moves(p, "answer", c.ok)
    BY <1>0, <1>8, GoMoves DEF Drop, Dropped, history
  <2>2. StageOwned'
    BY <1>0, <1>2, <1>3, <2>1 DEF ToldInv, StageOwned, Moves, Others
  <2>3. \A b \in Addresses : Kept(b)
    BY <2>1 DEF Kept, Live
  <2>4. Took(call'[p]) => Took(c)
    BY <2>1, NotTaken DEF At
  <2> QED
    BY <1>0, <1>1, <1>2, <2>1, <2>2, <2>3, <2>4, GoesOnTold
<1> QED
  BY <1>4, <1>5, <1>6, <1>7, <1>8 DEF Writing

LEMMA SettlingTold ==
  ASSUME Typed, ToldInv, NEW p \in Procs, Settling(p) \/ RepairFails(p)
  PROVE  ToldInv'
<1> DEFINE c == call[p]
<1>0. PICK a \in Addresses : a = c.item
  BY SMTT(30), CallFields
<1>1. c.at \in SettleSteps /\ told' = told
  BY DEF Settling, SettleScan, SettleLock, SettleSweep, SettleCheck, SettleRename,
         SettleClear, SettleDone, RepairFails, At, SettleSteps, history
<1>2. Busy(p) /\ c.at \notin Moving /\ ~At(p, "toss")
  BY <1>1 DEF Busy, Moving, SettleSteps, At
<1>3. /\ vault \in [Addresses -> File \union {NoFile}]
      /\ stage \in [Addresses -> File \union {NoFile, NoStage}]
      /\ ~IsFile(NoFile) /\ ~IsFile(NoStage)
  BY DEF Typed, TypeOK, IsFile
<1>4. c.back \in {"locate", "open", "answer"}
  BY CallFields
<1>5. ASSUME NEW step \in SettleSteps \union {"locate", "open", "answer"},
             Moves(p, step, c.ok), UNCHANGED <<vault, stage, cut>>
      PROVE  ToldInv'
  <2>1. step \notin {"idle", "retire"}
    BY DEF SettleSteps
  <2> QED
    BY <1>1, <1>2, <1>5, <2>1, NotTaken, CalmTold
<1>6. CASE SettleScan(p) \/ SettleLock(p) \/ SettleSweep(p) \/ SettleCheck(p)
             \/ SettleDone(p) \/ RepairFails(p)
  <2>1. UNCHANGED <<vault, stage, cut>>
    BY ZenonT(60), <1>6 DEF SettleScan, SettleLock, SettleSweep, SettleCheck, SettleDone,
                RepairFails, disk, history
  <2>2. \E step \in SettleSteps \union {"locate", "open", "answer"} :
          Moves(p, step, c.ok)
    BY <1>4, <1>6, ScanMoves, GoMoves, SkippedMoves, SweepMoves, CheckMoves,
       ResumeMoves, ClearMoves
       DEF SettleScan, SettleLock, SettleSweep, SettleCheck, SettleDone,
           RepairFails, SettleSteps
  <2> QED
    BY <1>5, <2>1, <2>2
<1>7. CASE SettleRename(p)
  <2>1. Moves(p, "clear", c.ok) /\ cut' = cut
    BY <1>7, GoMoves DEF SettleRename, history
  <2>2. CASE IsFile(stage[a])
    <3>1. /\ vault' = [vault EXCEPT ![a] = stage[a]]
          /\ stage' = [stage EXCEPT ![a] = NoFile]
      BY <1>0, <1>7, <2>2 DEF SettleRename
    <3>2. StageOwned'
      BY <1>2, <1>3, <2>1, <3>1, StageStays
    <3>3. Took(call'[p]) => Took(c)
      BY <1>2, <2>1, NotTaken
    <3> QED
      BY <1>1, <1>2, <2>1, <2>2, <3>1, <3>2, <3>3, RenameTold, GoesOnTold
  <2>3. CASE ~IsFile(stage[a])
    <3>1. UNCHANGED <<vault, stage>>
      BY <1>0, <1>7, <2>3 DEF SettleRename
    <3> QED
      BY <1>5, <2>1, <3>1 DEF SettleSteps
  <2> QED
    BY <2>2, <2>3
<1>8. CASE SettleClear(p)
  <2>1. /\ vault' = vault /\ stage' = [stage EXCEPT ![a] = NoStage]
        /\ cut' = Unstaged(a) /\ Moves(p, "check", c.ok)
    BY <1>0, <1>8, ClearMoves DEF SettleClear
  <2>2. StageOwned'
    BY <1>2, <1>3, <2>1, UnstagedKept, StageStays
  <2>3. Took(call'[p]) => Took(c)
    BY <1>2, <2>1, NotTaken
  <2> QED
    BY <1>1, <1>2, <2>1, <2>2, <2>3, UnstagedKept, GoesOnTold
<1> QED
  BY <1>6, <1>7, <1>8 DEF Settling

LEMMA BeginTold ==
  ASSUME Typed, ToldInv, NEW p \in Procs, NEW op \in AllOps, NEW a \in Addresses,
         NEW given \in Passwords, NEW new \in Passwords,
         Begin(p, op, a, given, new)
  PROVE  ToldInv'
<1> DEFINE others == UNION {Outcome(call[r].op, call[r].new) :
                              r \in {r \in Procs : Busy(r)
                                       /\ call[r].addr = a}}
           d == [IdleCall EXCEPT
                   !.op = op, !.addr = a, !.given = given, !.new = new,
                   !.at = FirstStep(op), !.ok = (op = "list"),
                   !.since = mishaps, !.over = others]
<1>1. /\ ~Busy(p) /\ UNCHANGED <<vault, stage, cut>>
      /\ told' = [told EXCEPT ![a] = @ \union Outcome(op, new)]
  BY DEF Begin, disk
<1>2. call'[p] = d
  BY DEF Begin
<1>3. \A q \in Procs \ {p} :
        call'[q] = IF Busy(q) /\ call[q].addr = a
                     THEN [call[q] EXCEPT !.over = @ \union Outcome(op, new)]
                     ELSE call[q]
  BY DEF Begin
<1>4. /\ d.op = op /\ d.addr = a /\ d.new = new /\ d.over = others
      /\ d.at = FirstStep(op) /\ d.ok = (op = "list")
  BY DEF IdleCall
<1> HIDE DEF d
<1>5. /\ FirstStep(op) \in {"locate", "open", "stage", "scratch", "scan"}
  BY DEF FirstStep, AllOps
<1>6. \A q \in Procs \ {p} :
        /\ call'[q].op = call[q].op /\ call'[q].new = call[q].new
        /\ call'[q].addr = call[q].addr /\ call'[q].at = call[q].at
        /\ call'[q].ok = call[q].ok
        /\ call[q].over \subseteq call'[q].over
        /\ Busy(q) /\ call[q].addr = a => Outcome(op, new) \subseteq call'[q].over
  BY BeginCalls
<1>7. StageOwned'
  <2>1. \A q \in Procs : call[q].at \in Moving =>
          /\ call'[q].at \in Moving
          /\ call'[q].addr = call[q].addr /\ call'[q].new = call[q].new
    BY <1>1, <1>6 DEF Busy, Moving
  <2> QED
    BY <1>1, <2>1 DEF ToldInv, StageOwned
<1>8. OverlapsKnown'
  <2>1. \A q \in Procs : Busy(q) /\ call[q].addr = a => Effect(call[q]) \subseteq others
    BY DEF Effect
  <2> HIDE DEF others
  <2>2. ASSUME NEW q \in Procs \ {p}, Busy(q)', call'[q].addr = a
        PROVE  /\ Effect(call'[q]) \subseteq call'[p].over
               /\ Effect(call'[p]) \subseteq call'[q].over
    BY <1>2, <1>4, <1>6, <2>1, <2>2 DEF Busy, Effect
  <2>3. ASSUME NEW q \in Procs \ {p}, NEW r \in Procs \ {p}, q # r,
               Busy(q)', Busy(r)', call'[q].addr = call'[r].addr
        PROVE  Effect(call'[r]) \subseteq call'[q].over
    BY <1>6, <2>3 DEF ToldInv, OverlapsKnown, Busy, Effect
  <2> QED
    BY <1>2, <1>4, <2>2, <2>3 DEF OverlapsKnown
<1> HIDE DEF others
<1>9. \A b \in Addresses : told[b] \subseteq told'[b]
                           /\ (b = a => Outcome(op, new) \subseteq told'[b])
  BY <1>1 DEF Typed, TypeOK
<1>10. CallsTold'
  BY <1>2, <1>4, <1>6, <1>9, CallFields DEF ToldInv, CallsTold, Busy, Effect
<1>11. AccountsTold'
  BY <1>1, <1>9 DEF ToldInv, AccountsTold, Stands, Live
<1>12. TakenTold'
  <2>1. ~Took(call'[p])
    BY <1>2, <1>4, <1>5 DEF Took, Writes
  <2>2. \A q \in Procs \ {p} : Took(call'[q]) => Took(call[q])
    BY <1>6 DEF Took
  <2> QED
    BY <1>1, <1>6, <2>1, <2>2 DEF ToldInv, TakenTold, Stands, Live, Effect
<1> QED
  BY <1>7, <1>8, <1>10, <1>11, <1>12 DEF ToldInv

\* A call that is over: the others have what they had.
LEMMA EndsTold ==
  ASSUME Typed, ToldInv, NEW p \in Procs, call' = [call EXCEPT ![p] = IdleCall],
         \A a \in Addresses : Live(a)' = Live(a) /\ cut[a] \subseteq cut'[a]
  PROVE  OverlapsKnown' /\ TakenTold' /\ (told' = told => CallsTold' /\ AccountsTold')
<1>1. /\ call'[p] = IdleCall /\ \A q \in Procs \ {p} : call'[q] = call[q]
      /\ IdleCall.at = "idle" /\ ~IdleCall.ok
  BY DEF Typed, TypeOK, IdleCall
<1>2. OverlapsKnown'
  BY <1>1 DEF ToldInv, OverlapsKnown, Busy
<1>3. TakenTold'
  <2>1. ~Took(IdleCall)
    BY <1>1 DEF Took
  <2>2. \A q \in Procs : call[q].addr \in Addresses
    BY CallFields
  <2>3. ASSUME NEW q \in Procs \ {p}, NEW a \in Addresses, a = call[q].addr,
               Took(call[q])
        PROVE  Stands(a, Effect(call[q]) \union call[q].over)'
    BY <1>1, <2>3 DEF ToldInv, TakenTold, Stands
  <2> QED
    BY <1>1, <2>1, <2>2, <2>3 DEF TakenTold, Stands
<1>4. told' = told => CallsTold' /\ AccountsTold'
  BY <1>1 DEF ToldInv, CallsTold, AccountsTold, Stands, Busy
<1> QED
  BY <1>2, <1>3, <1>4

LEMMA AnswerTold ==
  ASSUME Typed, ToldInv, NEW p \in Procs, Answer(p)
  PROVE  ToldInv'
<1> DEFINE c == call[p]
<1>0. PICK a \in Addresses : a = c.addr
  BY CallFields
<1>1. /\ At(p, "answer") /\ UNCHANGED <<vault, stage, cut>>
      /\ call' = [call EXCEPT ![p] = IdleCall]
      /\ told' = IF c.ok /\ Effect(c) # {}
                   THEN [told EXCEPT ![a] = Effect(c) \union c.over] ELSE told
  BY <1>0 DEF Answer, disk, Effect
<1>2. /\ call'[p] = IdleCall /\ \A q \in Procs \ {p} : call'[q] = call[q]
      /\ IdleCall.at = "idle"
  BY <1>1 DEF Typed, TypeOK, IdleCall
<1>3. StageOwned'
  BY <1>1, <1>2 DEF ToldInv, StageOwned, At, Moving
<1>4. OverlapsKnown' /\ TakenTold' /\ (told' = told => CallsTold' /\ AccountsTold')
  BY <1>1, EndsTold DEF Live
<1>5. CASE told' = told
  BY <1>3, <1>4, <1>5 DEF ToldInv
<1>6. CASE told' # told
  <2>1. /\ c.ok /\ Effect(c) # {}
        /\ told'[a] = Effect(c) \union c.over
        /\ \A b \in Addresses : b # a => told'[b] = told[b]
    BY <1>1, <1>6 DEF Typed, TypeOK
  <2>2. Took(c) /\ Busy(p)
    BY <1>1, <2>1 DEF Took, Effect, Outcome, At, Busy
  <2>3. CallsTold'
    BY <1>0, <1>2, <2>1, <2>2, CallFields
       DEF ToldInv, CallsTold, OverlapsKnown, Busy
  <2>4. AccountsTold'
    BY <1>0, <1>1, <2>1, <2>2
       DEF ToldInv, AccountsTold, TakenTold, Stands, Live
  <2> QED
    BY <1>3, <1>4, <2>3, <2>4 DEF ToldInv
<1> QED
  BY <1>5, <1>6

\* A handle that is closed leaves what the file holds.
LEMMA ClosedKeeps ==
  ASSUME NEW f \in File \union {NoFile, NoStage}, NEW p \in Procs
  PROVE  /\ IsFile(Closed(f, p)) <=> IsFile(f)
         /\ IsFile(f) => Closed(f, p).content = f.content
                         /\ Closed(f, p).by = f.by \ {p}
BY FileAssumption DEF FileAssumption, File, Closed, IsFile

LEMMA KillTold ==
  ASSUME Typed, ToldInv, NEW p \in Procs, Kill(p)
  PROVE  ToldInv'
<1> DEFINE c == call[p]
<1>0. PICK a \in Addresses : a = c.addr
  BY CallFields
<1>1. /\ call' = [call EXCEPT ![p] = IdleCall] /\ told' = told
      /\ vault' = [b \in Addresses |-> Closed(vault[b], p)]
      /\ stage' = [b \in Addresses |-> Closed(stage[b], p)]
      /\ cut' = IF c.op \in Writes
                  THEN [cut EXCEPT ![a] = @ \union {c.new}] ELSE cut
  BY <1>0 DEF Kill
<1>2. /\ call'[p] = IdleCall /\ \A q \in Procs \ {p} : call'[q] = call[q]
  BY <1>1 DEF Typed, TypeOK
<1>3. /\ \A b \in Addresses : cut[b] \subseteq cut'[b]
      /\ c.op \in Writes => c.new \in cut'[a]
  BY <1>1 DEF Typed, TypeOK
<1>4. \A b \in Addresses :
        /\ Live(b)' = Live(b)
        /\ IsFile(stage'[b]) =>
             IsFile(stage[b]) /\ stage'[b].content = stage[b].content
  BY <1>1, ClosedKeeps DEF Live, Typed, TypeOK
<1>5. c.at \in Moving => c.op \in Writes
  BY CallFields DEF Shaped, Moving
<1>6. StageOwned'
  BY <1>0, <1>2, <1>3, <1>4, <1>5 DEF ToldInv, StageOwned
<1> QED
  BY <1>1, <1>3, <1>4, <1>6, EndsTold DEF ToldInv

LEMMA WriteFailsTold ==
  ASSUME Typed, ToldInv, NEW p \in Procs, WriteFails(p)
  PROVE  ToldInv'
<1> DEFINE c == call[p]
<1>0. PICK a \in Addresses : a = c.addr
  BY CallFields
<1>1. /\ c.at \in {"scratch", "stage", "create", "write", "promote"}
      /\ told' = told
  BY DEF WriteFails, At
<1>2. Busy(p)
  BY <1>1 DEF Busy
<1>3. /\ vault \in [Addresses -> File \union {NoFile}]
      /\ stage \in [Addresses -> File \union {NoFile, NoStage}]
      /\ ~IsFile(NoStage)
  BY DEF Typed, TypeOK, IsFile
<1>4. CASE At(p, "scratch")
  <2>1. UNCHANGED <<vault, stage, cut>> /\ Moves(p, "answer", FALSE)
    BY <1>4, FailMoves DEF WriteFails, At
  <2> QED
    BY <1>1, <1>2, <1>4, <2>1, NotTaken, CalmTold DEF At, Moving
<1>5. CASE At(p, "stage")
  <2>1. /\ vault' = vault /\ stage' = [stage EXCEPT ![a] = NoStage]
        /\ cut' = Unstaged(a) /\ Moves(p, "answer", FALSE)
    BY <1>0, <1>5, FailMoves DEF WriteFails, At
  <2>2. StageOwned'
    BY <1>3, <1>5, <2>1, UnstagedKept, StageStays DEF At, Moving
  <2> QED
    BY <1>1, <1>2, <2>1, <2>2, NotTaken, UnstagedKept, GoesOnTold
<1>6. CASE At(p, "create") \/ At(p, "write") \/ At(p, "promote")
  <2>1. /\ vault' = [vault EXCEPT ![a] = Closed(@, p)]
        /\ stage' = [stage EXCEPT ![a] = Closed(@, p)]
        /\ cut' = cut /\ Moves(p, "drop", FALSE)
    BY <1>0, <1>6, GoWithMoves DEF WriteFails, At
  <2>2. \A b \in Addresses :
          /\ Live(b)' = Live(b)
          /\ IsFile(stage'[b]) =>
               IsFile(stage[b]) /\ stage'[b].content = stage[b].content
    BY <1>3, <2>1, ClosedKeeps DEF Live
  <2>3. StageOwned'
    BY <2>1, <2>2, StageStays DEF Moving
  <2> QED
    BY <1>1, <1>2, <2>1, <2>2, <2>3, NotTaken, GoesOnTold DEF Kept
<1> QED
  BY <1>1, <1>4, <1>5, <1>6 DEF At

LEMMA CleanupFailsTold ==
  ASSUME Typed, ToldInv, NEW p \in Procs, CleanupFails(p)
  PROVE  ToldInv'
<1> DEFINE c == call[p]
<1>0. PICK a \in Addresses : a = c.addr
  BY CallFields
<1>1. /\ c.at \in {"toss", "drop"} /\ UNCHANGED <<vault, stage, told>>
  BY DEF CleanupFails, disk, At
<1>2. Busy(p)
  BY <1>1 DEF Busy
<1>3. CASE At(p, "toss")
  <2>1. cut' = cut /\ Moves(p, IF c.ok THEN "stage" ELSE "answer", FALSE)
    BY <1>3, TossedMoves DEF CleanupFails, At
  <2> QED
    BY <1>1, <1>2, <1>3, <2>1, NotTaken, CalmTold DEF At, Moving
<1>4. CASE At(p, "drop")
  <2>1. /\ cut' = [cut EXCEPT ![a] = @ \union {c.new}]
        /\ Moves(p, "record", c.ok) \/ Moves(p, "answer", c.ok)
    BY <1>0, <1>4, GoMoves DEF CleanupFails, At
  <2>2. \A b \in Addresses : cut[b] \subseteq cut'[b] /\ (b = a => c.new \in cut'[b])
    BY <2>1 DEF Typed, TypeOK
  <2>3. StageOwned'
    BY <1>0, <1>1, <2>1, <2>2 DEF ToldInv, StageOwned, Moves, Others
  <2>4. \A b \in Addresses : Kept(b)
    BY <1>1, <2>2 DEF Kept, Live
  <2>5. Took(call'[p]) => Took(c)
    BY <1>4, <2>1, NotTaken DEF At
  <2> QED
    BY <1>1, <1>2, <2>1, <2>3, <2>4, <2>5, GoesOnTold
<1> QED
  BY <1>1, <1>3, <1>4 DEF At

LEMMA NextTold ==
  ASSUME Typed, ToldInv, [Next]_vars
  PROVE  ToldInv'
<1>1. CASE UNCHANGED vars
  BY <1>1 DEF vars, ToldInv, StageOwned, OverlapsKnown, CallsTold, AccountsTold,
              TakenTold, Stands, Live, Busy
<1>2. ASSUME NEW p \in Procs, Calls(p)
      PROVE  ToldInv'
  BY <1>2, BeginTold, VaultsAssumption DEF Calls, VaultsAssumption
<1>3. ASSUME NEW p \in Procs, Proceed(p)
      PROVE  ToldInv'
  BY <1>3, OpeningTold, WritingTold, BookingTold, RemoveTold, SettlingTold,
     AnswerTold DEF Proceed
<1>4. ASSUME NEW p \in Procs, Fails(p)
      PROVE  ToldInv'
  BY <1>4, WriteFailsTold, BookingTold, CleanupFailsTold, SettlingTold, KillTold
     DEF Fails
<1> QED
  BY <1>1, <1>2, <1>3, <1>4 DEF Next

LEMMA InitTold ==
  ASSUME Init
  PROVE  ToldInv
<1>1. \A p \in Procs : call[p] = IdleCall /\ IdleCall.at = "idle" /\ ~IdleCall.ok
  BY DEF Init, IdleCall
<1>2. \A a \in Addresses : ~IsFile(stage[a]) /\ Live(a) = Absent
  BY DEF Init, IsFile, Live
<1> QED
  BY <1>1, <1>2 DEF Init, ToldInv, StageOwned, OverlapsKnown, CallsTold,
                    AccountsTold, TakenTold, Stands, Busy, Took

LEMMA AlwaysTold == Spec => [](Typed /\ ToldInv)
<1>1. Init => Typed /\ ToldInv
  BY InitTyped, InitTold
<1>2. Typed /\ ToldInv /\ [Next]_vars => (Typed /\ ToldInv)'
  BY NextTyped, NextTold
<1> QED
  BY <1>1, <1>2, PTL DEF Spec

-----------------------------------------------------------------------------
(* The lock, and what calls that nothing cuts short leave on disk. *)

Locking == {"sweep", "check", "rename", "clear"}
Staging == {"create", "write", "promote", "drop"}
Unwrapping == {"unwrap", "toss"}

\* The lock is held through the repairs of a settle, and never else.
LockHeld == \A p \in Procs : lock = p <=> call[p].at \in Locking

HasOpen(f, p) == IsFile(f) /\ p \in f.by

\* A file is open by nobody but a call that is writing that account.
Handles ==
  \A a \in Addresses, p \in Procs :
    HasOpen(vault[a], p) \/ HasOpen(stage[a], p)
      => At(p, "write") /\ call[p].addr = a

\* Half a file is still being written.
UnderWay(f) == IsFile(f) /\ f.content = Torn => \E p \in Procs : p \in f.by

Halves == \A a \in Addresses : UnderWay(vault[a]) /\ UnderWay(stage[a])

\* A stage is one that some write is at.
StagesOwned ==
  \A a \in Addresses :
    stage[a] # NoStage =>
      \E p \in Procs : call[p].at \in Staging /\ call[p].addr = a

\* A scratch directory is that of an import that is reading it.
ScratchOwned ==
  \A n \in scratch :
    \E p \in Procs : call[p].at \in Unwrapping /\ n \in call[p].mine

\* No write was ever cut short.
Uncut == \A a \in Addresses : cut[a] = {}

CleanInv == Handles /\ Halves /\ StagesOwned /\ ScratchOwned /\ Uncut

\* The other calls are where they were.
Unmoved(p) ==
  \A q \in Procs \ {p} :
    /\ call'[q].at = call[q].at /\ call'[q].addr = call[q].addr
    /\ call'[q].mine = call[q].mine

LEMMA LockKept ==
  ASSUME Typed, LockHeld, NEW p \in Procs, Unmoved(p), lock' = lock,
         call'[p].at \in Locking <=> call[p].at \in Locking
  PROVE  LockHeld'
BY DEF LockHeld, Unmoved

\* A step that gives back what its call owns and opens no file.
LEMMA CalmClean ==
  ASSUME Typed, CleanInv, NEW p \in Procs, Unmoved(p), ~At(p, "write"),
         call[p].at \in Staging =>
           call'[p].at \in Staging /\ call'[p].addr = call[p].addr,
         call[p].at \in Unwrapping =>
           call'[p].at \in Unwrapping /\ call'[p].mine = call[p].mine,
         \A a \in Addresses :
           /\ IsFile(vault'[a]) => vault'[a] \in {vault[a], stage[a]}
           /\ stage'[a] # NoStage => stage[a] # NoStage
           /\ IsFile(stage'[a]) => stage'[a] = stage[a]
           /\ cut'[a] \subseteq cut[a],
         scratch' \subseteq scratch
  PROVE  CleanInv'
<1>1. Handles'
  BY DEF CleanInv, Handles, HasOpen, Unmoved, At
<1>2. Halves'
  BY DEF CleanInv, Halves, UnderWay
<1>3. StagesOwned'
  BY DEF CleanInv, StagesOwned, Unmoved
<1>4. ScratchOwned'
  BY DEF CleanInv, ScratchOwned, Unmoved
<1>5. Uncut'
  BY DEF CleanInv, Uncut
<1> QED
  BY <1>1, <1>2, <1>3, <1>4, <1>5 DEF CleanInv

\* The same, of a step that touches no file at all.
LEMMA IdleClean ==
  ASSUME Typed, CleanInv, NEW p \in Procs, Unmoved(p),
         UNCHANGED <<vault, stage, scratch, cut>>,
         call[p].at \notin Staging \union Unwrapping
  PROVE  CleanInv'
BY CalmClean DEF At, Staging

LEMMA ScratchClean ==
  ASSUME Typed, CleanInv, NEW p \in Procs, Scratch(p)
  PROVE  CleanInv'
<1>1. PICK n \in Nonces :
        /\ scratch' = scratch \union {n}
        /\ call' = [call EXCEPT ![p].mine = {n}, ![p].at = "unwrap"]
  BY DEF Scratch
<1>2. /\ Unmoved(p) /\ call'[p].at = "unwrap" /\ call'[p].mine = {n}
      /\ UNCHANGED <<vault, stage, cut>> /\ At(p, "scratch")
  BY <1>1, CallFields DEF Scratch, history, Unmoved, Typed, TypeOK, Call
<1>3. Handles' /\ Halves' /\ StagesOwned' /\ Uncut'
  BY <1>2 DEF CleanInv, Handles, HasOpen, Halves, UnderWay, StagesOwned, Uncut,
              Unmoved, At, Staging
<1>4. ScratchOwned'
  BY <1>1, <1>2 DEF CleanInv, ScratchOwned, Unmoved, At, Unwrapping
<1> QED
  BY <1>3, <1>4 DEF CleanInv

LEMMA UnwrapClean ==
  ASSUME Typed, CleanInv, NEW p \in Procs, Unwrap(p)
  PROVE  CleanInv'
<1>1. PICK ok : GoWith(p, "toss", ok)
  BY DEF Unwrap
<1>2. /\ Unmoved(p) /\ call'[p].at = "toss" /\ call'[p].mine = call[p].mine
  BY <1>1, CallFields DEF GoWith, Unmoved, Typed, TypeOK, Call
<1>3. At(p, "unwrap") /\ UNCHANGED <<vault, stage, scratch, cut>>
  BY DEF Unwrap, disk, history
<1> QED
  BY <1>2, <1>3, CalmClean DEF At, Staging, Unwrapping

LEMMA TossClean ==
  ASSUME Typed, CleanInv, NEW p \in Procs, Toss(p)
  PROVE  CleanInv'
<1>1. /\ At(p, "toss") /\ scratch' = scratch \ call[p].mine
      /\ UNCHANGED <<vault, stage, cut>>
      /\ Unmoved(p) /\ call'[p].at \in {"stage", "answer"}
  BY TossedMoves DEF Toss, history, Moves, Others, Unmoved
<1>2. Handles' /\ Halves' /\ StagesOwned' /\ Uncut'
  BY <1>1 DEF CleanInv, Handles, HasOpen, Halves, UnderWay, StagesOwned, Uncut,
              Unmoved, At, Staging
<1>3. ScratchOwned'
  BY <1>1 DEF CleanInv, ScratchOwned, Unmoved
<1> QED
  BY <1>2, <1>3 DEF CleanInv

LEMMA MovedApart ==
  ASSUME NEW p \in Procs, Others(p)
  PROVE  Unmoved(p)
BY DEF Others, Unmoved

LEMMA StageMine ==
  ASSUME CleanInv, NEW p \in Procs, Others(p), NEW a \in Addresses,
         call'[p].at \in Staging, call'[p].addr = a,
         \A b \in Addresses \ {a} : stage'[b] = stage[b],
         call[p].at \in Staging => call[p].addr = a
  PROVE  StagesOwned'
<1> SUFFICES ASSUME NEW b \in Addresses, stage'[b] # NoStage
             PROVE  \E q \in Procs : call'[q].at \in Staging /\ call'[q].addr = b
  BY DEF StagesOwned
<1>1. CASE b = a
  BY <1>1
<1>2. CASE b # a
  <2>1. PICK q \in Procs : call[q].at \in Staging /\ call[q].addr = b
    BY <1>2 DEF CleanInv, StagesOwned
  <2> QED
    BY <1>2, <2>1 DEF Others
<1> QED
  BY <1>1, <1>2

LEMMA ScratchApart ==
  ASSUME CleanInv, NEW p \in Procs, Others(p), call[p].at \notin Unwrapping,
         scratch' \subseteq scratch
  PROVE  ScratchOwned'
BY DEF CleanInv, ScratchOwned, Others

\* The stage a call makes or drops is that of its own address.
LEMMA MakeStageClean ==
  ASSUME Typed, CleanInv, NEW p \in Procs, MakeStage(p)
  PROVE  CleanInv'
<1>0. PICK a \in Addresses : a = call[p].addr
  BY CallFields
<1>1. /\ At(p, "stage") /\ UNCHANGED <<vault, scratch>>
      /\ stage' = [stage EXCEPT ![a] = NoFile] /\ cut' = Unstaged(a)
      /\ Others(p) /\ call'[p].at = "create" /\ call'[p].addr = a
  BY <1>0, GoMoves DEF MakeStage, Moves, SameCall
<1>2. /\ stage'[a] = NoFile /\ ~IsFile(NoFile)
      /\ \A b \in Addresses \ {a} : stage'[b] = stage[b]
      /\ \A b \in Addresses : cut'[b] \subseteq cut[b]
  BY <1>1 DEF Typed, TypeOK, IsFile, Unstaged
<1>3. Handles' /\ Halves'
  BY <1>1, <1>2 DEF CleanInv, Handles, HasOpen, Halves, UnderWay, Others, At
<1>4. StagesOwned' /\ ScratchOwned' /\ Uncut'
  BY <1>0, <1>1, <1>2, StageMine, ScratchApart
     DEF CleanInv, Uncut, At, Staging, Unwrapping
<1> QED
  BY <1>3, <1>4 DEF CleanInv

LEMMA CreateClean ==
  ASSUME Typed, CleanInv, NEW p \in Procs, Create(p)
  PROVE  CleanInv'
<1>0. PICK a \in Addresses : a = call[p].addr
  BY CallFields
<1>1. At(p, "create") /\ UNCHANGED <<vault, scratch, cut>>
  BY DEF Create, history
<1>2. CASE stage[a] # NoStage
  <2> DEFINE f == Created(stage[a], p)
  <2>1. /\ stage' = [stage EXCEPT ![a] = f]
        /\ Others(p) /\ call'[p].at = "write" /\ call'[p].addr = a
    BY <1>0, <1>2, GoMoves DEF Create, Moves, SameCall
  <2>2. /\ stage'[a] = f
        /\ \A b \in Addresses \ {a} : stage'[b] = stage[b]
    BY <2>1 DEF Typed, TypeOK
  <2>3. /\ p \in f.by
        /\ \A q : q \in f.by /\ q # p => HasOpen(stage[a], q)
    BY DEF Created, HasOpen
  <2> HIDE DEF f
  <2>4. Handles'
    BY <1>1, <2>1, <2>2, <2>3 DEF CleanInv, Handles, HasOpen, Others, At
  <2>5. Halves'
    BY <1>1, <2>2, <2>3 DEF CleanInv, Halves, UnderWay
  <2>6. StagesOwned' /\ ScratchOwned' /\ Uncut'
    BY <1>0, <1>1, <2>1, <2>2, StageMine, ScratchApart
       DEF CleanInv, Uncut, At, Staging, Unwrapping
  <2> QED
    BY <2>4, <2>5, <2>6 DEF CleanInv
<1>3. CASE stage[a] = NoStage
  <2>1. stage' = stage /\ Moves(p, "drop", FALSE)
    BY <1>0, <1>3, GoWithMoves DEF Create
  <2> QED
    BY <1>1, <2>1, MovedApart, CalmClean
       DEF Moves, SameCall, At, Staging, Unwrapping
<1> QED
  BY <1>2, <1>3

\* A handle goes with the write that uses it.
LEMMA WrittenFile ==
  ASSUME Typed, NEW p \in Procs, NEW f \in File \union {NoFile, NoStage},
         NEW w \in Passwords, UnderWay(f)
  PROVE  /\ UnderWay(Written(f, p, w))
         /\ \A q : HasOpen(Written(f, p, w), q) => q # p /\ HasOpen(f, q)
         /\ Written(f, p, w) = NoStage <=> f = NoStage
<1>1. Torn # w /\ NoStage \notin File
  BY VaultsAssumption, FileAssumption DEF VaultsAssumption, FileAssumption
<1>2. CASE IsFile(f) /\ p \in f.by
  <2> DEFINE g == [content |-> w, by |-> f.by \ {p}]
  <2>1. Written(f, p, w) = g
    BY <1>2 DEF Written
  <2>2. g \in File
    BY <1>2 DEF File, IsFile
  <2>3. g.content = w /\ g.by = f.by \ {p}
    OBVIOUS
  <2> HIDE DEF g
  <2>4. UnderWay(g) /\ \A q : HasOpen(g, q) => q # p /\ HasOpen(f, q)
    BY <1>1, <1>2, <2>3 DEF UnderWay, HasOpen
  <2> QED
    BY <1>1, <1>2, <2>1, <2>2, <2>4 DEF IsFile
<1>3. CASE ~(IsFile(f) /\ p \in f.by)
  BY <1>3 DEF Written, UnderWay, HasOpen
<1> QED
  BY <1>2, <1>3

LEMMA WriteClean ==
  ASSUME Typed, CleanInv, NEW p \in Procs, Write(p)
  PROVE  CleanInv'
<1>0. PICK a \in Addresses : a = call[p].addr
  BY CallFields
<1> DEFINE v == Written(vault[a], p, call[p].new)
           s == Written(stage[a], p, call[p].new)
<1>1. /\ At(p, "write") /\ UNCHANGED <<scratch, cut>>
      /\ vault' = [vault EXCEPT ![a] = v] /\ stage' = [stage EXCEPT ![a] = s]
      /\ Others(p) /\ call'[p].at = "promote" /\ call'[p].addr = a
  BY <1>0, GoMoves DEF Write, history, Moves, SameCall
<1>2. /\ UnderWay(v) /\ UnderWay(s) /\ (s # NoStage => stage[a] # NoStage)
      /\ \A q : HasOpen(v, q) => q # p /\ HasOpen(vault[a], q)
      /\ \A q : HasOpen(s, q) => q # p /\ HasOpen(stage[a], q)
  <2>1. call[p].new \in Passwords
    BY CallFields
  <2>2. /\ vault[a] \in File \union {NoFile, NoStage} /\ UnderWay(vault[a])
        /\ stage[a] \in File \union {NoFile, NoStage} /\ UnderWay(stage[a])
    BY DEF Typed, TypeOK, CleanInv, Halves
  <2> QED
    BY <2>1, <2>2, WrittenFile
<1> HIDE DEF v, s
<1>3. /\ vault'[a] = v /\ stage'[a] = s
      /\ \A b \in Addresses \ {a} : vault'[b] = vault[b] /\ stage'[b] = stage[b]
  BY <1>1 DEF Typed, TypeOK
<1>4. Handles'
  <2> SUFFICES ASSUME NEW b \in Addresses, NEW q \in Procs,
                      HasOpen(vault'[b], q) \/ HasOpen(stage'[b], q)
               PROVE  At(q, "write")' /\ call'[q].addr = b
    BY DEF Handles, HasOpen
  <2>1. HasOpen(vault[b], q) \/ HasOpen(stage[b], q)
    BY <1>2, <1>3
  <2>2. At(q, "write") /\ call[q].addr = b
    BY <2>1 DEF CleanInv, Handles
  <2>3. q # p
    BY <1>0, <1>2, <1>3, <2>2
  <2> QED
    BY <1>1, <2>2, <2>3 DEF Others, At
<1>5. Halves'
  BY <1>2, <1>3 DEF CleanInv, Halves, UnderWay
<1>6. StagesOwned' /\ ScratchOwned' /\ Uncut'
  BY <1>0, <1>1, <1>3, StageMine, ScratchApart
     DEF CleanInv, Uncut, At, Staging, Unwrapping
<1> QED
  BY <1>4, <1>5, <1>6 DEF CleanInv

\* A rename moves a file, its handles with it, within one address.
LEMMA MovedFile ==
  ASSUME Typed, NEW a \in Addresses,
         \/ /\ vault' = [vault EXCEPT ![a] = stage[a]]
            /\ stage' = [stage EXCEPT ![a] = NoFile]
            /\ IsFile(stage[a])
         \/ UNCHANGED <<vault, stage>>
  PROVE  \A b \in Addresses :
           /\ IsFile(vault'[b]) => vault'[b] \in {vault[b], stage[b]}
           /\ stage'[b] # NoStage => stage[b] # NoStage
           /\ IsFile(stage'[b]) => stage'[b] = stage[b]
BY DEF Typed, TypeOK, IsFile

LEMMA PromoteClean ==
  ASSUME Typed, CleanInv, NEW p \in Procs, Promote(p)
  PROVE  CleanInv'
<1>0. PICK a \in Addresses : a = call[p].addr
  BY CallFields
<1>1. /\ At(p, "promote") /\ UNCHANGED <<scratch, cut>>
      /\ \/ /\ vault' = [vault EXCEPT ![a] = stage[a]]
            /\ stage' = [stage EXCEPT ![a] = NoFile]
            /\ IsFile(stage[a])
         \/ UNCHANGED <<vault, stage>>
      /\ Others(p) /\ call'[p].at = "drop" /\ call'[p].addr = call[p].addr
  BY <1>0, GoWithMoves DEF Promote, Movable, history, Moves, SameCall
<1> QED
  BY <1>1, MovedFile, MovedApart, CalmClean DEF At, Staging, Unwrapping

LEMMA DropClean ==
  ASSUME Typed, CleanInv, NEW p \in Procs, Drop(p)
  PROVE  CleanInv'
<1>0. PICK a \in Addresses : a = call[p].addr
  BY CallFields
<1>1. /\ At(p, "drop") /\ UNCHANGED <<vault, scratch, cut>>
      /\ stage' = [stage EXCEPT ![a] = NoStage]
      /\ Others(p)
  BY <1>0, GoMoves DEF Drop, Dropped, history, Moves
<1>2. /\ stage'[a] = NoStage /\ ~IsFile(NoStage)
      /\ \A b \in Addresses \ {a} : stage'[b] = stage[b]
  BY <1>1 DEF Typed, TypeOK, IsFile
<1>3. Handles' /\ Halves'
  BY <1>1, <1>2 DEF CleanInv, Handles, HasOpen, Halves, UnderWay, Others, At
<1>4. StagesOwned' /\ ScratchOwned' /\ Uncut'
  BY <1>0, <1>1, <1>2 DEF CleanInv, StagesOwned, ScratchOwned, Uncut, Others, At,
                    Staging, Unwrapping
<1> QED
  BY <1>3, <1>4 DEF CleanInv

LEMMA BeginClean ==
  ASSUME Typed, CleanInv, NEW p \in Procs, NEW op \in AllOps, NEW a \in Addresses,
         NEW given \in Passwords, NEW new \in Passwords,
         Begin(p, op, a, given, new)
  PROVE  CleanInv'
<1>1. call[p].at = "idle" /\ UNCHANGED <<vault, stage, scratch, cut>>
  BY DEF Begin, disk, Busy
<1>2. Unmoved(p)
  BY BeginCalls DEF Unmoved
<1> QED
  BY <1>1, <1>2, IdleClean DEF Staging, Unwrapping

LEMMA OpeningClean ==
  ASSUME Typed, CleanInv, NEW p \in Procs,
         Find(p) \/ Miss(p) \/ Decrypt(p) \/ Record(p) \/ Retire(p) \/ Answer(p)
  PROVE  CleanInv'
<1>1. /\ UNCHANGED <<vault, stage, scratch, cut>>
      /\ call[p].at \in {"locate", "open", "decrypt", "record", "retire", "answer"}
  BY DEF Find, Miss, Decrypt, Record, Retire, Answer, disk, history, At
<1>2. Others(p)
  <2>1. CASE Find(p) \/ Miss(p) \/ Decrypt(p)
    BY <2>1, FindMoves, MissMoves, DecryptMoves DEF Moves
  <2>2. CASE Record(p) \/ Retire(p)
    BY <2>2, AnnounceMoves, FailMoves DEF Record, Retire, Moves
  <2>3. CASE Answer(p)
    BY <2>3 DEF Answer, Others, Typed, TypeOK
  <2> QED
    BY <2>1, <2>2, <2>3
<1> QED
  BY <1>1, <1>2, MovedApart, IdleClean DEF Staging, Unwrapping

LEMMA RemoveClean ==
  ASSUME Typed, CleanInv, NEW p \in Procs, Remove(p)
  PROVE  CleanInv'
<1>0. PICK a \in Addresses : a = call[p].addr
  BY CallFields
<1>1. /\ At(p, "remove") /\ vault' = [vault EXCEPT ![a] = NoFile]
      /\ UNCHANGED <<stage, scratch, cut>> /\ Others(p)
  BY <1>0, GoMoves DEF Remove, history, Moves
<1>2. \A b \in Addresses : IsFile(vault'[b]) => vault'[b] = vault[b]
  BY <1>1 DEF Typed, TypeOK, IsFile
<1> QED
  BY <1>1, <1>2, MovedApart, CalmClean DEF At, Staging, Unwrapping

LEMMA SettlingClean ==
  ASSUME Typed, CleanInv, NEW p \in Procs, Settling(p)
  PROVE  CleanInv'
<1>0. PICK a \in Addresses : a = call[p].item
  BY SMTT(30), CallFields
<1>1. /\ call[p].at \in SettleSteps
      /\ call[p].at \notin Staging \union Unwrapping /\ ~At(p, "write")
  BY DEF Settling, SettleScan, SettleLock, SettleSweep, SettleCheck, SettleRename,
         SettleClear, SettleDone, At, SettleSteps, Staging, Unwrapping
<1>2. CASE SettleScan(p) \/ SettleLock(p) \/ SettleCheck(p) \/ SettleDone(p)
  <2>1. UNCHANGED <<vault, stage, scratch, cut>>
    BY <1>2 DEF SettleScan, SettleLock, SettleCheck, SettleDone, disk, history
  <2>2. Others(p)
    BY <1>2, ScanMoves, GoMoves, SkippedMoves, CheckMoves, ResumeMoves
       DEF SettleLock, SettleDone, Moves
  <2> QED
    BY <1>1, <2>1, <2>2, MovedApart, IdleClean
<1>3. CASE SettleSweep(p)
  <2>1. /\ UNCHANGED <<vault, stage, cut>> /\ scratch' \subseteq scratch
        /\ Others(p)
    BY <1>3, SweepMoves DEF SettleSweep, history, Moves
  <2> QED
    BY <1>1, <2>1, MovedApart, CalmClean
<1>4. CASE SettleRename(p)
  <2>1. /\ \/ /\ vault' = [vault EXCEPT ![a] = stage[a]]
              /\ stage' = [stage EXCEPT ![a] = NoFile]
              /\ IsFile(stage[a])
           \/ UNCHANGED <<vault, stage>>
        /\ UNCHANGED <<scratch, cut>> /\ Others(p)
    BY <1>0, <1>4, GoMoves DEF SettleRename, history, Moves
  <2> QED
    BY <1>1, <2>1, MovedFile, MovedApart, CalmClean
<1>5. CASE SettleClear(p)
  <2>1. /\ stage' = [stage EXCEPT ![a] = NoStage] /\ cut' = Unstaged(a)
        /\ UNCHANGED <<vault, scratch>> /\ Others(p)
    BY <1>0, <1>5, ClearMoves DEF SettleClear, Moves
  <2>2. \A b \in Addresses :
          /\ stage'[b] # NoStage => stage'[b] = stage[b]
          /\ cut'[b] \subseteq cut[b]
    BY <2>1 DEF Typed, TypeOK, Unstaged
  <2> QED
    BY <1>1, <2>1, <2>2, MovedApart, CalmClean DEF IsFile
<1> QED
  BY <1>2, <1>3, <1>4, <1>5 DEF Settling

\* Kills and failures are counted: without one, only these steps were taken.
LEMMA NextClean ==
  ASSUME Typed, mishaps = 0 => CleanInv, [Next]_vars
  PROVE  (mishaps = 0 => CleanInv)'
<1> SUFFICES ASSUME mishaps' = 0
             PROVE  CleanInv'
  OBVIOUS
<1>1. CASE UNCHANGED vars
  BY <1>1 DEF vars, CleanInv, Handles, HasOpen, Halves, UnderWay, StagesOwned,
              ScratchOwned, Uncut, At
<1>2. ASSUME NEW p \in Procs, Fails(p)
      PROVE  FALSE
  <2>1. Mishap
    BY <1>2 DEF Fails, WriteFails, BookFails, CleanupFails, RepairFails, Kill
  <2> QED
    BY <2>1 DEF Mishap, Typed, TypeOK
<1>3. ASSUME NEW p \in Procs, Calls(p)
      PROVE  CleanInv'
  <2>1. mishaps' = mishaps
    BY ZenonT(60), <1>3 DEF Calls, Begin
  <2> QED
    BY <1>3, <2>1, BeginClean, VaultsAssumption DEF Calls, VaultsAssumption
<1>4. ASSUME NEW p \in Procs, Proceed(p)
      PROVE  CleanInv'
  <2>1. mishaps' = mishaps
    BY <1>4 DEF Proceed, Find, Miss, Decrypt, Scratch, Unwrap, Toss, Writing,
                MakeStage, Create, Write, Promote, Drop, Record, Remove, Retire,
                Settling, SettleScan, SettleLock, SettleSweep, SettleCheck,
                SettleRename, SettleClear, SettleDone, Answer
  <2> QED
    BY <1>4, <2>1, OpeningClean, ScratchClean, UnwrapClean, TossClean,
       MakeStageClean, CreateClean, WriteClean, PromoteClean, DropClean,
       RemoveClean, SettlingClean DEF Proceed, Writing
<1> QED
  BY <1>1, <1>2, <1>3, <1>4 DEF Next

LEMMA InitClean ==
  ASSUME Init
  PROVE  CleanInv /\ LockHeld
<1>1. \A p \in Procs : call[p].at = "idle"
  BY DEF Init, IdleCall
<1>2. CleanInv
  BY DEF Init, CleanInv, Handles, HasOpen, Halves, UnderWay, StagesOwned,
         ScratchOwned, Uncut, IsFile
<1>3. LockHeld
  BY <1>1, VaultsAssumption DEF Init, LockHeld, Locking, VaultsAssumption
<1> QED
  BY <1>2, <1>3

\* A step outside a settle's repairs neither takes the lock nor gives it back.
LEMMA FarFromLock ==
  ASSUME Typed, LockHeld, NEW p \in Procs, NEW step, NEW ok, Moves(p, step, ok),
         lock' = lock, call[p].at \notin Locking, step \notin Locking
  PROVE  LockHeld'
BY MovedApart, LockKept DEF Moves

LEMMA NextLock ==
  ASSUME Typed, LockHeld, [Next]_vars
  PROVE  LockHeld'
<1>1. CASE UNCHANGED vars
  BY <1>1 DEF vars, LockHeld
<1>2. ASSUME NEW p \in Procs, Calls(p)
      PROVE  LockHeld'
  <2>1. PICK op \in AllOps, a \in Addresses, given \in Passwords, new \in Passwords :
          Begin(p, op, a, given, new)
    BY <1>2, VaultsAssumption DEF Calls, VaultsAssumption
  <2>2. call[p].at = "idle" /\ lock' = lock
    BY <2>1 DEF Begin, Busy
  <2>3. Unmoved(p)
    BY <2>1, BeginCalls DEF Unmoved
  <2>4. call'[p].at = FirstStep(op)
    BY <2>1 DEF Begin, IdleCall
  <2>5. FirstStep(op) \notin Locking
    BY DEF FirstStep, AllOps, Locking
  <2> QED
    BY <2>2, <2>3, <2>4, <2>5, LockKept DEF Locking
<1>3. ASSUME NEW p \in Procs, Find(p) \/ Miss(p) \/ Decrypt(p) \/ Scratch(p)
                                \/ Unwrap(p) \/ Toss(p)
      PROVE  LockHeld'
  <2>1. /\ call[p].at \in {"locate", "open", "decrypt", "scratch", "unwrap", "toss"}
        /\ lock' = lock
    BY <1>3 DEF Find, Miss, Decrypt, Scratch, Unwrap, Toss, At
  <2>2. \E step \in {"open", "decrypt", "scan", "answer", "stage", "remove",
                     "unwrap", "toss"}, ok \in BOOLEAN : Moves(p, step, ok)
    <3>1. CASE Unwrap(p)
      BY <3>1, GoWithMoves DEF Unwrap
    <3>2. CASE ~Unwrap(p)
      BY <1>3, <3>2, CallFields, FindMoves, MissMoves, DecryptMoves, ScratchMoves,
         TossedMoves DEF Toss
    <3> QED
      BY <3>1, <3>2
  <2> QED
    BY <2>1, <2>2, FarFromLock DEF Locking
<1>4. ASSUME NEW p \in Procs, Writing(p) \/ WriteFails(p) \/ CleanupFails(p)
      PROVE  LockHeld'
  <2>1. /\ call[p].at \in {"scratch", "toss", "stage"} \union Staging
        /\ lock' = lock
    BY <1>4 DEF Writing, MakeStage, Create, Write, Promote, Drop, WriteFails,
                CleanupFails, At, Staging
  <2>2. \E step \in {"stage", "record", "answer"} \union Staging, ok \in BOOLEAN :
          Moves(p, step, ok)
    <3>1. \/ Fail(p) \/ call' = Tossed(p)
          \/ Go(p, "create") \/ Go(p, "write") \/ Go(p, "promote")
          \/ Go(p, "record") \/ Go(p, "answer")
          \/ \E ok \in BOOLEAN : GoWith(p, "drop", ok)
      BY <1>4 DEF Writing, MakeStage, Create, Write, Promote, Promotable, IsFile,
                  Drop, WriteFails, CleanupFails
    <3>2. call[p].ok \in BOOLEAN
      BY CallFields
    <3>3. CASE Fail(p) \/ call' = Tossed(p)
      <4>1. \/ Moves(p, "answer", FALSE)
            \/ Moves(p, IF call[p].ok THEN "stage" ELSE "answer", FALSE)
        BY <3>3, FailMoves, TossedMoves
      <4> QED
        BY <4>1
    <3>4. CASE \E step \in {"create", "write", "promote", "record", "answer"} :
                 Go(p, step)
      <4>1. PICK step \in {"create", "write", "promote", "record", "answer"} :
              Go(p, step)
        BY <3>4
      <4>2. Moves(p, step, call[p].ok)
        BY <4>1, GoMoves
      <4> QED
        BY <3>2, <4>2 DEF Staging
    <3>5. CASE \E ok \in BOOLEAN : GoWith(p, "drop", ok)
      <4>1. PICK ok \in BOOLEAN : GoWith(p, "drop", ok)
        BY <3>5
      <4>2. Moves(p, "drop", ok)
        BY <4>1, GoWithMoves
      <4> QED
        BY <4>2 DEF Staging
    <3> QED
      BY <3>1, <3>3, <3>4, <3>5
  <2> QED
    BY <2>1, <2>2, FarFromLock DEF Locking, Staging
<1>5. ASSUME NEW p \in Procs, Record(p) \/ Remove(p) \/ Retire(p) \/ BookFails(p)
      PROVE  LockHeld'
  <2>1. call[p].at \in {"record", "remove", "retire"} /\ lock' = lock
    BY <1>5 DEF Record, Remove, Retire, BookFails, At
  <2>2. \E step \in {"scan", "answer", "retire"}, ok \in BOOLEAN : Moves(p, step, ok)
    BY <1>5, CallFields, GoMoves, AnnounceMoves, FailMoves
       DEF Record, Remove, Retire, BookFails
  <2> QED
    BY <2>1, <2>2, FarFromLock DEF Locking
<1>6. ASSUME NEW p \in Procs, \/ SettleScan(p) \/ SettleLock(p)
                              \/ RepairFails(p) /\ At(p, "lock")
      PROVE  LockHeld'
  <2>1. call[p].at \in {"scan", "lock"} /\ call[p].back \in {"locate", "open", "answer"}
    BY <1>6, CallFields DEF SettleScan, SettleLock, At
  <2>2. CASE lock' = lock /\ ~(SettleLock(p) /\ lock = Nobody)
    <3>1. \E step \in {"lock", "locate", "open", "answer"}, ok \in BOOLEAN :
            Moves(p, step, ok)
      BY <1>6, <2>1, <2>2, CallFields, ScanMoves, SkippedMoves
         DEF SettleLock, RepairFails, At
    <3> QED
      BY <2>1, <2>2, <3>1, FarFromLock DEF Locking
  <2>3. CASE lock = Nobody /\ lock' = p /\ Go(p, "sweep")
    <3>1. Others(p) /\ call'[p].at = "sweep"
      BY <2>3, GoMoves DEF Moves
    <3>2. \A q \in Procs : call[q].at \notin Locking
      BY <2>3, VaultsAssumption DEF LockHeld, VaultsAssumption
    <3> QED
      BY <2>3, <3>1, <3>2 DEF LockHeld, Others, Locking
  <2> QED
    BY <1>6, <2>2, <2>3, VaultsAssumption
       DEF SettleScan, SettleLock, RepairFails, VaultsAssumption
<1>7. ASSUME NEW p \in Procs, \/ SettleSweep(p) \/ SettleCheck(p)
                              \/ SettleRename(p) \/ SettleClear(p)
                              \/ RepairFails(p) /\ ~At(p, "lock")
      PROVE  LockHeld'
  <2>1. call[p].at \in Locking /\ lock' = lock
    BY <1>7 DEF SettleSweep, SettleCheck, SettleRename, SettleClear, RepairFails,
                At, Locking
  <2>2. \E step \in Locking : Moves(p, step, call[p].ok)
    BY <1>7, GoMoves, SweepMoves, CheckMoves, ClearMoves
       DEF SettleSweep, SettleRename, SettleClear, RepairFails, Locking
  <2> QED
    BY <2>1, <2>2, MovedApart, LockKept DEF Moves
<1>8. ASSUME NEW p \in Procs, SettleDone(p) \/ Answer(p) \/ Kill(p)
      PROVE  LockHeld'
  <2>1. \/ lock' = lock /\ lock # p
        \/ lock' = Nobody /\ lock = p
    BY <1>8, VaultsAssumption
       DEF SettleDone, Answer, Kill, At, LockHeld, Locking, VaultsAssumption
  <2>2. Others(p) /\ call'[p].at \notin Locking
    <3>1. CASE SettleDone(p)
      BY <3>1, ResumeMoves, CallFields DEF SettleDone, Moves, Locking
    <3>2. CASE Answer(p) \/ Kill(p)
      BY <3>2 DEF Answer, Kill, Others, Locking, IdleCall, Typed, TypeOK
    <3> QED
      BY <1>8, <3>1, <3>2
  <2> QED
    BY <2>1, <2>2, VaultsAssumption DEF LockHeld, Others, VaultsAssumption
<1>9. ASSUME NEW p \in Procs, Proceed(p)
      PROVE  LockHeld'
  <2>1. CASE Settling(p)
    BY <2>1, <1>6, <1>7, <1>8 DEF Settling
  <2>2. CASE ~Settling(p)
    BY <2>2, <1>3, <1>4, <1>5, <1>8, <1>9 DEF Proceed
  <2> QED
    BY <2>1, <2>2
<1>10. ASSUME NEW p \in Procs, Fails(p)
       PROVE  LockHeld'
  BY <1>4, <1>5, <1>6, <1>7, <1>8, <1>10 DEF Fails, At
<1> QED
  BY <1>1, <1>2, <1>9, <1>10 DEF Next

LEMMA AlwaysClean ==
  Spec => [](Typed /\ ToldInv /\ LockHeld /\ (mishaps = 0 => CleanInv))
<1> DEFINE Inv == Typed /\ ToldInv /\ LockHeld /\ (mishaps = 0 => CleanInv)
<1>1. Init => Inv
  BY InitTyped, InitTold, InitClean
<1>2. Inv /\ [Next]_vars => Inv'
  BY NextTyped, NextTold, NextLock, NextClean
<1> QED
  BY <1>1, <1>2, PTL DEF Spec

-----------------------------------------------------------------------------
(* What is proved of any number of processes. *)

\* The account is as QuietTold says, or its vault is half written.
ToldOrTorn ==
  Quiet => \A a \in Addresses : Live(a) \in told[a] \union cut[a] \union {Torn}

\* However many processes share the directory and however many of their calls
\* are killed or fail: with no call running, an account stands as the last call
\* answered ok left it, as one that overlapped it or was refused or killed since
\* did, or as a killed write would have, or else its vault is half written; no
\* older state comes back (write_vault and settle, keystore.rs).
THEOREM NothingOlderComesBack == Spec => []ToldOrTorn
<1>1. Typed /\ ToldInv => ToldOrTorn
  BY DEF ToldInv, AccountsTold, Stands, ToldOrTorn
<1> QED
  BY <1>1, AlwaysTold, PTL

\* Processes that nothing cuts short leave no stage, no scratch directory and
\* no lock behind (the clean-up guards of write_vault and import, settle).
THEOREM NothingIsLeftBehind == Spec => []QuietClean
<1>1. Typed /\ LockHeld /\ (mishaps = 0 => CleanInv) => QuietClean
  <2> SUFFICES ASSUME Typed, LockHeld, CleanInv, Quiet
               PROVE  /\ lock = Nobody
                      /\ scratch = {}
                      /\ \A a \in Addresses : stage[a] = NoStage
    BY DEF QuietClean
  <2>1. \A p \in Procs : call[p].at = "idle"
    BY DEF Quiet, Busy
  <2>2. lock = Nobody
    BY <2>1 DEF LockHeld, Locking, Typed, TypeOK
  <2>3. scratch = {} /\ \A a \in Addresses : stage[a] = NoStage
    BY <2>1 DEF CleanInv, StagesOwned, ScratchOwned, Staging, Unwrapping
  <2> QED
    BY <2>2, <2>3
<1> QED
  BY <1>1, AlwaysClean, PTL

\* What two processes can break (a half-written vault, a deleted account that
\* is back) they break only after a kill or a failing system call: a behaviour
\* without one ends every call with a whole vault that a call left there.
THEOREM OnlyMishapsTear ==
  Spec => [](mishaps = 0 => QuietTold /\ NoTornVault /\ DeletedStaysDeleted)
<1>1. Typed /\ ToldInv /\ LockHeld /\ (mishaps = 0 => CleanInv)
        => (mishaps = 0 => QuietTold /\ NoTornVault /\ DeletedStaysDeleted)
  <2> SUFFICES ASSUME Typed, ToldInv, CleanInv, Quiet, NEW a \in Addresses
               PROVE  Live(a) # Torn /\ Live(a) \in told[a]
    BY DEF QuietTold, NoTornVault, DeletedStaysDeleted
  <2>1. \A p \in Procs : ~At(p, "write")
    BY DEF Quiet, Busy, At
  <2>2. Live(a) # Torn
    BY <2>1, VaultsAssumption
       DEF Live, CleanInv, Handles, HasOpen, Halves, UnderWay, VaultsAssumption
  <2> QED
    BY <2>2 DEF ToldInv, AccountsTold, Stands, CleanInv, Uncut
<1> QED
  BY <1>1, AlwaysClean, PTL

-----------------------------------------------------------------------------
(* Every call ends: each step of it leaves fewer. *)

\* Settle is at a directory its scan named, and was called by use_vault for
\* the first time or by the listing that follows a change.
OnItsWay(c) ==
  /\ c.at \in {"rename", "clear"} => c.item \in c.todo
  /\ Settles(c) /\ c.back # "answer" => c.tried

EndInv == \A p \in Procs : OnItsWay(call[p])

\* The steps outside settle and use_vault's look for the vault.
Plain == Steps \ (SettleSteps \union {"idle", "locate", "open"})

\* What p's call is after a step of p, and that nothing else is.
Becomes(p, at, back, tried, todo, item) ==
  /\ Others(p)
  /\ call'[p].at = at /\ call'[p].back = back /\ call'[p].tried = tried
  /\ call'[p].todo = todo /\ call'[p].item = item

LEMMA SettleLengthNat ==
  /\ Cardinality(Addresses) \in Nat
  /\ SettleLength \in Nat
  /\ SettleLength = 3 * Cardinality(Addresses) + 4
BY VaultsAssumption, FS_CardinalityType DEF VaultsAssumption, SettleLength

LEMMA Lengths ==
  /\ LengthFrom("answer") = 1
  /\ LengthFrom("record") = SettleLength + 2
  /\ LengthFrom("retire") = SettleLength + 2
  /\ LengthFrom("drop") = SettleLength + 3
  /\ LengthFrom("remove") = SettleLength + 3
  /\ LengthFrom("promote") = SettleLength + 4
  /\ LengthFrom("write") = SettleLength + 5
  /\ LengthFrom("create") = SettleLength + 6
  /\ LengthFrom("stage") = SettleLength + 7
  /\ LengthFrom("toss") = SettleLength + 8
  /\ LengthFrom("decrypt") = SettleLength + 8
  /\ LengthFrom("unwrap") = SettleLength + 9
  /\ LengthFrom("open") = SettleLength + 9
  /\ LengthFrom("scratch") = SettleLength + 10
  /\ LengthFrom("locate") = 2 * SettleLength + 11
BY DEF LengthFrom

\* What settle's scan named is finite, and it goes through it one by one.
LEMMA TodoFinite ==
  ASSUME NEW todo \in SUBSET Addresses, NEW item
  PROVE  /\ Cardinality(todo) \in Nat
         /\ Cardinality(todo) <= Cardinality(Addresses)
         /\ todo \ {item} \in SUBSET Addresses
         /\ item \in todo => /\ Cardinality(todo) >= 1
                            /\ Cardinality(todo \ {item}) = Cardinality(todo) - 1
<1>1. IsFiniteSet(todo) /\ Cardinality(todo) <= Cardinality(Addresses)
  BY VaultsAssumption, FS_Subset DEF VaultsAssumption
<1>2. Cardinality(todo) \in Nat
  BY <1>1, FS_CardinalityType
<1>3. item \in todo => Cardinality(todo \ {item}) = Cardinality(todo) - 1
  BY <1>1, FS_RemoveElement
<1>4. Cardinality(todo \ {item}) \in Nat
  BY <1>1, FS_RemoveElement, FS_CardinalityType
<1> QED
  BY <1>1, <1>2, <1>3, <1>4

\* Outside settle and use_vault, the step alone tells what is left.
LEMMA PlainLeft ==
  ASSUME NEW c, c.at \in Plain
  PROVE  StepsLeft(c) = LengthFrom(c.at) /\ LengthFrom(c.at) \in Nat
         /\ LengthFrom(c.at) > 0
<1>1. c.at \in {"answer", "record", "retire", "drop", "remove", "promote", "write",
                "create", "stage", "toss", "decrypt", "unwrap", "scratch"}
  BY DEF Plain, Steps, SettleSteps
<1>2. StepsLeft(c) = LengthFrom(c.at)
  BY <1>1 DEF StepsLeft, Settles
<1> QED
  BY <1>1, <1>2, Lengths, SettleLengthNat

\* At the look for the vault, settle may still be ahead.
LEMMA LookLeft ==
  ASSUME NEW c, c.at \in {"locate", "open"}
  PROVE  /\ c.tried => StepsLeft(c) = LengthFrom(c.at)
         /\ ~c.tried => StepsLeft(c) = LengthFrom(c.at) + SettleLength + 1
         /\ LengthFrom(c.at) \in Nat
BY Lengths, SettleLengthNat DEF StepsLeft, Settles

LEMMA SettleLeft ==
  ASSUME NEW c, Settles(c)
  PROVE  /\ StepsLeft(c) = LengthFrom(c.back) + LeftToSettle(c)
         /\ c.at = "scan"   => LeftToSettle(c) = SettleLength
         /\ c.at = "lock"   => LeftToSettle(c) = 3 * Cardinality(c.todo) + 3
         /\ c.at = "sweep"  => LeftToSettle(c) = 3 * Cardinality(c.todo) + 2
         /\ c.at = "check"  => LeftToSettle(c) = 3 * Cardinality(c.todo) + 1
         /\ c.at = "rename" => LeftToSettle(c) = 3 * Cardinality(c.todo)
         /\ c.at = "clear"  => LeftToSettle(c) = 3 * Cardinality(c.todo) - 1
BY DEF StepsLeft, Settles, LeftToSettle

LEMMA SomeLeft ==
  ASSUME NEW c \in Call, c.at # "idle", OnItsWay(c)
  PROVE  StepsLeft(c) \in Nat /\ StepsLeft(c) > 0
<1>1. CASE c.at \in Plain
  BY <1>1, PlainLeft
<1>2. CASE c.at \in {"locate", "open"}
  BY <1>2, LookLeft, Lengths, SettleLengthNat DEF Call
<1>3. CASE c.at \in SettleSteps
  <2>1. LengthFrom(c.back) \in Nat /\ LengthFrom(c.back) > 0
    BY Lengths, SettleLengthNat DEF Call
  <2>2. /\ Cardinality(c.todo) \in Nat
        /\ c.at \in {"rename", "clear"} => Cardinality(c.todo) >= 1
    BY TodoFinite DEF Call, OnItsWay
  <2>3. LeftToSettle(c) \in Nat
    BY <1>3, <2>2, SettleLeft, SettleLengthNat DEF SettleSteps, Settles
  <2> QED
    BY <1>3, <2>1, <2>3, SettleLeft DEF SettleSteps, Settles
<1> QED
  BY <1>1, <1>2, <1>3 DEF Plain, Call

\* A step of p that leaves p's call fewer steps is all there is to show.
LEMMA StepEnds ==
  ASSUME Typed, EndInv, NEW p \in Procs, Others(p),
         OnItsWay(call'[p]), StepsLeft(call'[p]) < StepsLeft(call[p])
  PROVE  EndInv' /\ \A q \in Procs : NearsItsAnswer(q)
<1>1. \A q \in Procs \ {p} : call'[q] = call[q]
  BY DEF Others
<1>2. EndInv'
  BY <1>1 DEF EndInv
<1>3. \A q \in Procs \ {p} : ~Stepped(q)
  BY <1>1 DEF Stepped, Apart
<1> QED
  BY <1>2, <1>3 DEF NearsItsAnswer

LEMMA PlainEnds ==
  ASSUME Typed, EndInv, NEW p \in Procs, NEW s \in Plain, Others(p),
         call'[p].at = s, call[p].at \in Plain,
         LengthFrom(s) < LengthFrom(call[p].at)
  PROVE  EndInv' /\ \A q \in Procs : NearsItsAnswer(q)
<1>1. StepsLeft(call'[p]) < StepsLeft(call[p])
  BY PlainLeft
<1>2. OnItsWay(call'[p])
  BY DEF OnItsWay, Settles, Plain, SettleSteps
<1> QED
  BY <1>1, <1>2, StepEnds

\* A refused call has nothing left but its answer.
LEMMA FailEnds ==
  ASSUME Typed, EndInv, NEW p \in Procs, Moves(p, "answer", FALSE),
         Busy(p), ~At(p, "answer")
  PROVE  EndInv' /\ \A q \in Procs : NearsItsAnswer(q)
<1> DEFINE c == call[p]
<1>1. Others(p) /\ call'[p].at = "answer"
  BY DEF Moves
<1>2. StepsLeft(call'[p]) = 1 /\ OnItsWay(call'[p])
  BY <1>1, PlainLeft, Lengths DEF Plain, Steps, SettleSteps, OnItsWay, Settles
<1>3. c \in Call /\ OnItsWay(c) /\ c.at \notin {"idle", "answer"}
  BY CallFields DEF EndInv, Busy, At
<1>4. StepsLeft(c) > 1
  <2>1. CASE c.at \in Plain
    <3>1. c.at \in {"record", "retire", "drop", "remove", "promote", "write",
                    "create", "stage", "toss", "decrypt", "unwrap", "scratch"}
      BY <2>1, <1>3 DEF Plain, Steps, SettleSteps
    <3> QED
      BY <2>1, <3>1, PlainLeft, Lengths, SettleLengthNat
  <2>2. CASE c.at \in {"locate", "open"}
    BY <2>2, <1>3, LookLeft, Lengths, SettleLengthNat DEF Call
  <2>3. CASE c.at \in SettleSteps
    <3>1. LengthFrom(c.back) \in Nat /\ LengthFrom(c.back) >= 1
      BY <1>3, Lengths, SettleLengthNat DEF Call
    <3>2. /\ Cardinality(c.todo) \in Nat
          /\ c.at \in {"rename", "clear"} => Cardinality(c.todo) >= 1
      BY <1>3, TodoFinite DEF Call, OnItsWay
    <3>3. LeftToSettle(c) \in Nat /\ LeftToSettle(c) >= 1
      <4>1. CASE c.at = "scan"
        BY <4>1, SettleLeft, SettleLengthNat DEF Settles
      <4>2. CASE c.at # "scan"
        BY <2>3, <3>2, <4>2, SettleLeft DEF SettleSteps, Settles
      <4> QED
        BY <4>1, <4>2
    <3> QED
      BY <2>3, <3>1, <3>3, SettleLeft DEF SettleSteps, Settles
  <2> QED
    BY <1>3, <2>1, <2>2, <2>3 DEF Plain, Call
<1> QED
  BY <1>1, <1>2, <1>4, StepEnds

LEMMA OpeningEnds ==
  ASSUME Typed, EndInv, NEW p \in Procs,
         Find(p) \/ Miss(p) \/ Decrypt(p) \/ Scratch(p) \/ Unwrap(p) \/ Toss(p)
  PROVE  EndInv' /\ \A q \in Procs : NearsItsAnswer(q)
<1> DEFINE c == call[p]
<1>0. c \in Call
  BY CallFields
<1>1. CASE Find(p)
  <2>1. /\ c.at \in {"locate", "open"}
        /\ Others(p)
        /\ call'[p] = [c EXCEPT !.at = IF @ = "locate" THEN "open" ELSE "decrypt",
                                !.tried = FALSE]
    BY <1>1 DEF Others, Find, At, Typed, TypeOK
  <2>2. /\ c.at = "locate" => call'[p].at = "open" /\ ~call'[p].tried
        /\ c.at = "open" => call'[p].at = "decrypt"
    BY <1>0, <2>1 DEF Call
  <2>3. OnItsWay(call'[p])
    BY <2>1, <2>2 DEF OnItsWay, Settles
  <2>4. CASE c.at = "locate"
    <3>1. StepsLeft(call'[p]) = LengthFrom("open") + SettleLength + 1
      BY <2>2, <2>4, LookLeft
    <3>2. StepsLeft(c) >= LengthFrom("locate")
      BY <1>0, <2>4, LookLeft, SettleLengthNat DEF Call
    <3>3. StepsLeft(c) \in Nat
      BY <1>0, <2>4, LookLeft, SettleLengthNat DEF Call
    <3> QED
      BY <2>1, <2>3, <3>1, <3>2, <3>3, Lengths, SettleLengthNat, StepEnds
  <2>5. CASE c.at = "open"
    <3>1. StepsLeft(call'[p]) = LengthFrom("decrypt")
      BY <2>2, <2>5, PlainLeft DEF Plain, Steps, SettleSteps
    <3> QED
      BY <1>0, <2>1, <2>3, <2>5, <3>1, LookLeft, Lengths, SettleLengthNat, StepEnds
         DEF Call
  <2> QED
    BY <2>1, <2>4, <2>5
<1>2. CASE Miss(p)
  <2>1. c.at \in {"locate", "open"} /\ Busy(p) /\ ~At(p, "answer")
    BY <1>2 DEF Miss, At, Busy
  <2>2. CASE SettleFirst(p)
    <3>1. /\ Others(p)
          /\ call'[p] = [c EXCEPT !.at = "scan", !.back = c.at, !.tried = TRUE]
      BY <1>2, <2>2 DEF Others, Miss, Typed, TypeOK
    <3>2. /\ call'[p].at = "scan" /\ call'[p].back = c.at /\ call'[p].tried
      BY <1>0, <3>1 DEF Call
    <3>3. OnItsWay(call'[p]) /\ Settles(call'[p])
      BY <3>2 DEF OnItsWay, Settles
    <3>4. StepsLeft(call'[p]) = LengthFrom(c.at) + SettleLength
      BY <3>2, <3>3, SettleLeft
    <3>5. StepsLeft(c) = LengthFrom(c.at) + SettleLength + 1
      BY <2>1, <2>2, LookLeft DEF SettleFirst
    <3>6. LengthFrom(c.at) \in Nat
      BY <2>1, Lengths, SettleLengthNat
    <3> QED
      BY <3>1, <3>3, <3>4, <3>5, <3>6, SettleLengthNat, StepEnds
  <2>3. CASE ~SettleFirst(p)
    BY <1>2, <2>1, <2>3, FailMoves, FailEnds DEF Miss
  <2> QED
    BY <2>2, <2>3
<1>3. CASE Decrypt(p)
  <2>1. c.at = "decrypt" /\ Busy(p) /\ ~At(p, "answer")
    BY <1>3 DEF Decrypt, At, Busy
  <2>2. Others(p) /\ call'[p].at \in {"answer", "stage", "remove"}
    BY <1>3, DecryptMoves DEF Moves
  <2> QED
    BY <2>1, <2>2, PlainEnds, Lengths, SettleLengthNat DEF Plain, Steps, SettleSteps
<1>4. CASE Scratch(p) \/ Unwrap(p) \/ Toss(p)
  <2>1. \/ c.at = "scratch" /\ call'[p].at = "unwrap"
        \/ c.at = "unwrap" /\ call'[p].at = "toss"
        \/ c.at = "toss" /\ call'[p].at \in {"stage", "answer"}
    BY <1>4, ScratchMoves, GoWithMoves, TossedMoves
       DEF Scratch, Unwrap, Toss, At, Moves
  <2>2. Others(p)
    BY <1>4, ScratchMoves, GoWithMoves, TossedMoves DEF Unwrap, Toss, Moves
  <2> QED
    BY <2>1, <2>2, PlainEnds, Lengths, SettleLengthNat DEF Plain, Steps, SettleSteps
<1> QED
  BY <1>1, <1>2, <1>3, <1>4

LEMMA WritingEnds ==
  ASSUME Typed, EndInv, NEW p \in Procs,
         Writing(p) \/ WriteFails(p) \/ CleanupFails(p) \/ BookFails(p) \/ Remove(p)
  PROVE  EndInv' /\ \A q \in Procs : NearsItsAnswer(q)
<1> DEFINE c == call[p]
<1>1. Others(p) /\
      \/ c.at = "stage" /\ call'[p].at \in {"create", "answer"}
      \/ c.at = "create" /\ call'[p].at \in {"write", "drop"}
      \/ c.at = "write" /\ call'[p].at \in {"promote", "drop"}
      \/ c.at = "promote" /\ call'[p].at = "drop"
      \/ c.at = "drop" /\ call'[p].at \in {"record", "answer"}
      \/ c.at = "remove" /\ call'[p].at \in {"retire", "answer"}
      \/ c.at \in {"scratch", "record", "retire"} /\ call'[p].at = "answer"
      \/ c.at = "toss" /\ call'[p].at \in {"stage", "answer"}
  <2>1. CASE Writing(p)
    BY <2>1, GoMoves, GoWithMoves
       DEF Writing, MakeStage, Create, Write, Promote, Drop, At, Moves
  <2>2. CASE WriteFails(p)
    BY <2>2, FailMoves, GoWithMoves DEF WriteFails, At, Moves
  <2>3. CASE CleanupFails(p)
    BY <2>3, GoMoves, TossedMoves DEF CleanupFails, At, Moves
  <2>4. CASE BookFails(p)
    BY <2>4, FailMoves DEF BookFails, At, Moves
  <2>5. CASE Remove(p)
    BY <2>5, GoMoves DEF Remove, At, Moves
  <2> QED
    BY <2>1, <2>2, <2>3, <2>4, <2>5
<1> QED
  BY <1>1, PlainEnds, Lengths, SettleLengthNat DEF Plain, Steps, SettleSteps

LEMMA BookingEnds ==
  ASSUME Typed, EndInv, NEW p \in Procs, Record(p) \/ Retire(p)
  PROVE  EndInv' /\ \A q \in Procs : NearsItsAnswer(q)
<1> DEFINE c == call[p]
<1>1. c.at \in {"record", "retire"} /\ Busy(p) /\ ~At(p, "answer")
  BY DEF Record, Retire, At, Busy
<1>2. CASE Fail(p)
  BY <1>1, <1>2, FailMoves, FailEnds
<1>3. CASE Announce(p)
  <2>1. /\ Others(p)
        /\ call'[p] = [c EXCEPT !.at = "scan", !.back = "answer", !.ok = TRUE]
    BY <1>3 DEF Others, Announce, Typed, TypeOK
  <2>2. call'[p].at = "scan" /\ call'[p].back = "answer"
    BY <2>1, CallFields DEF Call
  <2>3. OnItsWay(call'[p]) /\ Settles(call'[p])
    BY <2>2 DEF OnItsWay, Settles
  <2>4. StepsLeft(call'[p]) = 1 + SettleLength
    BY <2>2, <2>3, SettleLeft, Lengths
  <2>5. StepsLeft(c) = SettleLength + 2
    BY <1>1, PlainLeft, Lengths DEF Plain, Steps, SettleSteps
  <2> QED
    BY <2>1, <2>3, <2>4, <2>5, SettleLengthNat, StepEnds
<1> QED
  BY <1>2, <1>3 DEF Record, Retire

\* Inside settle: the next step of it.
LEMMA SettleStepEnds ==
  ASSUME Typed, EndInv, NEW p \in Procs, Others(p), Settles(call[p]),
         Settles(call'[p]), OnItsWay(call'[p]),
         call'[p].back = call[p].back,
         LeftToSettle(call[p]) \in Nat, LeftToSettle(call'[p]) \in Nat,
         LeftToSettle(call'[p]) < LeftToSettle(call[p])
  PROVE  EndInv' /\ \A q \in Procs : NearsItsAnswer(q)
<1>1. LengthFrom(call[p].back) \in Nat
  BY CallFields, Lengths, SettleLengthNat
<1>2. StepsLeft(call'[p]) < StepsLeft(call[p])
  BY <1>1, SettleLeft
<1> QED
  BY <1>2, StepEnds

\* Settle returns to where it was called from, which does not call it again.
LEMMA ResumeEnds ==
  ASSUME Typed, EndInv, NEW p \in Procs, Others(p), Settles(call[p]),
         call'[p].at = call[p].back, call'[p].tried = call[p].tried,
         LeftToSettle(call[p]) \in Nat, LeftToSettle(call[p]) > 0
  PROVE  EndInv' /\ \A q \in Procs : NearsItsAnswer(q)
<1> DEFINE c == call[p]
<1>1. c.back \in {"locate", "open", "answer"} /\ OnItsWay(c)
  BY CallFields DEF EndInv
<1>2. StepsLeft(c) = LengthFrom(c.back) + LeftToSettle(c)
  BY SettleLeft
<1>3. LengthFrom(c.back) \in Nat
  BY <1>1, Lengths, SettleLengthNat
<1>4. StepsLeft(call'[p]) = LengthFrom(c.back)
  <2>1. CASE c.back = "answer"
    BY <2>1, PlainLeft DEF Plain, Steps, SettleSteps
  <2>2. CASE c.back \in {"locate", "open"}
    <3>1. call'[p].tried
      BY <1>1, <2>2, CallFields DEF OnItsWay, Call
    <3> QED
      BY <1>3, <2>2, <3>1, LookLeft
  <2> QED
    BY <1>1, <2>1, <2>2
<1>5. OnItsWay(call'[p])
  BY <1>1 DEF OnItsWay, Settles
<1> QED
  BY <1>2, <1>3, <1>4, <1>5, StepEnds

LEMMA SettlingEnds ==
  ASSUME Typed, EndInv, NEW p \in Procs, Settling(p) \/ RepairFails(p)
  PROVE  EndInv' /\ \A q \in Procs : NearsItsAnswer(q)
<1> DEFINE c == call[p]
<1>0. /\ c \in Call /\ OnItsWay(c) /\ c.todo \in SUBSET Addresses
      /\ Settles(c)
  BY CallFields
     DEF EndInv, Settles, Settling, SettleScan, SettleLock, SettleSweep, SettleCheck,
         SettleRename, SettleClear, SettleDone, RepairFails, At
<1>1. /\ Cardinality(c.todo) \in Nat
      /\ Cardinality(c.todo) <= Cardinality(Addresses)
      /\ c.item \in c.todo =>
           /\ Cardinality(c.todo) >= 1
           /\ Cardinality(c.todo \ {c.item}) = Cardinality(c.todo) - 1
  BY <1>0, TodoFinite
<1>2. LeftToSettle(c) \in Nat /\ LeftToSettle(c) > 0
  BY <1>0, <1>1, SettleLeft, SettleLengthNat DEF Settles, OnItsWay
<1>3. ASSUME Resume(p)
      PROVE  EndInv' /\ \A q \in Procs : NearsItsAnswer(q)
  <2>1. Others(p) /\ call'[p] = [c EXCEPT !.at = c.back]
    BY <1>3 DEF Others, Resume, Go, Typed, TypeOK
  <2>2. call'[p].at = c.back /\ call'[p].tried = c.tried
    BY <1>0, <2>1 DEF Call
  <2> QED
    BY <1>0, <1>2, <2>1, <2>2, ResumeEnds
<1>4. ASSUME Skipped(p)
      PROVE  EndInv' /\ \A q \in Procs : NearsItsAnswer(q)
  <2>1. /\ Others(p)
        /\ call'[p] = [c EXCEPT !.at = c.back, !.todo = {}, !.junk = {}]
    BY <1>4 DEF Others, Skipped, Typed, TypeOK
  <2>2. call'[p].at = c.back /\ call'[p].tried = c.tried
    BY <1>0, <2>1 DEF Call
  <2> QED
    BY <1>0, <1>2, <2>1, <2>2, ResumeEnds
<1>5. ASSUME NEW s \in {"sweep", "clear"}, Go(p, s),
             <<c.at, s>> \in {<<"lock", "sweep">>, <<"rename", "clear">>}
      PROVE  EndInv' /\ \A q \in Procs : NearsItsAnswer(q)
  <2>1. Others(p) /\ call'[p] = [c EXCEPT !.at = s]
    BY <1>5 DEF Others, Go, Typed, TypeOK
  <2>2. /\ call'[p].at = s /\ call'[p].back = c.back /\ call'[p].tried = c.tried
        /\ call'[p].todo = c.todo /\ call'[p].item = c.item
    BY <1>0, <2>1 DEF Call
  <2>3. OnItsWay(call'[p]) /\ Settles(call'[p])
    BY <1>0, <1>5, <2>2 DEF OnItsWay, Settles
  <2>4. LeftToSettle(call'[p]) \in Nat /\ LeftToSettle(call'[p]) < LeftToSettle(c)
    BY <1>0, <1>1, <1>5, <2>2, <2>3, SettleLeft DEF OnItsWay
  <2> QED
    BY <1>0, <1>2, <2>1, <2>2, <2>3, <2>4, SettleStepEnds
<1>6. ASSUME Swept(p), c.at = "sweep"
      PROVE  EndInv' /\ \A q \in Procs : NearsItsAnswer(q)
  <2>1. Others(p) /\ call'[p] = [c EXCEPT !.junk = {}, !.at = "check"]
    BY <1>6 DEF Others, Swept, Typed, TypeOK
  <2>2. /\ call'[p].at = "check" /\ call'[p].back = c.back
        /\ call'[p].tried = c.tried /\ call'[p].todo = c.todo
    BY <1>0, <2>1 DEF Call
  <2>3. OnItsWay(call'[p]) /\ Settles(call'[p])
    BY <1>0, <2>2 DEF OnItsWay, Settles
  <2>4. LeftToSettle(call'[p]) \in Nat /\ LeftToSettle(call'[p]) < LeftToSettle(c)
    BY <1>0, <1>1, <1>6, <2>2, <2>3, SettleLeft
  <2> QED
    BY <1>0, <1>2, <2>1, <2>2, <2>3, <2>4, SettleStepEnds
<1>7. ASSUME NextItem(p), c.at = "clear"
      PROVE  EndInv' /\ \A q \in Procs : NearsItsAnswer(q)
  <2>1. /\ Others(p)
        /\ call'[p] = [c EXCEPT !.todo = @ \ {c.item}, !.item = Anyone,
                                !.at = "check"]
    BY <1>7 DEF Others, NextItem, Typed, TypeOK
  <2>2. /\ call'[p].at = "check" /\ call'[p].back = c.back
        /\ call'[p].tried = c.tried /\ call'[p].todo = c.todo \ {c.item}
    BY <1>0, <2>1 DEF Call
  <2>3. OnItsWay(call'[p]) /\ Settles(call'[p])
    BY <1>0, <2>2 DEF OnItsWay, Settles
  <2>4. c.item \in c.todo
    BY <1>0, <1>7 DEF OnItsWay
  <2>5. LeftToSettle(c) = 3 * Cardinality(c.todo) - 1
    BY <1>0, <1>7, SettleLeft
  <2>6. LeftToSettle(call'[p]) = 3 * (Cardinality(c.todo) - 1) + 1
    BY <1>1, <2>2, <2>3, <2>4, SettleLeft
  <2>7. LeftToSettle(call'[p]) \in Nat /\ LeftToSettle(call'[p]) < LeftToSettle(c)
    BY <1>1, <2>4, <2>5, <2>6
  <2> QED
    BY <1>0, <1>2, <2>1, <2>2, <2>3, <2>7, SettleStepEnds
<1>8. CASE SettleScan(p)
  <2> DEFINE stages == {a \in Addresses : stage[a] # NoStage}
  <2>1. c.at = "scan"
    BY <1>8 DEF SettleScan, At
  <2>2. CASE NothingLeft(stages, scratch)
    BY <1>3, <1>8, <2>2 DEF SettleScan
  <2>3. CASE ~NothingLeft(stages, scratch)
    <3>1. /\ Others(p)
          /\ call'[p] = [c EXCEPT !.todo = stages, !.junk = scratch, !.at = "lock"]
      BY <1>8, <2>3 DEF Others, SettleScan, Typed, TypeOK
    <3>2. /\ call'[p].at = "lock" /\ call'[p].back = c.back
          /\ call'[p].tried = c.tried /\ call'[p].todo = stages
      BY <1>0, <3>1 DEF Call
    <3>3. OnItsWay(call'[p]) /\ Settles(call'[p])
      BY <1>0, <3>2 DEF OnItsWay, Settles
    <3>4. /\ Cardinality(stages) \in Nat
          /\ Cardinality(stages) <= Cardinality(Addresses)
      BY TodoFinite
    <3>5. /\ LeftToSettle(c) = SettleLength
          /\ LeftToSettle(call'[p]) = 3 * Cardinality(stages) + 3
      BY <1>0, <2>1, <3>2, <3>3, SettleLeft
    <3>6. /\ LeftToSettle(call'[p]) \in Nat
          /\ LeftToSettle(call'[p]) < LeftToSettle(c)
      <4> HIDE DEF stages
      <4> QED
        BY <3>4, <3>5, SettleLengthNat
    <3> QED
      BY <1>0, <1>2, <3>1, <3>2, <3>3, <3>6, SettleStepEnds
  <2> QED
    BY <2>2, <2>3
<1>9. CASE SettleCheck(p)
  <2>1. c.at = "check"
    BY <1>9 DEF SettleCheck, At
  <2>2. PICK a \in c.todo :
          call' = [call EXCEPT ![p].item = a,
                               ![p].at = IF Repairs(a) THEN "rename" ELSE "clear"]
    BY <1>9 DEF SettleCheck
  <2>3. /\ Others(p)
        /\ call'[p] = [c EXCEPT !.item = a,
                                !.at = IF Repairs(a) THEN "rename" ELSE "clear"]
    BY <2>2 DEF Others, Typed, TypeOK
  <2>4. /\ call'[p].at \in {"rename", "clear"} /\ call'[p].back = c.back
        /\ call'[p].tried = c.tried /\ call'[p].todo = c.todo
        /\ call'[p].item = a
    BY <1>0, <2>3 DEF Call
  <2>5. OnItsWay(call'[p]) /\ Settles(call'[p])
    BY <1>0, <2>2, <2>4 DEF OnItsWay, Settles
  <2>6. Cardinality(c.todo) >= 1
    BY <1>0, <2>2, TodoFinite
  <2>7. LeftToSettle(call'[p]) \in Nat /\ LeftToSettle(call'[p]) < LeftToSettle(c)
    BY <1>0, <1>1, <2>1, <2>4, <2>5, <2>6, SettleLeft
  <2> QED
    BY <1>0, <1>2, <2>3, <2>4, <2>5, <2>7, SettleStepEnds
<1>10. CASE SettleLock(p)
  BY <1>4, <1>5, <1>10 DEF SettleLock, At
<1>11. CASE SettleSweep(p)
  BY <1>6, <1>11 DEF SettleSweep, At
<1>12. CASE SettleRename(p)
  BY <1>5, <1>12 DEF SettleRename, At
<1>13. CASE SettleClear(p)
  BY <1>7, <1>13 DEF SettleClear, At
<1>14. CASE SettleDone(p)
  BY <1>3, <1>14 DEF SettleDone
<1>15. CASE RepairFails(p)
  BY <1>4, <1>5, <1>6, <1>7, <1>15 DEF RepairFails, At
<1> QED
  BY SMTT(30), <1>8, <1>9, <1>10, <1>11, <1>12, <1>13, <1>14, <1>15 DEF Settling

\* A call that begins moves no other; one that is answered or killed is over.
LEMMA BeginEnds ==
  ASSUME Typed, EndInv, NEW p \in Procs, NEW op \in AllOps, NEW a \in Addresses,
         NEW given \in Passwords, NEW new \in Passwords,
         Begin(p, op, a, given, new)
  PROVE  EndInv' /\ \A q \in Procs : NearsItsAnswer(q)
<1>1. /\ call'[p].at = FirstStep(op) /\ call'[p].back = "answer"
      /\ ~Busy(p)
  BY DEF Begin, IdleCall
<1>2. OnItsWay(call'[p])
  BY <1>1 DEF OnItsWay, FirstStep, AllOps
<1>3. ASSUME NEW q \in Procs \ {p}
      PROVE  OnItsWay(call'[q]) /\ ~Stepped(q)
  <2>1. call'[q] = IF Busy(q) /\ call[q].addr = a
                     THEN [call[q] EXCEPT !.over = @ \union Outcome(op, new)]
                     ELSE call[q]
    BY DEF Begin
  <2>2. call[q] \in Call /\ OnItsWay(call[q])
    BY CallFields DEF EndInv
  <2>3. /\ call'[q].at = call[q].at /\ call'[q].back = call[q].back
        /\ call'[q].tried = call[q].tried /\ call'[q].todo = call[q].todo
        /\ call'[q].item = call[q].item
    BY <2>1, <2>2 DEF Call
  <2>4. Apart(call'[q]) = Apart(call[q])
    BY <2>1, <2>2 DEF Apart, Call
  <2> QED
    BY <2>2, <2>3, <2>4 DEF OnItsWay, Settles, Stepped
<1> QED
  BY <1>1, <1>2, <1>3 DEF EndInv, NearsItsAnswer, Stepped

LEMMA OverEnds ==
  ASSUME Typed, EndInv, NEW p \in Procs, Answer(p) \/ Kill(p)
  PROVE  EndInv' /\ \A q \in Procs : NearsItsAnswer(q)
<1>1. Others(p) /\ call'[p] = IdleCall /\ Busy(p)
  BY DEF Others, Answer, Kill, At, Busy, Typed, TypeOK
<1>2. StepsLeft(call'[p]) = 0 /\ OnItsWay(call'[p])
  BY <1>1 DEF StepsLeft, IdleCall, OnItsWay, Settles
<1>3. StepsLeft(call[p]) > 0
  BY <1>1, CallFields, SomeLeft DEF EndInv, Busy
<1> QED
  BY <1>1, <1>2, <1>3, StepEnds

\* Beside any number of peers, whatever they do to the directory and the lock
\* meanwhile, and through failing system calls, each step of a call leaves it
\* fewer steps to its answer (use_vault, settle, store_lock in keystore.rs).
THEOREM CallsComeNearer == Spec => [][\A p \in Procs : NearsItsAnswer(p)]_vars
<1>1. Init => Typed /\ EndInv
  BY InitTyped DEF Init, EndInv, OnItsWay, IdleCall, Settles
<1>2. ASSUME Typed, EndInv, Next
      PROVE  EndInv' /\ \A q \in Procs : NearsItsAnswer(q)
  <2>1. PICK p \in Procs : Calls(p) \/ Proceed(p) \/ Fails(p)
    BY <1>2 DEF Next
  <2>2. CASE Calls(p)
    BY <1>2, <2>2, BeginEnds, VaultsAssumption DEF Calls, VaultsAssumption
  <2>3. CASE Proceed(p)
    BY <1>2, <2>3, OpeningEnds, WritingEnds, BookingEnds, SettlingEnds, OverEnds
       DEF Proceed
  <2>4. CASE Fails(p)
    BY <1>2, <2>4, WritingEnds, SettlingEnds, OverEnds DEF Fails
  <2> QED
    BY <2>1, <2>2, <2>3, <2>4
<1>3. Typed /\ EndInv /\ [Next]_vars => (Typed /\ EndInv)'
  <2>1. ASSUME Typed, EndInv, UNCHANGED vars
        PROVE  EndInv'
    BY <2>1 DEF vars, EndInv
  <2> QED
    BY <1>2, <2>1, NextTyped
<1>4. Typed /\ EndInv /\ [Next]_vars
        => [\A p \in Procs : NearsItsAnswer(p)]_vars
  BY <1>2
<1> QED
  BY <1>1, <1>3, <1>4, PTL DEF Spec
=============================================================================
