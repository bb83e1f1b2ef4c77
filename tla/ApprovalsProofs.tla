--------------------------- MODULE ApprovalsProofs ---------------------------
(***************************************************************************)
(* Proofs about the approval ledger, for every set of handles, callers,    *)
(* commitments and documents and every deadline and cap.                   *)
(***************************************************************************)
EXTENDS Approvals, TLAPS, FiniteSetTheorems

-----------------------------------------------------------------------------
(* What the record operators return. *)

LEMMA NoRecordType == NoRecord \in Record
BY ApprovalsAssumption DEF NoRecord, Record, Unstamped

LEMMA OfferType ==
  ASSUME NEW m \in Names, NEW b \in Bundles
  PROVE  Offer(m, b) \in Record
BY ApprovalsAssumption DEF Offer, Record, LiveStates, Unstamped

LEMMA SweepRecordType ==
  ASSUME NEW r \in Record
  PROVE  SweepRecord(r) \in Record
<1>1. Expire(r) \in Record
  BY DEF Expire, Record, Outcomes, LiveStates
<1>2. ASSUME NEW s \in Record PROVE Stamp(s) \in Record
  BY ApprovalsAssumption DEF Stamp, Record
<1>3. QED
  BY <1>1, <1>2, NoRecordType DEF SweepRecord

LEMMA SweepType ==
  ASSUME NEW rs \in [Handles -> Record]
  PROVE  Sweep(rs) \in [Handles -> Record]
BY SweepRecordType DEF Sweep

LEMMA CancelledType ==
  ASSUME NEW r \in Record
  PROVE  Cancelled(r) \in Record
BY DEF Cancelled, Record, Outcomes

LEMMA ApprovedFacts ==
  ASSUME NEW r \in Record
  PROVE  /\ Approved(r) \in Record
         /\ Approved(r).state = "approved"
         /\ Approved(r).signed = TRUE
BY DEF Approved, Record, Outcomes

LEMMA AgedType ==
  ASSUME NEW r \in Record
  PROVE  Aged(r) \in Record
<1>1. Smaller(r.age + 1, OfferTTL + 1) \in 0 .. OfferTTL + 1
  BY ApprovalsAssumption DEF Smaller, Record
<1>2. r.settledFor # Unstamped =>
        Smaller(r.settledFor + 1, Retention) \in -1 .. Retention
  BY ApprovalsAssumption DEF Smaller, Record
<1>3. QED
  BY <1>1, <1>2 DEF Aged, Record

LEMMA DemoteType ==
  ASSUME NEW rs \in [Handles -> Record], NEW h \in Handles
  PROVE  Demote(rs, h) \in [Handles -> Record]
BY DEF Demote, Record, LiveStates

-----------------------------------------------------------------------------
(* Type correctness. *)

LEMMA InitTypeOK == Init => TypeOK
BY ZenonT(60), NoRecordType, GateAssumption, ApprovalsAssumption
   DEF Init, GateInit, TypeOK

LEMMA NextTypeOK == TypeOK /\ [Next]_vars => TypeOK'
<1> SUFFICES ASSUME TypeOK, [Next]_vars PROVE TypeOK'
  OBVIOUS
<1>s. Sweep(records) \in [Handles -> Record]
  BY SweepType DEF TypeOK
<1>0. ASSUME SweepOnly PROVE TypeOK'
  BY <1>0, <1>s DEF SweepOnly, TypeOK, roles, screens
<1>1. ASSUME NEW c \in TierBCallers, NEW b \in Bundles, NEW heard \in BOOLEAN,
             RequestApproval(c, b, heard)
      PROVE  TypeOK'
  <2>1. PICK h \in Handles \ minted :
          /\ records' = [Sweep(records) EXCEPT ![h] = Offer(c.name, b)]
          /\ minted' = minted \union {h}
          /\ receipts' = IF heard
               THEN [receipts EXCEPT ![c.name] = @ \union {h}] ELSE receipts
    BY <1>1 DEF RequestApproval
  <2>2. c.name \in Names
    BY <1>1, ApprovalsAssumption DEF RequestApproval, Named, Callers
  <2>3. records' \in [Handles -> Record]
    BY <2>1, <2>2, <1>s, OfferType
  <2>4. receipts' \in [Names -> SUBSET Handles]
    BY <2>1, <2>2 DEF TypeOK
  <2>5. QED
    BY <1>1, <2>1, <2>3, <2>4 DEF RequestApproval, TypeOK, roles, screens
<1>2. ASSUME NEW c \in TierBCallers, NEW h \in Handles, NEW receipt \in Handles,
             AckResult(c, h, receipt)
      PROVE  TypeOK'
  <2>1. [records EXCEPT ![h].signed = FALSE] \in [Handles -> Record]
    BY DEF TypeOK, Record
  <2>2. QED
    BY <1>2, <2>1, SweepType DEF AckResult, TypeOK, roles, screens
<1>3. ASSUME NEW c \in TierBCallers, NEW h \in Handles, NEW receipt \in Handles,
             CancelApproval(c, h, receipt)
      PROVE  TypeOK'
  <2>1. [records EXCEPT ![h] = Cancelled(@)] \in [Handles -> Record]
    BY CancelledType DEF TypeOK
  <2>2. QED
    BY <1>3, <2>1, SweepType DEF CancelApproval, TypeOK, roles, screens
<1>4. ASSUME NEW c \in TierACallers, NEW h \in Handles, Acknowledge(c, h)
      PROVE  TypeOK'
  <2>1. Demote(Sweep(records), h) \in [Handles -> Record]
    BY <1>s, DemoteType
  <2>2. [Demote(Sweep(records), h) EXCEPT ![h].state = "rendered"]
          \in [Handles -> Record]
    BY <2>1 DEF Record, LiveStates
  <2>3. Sweep(records)[h].bundle \in Bundles \union {NoBundle}
    BY <1>s DEF Record
  <2>4. records' \in [Handles -> Record]
    BY <1>4, <1>s, <2>1, <2>2 DEF Acknowledge
  <2>5. onScreen' \subseteq Handles
    BY <1>4 DEF Acknowledge, TypeOK, screens
  <2>6. display' \in [Names -> Bundles \union {NoBundle}]
    BY <1>4, <2>3 DEF Acknowledge, TypeOK, screens
  <2>7. QED
    BY <1>4, <2>4, <2>5, <2>6 DEF Acknowledge, TypeOK, roles
<1>5. ASSUME NEW c \in TierACallers, NEW h \in Handles, NEW opens \in BOOLEAN,
             Approve(c, h, display[c.name], opens)
      PROVE  TypeOK'
  <2>1. [Sweep(records) EXCEPT ![h] = Approved(@)] \in [Handles -> Record]
    BY <1>s, ApprovedFacts
  <2>2. records' \in [Handles -> Record]
    BY <1>5, <1>s, <2>1 DEF Approve
  <2>3. QED
    BY <1>5, <2>2 DEF Approve, TypeOK, roles, screens
<1>6. ASSUME NEW c \in TierACallers, NEW h \in Handles, Reject(c, h)
      PROVE  TypeOK'
  <2>1. [Sweep(records) EXCEPT ![h].state = "rejected"] \in [Handles -> Record]
    BY <1>s DEF Record, Outcomes
  <2>2. records' \in [Handles -> Record]
    BY <1>6, <1>s, <2>1 DEF Reject
  <2>3. QED
    BY <1>6, <2>2 DEF Reject, TypeOK, roles, screens
<1>7. CASE Tick
  BY <1>7, AgedType DEF Tick, TypeOK, roles, screens
<1>8. ASSUME NEW doc \in Documents, Reconfigure(doc) PROVE TypeOK'
  <2>1. doc \in RolesDocument
    BY <1>8, GateAssumption DEF Reconfigure, Configure
  <2>2. approvers' \subseteq Names /\ custodians' \subseteq Names
    BY <1>8, <2>1 DEF Reconfigure, Configure, IntoHolders, RolesDocument, Entries
  <2>3. QED
    BY <1>8, <2>2 DEF Reconfigure, TypeOK, ledger, screens
<1>9. CASE ContextReady
  BY <1>9 DEF ContextReady, TypeOK, roles, ledger, screens
<1>10. CASE Restart
  BY <1>10, NoRecordType, GateAssumption DEF Restart, TypeOK
<1>11. ASSUME NEW m \in Names, RequesterRestart(m) PROVE TypeOK'
  BY <1>11 DEF RequesterRestart, TypeOK, roles, ledger, screens
<1>12. CASE UNCHANGED vars
  BY <1>12 DEF vars, TypeOK
<1>13. QED
  BY <1>0, <1>1, <1>2, <1>3, <1>4, <1>5, <1>6, <1>7, <1>8, <1>9, <1>10,
     <1>11, <1>12
     DEF Next, RequestRefused, ReadRequest, Pending

\* Every state of the ledger is well typed: in particular no blank ever holds
\* a role, so an empty role set and "admits nobody" coincide.
THEOREM TypeCorrect == Spec => []TypeOK
<1>1. QED
  BY InitTypeOK, NextTypeOK, PTL DEF Spec
-----------------------------------------------------------------------------
(* What a sweep does to one record. *)

LEMMA StateSplit ==
  ASSUME NEW r \in Record
  PROVE  ~Known(r) \/ Live(r) \/ Settled(r)
BY DEF Record, Known, Live, Settled

LEMMA SweepFacts ==
  ASSUME NEW r \in Record, RecordInv(r)
  PROVE  /\ RecordInv(SweepRecord(r))
         /\ SweepRecord(r).signed = r.signed
         /\ ~Known(r) => ~Known(SweepRecord(r))
         /\ Live(SweepRecord(r)) => SweepRecord(r) = r
         /\ Live(r) => Known(SweepRecord(r))
         /\ Live(r) => SweepRecord(r).state \in {r.state, "expired_no_ack"}
         /\ r.state = "rendered" => SweepRecord(r) = r
         /\ Settled(r) => SweepRecord(r).state \in {r.state, "none"}
         /\ Settled(r) /\ ~Known(SweepRecord(r)) =>
              r.settledFor >= Retention /\ ~r.signed
<1> DEFINE e == Expire(r)
           s == Stamp(e)
<1>1. /\ e \in Record
      /\ RecordInv(e)
      /\ e.signed = r.signed
      /\ e.settledFor = r.settledFor
      /\ r.state # "offered" => e = r
      /\ r.state = "offered" => e.state \in {"offered", "expired_no_ack"}
      /\ Live(e) => e = r
  BY DEF Expire, Record, RecordInv, Outcomes, LiveStates, Live, Settled
<1> HIDE DEF e
<1>2. /\ s \in Record
      /\ RecordInv(s)
      /\ s.signed = e.signed
      /\ s.state = e.state
      /\ ~Settled(e) => s = e
      /\ s.settledFor # Unstamped => s.settledFor = 0 \/ s.settledFor = e.settledFor
  BY <1>1, ApprovalsAssumption
     DEF Stamp, Record, RecordInv, Settled, Outcomes, LiveStates
<1> HIDE DEF s
<1>3. SweepRecord(r) = IF Forgettable(s) THEN NoRecord ELSE s
  BY DEF SweepRecord, s, e
<1>4. Forgettable(s) => /\ Settled(s)
                        /\ ~s.signed
                        /\ s.settledFor = e.settledFor
                        /\ e.settledFor >= Retention
                        /\ r.settledFor # Unstamped
  BY <1>1, <1>2, ApprovalsAssumption DEF Forgettable, RecordInv, Record, Unstamped
<1>5. /\ ~Known(NoRecord) /\ ~Live(NoRecord) /\ NoRecord.signed = FALSE
      /\ RecordInv(NoRecord)
  BY DEF NoRecord, Known, Live, LiveStates, RecordInv, Unstamped
<1>6. CASE Forgettable(s)
  <2>1. Settled(r)
    BY <1>4, <1>6 DEF RecordInv
  <2>2. e = r
    BY <2>1, <1>1 DEF Settled, Outcomes
  <2>3. r.signed = FALSE
    BY <2>2, <1>2, <1>4, <1>6 DEF Record
  <2>4. SweepRecord(r) = NoRecord
    BY <1>3, <1>6
  <2>5. ~Live(r) /\ Known(r) /\ r.settledFor >= Retention
    BY <2>1, <2>2, <1>4, <1>6 DEF Settled, Outcomes, Live, LiveStates, Known
  <2>6. NoRecord.state = "none" /\ r.state # "rendered"
    BY <2>1 DEF NoRecord, Settled, Outcomes
  <2>7. QED
    BY <2>1, <2>3, <2>4, <2>5, <2>6, <1>5
<1>7. CASE ~Forgettable(s)
  BY <1>1, <1>2, <1>3, <1>7
     DEF Settled, Outcomes, Live, LiveStates, Known, RecordInv
<1>8. QED
  BY <1>6, <1>7

-----------------------------------------------------------------------------
(* What one call may do to one record: the single case split over Next from *)
(* which every property below follows.                                     *)

Inv == TypeOK /\ LedgerInv /\ OnlyTheScreenIsRendered

Collected(h) ==
  \E c \in TierBCallers : AckResult(c, h, h) \/ CancelApproval(c, h, h)

Lawful(g) ==
  LET r == records[g]
      s == records'[g]
  IN  /\ RecordInv(s)
      /\ Known(s) => g \in minted'
      /\ g \in minted => g \in minted' /\ (Known(s) => Known(r))
      /\ g \notin minted /\ g \in minted' => s.state = "offered"
      /\ Settled(r) => s.state \in {r.state, "none"}
      /\ s.state = "approved" =>
           r.state = "approved" \/ (r.state = "rendered" /\ onScreen = {g})
      /\ s.signed => r.signed \/ r.state = "rendered"
      /\ s.state = "rendered" => onScreen' = {g}
      /\ Live(s) => g \notin minted \/ (Live(r) /\ s.requester = r.requester)
      /\ Known(r) /\ ~Known(s) =>
           Restart \/ (Settled(r) /\ r.settledFor >= Retention)
      /\ r.signed /\ ~s.signed => Restart \/ Collected(g)

\* A record that is only swept.
LEMMA SweptLawful ==
  ASSUME Inv, NEW g \in Handles,
         records'[g] = SweepRecord(records[g]),
         minted \subseteq minted',
         onScreen' = onScreen,
         g \in minted' => g \in minted
  PROVE  Lawful(g)
<1>1. /\ records[g] \in Record
      /\ RecordInv(records[g])
      /\ Known(records[g]) => g \in minted
      /\ records[g].state = "rendered" => onScreen = {g}
  BY DEF Inv, TypeOK, LedgerInv, OnlyTheScreenIsRendered
<1>2. QED
  BY <1>1, SweepFacts, StateSplit
     DEF Lawful, Known, Live, Settled, Outcomes, LiveStates

LEMMA NextLawful ==
  ASSUME Inv, [Next]_vars, NEW g \in Handles
  PROVE  Lawful(g)
<1> DEFINE r == records[g]
           s == records'[g]
           w == SweepRecord(r)
<1>a. /\ r \in Record
      /\ RecordInv(r)
      /\ Known(r) => g \in minted
      /\ r.state = "rendered" => onScreen = {g}
  BY DEF Inv, TypeOK, LedgerInv, OnlyTheScreenIsRendered
<1>b. /\ Sweep(records)[g] = w
      /\ DOMAIN Sweep(records) = Handles
      /\ DOMAIN records = Handles
      /\ w \in Record
  BY <1>a, SweepRecordType DEF Sweep, Inv, TypeOK
<1>c. ASSUME SweepOnly PROVE Lawful(g)
  BY <1>c, <1>b, SweptLawful DEF SweepOnly, screens
<1>1. ASSUME NEW c \in TierBCallers, NEW b \in Bundles, NEW heard \in BOOLEAN,
             RequestApproval(c, b, heard)
      PROVE  Lawful(g)
  <2>1. PICK h \in Handles \ minted :
          /\ records' = [Sweep(records) EXCEPT ![h] = Offer(c.name, b)]
          /\ minted' = minted \union {h}
    BY <1>1 DEF RequestApproval
  <2>2. onScreen' = onScreen
    BY <1>1 DEF RequestApproval, screens
  <2>3. CASE g = h
    <3>1. s = Offer(c.name, b)
      BY <2>1, <2>3, <1>b
    <3>2. /\ s.state = "offered" /\ s.signed = FALSE /\ s.settledFor = Unstamped
      BY <3>1 DEF Offer
    <3>3. g \notin minted /\ ~Known(r)
      BY <2>1, <2>3, <1>a
    <3>4. QED
      BY <2>1, <2>3, <3>2, <3>3, <1>a
         DEF Lawful, RecordInv, Known, Settled, Outcomes
  <2>4. CASE g # h
    BY <2>1, <2>2, <2>4, <1>b, SweptLawful
  <2>5. QED
    BY <2>3, <2>4
<1>2. ASSUME NEW c \in TierBCallers, NEW h \in Handles, NEW receipt \in Handles,
             AckResult(c, h, receipt)
      PROVE  Lawful(g)
  <2>1. /\ receipt = h
        /\ Known(records[h])
        /\ records' = Sweep([records EXCEPT ![h].signed = FALSE])
        /\ minted' = minted
        /\ onScreen' = onScreen
    BY <1>2 DEF AckResult, Authorises, screens
  <2>2. CASE g = h
    <3> DEFINE u == [r EXCEPT !.signed = FALSE]
    <3>1. s = SweepRecord(u)
      BY <2>1, <2>2, <1>b DEF Sweep
    <3>2. u \in Record /\ RecordInv(u)
      BY <1>a DEF Record, RecordInv, Settled
    <3>3. u.signed = FALSE /\ u.state = r.state /\ u.requester = r.requester
          /\ u.settledFor = r.settledFor
      BY <1>a DEF Record
    <3>4. Collected(g)
      BY <1>2, <2>1, <2>2 DEF Collected
    <3> HIDE DEF u
    <3>5. QED
      BY <2>1, <3>1, <3>2, <3>3, <3>4, <1>a, SweepFacts, StateSplit
         DEF Lawful, Known, Live, Settled, Outcomes, LiveStates
  <2>3. CASE g # h
    <3>1. s = w
      BY <2>1, <2>3 DEF Sweep
    <3>2. QED
      BY <2>1, <3>1, SweptLawful
  <2>4. QED
    BY <2>2, <2>3
<1>3. ASSUME NEW c \in TierBCallers, NEW h \in Handles, NEW receipt \in Handles,
             CancelApproval(c, h, receipt)
      PROVE  Lawful(g)
  <2>1. /\ receipt = h
        /\ Known(records[h])
        /\ records' = Sweep([records EXCEPT ![h] = Cancelled(@)])
        /\ minted' = minted
        /\ onScreen' = onScreen
    BY <1>3 DEF CancelApproval, Authorises, screens
  <2>2. CASE g = h
    <3> DEFINE u == Cancelled(r)
    <3>1. s = SweepRecord(u)
      BY <2>1, <2>2, <1>b DEF Sweep
    <3>2. /\ u \in Record
          /\ u.signed = FALSE
          /\ u.requester = r.requester
          /\ u.settledFor = r.settledFor
          /\ u.state = IF Settled(r) THEN r.state ELSE "cancelled"
      BY <1>a, CancelledType DEF Cancelled, Record
    <3>3. RecordInv(u) /\ Settled(u)
      BY <1>a, <3>2 DEF RecordInv, Settled, Outcomes
    <3>4. Collected(g)
      BY <1>3, <2>1, <2>2 DEF Collected
    <3>5. ~Settled(r) => r.settledFor = Unstamped
      BY <1>a DEF RecordInv
    <3>6. ~Known(s) => Settled(r) /\ r.settledFor >= Retention
      BY <3>1, <3>2, <3>3, <3>5, SweepFacts, ApprovalsAssumption DEF Unstamped
    <3> HIDE DEF u
    <3>7. QED
      BY <2>1, <2>2, <3>1, <3>2, <3>3, <3>4, <3>6, <1>a, SweepFacts, StateSplit
         DEF Lawful, Known, Live, Settled, Outcomes, LiveStates
  <2>3. CASE g # h
    <3>1. s = w
      BY <2>1, <2>3 DEF Sweep
    <3>2. QED
      BY <2>1, <3>1, SweptLawful
  <2>4. QED
    BY <2>2, <2>3
<1>4. ASSUME NEW c \in TierACallers, NEW h \in Handles, Acknowledge(c, h)
      PROVE  Lawful(g)
  <2>1. minted' = minted
    BY <1>4 DEF Acknowledge
  <2>2. CASE s = w /\ onScreen' = onScreen
    BY <2>1, <2>2, SweptLawful
  <2>3. CASE /\ s.state = "offered" /\ w.state = "rendered"
             /\ s = [w EXCEPT !.state = "offered"]
    <3>1. w = r
      BY <2>3, <1>a, SweepFacts DEF Live, LiveStates
    <3>2. /\ s.requester = r.requester /\ s.signed = r.signed
          /\ s.settledFor = r.settledFor /\ r.state = "rendered"
      BY <2>3, <3>1, <1>a DEF Record
    <3>3. QED
      BY <2>1, <2>3, <3>2, <1>a
         DEF Lawful, RecordInv, Known, Live, Settled, Outcomes, LiveStates
  <2>4. CASE s = w /\ w.state # "rendered"
    <3>1. QED
      BY <2>1, <2>4, <1>a, SweepFacts, StateSplit
         DEF Lawful, Known, Live, Settled, Outcomes, LiveStates
  <2>5. CASE /\ Live(w) /\ s = [w EXCEPT !.state = "rendered"]
             /\ onScreen' = {g}
    <3>1. w = r
      BY <2>5, <1>a, SweepFacts
    <3>2. /\ s.requester = r.requester /\ s.signed = r.signed
          /\ s.settledFor = r.settledFor /\ s.state = "rendered"
      BY <2>5, <3>1, <1>a DEF Record
    <3>3. QED
      BY <2>1, <2>5, <3>1, <3>2, <1>a
         DEF Lawful, RecordInv, Known, Live, Settled, Outcomes, LiveStates
  <2>6. CASE ~Known(Sweep(records)[h])
    BY <1>4, <2>6, <2>2, <1>b DEF Acknowledge, screens, Known, Settled, Live, Outcomes, LiveStates
  <2>7. Demote(Sweep(records), h)[g] =
          IF w.state = "rendered" /\ g # h
            THEN [w EXCEPT !.state = "offered"] ELSE w
    BY <1>b DEF Demote
  <2>8. CASE Settled(Sweep(records)[h])
    <3>1. records' = Demote(Sweep(records), h) /\ onScreen' = onScreen
      BY <1>4, <2>8 DEF Acknowledge, screens, Known, Settled, Live, Outcomes, LiveStates
    <3>2. CASE w.state = "rendered" /\ g # h
      BY <3>1, <3>2, <2>7, <2>3, <1>b DEF Record
    <3>3. CASE ~(w.state = "rendered" /\ g # h)
      BY <3>1, <3>3, <2>7, <2>2
    <3>4. QED
      BY <3>2, <3>3
  <2>9. CASE Live(Sweep(records)[h])
    <3>1. /\ records' = [Demote(Sweep(records), h) EXCEPT ![h].state = "rendered"]
          /\ onScreen' = {h}
      BY <1>4, <2>9 DEF Acknowledge, screens, Known, Settled, Live, Outcomes, LiveStates
    <3>2. DOMAIN Demote(Sweep(records), h) = Handles
      BY DEF Demote
    <3>3. CASE g = h
      <4>1. s = [w EXCEPT !.state = "rendered"]
        BY <3>1, <3>2, <3>3, <2>7
      <4>2. QED
        BY <4>1, <3>1, <3>3, <2>9, <2>5, <1>b
    <3>4. CASE g # h /\ w.state = "rendered"
      BY <3>1, <3>2, <3>4, <2>7, <2>3, <1>b DEF Record
    <3>5. CASE g # h /\ w.state # "rendered"
      BY <3>1, <3>2, <3>5, <2>7, <2>4
    <3>6. QED
      BY <3>3, <3>4, <3>5
  <2>10. QED
    BY <1>4, <2>6, <2>8, <2>9 DEF Acknowledge
<1>5. ASSUME NEW c \in TierACallers, NEW h \in Handles, NEW opens \in BOOLEAN,
             Approve(c, h, display[c.name], opens)
      PROVE  Lawful(g)
  <2>1. minted' = minted /\ onScreen' = onScreen
    BY <1>5 DEF Approve, screens
  <2>2. CASE s = w
    BY <2>1, <2>2, SweptLawful
  <2>3. CASE /\ g = h /\ w.state = "rendered"
             /\ records' = [Sweep(records) EXCEPT ![h] = Approved(@)]
    <3>1. w = r
      BY <2>3, <1>a, SweepFacts DEF Live, LiveStates
    <3>2. s = Approved(r)
      BY <2>3, <3>1, <1>b
    <3>3. s.state = "approved" /\ r.state = "rendered"
      BY <2>3, <3>1, <3>2, <1>a, ApprovedFacts
    <3>4. onScreen = {g} /\ g \in minted
      BY <2>3, <3>1, <1>a DEF Known
    <3>5. r.signed = FALSE
      BY <3>3, <1>a DEF RecordInv, Record
    <3>6. RecordInv(s)
      BY <3>3 DEF RecordInv, Settled, Outcomes
    <3> HIDE DEF r, s
    <3>7. QED
      BY <2>1, <3>3, <3>4, <3>5, <3>6
         DEF Lawful, r, s, Known, Live, Settled, Outcomes, LiveStates
  <2>4. CASE MayApprove(Sweep(records)[h], display[c.name]) /\ opens
    <3>1. records' = [Sweep(records) EXCEPT ![h] = Approved(@)]
      BY <1>5, <2>4 DEF Approve
    <3>2. CASE g = h
      BY <3>1, <3>2, <2>3, <2>4, <1>b DEF MayApprove
    <3>3. CASE g # h
      BY <3>1, <3>3, <2>2, <1>b
    <3>4. QED
      BY <3>2, <3>3
  <2>5. CASE ~(MayApprove(Sweep(records)[h], display[c.name]) /\ opens)
    BY <1>5, <2>5, <2>2, <1>b DEF Approve
  <2>6. QED
    BY <2>4, <2>5
<1>6. ASSUME NEW c \in TierACallers, NEW h \in Handles, Reject(c, h)
      PROVE  Lawful(g)
  <2>1. minted' = minted /\ onScreen' = onScreen
    BY <1>6 DEF Reject, screens
  <2>2. CASE s = w
    BY <2>1, <2>2, SweptLawful
  <2>3. CASE g = h /\ Live(w) /\ s = [w EXCEPT !.state = "rejected"]
    <3>1. w = r
      BY <2>3, <1>a, SweepFacts
    <3>2. s.state = "rejected" /\ s.signed = r.signed /\ s.settledFor = r.settledFor
      BY <2>3, <3>1, <1>a DEF Record
    <3>3. r.signed = FALSE
      BY <2>3, <3>1, <1>a DEF RecordInv, Record, Live, LiveStates
    <3>4. QED
      BY <2>1, <2>3, <3>1, <3>2, <3>3, <1>a
         DEF Lawful, RecordInv, Known, Live, Settled, Outcomes, LiveStates
  <2>4. CASE Live(Sweep(records)[h])
    <3>1. records' = [Sweep(records) EXCEPT ![h].state = "rejected"]
      BY <1>6, <2>4 DEF Reject
    <3>2. CASE g = h
      BY <3>1, <3>2, <2>3, <2>4, <1>b
    <3>3. CASE g # h
      BY <3>1, <3>3, <2>2, <1>b
    <3>4. QED
      BY <3>2, <3>3
  <2>5. CASE ~Live(Sweep(records)[h])
    BY <1>6, <2>5, <2>2, <1>b DEF Reject
  <2>6. QED
    BY <2>4, <2>5
<1>7. CASE Tick
  <2>1. minted' = minted /\ onScreen' = onScreen /\ s = Aged(r)
    BY <1>7 DEF Tick, screens
  <2>2. /\ s.state = r.state /\ s.signed = r.signed /\ s.requester = r.requester
        /\ s.settledFor # Unstamped => r.settledFor # Unstamped
    BY <2>1, <1>a DEF Aged, Record, Unstamped
  <2>3. QED
    BY <2>1, <2>2, <1>a
       DEF Lawful, RecordInv, Known, Live, Settled, Outcomes, LiveStates
<1>8. CASE UNCHANGED <<records, minted, onScreen>>
  BY <1>8, <1>a
     DEF Lawful, RecordInv, Known, Live, Settled, Outcomes, LiveStates
<1>9. CASE Restart
  <2>1. /\ s = NoRecord /\ minted' = minted
    BY <1>9 DEF Restart
  <2>2. /\ s.state = "none" /\ s.signed = FALSE /\ s.settledFor = Unstamped
    BY <2>1 DEF NoRecord
  <2>3. QED
    BY <2>1, <2>2, <1>9, <1>a
       DEF Lawful, RecordInv, Known, Live, Settled, Outcomes, LiveStates
<1>10. QED
  BY <1>c, <1>1, <1>2, <1>3, <1>4, <1>5, <1>6, <1>7, <1>8, <1>9
     DEF Next, RequestRefused, ReadRequest, Pending, Reconfigure, ContextReady,
         RequesterRestart, ledger, screens, vars

-----------------------------------------------------------------------------
(* The inductive invariant. *)

LEMMA MintedStep ==
  ASSUME [Next]_vars
  PROVE  \/ minted' = minted
         \/ \E c \in TierBCallers, b \in Bundles, heard \in BOOLEAN :
              RequestApproval(c, b, heard)
BY DEF Next, vars, ledger, SweepOnly, RequestRefused, ReadRequest, AckResult,
       CancelApproval, Pending, Acknowledge, Approve, Reject, Tick, Reconfigure,
       ContextReady, Restart, RequesterRestart

LEMMA InitInv == Init => Inv
<1> SUFFICES ASSUME Init PROVE Inv
  OBVIOUS
<1>1. ASSUME NEW h \in Handles
      PROVE  /\ records[h].state = "none" /\ records[h].signed = FALSE
             /\ records[h].settledFor = Unstamped
  BY DEF Init, NoRecord
<1>2. IsFiniteSet(minted)
  BY FS_EmptySet DEF Init
<1>3. QED
  BY InitTypeOK, <1>1, <1>2
     DEF Inv, LedgerInv, RecordInv, Known, OnlyTheScreenIsRendered

LEMMA NextInv == Inv /\ [Next]_vars => Inv'
<1> SUFFICES ASSUME Inv, [Next]_vars PROVE Inv'
  OBVIOUS
<1>1. TypeOK'
  BY NextTypeOK DEF Inv
<1>2. /\ \A h \in Handles : RecordInv(records'[h])
      /\ \A h \in Handles : Known(records'[h]) => h \in minted'
      /\ \A h \in Handles : records'[h].state = "rendered" => onScreen' = {h}
  BY NextLawful DEF Lawful
<1>3. IsFiniteSet(minted')
  <2>1. IsFiniteSet(minted)
    BY DEF Inv, LedgerInv
  <2>2. CASE minted' = minted
    BY <2>1, <2>2
  <2>3. ASSUME NEW c \in TierBCallers, NEW b \in Bundles, NEW heard \in BOOLEAN,
               RequestApproval(c, b, heard)
        PROVE  IsFiniteSet(minted')
    BY <2>1, <2>3, FS_AddElement DEF RequestApproval
  <2>4. QED
    BY <2>2, <2>3, MintedStep
<1>4. QED
  BY <1>1, <1>2, <1>3 DEF Inv, LedgerInv, OnlyTheScreenIsRendered

LEMMA AlwaysInv == Spec => []Inv
<1>1. QED
  BY InitInv, NextInv, PTL DEF Spec

\* However approvers claim, lose and reclaim requests, the only rendered, and
\* so the only approvable, request is the one last put on screen.
THEOREM ScreenSafe == Spec => []OnlyTheScreenIsRendered
<1>1. Inv => OnlyTheScreenIsRendered
  BY DEF Inv
<1>2. QED
  BY <1>1, AlwaysInv, PTL

\* The sweep's own bookkeeping: a signature belongs to an approved record, a
\* stamp to a settled one, and no handle outside the minted ones is known.
THEOREM LedgerSound == Spec => []LedgerInv
<1>1. Inv => LedgerInv
  BY DEF Inv
<1>2. QED
  BY <1>1, AlwaysInv, PTL

-----------------------------------------------------------------------------
(* What a step may never do. *)

\* A requester never finds its request gone before the outcome was readable
\* for the whole retention window.
THEOREM AnswersKept == Spec => AnswerIsKept
<1>1. Inv /\ [Next]_vars => [KeepsAnswers]_vars
  BY NextLawful DEF Lawful, KeepsAnswers
<1>2. QED
  BY <1>1, AlwaysInv, PTL DEF Spec, AnswerIsKept

\* Signatures a human paid a password for are erased only by a holder of that
\* request's own receipt.
THEOREM SignaturesKept == Spec => SignaturesSurvive
<1>1. Inv /\ [Next]_vars => [KeepsSignatures]_vars
  BY NextLawful DEF Lawful, KeepsSignatures, Collected
<1>2. QED
  BY <1>1, AlwaysInv, PTL DEF Spec, SignaturesSurvive

\* No step but an approver's approve puts signatures into a record.
LEMMA ApproverSigns ==
  ASSUME Inv, Next, NEW h \in Handles, Signs(h)
  PROVE  \E c \in TierACallers :
           Approve(c, h, display[c.name], TRUE) /\ IsApprover(c)
<1> DEFINE r == records[h]
           s == records'[h]
           w == SweepRecord(r)
<1>a. r \in Record /\ RecordInv(r) /\ r.signed = FALSE /\ s.signed
  BY DEF Inv, TypeOK, LedgerInv, Signs, Record
<1>b. /\ Sweep(records)[h] = w
      /\ w \in Record
      /\ w.signed = FALSE
      /\ DOMAIN Sweep(records) = Handles
      /\ DOMAIN records = Handles
  BY <1>a, SweepRecordType, SweepFacts DEF Sweep, Inv, TypeOK
<1>c. s # w
  BY <1>a, <1>b
<1>d. ~SweepOnly
  BY <1>b, <1>c DEF SweepOnly
<1>1. ASSUME NEW c \in TierBCallers, NEW b \in Bundles, NEW heard \in BOOLEAN,
             RequestApproval(c, b, heard)
      PROVE  FALSE
  <2>1. PICK g \in Handles : records' = [Sweep(records) EXCEPT ![g] = Offer(c.name, b)]
    BY <1>1 DEF RequestApproval
  <2>2. s \in {w, Offer(c.name, b)}
    BY <2>1, <1>b
  <2>3. QED
    BY <2>2, <1>a, <1>c DEF Offer
<1>2. ASSUME NEW u \in Record, RecordInv(u), u.signed = FALSE, s = SweepRecord(u)
      PROVE  FALSE
  BY <1>2, <1>a, SweepFacts
<1>3. ASSUME NEW c \in TierBCallers, NEW g \in Handles, NEW receipt \in Handles,
             AckResult(c, g, receipt)
      PROVE  FALSE
  <2> DEFINE u == [records EXCEPT ![g].signed = FALSE][h]
  <2>1. s = SweepRecord(u)
    BY <1>3 DEF AckResult, Sweep
  <2>2. u \in Record /\ RecordInv(u) /\ u.signed = FALSE
    BY <1>a, <1>b DEF Record, RecordInv, Settled
  <2>3. QED
    BY <1>2, <2>1, <2>2
<1>4. ASSUME NEW c \in TierBCallers, NEW g \in Handles, NEW receipt \in Handles,
             CancelApproval(c, g, receipt)
      PROVE  FALSE
  <2> DEFINE u == [records EXCEPT ![g] = Cancelled(@)][h]
  <2>1. s = SweepRecord(u)
    BY <1>4 DEF CancelApproval, Sweep
  <2>2. u = r \/ u = Cancelled(r)
    BY <1>b
  <2>3. /\ Cancelled(r) \in Record
        /\ Cancelled(r).signed = FALSE
        /\ RecordInv(Cancelled(r))
    BY <1>a, CancelledType DEF Cancelled, Record, RecordInv, Settled, Outcomes
  <2>4. QED
    BY <1>2, <1>a, <2>1, <2>2, <2>3
<1>5. ASSUME NEW c \in TierACallers, NEW g \in Handles, Acknowledge(c, g)
      PROVE  FALSE
  <2>1. Demote(Sweep(records), g)[h] \in {w, [w EXCEPT !.state = "offered"]}
    BY <1>b DEF Demote
  <2>2. \/ records' = Sweep(records)
        \/ records' = Demote(Sweep(records), g)
        \/ records' = [Demote(Sweep(records), g) EXCEPT ![g].state = "rendered"]
    BY <1>5 DEF Acknowledge
  <2>3. Demote(Sweep(records), g)[h].signed = FALSE
    BY <2>1, <1>b DEF Record
  <2>4. DOMAIN Demote(Sweep(records), g) = Handles
    BY DEF Demote
  <2>5. \/ s = w
        \/ s = Demote(Sweep(records), g)[h]
        \/ s = [Demote(Sweep(records), g)[h] EXCEPT !.state = "rendered"]
    BY <2>2, <2>4, <1>b
  <2>6. QED
    BY <2>1, <2>3, <2>5, <1>a, <1>b DEF Record
<1>6. ASSUME NEW c \in TierACallers, NEW g \in Handles, Reject(c, g)
      PROVE  FALSE
  <2>1. s \in {w, [w EXCEPT !.state = "rejected"]}
    BY <1>6, <1>b DEF Reject
  <2>2. QED
    BY <2>1, <1>a, <1>b DEF Record
<1>7. CASE Tick \/ Restart \/ UNCHANGED records
  <2>1. CASE Tick
    BY <2>1, <1>a DEF Tick, Aged, Record
  <2>2. CASE Restart
    BY <2>2, <1>a DEF Restart, NoRecord
  <2>3. CASE UNCHANGED records
    BY <2>3, <1>a
  <2>4. QED
    BY <1>7, <2>1, <2>2, <2>3
<1>8. ASSUME NEW c \in TierACallers, NEW g \in Handles, NEW opens \in BOOLEAN,
             IsApprover(c), Approve(c, g, display[c.name], opens)
      PROVE  Approve(c, h, display[c.name], TRUE)
  <2>1. opens /\ g = h
    BY <1>8, <1>b, <1>c DEF Approve
  <2>2. QED
    BY <1>8, <2>1
<1>9. QED
  BY <1>d, <1>1, <1>3, <1>4, <1>5, <1>6, <1>7, <1>8
     DEF Next, RequestRefused, ReadRequest, Pending, Reconfigure, ContextReady,
         RequesterRestart, ledger

\* Nothing is signed but the request on screen, and only by a module that is an
\* approver at that moment and shows the commitment it signs.
THEOREM SignsOnScreen == Spec => SignsWhatIsOnScreen
<1>1. ASSUME Inv, Next, NEW h \in Handles, Signs(h)
      PROVE  onScreen = {h} /\ records[h].state = "rendered"
  <2>1. Lawful(h) /\ RecordInv(records[h])
    BY <1>1, NextLawful DEF Inv, LedgerInv
  <2>2. QED
    BY <1>1, <2>1 DEF Signs, Lawful, RecordInv
<1>2. ASSUME Inv, NEW h \in Handles, NEW c \in TierACallers, Signs(h),
             Approve(c, h, display[c.name], TRUE),
             records[h].state = "rendered"
      PROVE  display[c.name] = records[h].bundle
  <2>1. /\ records[h] \in Record /\ RecordInv(records[h])
        /\ Sweep(records)[h] = SweepRecord(records[h])
    BY <1>2 DEF Inv, TypeOK, LedgerInv, Sweep
  <2>2. Sweep(records)[h] = records[h]
    BY <1>2, <2>1, SweepFacts
  <2>3. records' # Sweep(records)
    BY <1>2, <2>2 DEF Signs
  <2>4. MayApprove(Sweep(records)[h], display[c.name])
    BY <1>2, <2>3 DEF Approve
  <2>5. QED
    BY <2>2, <2>4 DEF MayApprove
<1>3. ASSUME Inv, Next, NEW h \in Handles, Signs(h)
      PROVE  \E c \in TierACallers :
               /\ Approve(c, h, display[c.name], TRUE)
               /\ c.kind = "module" /\ c.name \in approvers
  BY <1>3, ApproverSigns DEF IsApprover, HoldsAnyRole, HoldsRole, IsModule
<1>4. Inv /\ [Next]_vars => [SignsTheScreen]_vars
  BY <1>1, <1>2, <1>3 DEF SignsTheScreen
<1>5. QED
  BY <1>4, AlwaysInv, PTL DEF Spec, SignsWhatIsOnScreen

-----------------------------------------------------------------------------
(* The caps. *)

LEMMA SmallerSet ==
  ASSUME NEW S, NEW T, NEW n \in Nat, IsFiniteSet(S), T \subseteq S,
         Cardinality(S) <= n
  PROVE  Cardinality(T) <= n
BY FS_Subset, FS_CardinalityType

LEMMA OneMore ==
  ASSUME NEW S, NEW x, NEW T, NEW n \in Nat, IsFiniteSet(S),
         T \subseteq S \union {x}, Cardinality(S) < n
  PROVE  Cardinality(T) <= n
<1>1. /\ IsFiniteSet(S \union {x})
      /\ Cardinality(S \union {x}) \in Nat /\ Cardinality(S) \in Nat
      /\ Cardinality(S \union {x}) <= Cardinality(S) + 1
  BY FS_AddElement, FS_CardinalityType
<1>2. QED
  BY <1>1, SmallerSet

\* Sweeping admits nothing: every record live after it was live before it.
LEMMA SweepShrinks ==
  ASSUME Inv
  PROVE  /\ LiveHandles(Sweep(records)) \subseteq LiveHandles(records)
         /\ \A m \in Names :
              LiveHandlesOf(Sweep(records), m) \subseteq LiveHandlesOf(records, m)
         /\ IsFiniteSet(LiveHandles(records))
<1>1. ASSUME NEW h \in Handles, Live(Sweep(records)[h])
      PROVE  Sweep(records)[h] = records[h]
  BY <1>1, SweepFacts DEF Inv, TypeOK, LedgerInv, Sweep
<1>2. LiveHandles(records) \subseteq minted
  BY DEF Inv, LedgerInv, LiveHandles, Live, LiveStates, Known
<1>3. IsFiniteSet(LiveHandles(records))
  BY <1>2, FS_Subset DEF Inv, LedgerInv
<1>4. QED
  BY <1>1, <1>3 DEF LiveHandles, LiveHandlesOf

\* No requester, and not all of them together, ever has more requests waiting
\* than its cap, whatever was claimed, demoted or expired after admission.
THEOREM CapsBound == Spec => []CapsHold
<1>1. Init => CapsHold
  <2> SUFFICES ASSUME Init PROVE CapsHold
    OBVIOUS
  <2>1. LiveHandles(records) = {}
    BY DEF Init, NoRecord, LiveHandles, Live, LiveStates
  <2>2. QED
    BY <2>1, FS_EmptySet, ApprovalsAssumption DEF CapsHold, LiveHandlesOf
<1>2. Inv /\ CapsHold /\ [Next]_vars => CapsHold'
  <2> SUFFICES ASSUME Inv, CapsHold, [Next]_vars PROVE CapsHold'
    OBVIOUS
  <2>1. /\ TotalCap \in Nat /\ RequesterCap \in Nat
        /\ IsFiniteSet(LiveHandles(records))
        /\ \A m \in Names : LiveHandlesOf(records, m) \subseteq LiveHandles(records)
    BY SweepShrinks, ApprovalsAssumption DEF LiveHandlesOf
  <2>2. \A m \in Names : IsFiniteSet(LiveHandlesOf(records, m))
    BY <2>1, FS_Subset
  <2>3. CASE minted' = minted
    <3>1. ASSUME NEW h \in Handles, Live(records'[h])
          PROVE  Live(records[h]) /\ records'[h].requester = records[h].requester
      BY <2>3, <3>1, NextLawful DEF Lawful, Known, Live, LiveStates
    <3>2. /\ LiveHandles(records') \subseteq LiveHandles(records)
          /\ \A m \in Names :
               LiveHandlesOf(records', m) \subseteq LiveHandlesOf(records, m)
      BY <3>1 DEF LiveHandles, LiveHandlesOf
    <3>3. QED
      BY <2>1, <2>2, <3>2, SmallerSet DEF CapsHold
  <2>4. ASSUME NEW c \in TierBCallers, NEW b \in Bundles, NEW heard \in BOOLEAN,
               RequestApproval(c, b, heard)
        PROVE  CapsHold'
    <3> DEFINE w == Sweep(records)
    <3>1. PICK h \in Handles \ minted :
            records' = [w EXCEPT ![h] = Offer(c.name, b)]
      BY <2>4 DEF RequestApproval
    <3>2. BelowCaps(w, c.name)
      BY <2>4 DEF RequestApproval
    <3>3. /\ LiveHandles(w) \subseteq LiveHandles(records)
          /\ \A m \in Names : LiveHandlesOf(w, m) \subseteq LiveHandlesOf(records, m)
      BY SweepShrinks
    <3>4. IsFiniteSet(LiveHandles(w)) /\ \A m \in Names : IsFiniteSet(LiveHandlesOf(w, m))
      BY <3>3, <2>1, <2>2, FS_Subset
    <3>5. DOMAIN w = Handles
      BY DEF Sweep
    <3> HIDE DEF w
    <3>6. \A g \in Handles : g # h => records'[g] = w[g]
      BY <3>1, <3>5
    <3>7. records'[h].requester = c.name
      BY <3>1, <3>5 DEF Offer
    <3>8. Cardinality(LiveHandles(records')) <= TotalCap
      <4>1. LiveHandles(records') \subseteq LiveHandles(w) \union {h}
        BY <3>6 DEF LiveHandles
      <4>2. QED
        BY <4>1, <3>2, <3>4, <2>1, OneMore DEF BelowCaps
    <3>9. ASSUME NEW m \in Names
          PROVE  Cardinality(LiveHandlesOf(records', m)) <= RequesterCap
      <4>1. CASE m = c.name
        <5>1. LiveHandlesOf(records', m) \subseteq LiveHandlesOf(w, m) \union {h}
          BY <3>6 DEF LiveHandlesOf, LiveHandles
        <5>2. QED
          BY <4>1, <5>1, <3>2, <3>4, <2>1, OneMore DEF BelowCaps
      <4>2. CASE m # c.name
        <5>1. LiveHandlesOf(records', m) \subseteq LiveHandlesOf(w, m)
          BY <4>2, <3>6, <3>7 DEF LiveHandlesOf, LiveHandles
        <5>2. LiveHandlesOf(records', m) \subseteq LiveHandlesOf(records, m)
          BY <5>1, <3>3
        <5>3. QED
          BY <5>2, <2>1, <2>2, SmallerSet DEF CapsHold
      <4>3. QED
        BY <4>1, <4>2
    <3>10. QED
      BY <3>8, <3>9 DEF CapsHold
  <2>5. QED
    BY <2>3, <2>4, MintedStep
<1>3. QED
  BY <1>1, <1>2, AlwaysInv, PTL DEF Spec

-----------------------------------------------------------------------------
(* The ledger implements ApprovalPromise. *)

\* The ledger does what it promises about every request: one decision, taken
\* while the request is open and never changed, signatures only with a yes and
\* once, at most one yes per call, and no open request forgotten.
THEOREM Implements == Spec => KeepsPromise
<1> DEFINE phase   == [h \in Handles |-> Phase(h)]
           holding == {h \in Handles : records[h].signed}
<1>1. Init => Promise!Init
  <2> SUFFICES ASSUME Init PROVE Promise!Init
    OBVIOUS
  <2>1. \A h \in Handles : /\ ~Live(records[h]) /\ ~Settled(records[h])
                           /\ ~Known(records[h])
                           /\ records[h].state # "approved"
                           /\ records[h].signed = FALSE
                           /\ h \notin minted
    BY DEF Init, NoRecord, Live, LiveStates, Settled, Outcomes, Known
  <2>2. \A h \in Handles : Phase(h) = "unmade"
    BY <2>1 DEF Phase
  <2>3. QED
    BY <2>1, <2>2 DEF Promise!Init
<1>2. Inv /\ [Next]_vars => [Promise!Next]_(Promise!vars)
  <2> SUFFICES ASSUME Inv, [Next]_vars PROVE Promise!Next
    OBVIOUS
  <2>1. ASSUME NEW h \in Handles
        PROVE  /\ records[h] \in Record /\ RecordInv(records[h])
               /\ records'[h] \in Record /\ RecordInv(records'[h])
               /\ Known(records[h]) => h \in minted
               /\ Known(records'[h]) => h \in minted'
               /\ Lawful(h)
    BY NextInv, NextLawful DEF Inv, TypeOK, LedgerInv
  <2>2. ASSUME NEW h \in Handles
        PROVE  /\ Live(records[h]) <=> Phase(h) = "open"
               /\ records[h].state = "approved" <=> Phase(h) = "approved"
               /\ Settled(records[h]) <=> Phase(h) \in {"approved", "declined"}
               /\ h \notin minted <=> Phase(h) = "unmade"
               /\ Phase(h) \in Promise!Phases
    BY <2>1, StateSplit
       DEF Phase, Promise!Phases, Known, Live, Settled, Outcomes, LiveStates
  <2>3. ASSUME NEW h \in Handles
        PROVE  /\ Live(records'[h]) <=> Phase(h)' = "open"
               /\ records'[h].state = "approved" <=> Phase(h)' = "approved"
               /\ Settled(records'[h]) <=> Phase(h)' \in {"approved", "declined"}
               /\ h \notin minted' <=> Phase(h)' = "unmade"
               /\ Phase(h)' \in Promise!Phases
    BY <2>1, StateSplit
       DEF Phase, Promise!Phases, Known, Live, Settled, Outcomes, LiveStates
  <2>4. CASE Restart
    <3>1. minted' = minted /\ \A h \in Handles : records'[h] = NoRecord
      BY <2>4 DEF Restart
    <3>2. NoRecord.state = "none" /\ NoRecord.signed = FALSE
      BY DEF NoRecord
    <3>3. \A h \in Handles :
            Phase(h)' = IF Phase(h) = "unmade" THEN "unmade" ELSE "forgotten"
      BY <3>1, <3>2, <2>2, <2>3
         DEF Promise!Phases, Live, Settled, Outcomes, LiveStates
    <3>4. Promise!Crash
      BY <3>1, <3>2, <3>3 DEF Promise!Crash
    <3>5. QED
      BY <3>4 DEF Promise!Next
  <2>5. CASE ~Restart
    <3>1. ASSUME NEW h \in Handles
          PROVE  Phase(h)' \in Promise!May(Phase(h))
      <4>1. CASE Phase(h) = "unmade"
        BY <4>1, <2>1, <2>2, <2>3
           DEF Lawful, Promise!May, Promise!Phases, Known, Live, Settled,
               Outcomes, LiveStates
      <4>2. CASE Phase(h) = "open"
        <5>1. Live(records[h]) /\ ~Settled(records[h]) /\ Known(records[h])
          BY <4>2, <2>2 DEF Known, Live, Settled, Outcomes, LiveStates
        <5>2. Known(records'[h])
          BY <5>1, <2>1, <2>5 DEF Lawful
        <5>3. Live(records'[h]) \/ Settled(records'[h])
          BY <5>2, <2>1, StateSplit
        <5>4. Phase(h)' \in {"open", "approved", "declined"}
          BY <5>3, <2>3
        <5>5. QED
          BY <4>2, <5>4 DEF Promise!May
      <4>3. CASE Phase(h) \in {"approved", "declined"}
        BY <4>3, <2>1, <2>2, <2>3
           DEF Lawful, Promise!May, Promise!Phases, Known, Live, Settled,
               Outcomes, LiveStates
      <4>4. CASE Phase(h) = "forgotten"
        BY <4>4, <2>1, <2>2, <2>3, StateSplit
           DEF Lawful, Promise!May, Promise!Phases, Known, Live, Settled,
               Outcomes, LiveStates
      <4>5. QED
        BY <4>1, <4>2, <4>3, <4>4, <2>2 DEF Promise!Phases
    <3>2. ASSUME NEW h \in Handles, Promise!Yes(h)
          PROVE  onScreen = {h}
      BY <3>2, <2>1, <2>2, <2>3 DEF Lawful, Promise!Yes
    <3>3. ASSUME NEW h \in Handles
          PROVE  Promise!Collectable(h) /\ Promise!OnlyApproved(h)
      BY <2>1, <2>2, <2>3
         DEF Lawful, RecordInv, Promise!Collectable, Promise!OnlyApproved,
             Promise!Yes, Live, LiveStates
    <3>4. /\ phase' \in [Handles -> Promise!Phases]
          /\ holding' \subseteq Handles
      BY <2>3
    <3>5. Promise!Call
      BY <3>1, <3>2, <3>3, <3>4 DEF Promise!Call
    <3>6. QED
      BY <3>5 DEF Promise!Next
  <2>6. QED
    BY <2>4, <2>5
<1>3. QED
  BY <1>1, <1>2, AlwaysInv, PTL DEF Spec, KeepsPromise, Promise!Spec

=============================================================================
