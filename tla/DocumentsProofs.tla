-------------------------- MODULE DocumentsProofs --------------------------
(***************************************************************************)
(* Proofs about Documents, for any number of processes and documents and   *)
(* any number of kills, failing system calls and power cuts.               *)
(***************************************************************************)
EXTENDS Documents, TLAPS

-----------------------------------------------------------------------------
(* The invariant. *)

\* Only the holder of the lock is between reading and releasing.
Owned == \A p \in Procs : call[p].at \in Critical => lock = p

\* An update about to replace its document still sees it as it read it, its
\* staged file says what it should, and what it will answer is decided.
Good(c, docs, now) ==
  /\ c.at \in {"stage", "fill", "sync", "rename"} =>
       /\ docs[c.doc].text \notin {Torn, Damaged}
       /\ c.seen = Base(docs[c.doc].text)
  /\ c.at \in {"fill", "sync", "rename"} => c.temp \in File
  /\ c.at \in {"sync", "rename"} => c.temp.text = Changed(c.seen, c.change)
  /\ c.at = "rename" => c.temp.bytes = "synced"
  /\ c.at = "barrier" => c.verdict = "ok"
  /\ c.at \in {"unlock", "answer"} => c.verdict # "none"
  /\ c.since <= now

Whole(f) == f.text # Torn /\ f.bytes = "synced"

\* What is at a path, or in a power cut's reach, is whole; what is damaged
\* was never replaced.
Stored ==
  \A d \in Docs :
    /\ Whole(doc[d])
    /\ \A f \in older[d] : Whole(f)
    /\ doc[d].text = Damaged => older[d] = {}

Inv ==
  /\ TypeOK
  /\ Owned
  /\ \A p \in Procs : Good(call[p], doc, mishaps)
  /\ Stored
  /\ AcceptedIsCommitted

Moved(p, d) == call' = [call EXCEPT ![p] = d]

-----------------------------------------------------------------------------
(* Values, files and calls. *)

\* A document's contents after a change are contents again, and never one of
\* the three ways of not being one.
LEMMA ChangedIsMarks ==
  ASSUME NEW text \in SUBSET Marks, NEW change \in Changes
  PROVE  /\ Changed(text, change) \in SUBSET Marks
         /\ Changed(text, change) \in Values
         /\ Changed(text, change) \notin {Missing, Torn, Damaged}
<1>1. change.mark \in Marks
  BY DEF Changes
<1>2. Changed(text, change) \in SUBSET Marks
  BY <1>1 DEF Changed
<1> QED
  BY <1>2, DocumentsAssumption DEF Values

\* What a document holds when it is read.
LEMMA BaseIsMarks ==
  ASSUME NEW text \in Values, text # Damaged
  PROVE  Base(text) \in SUBSET Marks
  BY DocumentsAssumption DEF Base, Values

\* The idle call is a call.
LEMMA IdleIsCall == IdleCall \in Call /\ IdleCall.at = "idle"
<1>1. (CHOOSE d \in Docs : TRUE) \in Docs
  BY DocumentsAssumption
<1>2. PICK m \in Marks : TRUE
  BY DocumentsAssumption
<1>3. [kind |-> "put", mark |-> m] \in Changes
  BY <1>2 DEF Changes
<1>4. (CHOOSE c \in Changes : TRUE) \in Changes
  BY <1>3
<1> QED
  BY <1>1, <1>4, DocumentsAssumption DEF IdleCall, Call, Steps

\* An idle call promises nothing.
LEMMA IdleIsGood ==
  ASSUME NEW docs, NEW now \in Nat
  PROVE  Good(IdleCall, docs, now)
  BY DEF Good, IdleCall

\* The fields of a call.
LEMMA CallFields ==
  ASSUME NEW c \in Call
  PROVE  /\ c.doc \in Docs /\ c.change \in Changes /\ c.at \in Steps
         /\ c.seen \in SUBSET Marks /\ c.temp \in File \union {NoFile}
         /\ c.verdict \in {"none", "ok", "refused"}
         /\ c.since \in Nat
  BY DocumentsAssumption DEF Call

\* A step of one update changes that update only.
LEMMA OneMoves ==
  ASSUME call \in [Procs -> Call], NEW p \in Procs, NEW d \in Call, Moved(p, d)
  PROVE  /\ call' \in [Procs -> Call]
         /\ call'[p] = d
         /\ \A q \in Procs \ {p} : call'[q] = call[q]
  BY DEF Moved

-----------------------------------------------------------------------------
(* Steps that replace no document. *)

\* How a step of p may change the lock, when it leaves p's call as d.
LockMoves(p, d) ==
  \/ lock' = lock /\ (d.at \in Critical => lock = p)
  \/ lock = Nobody /\ lock' = p
  \/ lock = p /\ lock' = Nobody /\ d.at \notin Critical

\* A step that leaves the documents alone, and at most commits them, keeps
\* the invariant when it leaves its own call in order.
LEMMA PrivateStep ==
  ASSUME Inv, NEW p \in Procs, NEW d \in Call, Moved(p, d),
         doc' = doc, older' \in {older, Committed(older)},
         mishaps' \in mishaps .. MaxMishaps,
         LockMoves(p, d),
         Good(d, doc, mishaps'),
         d.at = "unlock" /\ d.verdict = "ok" /\ d.since = mishaps'
           => older'[d.doc] = {}
  PROVE  Inv'
<1>1. /\ call' \in [Procs -> Call]
      /\ call'[p] = d
      /\ \A q \in Procs \ {p} : call'[q] = call[q]
  BY OneMoves DEF Inv, TypeOK
<1>2. older' \in [Docs -> SUBSET File]
      /\ \A e \in Docs : older'[e] \in {older[e], {}}
  BY DEF Inv, TypeOK, Committed
<1>3. TypeOK'
  BY <1>1, <1>2, DocumentsAssumption DEF Inv, TypeOK, LockMoves
<1>4. Owned'
  <2> SUFFICES ASSUME NEW q \in Procs, call'[q].at \in Critical
               PROVE  lock' = q
    BY DEF Owned
  <2>1. CASE q = p
    BY <2>1, <1>1 DEF LockMoves
  <2>2. CASE q # p
    <3>1. lock = q
      BY <2>2, <1>1 DEF Inv, Owned
    <3> QED
      BY <3>1, <2>2, DocumentsAssumption DEF LockMoves
  <2> QED
    BY <2>1, <2>2
<1>5. \A q \in Procs : Good(call'[q], doc', mishaps')
  <2> SUFFICES ASSUME NEW q \in Procs
               PROVE  Good(call'[q], doc', mishaps')
    OBVIOUS
  <2>1. CASE q = p
    BY <2>1, <1>1
  <2>2. CASE q # p
    <3>1. Good(call[q], doc, mishaps) /\ call'[q] = call[q] /\ call[q] \in Call
      BY <2>2, <1>1 DEF Inv, TypeOK
    <3>2. call[q].since \in Nat /\ mishaps \in Nat /\ mishaps' \in Int
          /\ mishaps <= mishaps'
      BY <3>1, CallFields, DocumentsAssumption DEF Inv, TypeOK
    <3> QED
      BY <3>1, <3>2 DEF Good
  <2> QED
    BY <2>1, <2>2
<1>6. Stored'
  BY <1>2 DEF Inv, Stored
<1>7. AcceptedIsCommitted'
  <2> SUFFICES ASSUME NEW q \in Procs, call'[q].at = "unlock",
                      call'[q].verdict = "ok", call'[q].since = mishaps'
               PROVE  older'[call'[q].doc] = {}
    BY DEF AcceptedIsCommitted, At
  <2>1. CASE q = p
    BY <2>1, <1>1
  <2>2. CASE q # p
    <3>1. call'[q] = call[q] /\ call[q] \in Call /\ Good(call[q], doc, mishaps)
      BY <2>2, <1>1 DEF Inv, TypeOK
    <3>2. call[q].since \in Nat /\ mishaps \in Nat /\ mishaps' \in Int
          /\ mishaps <= mishaps' /\ call[q].since <= mishaps
      BY <3>1, CallFields, DocumentsAssumption DEF Inv, TypeOK, Good
    <3>3. call[q].since = mishaps
      BY <3>1, <3>2
    <3>4. older[call[q].doc] = {}
      BY <3>1, <3>3 DEF Inv, AcceptedIsCommitted, At
    <3>5. call[q].doc \in Docs
      BY <3>1, CallFields
    <3> QED
      BY <3>1, <3>4, <3>5, <1>2
  <2> QED
    BY <2>1, <2>2
<1> QED
  BY <1>3, <1>4, <1>5, <1>6, <1>7 DEF Inv

\* Each of those steps, as the call it leaves.
LEMMA BeginKeeps ==
  ASSUME Inv, NEW p \in Procs, NEW e \in Docs, NEW change \in Changes,
         Begin(p, e, change)
  PROVE  Inv'
<1> DEFINE d == [IdleCall EXCEPT !.doc = e, !.change = change, !.at = "lock",
                                 !.since = mishaps]
<1>1. d \in Call /\ d.at = "lock" /\ d.since = mishaps
  BY IdleIsCall DEF Call, Steps, Inv, TypeOK
<1>2. Moved(p, d)
  BY DEF Begin, Moved
<1>3. Good(d, doc, mishaps')
  BY <1>1, DocumentsAssumption DEF Begin, Good, Inv, TypeOK
<1>4. LockMoves(p, d)
  BY <1>1 DEF Begin, LockMoves, Critical
<1>5. mishaps' \in mishaps .. MaxMishaps /\ doc' = doc /\ older' = older
  BY DocumentsAssumption DEF Begin, Inv, TypeOK
<1> HIDE DEF d
<1> QED
  BY <1>1, <1>2, <1>3, <1>4, <1>5, PrivateStep

LEMMA AcquireKeeps ==
  ASSUME Inv, NEW p \in Procs, Acquire(p)
  PROVE  Inv'
<1> DEFINE d == [call[p] EXCEPT !.at = "read"]
<1>1. call[p] \in Call /\ Good(call[p], doc, mishaps) /\ call[p].at = "lock"
  BY DEF Inv, TypeOK, Acquire, At
<1>2. d \in Call /\ d.at = "read" /\ d.since = call[p].since
  BY <1>1 DEF Call, Steps
<1>3. Moved(p, d)
  BY DEF Acquire, Moved, Go
<1>4. Good(d, doc, mishaps')
  BY <1>1, <1>2 DEF Acquire, Good
<1>5. LockMoves(p, d)
  BY <1>2 DEF Acquire, LockMoves, Free, Guard
<1>6. mishaps' \in mishaps .. MaxMishaps /\ doc' = doc /\ older' = older
  BY DocumentsAssumption DEF Acquire, Inv, TypeOK
<1> HIDE DEF d
<1> QED
  BY <1>2, <1>3, <1>4, <1>5, <1>6, PrivateStep

\* A refused update keeps nothing but its document and its answer.
LEMMA RefuseKeeps ==
  ASSUME Inv, NEW p \in Procs, NEW step \in {"unlock", "answer"},
         Refuse(p, step), step = "unlock" => lock = p,
         UNCHANGED <<doc, older, lock>>, mishaps' \in mishaps .. MaxMishaps,
         step = "answer" => call[p].at = "lock"
  PROVE  Inv'
<1> DEFINE d == [call[p] EXCEPT !.at = step, !.verdict = "refused",
                                !.temp = NoFile]
<1>1. call[p] \in Call /\ Good(call[p], doc, mishaps)
  BY DEF Inv, TypeOK
<1>2. d \in Call /\ d.at = step /\ d.since = call[p].since
      /\ d.verdict = "refused"
  BY <1>1 DEF Call, Steps
<1>3. Moved(p, d)
  BY DEF Refuse, Moved
<1>4. mishaps \in Nat /\ mishaps' \in Int /\ mishaps <= mishaps'
      /\ call[p].since \in Nat
  BY <1>1, CallFields, DocumentsAssumption DEF Inv, TypeOK
<1>5. Good(d, doc, mishaps')
  BY <1>1, <1>2, <1>4 DEF Good
<1>6. LockMoves(p, d)
  BY <1>2 DEF LockMoves, Critical
<1> HIDE DEF d
<1> QED
  BY <1>2, <1>3, <1>5, <1>6, PrivateStep

LEMMA ReadKeeps ==
  ASSUME Inv, NEW p \in Procs, Read(p)
  PROVE  Inv'
<1>1. /\ call[p] \in Call /\ Good(call[p], doc, mishaps)
      /\ call[p].at = "read" /\ lock = p
      /\ call[p].doc \in Docs /\ doc[call[p].doc] \in File
  BY CallFields DEF Inv, TypeOK, Owned, Critical, Read, At
<1>2. mishaps' \in mishaps .. MaxMishaps /\ UNCHANGED <<doc, older, lock>>
  BY DocumentsAssumption DEF Read, Inv, TypeOK
<1>3. CASE Unreadable(doc[call[p].doc].text)
  BY <1>1, <1>2, <1>3, RefuseKeeps DEF Read
<1>4. CASE ~Unreadable(doc[call[p].doc].text)
  <2> DEFINE text == doc[call[p].doc].text
             d == [call[p] EXCEPT !.seen = Base(text), !.at = "stage"]
  <2>1. text \in Values /\ text \notin {Torn, Damaged}
    BY <1>1, <1>4 DEF File, Unreadable
  <2>2. Base(text) \in SUBSET Marks
    BY <2>1, BaseIsMarks
  <2>3. d \in Call /\ d.at = "stage" /\ d.since = call[p].since
        /\ d.doc = call[p].doc /\ d.seen = Base(text)
    BY <1>1, <2>2 DEF Call, Steps
  <2>4. Moved(p, d)
    BY <1>4 DEF Read, Moved
  <2>5. Good(d, doc, mishaps')
    BY <1>1, <2>1, <2>3 DEF Good, Read
  <2>6. LockMoves(p, d)
    BY <1>1, <1>2 DEF LockMoves
  <2> HIDE DEF d
  <2> QED
    BY <1>2, <2>3, <2>4, <2>5, <2>6, PrivateStep
<1> QED
  BY <1>3, <1>4

LEMMA StageKeeps ==
  ASSUME Inv, NEW p \in Procs, Stage(p)
  PROVE  Inv'
<1> DEFINE f == [text |-> Torn, bytes |-> "buffered"]
           d == [call[p] EXCEPT !.temp = f, !.at = "fill"]
<1>1. /\ call[p] \in Call /\ Good(call[p], doc, mishaps)
      /\ call[p].at = "stage" /\ lock = p
  BY DEF Inv, TypeOK, Owned, Critical, Stage, At
<1>2. f \in File
  BY DEF File
<1>3. d \in Call /\ d.at = "fill" /\ d.since = call[p].since
      /\ d.doc = call[p].doc /\ d.seen = call[p].seen /\ d.temp = f
  BY <1>1, <1>2 DEF Call, Steps
<1>4. Moved(p, d)
  BY DEF Stage, Moved
<1>5. Good(d, doc, mishaps')
  BY <1>1, <1>2, <1>3 DEF Good, Stage
<1>6. LockMoves(p, d)
  BY <1>1 DEF LockMoves, Stage
<1>7. mishaps' \in mishaps .. MaxMishaps /\ doc' = doc /\ older' = older
  BY DocumentsAssumption DEF Stage, Inv, TypeOK
<1> HIDE DEF d
<1> QED
  BY <1>3, <1>4, <1>5, <1>6, <1>7, PrivateStep

LEMMA FillKeeps ==
  ASSUME Inv, NEW p \in Procs, Fill(p)
  PROVE  Inv'
<1> DEFINE c == call[p]
           text == Changed(c.seen, c.change)
           f == [c.temp EXCEPT !.text = text]
           d == [c EXCEPT !.temp = f, !.at = "sync"]
<1>1. /\ c \in Call /\ Good(c, doc, mishaps)
      /\ c.at = "fill" /\ lock = p /\ c.temp \in File
      /\ c.seen \in SUBSET Marks /\ c.change \in Changes
  BY CallFields DEF Inv, TypeOK, Owned, Critical, Fill, At, Good
<1>2. text \in Values
  BY <1>1, ChangedIsMarks
<1> HIDE DEF text
<1>3. f \in File /\ f.text = text
  BY <1>1, <1>2 DEF File
<1> HIDE DEF f
<1>4. d \in Call /\ d.at = "sync" /\ d.since = c.since /\ d.doc = c.doc
      /\ d.seen = c.seen /\ d.change = c.change /\ d.temp = f
  BY <1>1, <1>3 DEF Call, Steps
<1>5. Moved(p, d)
  BY DEF Fill, Moved, f, text
<1>6. Good(d, doc, mishaps')
  BY <1>1, <1>3, <1>4 DEF Good, Fill, text
<1>7. LockMoves(p, d)
  BY <1>1 DEF LockMoves, Fill
<1>8. mishaps' \in mishaps .. MaxMishaps /\ doc' = doc /\ older' = older
  BY DocumentsAssumption DEF Fill, Inv, TypeOK
<1> HIDE DEF d
<1> QED
  BY <1>4, <1>5, <1>6, <1>7, <1>8, PrivateStep

LEMMA SyncKeeps ==
  ASSUME Inv, NEW p \in Procs, Sync(p)
  PROVE  Inv'
<1> DEFINE c == call[p]
           f == [c.temp EXCEPT !.bytes = "synced"]
           d == [c EXCEPT !.temp = f, !.at = "rename"]
<1>1. /\ c \in Call /\ Good(c, doc, mishaps)
      /\ c.at = "sync" /\ lock = p /\ c.temp \in File
  BY DEF Inv, TypeOK, Owned, Critical, Sync, At, Good
<1>2. f \in File /\ f.text = c.temp.text /\ f.bytes = "synced"
  BY <1>1 DEF File
<1> HIDE DEF f
<1>3. d \in Call /\ d.at = "rename" /\ d.since = c.since /\ d.doc = c.doc
      /\ d.seen = c.seen /\ d.change = c.change /\ d.temp = f
  BY <1>1, <1>2 DEF Call, Steps
<1>4. Moved(p, d)
  BY DEF Sync, Synced, Moved, f
<1>5. Good(d, doc, mishaps')
  BY <1>1, <1>2, <1>3 DEF Good, Sync
<1>6. LockMoves(p, d)
  BY <1>1 DEF LockMoves, Sync
<1>7. mishaps' \in mishaps .. MaxMishaps /\ doc' = doc /\ older' = older
  BY DocumentsAssumption DEF Sync, Inv, TypeOK
<1> HIDE DEF d
<1> QED
  BY <1>3, <1>4, <1>5, <1>6, <1>7, PrivateStep

LEMMA BarrierKeeps ==
  ASSUME Inv, NEW p \in Procs, Barrier(p)
  PROVE  Inv'
<1> DEFINE d == [call[p] EXCEPT !.at = "unlock"]
<1>1. /\ call[p] \in Call /\ Good(call[p], doc, mishaps)
      /\ call[p].at = "barrier" /\ lock = p
  BY DEF Inv, TypeOK, Owned, Critical, Barrier, At
<1>2. d \in Call /\ d.at = "unlock" /\ d.since = call[p].since
      /\ d.verdict = call[p].verdict
  BY <1>1 DEF Call, Steps
<1>3. Moved(p, d)
  BY DEF Barrier, Moved, Go
<1>4. Good(d, doc, mishaps')
  BY <1>1, <1>2 DEF Good, Barrier
<1>5. LockMoves(p, d)
  BY <1>1 DEF LockMoves, Barrier
<1>6. mishaps' \in mishaps .. MaxMishaps /\ doc' = doc
  BY DocumentsAssumption DEF Barrier, Inv, TypeOK
<1>7. older' = Committed(older) /\ older'[d.doc] = {}
  BY <1>2, CallFields DEF Barrier, Committed
<1> HIDE DEF d
<1> QED
  BY <1>2, <1>3, <1>4, <1>5, <1>6, <1>7, PrivateStep

LEMMA UnlockKeeps ==
  ASSUME Inv, NEW p \in Procs, Unlock(p)
  PROVE  Inv'
<1> DEFINE d == [call[p] EXCEPT !.at = "answer"]
<1>1. /\ call[p] \in Call /\ Good(call[p], doc, mishaps)
      /\ call[p].at = "unlock" /\ lock = p
  BY DEF Inv, TypeOK, Owned, Critical, Unlock, At
<1>2. d \in Call /\ d.at = "answer" /\ d.since = call[p].since
      /\ d.verdict = call[p].verdict
  BY <1>1 DEF Call, Steps
<1>3. Moved(p, d)
  BY DEF Unlock, Moved, Go
<1>4. Good(d, doc, mishaps')
  BY <1>1, <1>2 DEF Good, Unlock
<1>5. LockMoves(p, d)
  BY <1>1, <1>2 DEF LockMoves, Unlock, Critical
<1>6. mishaps' \in mishaps .. MaxMishaps /\ doc' = doc /\ older' = older
  BY DocumentsAssumption DEF Unlock, Inv, TypeOK
<1> HIDE DEF d
<1> QED
  BY <1>2, <1>3, <1>4, <1>5, <1>6, PrivateStep

\* An update that is over, or whose process is.
LEMMA GoneKeeps ==
  ASSUME Inv, NEW p \in Procs, Moved(p, IdleCall),
         \/ lock' = lock
         \/ lock = p /\ lock' = Nobody,
         UNCHANGED <<doc, older>>, mishaps' \in mishaps .. MaxMishaps
  PROVE  Inv'
<1>1. IdleCall \in Call /\ IdleCall.at = "idle"
  BY IdleIsCall
<1>2. mishaps' \in Nat
  BY DocumentsAssumption DEF Inv, TypeOK
<1>3. Good(IdleCall, doc, mishaps')
  BY <1>2, IdleIsGood
<1>4. LockMoves(p, IdleCall)
  BY <1>1 DEF LockMoves, Critical
<1> QED
  BY <1>1, <1>3, <1>4, PrivateStep

LEMMA AnswerKeeps ==
  ASSUME Inv, NEW p \in Procs, Answer(p)
  PROVE  Inv'
<1>1. mishaps' \in mishaps .. MaxMishaps
  BY DocumentsAssumption DEF Answer, Inv, TypeOK
<1> QED
  BY <1>1, GoneKeeps DEF Answer, Moved

\* A mishap is counted.
LEMMA MishapCounts ==
  ASSUME Inv, Mishap
  PROVE  mishaps' \in mishaps .. MaxMishaps /\ mishaps' > mishaps
  BY DocumentsAssumption DEF Inv, TypeOK, Mishap

LEMMA KillKeeps ==
  ASSUME Inv, NEW p \in Procs, Kill(p)
  PROVE  Inv'
  BY MishapCounts, GoneKeeps DEF Kill, Moved

LEMMA LockTimesOutKeeps ==
  ASSUME Inv, NEW p \in Procs, LockTimesOut(p)
  PROVE  Inv'
<1>1. mishaps' \in mishaps .. MaxMishaps
  BY DocumentsAssumption DEF LockTimesOut, Inv, TypeOK
<1> QED
  BY <1>1, RefuseKeeps DEF LockTimesOut, At

LEMMA FailsKeeps ==
  ASSUME Inv, NEW p \in Procs, Fails(p)
  PROVE  Inv'
<1>1. /\ mishaps' \in mishaps .. MaxMishaps /\ mishaps' > mishaps
      /\ UNCHANGED <<doc, older, lock>>
  BY MishapCounts DEF Fails
<1>2. CASE At(p, "lock") /\ Refuse(p, "answer")
  BY <1>1, <1>2, RefuseKeeps DEF At
<1>3. CASE /\ call[p].at \in {"read", "stage", "fill", "sync", "rename"}
           /\ Refuse(p, "unlock")
  <2>1. lock = p
    BY <1>3 DEF Inv, Owned, Critical
  <2> QED
    BY <1>1, <1>3, <2>1, RefuseKeeps
<1>4. CASE At(p, "barrier") /\ Go(p, "unlock")
  <2> DEFINE d == [call[p] EXCEPT !.at = "unlock"]
  <2>1. /\ call[p] \in Call /\ Good(call[p], doc, mishaps)
        /\ call[p].at = "barrier" /\ lock = p
    BY <1>4 DEF Inv, TypeOK, Owned, Critical, At
  <2>2. d \in Call /\ d.at = "unlock" /\ d.since = call[p].since
        /\ d.verdict = call[p].verdict
    BY <2>1 DEF Call, Steps
  <2>3. Moved(p, d)
    BY <1>4 DEF Moved, Go
  <2>4. mishaps \in Nat /\ mishaps' \in Int /\ call[p].since \in Nat
        /\ call[p].since <= mishaps
    BY <1>1, <2>1, CallFields, DocumentsAssumption DEF Inv, TypeOK, Good
  <2>5. Good(d, doc, mishaps') /\ d.since # mishaps'
    BY <1>1, <2>1, <2>2, <2>4 DEF Good
  <2>6. LockMoves(p, d)
    BY <1>1, <2>1 DEF LockMoves
  <2> HIDE DEF d
  <2> QED
    BY <1>1, <2>2, <2>3, <2>5, <2>6, PrivateStep
<1> QED
  BY <1>2, <1>3, <1>4 DEF Fails

-----------------------------------------------------------------------------
(* The rename, and a power cut. *)

\* What a rename does, and what it publishes.
LEMMA Renames ==
  ASSUME Inv, NEW p \in Procs, Rename(p)
  PROVE  LET c == call[p]
             d == [c EXCEPT !.temp = NoFile, !.verdict = "ok", !.at = "barrier"]
         IN  /\ c \in Call /\ c.at = "rename" /\ lock = p /\ c.doc \in Docs
             /\ d \in Call /\ Moved(p, d) /\ d.at = "barrier"
             /\ d.verdict = "ok" /\ d.since = c.since /\ d.doc = c.doc
             /\ d.change = c.change
             /\ Good(c, doc, mishaps)
             /\ c.temp \in File /\ Whole(c.temp) /\ c.temp.text # Damaged
             /\ doc[c.doc].text \in Values /\ doc[c.doc].text # Damaged
             /\ c.temp.text = Changed(Base(doc[c.doc].text), c.change)
<1> DEFINE c == call[p]
           d == [c EXCEPT !.temp = NoFile, !.verdict = "ok", !.at = "barrier"]
<1>1. /\ c \in Call /\ Good(c, doc, mishaps) /\ c.at = "rename" /\ lock = p
      /\ c.doc \in Docs /\ c.seen \in SUBSET Marks /\ c.change \in Changes
  BY CallFields DEF Inv, TypeOK, Owned, Critical, Rename, At
<1>2. d \in Call /\ d.at = "barrier" /\ d.verdict = "ok" /\ d.since = c.since
      /\ d.doc = c.doc /\ d.change = c.change
  BY <1>1 DEF Call, Steps
<1>3. Moved(p, d)
  BY DEF Rename, Moved
<1>4. /\ c.temp \in File /\ c.temp.bytes = "synced"
      /\ c.temp.text = Changed(c.seen, c.change)
      /\ doc[c.doc].text \notin {Torn, Damaged}
      /\ c.seen = Base(doc[c.doc].text)
  BY <1>1 DEF Good
<1>5. c.temp.text \notin {Torn, Damaged}
  BY <1>1, <1>4, ChangedIsMarks
<1>6. doc[c.doc].text \in Values
  BY <1>1, <1>4 DEF Inv, TypeOK, File
<1> QED
  BY <1>1, <1>2, <1>3, <1>4, <1>5, <1>6 DEF Whole

LEMMA RenameKeeps ==
  ASSUME Inv, NEW p \in Procs, Rename(p)
  PROVE  Inv'
<1> DEFINE c == call[p]
           e == c.doc
           d == [c EXCEPT !.temp = NoFile, !.verdict = "ok", !.at = "barrier"]
<1>1. /\ c \in Call /\ c.at = "rename" /\ lock = p /\ e \in Docs
      /\ d \in Call /\ Moved(p, d) /\ d.at = "barrier"
      /\ d.verdict = "ok" /\ d.since = c.since /\ d.doc = e
      /\ Good(c, doc, mishaps)
      /\ c.temp \in File /\ Whole(c.temp) /\ c.temp.text # Damaged
      /\ doc[e].text # Damaged
  BY Renames
<1>2. /\ doc' = [doc EXCEPT ![e] = c.temp]
      /\ older' = [older EXCEPT ![e] = @ \union {doc[e]}]
      /\ UNCHANGED <<lock, mishaps>>
  BY DEF Rename
<1> HIDE DEF d
<1>3. /\ call' \in [Procs -> Call]
      /\ call'[p] = d
      /\ \A q \in Procs \ {p} : call'[q] = call[q]
  BY <1>1, OneMoves DEF Inv, TypeOK
<1>4. TypeOK'
  BY <1>1, <1>2, <1>3 DEF Inv, TypeOK
<1>5. \A q \in Procs \ {p} : call[q].at \notin Critical
  BY <1>1 DEF Inv, Owned
<1>6. Owned'
  BY <1>1, <1>2, <1>3, <1>5 DEF Owned
<1>7. \A q \in Procs : Good(call'[q], doc', mishaps')
  <2>1. Good(d, doc', mishaps')
    BY <1>1, <1>2 DEF Good
  <2>2. ASSUME NEW q \in Procs \ {p}
        PROVE  Good(call'[q], doc', mishaps')
    <3>1. Good(call[q], doc, mishaps)
      BY DEF Inv
    <3> QED
      BY <1>2, <1>3, <1>5, <3>1 DEF Good, Critical
  <2> QED
    BY <1>3, <2>1, <2>2
<1>8. Stored'
  <2> SUFFICES ASSUME NEW g \in Docs
               PROVE  /\ Whole(doc'[g])
                      /\ \A f \in older'[g] : Whole(f)
                      /\ doc'[g].text = Damaged => older'[g] = {}
    BY DEF Stored
  <2>1. /\ Whole(doc[g])
        /\ \A f \in older[g] : Whole(f)
        /\ doc[g].text = Damaged => older[g] = {}
    BY DEF Inv, Stored
  <2>2. CASE g = e
    BY <1>1, <1>2, <2>1, <2>2 DEF Inv, TypeOK
  <2>3. CASE g # e
    BY <1>2, <2>1, <2>3 DEF Inv, TypeOK
  <2> QED
    BY <2>2, <2>3
<1>9. AcceptedIsCommitted'
  BY <1>1, <1>3, <1>5 DEF AcceptedIsCommitted, At, Critical
<1> QED
  BY SMTT(30), <1>4, <1>6, <1>7, <1>8, <1>9 DEF Inv

\* After a power cut every document is one that was in its reach.
LEMMA PowerCutBrings ==
  ASSUME Inv, PowerCut, NEW d \in Docs
  PROVE  doc'[d] \in older[d] \union {doc[d]} /\ Whole(doc'[d])
<1>1. PICK back \in [Docs -> UNION {older[e] \union {doc[e]} : e \in Docs}] :
        /\ \A e \in Docs : back[e] \in older[e] \union {doc[e]}
        /\ \A e \in Docs : doc'[e] \in Recovered(back[e])
  BY DEF PowerCut
<1>2. Whole(back[d])
  BY <1>1 DEF Inv, Stored
<1>3. doc'[d] = back[d]
  BY <1>1, <1>2 DEF Recovered, Whole
<1> QED
  BY <1>1, <1>2, <1>3

LEMMA PowerCutKeeps ==
  ASSUME Inv, PowerCut
  PROVE  Inv'
<1>1. /\ older' = [d \in Docs |-> {}] /\ lock' = Nobody
      /\ call' = [p \in Procs |-> IdleCall]
      /\ mishaps' \in mishaps .. MaxMishaps
  BY MishapCounts DEF PowerCut
<1>2. mishaps' \in Nat
  BY <1>1, DocumentsAssumption DEF Inv, TypeOK
<1>3. \A d \in Docs : doc'[d] \in File /\ Whole(doc'[d])
  BY PowerCutBrings DEF Inv, TypeOK
<1>4. DOMAIN doc' = Docs /\ doc' = [d \in Docs |-> doc'[d]]
  BY DEF PowerCut
<1>5. doc' \in [Docs -> File]
  BY <1>3, <1>4
<1>6. TypeOK'
  BY <1>1, <1>2, <1>5, IdleIsCall, DocumentsAssumption DEF Inv, TypeOK
<1>7. Owned'
  BY <1>1, IdleIsCall DEF Owned, Critical
<1>8. \A p \in Procs : Good(call'[p], doc', mishaps')
  BY <1>1, <1>2, IdleIsGood
<1>9. Stored'
  BY <1>1, <1>3 DEF Stored
<1>10. AcceptedIsCommitted'
  BY <1>1, IdleIsCall DEF AcceptedIsCommitted, At
<1> QED
  BY <1>6, <1>7, <1>8, <1>9, <1>10 DEF Inv

-----------------------------------------------------------------------------
(* The invariant of the specification. *)

LEMMA InvInit == Init => Inv
<1> SUFFICES ASSUME Init
             PROVE  Inv
  OBVIOUS
<1>1. /\ older = [d \in Docs |-> {}] /\ lock = Nobody
      /\ call = [p \in Procs |-> IdleCall] /\ mishaps = 0
      /\ doc \in [Docs -> [text : Values, bytes : {"synced"}]]
  BY DEF Init
<1>2. \A d \in Docs : doc[d] \in File /\ Whole(doc[d])
  BY <1>1, DocumentsAssumption DEF File, Whole, Values
<1>3. TypeOK
  BY <1>1, <1>2, IdleIsCall, DocumentsAssumption DEF TypeOK
<1>4. Owned
  BY <1>1, IdleIsCall DEF Owned, Critical
<1>5. \A p \in Procs : Good(call[p], doc, mishaps)
  BY <1>1, IdleIsGood
<1>6. Stored
  BY <1>1, <1>2 DEF Stored
<1>7. AcceptedIsCommitted
  BY <1>1, IdleIsCall DEF AcceptedIsCommitted, At
<1> QED
  BY <1>3, <1>4, <1>5, <1>6, <1>7 DEF Inv

LEMMA InvNext == Inv /\ [Next]_vars => Inv'
<1> SUFFICES ASSUME Inv, [Next]_vars
             PROVE  Inv'
  OBVIOUS
<1>1. CASE UNCHANGED vars
  BY <1>1 DEF vars, Inv, TypeOK, Owned, Good, Stored, AcceptedIsCommitted, At
<1>2. CASE PowerCut
  BY <1>2, PowerCutKeeps
<1>3. ASSUME NEW p \in Procs, Begins(p) \/ Proceed(p) \/ Fails(p) \/ Kill(p)
      PROVE  Inv'
  <2>1. CASE Begins(p)
    BY <2>1, BeginKeeps DEF Begins
  <2>2. CASE Proceed(p)
    <3>1. CASE Writing(p)
      BY <3>1, StageKeeps, FillKeeps, SyncKeeps, RenameKeeps, BarrierKeeps
      DEF Writing
    <3>2. CASE Acquire(p)
      BY <3>2, AcquireKeeps
    <3>3. CASE LockTimesOut(p)
      BY <3>3, LockTimesOutKeeps
    <3>4. CASE Read(p)
      BY <3>4, ReadKeeps
    <3>5. CASE Unlock(p)
      BY <3>5, UnlockKeeps
    <3>6. CASE Answer(p)
      BY <3>6, AnswerKeeps
    <3> QED
      BY <2>2, <3>1, <3>2, <3>3, <3>4, <3>5, <3>6 DEF Proceed
  <2>3. CASE Fails(p)
    BY <2>3, FailsKeeps
  <2>4. CASE Kill(p)
    BY <2>4, KillKeeps
  <2> QED
    BY <1>3, <2>1, <2>2, <2>3, <2>4
<1> QED
  BY <1>1, <1>2, <1>3 DEF Next

\* Everything the other theorems rest on, in every reachable state.
THEOREM Sound == Spec => []Inv
  BY InvInit, InvNext, PTL DEF Spec

\* Every state is well typed: in particular the lock belongs to a process.
THEOREM TypeCorrect == Spec => []TypeOK
<1>1. Inv => TypeOK
  BY DEF Inv
<1> QED
  BY <1>1, Sound, PTL

\* However many processes share the directory, no two are between reading and
\* replacing a document (Keystore::update under layout::lock).
THEOREM MutualExclusion == Spec => []Exclusive
<1>1. Inv => Exclusive
  BY DEF Inv, Owned, Exclusive
<1> QED
  BY <1>1, Sound, PTL

\* No document is ever half written, whatever the machine loses (write_doc).
THEOREM DocumentsWhole == Spec => []WholeDocuments
<1>1. Inv => WholeDocuments
  BY DEF Inv, Stored, Whole, WholeDocuments
<1> QED
  BY <1>1, Sound, PTL

\* An update that ran undisturbed is committed before it lets go of the lock
\* (barrier).
THEOREM AcceptedCommitted == Spec => []AcceptedIsCommitted
<1>1. Inv => AcceptedIsCommitted
  BY DEF Inv
<1> QED
  BY <1>1, Sound, PTL

-----------------------------------------------------------------------------
(* What a step may never do to a document. *)

\* Only the rename and a power cut change a document.
LEMMA QuietSteps ==
  ASSUME NEW p \in Procs,
         Begins(p) \/ Proceed(p) \/ Fails(p) \/ Kill(p), ~Rename(p)
  PROVE  doc' = doc
  BY DEF Begins, Begin, Proceed, Acquire, LockTimesOut, Read, Writing, Stage,
         Fill, Sync, Barrier, Unlock, Answer, Fails, Kill

LEMMA DamagedStays ==
  ASSUME Inv, [Next]_vars, NEW d \in Docs, doc[d].text = Damaged
  PROVE  doc'[d].text = Damaged
<1>1. CASE UNCHANGED vars
  BY <1>1 DEF vars
<1>2. CASE PowerCut
  <2>1. older[d] = {}
    BY DEF Inv, Stored
  <2> QED
    BY <1>2, <2>1, PowerCutBrings
<1>3. ASSUME NEW p \in Procs, Rename(p)
      PROVE  doc'[d].text = Damaged
  <2>1. doc[call[p].doc].text # Damaged
    BY <1>3, Renames
  <2> QED
    BY SMTT(30), <1>3, <2>1 DEF Rename, Inv, TypeOK
<1>4. ASSUME NEW p \in Procs,
             Begins(p) \/ Proceed(p) \/ Fails(p) \/ Kill(p), ~Rename(p)
      PROVE  doc'[d].text = Damaged
  BY <1>4, QuietSteps
<1> QED
  BY <1>1, <1>2, <1>3, <1>4 DEF Next

\* A document nobody can read is never replaced, not even by a power cut
\* (read_json refuses what is present and unreadable).
THEOREM DamagedKept == Spec => DamagedIsKept
<1>1. ASSUME Inv, [Next]_vars
      PROVE  [\A d \in Docs :
                doc[d].text = Damaged => doc'[d].text = Damaged]_vars
  BY <1>1, DamagedStays
<1> QED
  BY <1>1, Sound, PTL DEF Spec, DamagedIsKept

-----------------------------------------------------------------------------
(* Updates are atomic: the refinement of DocumentPromise. *)

Value == [d \in Docs |-> doc[d].text]

Past == [d \in Docs |-> {f.text : f \in older[d]}]

Doing == [p \in Procs |-> Shown(call[p])]

\* A step of one update shows as a step of that update.
LEMMA ShownMoves ==
  ASSUME Inv, NEW p \in Procs, NEW d \in Call, Moved(p, d)
  PROVE  Doing' = [Doing EXCEPT ![p] = Shown(d)]
<1>1. \A q \in Procs : call'[q] = IF q = p THEN d ELSE call[q]
  BY OneMoves DEF Inv, TypeOK
<1> QED
  BY <1>1 DEF Doing

\* A step within a phase does not show.
LEMMA SamePhase ==
  ASSUME Inv, NEW p \in Procs, NEW d \in Call, Moved(p, d),
         Shown(d) = Shown(call[p])
  PROVE  Doing' = Doing
<1>1. Doing' = [Doing EXCEPT ![p] = Shown(call[p])]
  BY ShownMoves
<1> QED
  BY <1>1 DEF Doing

LEMMA PromiseInit == Init => Promise!Init
<1> SUFFICES ASSUME Init
             PROVE  Promise!Init
  OBVIOUS
<1>1. Value \in [Docs -> Promise!Values]
  BY DEF Init, Value, Promise!Values, Values
<1>2. Past = [d \in Docs |-> {}]
  BY DEF Init, Past
<1>3. Doing = [p \in Procs |-> Promise!Idle]
  BY DEF Init, Doing, Shown, IdleCall, Promise!Idle
<1> QED
  BY <1>1, <1>2, <1>3 DEF Promise!Init, Value, Past, Doing

Stutters == Value' = Value /\ Past' = Past /\ Doing' = Doing

LEMMA StutterIsAllowed ==
  ASSUME Stutters PROVE [Promise!Next]_(Promise!store)
  BY DEF Stutters, Value, Past, Doing, Promise!store

\* An update begins.
LEMMA BeginPromised ==
  ASSUME Inv, NEW p \in Procs, NEW e \in Docs, NEW change \in Changes,
         Begin(p, e, change)
  PROVE  [Promise!Next]_(Promise!store)
<1> DEFINE d == [IdleCall EXCEPT !.doc = e, !.change = change, !.at = "lock",
                                 !.since = mishaps]
           s == [doc |-> e, change |-> change, phase |-> "begun"]
<1>1. d \in Call
  BY IdleIsCall DEF Call, Steps, Inv, TypeOK
<1>2. Moved(p, d)
  BY DEF Begin, Moved
<1>3. Shown(d) = s
  BY DEF Shown, Phase, IdleCall
<1> HIDE DEF d
<1>4. Doing' = [Doing EXCEPT ![p] = s]
  BY <1>1, <1>2, <1>3, ShownMoves
<1>5. Doing[p] = Promise!Idle
  BY DEF Begin, At, Doing, Shown, Promise!Idle
<1>6. change \in Promise!Changes
  BY DEF Promise!Changes, Changes
<1>7. Value' = Value /\ Past' = Past
  BY DEF Begin, Value, Past
<1>8. Promise!Begin(p)
  BY <1>4, <1>5, <1>6, <1>7 DEF Promise!Begin, Value, Past, Doing
<1> QED
  BY <1>8 DEF Promise!Next

\* An update gets its answer.
LEMMA ResolvePromised ==
  ASSUME Inv, NEW p \in Procs, NEW d \in Call, Moved(p, d),
         NEW verdict \in {"ok", "refused"},
         Doing[p].phase = (IF verdict = "ok" THEN "took" ELSE "begun"),
         Shown(d) = [Shown(call[p]) EXCEPT !.phase = verdict],
         doc' = doc, older' \in {older, Committed(older)}
  PROVE  [Promise!Next]_(Promise!store)
<1>1. Doing' = [Doing EXCEPT ![p] = Shown(d)]
  BY ShownMoves
<1>2. Shown(d) = [Doing[p] EXCEPT !.phase = verdict]
  BY DEF Doing
<1>3. Value' = Value
  BY DEF Value
<1>4. Past' \in {Past, [e \in Docs |-> {}]}
  BY DEF Past, Committed
<1>5. Promise!Resolve(p, verdict)
  BY <1>1, <1>2, <1>3, <1>4 DEF Promise!Resolve, Value, Past, Doing
<1> QED
  BY <1>5 DEF Promise!Next

\* A refusal answers an update that has not taken effect.
LEMMA RefusePromised ==
  ASSUME Inv, NEW p \in Procs, NEW step \in {"unlock", "answer"},
         Refuse(p, step), UNCHANGED <<doc, older>>,
         call[p].at \in {"lock", "read", "stage", "fill", "sync", "rename"}
  PROVE  [Promise!Next]_(Promise!store)
<1> DEFINE d == [call[p] EXCEPT !.at = step, !.verdict = "refused",
                                !.temp = NoFile]
<1>1. call[p] \in Call
  BY DEF Inv, TypeOK
<1>2. d \in Call /\ d.at = step /\ d.verdict = "refused"
      /\ d.doc = call[p].doc /\ d.change = call[p].change
  BY <1>1 DEF Call, Steps
<1>3. Moved(p, d)
  BY DEF Refuse, Moved
<1> HIDE DEF d
<1>4. Shown(call[p]) = [doc |-> call[p].doc, change |-> call[p].change,
                        phase |-> "begun"]
  BY DEF Shown, Phase
<1>5. Shown(d) = [doc |-> call[p].doc, change |-> call[p].change,
                  phase |-> "refused"]
  BY <1>2 DEF Shown, Phase
<1>6. Doing[p].phase = "begun"
  BY <1>4 DEF Doing
<1> QED
  BY <1>2, <1>3, <1>4, <1>5, <1>6, ResolvePromised

\* The barrier, run or failed, answers an update that has taken effect.
LEMMA BarrierPromised ==
  ASSUME Inv, NEW p \in Procs, At(p, "barrier"), Go(p, "unlock"),
         doc' = doc, older' \in {older, Committed(older)}
  PROVE  [Promise!Next]_(Promise!store)
<1> DEFINE d == [call[p] EXCEPT !.at = "unlock"]
<1>1. call[p] \in Call /\ call[p].verdict = "ok" /\ call[p].at = "barrier"
  BY DEF Inv, TypeOK, Good, At
<1>2. d \in Call /\ d.at = "unlock" /\ d.verdict = "ok"
      /\ d.doc = call[p].doc /\ d.change = call[p].change
  BY <1>1 DEF Call, Steps
<1>3. Moved(p, d)
  BY DEF Go, Moved
<1> HIDE DEF d
<1>4. Shown(call[p]) = [doc |-> call[p].doc, change |-> call[p].change,
                        phase |-> "took"]
  BY <1>1 DEF Shown, Phase
<1>5. Shown(d) = [doc |-> call[p].doc, change |-> call[p].change,
                  phase |-> "ok"]
  BY <1>2 DEF Shown, Phase
<1>6. Doing[p].phase = "took"
  BY <1>4 DEF Doing
<1> QED
  BY <1>2, <1>3, <1>4, <1>5, <1>6, ResolvePromised

\* An update is over, or dies with its process.
LEMMA GonePromised ==
  ASSUME Inv, NEW p \in Procs, Moved(p, IdleCall), UNCHANGED <<doc, older>>
  PROVE  [Promise!Next]_(Promise!store)
<1>1. Shown(IdleCall) = Promise!Idle
  BY DEF Shown, IdleCall, Promise!Idle
<1>2. Doing' = [Doing EXCEPT ![p] = Promise!Idle]
  BY <1>1, IdleIsCall, ShownMoves
<1>3. Value' = Value /\ Past' = Past
  BY DEF Value, Past
<1>4. Promise!End(p)
  BY <1>2, <1>3 DEF Promise!End, Value, Past, Doing
<1> QED
  BY <1>4 DEF Promise!Next

\* The rename is the moment an update takes effect.
LEMMA TakePromised ==
  ASSUME Inv, NEW p \in Procs, Rename(p)
  PROVE  [Promise!Next]_(Promise!store)
<1> DEFINE c == call[p]
           e == c.doc
           d == [c EXCEPT !.temp = NoFile, !.verdict = "ok", !.at = "barrier"]
<1>1. /\ c \in Call /\ c.at = "rename" /\ e \in Docs
      /\ d \in Call /\ Moved(p, d) /\ d.at = "barrier"
      /\ d.doc = e /\ d.change = c.change
      /\ doc[e].text \in Values /\ doc[e].text # Damaged
      /\ c.temp.text = Changed(Base(doc[e].text), c.change)
  BY Renames
<1>2. /\ doc' = [doc EXCEPT ![e] = c.temp]
      /\ older' = [older EXCEPT ![e] = @ \union {doc[e]}]
  BY DEF Rename
<1>3. /\ doc \in [Docs -> File] /\ older \in [Docs -> SUBSET File]
  BY DEF Inv, TypeOK
<1> HIDE DEF d
<1>4. Shown(c) = [doc |-> e, change |-> c.change, phase |-> "begun"]
  BY <1>1 DEF Shown, Phase
<1>5. Shown(d) = [doc |-> e, change |-> c.change, phase |-> "took"]
  BY <1>1 DEF Shown, Phase
<1>6. Doing[p] = [doc |-> e, change |-> c.change, phase |-> "begun"]
  BY <1>4 DEF Doing
<1>7. Doing' = [Doing EXCEPT ![p].phase = "took"]
  <2>1. Doing' = [Doing EXCEPT ![p] = Shown(d)]
    BY <1>1, ShownMoves
  <2>2. Shown(d) = [Doing[p] EXCEPT !.phase = "took"]
    BY <1>5, <1>6
  <2> QED
    BY <2>1, <2>2
<1>8. Promise!After(doc[e].text, c.change) = c.temp.text
  BY <1>1, DocumentsAssumption
  DEF Promise!After, Promise!Base, Changed, Base, Values
<1>9. Value' = [Value EXCEPT ![e] = Promise!After(@, c.change)]
  BY <1>1, <1>2, <1>3, <1>8 DEF Value
<1>10. Past' = [Past EXCEPT ![e] = @ \union {Value[e]}]
  <2>1. {f.text : f \in older[e] \union {doc[e]}}
          = {f.text : f \in older[e]} \union {doc[e].text}
    OBVIOUS
  <2>2. \A g \in Docs :
          older'[g] = IF g = e THEN older[e] \union {doc[e]} ELSE older[g]
    BY <1>1, <1>2, <1>3
  <2>3. \A g \in Docs :
          {f.text : f \in older'[g]}
            = IF g = e THEN Past[e] \union {Value[e]} ELSE Past[g]
    BY <1>1, <2>1, <2>2 DEF Past, Value
  <2> QED
    BY <1>1, <2>3 DEF Past
<1>11. Value[e] # Damaged
  BY <1>1 DEF Value
<1>12. Promise!Take(p)
  <2>1. Doing[p].doc = e /\ Doing[p].change = c.change
        /\ Doing[p].phase = "begun"
    BY <1>6
  <2>2. Value[Doing[p].doc] # Damaged
    BY <1>11, <2>1
  <2>3. Value' = [Value EXCEPT ![Doing[p].doc] =
                    Promise!After(Value[Doing[p].doc], Doing[p].change)]
    BY <1>9, <2>1
  <2>4. Past' = [Past EXCEPT ![Doing[p].doc] =
                   Past[Doing[p].doc] \union {Value[Doing[p].doc]}]
    BY <1>10, <2>1
  <2> QED
    BY <2>1, <2>2, <2>3, <2>4, <1>7 DEF Promise!Take, Value, Past, Doing
<1> QED
  BY SMTT(30), <1>12 DEF Promise!Next

\* A power cut brings back a whole value, as promised.
LEMMA PowerCutPromised ==
  ASSUME Inv, PowerCut
  PROVE  [Promise!Next]_(Promise!store)
<1>1. Inv'
  BY PowerCutKeeps
<1>2. \A d \in Docs : Value'[d] \in Past[d] \union {Value[d]}
  BY PowerCutBrings DEF Value, Past
<1>3. Value' \in [Docs -> Promise!Values]
  BY <1>1 DEF Inv, TypeOK, Stored, Whole, Value, File, Values, Promise!Values
<1>4. Past' = [d \in Docs |-> {}]
  BY DEF PowerCut, Past
<1>5. Doing' = [p \in Procs |-> Promise!Idle]
  BY DEF PowerCut, Doing, Shown, IdleCall, Promise!Idle
<1>6. Promise!PowerCut
  BY <1>2, <1>3, <1>4, <1>5 DEF Promise!PowerCut, Value, Past, Doing
<1> QED
  BY <1>6 DEF Promise!Next

\* The calls that take, fill and sync a staged file, or the lock, do not show.
LEMMA StepsStutter ==
  ASSUME Inv, NEW p \in Procs,
         \/ Acquire(p) \/ Stage(p) \/ Fill(p) \/ Sync(p) \/ Unlock(p)
         \/ Read(p) /\ ~Unreadable(doc[call[p].doc].text)
  PROVE  Stutters
<1>1. UNCHANGED <<doc, older>>
  BY DEF Acquire, Stage, Fill, Sync, Unlock, Read
<1>2. call \in [Procs -> Call]
  BY DEF Inv, TypeOK
<1>3. PICK d : /\ call' = [call EXCEPT ![p] = d]
               /\ d.doc = call[p].doc /\ d.change = call[p].change
               /\ d.verdict = call[p].verdict
               /\ \/ /\ call[p].at \in {"lock", "read", "stage", "fill", "sync"}
                     /\ d.at \in {"read", "stage", "fill", "sync", "rename"}
                  \/ call[p].at = "unlock" /\ d.at = "answer"
  <2>1. call[p] \in Call
    BY <1>2
  <2>2. CASE Acquire(p)
    <3> DEFINE d == [call[p] EXCEPT !.at = "read"]
    <3> WITNESS d
    <3> QED
      BY <2>1, <2>2 DEF Acquire, Go, At, Call
  <2>3. CASE Stage(p)
    <3> DEFINE d == [call[p] EXCEPT
                       !.temp = [text |-> Torn, bytes |-> "buffered"],
                       !.at = "fill"]
    <3> WITNESS d
    <3> QED
      BY <2>1, <2>3 DEF Stage, At, Call
  <2>4. CASE Fill(p)
    <3> DEFINE d == [call[p] EXCEPT
                       !.temp.text = Changed(call[p].seen, call[p].change),
                       !.at = "sync"]
    <3> WITNESS d
    <3> QED
      BY <2>1, <2>4 DEF Fill, At, Call
  <2>5. CASE Sync(p)
    <3> DEFINE d == [call[p] EXCEPT !.temp = Synced(@), !.at = "rename"]
    <3> WITNESS d
    <3> QED
      BY <2>1, <2>5 DEF Sync, At, Call
  <2>6. CASE Unlock(p)
    <3> DEFINE d == [call[p] EXCEPT !.at = "answer"]
    <3> WITNESS d
    <3> QED
      BY <2>1, <2>6 DEF Unlock, Go, At, Call
  <2>7. CASE Read(p) /\ ~Unreadable(doc[call[p].doc].text)
    <3> DEFINE d == [call[p] EXCEPT !.seen = Base(doc[call[p].doc].text),
                                    !.at = "stage"]
    <3> WITNESS d
    <3> QED
      BY <2>1, <2>7 DEF Read, At, Call
  <2> QED
    BY <2>2, <2>3, <2>4, <2>5, <2>6, <2>7
<1>4. Shown(d) = Shown(call[p])
  BY <1>3 DEF Shown, Phase
<1>5. \A q \in Procs : Shown(call'[q]) = Shown(call[q])
  BY <1>2, <1>3, <1>4
<1> QED
  BY <1>1, <1>5 DEF Stutters, Value, Past, Doing

\* A step of a process is a step of the promise.
LEMMA StepPromised ==
  ASSUME Inv, NEW p \in Procs,
         Begins(p) \/ Proceed(p) \/ Fails(p) \/ Kill(p)
  PROVE  [Promise!Next]_(Promise!store)
<1>1. CASE Begins(p)
  BY <1>1, BeginPromised DEF Begins
<1>2. CASE Acquire(p) \/ Stage(p) \/ Fill(p) \/ Sync(p) \/ Unlock(p)
  BY <1>2, StepsStutter, StutterIsAllowed
<1>3. CASE Read(p)
  <2>1. CASE Unreadable(doc[call[p].doc].text)
    BY <1>3, <2>1, RefusePromised DEF Read, At
  <2>2. CASE ~Unreadable(doc[call[p].doc].text)
    BY <1>3, <2>2, StepsStutter, StutterIsAllowed
  <2> QED
    BY <2>1, <2>2
<1>4. CASE LockTimesOut(p)
  BY <1>4, RefusePromised DEF LockTimesOut, At
<1>5. CASE Rename(p)
  BY <1>5, TakePromised
<1>6. CASE Barrier(p)
  BY <1>6, BarrierPromised DEF Barrier
<1>7. CASE Answer(p)
  BY <1>7, GonePromised DEF Answer, Moved
<1>8. CASE Kill(p)
  BY <1>8, GonePromised DEF Kill, Moved
<1>9. CASE Fails(p)
  <2>1. UNCHANGED <<doc, older>>
    BY <1>9 DEF Fails
  <2>2. CASE At(p, "lock") /\ Refuse(p, "answer")
    BY <2>1, <2>2, RefusePromised DEF At
  <2>3. CASE /\ call[p].at \in {"read", "stage", "fill", "sync", "rename"}
             /\ Refuse(p, "unlock")
    BY <2>1, <2>3, RefusePromised
  <2>4. CASE At(p, "barrier") /\ Go(p, "unlock")
    BY <2>1, <2>4, BarrierPromised
  <2> QED
    BY <1>9, <2>2, <2>3, <2>4 DEF Fails
<1> QED
  BY <1>1, <1>2, <1>3, <1>4, <1>5, <1>6, <1>7, <1>8, <1>9
  DEF Proceed, Writing

\* Updates are atomic, for any number of processes: each takes effect at one
\* moment on the value of that moment or not at all, and is answered so.
THEOREM UpdatesAtomic == Spec => KeepsPromise
<1>1. Init => Promise!Init
  BY PromiseInit
<1>2. ASSUME Inv, [Next]_vars
      PROVE  [Promise!Next]_(Promise!store)
  <2>1. CASE UNCHANGED vars
    <3>1. Stutters
      BY <2>1 DEF vars, Stutters, Value, Past, Doing
    <3> QED
      BY <3>1, StutterIsAllowed
  <2>2. CASE PowerCut
    BY <1>2, <2>2, PowerCutPromised
  <2>3. ASSUME NEW p \in Procs, Begins(p) \/ Proceed(p) \/ Fails(p) \/ Kill(p)
        PROVE  [Promise!Next]_(Promise!store)
    BY <1>2, <2>3, StepPromised
  <2> QED
    BY <1>2, <2>1, <2>2, <2>3 DEF Next
<1> QED
  BY <1>1, <1>2, Sound, PTL DEF Spec, KeepsPromise, Promise!Spec
=============================================================================
