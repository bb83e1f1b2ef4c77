----------------------------- MODULE Documents -----------------------------
(***************************************************************************)
(* The keystore's documents (groups.json, accounts.json, the labels) and   *)
(* the lock between processes: Keystore::update of keystore.rs over        *)
(* layout::lock and atomic::write_doc.  An update is a sequence of system  *)
(* calls; any of them may fail, its process may be killed between any two, *)
(* and the machine may lose what was not yet on its disk.                  *)
(*                                                                         *)
(* A document is the set of marks (rows, records, names) it holds.         *)
(***************************************************************************)
EXTENDS Integers

CONSTANTS
  Procs,
  Docs,
  Marks,
  MaxMishaps,   \* kills, failing system calls and power cuts in a behaviour
  Missing,      \* no document at the path
  Torn,         \* a file whose bytes are not all there
  Damaged,      \* a document something else made unreadable
  NoFile,       \* no staged file
  Nobody        \* the lock is free

Values == {Missing, Damaged} \union SUBSET Marks

ASSUME DocumentsAssumption ==
  /\ Docs # {}
  /\ Marks # {}
  /\ MaxMishaps \in Nat
  /\ Nobody \notin Procs
  /\ \A marks \in SUBSET Marks : marks \notin {Missing, Damaged, Torn}
  /\ Missing # Damaged /\ Missing # Torn /\ Damaged # Torn

VARIABLES
  doc,       \* what is at each document's path
  older,     \* what was there since the last barrier, in a power cut's reach
  lock,      \* who holds <ks>/.lock
  call,      \* the update each process is making
  mishaps

vars == <<doc, older, lock, call, mishaps>>

-----------------------------------------------------------------------------
(* Files and updates. *)

\* A file's text, and whether its bytes are on the disk.
File == [text : {Torn} \union Values, bytes : {"buffered", "synced"}]

ASSUME FileAssumption == NoFile \notin File

Changes == [kind : {"put", "drop"}, mark : Marks]

\* What a document holds: one that is not there is the default one.
Base(text) == IF text \in {Missing, Torn, Damaged} THEN {} ELSE text

Changed(text, change) ==
  IF change.kind = "put" THEN text \union {change.mark}
                         ELSE text \ {change.mark}

Steps == {"idle", "lock", "read", "stage", "fill", "sync", "rename",
          "barrier", "unlock", "answer"}

Call ==
  [doc : Docs, change : Changes, at : Steps,
   seen : SUBSET Marks,          \* the document as this update read it
   temp : File \union {NoFile},  \* its staged file
   verdict : {"none", "ok", "refused"},
   since : 0 .. MaxMishaps]      \* history: mishaps before the update

IdleCall ==
  [doc |-> CHOOSE d \in Docs : TRUE, change |-> CHOOSE c \in Changes : TRUE,
   at |-> "idle", seen |-> {}, temp |-> NoFile,
   verdict |-> "none", since |-> 0]

At(p, step) == call[p].at = step
Go(p, step) == call' = [call EXCEPT ![p].at = step]

\* The guards go on every way out: the staged file first, then the lock.
Refuse(p, step) ==
  call' = [call EXCEPT ![p].at = step, ![p].verdict = "refused",
                          ![p].temp = NoFile]

Mishap ==
  /\ mishaps < MaxMishaps
  /\ mishaps' = mishaps + 1

Init ==
  /\ doc \in [Docs -> [text : Values, bytes : {"synced"}]]
  /\ older = [d \in Docs |-> {}]
  /\ lock = Nobody
  /\ call = [p \in Procs |-> IdleCall]
  /\ mishaps = 0

-----------------------------------------------------------------------------
(* Keystore::update. *)

Begin(p, d, change) ==
  /\ At(p, "idle")
  /\ call' = [call EXCEPT ![p] = [IdleCall EXCEPT
                !.doc = d, !.change = change, !.at = "lock",
                !.since = mishaps]]
  /\ UNCHANGED <<doc, older, lock, mishaps>>

\* Mutant: the guard is dropped where it is made (let _ = self.lock()).
DroppedGuard(p) == Nobody

Guard(p) == p

\* Mutant: the web build's answer to a lock it cannot have, on every host.
Granted(holder) == TRUE

Free(holder) == holder = Nobody

Acquire(p) ==
  /\ At(p, "lock")
  /\ Free(lock)
  /\ lock' = Guard(p)
  /\ Go(p, "read")
  /\ UNCHANGED <<doc, older, mishaps>>

\* Mutant: a blocking lock.
WaitsForEver(holder) == FALSE

GivesUp(holder) == holder # Nobody

\* try_lock until a second is over.
LockTimesOut(p) ==
  /\ At(p, "lock")
  /\ GivesUp(lock)
  /\ Refuse(p, "answer")
  /\ UNCHANGED <<doc, older, lock, mishaps>>

\* Mutant: what cannot be read counts as nothing configured yet.
NothingYet(text) == FALSE

Unreadable(text) == text \in {Torn, Damaged}

Read(p) ==
  LET text == doc[call[p].doc].text
  IN  /\ At(p, "read")
      /\ IF Unreadable(text)
           THEN Refuse(p, "unlock")
           ELSE call' = [call EXCEPT ![p].seen = Base(text), ![p].at = "stage"]
      /\ UNCHANGED <<doc, older, lock, mishaps>>

-----------------------------------------------------------------------------
(* write_doc: a file of its own, filled, synced, renamed, committed. *)

Stage(p) ==
  /\ At(p, "stage")
  /\ call' = [call EXCEPT ![p].temp = [text |-> Torn, bytes |-> "buffered"],
                          ![p].at = "fill"]
  /\ UNCHANGED <<doc, older, lock, mishaps>>

Fill(p) ==
  LET c == call[p]
  IN  /\ At(p, "fill")
      /\ call' = [call EXCEPT ![p].temp.text = Changed(c.seen, c.change),
                              ![p].at = "sync"]
      /\ UNCHANGED <<doc, older, lock, mishaps>>

\* Mutant: the bytes are left to the system to write.
Buffered(f) == f

Synced(f) == [f EXCEPT !.bytes = "synced"]

Sync(p) ==
  /\ At(p, "sync")
  /\ call' = [call EXCEPT ![p].temp = Synced(@), ![p].at = "rename"]
  /\ UNCHANGED <<doc, older, lock, mishaps>>

Rename(p) ==
  LET d == call[p].doc
  IN  /\ At(p, "rename")
      /\ doc' = [doc EXCEPT ![d] = call[p].temp]
      /\ older' = [older EXCEPT ![d] = @ \union {doc[d]}]
      /\ call' = [call EXCEPT ![p].temp = NoFile, ![p].verdict = "ok",
                              ![p].at = "barrier"]
      /\ UNCHANGED <<lock, mishaps>>

\* Mutant: the file is synced again, and not its directory.
FileOnly(reach) == reach

Committed(reach) == [d \in Docs |-> {}]

Barrier(p) ==
  /\ At(p, "barrier")
  /\ older' = Committed(older)
  /\ Go(p, "unlock")
  /\ UNCHANGED <<doc, lock, mishaps>>

Unlock(p) ==
  /\ At(p, "unlock")
  /\ lock' = IF lock = p THEN Nobody ELSE lock
  /\ Go(p, "answer")
  /\ UNCHANGED <<doc, older, mishaps>>

Answer(p) ==
  /\ At(p, "answer")
  /\ call' = [call EXCEPT ![p] = IdleCall]
  /\ UNCHANGED <<doc, older, lock, mishaps>>

-----------------------------------------------------------------------------
(* What may go wrong. *)

\* A system call fails: the update is refused, except that a failing barrier
\* is ignored.
Fails(p) ==
  /\ Mishap
  /\ \/ /\ At(p, "lock")
        /\ Refuse(p, "answer")
     \/ /\ call[p].at \in {"read", "stage", "fill", "sync", "rename"}
        /\ Refuse(p, "unlock")
     \/ /\ At(p, "barrier")
        /\ Go(p, "unlock")
  /\ UNCHANGED <<doc, older, lock>>

\* The process dies: the system releases its lock.  A staged file stays, under
\* a random name that no update meets again.
Kill(p) ==
  /\ ~At(p, "idle")
  /\ Mishap
  /\ call' = [call EXCEPT ![p] = IdleCall]
  /\ lock' = IF lock = p THEN Nobody ELSE lock
  /\ UNCHANGED <<doc, older>>

\* A file the machine comes back with: half of it, if it was not synced.
Recovered(f) ==
  IF f.bytes = "synced" THEN {f} ELSE {f, [f EXCEPT !.text = Torn]}

\* The machine stops, or the page that holds the image is loaded again.
PowerCut ==
  /\ Mishap
  /\ \E back \in [Docs -> UNION {older[d] \union {doc[d]} : d \in Docs}] :
       /\ \A d \in Docs : back[d] \in older[d] \union {doc[d]}
       /\ doc' \in [Docs -> UNION {Recovered(back[d]) : d \in Docs}]
       /\ \A d \in Docs : doc'[d] \in Recovered(back[d])
  /\ older' = [d \in Docs |-> {}]
  /\ lock' = Nobody
  /\ call' = [p \in Procs |-> IdleCall]

-----------------------------------------------------------------------------
Writing(p) ==
  Stage(p) \/ Fill(p) \/ Sync(p) \/ Rename(p) \/ Barrier(p)

Proceed(p) ==
  \/ Acquire(p) \/ LockTimesOut(p) \/ Read(p) \/ Writing(p)
  \/ Unlock(p) \/ Answer(p)

Begins(p) == \E d \in Docs, change \in Changes : Begin(p, d, change)

Next ==
  \/ \E p \in Procs : Begins(p) \/ Proceed(p) \/ Fails(p) \/ Kill(p)
  \/ PowerCut

Spec == Init /\ [][Next]_vars

\* A process that took a call runs it: the lock is polled until a deadline.
FairSpec == Spec /\ \A p \in Procs : WF_vars(Proceed(p))

-----------------------------------------------------------------------------
(* Properties. *)

TypeOK ==
  /\ doc \in [Docs -> File]
  /\ older \in [Docs -> SUBSET File]
  /\ lock \in Procs \union {Nobody}
  /\ call \in [Procs -> Call]
  /\ mishaps \in 0 .. MaxMishaps

Critical == {"read", "stage", "fill", "sync", "rename", "barrier", "unlock"}

\* Two processes are never both between reading a document and replacing it
\* (Keystore::update holds the guard over both).
Exclusive ==
  \A p, q \in Procs :
    call[p].at \in Critical /\ call[q].at \in Critical => p = q

\* No document is ever half written, not even after a power cut: the bytes
\* are down before the rename that publishes them (write_doc).
WholeDocuments == \A d \in Docs : doc[d].text # Torn

\* An update that is about to let go of the lock, with nothing having gone
\* wrong since it began, is beyond the reach of a power cut (barrier).
AcceptedIsCommitted ==
  \A p \in Procs :
    At(p, "unlock") /\ call[p].verdict = "ok" /\ call[p].since = mishaps
      => older[call[p].doc] = {}

\* A document nobody can read stays as it is, for whoever can repair it
\* (read_json refuses what is present and unreadable).
DamagedIsKept ==
  [][\A d \in Docs : doc[d].text = Damaged => doc'[d].text = Damaged]_vars

\* Every update ends, also while others keep taking the lock.
UpdatesEnd == \A p \in Procs : ~At(p, "idle") ~> At(p, "idle")

\* Updates are atomic: each takes effect at one moment on the value of that
\* moment, whatever the processes do between its read and its rename.
Phase(c) ==
  CASE c.at = "idle" -> "idle"
    [] c.at \in {"unlock", "answer"} -> c.verdict
    [] c.at = "barrier" -> "took"
    [] OTHER -> "begun"

Shown(c) ==
  IF c.at = "idle"
    THEN [doc |-> "none", change |-> "none", phase |-> "idle"]
    ELSE [doc |-> c.doc, change |-> c.change, phase |-> Phase(c)]

Promise == INSTANCE DocumentPromise WITH
  value <- [d \in Docs |-> doc[d].text],
  past <- [d \in Docs |-> {f.text : f \in older[d]}],
  doing <- [p \in Procs |-> Shown(call[p])]

KeepsPromise == Promise!Spec
=============================================================================
