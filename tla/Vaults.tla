------------------------------- MODULE Vaults -------------------------------
(***************************************************************************)
(* Account vaults on disk (rust-lib/src/keystore.rs over atomic.rs and     *)
(* layout.rs), as the Tier D methods of glue.rs call them.  Every process  *)
(* that opened the directory runs one call at a time; a call is a sequence *)
(* of steps on the shared directory, and a kill or a failing system call   *)
(* may fall between any two of them.                                       *)
(*                                                                         *)
(* An address has one key, so a vault is told by the password it opens     *)
(* under.  A file knows which processes have it open for writing: a rename *)
(* moves the file a writer is still filling.                               *)
(***************************************************************************)
EXTENDS Integers, FiniteSets

CONSTANTS
  Procs,        \* the processes sharing one keystore directory
  Addresses,
  Passwords,
  Nonces,       \* names of import scratch directories
  Ops,          \* the methods the processes call
  MaxMishaps,   \* kills and failing system calls in a behaviour
  NoFile,       \* nothing at the path
  NoStage,      \* no staging directory
  Torn,         \* content that is not a complete keystore document
  Absent,       \* the outcome of a delete
  Nobody        \* the lock is free

AllOps == {"sign", "rekey", "delete", "import", "json", "list"}

ASSUME VaultsAssumption ==
  /\ Ops \subseteq AllOps
  /\ Addresses # {} /\ IsFiniteSet(Addresses)
  /\ Passwords # {}
  /\ MaxMishaps \in Nat
  /\ Nobody \notin Procs
  /\ Torn \notin Passwords
  /\ Absent \notin Passwords \union {Torn}

VARIABLES
  vault,      \* <ks>/<addr>.json
  stage,      \* <ks>/.stage-<addr>/, with the file inside it
  scratch,    \* the <ks>/.stage-import-<nonce>/ directories
  rows,       \* the addresses accounts.json explains
  lock,       \* who holds <ks>/.lock
  call,       \* what each process is doing
  mishaps,
  told,       \* history: the outcomes callers may count on, per address
  cut,        \* history: passwords of killed writes a leftover may restore
  troubled    \* history: addresses whose row and vault were last left apart

vars == <<vault, stage, scratch, rows, lock, call, mishaps,
          told, cut, troubled>>

disk == <<vault, stage, scratch, rows>>
history == <<told, cut, troubled>>

-----------------------------------------------------------------------------
(* Files. *)

File == [content : Passwords \union {Torn}, by : SUBSET Procs]

ASSUME FileAssumption ==
  /\ NoFile \notin File
  /\ NoStage \notin File \union {NoFile}

IsFile(f) == f \notin {NoFile, NoStage}

\* What a file is after p's open handle on it, if any, is used or closed.
Written(f, p, new) ==
  IF IsFile(f) /\ p \in f.by
    THEN [content |-> new, by |-> f.by \ {p}] ELSE f

Closed(f, p) ==
  IF IsFile(f) THEN [f EXCEPT !.by = @ \ {p}] ELSE f

\* File::create: the directory entry a peer already made is truncated.
Created(f, p) ==
  [content |-> Torn, by |-> {p} \union (IF IsFile(f) THEN f.by ELSE {})]

\* Mutant: a staged file is promoted without reading it.
AnyFile(f) == IsFile(f)

\* check_kdf_params parses the document: half of one is refused.
Openable(f) == IsFile(f) /\ f.content # Torn

Live(a) == IF IsFile(vault[a]) THEN vault[a].content ELSE Absent

\* With the stage gone, a leftover counts only if it was restored before.
Unstaged(a) == [cut EXCEPT ![a] = @ \intersect {Live(a)}]

-----------------------------------------------------------------------------
(* Calls. *)

Writes == {"rekey", "import", "json"}

Steps ==
  {"idle", "locate", "open", "decrypt", "scratch", "unwrap", "toss",
   "stage", "create", "write", "promote", "drop", "record", "remove",
   "retire", "scan", "lock", "sweep", "check", "rename", "clear", "answer"}

Call ==
  [op : AllOps, addr : Addresses,
   given : Passwords,           \* the password presented
   new : Passwords,             \* the password a write encrypts under
   at : Steps,
   ok : BOOLEAN,                \* the result a cleanup or an answer carries
   tried : BOOLEAN,             \* use_vault has settled once
   back : {"locate", "open", "answer"},  \* where settle returns to
   todo : SUBSET Addresses,     \* staging directories settle's scan named
   junk : SUBSET Nonces,        \* scratch directories settle's scan named
   item : Addresses,            \* the directory settle is at
   mine : SUBSET Nonces,        \* this import's scratch directory
   since : 0 .. MaxMishaps,     \* history: mishaps before the call
   over : SUBSET (Passwords \union {Absent})]  \* history: overlapping outcomes

Anyone == CHOOSE a \in Addresses : TRUE
Anything == CHOOSE w \in Passwords : TRUE

IdleCall ==
  [op |-> "list", addr |-> Anyone, given |-> Anything, new |-> Anything,
   at |-> "idle", ok |-> FALSE, tried |-> FALSE, back |-> "answer",
   todo |-> {}, junk |-> {}, item |-> Anyone,
   mine |-> {}, since |-> 0, over |-> {}]

At(p, step) == call[p].at = step
Busy(p) == call[p].at # "idle"

\* The state of the account a successful call leaves behind.
Outcome(op, new) ==
  IF op \in Writes THEN {new} ELSE IF op = "delete" THEN {Absent} ELSE {}

Go(p, step) == call' = [call EXCEPT ![p].at = step]

GoWith(p, step, ok) ==
  call' = [call EXCEPT ![p].at = step, ![p].ok = ok]

Fail(p) == GoWith(p, "answer", FALSE)

\* emit_accounts_changed(account_count()): the listing settles first.
Announce(p) ==
  call' = [call EXCEPT ![p].at = "scan", ![p].back = "answer", ![p].ok = TRUE]

Mishap ==
  /\ mishaps < MaxMishaps
  /\ mishaps' = mishaps + 1

-----------------------------------------------------------------------------
Init ==
  /\ vault = [a \in Addresses |-> NoFile]
  /\ stage = [a \in Addresses |-> NoStage]
  /\ scratch = {}
  /\ rows = {}
  /\ lock = Nobody
  /\ call = [p \in Procs |-> IdleCall]
  /\ mishaps = 0
  /\ told = [a \in Addresses |-> {Absent}]
  /\ cut = [a \in Addresses |-> {}]
  /\ troubled = {}

FirstStep(op) ==
  CASE op = "delete" -> "locate"
    [] op \in {"sign", "rekey"} -> "open"
    [] op = "import" -> "stage"
    [] op = "json" -> "scratch"
    [] op = "list" -> "scan"

\* Fields an operation has no use for keep their idle value.
Begin(p, op, a, given, new) ==
  /\ ~Busy(p)
  /\ op \in {"sign", "rekey", "delete"} \/ given = Anything
  /\ op \in Writes \/ new = Anything
  /\ op # "list" \/ a = Anyone
  /\ call' =
       [q \in Procs |->
         IF q = p
           THEN [IdleCall EXCEPT
                   !.op = op, !.addr = a, !.given = given, !.new = new,
                   !.at = FirstStep(op), !.ok = (op = "list"),
                   !.since = mishaps,
                   !.over = UNION {Outcome(call[r].op, call[r].new) :
                                     r \in {r \in Procs : Busy(r)
                                              /\ call[r].addr = a}}]
         ELSE IF Busy(q) /\ call[q].addr = a
           THEN [call[q] EXCEPT !.over = @ \union Outcome(op, new)]
         ELSE call[q]]
  /\ told' = [told EXCEPT ![a] = @ \union Outcome(op, new)]
  /\ UNCHANGED <<disk, lock, mishaps, cut, troubled>>

-----------------------------------------------------------------------------
(* signer_for: find the vault, settling once, then decrypt it. *)

Find(p) ==
  /\ At(p, "locate") \/ At(p, "open")
  /\ IsFile(vault[call[p].addr])
  /\ call' = [call EXCEPT ![p].at = IF @ = "locate" THEN "open" ELSE "decrypt",
                          ![p].tried = FALSE]
  /\ UNCHANGED <<disk, lock, mishaps, history>>

\* Mutant: settle for as long as the vault is missing.
SettleAgain(p) == TRUE

SettleFirst(p) == ~call[p].tried

Miss(p) ==
  /\ At(p, "locate") \/ At(p, "open")
  /\ ~IsFile(vault[call[p].addr])
  /\ IF SettleFirst(p)
       THEN call' = [call EXCEPT ![p].at = "scan", ![p].back = call[p].at,
                                 ![p].tried = TRUE]
       ELSE Fail(p)
  /\ UNCHANGED <<disk, lock, mishaps, history>>

Opens(f, password) == IsFile(f) /\ f.content = password

Decrypt(p) ==
  /\ At(p, "decrypt")
  /\ IF Opens(vault[call[p].addr], call[p].given)
       THEN CASE call[p].op = "sign" -> GoWith(p, "answer", TRUE)
              [] call[p].op = "rekey" -> Go(p, "stage")
              [] call[p].op = "delete" -> Go(p, "remove")
       ELSE Fail(p)
  /\ UNCHANGED <<disk, lock, mishaps, history>>

-----------------------------------------------------------------------------
(* import_keystore_json: the caller's document, on disk and opened. *)

\* A name no scan has seen stands for a random one.
Scratch(p) ==
  /\ At(p, "scratch")
  /\ \E n \in Nonces \ (scratch \union UNION {call[q].junk : q \in Procs}) :
       /\ scratch' = scratch \union {n}
       /\ call' = [call EXCEPT ![p].mine = {n}, ![p].at = "unwrap"]
  /\ UNCHANGED <<vault, stage, rows, lock, mishaps, history>>

Unwrap(p) ==
  /\ At(p, "unwrap")
  /\ \E right \in BOOLEAN :
       GoWith(p, "toss", right /\ call[p].mine \subseteq scratch)
  /\ UNCHANGED <<disk, lock, mishaps, history>>

Tossed(p) ==
  [call EXCEPT ![p].mine = {}, ![p].ok = FALSE,
               ![p].at = IF call[p].ok THEN "stage" ELSE "answer"]

Toss(p) ==
  /\ At(p, "toss")
  /\ scratch' = scratch \ call[p].mine
  /\ call' = Tossed(p)
  /\ UNCHANGED <<vault, stage, rows, lock, mishaps, history>>

-----------------------------------------------------------------------------
(* write_vault: encrypt into a stage, rename out of it, drop the stage. *)

MakeStage(p) ==
  /\ At(p, "stage")
  /\ stage' = [stage EXCEPT ![call[p].addr] = NoFile]
  /\ cut' = Unstaged(call[p].addr)
  /\ Go(p, "create")
  /\ UNCHANGED <<vault, scratch, rows, lock, mishaps, told, troubled>>

Create(p) ==
  LET a == call[p].addr
  IN  /\ At(p, "create")
      /\ IF stage[a] # NoStage
           THEN /\ stage' = [stage EXCEPT ![a] = Created(@, p)]
                /\ Go(p, "write")
           ELSE /\ GoWith(p, "drop", FALSE)
                /\ UNCHANGED stage
      /\ UNCHANGED <<vault, scratch, rows, lock, mishaps, history>>

Write(p) ==
  LET a == call[p].addr
  IN  /\ At(p, "write")
      /\ vault' = [vault EXCEPT ![a] = Written(@, p, call[p].new)]
      /\ stage' = [stage EXCEPT ![a] = Written(@, p, call[p].new)]
      /\ Go(p, "promote")
      /\ UNCHANGED <<scratch, rows, lock, mishaps, history>>

\* Mutant: a staged file that is gone is no error.
Landed(f) == TRUE

Promotable(f) == IsFile(f)

Movable(f) == IsFile(f)

Promote(p) ==
  LET a == call[p].addr
  IN  /\ At(p, "promote")
      /\ IF Movable(stage[a])
           THEN /\ vault' = [vault EXCEPT ![a] = stage[a]]
                /\ stage' = [stage EXCEPT ![a] = NoFile]
           ELSE UNCHANGED <<vault, stage>>
      /\ GoWith(p, "drop", Promotable(stage[a]))
      /\ UNCHANGED <<scratch, rows, lock, mishaps, history>>

\* Mutant: the guard clears up after a success only.
LeftBehind(s, ok) == IF ok THEN NoStage ELSE s

\* Mutant: a rename is taken to leave nothing to clear.
EmptiedByRename(s, ok) == IF ok THEN s ELSE NoStage

Dropped(s, ok) == NoStage

Drop(p) ==
  /\ At(p, "drop")
  /\ stage' = [stage EXCEPT ![call[p].addr] = Dropped(@, call[p].ok)]
  /\ Go(p, IF call[p].ok /\ call[p].op # "rekey" THEN "record" ELSE "answer")
  /\ UNCHANGED <<vault, scratch, rows, lock, mishaps, history>>

-----------------------------------------------------------------------------
(* The row in accounts.json, and delete_account. *)

\* One read-modify-write under the lock; refused while a peer keeps it.
Record(p) ==
  /\ At(p, "record")
  /\ \/ /\ lock = Nobody
        /\ rows' = rows \union {call[p].addr}
        /\ Announce(p)
        /\ UNCHANGED troubled
     \/ /\ lock # Nobody
        /\ troubled' = troubled \union {call[p].addr}
        /\ Fail(p)
        /\ UNCHANGED rows
  /\ UNCHANGED <<vault, stage, scratch, lock, mishaps, told, cut>>

Remove(p) ==
  /\ At(p, "remove")
  /\ vault' = [vault EXCEPT ![call[p].addr] = NoFile]
  /\ Go(p, "retire")
  /\ UNCHANGED <<stage, scratch, rows, lock, mishaps, history>>

\* Mutant: the row outlives the vault.
KeptRow(rs, a) == rs

Retired(rs, a) == rs \ {a}

Retire(p) ==
  /\ At(p, "retire")
  /\ \/ /\ lock = Nobody
        /\ rows' = Retired(rows, call[p].addr)
        /\ Announce(p)
        /\ UNCHANGED troubled
     \/ /\ lock # Nobody
        /\ troubled' = troubled \union {call[p].addr}
        /\ Fail(p)
        /\ UNCHANGED rows
  /\ UNCHANGED <<vault, stage, scratch, lock, mishaps, told, cut>>

-----------------------------------------------------------------------------
(* settle: promote or reap what interrupted writes left. *)

Resume(p) == Go(p, call[p].back)

\* Mutant: leftover stages are looked at only beside leftover scratch.
EitherEmpty(stages, scratches) == stages = {} \/ scratches = {}

NothingLeft(stages, scratches) == stages = {} /\ scratches = {}

SettleScan(p) ==
  LET stages == {a \in Addresses : stage[a] # NoStage}
  IN  /\ At(p, "scan")
      /\ IF NothingLeft(stages, scratch)
           THEN Resume(p)
           ELSE call' = [call EXCEPT ![p].todo = stages, ![p].junk = scratch,
                                     ![p].at = "lock"]
      /\ UNCHANGED <<disk, lock, mishaps, history>>

Skipped(p) ==
  call' = [call EXCEPT ![p].at = call[p].back, ![p].todo = {}, ![p].junk = {}]

SettleLock(p) ==
  /\ At(p, "lock")
  /\ \/ /\ lock = Nobody
        /\ lock' = p
        /\ Go(p, "sweep")
     \/ /\ lock # Nobody
        /\ Skipped(p)
        /\ UNCHANGED lock
  /\ UNCHANGED <<disk, mishaps, history>>

Swept(p) == call' = [call EXCEPT ![p].junk = {}, ![p].at = "check"]

SettleSweep(p) ==
  /\ At(p, "sweep")
  /\ scratch' = scratch \ call[p].junk
  /\ Swept(p)
  /\ UNCHANGED <<vault, stage, rows, lock, mishaps, history>>

\* Mutant: a leftover is promoted over the vault it was to replace.
RepairsAlways(a) == Openable(stage[a])

Repairs(a) == ~IsFile(vault[a]) /\ Openable(stage[a])

SettleCheck(p) ==
  /\ At(p, "check")
  /\ \E a \in call[p].todo :
       call' = [call EXCEPT ![p].item = a,
                            ![p].at = IF Repairs(a) THEN "rename" ELSE "clear"]
  /\ UNCHANGED <<disk, lock, mishaps, history>>

SettleRename(p) ==
  LET a == call[p].item
  IN  /\ At(p, "rename")
      /\ IF IsFile(stage[a])
           THEN /\ vault' = [vault EXCEPT ![a] = stage[a]]
                /\ stage' = [stage EXCEPT ![a] = NoFile]
           ELSE UNCHANGED <<vault, stage>>
      /\ Go(p, "clear")
      /\ UNCHANGED <<scratch, rows, lock, mishaps, history>>

NextItem(p) ==
  call' = [call EXCEPT ![p].todo = @ \ {call[p].item}, ![p].item = Anyone,
                       ![p].at = "check"]

\* The directory goes whether or not what it held was promoted.
SettleClear(p) ==
  LET a == call[p].item
  IN  /\ At(p, "clear")
      /\ stage' = [stage EXCEPT ![a] = NoStage]
      /\ cut' = Unstaged(a)
      /\ NextItem(p)
      /\ UNCHANGED <<vault, scratch, rows, lock, mishaps, told, troubled>>

SettleDone(p) ==
  /\ At(p, "check")
  /\ call[p].todo = {}
  /\ lock' = Nobody
  /\ Resume(p)
  /\ UNCHANGED <<disk, mishaps, history>>

-----------------------------------------------------------------------------
(* The answer, and what may cut a call short. *)

Answer(p) ==
  LET c == call[p]
      outcome == Outcome(c.op, c.new)
  IN  /\ At(p, "answer")
      /\ call' = [call EXCEPT ![p] = IdleCall]
      /\ told' = IF c.ok /\ outcome # {}
                   THEN [told EXCEPT ![c.addr] = outcome \union c.over]
                   ELSE told
      /\ troubled' = IF c.ok /\ c.op \in {"import", "json"}
                       THEN troubled \ {c.addr} ELSE troubled
      /\ UNCHANGED <<disk, lock, mishaps, cut>>

\* The process dies; the system closes its files and releases its lock.
Kill(p) ==
  LET c == call[p]
  IN  /\ Busy(p)
      /\ Mishap
      /\ call' = [call EXCEPT ![p] = IdleCall]
      /\ lock' = IF lock = p THEN Nobody ELSE lock
      /\ vault' = [a \in Addresses |-> Closed(vault[a], p)]
      /\ stage' = [a \in Addresses |-> Closed(stage[a], p)]
      /\ cut' = IF c.op \in Writes
                  THEN [cut EXCEPT ![c.addr] = @ \union {c.new}] ELSE cut
      /\ troubled' = IF Outcome(c.op, c.new) # {}
                       THEN troubled \union {c.addr} ELSE troubled
      /\ UNCHANGED <<scratch, rows, told>>

\* A system call of a write fails: the stage drops and the call is refused.
WriteFails(p) ==
  LET a == call[p].addr
  IN  /\ Mishap
      /\ \/ /\ At(p, "scratch")
            /\ Fail(p)
            /\ UNCHANGED <<vault, stage, cut>>
         \/ /\ At(p, "stage")   \* the old stage is gone, the new one is not made
            /\ stage' = [stage EXCEPT ![a] = NoStage]
            /\ cut' = Unstaged(a)
            /\ Fail(p)
            /\ UNCHANGED vault
         \/ /\ At(p, "create") \/ At(p, "write") \/ At(p, "promote")
            /\ vault' = [vault EXCEPT ![a] = Closed(@, p)]
            /\ stage' = [stage EXCEPT ![a] = Closed(@, p)]
            /\ GoWith(p, "drop", FALSE)
            /\ UNCHANGED cut
      /\ UNCHANGED <<scratch, rows, lock, told, troubled>>

\* Bookkeeping or removal fails: the call is refused where it stands.
BookFails(p) ==
  /\ Mishap
  /\ At(p, "record") \/ At(p, "remove") \/ At(p, "retire")
  /\ troubled' = IF At(p, "remove") THEN troubled
                                    ELSE troubled \union {call[p].addr}
  /\ Fail(p)
  /\ UNCHANGED <<disk, lock, told, cut>>

\* Removing a directory fails and is ignored: it stays as a leftover.
CleanupFails(p) ==
  LET c == call[p]
  IN  /\ Mishap
      /\ \/ /\ At(p, "toss")
            /\ call' = Tossed(p)
            /\ UNCHANGED <<cut, troubled>>
         \/ /\ At(p, "drop")
            /\ Go(p, IF c.ok /\ c.op # "rekey" THEN "record" ELSE "answer")
            /\ cut' = [cut EXCEPT ![c.addr] = @ \union {c.new}]
            /\ troubled' = troubled \union {c.addr}
      /\ UNCHANGED <<disk, lock, told>>

\* A repair fails: settle goes on with the next thing.
RepairFails(p) ==
  /\ Mishap
  /\ \/ At(p, "lock") /\ Skipped(p)
     \/ At(p, "sweep") /\ Swept(p)
     \/ At(p, "rename") /\ Go(p, "clear")
     \/ At(p, "clear") /\ NextItem(p)
  /\ UNCHANGED <<disk, lock, history>>

-----------------------------------------------------------------------------
Calls(p) ==
  \E op \in Ops, a \in Addresses, given \in Passwords, new \in Passwords :
    Begin(p, op, a, given, new)

Settling(p) ==
  \/ SettleScan(p) \/ SettleLock(p) \/ SettleSweep(p) \/ SettleCheck(p)
  \/ SettleRename(p) \/ SettleClear(p) \/ SettleDone(p)

Writing(p) ==
  MakeStage(p) \/ Create(p) \/ Write(p) \/ Promote(p) \/ Drop(p)

Proceed(p) ==
  \/ Find(p) \/ Miss(p) \/ Decrypt(p)
  \/ Scratch(p) \/ Unwrap(p) \/ Toss(p)
  \/ Writing(p)
  \/ Record(p) \/ Remove(p) \/ Retire(p)
  \/ Settling(p)
  \/ Answer(p)

Fails(p) ==
  WriteFails(p) \/ BookFails(p) \/ CleanupFails(p) \/ RepairFails(p) \/ Kill(p)

Next == \E p \in Procs : Calls(p) \/ Proceed(p) \/ Fails(p)

Spec == Init /\ [][Next]_vars

-----------------------------------------------------------------------------
(* Properties. *)

TypeOK ==
  /\ vault \in [Addresses -> File \union {NoFile}]
  /\ stage \in [Addresses -> File \union {NoFile, NoStage}]
  /\ scratch \subseteq Nonces
  /\ rows \subseteq Addresses
  /\ lock \in Procs \union {Nobody}
  /\ call \in [Procs -> Call]
  /\ mishaps \in 0 .. MaxMishaps
  /\ told \in [Addresses -> SUBSET (Passwords \union {Absent})]
  /\ cut \in [Addresses -> SUBSET Passwords]
  /\ troubled \subseteq Addresses

Quiet == \A p \in Procs : ~Busy(p)

\* What stands at a vault's path is a complete vault at every moment, through
\* kills and failures: a write is published by a rename (write_vault) and
\* settle publishes only what it could read (openable).  One process.
WholeVaults == \A a \in Addresses : Live(a) # Torn

\* With no call running, an account stands as the last call answered ok left
\* it, as one that overlapped it or was refused or killed since left it, or
\* as a killed write would have: nothing older comes back.
QuietTold ==
  Quiet => \A a \in Addresses : Live(a) \in told[a] \union cut[a]

\* accounts.json explains exactly the vaults there are, except where a call on
\* the address was cut between its vault and its row.  One process.
RowsFollow ==
  Quiet =>
    \A a \in Addresses \ troubled : IsFile(vault[a]) <=> a \in rows

\* A listing, or a call that announces its change, that nothing went wrong
\* in leaves no leftover behind (settle runs before the answer).  One process.
SettleCleans ==
  \A p \in Procs :
    At(p, "answer") /\ call[p].back = "answer" /\ call[p].ok
    /\ call[p].op \in {"list", "import", "json", "delete"}
    /\ call[p].since = mishaps
      => scratch = {} /\ \A a \in Addresses : stage[a] = NoStage

\* Processes that nothing cuts short leave no stage, no scratch and no lock
\* behind, whatever they did to one another's directories meanwhile.
QuietClean ==
  Quiet /\ mishaps = 0 =>
    /\ lock = Nobody
    /\ scratch = {}
    /\ \A a \in Addresses : stage[a] = NoStage

\* At most how many steps settle takes, and how many a call takes from a step
\* on, when it settles no more than it has to.
SettleLength == 3 * Cardinality(Addresses) + 4

LengthFrom(at) ==
  CASE at = "answer"               -> 1
    [] at \in {"record", "retire"} -> SettleLength + 2
    [] at \in {"drop", "remove"}   -> SettleLength + 3
    [] at = "promote"              -> SettleLength + 4
    [] at = "write"                -> SettleLength + 5
    [] at = "create"               -> SettleLength + 6
    [] at = "stage"                -> SettleLength + 7
    [] at \in {"toss", "decrypt"}  -> SettleLength + 8
    [] at \in {"unwrap", "open"}   -> SettleLength + 9
    [] at = "scratch"              -> SettleLength + 10
    [] at = "locate"               -> 2 * SettleLength + 11

LeftToSettle(c) ==
  CASE c.at = "scan"   -> SettleLength
    [] c.at = "lock"   -> 3 * Cardinality(c.todo) + 3
    [] c.at = "sweep"  -> 3 * Cardinality(c.todo) + 2
    [] c.at = "check"  -> 3 * Cardinality(c.todo) + 1
    [] c.at = "rename" -> 3 * Cardinality(c.todo)
    [] c.at = "clear"  -> 3 * Cardinality(c.todo) - 1

Settles(c) == c.at \in {"scan", "lock", "sweep", "check", "rename", "clear"}

StepsLeft(c) ==
  IF c.at = "idle" THEN 0
  ELSE IF Settles(c) THEN LengthFrom(c.back) + LeftToSettle(c)
  ELSE IF c.at \in {"locate", "open"} /\ ~c.tried
    THEN LengthFrom(c.at) + SettleLength + 1
    ELSE LengthFrom(c.at)

\* The call but for the history a peer's call writes into it.
Apart(c) == [c EXCEPT !.over = {}]

Stepped(p) == Busy(p) /\ Apart(call'[p]) # Apart(call[p])

\* A step of a call leaves it fewer steps to take: a missing vault is settled
\* for once, and what the scan named is gone through once.
NearsItsAnswer(p) == Stepped(p) => StepsLeft(call'[p]) < StepsLeft(call[p])

\* Every call ends, also beside a peer that keeps taking the lock: it is never
\* stuck while the peer moves, as the lock is waited for one second and then
\* refused, and however the peer changed what it works on, each step of its own
\* brings it nearer to its answer.
CallsEnd ==
  [][\A p \in Procs :
       NearsItsAnswer(p) /\ (Busy(p) => Stepped(p) \/ ENABLED Proceed(p))]_vars

\* One process keeps what AccountStore promises: a call takes effect at one
\* moment or not at all, a refused password change changes nothing, and a
\* leftover is restored only where there is no account.
Whole(f) == IF Openable(f) THEN f.content ELSE Absent

Took(c) ==
  /\ c.op \in Writes \union {"delete"}
  /\ c.at # "toss"
  /\ c.ok \/ c.at = "retire"

Phase(c) ==
  IF c.at = "answer" THEN IF c.ok THEN "ok" ELSE "refused"
                     ELSE IF Took(c) THEN "took" ELSE "begun"

Shown(c) ==
  IF c.at = "idle"
    THEN [op |-> "none", addr |-> "none", given |-> "none", new |-> "none",
          phase |-> "idle"]
    ELSE [op |-> c.op, addr |-> c.addr, given |-> c.given, new |-> c.new,
          phase |-> Phase(c)]

Promise == INSTANCE AccountStore WITH
  acct <- [a \in Addresses |-> Live(a)],
  draft <- [a \in Addresses |-> Whole(stage[a])],
  doing <- Shown(call[CHOOSE p \in Procs : TRUE])

KeepsPromise == Promise!Spec

\* A delete answered ok, with no call since that could have written the
\* account again, has removed the account.
DeletedStaysDeleted ==
  Quiet => \A a \in Addresses : told[a] = {Absent} => Live(a) = Absent

\* When every process is done or gone, no vault is half written.
NoTornVault == Quiet => \A a \in Addresses : Live(a) # Torn
=============================================================================
