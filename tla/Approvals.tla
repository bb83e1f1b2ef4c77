------------------------------ MODULE Approvals ------------------------------
(***************************************************************************)
(* The approval ledger (rust-lib/src/approval.rs) behind its Tier A and    *)
(* Tier B methods (rust-lib/src/glue.rs): a named module asks for          *)
(* signatures, an approver claims the request for display, a human decides *)
(* and the requester collects with the receipt.  Calls are dispatched one  *)
(* at a time, so each is one action; there is no background thread, so     *)
(* every deadline is applied by the sweep a call runs.                     *)
(*                                                                         *)
(* Time is relative: a record carries how long it has been on offer and    *)
(* how long ago it was stamped settled.  Both stop counting at the first   *)
(* value the code can no longer tell from a larger one.                    *)
(***************************************************************************)
EXTENDS Gate, Integers, FiniteSets

CONSTANTS
  TierACallers,     \* the callers that try an approver's methods
  TierBCallers,     \* the callers that try a requester's methods
  Handles,          \* the tokens request may mint
  Bundles,          \* commitments: one for each signable content
  NoBundle,
  OfferTTL,         \* ABANDONED_OFFER_TTL, in ticks
  Retention,        \* SETTLED_RETENTION, in ticks
  RequesterCap,     \* MAX_PENDING_PER_REQUESTER
  TotalCap          \* MAX_PENDING_TOTAL

ASSUME ApprovalsAssumption ==
  /\ TierACallers \subseteq Callers
  /\ TierBCallers \subseteq Callers
  /\ OfferTTL \in Nat
  /\ Retention \in Nat \ {0}
  /\ RequesterCap \in Nat
  /\ TotalCap \in Nat
  /\ NoBundle \notin Bundles

VARIABLES
  records,   \* the ledger
  ready,     \* on_context_ready has set the keystore
  minted,    \* tokens ever handed out: a handle is never minted twice
  receipts,  \* per module, the receipts it was handed and still has
  onScreen,  \* the handle acknowledge last succeeded for
  display    \* per module, the commitment it is showing

vars == <<approvers, custodians, records, ready, minted, receipts,
          onScreen, display>>

ledger == <<records, minted>>
screens == <<onScreen, display>>

-----------------------------------------------------------------------------
(* Records. *)

Outcomes == {"approved", "rejected", "expired_no_ack", "cancelled"}
LiveStates == {"offered", "rendered"}

Unstamped == -1

Record ==
  [state      : {"none"} \union LiveStates \union Outcomes,
   requester  : Names \union {Blank},
   bundle     : Bundles \union {NoBundle},
   age        : 0 .. OfferTTL + 1,
   settledFor : -1 .. Retention,
   signed     : BOOLEAN]

NoRecord ==
  [state |-> "none", requester |-> Blank, bundle |-> NoBundle,
   age |-> 0, settledFor |-> Unstamped, signed |-> FALSE]

Offer(requester, bundle) ==
  [state |-> "offered", requester |-> requester, bundle |-> bundle,
   age |-> 0, settledFor |-> Unstamped, signed |-> FALSE]

Known(r) == r.state # "none"
Live(r) == r.state \in LiveStates
Settled(r) == r.state \in Outcomes

-----------------------------------------------------------------------------
(* The lazy sweep. *)

Smaller(a, b) == IF a < b THEN a ELSE b

Expire(r) ==
  IF r.state = "offered" /\ r.age > OfferTTL
    THEN [r EXCEPT !.state = "expired_no_ack"] ELSE r

\* Mutant: the window starts at the deadline the record missed.
StampAtDeadline(r) ==
  IF Settled(r) /\ r.settledFor = Unstamped
    THEN [r EXCEPT !.settledFor = Smaller(r.age, Retention)] ELSE r

\* Mutant: every sweep starts the window again.
StampAgain(r) == IF Settled(r) THEN [r EXCEPT !.settledFor = 0] ELSE r

\* The window starts at the sweep that first sees the record settled.
Stamp(r) ==
  IF Settled(r) /\ r.settledFor = Unstamped
    THEN [r EXCEPT !.settledFor = 0] ELSE r

\* Mutant: uncollected signatures go when the window ends.
ForgettableSigned(r) == r.settledFor # Unstamped /\ ~(r.settledFor < Retention)

Forgettable(r) ==
  r.settledFor # Unstamped /\ ~r.signed /\ ~(r.settledFor < Retention)

\* Mutant: the sweep forgets outcomes but expires no offer.
SweepSettledOnly(r) == IF Forgettable(Stamp(r)) THEN NoRecord ELSE Stamp(r)

SweepRecord(r) ==
  LET stamped == Stamp(Expire(r))
  IN  IF Forgettable(stamped) THEN NoRecord ELSE stamped

Sweep(rs) == [h \in Handles |-> SweepRecord(rs[h])]

LiveHandles(rs) == {h \in Handles : Live(rs[h])}
LiveHandlesOf(rs, m) == {h \in LiveHandles(rs) : rs[h].requester = m}

\* Mutant: off by one.
AtMostCaps(rs, m) ==
  /\ Cardinality(LiveHandles(rs)) <= TotalCap
  /\ Cardinality(LiveHandlesOf(rs, m)) <= RequesterCap

BelowCaps(rs, m) ==
  /\ Cardinality(LiveHandles(rs)) < TotalCap
  /\ Cardinality(LiveHandlesOf(rs, m)) < RequesterCap

-----------------------------------------------------------------------------
Init ==
  /\ GateInit
  /\ records = [h \in Handles |-> NoRecord]
  /\ ready = FALSE
  /\ minted = {}
  /\ receipts = [m \in Names |-> {}]
  /\ onScreen = {}
  /\ display = [m \in Names |-> NoBundle]

\* What every refused or read-only call still does.
SweepOnly ==
  /\ records' = Sweep(records)
  /\ UNCHANGED <<roles, ready, minted, receipts, screens>>

-----------------------------------------------------------------------------
(* Tier B: any named module. *)

\* The reply may be lost: the request stands and nobody holds its receipt.
RequestApproval(c, bundle, heard) ==
  LET swept == Sweep(records)
  IN  /\ Named(c)
      /\ approvers # {}
      /\ BelowCaps(swept, c.name)
      /\ \E h \in Handles \ minted :
           /\ records' = [swept EXCEPT ![h] = Offer(c.name, bundle)]
           /\ minted' = minted \union {h}
           /\ receipts' = IF heard
                THEN [receipts EXCEPT ![c.name] = @ \union {h}]
                ELSE receipts
      /\ UNCHANGED <<roles, ready, screens>>

\* Over a cap, too long, unparseable, without legs or not displayable.
RequestRefused(c) ==
  /\ Named(c)
  /\ approvers # {}
  /\ SweepOnly

\* approval_status and fetch_result read after the sweep and change nothing
\* else, whether or not the receipt matches.
ReadRequest(c) ==
  /\ Named(c)
  /\ SweepOnly

\* The record a (handle, receipt) pair names: receipts are per request, so a
\* receipt matches the one handle it was minted with.
Authorises(receipt, h) == receipt = h /\ Known(records[h])

AckResult(c, h, receipt) ==
  /\ Named(c)
  /\ receipt \in receipts[c.name]
  /\ Authorises(receipt, h)
  /\ records' = Sweep([records EXCEPT ![h].signed = FALSE])
  /\ UNCHANGED <<roles, ready, minted, receipts, screens>>

\* Mutant: a decision already taken is overwritten.
CancelledAlways(r) == [r EXCEPT !.state = "cancelled", !.signed = FALSE]

Cancelled(r) ==
  IF Settled(r) THEN [r EXCEPT !.signed = FALSE]
                ELSE [r EXCEPT !.state = "cancelled", !.signed = FALSE]

CancelApproval(c, h, receipt) ==
  /\ Named(c)
  /\ receipt \in receipts[c.name]
  /\ Authorises(receipt, h)
  /\ records' = Sweep([records EXCEPT ![h] = Cancelled(@)])
  /\ UNCHANGED <<roles, ready, minted, receipts, screens>>

-----------------------------------------------------------------------------
(* Tier A: a configured approver. *)

Pending(c) ==
  /\ IsApprover(c)
  /\ SweepOnly

\* Mutant: what was rendered before stays rendered.
DemoteNothing(rs, h) == rs

\* Every other rendered record goes back to offered, its age unchanged.
Demote(rs, h) ==
  [g \in Handles |->
     IF rs[g].state = "rendered" /\ g # h
       THEN [rs[g] EXCEPT !.state = "offered"] ELSE rs[g]]

Acknowledge(c, h) ==
  LET swept == Sweep(records)
  IN  /\ IsApprover(c)
      /\ \/ /\ ~Known(swept[h])
            /\ records' = swept
            /\ UNCHANGED screens
         \/ /\ Settled(swept[h])
            /\ records' = Demote(swept, h)
            /\ UNCHANGED screens
         \/ /\ Live(swept[h])
            /\ records' = [Demote(swept, h) EXCEPT ![h].state = "rendered"]
            /\ onScreen' = {h}
            /\ display' = [display EXCEPT ![c.name] = swept[h].bundle]
      /\ UNCHANGED <<roles, ready, minted, receipts>>

\* Mutant: the echoed commitment is not compared.
MayApproveUnread(r, echo) == r.state = "rendered"

MayApprove(r, echo) == r.state = "rendered" /\ echo = r.bundle

Approved(r) == [r EXCEPT !.state = "approved", !.signed = TRUE]

\* opens: the password opens the account's vault and every leg signs.
Approve(c, h, echo, opens) ==
  LET swept == Sweep(records)
  IN  /\ IsApprover(c)
      /\ ready
      /\ records' =
           IF MayApprove(swept[h], echo) /\ opens
             THEN [swept EXCEPT ![h] = Approved(@)]
             ELSE swept
      /\ UNCHANGED <<roles, ready, minted, receipts, screens>>

Reject(c, h) ==
  LET swept == Sweep(records)
  IN  /\ IsApprover(c)
      /\ records' = IF Live(swept[h])
           THEN [swept EXCEPT ![h].state = "rejected"] ELSE swept
      /\ UNCHANGED <<roles, ready, minted, receipts, screens>>

-----------------------------------------------------------------------------
(* The surroundings: time, configuration, the host and crashes. *)

Aged(r) ==
  [r EXCEPT
     !.age = IF Live(r) THEN Smaller(@ + 1, OfferTTL + 1) ELSE @,
     !.settledFor = IF @ = Unstamped THEN @ ELSE Smaller(@ + 1, Retention)]

Tick ==
  /\ records' = [h \in Handles |-> Aged(records[h])]
  /\ UNCHANGED <<roles, ready, minted, receipts, screens>>

Reconfigure(doc) ==
  /\ Configure(doc)
  /\ UNCHANGED <<ledger, ready, receipts, screens>>

ContextReady ==
  /\ ~ready
  /\ ready' = TRUE
  /\ UNCHANGED <<roles, ledger, receipts, screens>>

\* The module's process ends: the ledger was only ever in memory.
Restart ==
  /\ approvers' = {DefaultApprover}
  /\ custodians' = {DefaultCustodian}
  /\ records' = [h \in Handles |-> NoRecord]
  /\ ready' = FALSE
  /\ onScreen' = {}
  /\ UNCHANGED <<minted, receipts, display>>

RequesterRestart(m) ==
  /\ receipts[m] # {}
  /\ receipts' = [receipts EXCEPT ![m] = {}]
  /\ UNCHANGED <<roles, ledger, ready, screens>>

-----------------------------------------------------------------------------
\* An approver echoes the commitment it is showing, for whichever handle it
\* (rightly or wrongly) believes that to be.
Next ==
  \/ \E c \in TierBCallers, b \in Bundles, heard \in BOOLEAN : RequestApproval(c, b, heard)
  \/ \E c \in TierBCallers : RequestRefused(c)
  \/ \E c \in TierBCallers : ReadRequest(c)
  \/ \E c \in TierBCallers, h, receipt \in Handles : AckResult(c, h, receipt)
  \/ \E c \in TierBCallers, h, receipt \in Handles : CancelApproval(c, h, receipt)
  \/ \E c \in TierACallers : Pending(c)
  \/ \E c \in TierACallers, h \in Handles : Acknowledge(c, h)
  \/ \E c \in TierACallers, h \in Handles, opens \in BOOLEAN :
       IsApprover(c) /\ Approve(c, h, display[c.name], opens)
  \/ \E c \in TierACallers, h \in Handles : Reject(c, h)
  \/ Tick
  \/ \E doc \in Documents : Reconfigure(doc)
  \/ ContextReady
  \/ Restart
  \/ \E m \in Names : RequesterRestart(m)

Spec == Init /\ [][Next]_vars

(***************************************************************************)
(* Fairness.  Time passes.  A requester that holds the receipt of a        *)
(* request still open keeps asking for its status.  A poll that answers    *)
(* with an outcome is not followed by another, and nothing is assumed of   *)
(* the human or of the approvers.                                          *)
(***************************************************************************)
Polls(c) ==
  /\ ReadRequest(c)
  /\ \E h \in receipts[c.name] : Live(records[h])

Fairness ==
  /\ WF_vars(Tick)
  /\ \A c \in TierBCallers : WF_vars(Polls(c))

FairSpec == Spec /\ Fairness
-----------------------------------------------------------------------------
(* Correctness. *)

TypeOK ==
  /\ approvers \subseteq Names
  /\ custodians \subseteq Names
  /\ records \in [Handles -> Record]
  /\ ready \in BOOLEAN
  /\ minted \subseteq Handles
  /\ receipts \in [Names -> SUBSET Handles]
  /\ onScreen \subseteq Handles
  /\ display \in [Names -> Bundles \union {NoBundle}]

\* What the sweep relies on: signatures belong to an approved record, and only
\* a settled record carries a stamp.
RecordInv(r) ==
  /\ r.signed => r.state = "approved"
  /\ r.settledFor # Unstamped => Settled(r)

\* The bookkeeping behind every other property: each record is sound, and the
\* ledger knows only handles it minted.
LedgerInv ==
  /\ \A h \in Handles : RecordInv(records[h])
  /\ \A h \in Handles : Known(records[h]) => h \in minted
  /\ IsFiniteSet(minted)

\* The caps bound every queue, however often records are claimed, demoted and
\* swept after they were admitted.
CapsHold ==
  /\ Cardinality(LiveHandles(records)) <= TotalCap
  /\ \A m \in Names : Cardinality(LiveHandlesOf(records, m)) <= RequesterCap

\* Whatever is rendered is the request last put on screen: with several
\* approvers claiming, being refused and claiming again, no earlier one stays
\* approvable.
OnlyTheScreenIsRendered ==
  \A h \in Handles : records[h].state = "rendered" => onScreen = {h}

Signs(h) == ~records[h].signed /\ records'[h].signed

\* "This is what binds the text the human read to the approve call that
\* follows": a request is only ever signed while it is the one on screen, by a
\* module that is an approver at that moment, whatever it was when it claimed
\* the request, and that is showing exactly what is signed.
SignsTheScreen ==
  \A h \in Handles : Signs(h) =>
    /\ onScreen = {h}
    /\ records[h].state = "rendered"
    /\ \E c \in TierACallers :
         /\ Approve(c, h, display[c.name], TRUE)
         /\ c.kind = "module" /\ c.name \in approvers
    /\ \A c \in TierACallers :
         Approve(c, h, display[c.name], TRUE) =>
           display[c.name] = records[h].bundle

SignsWhatIsOnScreen == [][SignsTheScreen]_vars

\* A dropped reply never costs a second password entry: signatures stay until
\* a holder of that request's own receipt acknowledges or cancels it.
KeepsSignatures ==
  \A h \in Handles : records[h].signed /\ ~records'[h].signed =>
    \/ \E c \in TierBCallers : AckResult(c, h, h) \/ CancelApproval(c, h, h)
    \/ Restart

SignaturesSurvive == [][KeepsSignatures]_vars

\* A requester gets a real answer rather than "no such handle": a request
\* leaves the ledger only after its outcome has been readable for the whole
\* retention window, never in the call that settles it.
KeepsAnswers ==
  \A h \in Handles : Known(records[h]) /\ ~Known(records'[h]) =>
    \/ Settled(records[h]) /\ records[h].settledFor >= Retention
    \/ Restart

AnswerIsKept == [][KeepsAnswers]_vars

HasReceipt(h) == \E m \in Names : h \in receipts[m]

\* "Settle Offered records nobody ever came for": while its requester polls, an
\* offer does not linger, although no timer runs in the module.
OfferIsAnswered ==
  \A h \in Handles :
    records[h].state = "offered" ~> records[h].state # "offered" \/ ~HasReceipt(h)

\* The module goes on being called by somebody: no sweep that has something to
\* do waits for ever.  The code does not see to it, so it is no part of
\* Fairness but the condition of the property below.
StaysInUse == WF_vars(\E c \in TierBCallers : ReadRequest(c))

\* A module in use forgets: a request leaves the ledger in the end, also one
\* whose reply was lost so that nobody can ask for it or cancel it, unless an
\* approver has it on screen or its signatures were never collected.
OutcomeIsForgotten ==
  StaysInUse =>
    \A h \in Handles :
      Known(records[h]) ~>
        \/ ~Known(records[h])
        \/ records[h].state = "rendered"
        \/ records[h].signed

-----------------------------------------------------------------------------
(* The ledger implements ApprovalPromise. *)

Phase(h) ==
  CASE Live(records[h])               -> "open"
    [] records[h].state = "approved"  -> "approved"
    [] Settled(records[h]) /\ records[h].state # "approved" -> "declined"
    [] ~Known(records[h]) /\ h \in minted    -> "forgotten"
    [] ~Known(records[h]) /\ h \notin minted -> "unmade"

Promise == INSTANCE ApprovalPromise WITH
  Requests <- Handles,
  phase    <- [h \in Handles |-> Phase(h)],
  holding  <- {h \in Handles : records[h].signed}

\* Every call, with the sweep it runs, is one step of the promise.
KeepsPromise == Promise!Spec

=============================================================================
