---------------------------- MODULE AccountStore ----------------------------
(***************************************************************************)
(* What account storage promises the callers of one process, with no file, *)
(* directory, lock or row in it: an account is absent or opens under one   *)
(* password; a call takes effect at most once, at one moment, or not at    *)
(* all; an answer says which, except that a store whose row could not be   *)
(* kept, and a delete cut before its row, answer refused after the effect. *)
(* A write first makes a draft, and the draft of a write that ended before *)
(* it took effect may come true later, but only where there is no account. *)
(***************************************************************************)
CONSTANTS Addresses, Passwords, Absent

VARIABLES
  acct,    \* the password an account opens under, or Absent
  draft,   \* a password a write has prepared, or Absent
  doing    \* the call in progress, if any

store == <<acct, draft, doing>>

Writes == {"rekey", "import", "json"}
AllOps == Writes \union {"sign", "delete", "list"}

Idle ==
  [op |-> "none", addr |-> "none", given |-> "none", new |-> "none",
   phase |-> "idle"]

Call(op, a, given, new) ==
  [op |-> op, addr |-> a, given |-> given, new |-> new, phase |-> "begun"]

Init ==
  /\ acct = [a \in Addresses |-> Absent]
  /\ draft = [a \in Addresses |-> Absent]
  /\ doing = Idle

\* A call is "begun", then "took" its effect if it does, then is "ok" or
\* "refused" until it is answered.
Pending == doing.phase \in {"begun", "took"}

Begin ==
  /\ doing = Idle
  /\ \E op \in AllOps, a \in Addresses, given, new \in Passwords :
       doing' = Call(op, a, given, new)
  /\ UNCHANGED <<acct, draft>>

\* A password is replaced only by someone who presented it.
Allowed ==
  doing.op \in {"rekey", "delete", "sign"} => acct[doing.addr] = doing.given

Prepare ==
  /\ doing.phase = "begun" /\ doing.op \in Writes /\ Allowed
  /\ draft' = [draft EXCEPT ![doing.addr] = doing.new]
  /\ UNCHANGED <<acct, doing>>

\* A draft goes when a write replaces or gives up its own, or with a repair.
Discard(a) ==
  /\ draft' = [draft EXCEPT ![a] = Absent]
  /\ UNCHANGED <<acct, doing>>

Publish ==
  /\ doing.phase = "begun" /\ doing.op \in Writes /\ Allowed
  /\ draft[doing.addr] = doing.new
  /\ acct' = [acct EXCEPT ![doing.addr] = doing.new]
  /\ draft' = [draft EXCEPT ![doing.addr] = Absent]
  /\ doing' = [doing EXCEPT !.phase = "took"]

Remove ==
  /\ doing.phase = "begun" /\ doing.op = "delete" /\ Allowed
  /\ acct' = [acct EXCEPT ![doing.addr] = Absent]
  /\ doing' = [doing EXCEPT !.phase = "took"]
  /\ UNCHANGED draft

\* The draft of an earlier write, where no account stands.
Recover(a) ==
  /\ acct[a] = Absent
  /\ draft[a] # Absent
  /\ acct' = [acct EXCEPT ![a] = draft[a]]
  /\ draft' = [draft EXCEPT ![a] = Absent]
  /\ UNCHANGED doing

\* A change is answered ok once it took effect; a password change answered
\* refused took none; a signature needs the account's password.  A refused
\* write may give up its draft.
Resolve(verdict) ==
  /\ Pending
  /\ verdict = "ok" =>
       /\ doing.op \in Writes \union {"delete"} => doing.phase = "took"
       /\ doing.op = "sign" => Allowed
  /\ verdict = "refused" => ~(doing.op = "rekey" /\ doing.phase = "took")
  /\ doing' = [doing EXCEPT !.phase = verdict]
  /\ draft' \in {draft, [draft EXCEPT ![doing.addr] = Absent]}
  /\ UNCHANGED acct

Answer ==
  /\ doing.phase \in {"ok", "refused"}
  /\ doing' = Idle
  /\ UNCHANGED <<acct, draft>>

Die ==
  /\ doing' = Idle
  /\ UNCHANGED <<acct, draft>>

Next ==
  \/ Begin \/ Prepare \/ Publish \/ Remove \/ Answer \/ Die
  \/ \E a \in Addresses : Discard(a) \/ Recover(a)
  \/ \E verdict \in {"ok", "refused"} : Resolve(verdict)

Spec == Init /\ [][Next]_store
=============================================================================
