-------------------------- MODULE DocumentPromise --------------------------
(***************************************************************************)
(* What the keystore promises of its documents, with no file and no lock:  *)
(* an update takes effect at one moment, on the value the document has at  *)
(* that moment, and is answered ok exactly when it did; an update that is  *)
(* refused, or whose process dies before that moment, changes nothing.  A  *)
(* power cut may take back what was not committed yet, a whole value.      *)
(***************************************************************************)
CONSTANTS Procs, Docs, Marks, Missing, Damaged

VARIABLES
  value,   \* what each document says
  past,    \* values a power cut may bring back
  doing    \* each process' update, if any

store == <<value, past, doing>>

Changes == [kind : {"put", "drop"}, mark : Marks]

\* A document that is not there yet is an empty one.
Base(v) == IF v = Missing THEN {} ELSE v

After(v, change) ==
  IF change.kind = "put" THEN Base(v) \union {change.mark}
                         ELSE Base(v) \ {change.mark}

Values == {Missing, Damaged} \union SUBSET Marks

Idle == [doc |-> "none", change |-> "none", phase |-> "idle"]

Init ==
  /\ value \in [Docs -> Values]
  /\ past = [d \in Docs |-> {}]
  /\ doing = [p \in Procs |-> Idle]

Begin(p) ==
  /\ doing[p] = Idle
  /\ \E d \in Docs, change \in Changes :
       doing' = [doing EXCEPT ![p] = [doc |-> d, change |-> change,
                                      phase |-> "begun"]]
  /\ UNCHANGED <<value, past>>

\* A document nobody can read is never replaced.
Take(p) ==
  LET d == doing[p].doc
  IN  /\ doing[p].phase = "begun"
      /\ value[d] # Damaged
      /\ value' = [value EXCEPT ![d] = After(@, doing[p].change)]
      /\ past' = [past EXCEPT ![d] = @ \union {value[d]}]
      /\ doing' = [doing EXCEPT ![p].phase = "took"]

Commit ==
  /\ past' = [d \in Docs |-> {}]
  /\ UNCHANGED <<value, doing>>

Resolve(p, verdict) ==
  /\ doing[p].phase = (IF verdict = "ok" THEN "took" ELSE "begun")
  /\ doing' = [doing EXCEPT ![p].phase = verdict]
  /\ past' \in {past, [d \in Docs |-> {}]}
  /\ UNCHANGED value

End(p) ==
  /\ doing' = [doing EXCEPT ![p] = Idle]
  /\ UNCHANGED <<value, past>>

PowerCut ==
  /\ \A d \in Docs : value'[d] \in past[d] \union {value[d]}
  /\ value' \in [Docs -> Values]
  /\ past' = [d \in Docs |-> {}]
  /\ doing' = [p \in Procs |-> Idle]

Next ==
  \/ \E p \in Procs :
       \/ Begin(p) \/ Take(p) \/ End(p)
       \/ \E verdict \in {"ok", "refused"} : Resolve(p, verdict)
  \/ Commit
  \/ PowerCut

Spec == Init /\ [][Next]_store
=============================================================================
