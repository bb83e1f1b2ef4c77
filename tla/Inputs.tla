------------------------------- MODULE Inputs -------------------------------
(***************************************************************************)
(* What is decided from an input alone: the intents of request_approval,   *)
(* the texts and the paths of hd.rs, the documents of check_kdf_params.    *)
(* A call takes one input and answers; nothing of it is kept.              *)
(***************************************************************************)
EXTENDS Intents, HdPath, Kdf

VARIABLE input

As(kind, given) == [kind |-> kind, given |-> given]

Nothing == As("none", {})

Init == input = Nothing

Takes(kind, inputs) ==
  /\ input = Nothing
  /\ \E given \in inputs : input' = As(kind, given)

TakesIntent == Takes("intent", Requests)
TakesText == Takes("text", Texts)
TakesPath == Takes("path", Bip44Path)
\* import_keystore_json; openable and open_group_vault ask the same.
TakesKdf == Takes("kdf", KdfParams)

Answers == input # Nothing /\ input' = Nothing

Next == TakesIntent \/ TakesText \/ TakesPath \/ TakesKdf \/ Answers

Spec == Init /\ [][Next]_input

-----------------------------------------------------------------------------
(* Properties. *)

Given(kind) == input.kind = kind

\* What an approver shows of an intent, taken at face value, is what its
\* approval signs, but for the fees: no field is shown one way and signed
\* another (render, sign_parsed_tx, sign_message_with, sign_digest_with).
ScreenMeansPayload == Given("intent") => ShowsWhatItSigns(input.given)

\* Two intents of one commitment are signed alike, fees included, as long as no
\* text has a line that could be taken for another leg (commitment).
CommitmentBinds ==
  Given("intent") => \A j \in Requests : BindsAgainst(input.given, j)

\* Text, path and key go together whichever way one comes (hd.rs): a text that
\* is accepted leads to the key it names, and a path is written as one that is.
PathsNameTheirKey ==
  /\ Given("text") => TextNamesItsKey(input.given)
  /\ Given("path") => ReadsBack(input.given)

\* A document that passes asks for no more work than the ceilings, by either of
\* the two functions: for scrypt the memory and the passes over it, for pbkdf2
\* the rounds (check_kdf_params, of a document that is imported, staged or the
\* key of a wallet; an account's own vault is opened without it).
WorkIsBounded ==
  Given("kdf") /\ Allowed(input.given) => Bounded(input.given)
=============================================================================
