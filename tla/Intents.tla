------------------------------- MODULE Intents ------------------------------
(***************************************************************************)
(* What a requester asks to have signed, and the three things made of it:  *)
(* the commitment and the lines an approver shows (approval.rs), and the   *)
(* payload that is signed (keystore.rs).  Each reads the texts of the      *)
(* fields in its own way.                                                  *)
(*                                                                         *)
(* A field is its form and what it stands for: "dec" 10, "hex" 0x0a, "HEX" *)
(* 0X0A, "bare" 0a, "twice" 0x0x0a, as the reader of its place takes it; or *)
(* it is "junk", any text no reader takes, trimmed and in lower case.  A    *)
(* text is a sequence of words, numbers and the marks between them.  The    *)
(* two fees of EIP-1559 are treated alike, and are one field, the cap.      *)
(***************************************************************************)
EXTENDS Integers, Sequences

CONSTANTS
  U64, U128, U256,  \* the first number past each width
  Requests          \* the intents considered

\* The end of a line, the unit separator, and what is shown otherwise than it is.
End == [mark |-> "end"]
Unit == [mark |-> "unit"]
Hidden == [mark |-> "hidden"]

Word(w) == [word |-> w]

Forms == {"blank", "dec", "hex", "HEX", "bare", "twice"}

Numeral == [form : Forms, says : Nat]

Token == {End, Unit, Hidden} \union [word : STRING] \union Numeral

Text == Seq(Token)

Field == Numeral \union [form : {"junk"}, text : Text]

\* UnsignedTx: price is the legacy fee; no recipient and a blank one are alike.
Tx ==
  [kind : {"tx"}, chain : Nat, to : Field, create : BOOLEAN,
   accessList : BOOLEAN, value : Field, nonce : Field, gas : Field,
   data : Field, mode : STRING, price : Field, cap : Field]

Message == [kind : {"message"}, text : Text]

Digest == [kind : {"digest"}, digest : Field, purpose : Text]

Leg == Tx \union Message \union Digest

Intent == [address : Field, purpose : Text, legs : Seq(Leg)]

ASSUME IntentsAssumption ==
  /\ {U64, U128, U256} \subseteq Nat /\ U64 < U128 /\ U128 < U256
  /\ Requests \subseteq Intent

IsBlank(t) == t.form = "blank"

-----------------------------------------------------------------------------
(* Reading a field. *)

Refused == -1
Creation == -2

\* parse_u128, parse_u256
ParseBelow(t, width) ==
  IF IsBlank(t) THEN 0
  ELSE IF t.form \in {"dec", "hex", "HEX"} /\ t.says < width THEN t.says
  ELSE Refused

\* Mutant: the bare cast, which wraps.
WrapToU64(n) == IF n = Refused THEN n ELSE n % U64

ToU64(n) == IF n < U64 THEN n ELSE Refused

ParseU64(t) == ToU64(ParseBelow(t, U128))

\* parse_address, parse_b256: one prefix or none, in either case.
ParseHex(t) == IF t.form \in {"hex", "HEX", "bare"} THEN t.says ELSE Refused

\* parse_bytes; 0 stands for no bytes.
ParseBytes(t) == IF IsBlank(t) THEN 0 ELSE ParseHex(t)

Holds(text, mark) == \E k \in DOMAIN text : text[k] = mark

\* check_displayable: of the marks, only the end of a line may stand in a text.
Displayable(text) == ~Holds(text, Hidden) /\ ~Holds(text, Unit)

-----------------------------------------------------------------------------
(* Signing (sign_parsed_tx, sign_message_with, sign_digest_with). *)

Recipient(tx) ==
  IF ~tx.create THEN ParseHex(tx.to)
  ELSE IF IsBlank(tx.to) THEN Creation
  ELSE Refused

\* The fees of the chosen mode; those of the other are not read.
Fees(tx) ==
  IF tx.mode = "legacy" THEN ParseBelow(tx.price, U128)
  ELSE IF tx.mode \in {"", "eip1559"} THEN ParseBelow(tx.cap, U128)
  ELSE Refused

TxPayload(tx) ==
  [kind |-> "tx", chain |-> tx.chain, to |-> Recipient(tx),
   value |-> ParseBelow(tx.value, U256), nonce |-> ParseU64(tx.nonce),
   gas |-> ParseU64(tx.gas), input |-> ParseBytes(tx.data),
   legacy |-> tx.mode = "legacy", fees |-> Fees(tx)]

Payload(leg) ==
  CASE leg.kind = "tx"      -> TxPayload(leg)
    [] leg.kind = "message" -> [kind |-> "message", text |-> leg.text]
    [] leg.kind = "digest"  -> [kind |-> "digest", digest |-> ParseHex(leg.digest)]

TxSigns(tx) ==
  LET made == TxPayload(tx)
  IN  /\ Refused \notin {made.to, made.value, made.nonce, made.gas,
                         made.input, made.fees}
      /\ ~tx.accessList

LegSigns(leg) ==
  /\ leg.kind = "tx" => TxSigns(leg)
  /\ leg.kind = "message" => Displayable(leg.text)
  /\ leg.kind = "digest" => ParseHex(leg.digest) # Refused

\* Approvals::approve: one signer, and every leg or none.
Signs(i) ==
  /\ ParseHex(i.address) # Refused
  /\ \A k \in DOMAIN i.legs : LegSigns(i.legs[k])

Signed(i) ==
  [signer |-> ParseHex(i.address),
   legs |-> [k \in DOMAIN i.legs |-> Payload(i.legs[k])]]

-----------------------------------------------------------------------------
(* The commitment: the text that is hashed.  Nothing in it tells its own     *)
(* marks from those of the texts it is made of.                             *)

Dec(n) == [form |-> "dec", says |-> n]

\* A field as it is: nothing, the text, or the one number.
Raw(t) == IF IsBlank(t) THEN <<>> ELSE IF t.form = "junk" THEN t.text ELSE <<t>>

\* trim and to_lowercase
Lower(t) == IF t.form = "HEX" THEN <<[t EXCEPT !.form = "hex"]>> ELSE Raw(t)

\* trim_start_matches takes every 0x there is, and comes before to_lowercase.
Unprefixed(t) == IF t.form \in {"hex", "twice"} THEN <<[t EXCEPT !.form = "bare"]>>
                                                ELSE Lower(t)

Yes(b) == IF b THEN <<Word("true")>> ELSE <<Word("false")>>

Mode(mode) ==
  IF mode = "" THEN <<>>
  ELSE IF mode = "LEGACY" THEN <<Word("legacy")>>
  ELSE <<Word(mode)>>

Line(text) == Append(text, End)

Part(text) == Append(text, Unit)

Opening(leg) == Line(<<Word(leg.kind)>>)

\* Mutant: the parts before there was a choice of fees.
TxPartsOnce(tx) ==
  <<Opening(tx), Line(<<Dec(tx.chain)>>), Part(Lower(tx.to)),
    Part(Yes(tx.create)), Part(Lower(tx.value)), Part(Lower(tx.nonce)),
    Part(Lower(tx.gas)), Part(Lower(tx.data)), Part(Mode(tx.mode)),
    Part(Lower(tx.cap)), Line(<<>>)>>

TxParts(tx) ==
  <<Opening(tx), Line(<<Dec(tx.chain)>>), Part(Lower(tx.to)),
    Part(Yes(tx.create)), Part(Lower(tx.value)), Part(Lower(tx.nonce)),
    Part(Lower(tx.gas)), Part(Lower(tx.data)), Part(Mode(tx.mode)),
    Part(Lower(tx.cap)), Part(Lower(tx.price)), Line(<<>>)>>

\* A text and a purpose are hashed as they are, whatever lines are in them.
Parts(leg) ==
  CASE leg.kind = "tx"      -> TxParts(leg)
    [] leg.kind = "message" -> <<Opening(leg), Line(leg.text)>>
    [] leg.kind = "digest"  ->
         <<Opening(leg), Part(Unprefixed(leg.digest)), Line(leg.purpose)>>

\* What has been hashed once all the codes have followed what came first.
Hashed(first, codes) ==
  LET upto[k \in 0 .. Len(codes)] ==
        IF k = 0 THEN first ELSE upto[k - 1] \o codes[k]
  IN  upto[Len(codes)]

EncodedLeg(leg) == Hashed(<<>>, Parts(leg))

\* commitment
Encoding(i) ==
  Hashed(Line(Lower(i.address)), [k \in DOMAIN i.legs |-> EncodedLeg(i.legs[k])])

-----------------------------------------------------------------------------
(* The lines an approver shows. *)

\* norm_num: a hexadecimal number is shown as a decimal one as well.
NormNum(t) ==
  IF IsBlank(t) THEN {Dec(0)}
  ELSE IF t.form \in {"hex", "HEX"} /\ t.says < U128 THEN {t, Dec(t.says)}
  ELSE {t}

\* Every 0x is taken off and one put on; a 0X stays behind it.
ShownData(t) ==
  IF IsBlank(t) \/ (t.form = "hex" /\ t.says = 0) THEN {Dec(0)}
  ELSE IF t.form \in {"hex", "twice", "bare"} THEN {[t EXCEPT !.form = "hex"]}
  ELSE {[form |-> "junk", text |-> Raw(t)]}

\* What the line after each label shows.
RenderTx(tx) ==
  [chain |-> {Dec(tx.chain)},
   to    |-> IF IsBlank(tx.to) THEN {} ELSE {tx.to},
   value |-> NormNum(tx.value), nonce |-> NormNum(tx.nonce),
   gas   |-> NormNum(tx.gas), input |-> ShownData(tx.data)]

\* render and request refuse what they cannot show.
Admitted(i) ==
  /\ i.legs # <<>>
  /\ Displayable(i.purpose)
  /\ \A k \in DOMAIN i.legs :
       LET leg == i.legs[k]
       IN  /\ leg.kind = "message" => Displayable(leg.text)
           /\ leg.kind = "digest" => Displayable(leg.purpose)

-----------------------------------------------------------------------------
(* Properties of one intent. *)

\* A reader takes a line for what it says.
Face(t) == IF t.form \in {"dec", "hex", "HEX", "bare"} THEN t.says ELSE Refused

Means(lines, n) == \A t \in lines : Face(t) = n

TxMeans(tx) ==
  LET shown == RenderTx(tx)
      made == TxPayload(tx)
  IN  /\ Means(shown.chain, made.chain)
      /\ IF shown.to = {} THEN made.to = Creation ELSE Means(shown.to, made.to)
      /\ Means(shown.value, made.value)
      /\ Means(shown.nonce, made.nonce)
      /\ Means(shown.gas, made.gas)
      /\ tx.data.form # "HEX" => Means(shown.input, made.input)

\* What is shown of a leg is what is signed of it, but for its fees.
LegMeans(leg) ==
  /\ leg.kind = "tx" => TxMeans(leg)
  /\ leg.kind = "message" => Displayable(leg.text)
  /\ leg.kind = "digest" => Face(leg.digest) = ParseHex(leg.digest)

ShowsWhatItSigns(i) ==
  Admitted(i) /\ Signs(i) =>
    /\ Face(i.address) = ParseHex(i.address)
    /\ \A k \in DOMAIN i.legs : LegMeans(i.legs[k])

\* No text has a mark that could be taken for the one that ends it: a message
\* and the purpose of a digest the end of a line, a fee the unit separator.
\* (The other fields of a leg that is signed have none, being read.)
Delimited(i) ==
  \A k \in DOMAIN i.legs :
    LET leg == i.legs[k]
    IN  /\ leg.kind = "message" => ~Holds(leg.text, End)
        /\ leg.kind = "digest" => ~Holds(leg.purpose, End)
        /\ leg.kind = "tx" =>
             ~Holds(Lower(leg.price), Unit) /\ ~Holds(Lower(leg.cap), Unit)

BindsAgainst(i, j) ==
  /\ Delimited(i) /\ Delimited(j) /\ Signs(i) /\ Signs(j)
  /\ Encoding(i) = Encoding(j)
  => Signed(i) = Signed(j)
=============================================================================
