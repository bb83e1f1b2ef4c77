---------------------------- MODULE InputsProofs ----------------------------
(***************************************************************************)
(* Proofs about Inputs: what is shown of an intent and what its commitment  *)
(* binds for every width and number of legs, paths and their keys for every *)
(* width and layout of the indices, the work of a document for every        *)
(* ceiling.                                                                *)
(***************************************************************************)
EXTENDS Inputs, SequenceTheorems, WellFoundedInduction, TLAPS

-----------------------------------------------------------------------------
(* What an input can be. *)

Sound ==
  \/ input = Nothing
  \/ \E i \in Requests : input = As("intent", i)
  \/ \E s \in Texts : input = As("text", s)
  \/ \E p \in Bip44Path : input = As("path", p)
  \/ \E params \in KdfParams : input = As("kdf", params)

\* Every reachable input is one of those considered, and no other.
THEOREM InputsSound == Spec => []Sound
<1>1. Init => Sound
  BY DEF Init, Sound
<1>2. Sound /\ [Next]_input => Sound'
  BY DEF Sound, Next, TakesIntent, TakesText, TakesPath, TakesKdf, Takes,
         Answers
<1> QED
  BY <1>1, <1>2, PTL DEF Spec

-----------------------------------------------------------------------------
(* What is shown of an intent and what is signed. *)

\* A number that is read is what each of its lines says.
LEMMA NumberMeans ==
  ASSUME NEW t \in Field, NEW width \in Nat, ParseBelow(t, width) # Refused
  PROVE  Means(NormNum(t), ParseBelow(t, width))
<1>2. CASE IsBlank(t)
  BY <1>2 DEF Means, NormNum, ParseBelow, Dec, Face
<1>3. CASE ~IsBlank(t)
  <2>1. t.form \in {"dec", "hex", "HEX"} /\ ParseBelow(t, width) = t.says
    BY <1>3 DEF ParseBelow
  <2>2. Face(t) = t.says /\ Face(Dec(t.says)) = t.says
    BY <2>1 DEF Face, Dec
  <2>3. NormNum(t) \subseteq {t, Dec(t.says)}
    BY <1>3 DEF NormNum
  <2> QED
    BY <2>1, <2>2, <2>3 DEF Means
<1> QED
  BY <1>2, <1>3

\* A number that fits is not changed by its type.
LEMMA NarrowMeans ==
  ASSUME NEW t \in Field, ParseU64(t) # Refused
  PROVE  Means(NormNum(t), ParseU64(t))
<1>1. ParseU64(t) = ParseBelow(t, U128)
  BY DEF ParseU64, ToU64
<1> QED
  BY <1>1, NumberMeans, IntentsAssumption

\* What is read of a hexadecimal text is what the text says.
LEMMA HexMeans ==
  ASSUME NEW t, ParseHex(t) # Refused
  PROVE  Face(t) = ParseHex(t)
  BY DEF ParseHex, Face

\* The data that is read is what its line says, if it has no prefix of the
\* other case.
LEMMA DataMeans ==
  ASSUME NEW t \in Field, t.form # "HEX", ParseBytes(t) # Refused
  PROVE  Means(ShownData(t), ParseBytes(t))
<1>1. CASE IsBlank(t)
  BY <1>1 DEF Means, ShownData, ParseBytes, Dec, Face
<1>2. CASE ~IsBlank(t)
  <2>1. t.form \in {"hex", "bare"} /\ ParseBytes(t) = t.says
    BY <1>2 DEF ParseBytes, ParseHex
  <2>2. CASE t.form = "hex" /\ t.says = 0
    BY <2>1, <2>2 DEF Means, ShownData, Dec, Face
  <2>3. CASE ~(t.form = "hex" /\ t.says = 0)
    <3> DEFINE shown == [t EXCEPT !.form = "hex"]
    <3>1. ShownData(t) = {shown}
      BY <1>2, <2>1, <2>3 DEF ShownData
    <3>2. shown.form = "hex" /\ shown.says = t.says
      BY DEF Field
    <3> QED
      BY <2>1, <3>1, <3>2 DEF Means, Face
  <2> QED
    BY <2>2, <2>3
<1> QED
  BY <1>1, <1>2

\* A transaction that is signed is shown as it is.
LEMMA TxShown ==
  ASSUME NEW tx \in Tx, TxSigns(tx)
  PROVE  TxMeans(tx)
<1> DEFINE shown == RenderTx(tx)
           made == TxPayload(tx)
<1>1. /\ {tx.to, tx.value, tx.nonce, tx.gas, tx.data} \subseteq Field
      /\ tx.chain \in Nat
  BY DEF Tx
<1>2. /\ made.chain = tx.chain /\ made.to = Recipient(tx)
      /\ made.value = ParseBelow(tx.value, U256)
      /\ made.nonce = ParseU64(tx.nonce) /\ made.gas = ParseU64(tx.gas)
      /\ made.input = ParseBytes(tx.data)
  BY DEF TxPayload
<1>3. /\ shown.chain = {Dec(tx.chain)}
      /\ shown.to = IF IsBlank(tx.to) THEN {} ELSE {tx.to}
      /\ shown.value = NormNum(tx.value) /\ shown.nonce = NormNum(tx.nonce)
      /\ shown.gas = NormNum(tx.gas) /\ shown.input = ShownData(tx.data)
  BY DEF RenderTx
<1>4. Refused \notin {made.to, made.value, made.nonce, made.gas, made.input}
  BY DEF TxSigns
<1> HIDE DEF shown, made
<1>5. Means(shown.chain, made.chain)
  BY <1>1, <1>2, <1>3 DEF Means, Dec, Face
<1>6. IF shown.to = {} THEN made.to = Creation ELSE Means(shown.to, made.to)
  <2>1. CASE IsBlank(tx.to)
    BY <2>1, <1>2, <1>3, <1>4 DEF Recipient, ParseHex, IsBlank
  <2>2. CASE ~IsBlank(tx.to)
    <3>1. Recipient(tx) = ParseHex(tx.to)
      BY <2>2, <1>2, <1>4 DEF Recipient
    <3> QED
      BY <2>2, <3>1, <1>2, <1>3, <1>4, HexMeans DEF Means
  <2> QED
    BY <2>1, <2>2
<1>7. Means(shown.value, made.value)
  BY <1>1, <1>2, <1>3, <1>4, NumberMeans, IntentsAssumption
<1>8. Means(shown.nonce, made.nonce) /\ Means(shown.gas, made.gas)
  BY <1>1, <1>2, <1>3, <1>4, NarrowMeans
<1>9. tx.data.form # "HEX" => Means(shown.input, made.input)
  BY <1>1, <1>2, <1>3, <1>4, DataMeans
<1> QED
  BY <1>5, <1>6, <1>7, <1>8, <1>9 DEF TxMeans, shown, made

\* An intent that is admitted and signed is shown as it is.
LEMMA IntentShown ==
  ASSUME NEW i \in Requests
  PROVE  ShowsWhatItSigns(i)
<1> SUFFICES ASSUME Signs(i)
             PROVE  /\ Face(i.address) = ParseHex(i.address)
                    /\ \A k \in DOMAIN i.legs : LegMeans(i.legs[k])
  BY DEF ShowsWhatItSigns
<1>1. Face(i.address) = ParseHex(i.address)
  BY HexMeans DEF Signs
<1>2. ASSUME NEW k \in DOMAIN i.legs
      PROVE  LegMeans(i.legs[k])
  <2> DEFINE leg == i.legs[k]
  <2>1. leg \in Leg
    BY IntentsAssumption DEF Intent
  <2>2. LegSigns(leg)
    BY DEF Signs
  <2> HIDE DEF leg
  <2>3. leg.kind = "tx" => leg \in Tx
    BY <2>1 DEF Leg, Message, Digest
  <2>4. leg.kind = "tx" => TxMeans(leg)
    BY <2>2, <2>3, TxShown DEF LegSigns
  <2>5. leg.kind = "digest" => Face(leg.digest) = ParseHex(leg.digest)
    BY <2>2, HexMeans DEF LegSigns
  <2>6. leg.kind = "message" => Displayable(leg.text)
    BY <2>2 DEF LegSigns
  <2>7. LegMeans(leg)
    BY <2>4, <2>5, <2>6 DEF LegMeans
  <2> QED
    BY <2>7 DEF leg
<1> QED
  BY <1>1, <1>2

\* For every width of a number and every set of intents, however long: what is
\* shown of an intent is what is signed of it, but for its fees.
THEOREM ScreenTrue == Spec => []ScreenMeansPayload
<1>1. Sound => ScreenMeansPayload
  <2> SUFFICES ASSUME Sound, Given("intent")
               PROVE  ShowsWhatItSigns(input.given)
    BY DEF ScreenMeansPayload
  <2>1. PICK i \in Requests : input = As("intent", i)
    BY DEF Sound, Given, As, Nothing
  <2> QED
    BY <2>1, IntentShown DEF As
<1> QED
  BY <1>1, InputsSound, PTL

-----------------------------------------------------------------------------
(* Counting, for what is defined and shown leg by leg.                     *)
(* A set of numbers takes the place of the formula an induction is about.  *)

\* A set of natural numbers has a least one.
LEMMA LeastNumber ==
  ASSUME NEW T, T \subseteq Nat, T # {}
  PROVE  \E m \in T : \A k \in T : m <= k
<1> DEFINE less == OpToRel(<, Nat)
<1>1. PICK m \in T : \A k \in T : <<k, m>> \notin less
  BY NatLessThanWellFounded, WFMin
<1>2. less = {pair \in Nat \X Nat : pair[1] < pair[2]}
  BY DEF OpToRel
<1> HIDE DEF less
<1>3. \A k \in T : k \in Nat /\ m \in Nat /\ ~(k < m)
  BY <1>1, <1>2
<1> QED
  BY <1>1, <1>3

\* A set that holds zero and, with each number, the next.
LEMMA Counting ==
  ASSUME NEW n \in Nat, NEW S, 0 \in S,
         \A k \in 1 .. n : k - 1 \in S => k \in S
  PROVE  0 .. n \subseteq S
<1> SUFFICES ASSUME 0 .. n \ S # {}
             PROVE  FALSE
  OBVIOUS
<1> DEFINE out == (0 .. n) \ S
<1>1. out \subseteq Nat /\ out # {}
  OBVIOUS
<1> HIDE DEF out
<1>2. PICK m \in out : \A k \in out : m <= k
  BY <1>1, LeastNumber
<1> QED
  BY <1>2 DEF out

-----------------------------------------------------------------------------
(* Sequences that are written one after another. *)

\* The operator under a name of its own, which the provers take as it is.
Joined(s, t) == s \o t

\* What is written after a sequence makes one with it.
LEMMA JoinedIsSeq ==
  ASSUME NEW S, NEW s \in Seq(S), NEW t \in Seq(S)
  PROVE  Joined(s, t) \in Seq(S)
  BY ConcatProperties DEF Joined

\* Nothing written after a sequence leaves it as it is.
LEMMA NothingJoined ==
  ASSUME NEW S, NEW s \in Seq(S)
  PROVE  <<>> \in Seq(S) /\ Joined(s, <<>>) = s
  BY ConcatEmptySeq, EmptySeq DEF Joined

\* What follows the same beginning is the same.
LEMMA CancelLeft ==
  ASSUME NEW S, NEW s \in Seq(S), NEW t \in Seq(S), NEW r \in Seq(S),
         Joined(s, t) = Joined(s, r)
  PROVE  t = r
  BY ConcatSimplifications DEF Joined

\* Nothing is written of a code only if it is empty.
LEMMA NothingLeft ==
  ASSUME NEW S, NEW s \in Seq(S), NEW t \in Seq(S), Joined(s, t) = <<>>
  PROVE  s = <<>>
  BY ConcatEqualIffEmpty DEF Joined

\* What adds nothing is empty.
LEMMA NothingAdded ==
  ASSUME NEW S, NEW s \in Seq(S), NEW t \in Seq(S), Joined(s, t) = s
  PROVE  t = <<>>
  BY ConcatEqualIffEmpty DEF Joined

\* What follows can be taken together.
LEMMA Regroup ==
  ASSUME NEW S, NEW s \in Seq(S), NEW t \in Seq(S), NEW r \in Seq(S),
         NEW x, x = Joined(s, t), NEW w, w = Joined(x, r)
  PROVE  w = Joined(s, Joined(t, r))
  BY ConcatAssociative DEF Joined

\* What is written once k codes have followed what comes first.
Chain(u, first, codes) ==
  u = [k \in 0 .. Len(codes) |->
         IF k = 0 THEN first ELSE Joined(u[k - 1], codes[k])]

\* Codes can be chained, as many as there are.
LEMMA ChainExists ==
  ASSUME NEW S, NEW codes \in Seq(S), NEW first
  PROVE  \E u : Chain(u, first, codes)
<1> DEFINE UpTo(n) == \E u : u = [k \in 0 .. n |->
                                   IF k = 0 THEN first
                                            ELSE Joined(u[k - 1], codes[k])]
           reached == {n \in 0 .. Len(codes) : UpTo(n)}
<1>1. Len(codes) \in Nat
  OBVIOUS
<1>2. 0 \in reached
  <2> DEFINE u == [k \in 0 .. 0 |-> first]
  <2>1. u = [k \in 0 .. 0 |-> IF k = 0 THEN first ELSE Joined(u[k - 1], codes[k])]
    OBVIOUS
  <2>2. UpTo(0)
    BY <2>1
  <2> HIDE DEF UpTo
  <2> QED
    BY <1>1, <2>2
<1>3. ASSUME NEW n \in 1 .. Len(codes), n - 1 \in reached
      PROVE  n \in reached
  <2>1. UpTo(n - 1)
    BY <1>3
  <2>2. PICK u : u = [k \in 0 .. n - 1 |->
                        IF k = 0 THEN first ELSE Joined(u[k - 1], codes[k])]
    BY <2>1
  <2> DEFINE v == [k \in 0 .. n |->
                     IF k = n THEN Joined(u[n - 1], codes[n]) ELSE u[k]]
  <2>3. ASSUME NEW k \in 0 .. n
        PROVE  v[k] = IF k = 0 THEN first ELSE Joined(v[k - 1], codes[k])
    <3>1. CASE k = n
      <4>1. k # 0 /\ k - 1 \in 0 .. n /\ k - 1 # n
        BY <3>1, <1>1
      <4>2. v[k - 1] = u[k - 1]
        BY <4>1
      <4> QED
        BY <3>1, <4>1, <4>2
    <3>2. CASE k # n
      <4>1. k \in 0 .. n - 1 /\ v[k] = u[k]
        BY <3>2, <1>1
      <4>2. u[k] = IF k = 0 THEN first ELSE Joined(u[k - 1], codes[k])
        BY <2>2, <4>1
      <4>3. k # 0 => v[k - 1] = u[k - 1]
        BY <4>1, <1>1
      <4> QED
        BY <4>1, <4>2, <4>3
    <3> QED
      BY <3>1, <3>2
  <2>4. v = [k \in 0 .. n |-> v[k]]
    OBVIOUS
  <2> HIDE DEF v
  <2>5. v = [k \in 0 .. n |-> IF k = 0 THEN first ELSE Joined(v[k - 1], codes[k])]
    BY <2>3, <2>4
  <2>6. UpTo(n)
    BY <2>5
  <2> HIDE DEF UpTo
  <2> QED
    BY <2>6, <1>1
<1> HIDE DEF reached, UpTo
<1>4. 0 .. Len(codes) \subseteq reached
  BY <1>1, <1>2, <1>3, Counting
<1>5. UpTo(Len(codes))
  BY <1>1, <1>4 DEF reached
<1> QED
  BY <1>5 DEF Chain, UpTo

\* Each link of a chain, and that it is a sequence.
LEMMA ChainLinks ==
  ASSUME NEW S, NEW codes \in Seq(Seq(S)), NEW first \in Seq(S), NEW u,
         Chain(u, first, codes)
  PROVE  /\ u[0] = first
         /\ \A k \in 1 .. Len(codes) :
              codes[k] \in Seq(S) /\ u[k] = Joined(u[k - 1], codes[k])
         /\ \A k \in 0 .. Len(codes) : u[k] \in Seq(S)
<1>1. Len(codes) \in Nat /\ \A k \in 1 .. Len(codes) : codes[k] \in Seq(S)
  OBVIOUS
<1>2. u[0] = first
  BY <1>1 DEF Chain
<1>3. ASSUME NEW k \in 1 .. Len(codes)
      PROVE  u[k] = Joined(u[k - 1], codes[k])
  <2>1. k \in 0 .. Len(codes) /\ k # 0
    BY <1>1
  <2> QED
    BY <2>1 DEF Chain
<1> DEFINE typed == {k \in 0 .. Len(codes) : u[k] \in Seq(S)}
<1>4. 0 \in typed
  BY <1>1, <1>2
<1>5. ASSUME NEW k \in 1 .. Len(codes), k - 1 \in typed
      PROVE  k \in typed
  <2>1. u[k - 1] \in Seq(S) /\ codes[k] \in Seq(S) /\ k \in 0 .. Len(codes)
    BY <1>1, <1>5
  <2>2. Joined(u[k - 1], codes[k]) \in Seq(S)
    BY <2>1, JoinedIsSeq
  <2> QED
    BY <1>3, <2>1, <2>2
<1> HIDE DEF typed
<1>6. 0 .. Len(codes) \subseteq typed
  BY <1>1, <1>4, <1>5, Counting
<1> QED
  BY <1>1, <1>2, <1>3, <1>6 DEF typed

\* A chain begins with each of its links.
LEMMA ChainBegins ==
  ASSUME NEW S, NEW codes \in Seq(Seq(S)), NEW first \in Seq(S), NEW u,
         Chain(u, first, codes), NEW k \in 0 .. Len(codes)
  PROVE  \E rest \in Seq(S) : u[Len(codes)] = Joined(u[k], rest)
<1>1. /\ \A m \in 1 .. Len(codes) :
           codes[m] \in Seq(S) /\ u[m] = Joined(u[m - 1], codes[m])
      /\ \A m \in 0 .. Len(codes) : u[m] \in Seq(S)
  BY ChainLinks
<1>2. PICK n \in Nat : n = Len(codes)
  OBVIOUS
<1> DEFINE Begins(m) == \E rest \in Seq(S) : u[n] = Joined(u[m], rest)
           begun == {d \in 0 .. n : Begins(n - d)}
<1>3. 0 \in begun
  <2>1. u[n] \in Seq(S)
    BY <1>1, <1>2
  <2>2. u[n] = Joined(u[n], <<>>) /\ <<>> \in Seq(S)
    BY <2>1, NothingJoined
  <2>3. Begins(n)
    BY <2>2
  <2> HIDE DEF Begins
  <2>4. n - 0 = n
    BY <1>2
  <2> QED
    BY <1>2, <2>3, <2>4
<1>4. ASSUME NEW d \in 1 .. n, d - 1 \in begun
      PROVE  d \in begun
  <2> DEFINE m == n - (d - 1)
  <2>1. m \in 1 .. n /\ m \in Nat
    BY <1>2
  <2>2. m - 1 = n - d /\ m - 1 \in 0 .. n
    BY <1>2, <2>1
  <2>3. Begins(m)
    BY <1>4
  <2> HIDE DEF m
  <2>4. PICK rest \in Seq(S) : u[n] = Joined(u[m], rest)
    BY <2>3
  <2>5. codes[m] \in Seq(S) /\ u[m] = Joined(u[m - 1], codes[m]) /\ u[m - 1] \in Seq(S)
    BY <1>1, <1>2, <2>1, <2>2
  <2>6. /\ Joined(codes[m], rest) \in Seq(S)
        /\ u[n] = Joined(u[m - 1], Joined(codes[m], rest))
    <3>1. Joined(codes[m], rest) \in Seq(S)
      BY <2>4, <2>5, JoinedIsSeq
    <3> QED
      BY <2>4, <2>5, <3>1, Regroup
  <2>7. Begins(m - 1)
    BY <2>6
  <2> HIDE DEF Begins
  <2> QED
    BY <1>2, <2>2, <2>7
<1> HIDE DEF begun, Begins
<1>5. 0 .. n \subseteq begun
  BY <1>2, <1>3, <1>4, Counting
<1>6. n - k \in 0 .. n /\ n - (n - k) = k
  BY <1>2
<1>7. Begins(k)
  BY <1>5, <1>6 DEF begun
<1> QED
  BY <1>2, <1>7 DEF Begins

\* After a link come the next code and what follows it.
LEMMA ChainGoesOn ==
  ASSUME NEW S, NEW codes \in Seq(Seq(S)), NEW first \in Seq(S), NEW u,
         Chain(u, first, codes), NEW k \in 1 .. Len(codes)
  PROVE  \E rest \in Seq(S) :
           /\ Joined(codes[k], rest) \in Seq(S)
           /\ u[Len(codes)] = Joined(u[k - 1], Joined(codes[k], rest))
<1>1. k \in 0 .. Len(codes) /\ k - 1 \in 0 .. Len(codes)
  OBVIOUS
<1>2. PICK rest \in Seq(S) : u[Len(codes)] = Joined(u[k], rest)
  BY <1>1, ChainBegins
<1>3. /\ codes[k] \in Seq(S) /\ u[k] = Joined(u[k - 1], codes[k])
      /\ u[k - 1] \in Seq(S)
  BY <1>1, ChainLinks
<1>4. Joined(codes[k], rest) \in Seq(S)
  BY <1>2, <1>3, JoinedIsSeq
<1>5. u[Len(codes)] = Joined(u[k - 1], Joined(codes[k], rest))
  BY <1>2, <1>3, Regroup
<1> QED
  BY <1>4, <1>5

\* No code begins another, whatever follows.
PrefixFree(codes, S) ==
  \A c, d \in codes : \A r, s \in Seq(S) : Joined(c, r) = Joined(d, s) => c = d

\* Two chains that agree are of the same codes: the shorter one.
LEMMA ShorterChain ==
  ASSUME NEW S, NEW C, C \subseteq Seq(S), <<>> \notin C, PrefixFree(C, S),
         NEW first \in Seq(S),
         NEW a \in Seq(C), NEW u, Chain(u, first, a),
         NEW b \in Seq(C), NEW v, Chain(v, first, b),
         u[Len(a)] = v[Len(b)], Len(a) <= Len(b)
  PROVE  a = b
<1>1. a \in Seq(Seq(S)) /\ b \in Seq(Seq(S))
  BY SeqMonotonic
<1>2. Len(a) \in Nat /\ Len(b) \in Nat
  OBVIOUS
<1>3. /\ u[0] = first
      /\ \A k \in 1 .. Len(a) : a[k] \in Seq(S) /\ u[k] = Joined(u[k - 1], a[k])
      /\ \A k \in 0 .. Len(a) : u[k] \in Seq(S)
  BY <1>1, ChainLinks
<1>4. /\ v[0] = first
      /\ \A k \in 1 .. Len(b) : b[k] \in Seq(S) /\ v[k] = Joined(v[k - 1], b[k])
      /\ \A k \in 0 .. Len(b) : v[k] \in Seq(S)
  BY <1>1, ChainLinks
<1>5. ASSUME NEW k \in 1 .. Len(a)
      PROVE  \E r \in Seq(S) : /\ Joined(a[k], r) \in Seq(S)
                               /\ u[Len(a)] = Joined(u[k - 1], Joined(a[k], r))
  BY <1>1, ChainGoesOn
<1>6. ASSUME NEW k \in 1 .. Len(b)
      PROVE  \E s \in Seq(S) : /\ Joined(b[k], s) \in Seq(S)
                               /\ v[Len(b)] = Joined(v[k - 1], Joined(b[k], s))
  BY <1>1, ChainGoesOn
<1> DEFINE Agree(k) == u[k] = v[k] /\ \A l \in 1 .. k : a[l] = b[l]
           agreed == {k \in 0 .. Len(a) : Agree(k)}
<1>7. 0 \in agreed
  BY <1>2, <1>3, <1>4
<1>8. ASSUME NEW k \in 1 .. Len(a), k - 1 \in agreed
      PROVE  k \in agreed
  <2>1. u[k - 1] = v[k - 1] /\ \A l \in 1 .. k - 1 : a[l] = b[l]
    BY <1>8
  <2>2. /\ k \in 0 .. Len(a) /\ k \in 0 .. Len(b) /\ k \in 1 .. Len(b)
        /\ k - 1 \in 0 .. Len(a)
    BY <1>2
  <2> HIDE DEF agreed, Agree
  <2>3. PICK r \in Seq(S) : /\ Joined(a[k], r) \in Seq(S)
                            /\ u[Len(a)] = Joined(u[k - 1], Joined(a[k], r))
    BY <1>5
  <2>4. PICK s \in Seq(S) : /\ Joined(b[k], s) \in Seq(S)
                            /\ v[Len(b)] = Joined(v[k - 1], Joined(b[k], s))
    BY <1>6, <2>2
  <2>5. /\ u[k] = Joined(u[k - 1], a[k]) /\ v[k] = Joined(u[k - 1], b[k])
        /\ u[k - 1] \in Seq(S)
    BY <1>3, <1>4, <2>1, <2>2
  <2>6. Joined(a[k], r) = Joined(b[k], s)
    <3>1. Joined(u[k - 1], Joined(a[k], r)) = Joined(u[k - 1], Joined(b[k], s))
      BY <2>1, <2>3, <2>4
    <3> QED
      BY <2>3, <2>4, <2>5, <3>1, CancelLeft
  <2>7. a[k] \in C /\ b[k] \in C
    BY <2>2
  <2>8. a[k] = b[k]
    BY <2>6, <2>7 DEF PrefixFree
  <2>9. \A l \in 1 .. k : l = k \/ l \in 1 .. k - 1
    OBVIOUS
  <2>10. Agree(k)
    BY <2>1, <2>5, <2>8, <2>9 DEF Agree
  <2> QED
    BY <2>2, <2>10 DEF agreed
<1> HIDE DEF agreed, Agree
<1>9. 0 .. Len(a) \subseteq agreed
  BY <1>2, <1>7, <1>8, Counting
<1>10. Agree(Len(a))
  <2>1. Len(a) \in 0 .. Len(a)
    BY <1>2
  <2> QED
    BY <1>9, <2>1 DEF agreed
<1>11. u[Len(a)] = v[Len(a)] /\ \A l \in 1 .. Len(a) : a[l] = b[l]
  BY <1>10 DEF Agree
<1>12. Len(a) = Len(b)
  <2> SUFFICES ASSUME Len(a) < Len(b)
               PROVE  FALSE
    BY <1>2
  <2>1. PICK k \in 1 .. Len(b) : k = Len(a) + 1
    BY <1>2
  <2>2. k - 1 = Len(a) /\ k \in 0 .. Len(b) /\ k - 1 \in 0 .. Len(b)
    BY <1>2, <2>1
  <2>3. PICK s \in Seq(S) : /\ Joined(b[k], s) \in Seq(S)
                            /\ v[Len(b)] = Joined(v[k - 1], Joined(b[k], s))
    BY <1>6
  <2>4. b[k] \in C /\ b[k] \in Seq(S) /\ v[k - 1] \in Seq(S)
    BY <1>4, <2>2
  <2>5. Joined(v[k - 1], Joined(b[k], s)) = v[k - 1]
    BY <1>11, <2>2, <2>3
  <2>6. Joined(b[k], s) = <<>>
    BY <2>3, <2>4, <2>5, NothingAdded
  <2>7. b[k] = <<>>
    BY <2>4, <2>6, NothingLeft
  <2> QED
    BY <2>4, <2>7
<1> QED
  BY <1>11, <1>12, SeqEqual

\* Two chains that agree are of the same codes.
LEMMA SameChain ==
  ASSUME NEW S, NEW C, C \subseteq Seq(S), <<>> \notin C, PrefixFree(C, S),
         NEW first \in Seq(S),
         NEW a \in Seq(C), NEW u, Chain(u, first, a),
         NEW b \in Seq(C), NEW v, Chain(v, first, b),
         u[Len(a)] = v[Len(b)]
  PROVE  a = b
<1>1. Len(a) <= Len(b) \/ Len(b) <= Len(a)
  OBVIOUS
<1> QED
  BY <1>1, ShorterChain
-----------------------------------------------------------------------------
(* The parts of a leg.                                                     *)

\* The words the commitment has of its own.
Said == {"tx", "message", "digest", "true", "false", "legacy"}

\* What is hashed.
Tokens == Token \union {Word(w) : w \in Said}

\* A word, a number and a mark are not the same.
LEMMA MarksDiffer ==
  /\ \A n \in Numeral : n # End /\ n # Unit
  /\ \A w : Word(w) # End /\ Word(w) # Unit
<1>1. DOMAIN End = {"mark"} /\ DOMAIN Unit = {"mark"}
  BY DEF End, Unit
<1>2. \A n \in Numeral : DOMAIN n = {"form", "says"}
  BY DEF Numeral
<1>3. \A w : DOMAIN Word(w) = {"word"}
  BY DEF Word
<1>4. "form" \notin {"mark"} /\ "word" \notin {"mark"}
  OBVIOUS
<1> QED
  BY <1>1, <1>2, <1>3, <1>4

\* A part ends in the mark that is not in its text.
Delimits(part, by) ==
  \E text \in Seq(Tokens) : part = Append(text, by) /\ ~Holds(text, by)

\* One token that is not the mark makes a part, and so does none.
LEMMA ShortPart ==
  ASSUME NEW by \in {End, Unit}
  PROVE  /\ Delimits(Append(<<>>, by), by)
         /\ \A x \in Tokens : x # by => Delimits(Append(<<x>>, by), by)
<1>1. <<>> \in Seq(Tokens) /\ ~Holds(<<>>, by)
  BY DEF Holds
<1>2. ASSUME NEW x \in Tokens, x # by
      PROVE  <<x>> \in Seq(Tokens) /\ ~Holds(<<x>>, by)
  BY <1>2 DEF Holds
<1> QED
  BY <1>1, <1>2 DEF Delimits

\* Texts are made of tokens.
LEMMA TextTokens == Token \subseteq Tokens /\ \A text \in Text : text \in Seq(Tokens)
<1>1. Token \subseteq Tokens
  BY DEF Tokens
<1> QED
  BY <1>1, SeqMonotonic DEF Text

\* A number is written as one token that is no mark, or not at all.
LEMMA NumeralPart ==
  ASSUME NEW t \in Numeral, NEW by \in {End, Unit}
  PROVE  Delimits(Append(Lower(t), by), by) /\ Delimits(Append(Unprefixed(t), by), by)
<1>1. ASSUME NEW f \in Forms
      PROVE  [t EXCEPT !.form = f] \in Numeral
  BY DEF Numeral
<1>2. {"hex", "bare"} \subseteq Forms /\ "junk" \notin Forms
  BY DEF Forms
<1>3. Lower(t) = <<>> \/ \E n \in Numeral : Lower(t) = <<n>>
  <2>1. CASE t.form = "HEX"
    BY <1>1, <1>2, <2>1 DEF Lower
  <2>2. CASE t.form # "HEX"
    <3>1. t.form # "junk"
      BY <1>2 DEF Numeral
    <3> QED
      BY <2>2, <3>1 DEF Lower, Raw
  <2> QED
    BY <2>1, <2>2
<1>4. Unprefixed(t) = <<>> \/ \E n \in Numeral : Unprefixed(t) = <<n>>
  <2>1. CASE t.form \in {"hex", "twice"}
    BY <1>1, <1>2, <2>1 DEF Unprefixed
  <2>2. CASE t.form \notin {"hex", "twice"}
    BY <1>3, <2>2 DEF Unprefixed
  <2> QED
    BY <2>1, <2>2
<1>5. \A n \in Numeral : n \in Tokens /\ n # by
  BY MarksDiffer, TextTokens DEF Token
<1> QED
  BY <1>3, <1>4, <1>5, ShortPart

\* A field that is not read as a number may be any text.
LEMMA FieldPart ==
  ASSUME NEW t \in Field, NEW by \in {End, Unit}, ~Holds(Lower(t), by)
  PROVE  Delimits(Append(Lower(t), by), by)
<1>1. CASE t \in Numeral
  BY <1>1, NumeralPart
<1>2. CASE t \in [form : {"junk"}, text : Text]
  <2>1. Lower(t) = t.text
    BY <1>2 DEF Lower, Raw, IsBlank
  <2> QED
    BY <1>2, <2>1, TextTokens DEF Delimits
<1> QED
  BY <1>1, <1>2 DEF Field

\* What is read is a number.
LEMMA ReadIsNumeral ==
  ASSUME NEW t \in Field,
         \/ IsBlank(t)
         \/ ParseHex(t) # Refused
         \/ \E width : ParseBelow(t, width) # Refused
  PROVE  t \in Numeral
<1>1. t.form # "junk"
  BY DEF IsBlank, ParseHex, ParseBelow
<1> QED
  BY <1>1 DEF Field

\* The fields of a transaction that is signed, but for the fees.
LEMMA TxFields ==
  ASSUME NEW tx \in Tx, TxSigns(tx)
  PROVE  /\ {tx.to, tx.value, tx.nonce, tx.gas, tx.data} \subseteq Numeral
         /\ tx.mode \in {"", "legacy", "eip1559"}
         /\ IF tx.mode = "legacy" THEN tx.price \in Numeral ELSE tx.cap \in Numeral
<1> DEFINE made == TxPayload(tx)
<1>1. Refused \notin {made.to, made.value, made.nonce, made.gas, made.input, made.fees}
  BY DEF TxSigns
<1>2. /\ made.to = Recipient(tx) /\ made.value = ParseBelow(tx.value, U256)
      /\ made.nonce = ParseU64(tx.nonce) /\ made.gas = ParseU64(tx.gas)
      /\ made.input = ParseBytes(tx.data) /\ made.fees = Fees(tx)
  BY DEF TxPayload
<1> HIDE DEF made
<1>3. {tx.to, tx.value, tx.nonce, tx.gas, tx.data, tx.price, tx.cap} \subseteq Field
  BY DEF Tx
<1>4. tx.to \in Numeral
  BY <1>1, <1>2, <1>3, ReadIsNumeral DEF Recipient
<1>5. tx.value \in Numeral
  BY <1>1, <1>2, <1>3, ReadIsNumeral
<1>6. ASSUME NEW t \in Field, ParseU64(t) # Refused
      PROVE  t \in Numeral
  <2>1. ParseU64(t) = ParseBelow(t, U128)
    BY <1>6 DEF ParseU64, ToU64
  <2> QED
    BY <1>6, <2>1, ReadIsNumeral
<1>7. tx.nonce \in Numeral /\ tx.gas \in Numeral
  BY <1>1, <1>2, <1>3, <1>6
<1>8. tx.data \in Numeral
  BY <1>1, <1>2, <1>3, ReadIsNumeral DEF ParseBytes
<1>9. Fees(tx) # Refused
  BY <1>1, <1>2
<1>10. tx.mode \in {"", "legacy", "eip1559"}
  BY <1>9 DEF Fees
<1>11. IF tx.mode = "legacy" THEN tx.price \in Numeral ELSE tx.cap \in Numeral
  BY <1>3, <1>9, ReadIsNumeral DEF Fees
<1> QED
  BY <1>4, <1>5, <1>7, <1>8, <1>10, <1>11

\* The legs that are signed and have no mark where it could be mistaken.
DelimitedLeg(leg) ==
  /\ leg.kind = "message" => ~Holds(leg.text, End)
  /\ leg.kind = "digest" => ~Holds(leg.purpose, End)
  /\ leg.kind = "tx" =>
       ~Holds(Lower(leg.price), Unit) /\ ~Holds(Lower(leg.cap), Unit)

SignedLegs == {leg \in Leg : DelimitedLeg(leg) /\ LegSigns(leg)}

\* A leg is of its kind.
LEMMA LegKinds ==
  ASSUME NEW leg \in Leg
  PROVE  \/ leg.kind = "tx" /\ leg \in Tx
         \/ leg.kind = "message" /\ leg \in Message
         \/ leg.kind = "digest" /\ leg \in Digest
  BY DEF Leg, Tx, Message, Digest

\* The marks that end the parts of a leg of each kind.
Marks(kind) ==
  CASE kind = "tx" -> <<End, End, Unit, Unit, Unit, Unit, Unit, Unit, Unit,
                        Unit, Unit, End>>
    [] kind = "message" -> <<End, End>>
    [] kind = "digest" -> <<End, Unit, End>>

\* The parts of a leg end in the marks of its kind.
Marked(leg) ==
  /\ Len(Parts(leg)) = Len(Marks(leg.kind))
  /\ Len(Parts(leg)) \in Nat \ {0}
  /\ Parts(leg) = [k \in 1 .. Len(Parts(leg)) |-> Parts(leg)[k]]
  /\ Parts(leg)[1] = Append(<<Word(leg.kind)>>, End) /\ Marks(leg.kind)[1] = End
  /\ \A k \in 1 .. Len(Parts(leg)) :
       /\ Marks(leg.kind)[k] \in {End, Unit}
       /\ Delimits(Parts(leg)[k], Marks(leg.kind)[k])

\* The first part of each leg.
LEMMA OpeningPart ==
  ASSUME NEW leg \in Leg
  PROVE  /\ Opening(leg) = Append(<<Word(leg.kind)>>, End)
         /\ Delimits(Opening(leg), End)
<1>1. leg.kind \in Said
  BY LegKinds DEF Said
<1>2. Word(leg.kind) \in Tokens /\ Word(leg.kind) # End
  BY <1>1, MarksDiffer DEF Tokens
<1>3. Opening(leg) = Append(<<Word(leg.kind)>>, End)
  BY DEF Opening, Line
<1> QED
  BY <1>2, <1>3, ShortPart

LEMMA TxMarked ==
  ASSUME NEW leg \in SignedLegs, leg \in Tx, leg.kind = "tx"
  PROVE  Marked(leg)
<1> DEFINE parts == TxParts(leg)
           marks == <<End, End, Unit, Unit, Unit, Unit, Unit, Unit, Unit,
                      Unit, Unit, End>>
<1>1. Parts(leg) = parts /\ Marks(leg.kind) = marks
  BY DEF Parts, Marks
<1>2. leg \in Leg /\ DelimitedLeg(leg) /\ TxSigns(leg)
  BY DEF SignedLegs, LegSigns
<1>3. Delimits(parts[1], End) /\ parts[1] = Append(<<Word(leg.kind)>>, End)
  BY <1>2, OpeningPart DEF TxParts
<1>4. Delimits(parts[2], End)
  <2>1. Dec(leg.chain) \in Numeral
    BY DEF Tx, Dec, Numeral, Forms
  <2>2. Dec(leg.chain) \in Tokens /\ Dec(leg.chain) # End
    BY <2>1, MarksDiffer, TextTokens DEF Token
  <2>3. parts[2] = Append(<<Dec(leg.chain)>>, End)
    BY DEF TxParts, Line
  <2> QED
    BY <2>2, <2>3, ShortPart
<1>5. /\ Delimits(parts[3], Unit) /\ Delimits(parts[5], Unit)
      /\ Delimits(parts[6], Unit) /\ Delimits(parts[7], Unit)
      /\ Delimits(parts[8], Unit)
  <2>1. {leg.to, leg.value, leg.nonce, leg.gas, leg.data} \subseteq Numeral
    BY <1>2, TxFields
  <2>2. /\ parts[3] = Append(Lower(leg.to), Unit)
        /\ parts[5] = Append(Lower(leg.value), Unit)
        /\ parts[6] = Append(Lower(leg.nonce), Unit)
        /\ parts[7] = Append(Lower(leg.gas), Unit)
        /\ parts[8] = Append(Lower(leg.data), Unit)
    BY DEF TxParts, Part
  <2> HIDE DEF parts
  <2> QED
    BY <2>1, <2>2, NumeralPart
<1>6. Delimits(parts[4], Unit)
  <2>1. parts[4] = Append(Yes(leg.create), Unit)
    BY DEF TxParts, Part
  <2>2. \A w \in Said : Word(w) \in Tokens /\ Word(w) # Unit
    BY MarksDiffer DEF Tokens
  <2>3. \E x \in Tokens : x # Unit /\ Yes(leg.create) = <<x>>
    BY <2>2 DEF Yes, Said
  <2> HIDE DEF parts
  <2> QED
    BY <2>1, <2>3, ShortPart
<1>7. Delimits(parts[9], Unit)
  <2>1. parts[9] = Append(Mode(leg.mode), Unit)
    BY DEF TxParts, Part
  <2>2. \A w : Word(w) # Unit
    BY MarksDiffer
  <2>3. Mode(leg.mode) = <<>> \/ Mode(leg.mode) = <<Word(leg.mode)>>
    BY <1>2, TxFields DEF Mode
  <2>4. Word(leg.mode) \in Tokens
    BY DEF Tx, Tokens, Token, Word
  <2> HIDE DEF parts
  <2> QED
    BY <2>1, <2>2, <2>3, <2>4, ShortPart
<1>8. Delimits(parts[10], Unit) /\ Delimits(parts[11], Unit)
  <2>1. ~Holds(Lower(leg.price), Unit) /\ ~Holds(Lower(leg.cap), Unit)
    BY <1>2 DEF DelimitedLeg
  <2>2. leg.price \in Field /\ leg.cap \in Field
    BY DEF Tx
  <2>3. parts[10] = Append(Lower(leg.cap), Unit) /\ parts[11] = Append(Lower(leg.price), Unit)
    BY DEF TxParts, Part
  <2> HIDE DEF parts
  <2> QED
    BY <2>1, <2>2, <2>3, FieldPart
<1>9. Delimits(parts[12], End)
  <2>1. parts[12] = Append(<<>>, End)
    BY DEF TxParts, Line
  <2> HIDE DEF parts
  <2> QED
    BY <2>1, ShortPart
<1>10. /\ marks[1] = End /\ marks[2] = End /\ marks[3] = Unit /\ marks[4] = Unit
       /\ marks[5] = Unit /\ marks[6] = Unit /\ marks[7] = Unit /\ marks[8] = Unit
       /\ marks[9] = Unit /\ marks[10] = Unit /\ marks[11] = Unit /\ marks[12] = End
       /\ Len(marks) = 12
  OBVIOUS
<1>11. Len(parts) = 12 /\ parts = [k \in 1 .. 12 |-> parts[k]]
  BY DEF TxParts
<1> HIDE DEF parts, marks
<1>12. ASSUME NEW k \in 1 .. 12
       PROVE  marks[k] \in {End, Unit} /\ Delimits(parts[k], marks[k])
  <2>1. \/ k = 1 \/ k = 2 \/ k = 3 \/ k = 4 \/ k = 5 \/ k = 6 \/ k = 7 \/ k = 8
        \/ k = 9 \/ k = 10 \/ k = 11 \/ k = 12
    OBVIOUS
  <2> QED
    BY <2>1, <1>3, <1>4, <1>5, <1>6, <1>7, <1>8, <1>9, <1>10
<1> QED
  BY <1>1, <1>3, <1>10, <1>11, <1>12 DEF Marked

LEMMA LegMarked ==
  ASSUME NEW leg \in SignedLegs
  PROVE  Marked(leg)
<1>1. leg \in Leg /\ DelimitedLeg(leg) /\ LegSigns(leg)
  BY DEF SignedLegs
<1>2. Opening(leg) = Append(<<Word(leg.kind)>>, End) /\ Delimits(Opening(leg), End)
  BY <1>1, OpeningPart
<1>3. CASE leg.kind = "message" /\ leg \in Message
  <2>1. Parts(leg) = <<Opening(leg), Line(leg.text)>> /\ Marks(leg.kind) = <<End, End>>
    BY <1>3 DEF Parts, Marks
  <2>2. Delimits(Line(leg.text), End)
    BY <1>1, <1>3, TextTokens DEF Message, DelimitedLeg, Delimits, Line
  <2> DEFINE parts == <<Opening(leg), Line(leg.text)>>
             marks == <<End, End>>
  <2>3. /\ Len(parts) = 2 /\ parts = [k \in 1 .. 2 |-> parts[k]]
        /\ parts[1] = Opening(leg) /\ parts[2] = Line(leg.text)
        /\ Len(marks) = 2 /\ marks[1] = End /\ marks[2] = End
    OBVIOUS
  <2> HIDE DEF parts, marks
  <2>4. \A k \in 1 .. 2 : k = 1 \/ k = 2
    OBVIOUS
  <2>5. Parts(leg) = parts /\ Marks(leg.kind) = marks
    BY <2>1 DEF parts, marks
  <2>6. ASSUME NEW k \in 1 .. 2
        PROVE  marks[k] \in {End, Unit} /\ Delimits(parts[k], marks[k])
    BY <1>2, <2>2, <2>3, <2>4
  <2>7. parts[1] = Append(<<Word(leg.kind)>>, End) /\ 2 \in Nat \ {0}
    BY <1>2, <2>3
  <2> QED
    BY <2>3, <2>5, <2>6, <2>7 DEF Marked
<1>4. CASE leg.kind = "digest" /\ leg \in Digest
  <2>1. /\ Parts(leg) = <<Opening(leg), Part(Unprefixed(leg.digest)), Line(leg.purpose)>>
        /\ Marks(leg.kind) = <<End, Unit, End>>
    BY <1>4 DEF Parts, Marks
  <2>2. Delimits(Line(leg.purpose), End)
    BY <1>1, <1>4, TextTokens DEF Digest, DelimitedLeg, Delimits, Line
  <2>3. Delimits(Part(Unprefixed(leg.digest)), Unit)
    <3>1. leg.digest \in Numeral
      BY <1>1, <1>4, ReadIsNumeral DEF LegSigns, Digest
    <3> QED
      BY <3>1, NumeralPart DEF Part
  <2> DEFINE parts == <<Opening(leg), Part(Unprefixed(leg.digest)), Line(leg.purpose)>>
             marks == <<End, Unit, End>>
  <2>4. /\ Len(parts) = 3 /\ parts = [k \in 1 .. 3 |-> parts[k]]
        /\ parts[1] = Opening(leg) /\ parts[2] = Part(Unprefixed(leg.digest))
        /\ parts[3] = Line(leg.purpose)
        /\ Len(marks) = 3 /\ marks[1] = End /\ marks[2] = Unit /\ marks[3] = End
    OBVIOUS
  <2> HIDE DEF parts, marks
  <2>5. \A k \in 1 .. 3 : k = 1 \/ k = 2 \/ k = 3
    OBVIOUS
  <2>6. Parts(leg) = parts /\ Marks(leg.kind) = marks
    BY <2>1 DEF parts, marks
  <2>7. ASSUME NEW k \in 1 .. 3
        PROVE  marks[k] \in {End, Unit} /\ Delimits(parts[k], marks[k])
    BY <1>2, <2>2, <2>3, <2>4, <2>5
  <2>8. parts[1] = Append(<<Word(leg.kind)>>, End) /\ 3 \in Nat \ {0}
    BY <1>2, <2>4
  <2> QED
    BY <2>4, <2>6, <2>7, <2>8 DEF Marked
<1>5. CASE leg.kind = "tx" /\ leg \in Tx
  BY <1>5, TxMarked
<1> QED
  BY <1>1, <1>3, <1>4, <1>5, LegKinds

-----------------------------------------------------------------------------
(* The codes of the legs. *)

\* What is hashed is a chain.
LEMMA HashedIsChain ==
  ASSUME NEW S, NEW codes \in Seq(S), NEW first
  PROVE  \E u : Chain(u, first, codes) /\ Hashed(first, codes) = u[Len(codes)]
<1> DEFINE Made(u) == u = [k \in 0 .. Len(codes) |->
                             IF k = 0 THEN first ELSE u[k - 1] \o codes[k]]
           made == CHOOSE u : Made(u)
<1>1. \A u : Chain(u, first, codes) <=> Made(u)
  BY DEF Chain, Joined
<1>2. \E u : Made(u)
  BY <1>1, ChainExists
<1>3. Hashed(first, codes) = made[Len(codes)]
  BY DEF Hashed
<1> HIDE DEF Made
<1>4. Made(made)
  BY <1>2
<1> HIDE DEF made
<1> QED
  BY <1>1, <1>3, <1>4

\* Up to its mark a text is told from what follows.
LEMMA UpToTheMark ==
  ASSUME NEW S, NEW by \in S, NEW a \in Seq(S), NEW b \in Seq(S),
         ~Holds(a, by), ~Holds(b, by), NEW r \in Seq(S), NEW s \in Seq(S),
         Joined(Append(a, by), r) = Joined(Append(b, by), s)
  PROVE  a = b
<1>1. Len(a) \in Nat /\ Len(b) \in Nat /\ Len(r) \in Nat /\ Len(s) \in Nat
  OBVIOUS
<1>2. ASSUME NEW c \in Seq(S), NEW t \in Seq(S)
      PROVE  /\ \A k \in 1 .. Len(c) : Joined(Append(c, by), t)[k] = c[k]
             /\ Joined(Append(c, by), t)[Len(c) + 1] = by
  <2> DEFINE whole == Append(c, by)
  <2>1. /\ whole \in Seq(S) /\ Len(whole) = Len(c) + 1 /\ Len(c) \in Nat /\ Len(t) \in Nat
        /\ \A k \in 1 .. Len(c) : whole[k] = c[k]
        /\ whole[Len(c) + 1] = by
    OBVIOUS
  <2> HIDE DEF whole
  <2>2. \A k \in 1 .. Len(c) + 1 :
          k \in 1 .. Len(whole) + Len(t) /\ k <= Len(whole)
    BY <2>1
  <2>3. \A k \in 1 .. Len(c) + 1 : Joined(whole, t)[k] = whole[k]
    BY <2>1, <2>2, ConcatProperties DEF Joined
  <2>4. /\ Len(c) + 1 \in 1 .. Len(c) + 1
        /\ \A k \in 1 .. Len(c) : k \in 1 .. Len(c) + 1
    BY <2>1
  <2>5. /\ \A k \in 1 .. Len(c) : Joined(whole, t)[k] = c[k]
        /\ Joined(whole, t)[Len(c) + 1] = by
    BY <2>1, <2>3, <2>4
  <2> QED
    BY <2>5 DEF whole
<1>3. ~(Len(a) < Len(b))
  <2> SUFFICES ASSUME Len(a) < Len(b)
               PROVE  FALSE
    OBVIOUS
  <2>1. Len(a) + 1 \in 1 .. Len(b)
    BY <1>1
  <2>2. b[Len(a) + 1] = by
    BY <1>2, <2>1
  <2> QED
    BY <2>1, <2>2 DEF Holds
<1>4. ~(Len(b) < Len(a))
  <2> SUFFICES ASSUME Len(b) < Len(a)
               PROVE  FALSE
    OBVIOUS
  <2>1. Len(b) + 1 \in 1 .. Len(a)
    BY <1>1
  <2>2. a[Len(b) + 1] = by
    BY <1>2, <2>1
  <2> QED
    BY <2>1, <2>2 DEF Holds
<1>5. Len(a) = Len(b)
  BY <1>1, <1>3, <1>4
<1>6. \A k \in 1 .. Len(a) : a[k] = b[k]
  BY <1>2, <1>5
<1> QED
  BY <1>5, <1>6, SeqEqual

\* Two parts with one mark, each with something after it, are the same.
LEMMA SamePart ==
  ASSUME NEW by \in {End, Unit}, NEW p, NEW q, Delimits(p, by), Delimits(q, by),
         NEW r \in Seq(Tokens), NEW s \in Seq(Tokens), Joined(p, r) = Joined(q, s)
  PROVE  p = q
<1>1. by \in Tokens
  BY TextTokens DEF Token
<1>2. PICK a \in Seq(Tokens) : p = Append(a, by) /\ ~Holds(a, by)
  BY DEF Delimits
<1>3. PICK b \in Seq(Tokens) : q = Append(b, by) /\ ~Holds(b, by)
  BY DEF Delimits
<1> QED
  BY <1>1, <1>2, <1>3, UpToTheMark

\* What a code begins with, and each of its parts follows.
Start == <<>>

\* The parts of a leg, and the code they make.
LEMMA PartsChain ==
  ASSUME NEW leg \in SignedLegs
  PROVE  /\ Parts(leg) \in Seq(Seq(Tokens)) /\ Start \in Seq(Tokens)
         /\ \E u : Chain(u, Start, Parts(leg)) /\ EncodedLeg(leg) = u[Len(Parts(leg))]
<1>1. Marked(leg)
  BY LegMarked
<1>2. ASSUME NEW k \in 1 .. Len(Parts(leg))
      PROVE  Parts(leg)[k] \in Seq(Tokens)
  <2>1. Marks(leg.kind)[k] \in Tokens /\ Delimits(Parts(leg)[k], Marks(leg.kind)[k])
    BY <1>1, TextTokens DEF Marked, Token
  <2> QED
    BY <2>1 DEF Delimits
<1>3. Parts(leg) \in Seq(Seq(Tokens))
  <2> DEFINE n == Len(Parts(leg))
             parts == Parts(leg)
  <2>1. n \in Nat /\ \A k \in 1 .. n : parts[k] \in Seq(Tokens)
    BY <1>1, <1>2 DEF Marked
  <2>2. parts = [k \in 1 .. n |-> parts[k]]
    BY <1>1 DEF Marked
  <2> HIDE DEF n, parts
  <2>3. parts \in [1 .. n -> Seq(Tokens)]
    BY <2>1, <2>2
  <2>4. parts \in Seq(Seq(Tokens))
    BY <2>1, <2>3
  <2> QED
    BY <2>4 DEF parts
<1>4. EncodedLeg(leg) = Hashed(Start, Parts(leg)) /\ Start \in Seq(Tokens)
  BY DEF EncodedLeg, Start
<1> QED
  BY <1>3, <1>4, HashedIsChain

\* Where a code goes on, so does what the code is followed by.
LEMMA PartGoesOn ==
  ASSUME NEW S, NEW start \in Seq(S), NEW e \in Seq(Seq(S)), NEW w,
         Chain(w, start, e), NEW k \in 1 .. Len(e), NEW t \in Seq(S)
  PROVE  \E z \in Seq(S) :
           /\ Joined(e[k], z) \in Seq(S) /\ w[k - 1] \in Seq(S)
           /\ Joined(w[Len(e)], t) = Joined(w[k - 1], Joined(e[k], z))
           /\ w[k] = Joined(w[k - 1], e[k])
<1>1. PICK rest \in Seq(S) : /\ Joined(e[k], rest) \in Seq(S)
                                  /\ w[Len(e)] = Joined(w[k - 1], Joined(e[k], rest))
  <2>1. \E rest \in Seq(S) : /\ Joined(e[k], rest) \in Seq(S)
                             /\ w[Len(e)] = Joined(w[k - 1], Joined(e[k], rest))
    <3>1. start \in Seq(S) /\ e \in Seq(Seq(S)) /\ Chain(w, start, e) /\ k \in 1 .. Len(e)
      OBVIOUS
    <3> QED
      BY <3>1, ChainGoesOn
  <2> QED
    BY <2>1
<1>2. /\ k - 1 \in 0 .. Len(e) /\ e[k] \in Seq(S)
      /\ w[k] = Joined(w[k - 1], e[k]) /\ w[k - 1] \in Seq(S)
  BY ChainLinks
<1>3. PICK y \in Seq(S) : y = Joined(e[k], rest)
  BY <1>1
<1>4. Joined(w[Len(e)], t) = Joined(w[k - 1], Joined(y, t))
  <2>1. PICK whole : whole = Joined(w[Len(e)], t)
    OBVIOUS
  <2>2. w[Len(e)] = Joined(w[k - 1], y) /\ w[k - 1] \in Seq(S)
    BY <1>1, <1>2, <1>3
  <2> QED
    BY <2>1, <2>2, Regroup
<1>5. Joined(y, t) = Joined(e[k], Joined(rest, t))
  <2>1. PICK whole : whole = Joined(y, t)
    OBVIOUS
  <2> QED
    BY <1>2, <1>3, <2>1, Regroup
<1>6. Joined(rest, t) \in Seq(S)
  BY <1>1, JoinedIsSeq
<1>7. Joined(e[k], Joined(rest, t)) \in Seq(S)
  BY <1>2, <1>6, JoinedIsSeq
<1> QED
  BY <1>2, <1>4, <1>5, <1>6, <1>7

\* Two codes agree in a part if they agree in those before it.
LEMMA NextPart ==
  ASSUME NEW c \in Seq(Seq(Tokens)), NEW u, Chain(u, Start, c),
         NEW d \in Seq(Seq(Tokens)), NEW v, Chain(v, Start, d),
         NEW r \in Seq(Tokens), NEW s \in Seq(Tokens),
         Joined(u[Len(c)], r) = Joined(v[Len(d)], s),
         NEW k \in 1 .. Len(c), k \in 1 .. Len(d), u[k - 1] = v[k - 1],
         NEW by \in {End, Unit}, Delimits(c[k], by), Delimits(d[k], by)
  PROVE  c[k] = d[k] /\ u[k] = v[k]
<1>1. Start \in Seq(Tokens)
  BY DEF Start
<1>3. PICK x \in Seq(Tokens) :
        /\ Joined(c[k], x) \in Seq(Tokens) /\ u[k - 1] \in Seq(Tokens)
        /\ Joined(u[Len(c)], r) = Joined(u[k - 1], Joined(c[k], x))
        /\ u[k] = Joined(u[k - 1], c[k])
  BY <1>1, PartGoesOn
<1>4. PICK y \in Seq(Tokens) :
        /\ Joined(d[k], y) \in Seq(Tokens) /\ v[k - 1] \in Seq(Tokens)
        /\ Joined(v[Len(d)], s) = Joined(v[k - 1], Joined(d[k], y))
        /\ v[k] = Joined(v[k - 1], d[k])
  BY <1>1, PartGoesOn
<1>5. Joined(c[k], x) = Joined(d[k], y)
  <2>1. Joined(u[k - 1], Joined(c[k], x)) = Joined(u[k - 1], Joined(d[k], y))
    BY <1>3, <1>4
  <2> QED
    BY <1>3, <1>4, <2>1, CancelLeft
<1>6. c[k] = d[k]
  BY <1>5, SamePart
<1> QED
  BY <1>3, <1>4, <1>6

\* A word is what it says.
LEMMA SameWord ==
  ASSUME NEW a, NEW b, Append(<<Word(a)>>, End) = Append(<<Word(b)>>, End)
  PROVE  a = b
<1>1. Append(<<Word(a)>>, End)[1] = Word(a) /\ Append(<<Word(b)>>, End)[1] = Word(b)
  OBVIOUS
<1>2. Word(a) = Word(b)
  BY <1>1
<1> QED
  BY <1>2 DEF Word

\* Two legs whose codes begin alike are made of the same parts.
LEMMA SameParts ==
  ASSUME NEW leg \in SignedLegs, NEW other \in SignedLegs,
         NEW r \in Seq(Tokens), NEW s \in Seq(Tokens),
         Joined(EncodedLeg(leg), r) = Joined(EncodedLeg(other), s)
  PROVE  leg.kind = other.kind /\ Parts(leg) = Parts(other)
<1> DEFINE c == Parts(leg)
           d == Parts(other)
<1>1. Marked(leg) /\ Marked(other)
  BY LegMarked
<1>2. c \in Seq(Seq(Tokens)) /\ d \in Seq(Seq(Tokens)) /\ Start \in Seq(Tokens)
  BY PartsChain
<1>3. PICK u : Chain(u, Start, c) /\ EncodedLeg(leg) = u[Len(c)]
  BY PartsChain
<1>4. PICK v : Chain(v, Start, d) /\ EncodedLeg(other) = v[Len(d)]
  BY PartsChain
<1>5. u[0] = Start /\ v[0] = Start
  BY <1>2, <1>3, <1>4, ChainLinks
<1>6. /\ Len(c) \in Nat \ {0} /\ Len(d) \in Nat \ {0}
      /\ Len(c) = Len(Marks(leg.kind)) /\ Len(d) = Len(Marks(other.kind))
      /\ c[1] = Append(<<Word(leg.kind)>>, End) /\ d[1] = Append(<<Word(other.kind)>>, End)
      /\ Marks(leg.kind)[1] = End /\ Marks(other.kind)[1] = End
      /\ \A k \in 1 .. Len(c) : /\ Marks(leg.kind)[k] \in {End, Unit}
                                /\ Delimits(c[k], Marks(leg.kind)[k])
      /\ \A k \in 1 .. Len(d) : Delimits(d[k], Marks(other.kind)[k])
  BY <1>1 DEF Marked
<1> HIDE DEF c, d
<1>7. leg.kind = other.kind
  <2>1. PICK one \in Nat : one = 1
    OBVIOUS
  <2>2. one \in 1 .. Len(c) /\ one \in 1 .. Len(d) /\ one - 1 = 0
    BY <1>6, <2>1
  <2>3. Delimits(c[one], End) /\ Delimits(d[one], End)
    BY <1>6, <2>1, <2>2
  <2>4. u[one - 1] = v[one - 1]
    BY <1>5, <2>2
  <2>5. c[one] = d[one]
    BY <1>2, <1>3, <1>4, <2>2, <2>3, <2>4, NextPart
  <2> QED
    BY <1>6, <2>1, <2>5, SameWord
<1>8. PICK n \in Nat \ {0} : n = Len(c) /\ n = Len(d)
  BY <1>6, <1>7
<1> DEFINE Agree(k) == u[k] = v[k] /\ \A l \in 1 .. k : c[l] = d[l]
           agreed == {k \in 0 .. n : Agree(k)}
<1>9. 0 \in agreed
  BY <1>5, <1>8
<1>10. ASSUME NEW k \in 1 .. n, k - 1 \in agreed
       PROVE  k \in agreed
  <2>1. u[k - 1] = v[k - 1] /\ \A l \in 1 .. k - 1 : c[l] = d[l]
    BY <1>10
  <2> HIDE DEF agreed, Agree
  <2>2. k \in 1 .. Len(c) /\ k \in 1 .. Len(d)
    BY <1>8
  <2>3. PICK by \in {End, Unit} : Delimits(c[k], by) /\ Delimits(d[k], by)
    BY <1>6, <1>7, <2>2
  <2>4. c[k] = d[k] /\ u[k] = v[k]
    BY <1>2, <1>3, <1>4, <2>1, <2>2, <2>3, NextPart
  <2>5. \A l \in 1 .. k : l = k \/ l \in 1 .. k - 1
    OBVIOUS
  <2>6. Agree(k)
    BY <2>1, <2>4, <2>5 DEF Agree
  <2> QED
    BY <2>6 DEF agreed
<1> HIDE DEF agreed, Agree
<1>11. 0 .. n \subseteq agreed
  BY <1>8, <1>9, <1>10, Counting
<1>12. Agree(n)
  <2>1. n \in 0 .. n
    BY <1>8
  <2> QED
    BY <1>11, <2>1 DEF agreed
<1>13. c = d
  BY <1>2, <1>8, <1>12, SeqEqual DEF Agree
<1> QED
  BY <1>7, <1>13 DEF c, d

Codes == {EncodedLeg(leg) : leg \in SignedLegs}

\* A code is a sequence of tokens, and not an empty one.
LEMMA CodesInSeq == Codes \subseteq Seq(Tokens) /\ <<>> \notin Codes
<1> SUFFICES ASSUME NEW leg \in SignedLegs
             PROVE  EncodedLeg(leg) \in Seq(Tokens) /\ EncodedLeg(leg) # <<>>
  BY DEF Codes
<1> DEFINE c == Parts(leg)
<1>1. Len(c) \in Nat \ {0} /\ c[1] = Append(<<Word(leg.kind)>>, End)
  BY LegMarked DEF Marked
<1>2. c \in Seq(Seq(Tokens)) /\ Start \in Seq(Tokens)
  BY PartsChain
<1>3. PICK u : Chain(u, Start, c) /\ EncodedLeg(leg) = u[Len(c)]
  BY PartsChain
<1> HIDE DEF c
<1>4. PICK one \in Nat : one = 1
  OBVIOUS
<1>5. one \in 1 .. Len(c) /\ one - 1 = 0 /\ one - 1 \in 0 .. Len(c)
      /\ Len(c) \in 0 .. Len(c)
  BY <1>1, <1>4
<1>6. /\ u[0] = Start /\ u[Len(c)] \in Seq(Tokens) /\ c[one] \in Seq(Tokens)
  BY <1>2, <1>3, <1>5, ChainLinks
<1>7. PICK rest \in Seq(Tokens) :
        /\ Joined(c[one], rest) \in Seq(Tokens)
        /\ u[Len(c)] = Joined(u[one - 1], Joined(c[one], rest))
  BY <1>2, <1>3, <1>5, ChainGoesOn
<1>8. u[Len(c)] # <<>>
  <2> SUFFICES ASSUME u[Len(c)] = <<>>
               PROVE  FALSE
    OBVIOUS
  <2>1. Joined(u[one - 1], Joined(c[one], rest)) = u[one - 1]
    BY <1>5, <1>6, <1>7 DEF Start
  <2>2. Joined(c[one], rest) = <<>>
    BY <1>2, <1>5, <1>6, <1>7, <2>1, NothingAdded DEF Start
  <2>3. c[one] = <<>>
    BY <1>6, <2>2, NothingLeft
  <2>4. Len(Append(<<Word(leg.kind)>>, End)) = 2
    OBVIOUS
  <2> QED
    BY <1>1, <1>4, <2>3, <2>4
<1> QED
  BY <1>3, <1>6, <1>8

\* So no code begins another.
LEMMA CodesPrefixFree == PrefixFree(Codes, Tokens)
<1> SUFFICES ASSUME NEW leg \in SignedLegs, NEW other \in SignedLegs,
                    NEW r \in Seq(Tokens), NEW s \in Seq(Tokens),
                    Joined(EncodedLeg(leg), r) = Joined(EncodedLeg(other), s)
             PROVE  EncodedLeg(leg) = EncodedLeg(other)
  BY DEF PrefixFree, Codes
<1> QED
  BY SameParts DEF EncodedLeg

-----------------------------------------------------------------------------
(* The commitment. *)

CodesOf(i) == [k \in DOMAIN i.legs |-> EncodedLeg(i.legs[k])]

FirstOf(i) == Line(Lower(i.address))

\* What was put at the end does not hide what it was put to.
LEMMA SameAppended ==
  ASSUME NEW S, NEW by \in S, NEW a \in Seq(S), NEW b \in Seq(S),
         Append(a, by) = Append(b, by)
  PROVE  a = b
<1>1. /\ Len(Append(a, by)) = Len(a) + 1 /\ Len(Append(b, by)) = Len(b) + 1
      /\ Len(a) \in Nat /\ Len(b) \in Nat
      /\ \A k \in 1 .. Len(a) : Append(a, by)[k] = a[k]
      /\ \A k \in 1 .. Len(b) : Append(b, by)[k] = b[k]
  OBVIOUS
<1>2. Len(a) = Len(b) /\ \A k \in 1 .. Len(a) : a[k] = b[k]
  BY <1>1
<1> QED
  BY <1>2, SeqEqual

\* What comes first, with something put at the end.
LEMMA FirstAppended ==
  ASSUME NEW x, NEW y
  PROVE  Append(<<>>, y)[1] = y /\ Append(<<x>>, y)[1] = x
  OBVIOUS

\* A field is written as a text.
LEMMA LowerText ==
  ASSUME NEW t \in Field
  PROVE  Lower(t) \in Seq(Token)
<1>1. Numeral \subseteq Token
  BY DEF Token
<1>2. CASE t \in Numeral
  <2>1. Lower(t) = <<>> \/ \E m \in Numeral : Lower(t) = <<m>>
    BY <1>2 DEF Lower, Raw, IsBlank, Numeral, Forms
  <2>2. <<>> \in Seq(Token) /\ \A m \in Token : <<m>> \in Seq(Token)
    OBVIOUS
  <2> QED
    BY <1>1, <2>1, <2>2
<1>3. CASE t \in [form : {"junk"}, text : Text]
  BY <1>3 DEF Lower, Raw, IsBlank, Text
<1> QED
  BY <1>2, <1>3 DEF Field

\* A number is read in either case alike, and so is a hexadecimal text.
LEMMA SameNumber ==
  ASSUME NEW t \in Numeral, NEW u \in Numeral, Lower(t) = Lower(u)
  PROVE  /\ \A width : ParseBelow(t, width) = ParseBelow(u, width)
         /\ ParseHex(t) = ParseHex(u) /\ (IsBlank(t) <=> IsBlank(u))
<1>1. ASSUME NEW n \in Numeral
      PROVE  Lower(n) = IF IsBlank(n) THEN <<>>
                        ELSE IF n.form = "HEX" THEN <<[n EXCEPT !.form = "hex"]>>
                        ELSE <<n>>
  BY DEF Lower, Raw, IsBlank, Numeral, Forms
<1>2. IsBlank(t) <=> IsBlank(u)
  BY <1>1
<1>3. CASE IsBlank(t)
  BY <1>2, <1>3 DEF IsBlank, ParseBelow, ParseHex
<1>4. CASE ~IsBlank(t)
  <2> DEFINE low(n) == IF n.form = "HEX" THEN [n EXCEPT !.form = "hex"] ELSE n
  <2>1. Lower(t) = <<low(t)>> /\ Lower(u) = <<low(u)>>
    BY <1>1, <1>2, <1>4
  <2>2. low(t) = low(u)
    <3> HIDE DEF low
    <3>1. <<low(t)>>[1] = low(t) /\ <<low(u)>>[1] = low(u)
      OBVIOUS
    <3> QED
      BY <2>1, <3>1
  <2>3. /\ t.says = u.says
        /\ \/ t.form = u.form
           \/ t.form \in {"hex", "HEX"} /\ u.form \in {"hex", "HEX"}
    BY <2>2 DEF Numeral
  <2> HIDE DEF low
  <2>4. \A width : ParseBelow(t, width) = ParseBelow(u, width)
    BY <1>2, <1>4, <2>3 DEF ParseBelow
  <2>5. ParseHex(t) = ParseHex(u)
    BY <2>3 DEF ParseHex
  <2> QED
    BY <1>2, <2>4, <2>5
<1> QED
  BY <1>3, <1>4

\* A digest that is signed is read alike whatever prefix was taken off.
LEMMA SameDigest ==
  ASSUME NEW t \in Numeral, NEW u \in Numeral, Unprefixed(t) = Unprefixed(u),
         ParseHex(t) # Refused, ParseHex(u) # Refused
  PROVE  ParseHex(t) = ParseHex(u)
<1>1. ASSUME NEW n \in Numeral, ParseHex(n) # Refused
      PROVE  \E m \in Numeral : Unprefixed(n) = <<m>> /\ m.says = ParseHex(n)
  <2>1. n.form \in {"hex", "HEX", "bare"} /\ ParseHex(n) = n.says
    BY <1>1 DEF ParseHex
  <2>2. CASE n.form = "hex"
    BY <2>1, <2>2 DEF Unprefixed, Numeral, Forms
  <2>3. CASE n.form = "HEX"
    BY <2>1, <2>3 DEF Unprefixed, Lower, Numeral, Forms
  <2>4. CASE n.form = "bare"
    BY <2>1, <2>4 DEF Unprefixed, Lower, Raw, IsBlank
  <2> QED
    BY <2>1, <2>2, <2>3, <2>4
<1>2. PICK a \in Numeral : Unprefixed(t) = <<a>> /\ a.says = ParseHex(t)
  BY <1>1
<1>3. PICK b \in Numeral : Unprefixed(u) = <<b>> /\ b.says = ParseHex(u)
  BY <1>1
<1>4. <<a>>[1] = a /\ <<b>>[1] = b
  OBVIOUS
<1> QED
  BY <1>2, <1>3, <1>4

\* Two transactions of one code that are signed are signed alike.
LEMMA SameTx ==
  ASSUME NEW tx \in Tx, NEW other \in Tx, TxSigns(tx), TxSigns(other),
         TxParts(tx) = TxParts(other)
  PROVE  TxPayload(tx) = TxPayload(other)
<1>1. /\ {tx.to, tx.value, tx.nonce, tx.gas, tx.data} \subseteq Numeral
      /\ {other.to, other.value, other.nonce, other.gas, other.data} \subseteq Numeral
      /\ tx.mode \in {"", "legacy", "eip1559"} /\ other.mode \in {"", "legacy", "eip1559"}
      /\ IF tx.mode = "legacy" THEN tx.price \in Numeral ELSE tx.cap \in Numeral
      /\ IF other.mode = "legacy" THEN other.price \in Numeral ELSE other.cap \in Numeral
  BY TxFields
<1>4. ASSUME NEW t \in Field, NEW u \in Field, Part(Lower(t)) = Part(Lower(u))
      PROVE  Lower(t) = Lower(u)
  <2>1. Lower(t) \in Seq(Token) /\ Lower(u) \in Seq(Token) /\ Unit \in Token
    BY LowerText DEF Token
  <2> QED
    BY <1>4, <2>1, SameAppended DEF Part
<1>5. /\ Line(<<Dec(tx.chain)>>) = Line(<<Dec(other.chain)>>)
      /\ Part(Lower(tx.to)) = Part(Lower(other.to))
      /\ Part(Yes(tx.create)) = Part(Yes(other.create))
      /\ Part(Lower(tx.value)) = Part(Lower(other.value))
      /\ Part(Lower(tx.nonce)) = Part(Lower(other.nonce))
      /\ Part(Lower(tx.gas)) = Part(Lower(other.gas))
      /\ Part(Lower(tx.data)) = Part(Lower(other.data))
      /\ Part(Mode(tx.mode)) = Part(Mode(other.mode))
      /\ Part(Lower(tx.cap)) = Part(Lower(other.cap))
      /\ Part(Lower(tx.price)) = Part(Lower(other.price))
  BY DEF TxParts
<1>6. ASSUME NEW t \in Tx
      PROVE  {t.to, t.value, t.nonce, t.gas, t.data, t.cap, t.price} \subseteq Field
  BY DEF Tx
<1>7. /\ Lower(tx.to) = Lower(other.to) /\ Lower(tx.value) = Lower(other.value)
      /\ Lower(tx.nonce) = Lower(other.nonce) /\ Lower(tx.gas) = Lower(other.gas)
      /\ Lower(tx.data) = Lower(other.data) /\ Lower(tx.cap) = Lower(other.cap)
      /\ Lower(tx.price) = Lower(other.price)
  BY <1>4, <1>5, <1>6
<1>8. tx.chain = other.chain
  <2>1. /\ Append(<<Dec(tx.chain)>>, End)[1] = Dec(tx.chain)
        /\ Append(<<Dec(other.chain)>>, End)[1] = Dec(other.chain)
    OBVIOUS
  <2>2. Dec(tx.chain) = Dec(other.chain)
    BY <1>5, <2>1 DEF Line
  <2> QED
    BY <2>2 DEF Dec
<1>9. tx.create = other.create
  <2>1. ASSUME NEW b \in BOOLEAN
        PROVE  Append(Yes(b), Unit)[1] = IF b THEN Word("true") ELSE Word("false")
    <3>1. \A w : Append(<<Word(w)>>, Unit)[1] = Word(w)
      OBVIOUS
    <3> QED
      BY <3>1 DEF Yes
  <2>2. tx.create \in BOOLEAN /\ other.create \in BOOLEAN
    BY DEF Tx
  <2>3. Word("true") # Word("false")
    BY DEF Word
  <2>4. Append(Yes(tx.create), Unit)[1] = Append(Yes(other.create), Unit)[1]
    BY <1>5 DEF Part
  <2>5. (IF tx.create THEN Word("true") ELSE Word("false"))
          = IF other.create THEN Word("true") ELSE Word("false")
    BY <2>1, <2>2, <2>4
  <2> QED
    BY <2>2, <2>3, <2>5
<1>10. tx.mode = other.mode
  <2>1. ASSUME NEW m \in {"", "legacy", "eip1559"}
        PROVE  Append(Mode(m), Unit)[1] = IF m = "" THEN Unit ELSE Word(m)
    <3>1. Mode(m) = IF m = "" THEN <<>> ELSE <<Word(m)>>
      BY DEF Mode
    <3> QED
      BY <3>1, FirstAppended
  <2>2. /\ \A w : Word(w) # Unit
        /\ Word("legacy") # Word("eip1559")
    BY MarksDiffer DEF Word
  <2>3. Append(Mode(tx.mode), Unit)[1] = Append(Mode(other.mode), Unit)[1]
    BY <1>5 DEF Part
  <2>4. /\ tx.mode \in {"", "legacy", "eip1559"}
        /\ other.mode \in {"", "legacy", "eip1559"}
    BY <1>1
  <2>5. IF tx.mode = "" THEN other.mode = ""
        ELSE other.mode # "" /\ Word(tx.mode) = Word(other.mode)
    BY <2>1, <2>2, <2>3, <2>4
  <2> QED
    BY <2>5 DEF Word
<1>11. Recipient(tx) = Recipient(other)
  BY <1>1, <1>7, <1>9, SameNumber DEF Recipient
<1>12. /\ ParseBelow(tx.value, U256) = ParseBelow(other.value, U256)
       /\ ParseU64(tx.nonce) = ParseU64(other.nonce)
       /\ ParseU64(tx.gas) = ParseU64(other.gas)
  <2>1. /\ \A w : ParseBelow(tx.value, w) = ParseBelow(other.value, w)
        /\ \A w : ParseBelow(tx.nonce, w) = ParseBelow(other.nonce, w)
        /\ \A w : ParseBelow(tx.gas, w) = ParseBelow(other.gas, w)
    BY <1>1, <1>7, SameNumber
  <2> QED
    BY <2>1 DEF ParseU64
<1>13. ParseBytes(tx.data) = ParseBytes(other.data)
  BY <1>1, <1>7, SameNumber DEF ParseBytes
<1>14. Fees(tx) = Fees(other)
  <2>1. CASE tx.mode = "legacy"
    <3>1. tx.price \in Numeral /\ other.price \in Numeral
      BY <1>1, <1>10, <2>1
    <3>2. \A w : ParseBelow(tx.price, w) = ParseBelow(other.price, w)
      BY <1>7, <3>1, SameNumber
    <3> QED
      BY <1>10, <2>1, <3>2 DEF Fees
  <2>2. CASE tx.mode # "legacy"
    <3>1. tx.cap \in Numeral /\ other.cap \in Numeral
      BY <1>1, <1>10, <2>2
    <3>2. \A w : ParseBelow(tx.cap, w) = ParseBelow(other.cap, w)
      BY <1>7, <3>1, SameNumber
    <3> QED
      BY <1>10, <2>2, <3>2 DEF Fees
  <2> QED
    BY <2>1, <2>2
<1> QED
  BY <1>8, <1>10, <1>11, <1>12, <1>13, <1>14 DEF TxPayload

\* Two legs of the same parts that are signed are signed alike.
LEMMA SameLeg ==
  ASSUME NEW leg \in SignedLegs, NEW other \in SignedLegs,
         EncodedLeg(leg) = EncodedLeg(other)
  PROVE  Payload(leg) = Payload(other)
<1>1. leg \in Leg /\ other \in Leg /\ LegSigns(leg) /\ LegSigns(other)
  BY DEF SignedLegs
<1>2. leg.kind = other.kind /\ Parts(leg) = Parts(other)
  <2>1. <<>> \in Seq(Tokens)
    OBVIOUS
  <2>2. Joined(EncodedLeg(leg), <<>>) = Joined(EncodedLeg(other), <<>>)
    OBVIOUS
  <2> QED
    BY <2>1, <2>2, SameParts
<1>3. CASE leg.kind = "tx"
  <2>1. leg \in Tx /\ other \in Tx
    BY <1>1, <1>2, <1>3, LegKinds
  <2>2. TxParts(leg) = TxParts(other)
    BY <1>2, <1>3 DEF Parts
  <2>3. TxPayload(leg) = TxPayload(other)
    BY <1>1, <1>2, <1>3, <2>1, <2>2, SameTx DEF LegSigns
  <2> QED
    BY <1>2, <1>3, <2>3 DEF Payload
<1>4. CASE leg.kind = "message"
  <2>1. leg.text \in Text /\ other.text \in Text
    BY <1>1, <1>2, <1>4, LegKinds DEF Message
  <2>2. Parts(leg)[2] = Append(leg.text, End) /\ Parts(other)[2] = Append(other.text, End)
    BY <1>2, <1>4 DEF Parts, Line
  <2>3. Append(leg.text, End) = Append(other.text, End)
    BY <1>2, <2>2
  <2>4. leg.text = other.text
    BY <2>1, <2>3, SameAppended DEF Text, Token
  <2> QED
    BY <1>2, <1>4, <2>4 DEF Payload
<1>5. CASE leg.kind = "digest"
  <2>1. /\ ParseHex(leg.digest) # Refused /\ ParseHex(other.digest) # Refused
        /\ leg.digest \in Field /\ other.digest \in Field
    BY <1>1, <1>2, <1>5, LegKinds DEF LegSigns, Digest
  <2>2. leg.digest \in Numeral /\ other.digest \in Numeral
    BY <2>1, ReadIsNumeral
  <2>3. /\ Parts(leg)[2] = Append(Unprefixed(leg.digest), Unit)
        /\ Parts(other)[2] = Append(Unprefixed(other.digest), Unit)
    BY <1>2, <1>5 DEF Parts, Part
  <2>4. Append(Unprefixed(leg.digest), Unit) = Append(Unprefixed(other.digest), Unit)
    BY <1>2, <2>3
  <2>5. ASSUME NEW n \in Numeral
        PROVE  Unprefixed(n) \in Seq(Token)
    <3>1. CASE n.form \in {"hex", "twice"}
      <4>1. [n EXCEPT !.form = "bare"] \in Token
        BY DEF Numeral, Forms, Token
      <4> QED
        BY <3>1, <4>1 DEF Unprefixed
    <3>2. CASE n.form \notin {"hex", "twice"}
      BY <3>2, LowerText DEF Unprefixed, Field
    <3> QED
      BY <3>1, <3>2
  <2>6. Unit \in Token
    BY DEF Token
  <2>7. Unprefixed(leg.digest) = Unprefixed(other.digest)
    BY <2>2, <2>4, <2>5, <2>6, SameAppended
  <2>8. ParseHex(leg.digest) = ParseHex(other.digest)
    BY <2>1, <2>2, <2>7, SameDigest
  <2> QED
    BY <1>2, <1>5, <2>8 DEF Payload
<1> QED
  BY <1>1, <1>3, <1>4, <1>5, LegKinds

\* Two intents of one commitment in which no mark can be mistaken are signed
\* alike.
LEMMA Binds ==
  ASSUME NEW i \in Intent, NEW j \in Intent
  PROVE  BindsAgainst(i, j)
<1> SUFFICES ASSUME Delimited(i), Delimited(j), Signs(i), Signs(j),
                    Encoding(i) = Encoding(j)
             PROVE  Signed(i) = Signed(j)
  BY DEF BindsAgainst
<1>1. ASSUME NEW m \in Intent, Delimited(m), Signs(m)
      PROVE  /\ CodesOf(m) \in Seq(Codes) /\ CodesOf(m) \in Seq(Seq(Tokens))
             /\ Len(CodesOf(m)) = Len(m.legs)
             /\ \A k \in 1 .. Len(m.legs) :
                  m.legs[k] \in SignedLegs /\ CodesOf(m)[k] = EncodedLeg(m.legs[k])
             /\ FirstOf(m) \in Seq(Tokens) /\ Delimits(FirstOf(m), End)
             /\ m.address \in Numeral
             /\ Len(m.legs) \in Nat /\ DOMAIN m.legs = 1 .. Len(m.legs)
  <2>1. m.legs \in Seq(Leg) /\ m.address \in Field
    BY DEF Intent
  <2>2. ASSUME NEW k \in 1 .. Len(m.legs)
        PROVE  m.legs[k] \in SignedLegs
    <3>1. m.legs[k] \in Leg
      BY <2>1
    <3>2. k \in DOMAIN m.legs
      BY <2>1
    <3>3. LegSigns(m.legs[k])
      BY <1>1, <3>2 DEF Signs
    <3>4. DelimitedLeg(m.legs[k])
      BY <1>1, <3>2 DEF Delimited, DelimitedLeg
    <3> QED
      BY <3>1, <3>3, <3>4 DEF SignedLegs
  <2>3. \A k \in 1 .. Len(m.legs) : EncodedLeg(m.legs[k]) \in Codes
    BY <2>2 DEF Codes
  <2>4. CodesOf(m) \in Seq(Codes) /\ Len(CodesOf(m)) = Len(m.legs)
    BY <2>1, <2>3 DEF CodesOf
  <2>5. m.address \in Numeral
    BY <1>1, <2>1, ReadIsNumeral DEF Signs
  <2>6. Delimits(FirstOf(m), End)
    BY <2>5, NumeralPart DEF FirstOf, Line
  <2>7. FirstOf(m) \in Seq(Tokens)
    BY <2>6, TextTokens DEF Delimits, Token
  <2>8. CodesOf(m) \in Seq(Seq(Tokens))
    BY <2>4, CodesInSeq, SeqMonotonic
  <2> QED
    BY <2>1, <2>2, <2>4, <2>5, <2>6, <2>7, <2>8 DEF CodesOf
<1>2. PICK u : Chain(u, FirstOf(i), CodesOf(i)) /\ Encoding(i) = u[Len(CodesOf(i))]
  BY <1>1, HashedIsChain DEF Encoding, FirstOf, CodesOf
<1>3. PICK v : Chain(v, FirstOf(j), CodesOf(j)) /\ Encoding(j) = v[Len(CodesOf(j))]
  BY <1>1, HashedIsChain DEF Encoding, FirstOf, CodesOf
<1>4. FirstOf(i) = FirstOf(j)
  <2>1. ASSUME NEW m \in Intent, Delimited(m), Signs(m), NEW w,
               Chain(w, FirstOf(m), CodesOf(m))
        PROVE  \E rest \in Seq(Tokens) :
                 w[Len(CodesOf(m))] = Joined(FirstOf(m), rest)
    <3>1. /\ CodesOf(m) \in Seq(Seq(Tokens)) /\ FirstOf(m) \in Seq(Tokens)
          /\ 0 \in 0 .. Len(CodesOf(m))
      BY <1>1, <2>1
    <3>2. PICK rest \in Seq(Tokens) : w[Len(CodesOf(m))] = Joined(w[0], rest)
      BY <2>1, <3>1, ChainBegins
    <3>3. w[0] = FirstOf(m)
      BY <2>1, <3>1, ChainLinks
    <3> QED
      BY <3>2, <3>3
  <2>2. PICK r \in Seq(Tokens) : Encoding(i) = Joined(FirstOf(i), r)
    BY <1>2, <2>1
  <2>3. PICK s \in Seq(Tokens) : Encoding(j) = Joined(FirstOf(j), s)
    BY <1>3, <2>1
  <2>4. Delimits(FirstOf(i), End) /\ Delimits(FirstOf(j), End)
    BY <1>1
  <2> QED
    BY <2>2, <2>3, <2>4, SamePart
<1>5. CodesOf(i) = CodesOf(j)
  <2>1. Chain(v, FirstOf(i), CodesOf(j))
    BY <1>3, <1>4
  <2>2. u[Len(CodesOf(i))] = v[Len(CodesOf(j))]
    BY <1>2, <1>3
  <2>3. /\ CodesOf(i) \in Seq(Codes) /\ CodesOf(j) \in Seq(Codes)
        /\ FirstOf(i) \in Seq(Tokens)
    BY <1>1
  <2> QED
    BY <1>2, <2>1, <2>2, <2>3, CodesInSeq, CodesPrefixFree, SameChain
<1>6. ParseHex(i.address) = ParseHex(j.address)
  <2>1. i.address \in Numeral /\ j.address \in Numeral
    BY <1>1
  <2>2. Lower(i.address) \in Seq(Token) /\ Lower(j.address) \in Seq(Token)
    BY <2>1, LowerText DEF Field
  <2>3. Append(Lower(i.address), End) = Append(Lower(j.address), End) /\ End \in Token
    BY <1>4 DEF FirstOf, Line, Token
  <2>4. Lower(i.address) = Lower(j.address)
    BY <2>1, <2>2, <2>3, SameAppended
  <2> QED
    BY <2>1, <2>4, SameNumber
<1>7. /\ Len(i.legs) = Len(j.legs) /\ DOMAIN i.legs = DOMAIN j.legs
      /\ DOMAIN i.legs = 1 .. Len(i.legs)
  BY <1>1, <1>5
<1>8. ASSUME NEW k \in DOMAIN i.legs
      PROVE  Payload(i.legs[k]) = Payload(j.legs[k])
  <2>1. /\ i.legs[k] \in SignedLegs /\ j.legs[k] \in SignedLegs
        /\ EncodedLeg(i.legs[k]) = EncodedLeg(j.legs[k])
    BY <1>1, <1>5, <1>7
  <2> QED
    BY <2>1, SameLeg
<1> QED
  BY <1>6, <1>7, <1>8 DEF Signed

\* For every width and every set of intents, however many legs they have: a
\* commitment is that of one thing to sign (commitment, sign_parsed_tx,
\* sign_message_with, sign_digest_with).
THEOREM OneCommitmentOneSigning == Spec => []CommitmentBinds
<1>1. Sound => CommitmentBinds
  <2> SUFFICES ASSUME Sound, Given("intent"), NEW j \in Requests
               PROVE  BindsAgainst(input.given, j)
    BY DEF CommitmentBinds
  <2>1. PICK i \in Requests : input = As("intent", i)
    BY DEF Sound, Given, As, Nothing
  <2> QED
    BY <2>1, Binds, IntentsAssumption DEF As
<1> QED
  BY <1>1, InputsSound, PTL

-----------------------------------------------------------------------------
(* Paths. *)

\* Hardening an index that fits adds the limit to it: nothing wraps.
LEMMA HardenAdds ==
  ASSUME NEW i \in Indexes
  PROVE  Harden(i) = i + Hardened
<1>1. /\ Hardened \in Nat /\ i \in Nat /\ i < Hardened
  BY HdPathAssumption DEF Indexes
<1>2. /\ i + Hardened \in 0 .. (2 * Hardened - 1)
      /\ 2 * Hardened \in Nat \ {0}
  BY <1>1
<1>3. \A m \in Nat \ {0} : \A n \in 0 .. (m - 1) : n % m = n
  OBVIOUS
<1> QED
  BY <1>2, <1>3 DEF Harden

\* The key of a path, level by level.
LEMMA SignerLevels ==
  ASSUME NEW account, NEW change, NEW index
  PROVE  SignerAt([account |-> account, change |-> change, index |-> index])
           = <<Harden(Purpose), Harden(CoinType), Harden(account), change, index>>
<1> DEFINE key == <<Harden(Purpose), Harden(CoinType), Harden(account)>>
           below == <<change, index>>
           levels == <<Harden(Purpose), Harden(CoinType), Harden(account),
                       change, index>>
           joined == [i \in 1 .. 5 |-> IF i <= 3 THEN key[i] ELSE below[i - 3]]
<1>1. Len(key) = 3 /\ Len(below) = 2
  OBVIOUS
<1>2. key \o below = joined
  BY <1>1
<1>3. joined = levels
  <2>1. joined[1] = levels[1] /\ joined[2] = levels[2] /\ joined[3] = levels[3]
    OBVIOUS
  <2>2. joined[4] = below[1] /\ joined[5] = below[2]
    OBVIOUS
  <2>3. \A i \in 1 .. 5 : joined[i] = levels[i]
    <3>1. \A i \in 1 .. 5 : i = 1 \/ i = 2 \/ i = 3 \/ i = 4 \/ i = 5
      OBVIOUS
    <3> QED
      BY <2>1, <2>2, <3>1
  <2>4. DOMAIN levels = 1 .. 5 /\ levels = [i \in 1 .. 5 |-> levels[i]]
    OBVIOUS
  <2> HIDE DEF levels, key, below
  <2> QED
    BY <2>3, <2>4
<1> QED
  BY <1>2, <1>3 DEF SignerAt, KeyInAccount, AccountKey

\* A text is a sequence of segments.
LEMMA TextSegments ==
  ASSUME NEW s \in Texts, NEW want \in Nat, Splits(s, want)
  PROVE  /\ Len(s) = want + 1
         /\ \A i \in 2 .. want + 1 :
              /\ s[i].value \in Indexes /\ s[i].mark \in {"hard", "open"}
<1>1. s \in Seq(Segment) /\ Len(s) = want + 1
  BY HdPathAssumption DEF Splits
<1>2. SUFFICES ASSUME NEW i \in 2 .. want + 1
               PROVE  s[i].value \in Indexes /\ s[i].mark \in {"hard", "open"}
  BY <1>1
<1>3. s[i] \in Segment
  BY <1>1
<1>4. s[i].value < Hardened
  BY DEF Splits, IsComponent
<1> QED
  BY <1>3, <1>4, HdPathAssumption DEF Segment, Indexes

\* A text that is accepted leads to the key it names.
LEMMA PathTextNames ==
  ASSUME NEW s \in Texts, ParsesPath(s)
  PROVE  SignerAt(Parsed(s)) = Named(s)
<1>1. /\ Len(s) = 6
      /\ \A i \in 2 .. 6 : s[i].value \in Indexes /\ s[i].mark \in {"hard", "open"}
  <2>1. Splits(s, 5) /\ 5 \in Nat /\ 5 + 1 = 6
    BY DEF ParsesPath
  <2> QED
    BY <2>1, TextSegments
<1>2. SignerAt(Parsed(s))
        = <<Harden(Purpose), Harden(CoinType), Harden(s[4].value),
            s[5].value, s[6].value>>
  BY SignerLevels DEF Parsed
<1>3. /\ Harden(Purpose) = s[2].value + Hardened
      /\ Harden(CoinType) = s[3].value + Hardened
      /\ Harden(s[4].value) = s[4].value + Hardened
  BY <1>1, HardenAdds, HdPathAssumption DEF ParsesPath, HasPrefix
<1>4. /\ NamedIndex(s[2]) = s[2].value + Hardened
      /\ NamedIndex(s[3]) = s[3].value + Hardened
      /\ NamedIndex(s[4]) = s[4].value + Hardened
      /\ NamedIndex(s[5]) = s[5].value
      /\ NamedIndex(s[6]) = s[6].value
  BY DEF ParsesPath, HasPrefix, OpenBelow, NamedIndex
<1>5. Named(s) = <<NamedIndex(s[2]), NamedIndex(s[3]), NamedIndex(s[4]),
                   NamedIndex(s[5]), NamedIndex(s[6])>>
  BY <1>1 DEF Named
<1> QED
  BY <1>2, <1>3, <1>4, <1>5

\* The key kept for a wallet is the one its prefix names, an account's.
LEMMA PrefixTextNames ==
  ASSUME NEW s \in Texts, ParsesPrefix(s)
  PROVE  AccountKey(s[4].value) = Named(s) /\ Storable(Named(s))
<1>1. /\ Len(s) = 4
      /\ \A i \in 2 .. 4 : s[i].value \in Indexes /\ s[i].mark \in {"hard", "open"}
  <2>1. Splits(s, 3) /\ 3 \in Nat /\ 3 + 1 = 4
    BY DEF ParsesPrefix
  <2> QED
    BY <2>1, TextSegments
<1>2. /\ Harden(Purpose) = NamedIndex(s[2])
      /\ Harden(CoinType) = NamedIndex(s[3])
      /\ Harden(s[4].value) = NamedIndex(s[4])
  BY <1>1, HardenAdds, HdPathAssumption DEF ParsesPrefix, HasPrefix, NamedIndex
<1>3. Named(s) = <<NamedIndex(s[2]), NamedIndex(s[3]), NamedIndex(s[4])>>
  BY <1>1 DEF Named
<1> QED
  BY <1>2, <1>3 DEF AccountKey, Storable, AccountDepth

\* Four levels and two are six.
LEMMA SixLevels ==
  ASSUME NEW a, NEW b, NEW c, NEW d, NEW e, NEW f
  PROVE  <<a, b, c, d>> \o <<e, f>> = <<a, b, c, d, e, f>>
<1> DEFINE above == <<a, b, c, d>>
           below == <<e, f>>
           levels == <<a, b, c, d, e, f>>
           joined == [i \in 1 .. 6 |-> IF i <= 4 THEN above[i] ELSE below[i - 4]]
<1>1. Len(above) = 4 /\ Len(below) = 2
  OBVIOUS
<1>2. above \o below = joined
  BY <1>1
<1>3. joined = levels
  <2>1. /\ joined[1] = levels[1] /\ joined[2] = levels[2]
        /\ joined[3] = levels[3] /\ joined[4] = levels[4]
    OBVIOUS
  <2>2. joined[5] = levels[5] /\ joined[6] = levels[6]
    OBVIOUS
  <2>3. \A i \in 1 .. 6 : joined[i] = levels[i]
    <3>1. \A i \in 1 .. 6 : i = 1 \/ i = 2 \/ i = 3 \/ i = 4 \/ i = 5 \/ i = 6
      OBVIOUS
    <3> HIDE DEF joined, levels
    <3> QED
      BY <2>1, <2>2, <3>1
  <2>4. DOMAIN levels = 1 .. 6 /\ levels = [i \in 1 .. 6 |-> levels[i]]
    OBVIOUS
  <2> HIDE DEF levels, above, below
  <2> QED
    BY <2>3, <2>4
<1> QED
  BY <1>2, <1>3

\* The segments of what is written for a path.
LEMMA DisplayLevels ==
  ASSUME NEW p
  PROVE  Display(p) = <<Root, Number(Purpose, "hard"), Number(CoinType, "hard"),
                        Number(p.account, "hard"), Number(p.change, "open"),
                        Number(p.index, "open")>>
  BY SixLevels DEF Display, AccountPrefix

\* What is recorded for an account is accepted, as that path and that key.
LEMMA WrittenReadsBack ==
  ASSUME NEW p \in Bip44Path
  PROVE  ReadsBack(p)
<1> DEFINE s == Display(p)
           t == AccountPrefix(p.account)
<1>1. /\ p.account \in Indexes /\ p.change \in 0 .. 1 /\ p.index \in Indexes
      /\ p = [account |-> p.account, change |-> p.change, index |-> p.index]
      /\ Hardened \in Nat /\ 1 < Hardened
  BY HdPathAssumption DEF Bip44Path
<1>2. /\ Len(s) = 6 /\ s[1] = Root
      /\ s[2] = Number(Purpose, "hard") /\ s[3] = Number(CoinType, "hard")
      /\ s[4] = Number(p.account, "hard")
      /\ s[5] = Number(p.change, "open") /\ s[6] = Number(p.index, "open")
  BY DisplayLevels
<1>3. /\ Len(t) = 4 /\ t[1] = Root
      /\ t[2] = Number(Purpose, "hard") /\ t[3] = Number(CoinType, "hard")
      /\ t[4] = Number(p.account, "hard")
  BY DEF AccountPrefix
<1> HIDE DEF s, t
<1>4. \A n, h : Number(n, h).says = "number" /\ Number(n, h).value = n
                  /\ Number(n, h).mark = h
  BY DEF Number
<1>5. ParsesPath(s)
  <2>1. \A i \in 2 .. 6 : IsComponent(s[i])
    <3>1. \A i \in 2 .. 6 : i = 2 \/ i = 3 \/ i = 4 \/ i = 5 \/ i = 6
      OBVIOUS
    <3>2. /\ IsComponent(s[2]) /\ IsComponent(s[3]) /\ IsComponent(s[4])
          /\ IsComponent(s[5]) /\ IsComponent(s[6])
      BY <1>1, <1>2, <1>4, HdPathAssumption DEF IsComponent, Indexes
    <3> QED
      BY <3>1, <3>2
  <2>2. Splits(s, 5)
    BY <1>2, <2>1 DEF Splits, IsM, Root
  <2> QED
    BY <2>2, <1>1, <1>2, <1>4
       DEF ParsesPath, HasPrefix, OpenBelow, InLayout, Indexes
<1>6. Parsed(s) = p
  BY <1>1, <1>2, <1>4 DEF Parsed
<1>7. ParsesPrefix(t)
  <2>1. \A i \in 2 .. 4 : i = 2 \/ i = 3 \/ i = 4
    OBVIOUS
  <2>2. IsComponent(t[2]) /\ IsComponent(t[3]) /\ IsComponent(t[4])
    BY <1>1, <1>3, <1>4, HdPathAssumption DEF IsComponent, Indexes
  <2>3. Splits(t, 3)
    BY <1>3, <2>1, <2>2 DEF Splits, IsM, Root
  <2> QED
    BY <2>3, <1>3, <1>4 DEF ParsesPrefix, HasPrefix
<1>8. Named(s) = SignerAt(p)
  <2>1. SignerAt(p) = <<Harden(Purpose), Harden(CoinType), Harden(p.account),
                        p.change, p.index>>
    BY <1>1, SignerLevels
  <2>2. /\ NamedIndex(s[2]) = Harden(Purpose)
        /\ NamedIndex(s[3]) = Harden(CoinType)
        /\ NamedIndex(s[4]) = Harden(p.account)
        /\ NamedIndex(s[5]) = p.change /\ NamedIndex(s[6]) = p.index
    BY <1>1, <1>2, <1>4, HardenAdds, HdPathAssumption DEF NamedIndex
  <2>3. Named(s) = <<NamedIndex(s[2]), NamedIndex(s[3]), NamedIndex(s[4]),
                     NamedIndex(s[5]), NamedIndex(s[6])>>
    BY <1>2 DEF Named
  <2> QED
    BY <2>1, <2>2, <2>3
<1> QED
  BY <1>5, <1>6, <1>7, <1>8 DEF ReadsBack, s, t

\* Whatever the width of an index and the numbers of the prefix: text, path and
\* key go together (hd.rs).
THEOREM PathsAgree == Spec => []PathsNameTheirKey
<1>1. Sound => PathsNameTheirKey
  <2> SUFFICES ASSUME Sound
               PROVE  PathsNameTheirKey
    OBVIOUS
  <2>1. ASSUME Given("text")
        PROVE  TextNamesItsKey(input.given)
    <3>1. PICK s \in Texts : input = As("text", s)
      BY <2>1 DEF Sound, Given, As, Nothing
    <3> QED
      BY <3>1, PathTextNames, PrefixTextNames DEF TextNamesItsKey, As
  <2>2. ASSUME Given("path")
        PROVE  ReadsBack(input.given)
    <3>1. PICK p \in Bip44Path : input = As("path", p)
      BY <2>2 DEF Sound, Given, As, Nothing
    <3> QED
      BY <3>1, WrittenReadsBack DEF As
  <2> QED
    BY <2>1, <2>2 DEF PathsNameTheirKey
<1> QED
  BY <1>1, InputsSound, PTL

-----------------------------------------------------------------------------
(* The work of a document. *)

\* A product within the ceiling did not saturate.
LEMMA TimesExact ==
  ASSUME NEW x \in Nat, NEW y \in Nat
  PROVE  /\ Times(x, y) \in Nat
         /\ Times(x, y) <= MaxMemory => Times(x, y) = x * y
<1>1. x * y \in Nat /\ Top \in Nat /\ MaxMemory \in Nat /\ MaxMemory < Top
  BY KdfAssumption
<1> QED
  BY <1>1 DEF Times

\* A product is no smaller than its first factor, unless it is multiplied by
\* nothing.
LEMMA TimesGrows ==
  ASSUME NEW x \in Nat, NEW y \in Nat \ {0}
  PROVE  x * y >= x
  OBVIOUS

\* More passes over more memory are more work.
LEMMA WorkGrows ==
  ASSUME NEW m \in Nat, NEW n \in Nat, NEW p \in Nat, NEW q \in Nat,
         m <= n, p <= q
  PROVE  m * p <= q * n
<1>1. m * p <= n * p
  OBVIOUS
<1>2. n * p <= n * q
  OBVIOUS
<1>3. n * q = q * n /\ m * p \in Nat /\ n * p \in Nat /\ n * q \in Nat
  OBVIOUS
<1> QED
  BY <1>1, <1>2, <1>3

\* What passes for pbkdf2 has its one block hashed no more often than allowed.
LEMMA Pbkdf2IsBounded ==
  ASSUME NEW params \in KdfParams, Allowed(params), params.kdf = "pbkdf2"
  PROVE  Bounded(params)
<1>1. params.c \in Nat /\ params.c <= MaxC /\ MaxC \in Nat
  <2>1. params.c # Missing /\ params.c <= MaxC
    BY DEF Allowed, Pbkdf2Allowed
  <2>2. params.c \in Fields /\ \A field \in Fields \ {Missing} : field \in Nat
    BY KdfAssumption DEF KdfParams, Fields
  <2> QED
    BY <2>1, <2>2, KdfAssumption
<1>2. Default(params.dklen, 32) = 32
  BY DEF Allowed, Default
<1>3. 32 \div 32 = 1 /\ params.c * 1 = params.c
  BY <1>1
<1>4. Rounds(params) = params.c
  BY <1>2, <1>3 DEF Rounds
<1> QED
  BY <1>1, <1>4 DEF Bounded

\* What passes for scrypt is bounded: what saturated would not have passed.
LEMMA ScryptIsBounded ==
  ASSUME NEW params \in KdfParams, Allowed(params), params.kdf = "scrypt"
  PROVE  Bounded(params)
<1> DEFINE r == BlockSize(params)
           passes == Passes(params)
           block == Times(Block, r)
<1>1. /\ MaxP \in Nat /\ MaxMemory \in Nat /\ Block \in Nat
  BY KdfAssumption
<1>2. \A field \in Fields \ {Missing} : field \in Nat
  BY KdfAssumption DEF Fields
<1>3. params.n \in Nat \ {0}
  <2>1. params.n \in Fields /\ params.n >= 1
    BY DEF KdfParams, Allowed, ScryptAllowed, PowersOfTwo
  <2> QED
    BY <2>1, <1>2 DEF Missing
<1>4. r \in Nat /\ passes \in Nat
  BY <1>2 DEF KdfParams, BlockSize, Passes, Default
<1>5. /\ passes <= MaxP
      /\ Times(block, params.n) <= MaxMemory
  BY DEF Allowed, ScryptAllowed, ModestBlocks
<1> HIDE DEF r, passes
<1>6. block \in Nat /\ (block <= MaxMemory => block = Block * r)
  BY <1>1, <1>4, TimesExact
<1> HIDE DEF block
<1>7. Times(block, params.n) = block * params.n
  BY <1>3, <1>5, <1>6, TimesExact
<1>8. block <= MaxMemory
  <2>1. block * params.n >= block /\ block * params.n \in Nat
    BY <1>3, <1>6, TimesGrows
  <2> QED
    BY <2>1, <1>1, <1>5, <1>6, <1>7
<1>9. Memory(params) = block * params.n
  BY <1>6, <1>8 DEF Memory, r
<1>10. Memory(params) \in Nat /\ Memory(params) <= MaxMemory
  BY <1>3, <1>5, <1>6, <1>7, <1>9
<1>11. Memory(params) * passes <= MaxP * MaxMemory
  BY <1>1, <1>4, <1>5, <1>10, WorkGrows
<1> QED
  BY <1>10, <1>11 DEF Bounded, Work, passes

\* For every ceiling and every limit, a document that passes asks for no more
\* work of scrypt or pbkdf2 than they allow, however its products saturate
\* (check_kdf_params).
THEOREM WorkBounded == Spec => []WorkIsBounded
<1>1. Sound => WorkIsBounded
  <2> SUFFICES ASSUME Sound, Given("kdf"), Allowed(input.given)
               PROVE  Bounded(input.given)
    BY DEF WorkIsBounded
  <2>1. PICK params \in KdfParams : input = As("kdf", params)
    BY DEF Sound, Given, As, Nothing
  <2>2. params.kdf = "scrypt" \/ params.kdf = "pbkdf2"
    BY <2>1 DEF Allowed, As
  <2> QED
    BY <2>1, <2>2, ScryptIsBounded, Pbkdf2IsBounded DEF As
<1> QED
  BY <1>1, InputsSound, PTL
=============================================================================
