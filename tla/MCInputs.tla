------------------------------ MODULE MCInputs ------------------------------
(* Inputs for TLC: each set holds one good input, what is near it in one or *)
(* two places, and the numbers on both sides of each limit.                 *)
EXTENDS Inputs

-----------------------------------------------------------------------------
(* Intents. *)

F(form, says) == [form |-> form, says |-> says]
Empty == F("blank", 0)

Junk(text) == [form |-> "junk", text |-> text]

Hello == <<Word("hello")>>

NumberFields ==
  {Empty, Junk(Hello), F("bare", 1)}
    \union {F(form, n) : form \in {"dec", "hex", "HEX"}, n \in 1 .. U256}

HexFields ==
  {Empty, Junk(Hello)}
    \union {F(form, n) : form \in {"hex", "HEX", "bare", "twice"}, n \in 1 .. 2}

Transfer ==
  [kind |-> "tx", chain |-> 1, to |-> F("hex", 1), create |-> FALSE,
   accessList |-> FALSE, value |-> F("dec", 1), nonce |-> F("dec", 1),
   gas |-> F("dec", 1), data |-> F("hex", 1), mode |-> "",
   price |-> Empty, cap |-> Empty]

Modes == {"", "eip1559", "legacy", "LEGACY", "other"}

Txs ==
  {[Transfer EXCEPT !.chain = 2], [Transfer EXCEPT !.accessList = TRUE]}
    \union {[Transfer EXCEPT !.to = t, !.create = c] : t \in HexFields, c \in BOOLEAN}
    \union {[Transfer EXCEPT !.value = t] : t \in NumberFields}
    \union {[Transfer EXCEPT !.nonce = t] : t \in NumberFields}
    \union {[Transfer EXCEPT !.gas = t] : t \in NumberFields}
    \union {[Transfer EXCEPT !.data = t] : t \in HexFields \union {F("hex", 0), F("HEX", 0)}}
    \union {[Transfer EXCEPT !.mode = m, !.price = t] : m \in Modes, t \in NumberFields}
    \union {[Transfer EXCEPT !.mode = m, !.cap = t] : m \in Modes, t \in NumberFields}

MessageOf(text) == [kind |-> "message", text |-> text]

DigestOf(field, purpose) ==
  [kind |-> "digest", digest |-> field, purpose |-> purpose]

\* Texts in which a message might be seen to begin.
Lines == {Hello, <<Word("message")>>, <<Hidden>>, <<Word("hello"), Unit>>,
          Hello \o <<End, Word("message"), End>> \o Hello}

Messages == {MessageOf(text) : text \in Lines}

Digests == {DigestOf(t, Hello) : t \in HexFields}
             \union {DigestOf(F("hex", 1), text) : text \in Lines}

\* A fee that is not read, and one in which a second leg might be seen.
Unread == [Transfer EXCEPT !.price = Junk(Hello)]

Spilling ==
  LET second == EncodedLeg(Transfer)
  IN  [Transfer EXCEPT !.price = Junk(Hello \o <<Unit, End>>
                                        \o SubSeq(second, 1, Len(second) - 2))]

Legs == Txs \union Messages \union Digests \union {Spilling}

Asked(address, legs) ==
  [address |-> address, purpose |-> Hello, legs |-> legs]

SomeRequests ==
  {Asked(F("hex", 1), <<leg>>) : leg \in Legs}
    \union {Asked(t, <<Transfer>>) : t \in HexFields}
    \union {Asked(F("hex", 1), <<a, b>>) :
               a, b \in Messages \union {DigestOf(F("hex", 1), Hello), Transfer, Unread}}
    \union {Asked(F("hex", 1), <<>>),
            [Asked(F("hex", 1), <<Transfer>>) EXCEPT !.purpose = <<Hidden>>]}

-----------------------------------------------------------------------------
(* Texts of paths. *)

Seg(says, value, mark) == [says |-> says, value |-> value, mark |-> mark]

Segments ==
  {Seg("m", 0, "open"), Seg("other", 0, "open")}
    \union {Seg("number", n, h) : n \in 0 .. Hardened, h \in {"hard", "open"}}

Whole == {Display([account |-> a, change |-> 0, index |-> i]) : a, i \in {0, Hardened - 1}}

Swapped(s, i, seg) == [s EXCEPT ![i] = seg]

SomeTexts ==
  UNION {
    {Swapped(Swapped(s, i, a), j, b) : i, j \in 1 .. Len(s), a, b \in Segments}
      \union {SubSeq(s, 1, k) : k \in 0 .. Len(s)}
      \union {Append(s, seg) : seg \in Segments} :
    s \in Whole \union {AccountPrefix(0)}}
=============================================================================
