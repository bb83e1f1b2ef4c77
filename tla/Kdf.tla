-------------------------------- MODULE Kdf ---------------------------------
(***************************************************************************)
(* check_kdf_params of keystore.rs: which documents of a vault pass.  The   *)
(* library that opens one does the work the document asks for.  The check  *)
(* is made of an imported document, of a staged one before settle promotes *)
(* it, and of the key of a wallet before it is opened; signer_for opens an *)
(* account's own vault without it.                                         *)
(***************************************************************************)
EXTENDS Integers

CONSTANTS
  MaxLogN,     \* MAX_SCRYPT_LOG_N, 18
  MaxR,        \* MAX_SCRYPT_R, 16
  MaxP,        \* MAX_SCRYPT_P, 16
  MaxC,        \* MAX_PBKDF2_C
  MaxMemory,   \* MAX_KDF_MEMORY_BYTES, 2^29
  Block,       \* 128, the bytes of a scrypt block of r = 1
  Top,         \* 2^64 - 1, where a product saturates
  Numbers      \* the numbers a document may hold

\* as_u64: a field that is missing, or is no such number.
Missing == -1

ASSUME KdfAssumption ==
  /\ {MaxLogN, MaxR, MaxP, MaxC, MaxMemory, Top} \subseteq Nat
  /\ Block \in Nat \ {0}
  /\ MaxMemory < Top
  /\ Numbers \subseteq 0 .. Top

Fields == Numbers \union {Missing}

\* The part of a document the check reads.
KdfParams ==
  [kdf : {"scrypt", "pbkdf2", "other"}, dklen : Fields,
   n : Fields, r : Fields, p : Fields, c : Fields]

Default(field, value) == IF field = Missing THEN value ELSE field

BlockSize(params) == Default(params.r, 8)
Passes(params) == Default(params.p, 1)

\* is_power_of_two and trailing_zeros
PowersOfTwo == {n \in 1 .. 2 ^ MaxLogN : \E k \in 0 .. MaxLogN : n = 2 ^ k}

\* saturating_mul
Times(x, y) == IF x * y > Top THEN Top ELSE x * y

\* Mutant: only what is needed at one time is bounded, and not how often.
RepeatsFreely(params) == BlockSize(params) <= MaxR

ModestBlocks(params) == BlockSize(params) <= MaxR /\ Passes(params) <= MaxP

ScryptAllowed(params) ==
  /\ params.n \in PowersOfTwo
  /\ ModestBlocks(params)
  /\ Times(Times(Block, BlockSize(params)), params.n) <= MaxMemory

Pbkdf2Allowed(params) == params.c # Missing /\ params.c <= MaxC

\* check_kdf_params
Allowed(params) ==
  /\ params.dklen \in {Missing, 32}
  /\ \/ params.kdf = "scrypt" /\ ScryptAllowed(params)
     \/ params.kdf = "pbkdf2" /\ Pbkdf2Allowed(params)

\* What scrypt allocates for its blocks, and how much of that it goes through.
Memory(params) == Block * BlockSize(params) * params.n
Work(params) == Memory(params) * Passes(params)

\* pbkdf2 repeats its hash c times for each block of the key, one of 32 bytes.
Rounds(params) == params.c * (Default(params.dklen, 32) \div 32)

\* What is asked for is bounded in exact arithmetic, whatever saturated in the
\* check: by scrypt the memory by the ceiling and the passes over it by their
\* own limit, by pbkdf2 the rounds.
Bounded(params) ==
  /\ params.kdf \in {"scrypt", "pbkdf2"}
  /\ params.kdf = "scrypt" =>
       Memory(params) <= MaxMemory /\ Work(params) <= MaxP * MaxMemory
  /\ params.kdf = "pbkdf2" => Rounds(params) \in 0 .. MaxC
=============================================================================
