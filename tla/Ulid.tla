--------------------------------- MODULE Ulid ---------------------------------
(***************************************************************************)
(* Identifiers: sdk/typescript/src/ulid.ts and                             *)
(* sdk/python/resolvetrace/ulid.py.  A character is its place in the       *)
(* alphabet, an identifier a sequence of them, so that comparing strings   *)
(* is comparing sequences.  The sizes are constants; an identifier of the  *)
(* code has 10 characters of 5 bits for a time of 48 bits and 16 for 10    *)
(* random bytes of 8 bits.                                                 *)
(***************************************************************************)
EXTENDS Integers, Sequences

CONSTANTS CHAR_BITS, TIME_LEN, MAX_TIMESTAMP_MS, BYTE_BITS, RAND_BYTES, RAND_LEN

(* Powers of two: shifting by n bits multiplies with one, or divides. *)
Pow2[n \in Nat] == IF n = 0 THEN 1 ELSE 2 * Pow2[n - 1]

Alphabet == Pow2[CHAR_BITS]

(* A time fits in its characters, and the random bytes fill theirs. *)
ASSUME UlidAssumption ==
  /\ CHAR_BITS \in Nat \ {0} /\ BYTE_BITS \in Nat \ {0}
  /\ TIME_LEN \in Nat /\ RAND_BYTES \in Nat /\ RAND_LEN \in Nat
  /\ MAX_TIMESTAMP_MS \in Nat /\ MAX_TIMESTAMP_MS < Pow2[CHAR_BITS * TIME_LEN]
  /\ BYTE_BITS * RAND_BYTES = CHAR_BITS * RAND_LEN

OutOfRange == <<>>

-----------------------------------------------------------------------------
(* TypeScript.                                                             *)

(* From the last character to the first, what remains is divided. *)
encodeTimestamp(ms) ==
  LET remainder[n \in 0..TIME_LEN] ==
        IF n = 0 THEN ms
        ELSE (remainder[n - 1] - (remainder[n - 1] % Alphabet)) \div Alphabet
  IN  IF ms < 0 \/ ms > MAX_TIMESTAMP_MS THEN OutOfRange
      ELSE [i \in 1..TIME_LEN |-> remainder[TIME_LEN - i] % Alphabet]

(* The bits of a byte are put behind those in the buffer. *)
Buffered(reader, byte) ==
  [out |-> reader.out,
   buffer |-> reader.buffer * Pow2[BYTE_BITS] + byte,
   bits |-> reader.bits + BYTE_BITS]

(* The oldest bits of the buffer become a character. *)
Taken(reader) ==
  LET left == reader.bits - CHAR_BITS
  IN  [out |-> Append(reader.out, (reader.buffer \div Pow2[left]) % Alphabet),
       buffer |-> reader.buffer % Pow2[left],
       bits |-> left]

(* While there are bits for a character, one is taken. *)
Drained(reader) ==
  LET after[n \in 0..(reader.bits \div CHAR_BITS)] == IF n = 0 THEN reader ELSE Taken(after[n - 1])
  IN  after[reader.bits \div CHAR_BITS]

NoBits == [out |-> <<>>, buffer |-> 0, bits |-> 0]

(* The bit reader takes one byte after the other. *)
encodeRandomness(bytes) ==
  LET after[n \in 0..RAND_BYTES] ==
        IF n = 0 THEN NoBits ELSE Drained(Buffered(after[n - 1], bytes[n]))
  IN  IF Len(bytes) # RAND_BYTES THEN OutOfRange ELSE after[RAND_BYTES].out

generateUlid(ms, bytes) == encodeTimestamp(ms) \o encodeRandomness(bytes)

(* isUlid(): the length and the alphabet. *)
isUlid(id) == Len(id) = TIME_LEN + RAND_LEN /\ \A i \in DOMAIN id : id[i] \in 0..(Alphabet - 1)

-----------------------------------------------------------------------------
(* Python.                                                                 *)

(* What is left when all characters are written did not fit. *)
encodeBase32(value, length) ==
  LET left[n \in 0..length] == IF n = 0 THEN value ELSE left[n - 1] \div Alphabet
  IN  IF left[length] # 0 THEN OutOfRange
      ELSE [i \in 1..length |-> left[length - i] % Alphabet]

timestampMs(ms) == ms >= 0 /\ ms <= MAX_TIMESTAMP_MS

(* A number in a positional system, the first digit the most significant. *)
Positional(digits, base) ==
  LET upTo[n \in 0..Len(digits)] == IF n = 0 THEN 0 ELSE upTo[n - 1] * base + digits[n]
  IN  upTo[Len(digits)]

(* The bytes are one number. *)
FromBytes(bytes) == Positional(bytes, Pow2[BYTE_BITS])

pyGenerateUlid(ms, bytes) ==
  IF timestampMs(ms) THEN encodeBase32(ms, TIME_LEN) \o encodeBase32(FromBytes(bytes), RAND_LEN)
  ELSE OutOfRange

-----------------------------------------------------------------------------
(* The order of strings. *)
Precedes(a, b) ==
  \E i \in DOMAIN a : a[i] < b[i] /\ \A j \in 1..(i - 1) : a[j] = b[j]

=============================================================================
