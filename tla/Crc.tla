-------------------------------- MODULE Crc --------------------------------
(***************************************************************************)
(* The checksums of a SIS file (makesis-4/src/crc.c): crcSlow divides the  *)
(* message bit by bit, crcFast byte by byte with the help of a table that  *)
(* crcInit fills.                                                          *)
(*                                                                         *)
(* A register of the C code is the set of its bits that are one, so that   *)
(* exclusive or is symmetric difference and a shift drops what leaves the  *)
(* register.  In the program Width is 16, ByteBits 8 and the polynomial    *)
(* 0x1021, the set {0, 5, 12}; nothing is reflected and both the initial   *)
(* remainder and the final exclusive or are zero.                          *)
(***************************************************************************)
EXTENDS Integers, Sequences, FiniteSets

CONSTANTS
  Width,         (* bits of the type crc *)
  ByteBits,      (* bits of a byte of the message *)
  Polynomial,    (* POLYNOMIAL, without the bit Width *)
  MaxBytes       (* bound: bytes of a message *)

ASSUME CrcAssumption ==
  /\ ByteBits \in Nat \ {0}
  /\ Width \in Nat /\ Width >= ByteBits
  /\ Polynomial \subseteq 0 .. Width - 1

Byte == SUBSET (0 .. ByteBits - 1)

Register == SUBSET (0 .. Width - 1)

VARIABLES
  crcTable,      (* zero until crcInit is called *)
  initialised,   (* has crcInit been called? *)
  message,       (* the bytes done of the message *)
  slow,          (* the remainder in crcSlow *)
  fast           (* the remainder in crcFast *)

vars == <<crcTable, initialised, message, slow, fast>>

-----------------------------------------------------------------------------
Xor(r, s) == (r \ s) \cup (s \ r)

ShiftLeft(r, n) == {b + n : b \in r} \cap 0 .. Width - 1

ShiftRight(r, n) == {b - n : b \in {c \in r : c >= n}}

TOPBIT == Width - 1

(* Mutated form: the bit is tested after the shift. *)
DivideBitLate(r) ==
  IF TOPBIT \in ShiftLeft(r, 1) THEN Xor(ShiftLeft(r, 1), Polynomial) ELSE ShiftLeft(r, 1)

(* One turn of the inner loop. *)
DivideBit(r) ==
  IF TOPBIT \in r THEN Xor(ShiftLeft(r, 1), Polynomial) ELSE ShiftLeft(r, 1)

(* The inner loop. *)
DivideByte(r) ==
  LET after[n \in 0 .. ByteBits] == IF n = 0 THEN r ELSE DivideBit(after[n - 1])
  IN  after[ByteBits]

INITIAL_REMAINDER == {}

(* A byte at the top of the register. *)
AtTop(byte) == ShiftLeft(byte, Width - ByteBits)

SlowByte(remainder, byte) == DivideByte(Xor(remainder, AtTop(byte)))

TableEntry(dividend) == DivideByte(AtTop(dividend))

(* Mutated form: the remainder is shifted by a bit too few. *)
FastByteShort(remainder, byte) ==
  LET data == Xor(byte, ShiftRight(remainder, Width - ByteBits))
  IN  Xor(crcTable[data], ShiftLeft(remainder, ByteBits - 1))

FastByte(remainder, byte) ==
  LET data == Xor(byte, ShiftRight(remainder, Width - ByteBits))
  IN  Xor(crcTable[data], ShiftLeft(remainder, ByteBits))

-----------------------------------------------------------------------------
Init ==
  /\ crcTable = [d \in Byte |-> {}]
  /\ initialised = FALSE
  /\ message = << >>
  /\ slow = INITIAL_REMAINDER
  /\ fast = INITIAL_REMAINDER

crcInit ==
  /\ message = << >>
  /\ crcTable' = [d \in Byte |-> TableEntry(d)]
  /\ initialised' = TRUE
  /\ UNCHANGED <<message, slow, fast>>

(* One turn of the loops of crcSlow and crcFast over the same message. *)
NextByte(byte) ==
  /\ Len(message) < MaxBytes
  /\ message' = Append(message, byte)
  /\ slow' = SlowByte(slow, byte)
  /\ fast' = FastByte(fast, byte)
  /\ UNCHANGED <<crcTable, initialised>>

(* The end of both calls; the next message starts afresh. *)
Return ==
  /\ message' = << >>
  /\ slow' = INITIAL_REMAINDER
  /\ fast' = INITIAL_REMAINDER
  /\ UNCHANGED <<crcTable, initialised>>

Next == crcInit \/ (\E byte \in Byte : NextByte(byte)) \/ Return

Spec == Init /\ [][Next]_vars

-----------------------------------------------------------------------------
(* Registers stay registers: no step sets a bit beyond Width. *)
CrcTypeOK ==
  /\ crcTable \in [Byte -> Register]
  /\ initialised \in BOOLEAN
  /\ message \in Seq(Byte)
  /\ slow \in Register
  /\ fast \in Register

(* Once crcInit has filled the table, crcFast computes what crcSlow does,  *)
(* after every byte of every message: the checksums makesis writes with    *)
(* one are those signsis writes with the other.  Without crcInit the       *)
(* result of crcFast is zero for every message.                            *)
FastIsSlow ==
  /\ CrcTypeOK
  /\ fast = IF initialised THEN slow ELSE {}

(* The message as a polynomial, its first bit the highest. *)
MessageBits ==
  UNION {{b + (Len(message) - i) * ByteBits : b \in message[i]} :
           i \in 1 .. Len(message)}

(* The product of two polynomials over the field of two elements. *)
Product(p, q) ==
  LET factors(k) == {f \in p \X q : f[1] + f[2] = k}
  IN  {k \in {f[1] + f[2] : f \in p \X q} : Cardinality(factors(k)) % 2 = 1}

Generator == Polynomial \cup {Width}

(* crcSlow performs "modulo-2 division" (crc.c): what it returns is the    *)
(* remainder of the message, followed by Width zero bits, divided by the   *)
(* generator.                                                              *)
SlowIsRemainder ==
  \E quotient \in SUBSET (0 .. Len(message) * ByteBits - 1) :
    Xor(Product(quotient, Generator), {b + Width : b \in MessageBits}) = slow

=============================================================================
