----------------------------- MODULE Crc_proofs -----------------------------
(***************************************************************************)
(* Proofs about Crc, for registers and bytes of any width, any polynomial  *)
(* and messages of any length: crcFast returns what crcSlow returns, and   *)
(* crcSlow returns the remainder of the message.                           *)
(*                                                                         *)
(* The argument for crcFast: dividing is linear for exclusive or, so that  *)
(* the part of the remainder that is shifted out can be divided on its own *)
(* (the table has it) and the rest is only shifted.  The argument for      *)
(* crcSlow: each turn of the inner loop multiplies the remainder by two    *)
(* and takes the generator away where a bit would leave the register, so   *)
(* that remainder and message differ by a multiple of the generator.       *)
(***************************************************************************)
EXTENDS Crc, DataLemmas, FiniteSetTheorems, FunctionTheorems

LEMMA Widths ==
  /\ ByteBits \in Nat \ {0} /\ Width \in Nat \ {0} /\ Width >= ByteBits
  /\ Polynomial \in Register /\ TOPBIT \in 0 .. Width - 1
BY CrcAssumption DEF Register, TOPBIT

LEMMA XorMember ==
  ASSUME NEW r, NEW s, NEW k
  PROVE  k \in Xor(r, s) <=> ~ (k \in r <=> k \in s)
BY DEF Xor

LEMMA ShiftLeftMember ==
  ASSUME NEW r \in SUBSET Int, NEW n \in Int, NEW k
  PROVE  k \in ShiftLeft(r, n) <=> k \in 0 .. Width - 1 /\ k - n \in r
<1>1. ASSUME k \in ShiftLeft(r, n)
      PROVE  k \in 0 .. Width - 1 /\ k - n \in r
  <2>1. PICK b \in r : k = b + n
    BY <1>1 DEF ShiftLeft
  <2>2. b \in Int /\ k - n = b
    BY <2>1
  <2> QED
    BY <1>1, <2>2 DEF ShiftLeft
<1>2. ASSUME k \in 0 .. Width - 1, k - n \in r
      PROVE  k \in ShiftLeft(r, n)
  <2>1. k = (k - n) + n
    BY <1>2, Widths
  <2> QED
    BY <1>2, <2>1 DEF ShiftLeft
<1> QED
  BY <1>1, <1>2

LEMMA RegisterBits ==
  ASSUME NEW r \in Register
  PROVE  r \in SUBSET Int /\ \A k \in r : k \in 0 .. Width - 1
BY Widths DEF Register

LEMMA XorIsRegister ==
  ASSUME NEW r \in Register, NEW s \in Register
  PROVE  Xor(r, s) \in Register
BY DEF Xor, Register

LEMMA ShiftLeftIsRegister ==
  ASSUME NEW r, NEW n
  PROVE  ShiftLeft(r, n) \in Register
BY DEF ShiftLeft, Register

LEMMA DivideBitIsRegister ==
  ASSUME NEW r
  PROVE  DivideBit(r) \in Register
BY ShiftLeftIsRegister, XorIsRegister, Widths DEF DivideBit

LEMMA ShiftLeftLinear ==
  ASSUME NEW r \in SUBSET Int, NEW s \in SUBSET Int, NEW n \in Int
  PROVE  ShiftLeft(Xor(r, s), n) = Xor(ShiftLeft(r, n), ShiftLeft(s, n))
<1>1. Xor(r, s) \in SUBSET Int
  BY DEF Xor
<1>2. ASSUME NEW k
      PROVE  k \in ShiftLeft(Xor(r, s), n) <=> k \in Xor(ShiftLeft(r, n), ShiftLeft(s, n))
  <2>1. k \in ShiftLeft(Xor(r, s), n) <=> k \in 0 .. Width - 1 /\ k - n \in Xor(r, s)
    BY <1>1, ShiftLeftMember
  <2>2. k - n \in Xor(r, s) <=> ~ (k - n \in r <=> k - n \in s)
    BY XorMember
  <2>3. k \in ShiftLeft(r, n) <=> k \in 0 .. Width - 1 /\ k - n \in r
    BY ShiftLeftMember
  <2>4. k \in ShiftLeft(s, n) <=> k \in 0 .. Width - 1 /\ k - n \in s
    BY ShiftLeftMember
  <2>5. k \in Xor(ShiftLeft(r, n), ShiftLeft(s, n))
          <=> ~ (k \in ShiftLeft(r, n) <=> k \in ShiftLeft(s, n))
    BY XorMember
  <2> QED
    BY <2>1, <2>2, <2>3, <2>4, <2>5
<1> QED
  BY <1>2

(* One turn of the inner loop is linear. *)
LEMMA DivideBitLinear ==
  ASSUME NEW r \in Register, NEW s \in Register
  PROVE  DivideBit(Xor(r, s)) = Xor(DivideBit(r), DivideBit(s))
<1>1. PICK a, b, c : a = ShiftLeft(r, 1) /\ b = ShiftLeft(s, 1) /\ c = ShiftLeft(Xor(r, s), 1)
  OBVIOUS
<1>2. c = Xor(a, b)
  BY <1>1, RegisterBits, ShiftLeftLinear
<1>3. TOPBIT \in Xor(r, s) <=> ~ (TOPBIT \in r <=> TOPBIT \in s)
  BY XorMember
<1>4. /\ DivideBit(r) = IF TOPBIT \in r THEN Xor(a, Polynomial) ELSE a
      /\ DivideBit(s) = IF TOPBIT \in s THEN Xor(b, Polynomial) ELSE b
      /\ DivideBit(Xor(r, s)) = IF TOPBIT \in Xor(r, s) THEN Xor(c, Polynomial) ELSE c
  BY <1>1 DEF DivideBit
<1>5. /\ Xor(Xor(a, b), Polynomial) = Xor(Xor(a, Polynomial), b)
      /\ Xor(Xor(a, b), Polynomial) = Xor(a, Xor(b, Polynomial))
      /\ Xor(a, b) = Xor(Xor(a, Polynomial), Xor(b, Polynomial))
  BY DEF Xor
<1> QED
  BY <1>2, <1>3, <1>4, <1>5

(* The inner loop is the recursion that it is written as. *)
Divides(a, r) ==
  /\ a[0] = r
  /\ \A n \in 1 .. ByteBits : a[n] = DivideBit(a[n - 1])
  /\ DivideByte(r) = a[ByteBits]

LEMMA DivideByteSteps ==
  ASSUME NEW r \in Register
  PROVE  \E a \in [0 .. ByteBits -> Register] : Divides(a, r)
<1> DEFINE after[n \in 0 .. ByteBits] == IF n = 0 THEN r ELSE DivideBit(after[n - 1])
<1>1. DivideByte(r) = after[ByteBits]
  BY Zenon DEF DivideByte
<1>2. after = CHOOSE f : f = [n \in 0 .. ByteBits |-> IF n = 0 THEN r ELSE DivideBit(f[n - 1])]
  BY Zenon DEF after
<1> HIDE DEF after
<1>3. PICK g : g = [p \in (1 .. ByteBits) \X Register |-> DivideBit(p[2])]
  OBVIOUS
<1>4. g \in [(1 .. ByteBits) \X Register -> Register] /\ ByteBits \in Nat
  BY <1>3, DivideBitIsRegister, Widths
<1>5. PICK f \in [0 .. ByteBits -> Register] : Follows(f, ByteBits, r, g)
  BY <1>4, RecursionExists
<1>6. f[0] = r /\ \A n \in 1 .. ByteBits : f[n] = DivideBit(f[n - 1])
  <2>1. ASSUME NEW n \in 1 .. ByteBits
        PROVE  f[n] = DivideBit(f[n - 1])
    <3>1. f[n] = g[<<n, f[n - 1]>>]
      BY <1>5 DEF Follows
    <3>2. n - 1 \in 0 .. ByteBits
      BY <1>4
    <3>3. f[n - 1] \in Register
      BY <3>2
    <3> QED
      BY <1>3, <3>1, <3>3
  <2> QED
    BY <1>5, <2>1 DEF Follows
<1>7. f = [n \in 0 .. ByteBits |-> IF n = 0 THEN r ELSE DivideBit(f[n - 1])]
  <2>1. \A n \in 0 .. ByteBits : n = 0 \/ n \in 1 .. ByteBits
    BY <1>4
  <2>2. \A n \in 0 .. ByteBits : f[n] = IF n = 0 THEN r ELSE DivideBit(f[n - 1])
    BY <1>6, <2>1
  <2> QED
    BY <2>2
<1>8. after = [n \in 0 .. ByteBits |-> IF n = 0 THEN r ELSE DivideBit(after[n - 1])]
  BY <1>2, <1>7, Zenon
<1>9. after[0] = r /\ \A n \in 1 .. ByteBits : after[n] = DivideBit(after[n - 1])
  <2>1. 0 \in 0 .. ByteBits /\ \A n \in 1 .. ByteBits : n \in 0 .. ByteBits /\ n # 0
    BY <1>4
  <2> QED
    BY <1>8, <2>1, Zenon
<1>10. \A n \in 0 .. ByteBits : after[n] \in Register
  <2>1. \A n \in 0 .. ByteBits : n = 0 \/ n \in 1 .. ByteBits
    BY <1>4
  <2> QED
    BY <1>9, <2>1, DivideBitIsRegister
<1>11. after \in [0 .. ByteBits -> Register]
  <2>1. after = [n \in 0 .. ByteBits |-> after[n]]
    BY <1>8, Zenon
  <2> QED
    BY <1>10, <2>1, Zenon
<1>12. Divides(after, r)
  BY <1>1, <1>9 DEF Divides
<1> QED
  BY <1>11, <1>12

LEMMA DivideByteIsRegister ==
  ASSUME NEW r \in Register
  PROVE  DivideByte(r) \in Register
<1>1. PICK a \in [0 .. ByteBits -> Register] : Divides(a, r)
  BY DivideByteSteps
<1> QED
  BY <1>1, Widths DEF Divides

LEMMA DivideByteLinear ==
  ASSUME NEW r \in Register, NEW s \in Register
  PROVE  DivideByte(Xor(r, s)) = Xor(DivideByte(r), DivideByte(s))
<1>1. PICK a \in [0 .. ByteBits -> Register] : Divides(a, r)
  BY DivideByteSteps
<1>2. PICK b \in [0 .. ByteBits -> Register] : Divides(b, s)
  BY DivideByteSteps
<1>3. PICK c \in [0 .. ByteBits -> Register] : Divides(c, Xor(r, s))
  BY XorIsRegister, DivideByteSteps
<1>4. PICK T : T = {n \in 0 .. ByteBits : c[n] = Xor(a[n], b[n])}
  OBVIOUS
<1>5. ByteBits \in Nat
  BY Widths
<1>6. 0 \in T
  <2>1. c[0] = Xor(a[0], b[0]) /\ 0 \in 0 .. ByteBits
    BY <1>1, <1>2, <1>3, <1>5 DEF Divides
  <2> QED
    BY <1>4, <2>1
<1>7. ASSUME NEW n \in 0 .. ByteBits - 1, n \in T
      PROVE  n + 1 \in T
  <2>1. n + 1 \in 1 .. ByteBits /\ (n + 1) - 1 = n /\ n + 1 \in 0 .. ByteBits /\ n \in 0 .. ByteBits
    BY <1>5
  <2>2. /\ a[n + 1] = DivideBit(a[n]) /\ b[n + 1] = DivideBit(b[n])
        /\ c[n + 1] = DivideBit(c[n])
    BY <1>1, <1>2, <1>3, <2>1 DEF Divides
  <2>3. c[n] = Xor(a[n], b[n]) /\ a[n] \in Register /\ b[n] \in Register
    BY <1>1, <1>2, <1>4, <1>7, <2>1
  <2>4. c[n + 1] = Xor(a[n + 1], b[n + 1])
    BY <2>2, <2>3, DivideBitLinear
  <2> QED
    BY <1>4, <2>1, <2>4
<1>8. \A n \in 0 .. ByteBits : n \in T
  BY <1>5, <1>6, <1>7, SetInduction
<1>9. ByteBits \in 0 .. ByteBits
  BY <1>5
<1> QED
  BY <1>1, <1>2, <1>3, <1>4, <1>8, <1>9 DEF Divides

(* Bits that do not reach the top are only shifted. *)
LEMMA LowBitsShift ==
  ASSUME NEW r \in SUBSET (0 .. Width - ByteBits - 1)
  PROVE  DivideByte(r) = ShiftLeft(r, ByteBits)
<1>1. r \in Register /\ r \in SUBSET Int
  BY Widths DEF Register
<1>2. PICK a \in [0 .. ByteBits -> Register] : Divides(a, r)
  BY <1>1, DivideByteSteps
<1>3. PICK T : T = {n \in 0 .. ByteBits : a[n] = ShiftLeft(r, n)}
  OBVIOUS
<1>4. ByteBits \in Nat /\ Width \in Nat /\ TOPBIT = Width - 1
  BY Widths DEF TOPBIT
<1>5. 0 \in T
  <2>1. ShiftLeft(r, 0) = r
    <3>1. \A k : k \in ShiftLeft(r, 0) <=> k \in 0 .. Width - 1 /\ k - 0 \in r
      BY <1>1, ShiftLeftMember
    <3>2. \A k \in Int : k - 0 = k
      OBVIOUS
    <3>3. \A k \in r : k \in 0 .. Width - 1 /\ k \in Int
      BY <1>1, RegisterBits
    <3>4. (0 .. Width - 1) \subseteq Int
      OBVIOUS
    <3> QED
      BY <3>1, <3>2, <3>3, <3>4
  <2>2. a[0] = r /\ 0 \in 0 .. ByteBits
    BY <1>2, <1>4 DEF Divides
  <2> QED
    BY <1>3, <2>1, <2>2
<1>6. ASSUME NEW n \in 0 .. ByteBits - 1, n \in T
      PROVE  n + 1 \in T
  <2>1. /\ n + 1 \in 1 .. ByteBits /\ (n + 1) - 1 = n /\ n + 1 \in 0 .. ByteBits
        /\ n \in Int /\ n + 1 \in Int
    BY <1>4
  <2>2. a[n + 1] = DivideBit(ShiftLeft(r, n))
    BY <1>2, <1>3, <1>6, <2>1 DEF Divides
  <2>3. TOPBIT \notin ShiftLeft(r, n)
    <3>1. TOPBIT \in ShiftLeft(r, n) => TOPBIT - n \in r
      BY <1>1, <2>1, ShiftLeftMember
    <3>2. TOPBIT - n > Width - ByteBits - 1
      BY <1>4
    <3>3. \A k \in r : k <= Width - ByteBits - 1 /\ k \in Int
      BY <1>4
    <3>4. TOPBIT - n \in Int /\ Width - ByteBits - 1 \in Int
      BY <1>4
    <3> QED
      BY <3>1, <3>2, <3>3, <3>4
  <2>4. ShiftLeft(ShiftLeft(r, n), 1) = ShiftLeft(r, n + 1)
    <3>1. ShiftLeft(r, n) \in SUBSET Int
      BY ShiftLeftIsRegister, RegisterBits
    <3>2. \A k : k \in ShiftLeft(ShiftLeft(r, n), 1)
                   <=> k \in 0 .. Width - 1 /\ k - 1 \in ShiftLeft(r, n)
      BY <3>1, ShiftLeftMember
    <3>3. \A k : k \in ShiftLeft(r, n) <=> k \in 0 .. Width - 1 /\ k - n \in r
      BY <1>1, <2>1, ShiftLeftMember
    <3>4. \A k : k \in ShiftLeft(r, n + 1) <=> k \in 0 .. Width - 1 /\ k - (n + 1) \in r
      BY <1>1, <2>1, ShiftLeftMember
    <3>5. ASSUME NEW k \in 0 .. Width - 1
          PROVE  /\ (k - 1) - n = k - (n + 1)
                 /\ k - (n + 1) \in r => k - 1 \in 0 .. Width - 1
      <4>1. (k - 1) - n = k - (n + 1) /\ k \in Int /\ k - (n + 1) \in Int
        BY <1>4, <2>1
      <4>2. \A j \in r : j >= 0
        BY <1>4
      <4> QED
        BY <1>4, <2>1, <4>1, <4>2
    <3>6. ASSUME NEW k
          PROVE  k \in ShiftLeft(ShiftLeft(r, n), 1) <=> k \in ShiftLeft(r, n + 1)
      BY <3>2, <3>3, <3>4, <3>5
    <3> QED
      BY <3>6
  <2>5. a[n + 1] = ShiftLeft(r, n + 1)
    BY <2>2, <2>3, <2>4 DEF DivideBit
  <2> QED
    BY <1>3, <2>1, <2>5
<1>7. \A n \in 0 .. ByteBits : n \in T
  BY <1>4, <1>5, <1>6, SetInduction
<1>8. ByteBits \in 0 .. ByteBits
  BY <1>4
<1> QED
  BY <1>2, <1>3, <1>7, <1>8 DEF Divides

-----------------------------------------------------------------------------
LEMMA ShiftRightMember ==
  ASSUME NEW r \in SUBSET Int, NEW n \in Nat, NEW k
  PROVE  k \in ShiftRight(r, n) <=> k \in Nat /\ k + n \in r
<1>1. ASSUME k \in ShiftRight(r, n)
      PROVE  k \in Nat /\ k + n \in r
  <2>1. PICK b \in r : b >= n /\ k = b - n
    BY <1>1 DEF ShiftRight
  <2>2. b \in Int /\ k + n = b /\ k \in Nat
    BY <2>1
  <2> QED
    BY <2>2
<1>2. ASSUME k \in Nat, k + n \in r
      PROVE  k \in ShiftRight(r, n)
  <2>1. k + n >= n /\ (k + n) - n = k
    BY <1>2
  <2> QED
    BY <1>2, <2>1 DEF ShiftRight
<1> QED
  BY <1>1, <1>2

LEMMA ByteBitsOf ==
  ASSUME NEW d \in Byte
  PROVE  d \in SUBSET Int /\ \A k \in d : k \in 0 .. ByteBits - 1
BY Widths DEF Byte

LEMMA AtTopIsRegister ==
  ASSUME NEW d
  PROVE  AtTop(d) \in Register
BY ShiftLeftIsRegister DEF AtTop

(* The index into the table is a byte. *)
LEMMA IndexIsByte ==
  ASSUME NEW r \in Register, NEW byte \in Byte
  PROVE  Xor(byte, ShiftRight(r, Width - ByteBits)) \in Byte
<1>1. PICK n : n = Width - ByteBits
  OBVIOUS
<1>2. n \in Nat /\ Width \in Nat /\ ByteBits \in Nat /\ Width - n = ByteBits
  BY <1>1, Widths
<1>3. \A k \in ShiftRight(r, n) : k \in 0 .. ByteBits - 1
  <2> SUFFICES ASSUME NEW k \in ShiftRight(r, n) PROVE k \in 0 .. ByteBits - 1
    OBVIOUS
  <2>1. k \in Nat /\ k + n \in r
    BY <1>2, RegisterBits, ShiftRightMember
  <2>2. k + n \in 0 .. Width - 1
    BY <2>1, RegisterBits
  <2> QED
    BY <1>2, <2>1, <2>2
<1>4. \A k \in byte : k \in 0 .. ByteBits - 1
  BY ByteBitsOf
<1> QED
  BY <1>1, <1>3, <1>4 DEF Xor, Byte

(* What is at the top of the register, and what is below. *)
LEMMA TopAndRest ==
  ASSUME NEW r \in Register, NEW byte \in Byte, NEW data,
         data = Xor(byte, ShiftRight(r, Width - ByteBits)),
         NEW low, low = {b \in r : b < Width - ByteBits}
  PROVE  /\ low \in SUBSET (0 .. Width - ByteBits - 1)
         /\ Xor(r, AtTop(byte)) = Xor(AtTop(data), low)
         /\ ShiftLeft(low, ByteBits) = ShiftLeft(r, ByteBits)
<1>1. PICK n : n = Width - ByteBits
  OBVIOUS
<1>2. n \in Nat /\ n \in Int /\ Width \in Nat /\ ByteBits \in Nat /\ ByteBits \in Int
      /\ Width = n + ByteBits
  BY <1>1, Widths
<1>3. r \in SUBSET Int /\ byte \in SUBSET Int /\ low \in SUBSET Int /\ data \in SUBSET Int
  BY RegisterBits, ByteBitsOf, IndexIsByte
<1>4. \A k \in r : k \in 0 .. Width - 1
  BY RegisterBits
<1>5. low \in SUBSET (0 .. Width - ByteBits - 1)
  BY <1>1, <1>2, <1>4
<1>6. ASSUME NEW k
      PROVE  k \in Xor(r, AtTop(byte)) <=> k \in Xor(AtTop(data), low)
  <2>1. k \in Xor(r, AtTop(byte)) <=> ~ (k \in r <=> k \in AtTop(byte))
    BY XorMember
  <2>2. k \in Xor(AtTop(data), low) <=> ~ (k \in AtTop(data) <=> k \in low)
    BY XorMember
  <2>3. k \in AtTop(byte) <=> k \in 0 .. Width - 1 /\ k - n \in byte
    BY <1>1, <1>2, <1>3, ShiftLeftMember DEF AtTop
  <2>4. k \in AtTop(data) <=> k \in 0 .. Width - 1 /\ k - n \in data
    BY <1>1, <1>2, <1>3, ShiftLeftMember DEF AtTop
  <2>5. k - n \in data <=> ~ (k - n \in byte <=> k - n \in ShiftRight(r, n))
    BY <1>1, XorMember
  <2>6. k - n \in ShiftRight(r, n) <=> k - n \in Nat /\ (k - n) + n \in r
    BY <1>2, <1>3, ShiftRightMember
  <2>7. k \in low <=> k \in r /\ k < n
    BY <1>1
  <2>8. CASE k \in 0 .. Width - 1
    <3>1. (k - n) + n = k /\ (k - n \in Nat <=> ~ (k < n))
      BY <1>2, <2>8
    <3> QED
      BY <2>1, <2>2, <2>3, <2>4, <2>5, <2>6, <2>7, <2>8, <3>1
  <2>9. CASE k \notin 0 .. Width - 1
    <3>1. k \notin r
      BY <1>4, <2>9
    <3> QED
      BY <2>1, <2>2, <2>3, <2>4, <2>7, <2>9, <3>1
  <2> QED
    BY <2>8, <2>9
<1>7. ASSUME NEW k
      PROVE  k \in ShiftLeft(low, ByteBits) <=> k \in ShiftLeft(r, ByteBits)
  <2>1. k \in ShiftLeft(low, ByteBits) <=> k \in 0 .. Width - 1 /\ k - ByteBits \in low
    BY <1>2, <1>3, ShiftLeftMember
  <2>2. k \in ShiftLeft(r, ByteBits) <=> k \in 0 .. Width - 1 /\ k - ByteBits \in r
    BY <1>2, <1>3, ShiftLeftMember
  <2>3. k \in 0 .. Width - 1 => k - ByteBits < n
    BY <1>2
  <2> QED
    BY <1>1, <2>1, <2>2, <2>3
<1>8. Xor(r, AtTop(byte)) = Xor(AtTop(data), low)
  BY <1>6
<1>9. ShiftLeft(low, ByteBits) = ShiftLeft(r, ByteBits)
  BY <1>7
<1> QED
  BY <1>5, <1>8, <1>9

(* A byte in crcFast, with the table filled, is a byte in crcSlow. *)
LEMMA TableDividesByte ==
  ASSUME NEW r \in Register, NEW byte \in Byte,
         crcTable = [d \in Byte |-> TableEntry(d)]
  PROVE  FastByte(r, byte) = SlowByte(r, byte)
<1>1. PICK data : data = Xor(byte, ShiftRight(r, Width - ByteBits))
  OBVIOUS
<1>2. PICK low : low = {b \in r : b < Width - ByteBits}
  OBVIOUS
<1>3. /\ low \in SUBSET (0 .. Width - ByteBits - 1)
      /\ Xor(r, AtTop(byte)) = Xor(AtTop(data), low)
      /\ ShiftLeft(low, ByteBits) = ShiftLeft(r, ByteBits)
  BY <1>1, <1>2, TopAndRest
<1>4. AtTop(data) \in Register /\ low \in Register /\ data \in Byte
  BY <1>1, <1>2, AtTopIsRegister, IndexIsByte DEF Register
<1>5. SlowByte(r, byte) = Xor(DivideByte(AtTop(data)), DivideByte(low))
  BY <1>3, <1>4, DivideByteLinear DEF SlowByte
<1>6. DivideByte(low) = ShiftLeft(r, ByteBits)
  BY <1>3, LowBitsShift
<1>7. crcTable[data] = DivideByte(AtTop(data))
  BY <1>4 DEF TableEntry
<1>8. FastByte(r, byte) = Xor(crcTable[data], ShiftLeft(r, ByteBits))
  BY <1>1 DEF FastByte
<1> QED
  BY <1>5, <1>6, <1>7, <1>8

(* Without the table, crcFast stays at zero. *)
LEMMA NoTableNoRemainder ==
  ASSUME NEW byte \in Byte, crcTable = [d \in Byte |-> {}]
  PROVE  FastByte({}, byte) = {}
<1>1. ShiftRight({}, Width - ByteBits) = {} /\ ShiftLeft({}, ByteBits) = {}
  BY DEF ShiftRight, ShiftLeft
<1>2. Xor(byte, {}) = byte /\ Xor({}, {}) = {}
  BY DEF Xor
<1> QED
  BY <1>1, <1>2 DEF FastByte

-----------------------------------------------------------------------------
(* The table is what crcInit made of it, a message starts from zero, and   *)
(* both remainders are registers.                                          *)
CrcInv ==
  /\ CrcTypeOK
  /\ crcTable = IF initialised THEN [d \in Byte |-> TableEntry(d)] ELSE [d \in Byte |-> {}]
  /\ message = << >> => slow = {} /\ fast = {}
  /\ fast = IF initialised THEN slow ELSE {}

LEMMA NothingIsRegister == {} \in Register
BY DEF Register

LEMMA CrcInvInit == Init => CrcInv
<1> SUFFICES ASSUME Init PROVE CrcInv
  OBVIOUS
<1>1. CrcTypeOK
  <2>1. /\ crcTable = [d \in Byte |-> {}] /\ message = << >> /\ initialised = FALSE
        /\ slow = {} /\ fast = {}
    BY DEF Init, INITIAL_REMAINDER
  <2>2. crcTable \in [Byte -> Register]
    BY <2>1, NothingIsRegister
  <2>3. message \in Seq(Byte)
    BY <2>1
  <2>4. initialised \in BOOLEAN
    BY <2>1, Zenon
  <2> QED
    BY <2>1, <2>2, <2>3, <2>4, NothingIsRegister DEF CrcTypeOK
<1> QED
  BY <1>1 DEF Init, CrcInv, INITIAL_REMAINDER

LEMMA CrcInvStep ==
  ASSUME CrcInv, [Next]_vars
  PROVE  CrcInv'
<1>1. CASE crcInit
  <2>1. /\ message = << >> /\ message' = message /\ slow' = slow /\ fast' = fast
        /\ crcTable' = [d \in Byte |-> TableEntry(d)] /\ initialised' = TRUE
    BY <1>1 DEF crcInit
  <2>2. slow = {} /\ fast = {}
    BY <2>1 DEF CrcInv
  <2>3. \A d \in Byte : TableEntry(d) \in Register
    BY AtTopIsRegister, DivideByteIsRegister DEF TableEntry
  <2>4. CrcTypeOK'
    BY <2>1, <2>3 DEF CrcInv, CrcTypeOK
  <2> QED
    BY <2>1, <2>2, <2>4 DEF CrcInv
<1>2. CASE \E byte \in Byte : NextByte(byte)
  <2>1. PICK byte \in Byte : NextByte(byte)
    BY <1>2
  <2>2. /\ message' = Append(message, byte) /\ slow' = SlowByte(slow, byte)
        /\ fast' = FastByte(fast, byte) /\ crcTable' = crcTable /\ initialised' = initialised
    BY <2>1 DEF NextByte
  <2>3. message \in Seq(Byte) /\ slow \in Register /\ fast \in Register /\ initialised \in BOOLEAN
        /\ crcTable \in [Byte -> Register]
    BY DEF CrcInv, CrcTypeOK
  <2>4. message' \in Seq(Byte) /\ message' # << >>
    BY <2>1, <2>2, <2>3
  <2>5. slow' \in Register
    BY <2>2, <2>3, AtTopIsRegister, XorIsRegister, DivideByteIsRegister DEF SlowByte
  <2>6. fast' = IF initialised THEN slow' ELSE {}
    <3>1. CASE initialised
      BY <2>1, <2>2, <2>3, <3>1, TableDividesByte DEF CrcInv
    <3>2. CASE ~ initialised
      BY <2>1, <2>2, <3>2, NoTableNoRemainder DEF CrcInv
    <3> QED
      BY <3>1, <3>2
  <2>7. fast' \in Register
    BY <2>5, <2>6, NothingIsRegister
  <2> QED
    BY <2>2, <2>3, <2>4, <2>5, <2>6, <2>7 DEF CrcInv, CrcTypeOK
<1>3. CASE Return
  <2>1. /\ message' = << >> /\ slow' = {} /\ fast' = {} /\ crcTable' = crcTable
        /\ initialised' = initialised
    BY <1>3 DEF Return, INITIAL_REMAINDER
  <2>2. message' \in Seq(Byte)
    BY <2>1
  <2> QED
    BY <2>1, <2>2, NothingIsRegister DEF CrcInv, CrcTypeOK
<1>4. CASE UNCHANGED vars
  BY <1>4 DEF vars, CrcInv, CrcTypeOK
<1> QED
  BY <1>1, <1>2, <1>3, <1>4 DEF Next

LEMMA CrcInvHolds == Spec => []CrcInv
<1>1. CrcInv /\ [Next]_vars => CrcInv'
  BY CrcInvStep
<1> QED
  BY <1>1, CrcInvInit, PTL DEF Spec

(* crcFast, with the table that crcInit has filled, returns for every      *)
(* message what crcSlow returns, whatever the width, the size of a byte    *)
(* and the polynomial; without the table it returns zero.  Registers stay  *)
(* within their width.                                                     *)
THEOREM FastIsAlwaysSlow == Spec => []FastIsSlow
<1>1. CrcInv => FastIsSlow
  BY DEF CrcInv, FastIsSlow
<1> QED
  BY <1>1, CrcInvHolds, PTL

-----------------------------------------------------------------------------
(* Polynomials: a set of exponents, multiplied by a power of the variable. *)
Shifted(X, n) == {b + n : b \in X}

LEMMA ShiftedMember ==
  ASSUME NEW X \in SUBSET Int, NEW n \in Int, NEW k \in Int
  PROVE  k \in Shifted(X, n) <=> k - n \in X
<1>1. ASSUME k \in Shifted(X, n) PROVE k - n \in X
  <2>1. PICK b \in X : k = b + n
    BY <1>1 DEF Shifted
  <2>2. b \in Int /\ k - n = b
    BY <2>1
  <2> QED
    BY <2>2
<1>2. ASSUME k - n \in X PROVE k \in Shifted(X, n)
  <2>1. k = (k - n) + n
    OBVIOUS
  <2> QED
    BY <1>2, <2>1 DEF Shifted
<1> QED
  BY <1>1, <1>2

LEMMA ShiftedIsInt ==
  ASSUME NEW X \in SUBSET Int, NEW n \in Int
  PROVE  Shifted(X, n) \in SUBSET Int
BY DEF Shifted

LEMMA XorIsInt ==
  ASSUME NEW X \in SUBSET Int, NEW Y \in SUBSET Int
  PROVE  Xor(X, Y) \in SUBSET Int
BY DEF Xor

(* Two sets of numbers with the same numbers are the same. *)
LEMMA SameNumbers ==
  ASSUME NEW X \in SUBSET Int, NEW Y \in SUBSET Int, \A k \in Int : k \in X <=> k \in Y
  PROVE  X = Y
OBVIOUS

LEMMA ShiftedLinear ==
  ASSUME NEW X \in SUBSET Int, NEW Y \in SUBSET Int, NEW n \in Int
  PROVE  Shifted(Xor(X, Y), n) = Xor(Shifted(X, n), Shifted(Y, n))
<1>1. /\ Xor(X, Y) \in SUBSET Int /\ Shifted(X, n) \in SUBSET Int /\ Shifted(Y, n) \in SUBSET Int
  BY XorIsInt, ShiftedIsInt
<1>2. /\ Shifted(Xor(X, Y), n) \in SUBSET Int
      /\ Xor(Shifted(X, n), Shifted(Y, n)) \in SUBSET Int
  BY <1>1, XorIsInt, ShiftedIsInt
<1>3. ASSUME NEW k \in Int
      PROVE  k \in Shifted(Xor(X, Y), n) <=> k \in Xor(Shifted(X, n), Shifted(Y, n))
  <2>1. k \in Shifted(Xor(X, Y), n) <=> k - n \in Xor(X, Y)
    BY <1>1, ShiftedMember
  <2>2. (k \in Shifted(X, n) <=> k - n \in X) /\ (k \in Shifted(Y, n) <=> k - n \in Y)
    BY ShiftedMember
  <2>3. k - n \in Xor(X, Y) <=> ~ (k - n \in X <=> k - n \in Y)
    BY XorMember
  <2>4. k \in Xor(Shifted(X, n), Shifted(Y, n)) <=> ~ (k \in Shifted(X, n) <=> k \in Shifted(Y, n))
    BY XorMember
  <2> QED
    BY <2>1, <2>2, <2>3, <2>4
<1> QED
  BY <1>2, <1>3, SameNumbers

LEMMA ShiftedTwice ==
  ASSUME NEW X \in SUBSET Int, NEW m \in Int, NEW n \in Int
  PROVE  Shifted(Shifted(X, m), n) = Shifted(X, m + n)
<1>1. /\ Shifted(X, m) \in SUBSET Int /\ Shifted(X, m + n) \in SUBSET Int /\ m + n \in Int
  BY ShiftedIsInt
<1>2. Shifted(Shifted(X, m), n) \in SUBSET Int
  BY <1>1, ShiftedIsInt
<1>3. ASSUME NEW k \in Int
      PROVE  k \in Shifted(Shifted(X, m), n) <=> k \in Shifted(X, m + n)
  <2>1. k - n \in Int /\ (k - n) - m = k - (m + n)
    OBVIOUS
  <2>2. k \in Shifted(Shifted(X, m), n) <=> k - n \in Shifted(X, m)
    BY <1>1, ShiftedMember
  <2>3. k - n \in Shifted(X, m) <=> (k - n) - m \in X
    BY <2>1, ShiftedMember
  <2>4. k \in Shifted(X, m + n) <=> k - (m + n) \in X
    BY <1>1, ShiftedMember
  <2> QED
    BY <2>1, <2>2, <2>3, <2>4
<1> QED
  BY <1>1, <1>2, <1>3, SameNumbers

Factors(p, q, k) == {f \in p \X q : f[1] + f[2] = k}

(* A number is an exponent of the product when it is the sum of exponents  *)
(* in an odd number of ways.                                               *)
LEMMA ProductMember ==
  ASSUME NEW p, NEW q, NEW k
  PROVE  k \in Product(p, q) <=> Cardinality(Factors(p, q, k)) % 2 = 1
<1>1. k \in Product(p, q) <=> /\ k \in {f[1] + f[2] : f \in p \X q}
                              /\ Cardinality(Factors(p, q, k)) % 2 = 1
  BY DEF Product, Factors
<1>2. ASSUME k \notin {f[1] + f[2] : f \in p \X q}
      PROVE  Cardinality(Factors(p, q, k)) % 2 # 1
  <2>1. Factors(p, q, k) = {}
    BY <1>2 DEF Factors
  <2>2. Cardinality(Factors(p, q, k)) = 0
    BY <2>1, FS_EmptySet
  <2> QED
    BY <2>2
<1> QED
  BY <1>1, <1>2

LEMMA ProductIsInt ==
  ASSUME NEW p \in SUBSET Int, NEW q \in SUBSET Int
  PROVE  Product(p, q) \in SUBSET Int
<1>1. Product(p, q) \subseteq {f[1] + f[2] : f \in p \X q}
  BY DEF Product
<1>2. \A f \in p \X q : f[1] + f[2] \in Int
  <2>1. \A f \in p \X q : f[1] \in p /\ f[2] \in q
    OBVIOUS
  <2>2. \A x \in p, y \in q : x + y \in Int
    OBVIOUS
  <2> QED
    BY <2>1, <2>2
<1> QED
  BY <1>1, <1>2

LEMMA GeneratorBits ==
  Generator \in SUBSET (0 .. Width) /\ Generator \in SUBSET Int /\ IsFiniteSet(Generator)
<1>1. Generator \in SUBSET (0 .. Width)
  BY Widths DEF Generator, Register
<1>2. IsFiniteSet(0 .. Width)
  BY Widths, FS_Interval
<1>3. IsFiniteSet(Generator)
  BY <1>1, <1>2, FS_Subset
<1>4. 0 .. Width \subseteq Int
  OBVIOUS
<1> QED
  BY <1>1, <1>3, <1>4

LEMMA FactorsFinite ==
  ASSUME NEW p, IsFiniteSet(p), NEW q, IsFiniteSet(q), NEW k
  PROVE  IsFiniteSet(Factors(p, q, k)) /\ Cardinality(Factors(p, q, k)) \in Nat
<1>1. IsFiniteSet(p \X q)
  BY FS_Product
<1>2. Factors(p, q, k) \in SUBSET (p \X q)
  BY DEF Factors
<1>3. IsFiniteSet(Factors(p, q, k))
  BY <1>1, <1>2, FS_Subset
<1> QED
  BY <1>3, FS_CardinalityType

(* Shifting one factor shifts the sums. *)
LEMMA FactorsShifted ==
  ASSUME NEW p \in SUBSET Int, IsFiniteSet(p), NEW q \in SUBSET Int, IsFiniteSet(q), NEW k \in Int
  PROVE  /\ IsFiniteSet(Factors(Shifted(p, 1), q, k))
         /\ Cardinality(Factors(Shifted(p, 1), q, k)) = Cardinality(Factors(p, q, k - 1))
<1>1. PICK S, T : S = Factors(p, q, k - 1) /\ T = Factors(Shifted(p, 1), q, k)
  OBVIOUS
<1>2. PICK phi : phi = [f \in S |-> <<f[1] + 1, f[2]>>]
  OBVIOUS
<1>3. \A f \in S : /\ f[1] \in p /\ f[2] \in q /\ f[1] \in Int /\ f[2] \in Int
                   /\ f[1] + f[2] = k - 1 /\ f = <<f[1], f[2]>>
  <2>1. \A f \in S : f \in p \X q /\ f[1] + f[2] = k - 1
    BY <1>1 DEF Factors
  <2>2. \A f \in p \X q : f[1] \in p /\ f[2] \in q /\ f = <<f[1], f[2]>>
    OBVIOUS
  <2> QED
    BY <2>1, <2>2
<1>4. phi \in [S -> T]
  <2> SUFFICES ASSUME NEW f \in S PROVE <<f[1] + 1, f[2]>> \in T
    BY <1>2
  <2>1. f[1] + 1 \in Shifted(p, 1) /\ f[2] \in q /\ (f[1] + 1) + f[2] = k
    BY <1>3 DEF Shifted
  <2> QED
    BY <1>1, <2>1 DEF Factors
<1>5. ASSUME NEW f \in S, NEW g \in S, phi[f] = phi[g]
      PROVE  f = g
  <2>1. <<f[1] + 1, f[2]>> = <<g[1] + 1, g[2]>>
    BY <1>2, <1>5
  <2>2. f[1] + 1 = g[1] + 1 /\ f[2] = g[2]
    BY <2>1
  <2>3. f[1] = g[1]
    BY <1>3, <2>2
  <2> QED
    BY <1>3, <2>2, <2>3
<1>6. ASSUME NEW t \in T
      PROVE  \E f \in S : phi[f] = t
  <2>1. t \in Shifted(p, 1) \X q /\ t[1] + t[2] = k /\ t = <<t[1], t[2]>>
    BY <1>1 DEF Factors
  <2>2. PICK b \in p : t[1] = b + 1
    BY <2>1 DEF Shifted
  <2>a. b \in Int /\ t[2] \in q
    BY <2>1
  <2>b. t[2] \in Int
    BY <2>a
  <2>3. b \in Int /\ t[2] \in q /\ b + t[2] = k - 1
    BY <2>1, <2>2, <2>a, <2>b
  <2>4. <<b, t[2]>> \in S
    BY <1>1, <2>3 DEF Factors
  <2>5. phi[<<b, t[2]>>] = t
    BY <1>2, <2>1, <2>2, <2>4
  <2> QED
    BY <2>4, <2>5
<1>7. phi \in Bijection(S, T)
  BY <1>4, <1>5, <1>6, Fun_IsBij
<1>8. ExistsBijection(S, T)
  BY <1>7 DEF ExistsBijection
<1>9. IsFiniteSet(S)
  BY <1>1, FactorsFinite
<1> QED
  BY <1>1, <1>8, <1>9, FS_Bijection

(* The product with one more bit of the quotient. *)
LEMMA ProductGrows ==
  ASSUME NEW p \in SUBSET Nat, IsFiniteSet(p), NEW t \in SUBSET {0}
  PROVE  Product(Shifted(p, 1) \cup t, Generator)
           = Xor(Shifted(Product(p, Generator), 1), IF 0 \in t THEN Generator ELSE {})
<1>1. PICK G : G = Generator
  OBVIOUS
<1>2. G \in SUBSET Int /\ IsFiniteSet(G) /\ p \in SUBSET Int
  BY <1>1, GeneratorBits
<1>3. PICK P, s : P = Product(p, G) /\ s = Shifted(p, 1) \cup t
  OBVIOUS
<1>4. PICK H : H = IF 0 \in t THEN G ELSE {}
  OBVIOUS
<1>5. /\ P \in SUBSET Int /\ s \in SUBSET Int /\ H \in SUBSET Int
      /\ \A b \in Shifted(p, 1) : b \in Nat \ {0}
  <2>1. P \in SUBSET Int
    BY <1>2, <1>3, ProductIsInt
  <2>2. \A b \in Shifted(p, 1) : b \in Nat \ {0}
    BY DEF Shifted
  <2>3. H \in SUBSET Int
    BY <1>2, <1>4
  <2>4. s \in SUBSET Int
    <3>1. \A b \in s : b \in Nat \ {0} \/ b = 0
      BY <1>3, <2>2
    <3>2. \A b \in s : b \in Int
      BY <3>1
    <3> QED
      BY <3>2
  <2> QED
    BY <2>1, <2>2, <2>3, <2>4
<1>6. Product(s, G) \in SUBSET Int /\ Shifted(P, 1) \in SUBSET Int
  BY <1>2, <1>5, ProductIsInt, ShiftedIsInt
<1>7. Xor(Shifted(P, 1), H) \in SUBSET Int
  BY <1>5, <1>6, XorIsInt
<1>8. ASSUME NEW k \in Int
      PROVE  k \in Product(s, G) <=> k \in Xor(Shifted(P, 1), H)
  <2>1. PICK A : A = Factors(Shifted(p, 1), G, k)
    OBVIOUS
  <2>2. IsFiniteSet(A) /\ Cardinality(A) = Cardinality(Factors(p, G, k - 1))
    BY <1>2, <2>1, FactorsShifted
  <2>3. PICK c : c = Cardinality(A)
    OBVIOUS
  <2>4. c \in Nat
    BY <2>2, <2>3, FS_CardinalityType
  <2>5. k \in Shifted(P, 1) <=> c % 2 = 1
    <3>1. k \in Shifted(P, 1) <=> k - 1 \in P
      BY <1>5, ShiftedMember
    <3>2. k - 1 \in P <=> Cardinality(Factors(p, G, k - 1)) % 2 = 1
      BY <1>3, ProductMember
    <3> QED
      BY <2>2, <2>3, <3>1, <3>2
  <2>6. k \in Product(s, G) <=> Cardinality(Factors(s, G, k)) % 2 = 1
    BY ProductMember
  <2>7. k \in Xor(Shifted(P, 1), H) <=> ~ (k \in Shifted(P, 1) <=> k \in H)
    BY XorMember
  <2>8. CASE k \notin H
    <3>1. Factors(s, G, k) \subseteq A
      <4> SUFFICES ASSUME NEW f \in Factors(s, G, k) PROVE f \in A
        OBVIOUS
      <4>1. f \in s \X G /\ f[1] + f[2] = k /\ f[1] \in s /\ f[2] \in G
        BY DEF Factors
      <4>2. CASE f[1] \in Shifted(p, 1)
        BY <2>1, <4>1, <4>2 DEF Factors
      <4>3. CASE f[1] \in t
        <5>1. f[1] = 0 /\ 0 \in t /\ f[2] \in Int
          BY <1>2, <4>1, <4>3
        <5>2. f[2] = k
          BY <4>1, <5>1
        <5> QED
          BY <1>4, <2>8, <4>1, <5>1, <5>2
      <4> QED
        BY <1>3, <4>1, <4>2, <4>3
    <3>2. A \subseteq Factors(s, G, k)
      BY <1>3, <2>1 DEF Factors
    <3>3. Factors(s, G, k) = A
      BY <3>1, <3>2
    <3> QED
      BY <2>3, <2>5, <2>6, <2>7, <2>8, <3>3
  <2>9. CASE k \in H
    <3>1. 0 \in t /\ k \in G
      BY <1>4, <2>9
    <3>2. Factors(s, G, k) \subseteq A \cup {<<0, k>>}
      <4> SUFFICES ASSUME NEW f \in Factors(s, G, k) PROVE f \in A \cup {<<0, k>>}
        OBVIOUS
      <4>1. /\ f \in s \X G /\ f[1] + f[2] = k /\ f[1] \in s /\ f[2] \in G
            /\ f = <<f[1], f[2]>>
        BY DEF Factors
      <4>2. CASE f[1] \in Shifted(p, 1)
        BY <2>1, <4>1, <4>2 DEF Factors
      <4>3. CASE f[1] \in t
        <5>1. f[1] = 0 /\ f[2] \in Int
          BY <1>2, <4>1, <4>3
        <5>2. f[2] = k
          BY <4>1, <5>1
        <5> QED
          BY <4>1, <5>1, <5>2
      <4> QED
        BY <1>3, <4>1, <4>2, <4>3
    <3>3. A \cup {<<0, k>>} \subseteq Factors(s, G, k)
      <4>1. A \subseteq Factors(s, G, k)
        BY <1>3, <2>1 DEF Factors
      <4>2. <<0, k>> \in Factors(s, G, k)
        BY <1>3, <3>1 DEF Factors
      <4> QED
        BY <4>1, <4>2
    <3>4. <<0, k>> \notin A
      BY <1>5, <2>1 DEF Factors
    <3>5. Factors(s, G, k) = A \cup {<<0, k>>}
      BY <3>2, <3>3
    <3>6. Cardinality(Factors(s, G, k)) = c + 1
      BY <2>2, <2>3, <3>4, <3>5, FS_AddElement
    <3>7. (c + 1) % 2 = 1 <=> c % 2 # 1
      BY <2>4
    <3> QED
      BY <2>5, <2>6, <2>7, <2>9, <3>6, <3>7
  <2> QED
    BY <2>8, <2>9
<1>9. Product(s, G) = Xor(Shifted(P, 1), H)
  BY <1>6, <1>7, <1>8, SameNumbers
<1> QED
  BY <1>1, <1>3, <1>4, <1>9

(* One turn of the inner loop: the remainder times the variable, less the  *)
(* generator where a bit leaves the register.                              *)
LEMMA DivideBitTakes ==
  ASSUME NEW r \in Register
  PROVE  DivideBit(r) = Xor(Shifted(r, 1), IF TOPBIT \in r THEN Generator ELSE {})
<1>1. r \in SUBSET Int /\ Width \in Nat /\ TOPBIT = Width - 1
  BY RegisterBits, Widths DEF TOPBIT
<1>2. PICK H : H = IF TOPBIT \in r THEN Generator ELSE {}
  OBVIOUS
<1>3. H \in SUBSET Int /\ Shifted(r, 1) \in SUBSET Int /\ DivideBit(r) \in SUBSET Int
  <2>1. H \in SUBSET Int
    BY <1>2, GeneratorBits
  <2>2. Shifted(r, 1) \in SUBSET Int
    BY <1>1, ShiftedIsInt
  <2>3. PICK d : d = DivideBit(r)
    OBVIOUS
  <2>4. d \in Register
    BY <2>3, DivideBitIsRegister
  <2>5. d \in SUBSET Int
    BY <2>4, RegisterBits
  <2> QED
    BY <2>1, <2>2, <2>3, <2>5
<1>4. Xor(Shifted(r, 1), H) \in SUBSET Int
  BY <1>3, XorIsInt
<1>5. ASSUME NEW k \in Int
      PROVE  k \in DivideBit(r) <=> k \in Xor(Shifted(r, 1), H)
  <2>1. k \in ShiftLeft(r, 1) <=> k \in 0 .. Width - 1 /\ k - 1 \in r
    BY <1>1, ShiftLeftMember
  <2>2. k \in Shifted(r, 1) <=> k - 1 \in r
    BY <1>1, ShiftedMember
  <2>3. k \in Xor(Shifted(r, 1), H) <=> ~ (k \in Shifted(r, 1) <=> k \in H)
    BY XorMember
  <2>4. k - 1 \in r => k \in 0 .. Width - 1 \/ (k = Width /\ TOPBIT \in r)
    <3>1. k - 1 \in r => k - 1 \in 0 .. Width - 1
      BY RegisterBits
    <3>2. k - 1 \in 0 .. Width - 1 => k \in 0 .. Width - 1 \/ k = Width
      BY <1>1
    <3>3. k = Width => k - 1 = TOPBIT
      BY <1>1
    <3> QED
      BY <3>1, <3>2, <3>3
  <2>5. Width \notin 0 .. Width - 1 /\ Width - 1 = TOPBIT
    BY <1>1
  <2>6. Polynomial \subseteq 0 .. Width - 1
    BY Widths DEF Register
  <2>7. CASE TOPBIT \notin r
    <3>1. DivideBit(r) = ShiftLeft(r, 1) /\ H = {}
      BY <1>2, <2>7 DEF DivideBit
    <3> QED
      BY <2>1, <2>2, <2>3, <2>4, <2>7, <3>1
  <2>8. CASE TOPBIT \in r
    <3>1. DivideBit(r) = Xor(ShiftLeft(r, 1), Polynomial) /\ H = Polynomial \cup {Width}
      BY <1>2, <2>8 DEF DivideBit, Generator
    <3>2. k \in DivideBit(r) <=> ~ (k \in ShiftLeft(r, 1) <=> k \in Polynomial)
      BY <3>1, XorMember
    <3>3. CASE k = Width
      BY <2>1, <2>2, <2>3, <2>5, <2>6, <2>8, <3>1, <3>2, <3>3
    <3>4. CASE k # Width
      BY <2>1, <2>2, <2>3, <2>4, <3>1, <3>2, <3>4
    <3> QED
      BY <3>3, <3>4
  <2> QED
    BY <2>7, <2>8
<1>6. DivideBit(r) = Xor(Shifted(r, 1), H)
  BY <1>3, <1>4, <1>5, SameNumbers
<1> QED
  BY <1>2, <1>6

(* If the register and X differ by a multiple of the generator, so do the  *)
(* register after a turn and X times the variable.                         *)
LEMMA TurnKeepsMultiple ==
  ASSUME NEW r \in Register, NEW M \in Nat, NEW q \in SUBSET (0 .. M - 1), NEW X \in SUBSET Int,
         r = Xor(Product(q, Generator), X)
  PROVE  \E s \in SUBSET (0 .. M) : DivideBit(r) = Xor(Product(s, Generator), Shifted(X, 1))
<1>1. PICK t : t = IF TOPBIT \in r THEN {0} ELSE {}
  OBVIOUS
<1>2. t \in SUBSET {0} /\ (0 \in t <=> TOPBIT \in r)
  BY <1>1
<1>3. PICK s : s = Shifted(q, 1) \cup t
  OBVIOUS
<1>4. s \in SUBSET (0 .. M)
  <2>1. \A b \in Shifted(q, 1) : b \in 0 .. M
    BY DEF Shifted
  <2>2. 0 \in 0 .. M
    OBVIOUS
  <2> QED
    BY <1>2, <1>3, <2>1, <2>2
<1>5. q \in SUBSET Nat /\ q \in SUBSET Int /\ IsFiniteSet(q)
  <2>1. IsFiniteSet(0 .. M - 1)
    BY FS_Interval
  <2>2. IsFiniteSet(q)
    BY <2>1, FS_Subset
  <2>3. \A b \in q : b \in Nat /\ b \in Int
    OBVIOUS
  <2> QED
    BY <2>2, <2>3
<1>6. PICK P, H : P = Product(q, Generator) /\ H = IF TOPBIT \in r THEN Generator ELSE {}
  OBVIOUS
<1>7. Product(s, Generator) = Xor(Shifted(P, 1), H)
  <2>1. Product(s, Generator) = Xor(Shifted(P, 1), IF 0 \in t THEN Generator ELSE {})
    BY <1>2, <1>3, <1>5, <1>6, ProductGrows
  <2>2. (IF 0 \in t THEN Generator ELSE {}) = H
    BY <1>2, <1>6
  <2> QED
    BY <2>1, <2>2
<1>8. P \in SUBSET Int
  BY <1>5, <1>6, GeneratorBits, ProductIsInt
<1>9. Shifted(r, 1) = Xor(Shifted(P, 1), Shifted(X, 1))
  BY <1>6, <1>8, ShiftedLinear
<1>10. DivideBit(r) = Xor(Shifted(r, 1), H)
  BY <1>6, DivideBitTakes
<1>11. \A A, B, C : Xor(Xor(A, B), C) = Xor(Xor(A, C), B)
  BY DEF Xor
<1>12. DivideBit(r) = Xor(Product(s, Generator), Shifted(X, 1))
  BY <1>7, <1>9, <1>10, <1>11
<1> QED
  BY <1>4, <1>12

LEMMA LoopKeepsMultiple ==
  ASSUME NEW r \in Register, NEW M \in Nat, NEW q \in SUBSET (0 .. M - 1), NEW X \in SUBSET Int,
         r = Xor(Product(q, Generator), X)
  PROVE  \E s \in SUBSET (0 .. M + ByteBits - 1) :
           DivideByte(r) = Xor(Product(s, Generator), Shifted(X, ByteBits))
<1>1. PICK a \in [0 .. ByteBits -> Register] : Divides(a, r)
  BY DivideByteSteps
<1>2. ByteBits \in Nat
  BY Widths
<1>3. PICK T : T = {n \in 0 .. ByteBits : \E s \in SUBSET (0 .. M + n - 1) :
                                            a[n] = Xor(Product(s, Generator), Shifted(X, n))}
  OBVIOUS
<1>4. 0 \in T
  <2>1. Shifted(X, 0) = X
    <3>1. Shifted(X, 0) \in SUBSET Int
      BY ShiftedIsInt
    <3>2. \A k \in Int : k \in Shifted(X, 0) <=> k - 0 \in X
      BY ShiftedMember
    <3>3. \A k \in Int : k - 0 = k
      OBVIOUS
    <3> QED
      BY <3>1, <3>2, <3>3, SameNumbers
  <2>2. a[0] = r /\ 0 \in 0 .. ByteBits /\ M + 0 - 1 = M - 1
    BY <1>1, <1>2 DEF Divides
  <2> QED
    BY <1>3, <2>1, <2>2
<1>5. ASSUME NEW n \in 0 .. ByteBits - 1, n \in T
      PROVE  n + 1 \in T
  <2>1. /\ n + 1 \in 1 .. ByteBits /\ (n + 1) - 1 = n /\ n + 1 \in 0 .. ByteBits
        /\ n \in Nat /\ n \in Int /\ n \in 0 .. ByteBits /\ M + n \in Nat
        /\ M + (n + 1) - 1 = M + n
    BY <1>2
  <2>2. PICK s \in SUBSET (0 .. M + n - 1) : a[n] = Xor(Product(s, Generator), Shifted(X, n))
    BY <1>3, <1>5
  <2>3. a[n + 1] = DivideBit(a[n]) /\ a[n] \in Register
    BY <1>1, <2>1 DEF Divides
  <2>4. Shifted(X, n) \in SUBSET Int /\ Shifted(Shifted(X, n), 1) = Shifted(X, n + 1)
    BY <2>1, ShiftedIsInt, ShiftedTwice
  <2>5. PICK u \in SUBSET (0 .. M + n) :
          DivideBit(a[n]) = Xor(Product(u, Generator), Shifted(Shifted(X, n), 1))
    BY <2>1, <2>2, <2>3, <2>4, TurnKeepsMultiple
  <2>6. a[n + 1] = Xor(Product(u, Generator), Shifted(X, n + 1))
    BY <2>3, <2>4, <2>5
  <2>7. u \in SUBSET (0 .. M + (n + 1) - 1)
    BY <2>1, <2>5
  <2> QED
    BY <1>3, <2>1, <2>6, <2>7
<1>6. \A n \in 0 .. ByteBits : n \in T
  BY <1>2, <1>4, <1>5, SetInduction
<1>7. ByteBits \in T
  BY <1>2, <1>6
<1>8. DivideByte(r) = a[ByteBits]
  BY <1>1 DEF Divides
<1> QED
  BY <1>3, <1>7, <1>8

(* The polynomial of a message. *)
BitsOf(m) == UNION {{b + (Len(m) - i) * ByteBits : b \in m[i]} : i \in 1 .. Len(m)}

(* The message with one more byte. *)
LEMMA BitsGrow ==
  ASSUME NEW m \in Seq(Byte), NEW byte \in Byte
  PROVE  /\ BitsOf(m) \in SUBSET Int
         /\ BitsOf(Append(m, byte)) = Shifted(BitsOf(m), ByteBits) \cup byte
         /\ \A b \in BitsOf(m) : b >= 0
<1>1. PICK L \in Nat : L = Len(m)
  OBVIOUS
<1>a. PICK w : w = Append(m, byte)
  OBVIOUS
<1>2. Len(w) = L + 1 /\ w[L + 1] = byte /\ \A i \in 1 .. L : w[i] = m[i] /\ m[i] \in Byte
  BY <1>1, <1>a
<1>3. PICK B \in Nat : B = ByteBits
  BY Widths
<1>4. PICK old : old = [i \in 1 .. L |-> {b + (L - i) * B : b \in m[i]}]
  OBVIOUS
<1>5. BitsOf(m) = UNION {old[i] : i \in 1 .. L}
  BY <1>1, <1>3, <1>4 DEF BitsOf
<1>6. \A i \in 1 .. L : \A b \in m[i] : b \in Int /\ b >= 0
  BY <1>2, Widths DEF Byte
<1>7. \A i \in 1 .. L : (L - i) * B \in Nat /\ ((L + 1) - i) * B = (L - i) * B + B
  <2>1. \A x \in Nat, y \in Nat : x * y \in Nat /\ (x + 1) * y = x * y + y
    OBVIOUS
  <2>2. \A i \in 1 .. L : L - i \in Nat /\ (L + 1) - i = (L - i) + 1
    OBVIOUS
  <2> QED
    BY <2>1, <2>2
<1>8. \A i \in 1 .. L : \A c \in old[i] : c \in Int /\ c >= 0
  BY <1>4, <1>6, <1>7
<1>9. BitsOf(m) \in SUBSET Int /\ \A b \in BitsOf(m) : b >= 0
  BY <1>5, <1>8
<1>10. PICK new : new = [i \in 1 .. L + 1 |-> {b + ((L + 1) - i) * B : b \in w[i]}]
  OBVIOUS
<1>11. BitsOf(w) = UNION {new[i] : i \in 1 .. L + 1}
  BY <1>2, <1>3, <1>10 DEF BitsOf
<1>12. \A i \in 1 .. L : new[i] = Shifted(old[i], B)
  <2> SUFFICES ASSUME NEW i \in 1 .. L PROVE new[i] = Shifted(old[i], B)
    OBVIOUS
  <2>1. PICK c, d : c = m[i] /\ d = (L - i) * B
    OBVIOUS
  <2>2. c \in SUBSET Int /\ d \in Int /\ ((L + 1) - i) * B = d + B
    BY <1>6, <1>7, <2>1
  <2>3. new[i] = {b + (d + B) : b \in c}
    BY <1>2, <1>10, <2>1, <2>2
  <2>4. old[i] = Shifted(c, d)
    BY <1>4, <2>1 DEF Shifted
  <2>5. Shifted(Shifted(c, d), B) = Shifted(c, d + B)
    BY <2>2, ShiftedTwice
  <2> QED
    BY <2>3, <2>4, <2>5 DEF Shifted
<1>13. new[L + 1] = byte
  <2>1. ((L + 1) - (L + 1)) * B = 0
    OBVIOUS
  <2>2. \A b \in byte : b + 0 = b
    BY ByteBitsOf
  <2> QED
    BY <1>2, <1>10, <2>1, <2>2
<1>14. UNION {new[i] : i \in 1 .. L + 1} = (UNION {new[i] : i \in 1 .. L}) \cup byte
  <2>1. \A i \in 1 .. L + 1 : i \in 1 .. L \/ i = L + 1
    OBVIOUS
  <2>2. L + 1 \in 1 .. L + 1 /\ \A i \in 1 .. L : i \in 1 .. L + 1
    OBVIOUS
  <2>3. ASSUME NEW x, x \in UNION {new[i] : i \in 1 .. L + 1}
        PROVE  x \in (UNION {new[i] : i \in 1 .. L}) \cup byte
    <3>1. PICK i \in 1 .. L + 1 : x \in new[i]
      BY <2>3
    <3>2. CASE i = L + 1
      <4>1. x \in byte
        BY <1>13, <3>1, <3>2
      <4> QED
        BY <4>1, Zenon
    <3>3. CASE i \in 1 .. L
      <4>1. x \in UNION {new[j] : j \in 1 .. L}
        BY <3>1, <3>3, Zenon
      <4> QED
        BY <4>1, Zenon
    <3> QED
      BY <2>1, <3>2, <3>3
  <2>4. ASSUME NEW x, x \in (UNION {new[i] : i \in 1 .. L}) \cup byte
        PROVE  x \in UNION {new[i] : i \in 1 .. L + 1}
    <3>1. CASE x \in byte
      BY <1>13, <2>2, <3>1
    <3>2. CASE x \in UNION {new[i] : i \in 1 .. L}
      <4>1. PICK i \in 1 .. L : x \in new[i]
        BY <3>2
      <4> QED
        BY <2>2, <4>1
    <3> QED
      BY <2>4, <3>1, <3>2, Zenon
  <2> QED
    BY <2>3, <2>4, Zenon
<1>15. UNION {new[i] : i \in 1 .. L} = UNION {Shifted(old[i], B) : i \in 1 .. L}
  BY <1>12, Zenon
<1>16. UNION {Shifted(old[i], B) : i \in 1 .. L} = Shifted(UNION {old[i] : i \in 1 .. L}, B)
  BY DEF Shifted
<1>17. BitsOf(w) = Shifted(BitsOf(m), B) \cup byte
  <2>1. BitsOf(w) = (UNION {new[i] : i \in 1 .. L}) \cup byte
    BY <1>11, <1>14, Zenon
  <2>2. UNION {new[i] : i \in 1 .. L} = Shifted(UNION {old[i] : i \in 1 .. L}, B)
    BY <1>15, <1>16, Zenon
  <2>3. Shifted(UNION {old[i] : i \in 1 .. L}, B) = Shifted(BitsOf(m), B)
    BY <1>5
  <2>4. PICK x, y, z : /\ x = UNION {new[i] : i \in 1 .. L}
                       /\ y = Shifted(UNION {old[i] : i \in 1 .. L}, B)
                       /\ z = Shifted(BitsOf(m), B)
    OBVIOUS
  <2>5. x = y
    BY <2>2, <2>4, Zenon
  <2>6. y = z
    BY <2>3, <2>4, Zenon
  <2>7. BitsOf(w) = x \cup byte
    BY <2>1, <2>4
  <2>8. BitsOf(w) = z \cup byte
    BY <2>5, <2>6, <2>7
  <2> QED
    BY <2>4, <2>8, Zenon
<1> QED
  BY <1>a, <1>3, <1>9, <1>17, Zenon

LEMMA MessageBitsGrow ==
  ASSUME message \in Seq(Byte), NEW byte \in Byte, message' = Append(message, byte)
  PROVE  /\ MessageBits \in SUBSET Int
         /\ MessageBits' = Shifted(MessageBits, ByteBits) \cup byte
         /\ \A b \in MessageBits : b >= 0
<1>1. MessageBits = BitsOf(message)
  BY DEF MessageBits, BitsOf
<1>2. MessageBits' = BitsOf(message')
  BY DEF MessageBits, BitsOf
<1>3. BitsOf(message') = BitsOf(Append(message, byte))
  BY Zenon
<1> QED
  BY <1>1, <1>2, <1>3, BitsGrow, Zenon

LEMMA RemainderNextByte ==
  ASSUME CrcTypeOK, SlowIsRemainder, NEW byte \in Byte,
         message' = Append(message, byte), slow' = SlowByte(slow, byte)
  PROVE  SlowIsRemainder'
<1>1. PICK q \in SUBSET (0 .. Len(message) * ByteBits - 1) :
        Xor(Product(q, Generator), {b + Width : b \in MessageBits}) = slow
  BY DEF SlowIsRemainder
<1>2. PICK X : X = Xor(Shifted(MessageBits, Width), AtTop(byte))
  OBVIOUS
<1>3. /\ message \in Seq(Byte) /\ slow \in Register
      /\ Width \in Nat /\ ByteBits \in Nat /\ Width >= ByteBits
  BY Widths DEF CrcTypeOK
<1>4. /\ MessageBits \in SUBSET Int
      /\ MessageBits' = Shifted(MessageBits, ByteBits) \cup byte
      /\ \A b \in MessageBits : b >= 0
  BY <1>3, MessageBitsGrow
<1>5. PICK r : r = Xor(slow, AtTop(byte))
  OBVIOUS
<1>6. r \in Register /\ slow' = DivideByte(r)
  BY <1>3, <1>5, AtTopIsRegister, XorIsRegister DEF SlowByte
<1>7. r = Xor(Product(q, Generator), X)
  <2>1. \A A, B, C : Xor(Xor(A, B), C) = Xor(A, Xor(B, C))
    BY DEF Xor
  <2> QED
    BY <1>1, <1>2, <1>5, <2>1 DEF Shifted
<1>8. PICK M \in Nat : M = Len(message) * ByteBits
  BY <1>3
<1>b. PICK new : new = MessageBits'
  OBVIOUS
<1>9. Len(message') * ByteBits = M + ByteBits
  <2>1. \A x \in Nat, y \in Nat : (x + 1) * y = x * y + y
    OBVIOUS
  <2>2. Len(message') = Len(message) + 1 /\ Len(message) \in Nat
    BY <1>3
  <2> QED
    BY <1>3, <1>8, <2>1, <2>2
<1>10. /\ X \in SUBSET Int /\ Shifted(MessageBits, Width) \in SUBSET Int
       /\ AtTop(byte) \in SUBSET Int
  BY <1>2, <1>3, <1>4, ShiftedIsInt, XorIsInt, AtTopIsRegister, RegisterBits
<1>11. PICK s \in SUBSET (0 .. M + ByteBits - 1) :
         DivideByte(r) = Xor(Product(s, Generator), Shifted(X, ByteBits))
  BY <1>6, <1>7, <1>8, <1>10, LoopKeepsMultiple
<1>12. Shifted(X, ByteBits) = Shifted(new, Width)
  <2>1. Shifted(X, ByteBits) \in SUBSET Int /\ byte \in SUBSET Int
    BY <1>3, <1>10, ShiftedIsInt, ByteBitsOf
  <2>2. new \in SUBSET Int /\ new = Shifted(MessageBits, ByteBits) \cup byte
    <3>1. Shifted(MessageBits, ByteBits) \in SUBSET Int
      BY <1>3, <1>4, ShiftedIsInt
    <3>2. new = Shifted(MessageBits, ByteBits) \cup byte
      BY <1>b, <1>4
    <3> QED
      BY <2>1, <3>1, <3>2
  <2>3. Shifted(new, Width) \in SUBSET Int
    BY <1>3, <2>2, ShiftedIsInt
  <2>4. ASSUME NEW k \in Int
        PROVE  k \in Shifted(X, ByteBits) <=> k \in Shifted(new, Width)
    <3>1. k - ByteBits \in Int /\ k - Width \in Int
      BY <1>3
    <3>2. k \in Shifted(X, ByteBits) <=> k - ByteBits \in X
      BY <1>3, <1>10, ShiftedMember
    <3>3. k - ByteBits \in X <=> ~ (k - ByteBits \in Shifted(MessageBits, Width)
                                      <=> k - ByteBits \in AtTop(byte))
      BY <1>2, XorMember
    <3>4. k - ByteBits \in Shifted(MessageBits, Width) <=> (k - ByteBits) - Width \in MessageBits
      BY <1>3, <1>4, <3>1, ShiftedMember
    <3>5. k - ByteBits \in AtTop(byte)
            <=> /\ k - ByteBits \in 0 .. Width - 1
                /\ (k - ByteBits) - (Width - ByteBits) \in byte
      BY <1>3, <2>1, <3>1, ShiftLeftMember DEF AtTop
    <3>6. k \in Shifted(new, Width)
            <=> k - Width \in Shifted(MessageBits, ByteBits) \/ k - Width \in byte
      <4>2. new \in SUBSET Int /\ Width \in Int
        BY <1>3, <2>2
      <4>1. k \in Shifted(new, Width) <=> k - Width \in new
        BY <4>2, ShiftedMember
      <4> QED
        BY <4>1, <2>2
    <3>7. k - Width \in Shifted(MessageBits, ByteBits) <=> (k - Width) - ByteBits \in MessageBits
      BY <1>3, <1>4, <3>1, ShiftedMember
    <3>8. /\ (k - ByteBits) - (Width - ByteBits) = k - Width
          /\ (k - Width) - ByteBits = (k - ByteBits) - Width
      BY <1>3
    <3>9. k - Width \in byte =>
            k - ByteBits \in 0 .. Width - 1 /\ (k - Width) - ByteBits \notin MessageBits
      <4>1. k - Width \in byte => k - Width \in 0 .. ByteBits - 1
        BY ByteBitsOf
      <4>2. k - Width \in 0 .. ByteBits - 1 =>
              k - ByteBits \in 0 .. Width - 1 /\ (k - Width) - ByteBits < 0
        BY <1>3
      <4>3. \A b \in MessageBits : ~ (b < 0)
        BY <1>4
      <4> QED
        BY <4>1, <4>2, <4>3
    <3> QED
      BY <3>2, <3>3, <3>4, <3>5, <3>6, <3>7, <3>8, <3>9
  <2> QED
    BY <2>1, <2>3, <2>4, SameNumbers
<1>13. Xor(Product(s, Generator), {b + Width : b \in MessageBits'}) = slow'
  <2>1. {b + Width : b \in MessageBits'} = Shifted(new, Width)
    BY <1>b DEF Shifted
  <2> QED
    BY <1>6, <1>11, <1>12, <2>1
<1>14. s \in SUBSET (0 .. Len(message') * ByteBits - 1)
  <2>1. s \in SUBSET (0 .. M + ByteBits - 1)
    BY <1>11
  <2>2. PICK n : n = Len(message') * ByteBits
    OBVIOUS
  <2>3. n = M + ByteBits
    BY <1>9, <2>2
  <2>4. s \in SUBSET (0 .. n - 1)
    <3>1. M + ByteBits - 1 = n - 1
      BY <1>3, <2>3
    <3> QED
      BY <2>1, <3>1, Zenon
  <2> QED
    BY <2>2, <2>4
<1> QED
  BY <1>13, <1>14 DEF SlowIsRemainder

LEMMA RemainderOfNothing ==
  ASSUME message = << >>, slow = {}
  PROVE  SlowIsRemainder
<1>1. MessageBits = {}
  <2>1. 1 .. Len(message) = {}
    OBVIOUS
  <2> QED
    BY <2>1 DEF MessageBits
<1>2. Product({}, Generator) = {}
  BY DEF Product
<1>3. Xor({}, {}) = {}
  BY DEF Xor
<1>4. {b + Width : b \in MessageBits} = {}
  BY <1>1
<1>5. {} \in SUBSET (0 .. Len(message) * ByteBits - 1)
  OBVIOUS
<1> QED
  BY <1>2, <1>3, <1>4, <1>5 DEF SlowIsRemainder

(* crcSlow is modulo-2 division: after every byte of every message the     *)
(* register has the remainder of the bytes so far, followed by as many     *)
(* zero bits as it is wide, divided by the generator.                      *)
THEOREM SlowIsAlwaysRemainder == Spec => []SlowIsRemainder
<1>1. Init => SlowIsRemainder
  BY RemainderOfNothing DEF Init, INITIAL_REMAINDER
<1>2. ASSUME CrcInv, SlowIsRemainder, [Next]_vars
      PROVE  SlowIsRemainder'
  <2>1. CASE \E byte \in Byte : NextByte(byte)
    BY <1>2, <2>1, RemainderNextByte DEF NextByte, CrcInv
  <2>2. CASE Return
    <3>1. message' = << >> /\ slow' = {}
      BY <2>2 DEF Return, INITIAL_REMAINDER
    <3>2. MessageBits' = {}
      <4>1. 1 .. Len(message') = {}
        BY <3>1
      <4> QED
        BY <4>1 DEF MessageBits
    <3>3. Product({}, Generator) = {} /\ Xor({}, {}) = {}
      BY DEF Product, Xor
    <3>4. {b + Width : b \in MessageBits'} = {}
      BY <3>2
    <3>5. {} \in SUBSET (0 .. Len(message') * ByteBits - 1)
      OBVIOUS
    <3> QED
      BY <3>1, <3>3, <3>4, <3>5 DEF SlowIsRemainder
  <2>3. CASE crcInit \/ UNCHANGED vars
    <3>1. message' = message /\ slow' = slow
      BY <2>3 DEF crcInit, vars
    <3>2. MessageBits' = MessageBits
      BY <3>1 DEF MessageBits
    <3> QED
      BY <1>2, <3>1, <3>2 DEF SlowIsRemainder
  <2> QED
    BY <1>2, <2>1, <2>2, <2>3 DEF Next
<1>3. CrcInv /\ SlowIsRemainder /\ [Next]_vars => SlowIsRemainder'
  BY <1>2
<1> QED
  BY <1>1, <1>3, CrcInvHolds, PTL DEF Spec

=============================================================================
