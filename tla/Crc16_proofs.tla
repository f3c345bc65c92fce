---------------------------- MODULE Crc16_proofs ----------------------------
(***************************************************************************)
(* The checksum of module Crc16 detects every burst of up to 16 wrong bits  *)
(* and every odd number of wrong bits, in packets of every length.  The     *)
(* checksum is linear: the checksums of two packets differ by what the      *)
(* register, started with {}, makes of the difference of the packets.       *)
(***************************************************************************)
EXTENDS MCEncodings, Recursion, FiniteSetTheorems

Registers == SUBSET (0..15)
ByteSets == SUBSET (0..7)

\* Where a byte is added to the register.
Raised(byte) == {b + 8 : b \in byte}

\* The register during the rounds for a byte.
Rounds(after) ==
  /\ after \in [0..8 -> Registers]
  /\ \A n \in 1..8 : after[n] = ShiftAndReduce(after[n - 1])

-----------------------------------------------------------------------------
\* Facts about one round.
LEMMA RoundMember ==
  ASSUME NEW r \in Registers
  PROVE  /\ ShiftAndReduce(r) \in Registers
         /\ \A b \in 0..15 :
              b \in ShiftAndReduce(r)
                <=> ~ ((b # 0 /\ b - 1 \in r) <=> (15 \in r /\ b \in Polynomial))
<1>1. /\ Shifted(r) \in Registers
      /\ \A b \in 0..15 : b \in Shifted(r) <=> (b # 0 /\ b - 1 \in r)
  BY DEF Shifted, Registers
<1>2. Polynomial \in Registers
  BY DEF Polynomial, Registers
<1>3. QED
  BY <1>1, <1>2 DEF ShiftAndReduce, SymDiff, Registers

LEMMA RoundIsLinear ==
  ASSUME NEW x \in Registers, NEW y \in Registers
  PROVE  /\ SymDiff(x, y) \in Registers
         /\ SymDiff(ShiftAndReduce(x), ShiftAndReduce(y)) = ShiftAndReduce(SymDiff(x, y))
<1>1. /\ SymDiff(x, y) \in Registers
      /\ \A b \in 0..15 : b \in SymDiff(x, y) <=> ~ (b \in x <=> b \in y)
  BY DEF SymDiff, Registers
<1>2. /\ ShiftAndReduce(x) \in Registers /\ ShiftAndReduce(y) \in Registers
      /\ ShiftAndReduce(SymDiff(x, y)) \in Registers
  BY <1>1, RoundMember
<1>3. SymDiff(ShiftAndReduce(x), ShiftAndReduce(y)) \in Registers
  BY <1>2 DEF SymDiff, Registers
<1>4. ASSUME NEW b \in 0..15
      PROVE  b \in SymDiff(ShiftAndReduce(x), ShiftAndReduce(y))
               <=> b \in ShiftAndReduce(SymDiff(x, y))
  <2>1. b \in SymDiff(ShiftAndReduce(x), ShiftAndReduce(y))
          <=> ~ (b \in ShiftAndReduce(x) <=> b \in ShiftAndReduce(y))
    BY DEF SymDiff
  <2>2. b - 1 \in SymDiff(x, y) <=> ~ (b - 1 \in x <=> b - 1 \in y)
    BY DEF SymDiff
  <2>3. 15 \in SymDiff(x, y) <=> ~ (15 \in x <=> 15 \in y)
    BY DEF SymDiff
  <2>4. QED
    BY <1>1, <2>1, <2>2, <2>3, RoundMember
<1>5. QED
  BY <1>1, <1>2, <1>3, <1>4 DEF Registers

\* The lowest one of the polynomial is at 0: a round that leaves no one there was
\* a mere shift.
LEMMA RoundBack ==
  ASSUME NEW r \in Registers, 0 \notin ShiftAndReduce(r)
  PROVE  15 \notin r /\ r = {b - 1 : b \in ShiftAndReduce(r)}
<1>1. 15 \notin r
  BY RoundMember DEF Polynomial
<1>2. ShiftAndReduce(r) = Shifted(r)
  BY <1>1 DEF ShiftAndReduce
<1>3. \A b \in r : b + 1 \in Shifted(r) /\ (b + 1) - 1 = b
  BY <1>1 DEF Shifted, Registers
<1>4. \A b \in Shifted(r) : b - 1 \in r
  BY DEF Shifted, Registers
<1>5. QED
  BY <1>1, <1>2, <1>3, <1>4

-----------------------------------------------------------------------------
\* Facts about the eight rounds for a byte.
LEMMA AddByteRounds ==
  ASSUME NEW r \in Registers, NEW byte \in ByteSets
  PROVE  \E after : /\ Rounds(after)
                    /\ after[0] = SymDiff(r, Raised(byte))
                    /\ AddByte(r, byte) = after[8]
<1> DEFINE start == SymDiff(r, Raised(byte))
           step == [n \in 1..8 |-> [x \in Registers |-> ShiftAndReduce(x)]]
           Def(f) == f = [n \in 0..8 |-> IF n = 0 THEN start ELSE ShiftAndReduce(f[n - 1])]
<1>1. start \in Registers
  <2>1. Raised(byte) \in Registers
    BY DEF Raised, Registers, ByteSets
  <2>2. QED
    BY <2>1 DEF SymDiff, Registers
<1>2. step \in [1..8 -> [Registers -> Registers]]
  BY RoundMember
<1> HIDE DEF start
<1>3. PICK f : IsLoop(f, 8, Registers, start, step)
  <2> HIDE DEF step
  <2>1. QED
    BY <1>1, <1>2, LoopExists
<1>4. Def(f)
  <2>1. \A n \in 1..8 : f[n] = ShiftAndReduce(f[n - 1])
    BY <1>3 DEF IsLoop
  <2>2. \A n \in 0..8 : f[n] = IF n = 0 THEN start ELSE ShiftAndReduce(f[n - 1])
    BY <1>3, <2>1 DEF IsLoop
  <2>3. QED
    BY <1>3, <2>2 DEF IsLoop
<1> DEFINE after == CHOOSE g : Def(g)
<1>5. Def(after)
  <2> HIDE DEF Def
  <2>1. QED
    BY <1>4
<1>6. AddByte(r, byte) = after[8]
  BY DEF AddByte, start, Raised
<1> HIDE DEF after
<1>7. after[0] = start /\ \A n \in 1..8 : after[n] = ShiftAndReduce(after[n - 1])
  BY <1>5
<1>8. \A n \in 0..8 : after[n] \in Registers
  <2> DEFINE Good == {n \in 0..8 : after[n] \in Registers}
  <2>1. 0 \in Good
    BY <1>1, <1>7
  <2>2. \A n \in 0..8 - 1 : n \in Good => n + 1 \in Good
    BY <1>7, RoundMember
  <2> HIDE DEF Good
  <2>3. \A n \in 0..8 : n \in Good
    BY <2>1, <2>2, InductionUpTo
  <2>4. QED
    BY <2>3 DEF Good
<1>9. Rounds(after)
  BY <1>5, <1>7, <1>8 DEF Rounds
<1>10. QED
  BY <1>6, <1>7, <1>9 DEF start

LEMMA AddByteType ==
  ASSUME NEW r \in Registers, NEW byte \in ByteSets
  PROVE  AddByte(r, byte) \in Registers
BY AddByteRounds DEF Rounds

LEMMA AddByteIsLinear ==
  ASSUME NEW r1 \in Registers, NEW b1 \in ByteSets,
         NEW r2 \in Registers, NEW b2 \in ByteSets
  PROVE  SymDiff(AddByte(r1, b1), AddByte(r2, b2))
           = AddByte(SymDiff(r1, r2), SymDiff(b1, b2))
<1> DEFINE r3 == SymDiff(r1, r2)
           b3 == SymDiff(b1, b2)
<1>1. r3 \in Registers /\ b3 \in ByteSets
  BY DEF SymDiff, Registers, ByteSets
<1>2. SymDiff(SymDiff(r1, Raised(b1)), SymDiff(r2, Raised(b2))) = SymDiff(r3, Raised(b3))
  <2>1. Raised(b3) = SymDiff(Raised(b1), Raised(b2))
    BY DEF Raised, SymDiff, ByteSets
  <2>2. QED
    BY <2>1 DEF SymDiff
<1> HIDE DEF r3, b3
<1>3. PICK f1 : /\ Rounds(f1) /\ f1[0] = SymDiff(r1, Raised(b1))
                /\ AddByte(r1, b1) = f1[8]
  BY AddByteRounds
<1>4. PICK f2 : /\ Rounds(f2) /\ f2[0] = SymDiff(r2, Raised(b2))
                /\ AddByte(r2, b2) = f2[8]
  BY AddByteRounds
<1>5. PICK f3 : /\ Rounds(f3) /\ f3[0] = SymDiff(r3, Raised(b3))
                /\ AddByte(r3, b3) = f3[8]
  BY <1>1, AddByteRounds
<1> DEFINE Good == {n \in 0..8 : f3[n] = SymDiff(f1[n], f2[n])}
<1>6. 0 \in Good
  BY <1>2, <1>3, <1>4, <1>5
<1>7. ASSUME NEW n \in 0..8 - 1, n \in Good PROVE n + 1 \in Good
  <2>1. f1[n] \in Registers /\ f2[n] \in Registers /\ n + 1 \in 1..8 /\ (n + 1) - 1 = n
    BY <1>3, <1>4 DEF Rounds
  <2>2. /\ f1[n + 1] = ShiftAndReduce(f1[n])
        /\ f2[n + 1] = ShiftAndReduce(f2[n])
        /\ f3[n + 1] = ShiftAndReduce(f3[n])
    BY <1>3, <1>4, <1>5, <2>1 DEF Rounds
  <2>3. f3[n] = SymDiff(f1[n], f2[n])
    BY <1>7
  <2>4. f3[n + 1] = SymDiff(f1[n + 1], f2[n + 1])
    BY <2>1, <2>2, <2>3, RoundIsLinear
  <2>5. QED
    BY <2>1, <2>4
<1>8. 8 \in Good
  <2> HIDE DEF Good
  <2>1. \A n \in 0..8 : n \in Good
    BY <1>6, <1>7, InductionUpTo
  <2>2. QED
    BY <2>1
<1>9. QED
  BY <1>3, <1>4, <1>5, <1>8 DEF r3, b3

\* While no one is below the bit c after the rounds, the last c of them were shifts.
LEMMA RoundsBack ==
  ASSUME NEW h, Rounds(h), NEW c \in 0..8, \A x \in h[8] : x >= c
  PROVE  \A j \in 0..c : h[8 - j] = {x - j : x \in h[8]}
<1> DEFINE Good == {j \in 0..c : h[8 - j] = {x - j : x \in h[8]}}
<1>1. h[8] \in Registers
  BY DEF Rounds
<1>2. 0 \in Good
  BY <1>1 DEF Registers
<1>3. ASSUME NEW j \in 0..c - 1, j \in Good PROVE j + 1 \in Good
  <2>1. /\ 8 - j \in 1..8 /\ (8 - j) - 1 = 8 - (j + 1) /\ 8 - (j + 1) \in 0..8
        /\ h[8 - (j + 1)] \in Registers
        /\ h[8 - j] = ShiftAndReduce(h[8 - (j + 1)])
    BY DEF Rounds
  <2>2. h[8 - j] = {x - j : x \in h[8]}
    BY <1>3
  <2>3. 0 \notin h[8 - j]
    BY <1>1, <2>2 DEF Registers
  <2>4. h[8 - (j + 1)] = {b - 1 : b \in h[8 - j]}
    BY <2>1, <2>3, RoundBack
  <2>5. {b - 1 : b \in h[8 - j]} = {x - (j + 1) : x \in h[8]}
    <3>1. \A x \in h[8] : x \in Int /\ (x - j) - 1 = x - (j + 1)
      BY <1>1 DEF Registers
    <3>2. \A b \in h[8 - j] : \E x \in h[8] : b - 1 = x - (j + 1)
      BY <2>2, <3>1
    <3>3. \A x \in h[8] : \E b \in h[8 - j] : x - (j + 1) = b - 1
      BY <2>2, <3>1
    <3>4. QED
      BY <3>2, <3>3
  <2>6. QED
    BY <2>4, <2>5
<1>4. \A j \in 0..c : j \in Good
  <2> HIDE DEF Good
  <2>1. QED
    BY <1>2, <1>3, InductionUpTo
<1>5. QED
  BY <1>4

\* The register is empty after a byte only when the byte has emptied it.
LEMMA AddByteKernel ==
  ASSUME NEW r \in Registers, NEW byte \in ByteSets
  PROVE  AddByte(r, byte) = {} <=> r = Raised(byte)
<1>1. PICK f : /\ Rounds(f) /\ f[0] = SymDiff(r, Raised(byte))
               /\ AddByte(r, byte) = f[8]
  BY AddByteRounds
<1>2. ASSUME f[8] = {} PROVE f[0] = {}
  <2>1. \A j \in 0..8 : f[8 - j] = {x - j : x \in f[8]}
    BY <1>1, <1>2, RoundsBack
  <2>2. f[8 - 8] = {x - 8 : x \in f[8]}
    BY <2>1
  <2>3. QED
    BY <1>2, <2>2
<1>3. ASSUME f[0] = {} PROVE f[8] = {}
  <2> DEFINE Good == {n \in 0..8 : f[n] = {}}
  <2>1. 0 \in Good
    BY <1>3
  <2>2. ASSUME NEW n \in 0..8 - 1, n \in Good PROVE n + 1 \in Good
    <3>1. f[n + 1] = ShiftAndReduce({})
      BY <1>1, <2>2 DEF Rounds
    <3>2. QED
      BY <3>1 DEF ShiftAndReduce, Shifted
  <2> HIDE DEF Good
  <2>3. \A n \in 0..8 : n \in Good
    BY <2>1, <2>2, InductionUpTo
  <2>4. QED
    BY <2>3 DEF Good
<1>4. SymDiff(r, Raised(byte)) = {} <=> r = Raised(byte)
  BY DEF SymDiff
<1>5. QED
  BY <1>1, <1>2, <1>3, <1>4

\* Errors in three bytes leave a trace when the last one is less than 16 bits
\* behind the first one: else the rounds for the first byte would all be shifts,
\* and the last one would lose a one.
LEMMA BurstLeavesTrace ==
  ASSUME NEW e1 \in ByteSets, NEW e2 \in ByteSets, NEW e3 \in ByteSets,
         NEW top \in e1, \A x \in e1 : x <= top, \A x \in e3 : x > top
  PROVE  AddByte(AddByte(AddByte({}, e1), e2), e3) # {}
<1> DEFINE first == AddByte({}, e1)
           second == AddByte(first, e2)
<1>1. /\ {} \in Registers /\ first \in Registers /\ second \in Registers
      /\ top \in 0..7
  BY AddByteType DEF Registers, ByteSets
<1>2. PICK f : Rounds(f) /\ f[0] = SymDiff({}, Raised(e1)) /\ first = f[8]
  BY <1>1, AddByteRounds
<1>3. PICK g : Rounds(g) /\ g[0] = SymDiff(first, Raised(e2)) /\ second = g[8]
  <2> HIDE DEF first
  <2>1. QED
    BY <1>1, AddByteRounds
<1> HIDE DEF first, second
<1>4. SUFFICES ASSUME AddByte(second, e3) = {} PROVE FALSE
  BY DEF first, second
<1>5. second = Raised(e3)
  BY <1>1, <1>4, AddByteKernel
<1>6. g[0] = e3
  <2>1. \A x \in g[8] : x >= 8
    BY <1>3, <1>5 DEF Raised, ByteSets
  <2>2. \A j \in 0..8 : g[8 - j] = {x - j : x \in g[8]}
    BY <1>3, <2>1, RoundsBack
  <2>3. g[8 - 8] = {x - 8 : x \in g[8]}
    BY <2>2
  <2>4. {x - 8 : x \in Raised(e3)} = e3
    <3>1. \A b \in e3 : b \in Int /\ (b + 8) - 8 = b
      BY DEF ByteSets
    <3>2. \A b \in e3 : \E x \in Raised(e3) : b = x - 8
      BY <3>1 DEF Raised
    <3>3. \A x \in Raised(e3) : x - 8 \in e3
      BY <3>1 DEF Raised
    <3>4. QED
      BY <3>2, <3>3
  <2>5. QED
    BY <1>3, <1>5, <2>3, <2>4
<1>7. \A x \in f[8] : x >= top + 1
  <2>1. SUFFICES ASSUME NEW x \in first PROVE x >= top + 1
    BY <1>2
  <2>2. x \in e3 \/ x \in Raised(e2)
    BY <1>3, <1>6 DEF SymDiff
  <2>3. CASE x \in e3
    BY <1>1, <2>3 DEF ByteSets
  <2>4. CASE x \in Raised(e2)
    <3>1. PICK b \in e2 : x = b + 8
      BY <2>4 DEF Raised
    <3>2. b \in 0..7
      BY DEF ByteSets
    <3>3. QED
      BY <1>1, <3>1, <3>2
  <2>5. QED
    BY <2>2, <2>3, <2>4
<1>8. 15 \notin f[8 - (top + 1)]
  <2>1. top + 1 \in 0..8
    BY <1>1
  <2>2. \A j \in 0..top + 1 : f[8 - j] = {x - j : x \in f[8]}
    BY <1>2, <1>7, <2>1, RoundsBack
  <2>3. f[8 - (top + 1)] = {x - (top + 1) : x \in f[8]}
    BY <2>1, <2>2
  <2>4. \A x \in f[8] : x \in 0..15
    BY <1>1, <1>2 DEF Registers
  <2>5. QED
    BY <1>1, <2>3, <2>4
<1>9. \A k \in 0..7 - top : f[k] = {x + 8 + k : x \in e1}
  <2> DEFINE Good == {k \in 0..7 - top : f[k] = {x + 8 + k : x \in e1}}
  <2>1. 0 \in Good
    <3>1. f[0] = Raised(e1)
      BY <1>2 DEF SymDiff
    <3>2. Raised(e1) = {x + 8 + 0 : x \in e1}
      BY DEF Raised, ByteSets
    <3>3. QED
      BY <1>1, <3>1, <3>2
  <2>2. ASSUME NEW k \in 0..(7 - top) - 1, k \in Good PROVE k + 1 \in Good
    <3>1. f[k] = {x + 8 + k : x \in e1} /\ k \in 0..6 - top
      BY <1>1, <2>2
    <3>2. \A x \in e1 : x \in Int /\ x + 8 + k < 15
      BY <1>1, <3>1 DEF ByteSets
    <3>3. 15 \notin f[k]
      BY <3>1, <3>2
    <3>4. f[k + 1] = Shifted(f[k])
      <4>1. k + 1 \in 1..8 /\ (k + 1) - 1 = k
        BY <1>1
      <4>2. f[k + 1] = ShiftAndReduce(f[k])
        BY <1>2, <4>1 DEF Rounds
      <4>3. QED
        BY <3>3, <4>2 DEF ShiftAndReduce
    <3>5. Shifted(f[k]) = {b + 1 : b \in f[k]}
      BY <3>3 DEF Shifted
    <3>6. {b + 1 : b \in f[k]} = {x + 8 + (k + 1) : x \in e1}
      <4>1. \A x \in e1 : (x + 8 + k) + 1 = x + 8 + (k + 1)
        BY <3>1, <3>2
      <4>2. \A b \in f[k] : \E x \in e1 : b + 1 = x + 8 + (k + 1)
        BY <3>1, <4>1
      <4>3. \A x \in e1 : \E b \in f[k] : x + 8 + (k + 1) = b + 1
        BY <3>1, <4>1
      <4>4. QED
        BY <4>2, <4>3
    <3>7. f[k + 1] = {x + 8 + (k + 1) : x \in e1} /\ k + 1 \in 0..7 - top
      BY <1>1, <3>4, <3>5, <3>6
    <3>8. QED
      BY <3>7
  <2> HIDE DEF Good
  <2>3. 7 - top \in Nat
    BY <1>1
  <2>4. \A k \in 0..7 - top : k \in Good
    BY <2>1, <2>2, <2>3, InductionUpTo
  <2>5. QED
    BY <2>4 DEF Good
<1>10. 15 \in f[7 - top]
  <2>1. 7 - top \in 0..7 - top /\ top + 8 + (7 - top) = 15
    BY <1>1
  <2>2. QED
    BY <1>9, <2>1
<1>11. QED
  <2>1. 7 - top = 8 - (top + 1)
    BY <1>1
  <2>2. QED
    BY <1>8, <1>10, <2>1

-----------------------------------------------------------------------------
\* The register after every byte of a packet.
AfterBytes(after, message) ==
  /\ after \in [0..Len(message) -> Registers]
  /\ after[0] = Ones
  /\ \A n \in 1..Len(message) : after[n] = AddByte(after[n - 1], message[n])

LEMMA CrcRegisters ==
  ASSUME NEW message \in Seq(ByteSets)
  PROVE  \E after : AfterBytes(after, message) /\ Crc(message) = after[Len(message)]
<1> DEFINE length == Len(message)
           step == [n \in 1..length |-> [x \in Registers |-> AddByte(x, message[n])]]
           Def(f) == f = [n \in 0..length |->
                            IF n = 0 THEN Ones ELSE AddByte(f[n - 1], message[n])]
<1>1. Ones \in Registers /\ length \in Nat /\ \A n \in 1..length : message[n] \in ByteSets
  BY DEF Ones, Registers
<1>2. step \in [1..length -> [Registers -> Registers]]
  BY <1>1, AddByteType
<1> HIDE DEF length
<1>3. PICK f : IsLoop(f, length, Registers, Ones, step)
  <2> HIDE DEF step
  <2>1. QED
    BY <1>1, <1>2, LoopExists
<1>4. Def(f)
  <2>1. ASSUME NEW n \in 1..length PROVE f[n] = AddByte(f[n - 1], message[n])
    <3>1. f[n - 1] \in Registers /\ f[n] = step[n][f[n - 1]]
      BY <1>1, <1>3 DEF IsLoop
    <3>2. QED
      BY <3>1
  <2>2. \A n \in 0..length : f[n] = IF n = 0 THEN Ones ELSE AddByte(f[n - 1], message[n])
    BY <1>1, <1>3, <2>1 DEF IsLoop
  <2>3. QED
    BY <1>3, <2>2 DEF IsLoop
<1> DEFINE after == CHOOSE g : Def(g)
<1>5. Def(after)
  <2> HIDE DEF Def
  <2>1. QED
    BY <1>4
<1>6. Crc(message) = after[length]
  BY DEF Crc, length
<1> HIDE DEF after
<1>7. /\ after[0] = Ones
      /\ \A n \in 1..length : after[n] = AddByte(after[n - 1], message[n])
  BY <1>1, <1>5
<1>8. \A n \in 0..length : after[n] \in Registers
  <2> DEFINE Good == {n \in 0..length : after[n] \in Registers}
  <2>1. 0 \in Good
    BY <1>1, <1>7
  <2>2. ASSUME NEW n \in 0..length - 1, n \in Good PROVE n + 1 \in Good
    <3>1. n + 1 \in 1..length /\ (n + 1) - 1 = n
      BY <1>1
    <3>2. after[n + 1] = AddByte(after[n], message[n + 1])
      BY <1>7, <3>1
    <3>3. QED
      BY <1>1, <2>2, <3>1, <3>2, AddByteType
  <2> HIDE DEF Good
  <2>3. \A n \in 0..length : n \in Good
    BY <1>1, <2>1, <2>2, InductionUpTo
  <2>4. QED
    BY <2>3 DEF Good
<1>9. after \in [0..length -> Registers]
  BY <1>5, <1>8
<1>10. QED
  BY <1>6, <1>7, <1>9 DEF AfterBytes, length

-----------------------------------------------------------------------------
\* The packets are sequences of bytes.
PacketTypeOK == packet \in Seq(ByteSets)

LEMMA PacketIsBytes == Spec => []PacketTypeOK
<1>1. Init => PacketTypeOK
  BY DEF Init, PacketTypeOK
<1>2. PacketTypeOK /\ [Next]_vars => PacketTypeOK'
  <2> SUFFICES ASSUME PacketTypeOK, [Next]_vars PROVE PacketTypeOK'
    OBVIOUS
  <2>1. CASE packet' = packet
    BY <2>1 DEF PacketTypeOK
  <2>2. CASE FillPacket
    <3>1. PICK byte \in Contents : packet' = Append(packet, byte)
      BY <2>2 DEF FillPacket
    <3>2. byte \in ByteSets
      BY InputAssumption DEF ByteSets
    <3>3. QED
      BY <3>1, <3>2 DEF PacketTypeOK
  <2>3. QED
    BY <2>1, <2>2 DEF Next, vars, ReceiveByte, FindNetwork
<1>3. QED
  BY <1>1, <1>2, PTL DEF Spec

\* The wrong bits of the byte n.
ErrorsOf(error, n) == {b \in 0..7 : 8 * n - b \in error}

LEMMA DamagedPacket ==
  ASSUME PacketTypeOK, NEW error
  PROVE  /\ Damaged(error) \in Seq(ByteSets)
         /\ Len(Damaged(error)) = Len(packet)
         /\ \A n \in 1..Len(packet) :
              /\ packet[n] \in ByteSets
              /\ Damaged(error)[n] \in ByteSets
              /\ SymDiff(packet[n], Damaged(error)[n]) = ErrorsOf(error, n)
<1>1. /\ Len(packet) \in Nat
      /\ \A n \in 1..Len(packet) : packet[n] \in ByteSets /\ ErrorsOf(error, n) \in ByteSets
  BY DEF PacketTypeOK, ByteSets, ErrorsOf
<1>2. Damaged(error) = [n \in 1..Len(packet) |-> SymDiff(packet[n], ErrorsOf(error, n))]
  BY DEF Damaged, ErrorsOf
<1>3. \A x, y \in ByteSets : SymDiff(x, y) \in ByteSets /\ SymDiff(x, SymDiff(x, y)) = y
  BY DEF SymDiff, ByteSets
<1>4. QED
  BY <1>1, <1>2, <1>3

\* How the two checksums differ depends on the wrong bits alone: it is what the
\* register makes of them when it starts with {}.
LEMMA ChecksumDifference ==
  ASSUME PacketTypeOK, NEW error
  PROVE  \E d \in [0..Len(packet) -> Registers] :
           /\ d[0] = {}
           /\ \A n \in 1..Len(packet) : d[n] = AddByte(d[n - 1], ErrorsOf(error, n))
           /\ d[Len(packet)] # {} => Crc(Damaged(error)) # Crc(packet)
<1> DEFINE length == Len(packet)
<1>1. length \in Nat
  BY DEF PacketTypeOK
<1> HIDE DEF length
<1>2. PICK f : AfterBytes(f, packet) /\ Crc(packet) = f[length]
  BY CrcRegisters DEF PacketTypeOK, length
<1>3. PICK g : AfterBytes(g, Damaged(error)) /\ Crc(Damaged(error)) = g[length]
  BY DamagedPacket, CrcRegisters DEF length
<1> DEFINE d == [n \in 0..length |-> SymDiff(f[n], g[n])]
<1>4. \A n \in 0..length : f[n] \in Registers /\ g[n] \in Registers
  BY <1>2, <1>3, DamagedPacket DEF AfterBytes, length
<1>5. d \in [0..length -> Registers]
  <2>1. \A x, y \in Registers : SymDiff(x, y) \in Registers
    BY DEF SymDiff, Registers
  <2>2. QED
    BY <1>4, <2>1
<1>6. d[0] = {}
  BY <1>1, <1>2, <1>3 DEF AfterBytes, SymDiff
<1>7. ASSUME NEW n \in 1..length PROVE d[n] = AddByte(d[n - 1], ErrorsOf(error, n))
  <2>1. /\ f[n] = AddByte(f[n - 1], packet[n])
        /\ g[n] = AddByte(g[n - 1], Damaged(error)[n])
    BY <1>2, <1>3, DamagedPacket DEF AfterBytes, length
  <2>2. /\ packet[n] \in ByteSets /\ Damaged(error)[n] \in ByteSets
        /\ SymDiff(packet[n], Damaged(error)[n]) = ErrorsOf(error, n)
    BY DamagedPacket DEF length
  <2>3. n \in 0..length /\ n - 1 \in 0..length
    BY <1>1
  <2>4. f[n - 1] \in Registers /\ g[n - 1] \in Registers
    BY <1>4, <2>3
  <2>5. SymDiff(f[n], g[n])
          = AddByte(SymDiff(f[n - 1], g[n - 1]), ErrorsOf(error, n))
    BY <2>1, <2>2, <2>4, AddByteIsLinear
  <2>6. QED
    BY <2>3, <2>5
<1>8. d[length] # {} => f[length] # g[length]
  BY <1>1 DEF SymDiff
<1> HIDE DEF d
<1>9. QED
  BY <1>2, <1>3, <1>5, <1>6, <1>7, <1>8 DEF length

\* Every burst is detected: whichever bits are wrong, if the last one is less than
\* 16 bits behind the first one the checksum changes.
EveryBurstIsDetected ==
  \A error \in SUBSET (1..8 * Len(packet)) : \A first \in error :
    (\A x \in error : first <= x /\ x < first + 16)
      => Crc(Damaged(error)) # Crc(packet)

LEMMA BurstIsDetected ==
  ASSUME PacketTypeOK,
         NEW error \in SUBSET (1..8 * Len(packet)), NEW first \in error,
         \A x \in error : first <= x /\ x < first + 16
  PROVE  Crc(Damaged(error)) # Crc(packet)
<1> DEFINE length == Len(packet)
           e(n) == ErrorsOf(error, n)
           byte == (first + 7) \div 8
           top == 8 * byte - first
<1>1. /\ length \in Nat /\ first \in 1..8 * length
      /\ \A x \in error : x \in 1..8 * length
  BY DEF PacketTypeOK
<1>2. byte \in 1..length /\ top \in 0..7 /\ first = 8 * byte - top
  BY <1>1
<1>3. \A n \in Int : e(n) \in ByteSets
  BY DEF ErrorsOf, ByteSets
<1> HIDE DEF length, byte, top
<1>4. PICK difference \in [0..length -> Registers] :
        /\ difference[0] = {}
        /\ \A n \in 1..length : difference[n] = AddByte(difference[n - 1], e(n))
        /\ difference[length] # {} => Crc(Damaged(error)) # Crc(packet)
  BY ChecksumDifference DEF length
<1> DEFINE d(n) == difference[n]
<1>6. \A n \in 0..length : d(n) \in Registers
  BY <1>4
<1>7. d(0) = {}
  BY <1>4
<1>8. ASSUME NEW n \in 1..length PROVE d(n) = AddByte(d(n - 1), e(n))
  BY <1>4
<1>9. /\ \A n \in 1..byte - 1 : e(n) = {}
      /\ top \in e(byte) /\ \A x \in e(byte) : x <= top
      /\ \A x \in e(byte + 2) : x > top
      /\ \A n \in byte + 3..length : e(n) = {}
  <2>1. ASSUME NEW n \in Int, NEW b \in e(n)
        PROVE  b \in 0..7 /\ 8 * byte - top <= 8 * n - b /\ 8 * n - b < 8 * byte - top + 16
    BY <1>2 DEF ErrorsOf
  <2>2. \A n \in 1..byte - 1 : e(n) = {}
    BY <1>2, <2>1
  <2>3. top \in e(byte)
    BY <1>2 DEF ErrorsOf
  <2>4. \A x \in e(byte) : x <= top
    BY <1>2, <2>1
  <2>5. \A x \in e(byte + 2) : x > top
    BY <1>2, <2>1
  <2>6. \A n \in byte + 3..length : e(n) = {}
    BY <1>1, <1>2, <2>1
  <2>7. QED
    BY <2>2, <2>3, <2>4, <2>5, <2>6
<1>10. \A r \in Registers : AddByte(r, {}) = {} <=> r = {}
  <2>1. {} \in ByteSets /\ Raised({}) = {}
    BY DEF Raised, ByteSets
  <2>2. QED
    BY <2>1, AddByteKernel
<1> HIDE DEF d, e
<1>11. d(byte - 1) = {}
  <2> DEFINE Good == {n \in 0..byte - 1 : d(n) = {}}
  <2>1. 0 \in Good
    BY <1>2, <1>7
  <2>2. ASSUME NEW n \in 0..(byte - 1) - 1, n \in Good PROVE n + 1 \in Good
    <3>1. n + 1 \in 1..length /\ n + 1 \in 1..byte - 1 /\ (n + 1) - 1 = n
      BY <1>1, <1>2
    <3>2. d(n) = {} /\ {} \in Registers
      BY <2>2 DEF Registers
    <3>3. d(n + 1) = AddByte({}, {})
      BY <1>8, <1>9, <3>1, <3>2
    <3>4. QED
      BY <1>10, <3>1, <3>2, <3>3
  <2> HIDE DEF Good
  <2>3. byte - 1 \in Nat
    BY <1>2
  <2>4. \A n \in 0..byte - 1 : n \in Good
    BY <2>1, <2>2, <2>3, InductionUpTo
  <2>5. QED
    BY <2>3, <2>4 DEF Good
<1>12. AddByte(AddByte(d(byte), e(byte + 1)), e(byte + 2)) # {}
  <2>1. d(byte) = AddByte({}, e(byte))
    BY <1>2, <1>8, <1>11
  <2>2. e(byte) \in ByteSets /\ e(byte + 1) \in ByteSets /\ e(byte + 2) \in ByteSets
    BY <1>2, <1>3
  <2>3. QED
    BY <1>9, <2>1, <2>2, BurstLeavesTrace
<1>13. d(length) # {}
  <2>1. SUFFICES ASSUME d(length) = {} PROVE FALSE
    OBVIOUS
  <2>2. CASE length = byte
    <3>1. \A n \in Int : n > length => e(n) = {}
      <4>1. SUFFICES ASSUME NEW n \in Int, n > length, NEW b \in e(n) PROVE FALSE
        OBVIOUS
      <4>2. b \in 0..7 /\ 8 * n - b \in 1..8 * length
        BY <1>1 DEF e, ErrorsOf
      <4>3. QED
        BY <1>1, <4>1, <4>2
    <3>2. e(byte + 1) = {} /\ e(byte + 2) = {}
      BY <1>1, <2>2, <3>1
    <3>3. {} \in Registers
      BY DEF Registers
    <3>4. QED
      BY <1>10, <1>12, <2>1, <2>2, <3>2, <3>3
  <2>3. CASE length = byte + 1
    <3>1. e(byte + 2) = {}
      <4>1. SUFFICES ASSUME NEW b \in e(byte + 2) PROVE FALSE
        OBVIOUS
      <4>2. b \in 0..7 /\ 8 * (byte + 2) - b \in 1..8 * length
        BY <1>1, <1>2 DEF e, ErrorsOf
      <4>3. QED
        BY <1>1, <1>2, <2>3, <4>2
    <3>2. d(length) = AddByte(d(byte), e(byte + 1))
      BY <1>2, <1>8, <2>3
    <3>3. {} \in Registers
      BY DEF Registers
    <3>4. QED
      BY <1>10, <1>12, <2>1, <3>1, <3>2, <3>3
  <2>4. CASE length >= byte + 2
    <3> DEFINE rest == length - (byte + 2)
               Good == {j \in 0..rest : d(length - j) = {}}
    <3>1. 0 \in Good
      BY <1>1, <1>2, <2>1, <2>4
    <3>2. ASSUME NEW j \in 0..rest - 1, j \in Good PROVE j + 1 \in Good
      <4>1. /\ length - j \in byte + 3..length /\ length - j \in 1..length
            /\ (length - j) - 1 = length - (j + 1) /\ length - (j + 1) \in 0..length
            /\ j + 1 \in 0..rest
        BY <1>1, <1>2, <2>4
      <4>2. AddByte(d(length - (j + 1)), {}) = {}
        BY <1>8, <1>9, <3>2, <4>1
      <4>3. QED
        BY <1>6, <1>10, <4>1, <4>2
    <3>3. rest \in Nat /\ length - rest = byte + 2
      BY <1>1, <1>2, <2>4
    <3>4. d(byte + 2) = {}
      <4> HIDE DEF Good, rest
      <4>1. \A j \in 0..rest : j \in Good
        BY <3>1, <3>2, <3>3, InductionUpTo
      <4>2. QED
        BY <3>3, <4>1 DEF Good
    <3>5. d(byte + 2) = AddByte(AddByte(d(byte), e(byte + 1)), e(byte + 2))
      <4>1. /\ byte + 1 \in 1..length /\ (byte + 1) - 1 = byte
            /\ byte + 2 \in 1..length /\ (byte + 2) - 1 = byte + 1
        BY <1>1, <1>2, <2>4
      <4>2. QED
        BY <1>8, <4>1
    <3>6. QED
      BY <1>12, <3>4, <3>5
  <2>5. QED
    BY <1>1, <1>2, <2>2, <2>3, <2>4
<1>14. QED
  BY <1>4, <1>13 DEF d

-----------------------------------------------------------------------------
(* Parity: the polynomial, with its x^16, has an even number of terms *)

Odd(S) == Cardinality(S) % 2 = 1

LEMMA SymDiffParity ==
  ASSUME NEW A, NEW B, IsFiniteSet(A), IsFiniteSet(B)
  PROVE  /\ IsFiniteSet(SymDiff(A, B))
         /\ Odd(SymDiff(A, B)) <=> ~ (Odd(A) <=> Odd(B))
<1> DEFINE onlyA == A \ B
           onlyB == B \ A
           both == A \cap B
<1>1. /\ IsFiniteSet(onlyA) /\ Cardinality(onlyA) = Cardinality(A) - Cardinality(both)
      /\ IsFiniteSet(onlyB) /\ Cardinality(onlyB) = Cardinality(B) - Cardinality(both)
  <2>1. B \cap A = both
    OBVIOUS
  <2>2. QED
    BY <2>1, FS_Difference
<1>2. IsFiniteSet(both)
  BY FS_Intersection
<1>3. onlyA \cap onlyB = {} /\ SymDiff(A, B) = onlyA \cup onlyB
  BY DEF SymDiff
<1> HIDE DEF onlyA, onlyB, both
<1>4. /\ IsFiniteSet(onlyA \cup onlyB)
      /\ Cardinality(onlyA \cup onlyB) = Cardinality(onlyA) + Cardinality(onlyB)
  <2>1. Cardinality({}) = 0
    BY FS_EmptySet
  <2>2. Cardinality(onlyA) \in Nat /\ Cardinality(onlyB) \in Nat
    BY <1>1, FS_CardinalityType
  <2>3. /\ IsFiniteSet(onlyA \cup onlyB)
        /\ Cardinality(onlyA \cup onlyB) =
             Cardinality(onlyA) + Cardinality(onlyB) - Cardinality(onlyA \cap onlyB)
    BY <1>1, FS_Union
  <2>4. Cardinality(onlyA \cap onlyB) = 0
    BY <1>3, <2>1
  <2>5. QED
    BY <2>2, <2>3, <2>4
<1>5. /\ Cardinality(A) \in Nat /\ Cardinality(B) \in Nat /\ Cardinality(both) \in Nat
  BY <1>2, FS_CardinalityType
<1>6. \A a, b, c \in Nat : ((a - c) + (b - c)) % 2 = 1 <=> ~ (a % 2 = 1 <=> b % 2 = 1)
  OBVIOUS
<1>7. QED
  BY <1>1, <1>3, <1>4, <1>5, <1>6 DEF Odd

\* Moving every one by as much keeps their number.
Moved(S, c) == {b + c : b \in S}

LEMMA MovedParity ==
  ASSUME NEW S \in SUBSET Int, IsFiniteSet(S), NEW c \in Int
  PROVE  /\ IsFiniteSet(Moved(S, c))
         /\ Odd(Moved(S, c)) <=> Odd(S)
<1> DEFINE T == Moved(S, c)
           f == [b \in S |-> b + c]
<1>1. f \in Bijection(S, T)
  BY DEF Moved, Bijection, Injection, IsInjective, Surjection
<1> HIDE DEF T, f
<1>2. IsFiniteSet(T) /\ Cardinality(T) = Cardinality(S)
  BY <1>1, FS_Bijection DEF ExistsBijection
<1>3. QED
  BY <1>2 DEF T, Odd

LEMMA RegistersFinite ==
  ASSUME NEW r \in Registers
  PROVE  IsFiniteSet(r) /\ r \in SUBSET Int
<1>1. PICK top \in Nat : top = 15
  OBVIOUS
<1>2. r \in SUBSET (0..top)
  BY <1>1 DEF Registers
<1>3. IsFiniteSet(0..top)
  BY FS_Interval
<1>4. IsFiniteSet(r)
  BY <1>2, <1>3, FS_Subset
<1>5. QED
  BY <1>2, <1>4

\* A round keeps the parity: the one that is shifted out is made up for by the
\* three of the polynomial.
LEMMA RoundParity ==
  ASSUME NEW r \in Registers
  PROVE  Odd(ShiftAndReduce(r)) <=> Odd(r)
<1> DEFINE low == r \ {15}
<1>1. IsFiniteSet(r) /\ IsFiniteSet(low) /\ low \in SUBSET Int
  BY RegistersFinite, FS_RemoveElement
<1>2. /\ IsFiniteSet(Shifted(r))
      /\ Odd(Shifted(r)) <=> Odd(low)
  <2>1. Shifted(r) = Moved(low, 1)
    BY DEF Shifted, Moved
  <2> HIDE DEF low
  <2>2. QED
    BY <1>1, <2>1, MovedParity
<1>3. CASE 15 \in r
  <2>1. IsFiniteSet(Polynomial) /\ Odd(Polynomial)
    <3>1. IsFiniteSet({0}) /\ Cardinality({0}) = 1
      BY FS_Singleton
    <3>2. IsFiniteSet({0} \cup {5}) /\ Cardinality({0} \cup {5}) = 2
      BY <3>1, FS_AddElement
    <3>3. Cardinality(({0} \cup {5}) \cup {12}) = 3 /\ IsFiniteSet(({0} \cup {5}) \cup {12})
      BY <3>2, FS_AddElement
    <3>4. ({0} \cup {5}) \cup {12} = Polynomial
      BY DEF Polynomial
    <3>5. QED
      BY <3>3, <3>4 DEF Odd
  <2>2. Odd(ShiftAndReduce(r)) <=> ~ Odd(Shifted(r))
    BY <1>2, <1>3, <2>1, SymDiffParity DEF ShiftAndReduce
  <2>3. Odd(low) <=> ~ Odd(r)
    <3>1. Cardinality(low) = Cardinality(r) - 1 /\ Cardinality(r) \in Nat
      BY <1>1, <1>3, FS_RemoveElement, FS_CardinalityType
    <3>2. QED
      BY <3>1 DEF Odd
  <2>4. QED
    BY <1>2, <2>2, <2>3
<1>4. CASE 15 \notin r
  <2>1. low = r
    BY <1>4
  <2>2. QED
    BY <1>2, <1>4, <2>1 DEF ShiftAndReduce
<1>5. QED
  BY <1>3, <1>4

LEMMA AddByteParity ==
  ASSUME NEW r \in Registers, NEW byte \in ByteSets
  PROVE  Odd(AddByte(r, byte)) <=> ~ (Odd(r) <=> Odd(byte))
<1>1. PICK f : /\ Rounds(f) /\ f[0] = SymDiff(r, Raised(byte))
               /\ AddByte(r, byte) = f[8]
  BY AddByteRounds
<1>2. Odd(f[0]) <=> ~ (Odd(r) <=> Odd(byte))
  <2>1. byte \in SUBSET Int /\ IsFiniteSet(byte) /\ IsFiniteSet(r)
    <3>1. byte \in Registers
      BY DEF ByteSets, Registers
    <3>2. QED
      BY <3>1, RegistersFinite
  <2>2. IsFiniteSet(Raised(byte)) /\ (Odd(Raised(byte)) <=> Odd(byte))
    <3>1. Raised(byte) = Moved(byte, 8)
      BY DEF Raised, Moved
    <3>2. QED
      BY <2>1, <3>1, MovedParity
  <2>3. QED
    BY <1>1, <2>1, <2>2, SymDiffParity
<1> DEFINE Good == {n \in 0..8 : Odd(f[n]) <=> Odd(f[0])}
<1>3. 0 \in Good
  OBVIOUS
<1>4. ASSUME NEW n \in 0..8 - 1, n \in Good PROVE n + 1 \in Good
  <2>1. n + 1 \in 1..8 /\ (n + 1) - 1 = n /\ f[n] \in Registers
    BY <1>1 DEF Rounds
  <2>2. f[n + 1] = ShiftAndReduce(f[n])
    BY <1>1, <2>1 DEF Rounds
  <2>3. Odd(f[n + 1]) <=> Odd(f[n])
    BY <2>1, <2>2, RoundParity
  <2>4. QED
    BY <1>4, <2>1, <2>3
<1>5. 8 \in Good
  <2> HIDE DEF Good
  <2>1. \A n \in 0..8 : n \in Good
    BY <1>3, <1>4, InductionUpTo
  <2>2. QED
    BY <2>1
<1>6. QED
  BY <1>1, <1>2, <1>5

\* Any odd number of wrong bits changes the checksum.
EveryOddErrorIsDetected ==
  \A error \in SUBSET (1..8 * Len(packet)) :
    Odd(error) => Crc(Damaged(error)) # Crc(packet)

LEMMA OddErrorIsDetected ==
  ASSUME PacketTypeOK, NEW error \in SUBSET (1..8 * Len(packet)), Odd(error)
  PROVE  Crc(Damaged(error)) # Crc(packet)
<1> DEFINE length == Len(packet)
           upTo(n) == error \cap (1..8 * n)
<1>1. length \in Nat /\ error \in SUBSET (1..8 * length)
  BY DEF PacketTypeOK
<1> HIDE DEF length
<1>2. PICK d \in [0..length -> Registers] :
        /\ d[0] = {}
        /\ \A n \in 1..length : d[n] = AddByte(d[n - 1], ErrorsOf(error, n))
        /\ d[length] # {} => Crc(Damaged(error)) # Crc(packet)
  BY ChecksumDifference DEF length
<1>3. \A n \in Nat : IsFiniteSet(upTo(n))
  <2>1. \A n \in Nat : IsFiniteSet(1..8 * n)
    BY FS_Interval
  <2>2. QED
    BY <2>1, FS_Intersection
<1>4. ASSUME NEW n \in 0..length - 1
      PROVE  Odd(upTo(n + 1)) <=> ~ (Odd(upTo(n)) <=> Odd(ErrorsOf(error, n + 1)))
  <2> DEFINE new == error \cap (8 * n + 1..8 * (n + 1))
             bits == ErrorsOf(error, n + 1)
             f == [x \in new |-> 8 * (n + 1) - x]
  <2>1. n \in Nat /\ n + 1 \in Nat
    BY <1>1
  <2>2. IsFiniteSet(new)
    <3>1. IsFiniteSet(8 * n + 1..8 * (n + 1))
      BY <2>1, FS_Interval
    <3>2. QED
      BY <3>1, FS_Intersection
  <2>3. f \in Bijection(new, bits)
    <3>1. ASSUME NEW x \in new PROVE f[x] \in bits /\ f[x] = 8 * (n + 1) - x
      <4>1. x \in Int /\ 8 * (n + 1) - x \in 0..7 /\ 8 * (n + 1) - (8 * (n + 1) - x) = x
        BY <2>1
      <4>2. QED
        BY <4>1 DEF ErrorsOf
    <3>2. ASSUME NEW b \in bits PROVE \E x \in new : f[x] = b
      <4>1. b \in 0..7 /\ 8 * (n + 1) - b \in error
        BY DEF ErrorsOf
      <4>2. 8 * (n + 1) - b \in new /\ 8 * (n + 1) - (8 * (n + 1) - b) = b
        BY <2>1, <4>1
      <4>3. QED
        BY <4>2
    <3>3. ASSUME NEW x \in new, NEW y \in new, f[x] = f[y] PROVE x = y
      BY <2>1, <3>1, <3>3
    <3> HIDE DEF bits, new
    <3>4. f \in [new -> bits]
      BY <3>1
    <3> HIDE DEF f
    <3>5. QED
      BY <3>2, <3>3, <3>4 DEF Bijection, Injection, IsInjective, Surjection
  <2>4. upTo(n + 1) = SymDiff(upTo(n), new)
    BY <2>1 DEF SymDiff
  <2>5. IsFiniteSet(upTo(n))
    BY <1>3, <2>1
  <2> HIDE DEF new, bits, f, upTo
  <2>6. Odd(bits) <=> Odd(new)
    BY <2>2, <2>3, FS_Bijection DEF ExistsBijection, Odd
  <2>7. Odd(upTo(n + 1)) <=> ~ (Odd(upTo(n)) <=> Odd(new))
    BY <2>2, <2>4, <2>5, SymDiffParity
  <2>8. QED
    BY <2>6, <2>7 DEF bits
<1> DEFINE Good == {n \in 0..length : Odd(d[n]) <=> Odd(upTo(n))}
<1>5. 0 \in Good
  <2>1. upTo(0) = {}
    OBVIOUS
  <2>2. Odd(d[0]) <=> Odd(upTo(0))
    BY <1>2, <2>1
  <2> HIDE DEF upTo
  <2>3. QED
    BY <1>1, <2>2
<1>6. ASSUME NEW n \in 0..length - 1, n \in Good PROVE n + 1 \in Good
  <2>1. /\ n + 1 \in 1..length /\ (n + 1) - 1 = n /\ n \in 0..length
        /\ n + 1 \in 0..length
    BY <1>1
  <2>2. d[n] \in Registers /\ ErrorsOf(error, n + 1) \in ByteSets
    BY <1>2, <2>1 DEF ErrorsOf, ByteSets
  <2>3. d[n + 1] = AddByte(d[n], ErrorsOf(error, n + 1))
    BY <1>2, <2>1
  <2> HIDE DEF upTo
  <2>4. Odd(d[n + 1]) <=> ~ (Odd(d[n]) <=> Odd(ErrorsOf(error, n + 1)))
    BY <2>2, <2>3, AddByteParity
  <2>5. QED
    BY <1>4, <1>6, <2>1, <2>4
<1>7. Odd(d[length]) <=> Odd(upTo(length))
  <2> HIDE DEF Good
  <2>1. \A n \in 0..length : n \in Good
    BY <1>1, <1>5, <1>6, InductionUpTo
  <2>2. QED
    BY <1>1, <2>1 DEF Good
<1>8. upTo(length) = error
  BY <1>1
<1>9. ~ Odd({})
  BY FS_EmptySet DEF Odd
<1>10. QED
  BY <1>2, <1>7, <1>8, <1>9

-----------------------------------------------------------------------------
(* The theorems *)

\* bst_crc16 notices every pattern of wrong bits that fits into 16 neighbouring
\* bits, wherever it is and however long the packet is.
THEOREM EveryBurst == Spec => []EveryBurstIsDetected
<1>1. PacketTypeOK => EveryBurstIsDetected
  BY BurstIsDetected DEF EveryBurstIsDetected
<1>2. QED
  BY <1>1, PacketIsBytes, PTL

\* The bursts that the runs try, of which all inner bits or none are wrong.
THEOREM Bursts == Spec => []BurstsAreDetected
<1>1. EveryBurstIsDetected /\ PacketTypeOK => BurstsAreDetected
  <2> SUFFICES ASSUME EveryBurstIsDetected, PacketTypeOK,
                      NEW first \in 1..8 * Len(packet),
                      NEW last \in first..8 * Len(packet), last - first < 16,
                      NEW error \in {first..last, {first, last}}
               PROVE  Crc(Damaged(error)) # Crc(packet)
    BY DEF BurstsAreDetected
  <2>1. Len(packet) \in Nat
    BY DEF PacketTypeOK
  <2>2. /\ error \in SUBSET (1..8 * Len(packet))
        /\ first \in error
        /\ \A x \in error : first <= x /\ x < first + 16
    BY <2>1
  <2>3. QED
    BY <2>2 DEF EveryBurstIsDetected
<1>2. QED
  BY <1>1, EveryBurst, PacketIsBytes, PTL

\* bst_crc16 notices every odd number of wrong bits, however far apart they are
\* and however long the packet is.
THEOREM EveryOddError == Spec => []EveryOddErrorIsDetected
<1>1. PacketTypeOK => EveryOddErrorIsDetected
  BY OddErrorIsDetected DEF EveryOddErrorIsDetected
<1>2. QED
  BY <1>1, PacketIsBytes, PTL

\* The odd errors that the runs try: one or three wrong bits.
THEOREM OddErrors == Spec => []OddErrorsAreDetected
<1>1. EveryOddErrorIsDetected /\ PacketTypeOK => OddErrorsAreDetected
  <2> SUFFICES ASSUME EveryOddErrorIsDetected, PacketTypeOK,
                      NEW a \in 1..8 * Len(packet),
                      NEW b \in a..8 * Len(packet), NEW c \in a..8 * Len(packet),
                      Cardinality({a, b, c}) # 2
               PROVE  Crc(Damaged({a, b, c})) # Crc(packet)
    BY DEF OddErrorsAreDetected
  <2>1. {a, b, c} \in SUBSET (1..8 * Len(packet))
    BY DEF PacketTypeOK
  <2>2. Odd({a, b, c})
    <3>1. IsFiniteSet({a}) /\ Cardinality({a}) = 1
      BY FS_Singleton
    <3> DEFINE one == {a}
               two == one \cup {b}
    <3> HIDE DEF one
    <3>2. IsFiniteSet(two) /\ Cardinality(two) \in {1, 2}
      BY <3>1, FS_AddElement DEF one
    <3> HIDE DEF two
    <3>3. Cardinality(two \cup {c}) \in {1, 2, 3}
      <4>1. Cardinality(two \cup {c}) =
              IF c \in two THEN Cardinality(two) ELSE Cardinality(two) + 1
        BY <3>2, FS_AddElement
      <4>2. QED
        BY <3>2, <4>1
    <3>4. two \cup {c} = {a, b, c}
      BY DEF one, two
    <3>5. Cardinality({a, b, c}) \in {1, 3}
      BY <3>3, <3>4
    <3>6. QED
      BY <3>5 DEF Odd
  <2>3. QED
    BY <2>1, <2>2 DEF EveryOddErrorIsDetected
<1>2. QED
  BY <1>1, EveryOddError, PacketIsBytes, PTL
=============================================================================
