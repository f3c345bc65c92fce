-------------------------------- MODULE Crc16 --------------------------------
(***************************************************************************)
(* bst_crc16 of src/bootstrapWifi.c, the checksum of a packet's content.  A *)
(* 16-bit register, and a byte, is the set of the positions of its ones, so *)
(* that exclusive or is the symmetric difference.                           *)
(***************************************************************************)
EXTENDS Integers, Sequences, FiniteSetsExt

Polynomial == {12, 5, 0}  \* 0x1021
Ones == 0..15             \* 0xffff

Shifted(register) == {b + 1 : b \in register \ {15}}

\* Mutant: the top bit is looked at after the shift.
ShiftAndTestLate(register) ==
  IF 15 \in Shifted(register) THEN SymDiff(Shifted(register), Polynomial)
  ELSE Shifted(register)

\* One of the eight rounds for a byte.
ShiftAndReduce(register) ==
  IF 15 \in register THEN SymDiff(Shifted(register), Polynomial) ELSE Shifted(register)

\* A byte is added at the top; then come the eight rounds.
AddByte(register, byte) ==
  LET after[round \in 0..8] ==
        IF round = 0 THEN SymDiff(register, {b + 8 : b \in byte})
        ELSE ShiftAndReduce(after[round - 1])
  IN after[8]

Crc(message) ==
  LET after[n \in 0..Len(message)] ==
        IF n = 0 THEN Ones ELSE AddByte(after[n - 1], message[n])
  IN after[Len(message)]
=============================================================================
