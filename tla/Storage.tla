------------------------------- MODULE Storage -------------------------------
(***************************************************************************)
(* prv_assign_data of src/bootstrapWifi.c: the bootstrap data               *)
(* "ssid\0pwd\0additional" are copied into a buffer of fixed size, and      *)
(* three pointers into the buffer are set.  A character is NUL or one of    *)
(* Characters; a pointer is an index of the buffer, or Null.                *)
(***************************************************************************)
EXTENDS Integers, Sequences

CONSTANTS
  Capacity,    \* BST_STORAGE_RAM_SIZE (512)
  Characters,  \* the characters a string is made of
  NUL,         \* the character that ends a string
  Null         \* the NULL pointer

ASSUME CapacityAssumption == Capacity \in Nat /\ Capacity >= 3
ASSUME CharacterAssumption == NUL \notin Characters

Indices == 0..Capacity - 1

ASSUME NullAssumption == Null \notin Indices

\* Mutant: one byte less is kept free.
KeptTooLong(input) == IF Len(input) > Capacity - 2 THEN Capacity - 2 ELSE Len(input)

\* How much of the input is kept (storage_len).
Kept(input) == IF Len(input) > Capacity - 3 THEN Capacity - 3 ELSE Len(input)

\* The buffer: what is kept of the input, then zeros.
Stored(input) ==
  [p \in Indices |-> IF p < Kept(input) THEN input[p + 1] ELSE NUL]

\* strlen: where the string that starts at p ends; Capacity if nothing ends it.
EndOf(buffer, p) ==
  CHOOSE q \in p..Capacity :
    /\ q = Capacity \/ buffer[q] = NUL
    /\ \A r \in p..q - 1 : buffer[r] # NUL

\* Where the three strings start: behind the NUL of the one before.
First == 0

\* Mutant: the pointer stays on the NUL.
SecondOnNul(buffer) == EndOf(buffer, First)

Second(buffer) == EndOf(buffer, First) + 1
Third(buffer) == EndOf(buffer, Second(buffer)) + 1
Starts(buffer) == <<First, Second(buffer), Third(buffer)>>

\* An empty string has a NULL pointer.
Pointer(buffer, p) == IF buffer[p] = NUL THEN Null ELSE p

\* ssid, pwd and additional, as the platform reads them through the pointers.
Text(buffer, p) ==
  IF Pointer(buffer, p) = Null THEN <<>>
  ELSE [n \in 1..EndOf(buffer, p) - p |-> buffer[p + n - 1]]

Texts(buffer) == [i \in 1..3 |-> Text(buffer, Starts(buffer)[i])]

\* Mutant: the last byte is not stored.
SavedShort(input) ==
  SubSeq([n \in 1..Kept(input) |-> Stored(input)[n - 1]], 1, Kept(input) - 1)

\* What bst_store_bootstrap_data is given: the buffer up to storage_len.
Saved(input) == [n \in 1..Kept(input) |-> Stored(input)[n - 1]]
=============================================================================
