------------------------------- MODULE MCSpritz -------------------------------
(***************************************************************************)
(* One user of a Spritz state that absorbs nibbles and stops and drips, in  *)
(* every order.  block is what was absorbed since base was the permutation: *)
(* since the start, the last shuffle or the last output.                    *)
(***************************************************************************)
EXTENDS Spritz

CONSTANTS
  Nibbles,  \* the nibbles that are absorbed
  MaxOps    \* how many operations are tried

ASSUME NibblesAssumption == Nibbles \subseteq 0..Digits - 1 /\ MaxOps \in Nat

VARIABLES q, base, block, ops

vars == <<q, base, block, ops>>

\* In block, what is no nibble.
Stop == -1

Init == q = Initial /\ base = Initial.s /\ block = <<>> /\ ops = 0

Absorbed(op) ==
  IF q.a = Half THEN base' = Ready(q).s /\ block' = <<op>>
  ELSE base' = base /\ block' = Append(block, op)

Nibble ==
  \E x \in Nibbles : q' = AbsorbNibble(q, x) /\ Absorbed(x)

EndOfPart == q' = AbsorbStop(q) /\ Absorbed(Stop)

Byte == q' = Drip(q) /\ base' = q'.s /\ block' = <<>>

Next == ops < MaxOps /\ ops' = ops + 1 /\ (Nibble \/ EndOfPart \/ Byte)

Spec == Init /\ [][Next]_vars

-----------------------------------------------------------------------------
\* The fields stay within the arrays they index: a never passes N/2, so that
\* s[a] and s[N/2 + x] are different elements of s.
TypeOK == q \in States

\* s is a permutation after every operation: no swap and no sort loses a value.
Permutation == {q.s[v] : v \in Bytes} = Bytes

\* With the present step width the index i comes to every element of s, from
\* wherever it is: none is left out by a whip, which is 2 * N updates.  shuffle
\* adds 2 to the width three times, and the sum wraps.
StepVisitsAll == {(q.i + n * q.w) % N : n \in 0..N - 1} = Bytes

\* Undo what the element p of the block did to s.
Undone(acc, p) ==
  IF acc.s[p] = base[p] THEN [s |-> acc.s, ops |-> <<Stop>> \o acc.ops]
  ELSE LET y == CHOOSE v \in Half..N - 1 : acc.s[v] = base[p]
       IN [s |-> Swap(acc.s, p, y), ops |-> <<y - Half>> \o acc.ops]

\* The block that s tells, its last element first.
Recovered ==
  LET back[n \in 0..q.a] ==
        IF n = 0 THEN [s |-> q.s, ops |-> <<>>] ELSE Undone(back[n - 1], q.a - n)
  IN back[q.a].ops

\* Until the next shuffle the permutation tells what was absorbed, in order and
\* with the stops: a key and a nonce of other lengths, or another split of the
\* same bytes, never give the state that spritz_encrypt had (spritz.c:135-157).
BlockIsDistinguished == Recovered = block

-----------------------------------------------------------------------------
\* The vectors of test/test_spritz.cpp, with the N of the code.
Code == INSTANCE Spritz WITH Digits <- 16

arcfour == <<97, 114, 99, 102, 111, 117, 114>>
nonce == <<110, 111, 110, 99, 101, 0>>
secret == <<115, 101, 99, 114, 101, 116, 0>>

\* The definitions compute what the code computes: the hash and the round trip
\* that the test expects, looked at once, in the initial state.
TestVectors ==
  ops = 0 =>
    /\ Code!Hash(arcfour, 32) =
         << 255, 140, 242, 104, 9, 76, 135, 185, 95, 116, 206, 111, 238, 157, 48, 3,
            165, 249, 254, 105, 68, 101, 60, 213, 14, 102, 191, 24, 156, 99, 246, 153 >>
    /\ Code!Decrypt(Code!Encrypt(arcfour, nonce, secret), nonce, secret) = arcfour
=============================================================================
