-------------------------------- MODULE Spritz --------------------------------
(***************************************************************************)
(* The sponge of src/spritz.c, which encrypts the packets: its state, and   *)
(* the operations that absorb input and drip output.  The code has N = 256  *)
(* and takes a byte as two digits of base Digits = 16; every sum of bytes   *)
(* wraps.                                                                   *)
(***************************************************************************)
EXTENDS Integers, Sequences

CONSTANTS
  Digits  \* values of a nibble (16)

\* A power of two other than 1: no odd number divides it.
ASSUME DigitsAssumption ==
  /\ Digits \in Nat \ {0, 1}
  /\ \A d \in 2..Digits : Digits % d = 0 => d % 2 = 0

N == Digits * Digits
Half == N \div 2
Bytes == 0..N - 1

States ==
  [s : [Bytes -> Bytes], a : 0..Half, i : Bytes, j : Bytes, k : Bytes,
   w : Bytes, z : Bytes]

Swap(s, x, y) == [s EXCEPT ![x] = s[y], ![y] = s[x]]

\* initialize_state
Initial ==
  [s |-> [v \in Bytes |-> v], a |-> 0, i |-> 0, j |-> 0, k |-> 0, w |-> 1, z |-> 0]

\* Mutant: the swap loses one of the values.
UpdateLossy(q) ==
  LET i == (q.i + q.w) % N
      j == (q.k + q.s[(q.j + q.s[i]) % N]) % N
      k == (i + q.k + q.s[j]) % N
  IN [q EXCEPT !.i = i, !.j = j, !.k = k, !.s = [@ EXCEPT ![i] = q.s[j]]]

Update(q) ==
  LET i == (q.i + q.w) % N
      j == (q.k + q.s[(q.j + q.s[i]) % N]) % N
      k == (i + q.k + q.s[j]) % N
  IN [q EXCEPT !.i = i, !.j = j, !.k = k, !.s = Swap(@, i, j)]

\* Mutant: the byte before does not count.
OutputForgetful(q) ==
  [q EXCEPT !.z = q.s[(q.j + q.s[(q.i + q.s[q.k]) % N]) % N]]

\* output: the byte is the new z.
Output(q) ==
  LET y1 == (q.z + q.k) % N
      x1 == (q.i + q.s[y1]) % N
      y2 == (q.j + q.s[x1]) % N
  IN [q EXCEPT !.z = q.s[y2]]

Crush(q) ==
  [q EXCEPT !.s = [v \in Bytes |->
     LET x == q.s[v]
         other == q.s[N - 1 - v]
     IN IF (v < Half) = (x < other) THEN x ELSE other]]

\* The function step applied n times.
Times(n, step) ==
  LET rest[m \in 0..n] ==
        [q \in States |-> IF m = 0 THEN q ELSE rest[m - 1][step[q]]]
  IN rest[n]

\* The 2 * N updates of whip, in groups: TLC's recursion stays short.
Updates == Times(2 * Digits, Times(Digits, [q \in States |-> Update(q)]))

\* Mutant: the step width grows by one.
WhipByOne(q) == [Updates[q] EXCEPT !.w = (@ + 1) % N]

Whip(q) == [Updates[q] EXCEPT !.w = (@ + 2) % N]

Shuffle(q) == [Whip(Crush(Whip(Crush(Whip(q))))) EXCEPT !.a = 0]

\* Mutant: a full block is not looked at.
ReadyAlways(q) == q

\* The block of nibbles and stops is full: a = N/2.
Ready(q) == IF q.a = Half THEN Shuffle(q) ELSE q

\* Mutant: nothing marks the stop.
AbsorbStopUnmarked(q) == Ready(q)

AbsorbStop(q) == [Ready(q) EXCEPT !.a = @ + 1]

AbsorbNibble(q, x) ==
  LET r == Ready(q) IN [r EXCEPT !.s = Swap(@, r.a, Half + x), !.a = @ + 1]

\* The low nibble first.
AbsorbByte(q, b) == AbsorbNibble(AbsorbNibble(q, b % Digits), b \div Digits)

Absorb(q, message) ==
  LET after[v \in 0..Len(message)] ==
        IF v = 0 THEN q ELSE AbsorbByte(after[v - 1], message[v])
  IN after[Len(message)]

\* drip, also the start of squeeze
Drip(q) == Output(Update(IF q.a > 0 THEN Shuffle(q) ELSE q))

\* squeeze: the bytes that are dripped.
Squeeze(q, length) ==
  LET start == IF q.a > 0 THEN Shuffle(q) ELSE q
      after[v \in 0..length] == IF v = 0 THEN start ELSE Drip(after[v - 1])
  IN [v \in 1..length |-> after[v].z]

\* spritz_stream
Stream(key, length) == Squeeze(Absorb(Initial, key), length)

\* What the two functions below return for a length that is no byte.
Failure == -1

Hash(message, length) ==
  IF length >= N THEN Failure
  ELSE Squeeze(Absorb(AbsorbStop(Absorb(Initial, message)), <<length>>), length)

\* The keystream of spritz_encrypt and spritz_decrypt starts here.
Keyed(nonce, key) == Absorb(AbsorbStop(Absorb(Initial, key)), nonce)

Encrypt(message, nonce, key) ==
  LET stream == Squeeze(Keyed(nonce, key), Len(message))
  IN [v \in 1..Len(message) |-> (message[v] + stream[v]) % N]

Decrypt(c, nonce, key) ==
  LET stream == Squeeze(Keyed(nonce, key), Len(c))
  IN [v \in 1..Len(c) |-> (c[v] - stream[v]) % N]

\* spritz_auth
Auth(message, key, length) ==
  LET keyed == AbsorbStop(Absorb(Initial, key))
  IN IF length >= N THEN Failure
     ELSE Squeeze(Absorb(AbsorbStop(Absorb(keyed, message)), <<length>>), length)
=============================================================================
