---------------------------- MODULE Spritz_proofs ----------------------------
(***************************************************************************)
(* Proofs about module Spritz, for every power of two of digits: the state  *)
(* stays in its arrays and keeps a permutation, the index walks through all *)
(* of it, the permutation tells what was absorbed, and what is encrypted    *)
(* can be decrypted.                                                        *)
(***************************************************************************)
EXTENDS MCSpritz, Recursion, FiniteSetTheorems, SequenceTheorems

-----------------------------------------------------------------------------
LEMMA DigitsEven == Digits % 2 = 0
<1>1. Digits \in 2..Digits /\ Digits % Digits = 0
  BY DigitsAssumption
<1>2. QED
  BY <1>1, DigitsAssumption

\* N is an even square, so a nibble finds its place above the middle.
LEMMA Sizes ==
  /\ N \in Nat /\ Half \in Nat
  /\ N = Half + Half
  /\ Digits \in 1..Half
<1>1. PICK h \in Nat : Digits = h + h /\ h >= 1
  <2>1. Digits = Digits \div 2 + Digits \div 2 /\ Digits \div 2 \in Nat /\ Digits \div 2 >= 1
    BY DigitsAssumption, DigitsEven
  <2>2. QED
    BY <2>1
<1>2. h * h \in Nat /\ h * h >= h
  BY <1>1
<1>3. N = 2 * (h * h + h * h)
  BY <1>1 DEF N
<1>4. Half = h * h + h * h
  BY <1>2, <1>3 DEF Half
<1>5. QED
  BY <1>1, <1>2, <1>3, <1>4

\* Where the block is, and where a nibble is sent.
LEMMA Places ==
  /\ \A x \in Int : x % N \in Bytes
  /\ \A v \in Bytes : N - 1 - v \in Bytes
  /\ \A a \in 0..Half - 1 : a \in Bytes
  /\ \A x \in 0..Digits - 1 : Half + x \in Bytes
  /\ 0 \in Bytes /\ 1 \in Bytes
  /\ Bytes \subseteq Nat
<1>1. /\ N \in Nat /\ Half \in Nat /\ N = Half + Half /\ Digits \in 1..Half
  BY Sizes
<1> HIDE DEF N, Half
<1>2. \A x \in Int : x % N \in Bytes
  BY <1>1 DEF Bytes
<1>3. QED
  BY <1>1, <1>2 DEF Bytes

-----------------------------------------------------------------------------
\* The arrays that hold every value.
Permutations == {s \in [Bytes -> Bytes] : \A v \in Bytes : \E u \in Bytes : s[u] = v}

LEMMA SwapType ==
  ASSUME NEW s \in [Bytes -> Bytes], NEW x \in Bytes, NEW y \in Bytes
  PROVE  /\ Swap(s, x, y) \in [Bytes -> Bytes]
         /\ \A v \in Bytes : Swap(s, x, y)[v] =
              IF v = y THEN s[x] ELSE IF v = x THEN s[y] ELSE s[v]
BY DEF Swap

LEMMA SwapPermutes ==
  ASSUME NEW s \in Permutations, NEW x \in Bytes, NEW y \in Bytes
  PROVE  Swap(s, x, y) \in Permutations
<1>1. s \in [Bytes -> Bytes]
  BY DEF Permutations
<1>2. ASSUME NEW v \in Bytes PROVE \E u \in Bytes : Swap(s, x, y)[u] = v
  <2>1. PICK u \in Bytes : s[u] = v
    BY DEF Permutations
  <2>2. CASE u = x
    BY <1>1, <2>1, <2>2, SwapType
  <2>3. CASE u = y
    BY <1>1, <2>1, <2>3, SwapType
  <2>4. CASE u # x /\ u # y
    BY <1>1, <2>1, <2>4, SwapType
  <2>5. QED
    BY <2>2, <2>3, <2>4
<1>3. QED
  BY <1>1, <1>2, SwapType DEF Permutations

-----------------------------------------------------------------------------
\* What one step of the sponge keeps.
Sound == {r \in States : r.s \in Permutations /\ r.w % 2 = 1}

LEMMA UpdateType ==
  ASSUME NEW r \in States
  PROVE  /\ Update(r) \in States
         /\ Update(r).w = r.w /\ Update(r).a = r.a
         /\ r.s \in Permutations => Update(r).s \in Permutations
<1> DEFINE i == (r.i + r.w) % N
           j == (r.k + r.s[(r.j + r.s[i]) % N]) % N
           k == (i + r.k + r.s[j]) % N
<1>0. r.s \in [Bytes -> Bytes] /\ r.i \in Nat /\ r.w \in Nat /\ r.j \in Nat /\ r.k \in Nat
  BY Places DEF States
<1>1. i \in Bytes
  BY <1>0, Places
<1>2. j \in Bytes
  <2>1. r.s[i] \in Nat
    BY <1>0, <1>1, Places
  <2>2. (r.j + r.s[i]) % N \in Bytes
    BY <1>0, <2>1, Places
  <2>3. r.s[(r.j + r.s[i]) % N] \in Nat
    BY <1>0, <2>2, Places
  <2>4. QED
    BY <1>0, <2>3, Places
<1>3. k \in Bytes
  <2>1. r.s[j] \in Nat /\ i \in Nat
    BY <1>0, <1>1, <1>2, Places
  <2> HIDE DEF i, j
  <2>2. QED
    BY <1>0, <2>1, Places
<1>4. Update(r) = [r EXCEPT !.i = i, !.j = j, !.k = k, !.s = Swap(r.s, i, j)]
  BY DEF Update, States
<1> HIDE DEF i, j, k
<1>5. Swap(r.s, i, j) \in [Bytes -> Bytes]
  BY <1>0, <1>1, <1>2, SwapType
<1>6. Update(r) \in States /\ Update(r).w = r.w /\ Update(r).a = r.a
      /\ Update(r).s = Swap(r.s, i, j)
  BY <1>1, <1>2, <1>3, <1>4, <1>5 DEF States
<1>7. QED
  BY <1>1, <1>2, <1>6, SwapPermutes

LEMMA OutputType ==
  ASSUME NEW r \in States
  PROVE  /\ Output(r) \in States
         /\ Output(r).w = r.w /\ Output(r).a = r.a /\ Output(r).s = r.s
<1> DEFINE y1 == (r.z + r.k) % N
           x1 == (r.i + r.s[y1]) % N
           y2 == (r.j + r.s[x1]) % N
<1>0. /\ r.s \in [Bytes -> Bytes]
      /\ r.z \in Nat /\ r.k \in Nat /\ r.i \in Nat /\ r.j \in Nat
  BY Places DEF States
<1>1. y1 \in Bytes
  BY <1>0, Places
<1>2. x1 \in Bytes
  <2>1. r.s[y1] \in Nat
    BY <1>0, <1>1, Places
  <2>2. QED
    BY <1>0, <2>1, Places
<1>3. r.s[y2] \in Bytes
  <2>1. r.s[x1] \in Nat
    BY <1>0, <1>2, Places
  <2>2. y2 \in Bytes
    BY <1>0, <2>1, Places
  <2>3. QED
    BY <1>0, <2>2
<1>4. Output(r) = [r EXCEPT !.z = r.s[y2]]
  BY DEF Output
<1> HIDE DEF y1, x1, y2
<1>5. QED
  BY <1>3, <1>4 DEF States

\* crush sorts pairs of elements: neither of a pair is lost.
LEMMA CrushType ==
  ASSUME NEW r \in States
  PROVE  /\ Crush(r) \in States
         /\ Crush(r).w = r.w /\ Crush(r).a = r.a
         /\ r.s \in Permutations => Crush(r).s \in Permutations
<1>0. r.s \in [Bytes -> Bytes]
  BY DEF States
<1> DEFINE c == [v \in Bytes |-> IF (v < Half) = (r.s[v] < r.s[N - 1 - v])
                                 THEN r.s[v] ELSE r.s[N - 1 - v]]
<1>1. Crush(r) = [r EXCEPT !.s = c]
  BY DEF Crush
<1>2. c \in [Bytes -> Bytes]
  BY <1>0, Places
<1>3. /\ Crush(r) \in States /\ Crush(r).s = c
      /\ Crush(r).w = r.w /\ Crush(r).a = r.a
  <2> HIDE DEF c
  <2>1. QED
    BY <1>1, <1>2 DEF States
<1>4. ASSUME r.s \in Permutations, NEW v \in Bytes PROVE \E u \in Bytes : c[u] = v
  <2>1. PICK u \in Bytes : r.s[u] = v
    BY <1>4 DEF Permutations
  <2> DEFINE o == N - 1 - u
  <2>2. o \in Bytes /\ N - 1 - o = u
    <3>1. u \in Nat /\ N \in Nat
      BY Places, Sizes
    <3> HIDE DEF N
    <3>2. N - 1 - (N - 1 - u) = u
      BY <3>1
    <3>3. QED
      BY <3>2, Places
  <2>3. (o < Half) = ~ (u < Half)
    <3>1. u \in 0..N - 1 /\ Half \in Nat /\ N = Half + Half
      BY Sizes DEF Bytes
    <3> HIDE DEF Half, N
    <3>2. QED
      BY <3>1
  <2> HIDE DEF o
  <2>4. r.s[u] \in Nat /\ r.s[o] \in Nat
    BY <1>0, <2>2, Places
  <2>5. c[u] = IF (u < Half) = (r.s[u] < r.s[o]) THEN r.s[u] ELSE r.s[o]
    BY DEF o
  <2>6. c[o] = IF (o < Half) = (r.s[o] < r.s[u]) THEN r.s[o] ELSE r.s[u]
    BY <2>2
  <2> HIDE DEF c
  <2>7. CASE r.s[u] = r.s[o]
    BY <2>1, <2>5, <2>7
  <2>8. CASE r.s[u] < r.s[o]
    BY <2>1, <2>2, <2>3, <2>4, <2>5, <2>6, <2>8
  <2>9. CASE r.s[o] < r.s[u]
    BY <2>1, <2>2, <2>3, <2>4, <2>5, <2>6, <2>9
  <2>10. QED
    BY <2>4, <2>7, <2>8, <2>9
<1>5. QED
  BY <1>2, <1>3, <1>4 DEF Permutations

-----------------------------------------------------------------------------
\* A step applied n times keeps every set that the step keeps.
LEMMA TimesKeeps ==
  ASSUME NEW n \in Nat, NEW f \in [States -> States]
  PROVE  /\ Times(n, f) \in [States -> States]
         /\ \A T \in SUBSET States :
              (\A q1 \in T : f[q1] \in T) => \A q1 \in T : Times(n, f)[q1] \in T
<1> DEFINE Maps == [States -> States]
           id == [q1 \in States |-> q1]
           step == [m \in 1..n |-> [g \in Maps |-> [q1 \in States |-> g[f[q1]]]]]
           Def(g) == g = [m \in 0..n |-> [q1 \in States |->
                            IF m = 0 THEN q1 ELSE g[m - 1][f[q1]]]]
<1>1. PICK h : IsLoop(h, n, Maps, id, step)
  <2>1. id \in Maps /\ step \in [1..n -> [Maps -> Maps]]
    OBVIOUS
  <2> HIDE DEF Maps, id, step
  <2>2. QED
    BY <2>1, LoopExists
<1>2. /\ h \in [0..n -> Maps] /\ h[0] = id
      /\ \A m \in 1..n : h[m] = [q1 \in States |-> h[m - 1][f[q1]]]
  <2>1. /\ h \in [0..n -> Maps] /\ h[0] = id
        /\ \A m \in 1..n : h[m] = step[m][h[m - 1]]
    <3> HIDE DEF Maps, step, id
    <3>1. QED
      BY <1>1 DEF IsLoop
  <2>2. ASSUME NEW m \in 1..n
        PROVE  h[m] = [q1 \in States |-> h[m - 1][f[q1]]]
    <3>1. h[m - 1] \in Maps /\ h[m] = step[m][h[m - 1]]
      <4>1. m - 1 \in 0..n
        OBVIOUS
      <4> HIDE DEF Maps, step
      <4>2. QED
        BY <2>1, <4>1
    <3>2. QED
      BY <3>1
  <2> HIDE DEF Maps, id, step
  <2>3. QED
    BY <2>1, <2>2
<1>3. Def(h)
  <2>1. ASSUME NEW m \in 0..n
        PROVE  h[m] = [q1 \in States |-> IF m = 0 THEN q1 ELSE h[m - 1][f[q1]]]
    <3>1. CASE m = 0
      BY <1>2, <3>1
    <3>2. CASE m # 0
      <4>1. m \in 1..n
        BY <3>2
      <4>2. QED
        BY <1>2, <3>2, <4>1
    <3>3. QED
      BY <3>1, <3>2
  <2>2. h = [m \in 0..n |-> h[m]]
    <3> HIDE DEF Maps
    <3>1. QED
      BY <1>2
  <2>3. QED
    BY <2>1, <2>2
<1> DEFINE rest == CHOOSE g : Def(g)
<1>4. Def(rest)
  <2> HIDE DEF Def
  <2>1. QED
    BY <1>3
<1>5. Times(n, f) = rest[n]
  BY DEF Times
<1> HIDE DEF rest
<1>6. rest[0] = id
  BY <1>4
<1>7. ASSUME NEW m \in 1..n
      PROVE  rest[m] = [q1 \in States |-> rest[m - 1][f[q1]]]
  <2>1. m \in 0..n /\ m # 0
    OBVIOUS
  <2>2. rest[m] = [q1 \in States |-> IF m = 0 THEN q1 ELSE rest[m - 1][f[q1]]]
    BY <1>4, <2>1
  <2>3. QED
    BY <2>1, <2>2
<1>8. ASSUME NEW T \in SUBSET States, \A q1 \in T : f[q1] \in T
      PROVE  \A q1 \in T : rest[n][q1] \in T
  <2> DEFINE Good == {m \in 0..n : \A q1 \in T : rest[m][q1] \in T}
  <2>1. 0 \in Good
    BY <1>6
  <2>2. ASSUME NEW m \in 0..n - 1, m \in Good PROVE m + 1 \in Good
    <3>1. m + 1 \in 1..n /\ (m + 1) - 1 = m
      OBVIOUS
    <3>2. ASSUME NEW q1 \in T PROVE rest[m + 1][q1] \in T
      <4>1. q1 \in States /\ f[q1] \in T /\ \A q2 \in T : rest[m][q2] \in T
        BY <1>8, <2>2
      <4>2. rest[m + 1] = [q2 \in States |-> rest[m][f[q2]]]
        BY <1>7, <3>1
      <4>3. QED
        BY <4>1, <4>2
    <3>3. QED
      BY <3>1, <3>2
  <2> HIDE DEF Good
  <2>3. \A m \in 0..n : m \in Good
    BY <2>1, <2>2, InductionUpTo
  <2>4. QED
    BY <2>3 DEF Good
<1>9. \A q1 \in States : rest[n][q1] \in States
  BY <1>8
<1>10. rest[n] = [q1 \in States |-> rest[n][q1]]
  <2>1. CASE n = 0
    BY <1>6, <2>1
  <2>2. CASE n # 0
    <3>1. n \in 1..n
      BY <2>2
    <3>2. QED
      BY <1>7, <3>1
  <2>3. QED
    BY <2>1, <2>2
<1>11. rest[n] \in [States -> States]
  BY <1>9, <1>10
<1>12. QED
  BY <1>5, <1>8, <1>11

LEMMA UpdatesType ==
  ASSUME NEW q1 \in States
  PROVE  /\ Updates[q1] \in States
         /\ Updates[q1].w = q1.w /\ Updates[q1].a = q1.a
         /\ q1.s \in Permutations => Updates[q1].s \in Permutations
<1> DEFINE one == [r \in States |-> Update(r)]
           Same == {r \in States : /\ r.w = q1.w /\ r.a = q1.a
                                   /\ q1.s \in Permutations => r.s \in Permutations}
<1>1. one \in [States -> States]
  BY UpdateType
<1>2. Digits \in Nat /\ 2 * Digits \in Nat
  BY DigitsAssumption
<1>3. Same \in SUBSET States /\ q1 \in Same /\ \A r \in Same : one[r] \in Same
  BY UpdateType
<1> DEFINE group == Times(Digits, one)
<1>4. Updates = Times(2 * Digits, group)
  BY DEF Updates
<1> HIDE DEF one, Same
<1>5. group \in [States -> States] /\ \A r \in Same : group[r] \in Same
  BY <1>1, <1>2, <1>3, TimesKeeps
<1> HIDE DEF group
<1>6. Updates[q1] \in Same
  BY <1>2, <1>3, <1>4, <1>5, TimesKeeps
<1>7. QED
  BY <1>6 DEF Same

-----------------------------------------------------------------------------
\* What every operation keeps.
LEMMA WhipSound ==
  ASSUME NEW r \in Sound
  PROVE  Whip(r) \in Sound /\ Whip(r).a = r.a
<1>1. /\ r \in States /\ Updates[r] \in States
      /\ Updates[r].w = r.w /\ Updates[r].a = r.a
      /\ Updates[r].s \in Permutations
  BY UpdatesType DEF Sound
<1>2. (r.w + 2) % N \in Bytes /\ ((r.w + 2) % N) % 2 = 1
  <2>1. N \in Nat /\ Half \in Nat /\ N = Half + Half /\ Half >= 1
    BY Sizes
  <2>2. r.w \in 0..N - 1 /\ r.w % 2 = 1
    BY <1>1 DEF Sound, States, Bytes
  <2> HIDE DEF N, Half
  <2>3. CASE r.w + 2 < N
    <3>1. (r.w + 2) % N = r.w + 2
      BY <2>1, <2>2, <2>3
    <3>2. QED
      BY <2>1, <2>2, <2>3, <3>1 DEF Bytes
  <2>4. CASE ~ (r.w + 2 < N)
    <3>1. r.w + 2 = N + 1
      BY <2>1, <2>2, <2>4
    <3>2. (N + 1) % N = 1
      BY <2>1
    <3>3. QED
      BY <2>1, <3>1, <3>2 DEF Bytes
  <2>5. QED
    BY <2>3, <2>4
<1>3. Whip(r) = [Updates[r] EXCEPT !.w = (r.w + 2) % N]
  BY <1>1 DEF Whip
<1> HIDE DEF N
<1>4. QED
  BY <1>1, <1>2, <1>3 DEF Sound, States

LEMMA ShuffleSound ==
  ASSUME NEW r \in Sound
  PROVE  Shuffle(r) \in Sound /\ Shuffle(r).a = 0
<1>1. ASSUME NEW r1 \in Sound PROVE Crush(r1) \in Sound
  BY CrushType DEF Sound
<1>2. Whip(Crush(Whip(Crush(Whip(r))))) \in Sound
  BY <1>1, WhipSound
<1>3. ASSUME NEW r1 \in Sound
      PROVE  [r1 EXCEPT !.a = 0] \in Sound /\ [r1 EXCEPT !.a = 0].a = 0
  <2>1. 0 \in 0..Half
    BY Sizes
  <2>2. QED
    BY <2>1 DEF Sound, States
<1>4. QED
  BY <1>2, <1>3 DEF Shuffle

\* There is room for the next element of the block.
LEMMA ReadySound ==
  ASSUME NEW r \in Sound
  PROVE  /\ Ready(r) \in Sound
         /\ Ready(r).a \in 0..Half - 1
         /\ Ready(r).a = IF r.a = Half THEN 0 ELSE r.a
<1>1. r.a \in 0..Half /\ Half \in Nat /\ Half >= 1
  BY Sizes DEF Sound, States
<1>2. QED
  BY <1>1, ShuffleSound DEF Ready

LEMMA AbsorbStopSound ==
  ASSUME NEW r \in Sound
  PROVE  /\ AbsorbStop(r) \in Sound
         /\ AbsorbStop(r).a = Ready(r).a + 1
         /\ AbsorbStop(r).s = Ready(r).s
<1>1. Ready(r).a + 1 \in 0..Half
  BY ReadySound, Sizes
<1>2. AbsorbStop(r) = [Ready(r) EXCEPT !.a = Ready(r).a + 1]
  BY DEF AbsorbStop
<1>3. QED
  BY <1>1, <1>2, ReadySound DEF Sound, States

LEMMA AbsorbNibbleSound ==
  ASSUME NEW r \in Sound, NEW x \in 0..Digits - 1
  PROVE  /\ AbsorbNibble(r, x) \in Sound
         /\ AbsorbNibble(r, x).a = Ready(r).a + 1
         /\ AbsorbNibble(r, x).s = Swap(Ready(r).s, Ready(r).a, Half + x)
<1> DEFINE t == Swap(Ready(r).s, Ready(r).a, Half + x)
<1>1. Ready(r).a + 1 \in 0..Half /\ Ready(r).a \in Bytes /\ Half + x \in Bytes
  <2>1. Ready(r).a \in 0..Half - 1 /\ Half \in Nat
    BY ReadySound, Sizes
  <2>2. Ready(r).a \in Bytes /\ Half + x \in Bytes
    BY <2>1, Places
  <2> HIDE DEF Half
  <2>3. QED
    BY <2>1, <2>2
<1>2. t \in Permutations /\ t \in [Bytes -> Bytes]
  BY <1>1, ReadySound, SwapPermutes DEF Sound, Permutations
<1>3. AbsorbNibble(r, x) = [Ready(r) EXCEPT !.s = t, !.a = Ready(r).a + 1]
  BY ReadySound DEF AbsorbNibble, Sound, States
<1> HIDE DEF t
<1>4. QED
  BY <1>1, <1>2, <1>3, ReadySound DEF Sound, States, t

LEMMA DripSound ==
  ASSUME NEW r \in Sound
  PROVE  Drip(r) \in Sound /\ Drip(r).a = 0
<1> DEFINE start == IF r.a > 0 THEN Shuffle(r) ELSE r
<1>1. start \in Sound /\ start.a = 0
  <2>1. r.a \in Nat
    BY Sizes DEF Sound, States
  <2>2. CASE r.a > 0
    BY <2>2, ShuffleSound
  <2>3. CASE ~ (r.a > 0)
    BY <2>1, <2>3
  <2>4. QED
    BY <2>2, <2>3
<1>2. Drip(r) = Output(Update(start))
  BY DEF Drip
<1> HIDE DEF start
<1>3. Update(start) \in Sound /\ Update(start).a = 0
  BY <1>1, UpdateType DEF Sound
<1>4. QED
  BY <1>2, <1>3, OutputType DEF Sound

-----------------------------------------------------------------------------
\* The invariant of the state alone, and what follows from it.
SoundInv == q \in Sound

LEMMA InitialSound == Initial \in Sound
<1>1. Initial.s \in Permutations
  BY DEF Initial, Permutations
<1>2. Initial \in States
  BY Sizes, Places DEF Initial, States
<1>3. Initial.w % 2 = 1
  BY DEF Initial
<1>4. QED
  BY <1>1, <1>2, <1>3 DEF Sound

LEMMA InitSound == Init => SoundInv
  BY InitialSound DEF Init, SoundInv

LEMMA StepSound == SoundInv /\ [Next]_vars => SoundInv'
<1> SUFFICES ASSUME SoundInv, [Next]_vars PROVE SoundInv'
  OBVIOUS
<1>1. CASE Nibble
  BY <1>1, NibblesAssumption, AbsorbNibbleSound DEF SoundInv, Nibble
<1>2. CASE EndOfPart
  BY <1>2, AbsorbStopSound DEF SoundInv, EndOfPart
<1>3. CASE Byte
  BY <1>3, DripSound DEF SoundInv, Byte
<1>4. CASE UNCHANGED vars
  BY <1>4 DEF SoundInv, vars
<1>5. QED
  BY <1>1, <1>2, <1>3, <1>4 DEF Next

LEMMA StateIsSound == Spec => []SoundInv
  BY InitSound, StepSound, PTL DEF Spec

\* The registers stay within the arrays that they index, and the block within
\* the lower half of s, in every order of absorbing and dripping.
THEOREM RegistersInRange == Spec => []TypeOK
<1>1. SoundInv => TypeOK
  BY DEF SoundInv, Sound, TypeOK
<1>2. QED
  BY <1>1, StateIsSound, PTL

\* No update, no crush and no absorbed nibble loses a value of s.
THEOREM StaysPermutation == Spec => []Permutation
<1>1. SoundInv => Permutation
  <2> SUFFICES ASSUME SoundInv PROVE Permutation
    OBVIOUS
  <2>1. q.s \in Permutations
    BY DEF SoundInv, Sound
  <2>2. \A v \in Bytes : q.s[v] \in Bytes
    BY <2>1 DEF Permutations
  <2>3. \A v \in Bytes : \E u \in Bytes : q.s[u] = v
    BY <2>1 DEF Permutations
  <2>4. QED
    BY <2>2, <2>3 DEF Permutation
<1>2. QED
  BY <1>1, StateIsSound, PTL

-----------------------------------------------------------------------------
\* The numbers without an odd divisor other than 1.
OddFree == {m \in Nat \ {0} : \A d, e \in Nat : m = d * e => d = 1 \/ d % 2 = 0}

LEMMA HalfOddFree ==
  ASSUME NEW m \in OddFree, m # 1
  PROVE  \E h \in OddFree : m = 2 * h
<1>1. m \in Nat /\ m = m * 1 /\ m >= 2
  BY DEF OddFree
<1>2. m % 2 = 0
  BY <1>1 DEF OddFree
<1>3. PICK h \in Nat \ {0} : m = 2 * h
  <2>1. m = 2 * (m \div 2) /\ m \div 2 \in Nat \ {0}
    BY <1>1, <1>2
  <2>2. QED BY <2>1
<1>4. ASSUME NEW d \in Nat, NEW e \in Nat, h = d * e
      PROVE  d = 1 \/ d % 2 = 0
  <2>1. m = d * (2 * e) /\ 2 * e \in Nat
    BY <1>3, <1>4
  <2>2. QED BY <2>1 DEF OddFree
<1>5. QED BY <1>3, <1>4 DEF OddFree

\* An odd factor does not help a power of two to divide.
LEMMA OddFactor ==
  ASSUME NEW w \in Nat, w % 2 = 1
  PROVE  \A m \in OddFree : \A x, k \in Int :
           w * x = m * k => \E l \in Int : x = m * l
<1> DEFINE Fails(m, x, k) == w * x = m * k /\ ~ \E l \in Int : x = m * l
           Bad == {m \in OddFree : \E x, k \in Int : Fails(m, x, k)}
<1> SUFFICES ASSUME Bad # {} PROVE FALSE
  OBVIOUS
<1>1. PICK m \in Bad : \A n \in Bad : m <= n
  <2>1. Bad \in SUBSET Nat
    BY DEF OddFree
  <2> HIDE DEF Bad
  <2>2. QED BY <2>1, LeastMember
<1>2. PICK x \in Int, k \in Int : Fails(m, x, k)
  BY <1>1
<1>3. m # 1
  <2>1. x = 1 * x
    OBVIOUS
  <2>2. QED BY <1>2, <2>1
<1>4. PICK h \in OddFree : m = 2 * h
  BY <1>1, <1>3, HalfOddFree
<1>5. PICK u \in Nat : w = 2 * u + 1
  <2>1. w = 2 * (w \div 2) + 1 /\ w \div 2 \in Nat
    OBVIOUS
  <2>2. QED BY <2>1
<1> DEFINE y == h * k - u * x
<1>6. h \in Nat \ {0} /\ y \in Int
  <2>1. h \in Nat \ {0}
    BY DEF OddFree
  <2>2. QED BY <1>2, <1>5, <2>1
<1>7. x = 2 * y
  <2>1. (2 * u + 1) * x = 2 * h * k
    BY <1>2, <1>4, <1>5
  <2>2. (2 * u + 1) * x = 2 * (u * x) + x /\ 2 * h * k = 2 * (h * k)
    BY <1>6
  <2>3. u * x \in Int /\ h * k \in Int
    BY <1>6
  <2>4. QED BY <2>1, <2>2, <2>3
<1> HIDE DEF y
<1>8. w * y = h * k
  <2>1. w * (2 * y) = 2 * h * k
    BY <1>2, <1>4, <1>7
  <2>2. w * (2 * y) = 2 * (w * y) /\ 2 * h * k = 2 * (h * k)
    BY <1>6
  <2>3. w * y \in Int /\ h * k \in Int
    BY <1>6
  <2>4. QED BY <2>1, <2>2, <2>3
<1>9. PICK l \in Int : y = h * l
  <2>1. h \notin Bad
    <3>1. m \in Nat /\ h \in Nat /\ h < m
      BY <1>4, <1>6 DEF OddFree
    <3> HIDE DEF Bad
    <3>2. QED BY <1>1, <3>1
  <2>2. QED BY <1>6, <1>8, <2>1
<1>10. x = m * l
  BY <1>4, <1>6, <1>7, <1>9
<1>11. QED
  BY <1>2, <1>10

\* N is a power of two as Digits is.
LEMMA OddFactorOfN ==
  ASSUME NEW w \in Nat, w % 2 = 1, NEW x \in Int, NEW k \in Int, w * x = N * k
  PROVE  \E l \in Int : x = N * l
<1>1. Digits \in Nat /\ Digits >= 2
  BY DigitsAssumption
<1>2. Digits \in OddFree
  <2>1. ASSUME NEW d \in Nat, NEW e \in Nat, Digits = d * e
        PROVE  d = 1 \/ d % 2 = 0
    <3>1. d >= 1 /\ e >= 1
      BY <1>1, <2>1
    <3>2. d <= Digits
      BY <2>1, <3>1
    <3>3. Digits % d = 0
      BY <2>1, <3>1
    <3>4. CASE d = 1
      BY <3>4
    <3>5. CASE d # 1
      <4>1. d \in 2..Digits
        BY <1>1, <3>1, <3>2, <3>5
      <4>2. QED BY <3>3, <4>1, DigitsAssumption
    <3>6. QED BY <3>4, <3>5
  <2>2. Digits \in Nat \ {0}
    BY <1>1
  <2>3. QED BY <2>1, <2>2 DEF OddFree
<1>3. N * k = Digits * (Digits * k) /\ Digits * k \in Int
  BY <1>1 DEF N
<1>4. PICK y \in Int : x = Digits * y
  BY <1>2, <1>3, OddFactor
<1>5. w * y = Digits * k
  <2>1. w * (Digits * y) = Digits * (Digits * k)
    BY <1>3, <1>4
  <2>2. w * (Digits * y) = Digits * (w * y) /\ w * y \in Int
    BY <1>1
  <2>3. QED BY <1>1, <1>3, <2>1, <2>2
<1>6. PICK l \in Int : y = Digits * l
  BY <1>2, <1>5, OddFactor
<1>7. x = N * l
  BY <1>1, <1>4, <1>6 DEF N
<1>8. QED BY <1>7

\* Steps of an odd width come to every place.
LEMMA OddStepVisitsAll ==
  ASSUME NEW i \in Bytes, NEW w \in Bytes, w % 2 = 1
  PROVE  {(i + n * w) % N : n \in Bytes} = Bytes
<1>1. N \in Nat /\ N >= 1 /\ Bytes = 0..N - 1
  BY Sizes DEF Bytes
<1>2. i \in Nat /\ w \in Nat
  BY <1>1
<1> HIDE DEF N, Bytes
<1> DEFINE visit(n) == (i + n * w) % N
           T == {visit(n) : n \in Bytes}
           f == [n \in Bytes |-> visit(n)]
<1>3. ASSUME NEW m \in Bytes, NEW n \in Bytes, visit(m) = visit(n) PROVE m = n
  <2>1. m \in Nat /\ n \in Nat /\ m < N /\ n < N
    BY <1>1
  <2> DEFINE a == i + m * w
             b == i + n * w
  <2>2. a \in Nat /\ b \in Nat
    BY <1>2, <2>1
  <2>3. a - b = w * (m - n)
    BY <1>2, <2>1
  <2>4. a % N = b % N
    BY <1>3
  <2> HIDE DEF a, b
  <2>5. a = N * (a \div N) + (a % N) /\ b = N * (b \div N) + (b % N)
    BY <1>1, <2>2
  <2>6. a \div N \in Int /\ b \div N \in Int
    BY <1>1, <2>2
  <2> DEFINE k == (a \div N) - (b \div N)
  <2>7. w * (m - n) = N * k /\ k \in Int /\ m - n \in Int
    BY <1>1, <2>1, <2>2, <2>3, <2>4, <2>5, <2>6
  <2> HIDE DEF k
  <2>8. PICK l \in Int : m - n = N * l
    BY <1>2, <2>7, OddFactorOfN
  <2>9. l = 0
    <3>1. CASE l >= 1
      <4>1. N * l >= N
        BY <1>1, <3>1
      <4>2. QED BY <1>1, <2>1, <2>8, <4>1
    <3>2. CASE l <= -1
      <4>1. N * l <= -N
        BY <1>1, <3>2
      <4>2. QED BY <1>1, <2>1, <2>8, <4>1
    <3>3. QED BY <3>1, <3>2
  <2>10. QED BY <1>1, <2>1, <2>8, <2>9
<1>4. T \subseteq Bytes
  <2>1. \A n \in Bytes : i + n * w \in Int
    BY <1>1, <1>2
  <2>2. QED BY <2>1, Places
<1>5. f \in Bijection(Bytes, T)
  <2> HIDE DEF visit
  <2>1. QED BY <1>3 DEF Bijection, Injection, IsInjective, Surjection
<1>6. IsFiniteSet(Bytes)
  BY <1>1, FS_Interval
<1> HIDE DEF T, f
<1>7. Cardinality(T) = Cardinality(Bytes)
  BY <1>5, <1>6, FS_Bijection DEF ExistsBijection
<1>8. T = Bytes
  BY <1>4, <1>6, <1>7, FS_Subset
<1>9. QED BY <1>8 DEF T

\* Whatever was absorbed and dripped, the width of the step is odd, though it
\* wraps, so that the index i comes to every element of s.
THEOREM StepsVisitAll == Spec => []StepVisitsAll
<1>1. SoundInv => StepVisitsAll
  <2> SUFFICES ASSUME SoundInv PROVE StepVisitsAll
    OBVIOUS
  <2>1. q.i \in Bytes /\ q.w \in Bytes /\ q.w % 2 = 1
    BY DEF SoundInv, Sound, States
  <2>2. QED
    BY <2>1, OddStepVisitsAll DEF StepVisitsAll, Bytes
<1>2. QED
  BY <1>1, StateIsSound, PTL

-----------------------------------------------------------------------------
\* A permutation has every value once.
LEMMA OneToOne ==
  ASSUME NEW s \in Permutations, NEW u \in Bytes, NEW v \in Bytes, s[u] = s[v]
  PROVE  u = v
<1>1. IsFiniteSet(Bytes)
  BY FS_Interval, Sizes DEF Bytes
<1>2. s \in Surjection(Bytes, Bytes)
  BY DEF Surjection, Permutations
<1>3. s \in Injection(Bytes, Bytes)
  BY <1>1, <1>2, FS_SurjSameCardinalityImpliesInj
<1>4. QED
  BY <1>3 DEF Injection, IsInjective

\* The elements of the block, and what one of them, at the place p, does to s.
Elements == (0..Digits - 1) \cup {Stop}

Done(s, p, op) == IF op = Stop THEN s ELSE Swap(s, p, Half + op)

\* The permutations t that the block leads through, from base to s.
Trail(t, s, first, elements) ==
  /\ t \in [0..Len(elements) -> Permutations]
  /\ t[0] = first
  /\ t[Len(elements)] = s
  /\ \A n \in 1..Len(elements) : t[n] = Done(t[n - 1], n - 1, elements[n])

BlockInv ==
  /\ SoundInv
  /\ base \in Permutations
  /\ block \in Seq(Elements)
  /\ Len(block) = q.a
  /\ \E t : Trail(t, q.s, base, block)

LEMMA DonePermutes ==
  ASSUME NEW s \in Permutations, NEW p \in 0..Half - 1, NEW op \in Elements
  PROVE  Done(s, p, op) \in Permutations
<1>1. CASE op = Stop
  BY <1>1 DEF Done
<1>2. CASE op # Stop
  <2>1. op \in 0..Digits - 1 /\ p \in Bytes
    BY <1>2, Places DEF Elements
  <2>2. Half + op \in Bytes
    BY <2>1, Places
  <2>3. QED
    BY <1>2, <2>1, <2>2, SwapPermutes DEF Done
<1>3. QED
  BY <1>1, <1>2

\* One more element of the block is one more permutation of the trail.
LEMMA TrailGrows ==
  ASSUME NEW elements \in Seq(Elements), Len(elements) \in 0..Half - 1,
         NEW first, NEW s, NEW t, Trail(t, s, first, elements),
         NEW op \in Elements
  PROVE  \E t2 : Trail(t2, Done(s, Len(elements), op), first, Append(elements, op))
<1> DEFINE a == Len(elements)
           longer == Append(elements, op)
           new == Done(s, a, op)
           t2 == [n \in 0..a + 1 |-> IF n = a + 1 THEN new ELSE t[n]]
<1>1. /\ a \in Nat /\ Len(longer) = a + 1
      /\ \A n \in 1..a : longer[n] = elements[n]
      /\ longer[a + 1] = op
  OBVIOUS
<1>2. /\ t \in [0..a -> Permutations] /\ t[0] = first /\ t[a] = s
      /\ \A n \in 1..a : t[n] = Done(t[n - 1], n - 1, elements[n])
  BY DEF Trail
<1>3. new \in Permutations
  <2>1. s \in Permutations
    BY <1>1, <1>2
  <2>2. QED
    BY <2>1, DonePermutes
<1> HIDE DEF a, longer, new
<1>4. t2 \in [0..a + 1 -> Permutations]
  BY <1>1, <1>2, <1>3
<1>5. t2[0] = first /\ t2[a + 1] = new
  BY <1>1, <1>2
<1>6. ASSUME NEW n \in 1..a + 1 PROVE t2[n] = Done(t2[n - 1], n - 1, longer[n])
  <2>1. CASE n = a + 1
    <3>1. t2[n] = new /\ n - 1 = a /\ t2[n - 1] = s /\ longer[n] = op
      BY <1>1, <1>2, <2>1
    <3>2. QED
      BY <3>1 DEF new, a
  <2>2. CASE n # a + 1
    <3>1. n \in 1..a /\ t2[n] = t[n] /\ t2[n - 1] = t[n - 1] /\ longer[n] = elements[n]
      BY <1>1, <2>2
    <3>2. QED
      BY <1>2, <3>1
  <2>3. QED
    BY <2>1, <2>2
<1>7. Trail(t2, new, first, longer)
  <2> HIDE DEF t2
  <2>1. QED
    BY <1>1, <1>4, <1>5, <1>6 DEF Trail
<1>8. QED
  BY <1>7 DEF new, longer, a

\* The block starts where the state is.
LEMMA EmptyTrail ==
  ASSUME NEW s \in Permutations
  PROVE  <<>> \in Seq(Elements) /\ Len(<<>>) = 0 /\ \E t : Trail(t, s, s, <<>>)
<1>1. Trail([n \in 0..0 |-> s], s, s, <<>>)
  BY DEF Trail
<1>2. QED
  BY <1>1

LEMMA InitBlockInv == Init => BlockInv
<1> SUFFICES ASSUME Init PROVE BlockInv
  OBVIOUS
<1>1. SoundInv /\ base = q.s /\ block = <<>> /\ q.a = 0
  BY InitSound DEF Init, Initial
<1>2. base \in Permutations
  BY <1>1 DEF SoundInv, Sound
<1>3. QED
  BY <1>1, <1>2, EmptyTrail DEF BlockInv

\* An element is absorbed, after a shuffle when the block was full.
LEMMA ElementKeepsBlockInv ==
  ASSUME BlockInv, SoundInv', NEW op \in Elements, Absorbed(op),
         q'.a = Ready(q).a + 1, q'.s = Done(Ready(q).s, Ready(q).a, op)
  PROVE  BlockInv'
<1> DEFINE first == IF q.a = Half THEN Ready(q).s ELSE base
           elements == IF q.a = Half THEN <<>> ELSE block
<1>1. base' = first /\ block' = Append(elements, op)
  <2>1. Append(<<>>, op) = <<op>>
    OBVIOUS
  <2>2. QED
    BY <2>1 DEF Absorbed
<1>2. /\ Ready(q).a \in 0..Half - 1 /\ Ready(q).s \in Permutations
      /\ Ready(q).a = IF q.a = Half THEN 0 ELSE q.a
      /\ q.a # Half => Ready(q) = q
  BY ReadySound DEF BlockInv, SoundInv, Sound, Ready
<1>3. /\ first \in Permutations /\ elements \in Seq(Elements)
      /\ Len(elements) = Ready(q).a
      /\ \E t : Trail(t, Ready(q).s, first, elements)
  <2>1. CASE q.a = Half
    BY <1>2, <2>1, EmptyTrail
  <2>2. CASE q.a # Half
    BY <1>2, <2>2 DEF BlockInv
  <2>3. QED
    BY <2>1, <2>2
<1> HIDE DEF first, elements
<1>4. \E t : Trail(t, q'.s, first, Append(elements, op))
  BY <1>2, <1>3, TrailGrows
<1>5. Append(elements, op) \in Seq(Elements) /\ Len(Append(elements, op)) = q'.a
  BY <1>3, AppendProperties
<1>6. QED
  BY <1>1, <1>3, <1>4, <1>5 DEF BlockInv

LEMMA StepKeepsBlockInv == BlockInv /\ [Next]_vars => BlockInv'
<1> SUFFICES ASSUME BlockInv, [Next]_vars PROVE BlockInv'
  OBVIOUS
<1>0. q \in Sound /\ SoundInv'
  BY StepSound DEF BlockInv, SoundInv
<1>1. CASE Nibble
  <2>1. PICK x \in Nibbles : q' = AbsorbNibble(q, x) /\ Absorbed(x)
    BY <1>1 DEF Nibble
  <2>2. x \in 0..Digits - 1
    BY NibblesAssumption
  <2>3. x \in Elements /\ x # Stop
    BY <2>2, DigitsAssumption DEF Elements, Stop
  <2>4. q'.a = Ready(q).a + 1 /\ q'.s = Done(Ready(q).s, Ready(q).a, x)
    BY <1>0, <2>1, <2>2, <2>3, AbsorbNibbleSound DEF Done
  <2>5. QED
    BY <1>0, <2>1, <2>3, <2>4, ElementKeepsBlockInv
<1>2. CASE EndOfPart
  <2>1. q' = AbsorbStop(q) /\ Absorbed(Stop)
    BY <1>2 DEF EndOfPart
  <2>2. Stop \in Elements
    BY DEF Elements
  <2>3. q'.a = Ready(q).a + 1 /\ q'.s = Done(Ready(q).s, Ready(q).a, Stop)
    BY <1>0, <2>1, AbsorbStopSound DEF Done
  <2>4. QED
    BY <1>0, <2>1, <2>2, <2>3, ElementKeepsBlockInv
<1>3. CASE Byte
  <2>1. base' = q'.s /\ block' = <<>> /\ q'.a = 0
    BY <1>0, <1>3, DripSound DEF Byte
  <2>2. q'.s \in Permutations
    BY <1>0 DEF SoundInv, Sound
  <2>3. QED
    BY <1>0, <2>1, <2>2, EmptyTrail DEF BlockInv
<1>4. CASE UNCHANGED vars
  BY <1>4 DEF BlockInv, SoundInv, vars
<1>5. QED
  BY <1>1, <1>2, <1>3, <1>4 DEF Next

-----------------------------------------------------------------------------
\* The places of the lower half that the block has not reached are untouched.
LEMMA Untouched ==
  ASSUME NEW elements \in Seq(Elements), Len(elements) \in 0..Half,
         NEW s, NEW t, NEW first, Trail(t, s, first, elements)
  PROVE  \A n \in 0..Len(elements) : \A p \in 0..Half - 1 : p >= n => t[n][p] = first[p]
<1> DEFINE a == Len(elements)
           Good == {n \in 0..a : \A p \in 0..Half - 1 : p >= n => t[n][p] = first[p]}
<1>1. a \in Nat /\ a <= Half /\ Half \in Nat /\ Digits \in Nat
  BY Sizes
<1>2. /\ t \in [0..a -> Permutations] /\ t[0] = first
      /\ \A n \in 1..a : t[n] = Done(t[n - 1], n - 1, elements[n]) /\ elements[n] \in Elements
  BY DEF Trail
<1> HIDE DEF a
<1>3. 0 \in Good
  BY <1>1, <1>2
<1>4. ASSUME NEW n \in 0..a - 1, n \in Good PROVE n + 1 \in Good
  <2> DEFINE op == elements[n + 1]
  <2>1. n + 1 \in 1..a /\ (n + 1) - 1 = n /\ n \in 0..Half - 1
    BY <1>1
  <2>2. t[n + 1] = Done(t[n], n, op) /\ op \in Elements /\ t[n] \in [Bytes -> Bytes]
    BY <1>1, <1>2, <2>1 DEF Permutations
  <2>3. ASSUME NEW p \in 0..Half - 1, p >= n + 1 PROVE t[n + 1][p] = t[n][p]
    <3>1. CASE op = Stop
      BY <2>2, <3>1 DEF Done
    <3>2. CASE op # Stop
      <4>1. op \in 0..Digits - 1
        BY <2>2, <3>2 DEF Elements
      <4>2. /\ n \in Bytes /\ Half + op \in Bytes /\ p \in Bytes
            /\ p # n /\ p # Half + op
        <5>1. n \in Bytes /\ Half + op \in Bytes /\ p \in Bytes
          BY <2>1, <4>1, Places
        <5> HIDE DEF op, Half
        <5>2. QED
          BY <1>1, <2>1, <2>3, <4>1, <5>1
      <4>3. t[n + 1] = Swap(t[n], n, Half + op)
        BY <2>2, <3>2 DEF Done
      <4>4. Swap(t[n], n, Half + op)[p] = t[n][p]
        <5> DEFINE y == Half + op
                   s1 == t[n]
        <5>1. s1 \in [Bytes -> Bytes] /\ n \in Bytes /\ y \in Bytes /\ p \in Bytes /\ p # n /\ p # y
          BY <2>2, <4>2
        <5> HIDE DEF y, s1
        <5>2. Swap(s1, n, y)[p] = IF p = y THEN s1[n] ELSE IF p = n THEN s1[y] ELSE s1[p]
          BY <5>1, SwapType
        <5>3. QED
          BY <5>1, <5>2 DEF y, s1
      <4>5. QED
        BY <4>3, <4>4
    <3>3. QED
      BY <3>1, <3>2
  <2>4. ASSUME NEW p \in 0..Half - 1, p >= n + 1 PROVE t[n + 1][p] = first[p]
    <3>1. p >= n
      BY <1>1, <2>4
    <3>2. QED
      BY <1>4, <2>3, <2>4, <3>1
  <2>5. QED
    BY <2>1, <2>4
<1>5. \A n \in 0..a : n \in Good
  <2> HIDE DEF Good
  <2>1. QED
    BY <1>1, <1>3, <1>4, InductionUpTo
<1>6. QED
  BY <1>5 DEF a

\* To undo an element is one step back on the trail, and tells the element.
LEMMA UndoneIsBack ==
  ASSUME BlockInv, NEW t, Trail(t, q.s, base, block),
         NEW n \in 1..q.a, NEW rest
  PROVE  Undone([s |-> t[n], ops |-> rest], n - 1)
           = [s |-> t[n - 1], ops |-> <<block[n]>> \o rest]
<1> DEFINE op == block[n]
           p == n - 1
           back == t[n - 1]
<1>1. q.a \in 0..Half /\ Half \in Nat /\ N \in Nat /\ N = Half + Half /\ Digits \in 1..Half
  BY Sizes DEF BlockInv, SoundInv, Sound, States
<1>2. /\ block \in Seq(Elements) /\ Len(block) = q.a
      /\ t \in [0..q.a -> Permutations]
      /\ t[n] = Done(back, p, op)
  BY DEF BlockInv, Trail
<1>3. p \in 0..Half - 1 /\ p \in 0..q.a /\ p >= p
  BY <1>1
<1>4. back \in Permutations /\ op \in Elements /\ p \in Bytes
  BY <1>2, <1>3, Places
<1>5. back[p] = base[p]
  BY <1>1, <1>2, <1>3, Untouched
<1> DEFINE acc == [s |-> t[n], ops |-> rest]
<1>6. acc.s = t[n] /\ acc.ops = rest
  OBVIOUS
<1> HIDE DEF op, p, back, acc
<1>7. Undone(acc, p) =
        IF acc.s[p] = base[p] THEN [s |-> acc.s, ops |-> <<Stop>> \o acc.ops]
        ELSE LET y == CHOOSE v \in Half..N - 1 : acc.s[v] = base[p]
             IN [s |-> Swap(acc.s, p, y), ops |-> <<y - Half>> \o acc.ops]
  BY DEF Undone
<1>8. CASE op = Stop
  <2>1. t[n] = back
    BY <1>2, <1>8 DEF Done
  <2>2. QED
    BY <1>5, <1>6, <1>7, <1>8, <2>1 DEF op, p, back, acc
<1>9. CASE op # Stop
  <2> DEFINE y == Half + op
  <2>1. op \in 0..Digits - 1
    BY <1>4, <1>9 DEF Elements
  <2>2. y \in Bytes /\ y \in Half..N - 1 /\ y # p /\ y - Half = op
    <3>1. y \in Bytes
      BY <2>1, Places
    <3> HIDE DEF N, Half
    <3>2. QED
      BY <1>1, <1>3, <2>1, <3>1
  <2>3. t[n] = Swap(back, p, y)
    BY <1>2, <1>9 DEF Done
  <2> HIDE DEF y
  <2>4. back \in [Bytes -> Bytes] /\ t[n] \in [Bytes -> Bytes] /\ t[n] \in Permutations
    <3>1. t[n] \in Permutations
      BY <1>1, <1>2
    <3>2. QED
      BY <1>4, <3>1 DEF Permutations
  <2>5. \A v \in Bytes : t[n][v] = IF v = y THEN back[p] ELSE IF v = p THEN back[y] ELSE back[v]
    BY <1>4, <2>2, <2>3, <2>4, SwapType
  <2>6. t[n][p] # base[p]
    <3>1. t[n][p] = back[y]
      BY <1>4, <2>2, <2>5
    <3>2. back[y] # back[p]
      BY <1>4, <2>2, OneToOne
    <3>3. QED
      BY <1>5, <3>1, <3>2
  <2>7. t[n][y] = base[p]
    BY <1>5, <2>2, <2>5
  <2>8. \A v \in Half..N - 1 : t[n][v] = base[p] => v = y
    <3>1. \A v \in Half..N - 1 : v \in Bytes
      BY <1>1 DEF Bytes
    <3>2. QED
      BY <2>2, <2>4, <2>7, <3>1, OneToOne
  <2>9. (CHOOSE v \in Half..N - 1 : t[n][v] = base[p]) = y
    BY <2>2, <2>7, <2>8
  <2>10. Swap(t[n], p, y) = back
    <3>1. /\ Swap(t[n], p, y) \in [Bytes -> Bytes]
          /\ \A v \in Bytes : Swap(t[n], p, y)[v] =
               IF v = y THEN t[n][p] ELSE IF v = p THEN t[n][y] ELSE t[n][v]
      BY <1>4, <2>2, <2>4, SwapType
    <3>2. \A v \in Bytes : Swap(t[n], p, y)[v] = back[v]
      BY <1>4, <2>2, <2>5, <3>1
    <3>3. QED
      BY <2>4, <3>1, <3>2
  <2>11. Undone(acc, p) = [s |-> Swap(t[n], p, y), ops |-> <<y - Half>> \o rest]
    BY <1>6, <1>7, <2>6, <2>9
  <2>12. QED
    BY <2>2, <2>10, <2>11 DEF op, p, back, acc
<1>10. QED
  BY <1>8, <1>9

LEMMA LastElements ==
  ASSUME NEW S, NEW s \in Seq(S), NEW n \in 0..Len(s)
  PROVE  /\ SubSeq(s, Len(s) - n + 1, Len(s)) \in Seq(S)
         /\ Len(SubSeq(s, Len(s) - n + 1, Len(s))) = n
         /\ \A v \in 1..n : SubSeq(s, Len(s) - n + 1, Len(s))[v] = s[Len(s) - n + v]
<1> DEFINE m == Len(s) - n + 1
           tail == SubSeq(s, m, Len(s))
<1>1. Len(s) \in Nat /\ n \in Nat /\ n <= Len(s) /\ m \in Int /\ Len(s) - m + 1 = n
  OBVIOUS
<1>2. \A v \in m..Len(s) : s[v] \in S
  BY <1>1
<1> HIDE DEF m
<1>3. /\ tail \in Seq(S) /\ Len(tail) = IF m <= Len(s) THEN Len(s) - m + 1 ELSE 0
      /\ \A v \in 1..Len(s) - m + 1 : tail[v] = s[m + v - 1]
  BY <1>1, <1>2, SubSeqProperties
<1> HIDE DEF tail
<1>4. Len(tail) = n
  BY <1>1, <1>3
<1>5. \A v \in 1..n : tail[v] = s[m + v - 1]
  BY <1>1, <1>3
<1>6. \A v \in 1..n : m + v - 1 = Len(s) - n + v
  BY <1>1 DEF m
<1>7. QED
  BY <1>3, <1>4, <1>5, <1>6 DEF tail, m

\* What is left of the block in front of the last n elements, and these.
LEMMA RecoversBlock ==
  ASSUME BlockInv
  PROVE  Recovered = block
<1> DEFINE a == q.a
<1>1. a \in Nat /\ block \in Seq(Elements) /\ Len(block) = a
  BY Sizes DEF BlockInv, SoundInv, Sound, States
<1>2. PICK t : Trail(t, q.s, base, block)
  BY DEF BlockInv
<1> DEFINE tail(n) == SubSeq(block, a - n + 1, a)
           f == [n \in 0..a |-> [s |-> t[a - n], ops |-> tail(n)]]
           Def(g) == g = [n \in 0..a |->
                            IF n = 0 THEN [s |-> q.s, ops |-> <<>>]
                            ELSE Undone(g[n - 1], a - n)]
<1>3. f[0] = [s |-> q.s, ops |-> <<>>]
  <2>1. t[a] = q.s
    BY <1>1, <1>2 DEF Trail
  <2>2. tail(0) = <<>>
    BY <1>1
  <2>3. a - 0 = a /\ 0 \in 0..a
    BY <1>1
  <2> HIDE DEF tail
  <2>4. QED
    BY <2>1, <2>2, <2>3
<1>4. ASSUME NEW n \in 1..a PROVE f[n] = Undone(f[n - 1], a - n)
  <2> DEFINE m == a - n + 1
  <2>1. m \in 1..a /\ m - 1 = a - n /\ a - (n - 1) = m /\ n - 1 \in 0..a /\ n \in 0..a
    BY <1>1
  <2>2. <<block[m]>> \o tail(n - 1) = tail(n)
    <3>1. block[m] \in Elements
      BY <1>1, <2>1
    <3>0. ASSUME NEW k \in 0..a
          PROVE  /\ tail(k) \in Seq(Elements) /\ Len(tail(k)) = k
                 /\ \A v \in 1..k : tail(k)[v] = block[a - k + v]
      <4>1. tail(k) = SubSeq(block, Len(block) - k + 1, Len(block))
        BY <1>1
      <4>2. k \in 0..Len(block)
        BY <1>1
      <4> HIDE DEF tail
      <4>3. /\ tail(k) \in Seq(Elements) /\ Len(tail(k)) = k
            /\ \A v \in 1..k : tail(k)[v] = block[Len(block) - k + v]
        BY <1>1, <4>1, <4>2, LastElements
      <4>4. QED
        BY <1>1, <4>3
    <3>2. /\ tail(n - 1) \in Seq(Elements) /\ Len(tail(n - 1)) = n - 1
          /\ \A v \in 1..n - 1 : tail(n - 1)[v] = block[a - (n - 1) + v]
      BY <2>1, <3>0
    <3>3. /\ tail(n) \in Seq(Elements) /\ Len(tail(n)) = n
          /\ \A v \in 1..n : tail(n)[v] = block[a - n + v]
      BY <2>1, <3>0
    <3>4. <<block[m]>> \in Seq(Elements) /\ Len(<<block[m]>>) = 1 /\ <<block[m]>>[1] = block[m]
      BY <3>1
    <3> DEFINE joined == <<block[m]>> \o tail(n - 1)
    <3> HIDE DEF tail
    <3>5. /\ joined \in Seq(Elements) /\ Len(joined) = 1 + (n - 1)
          /\ \A v \in 1..1 + (n - 1) : joined[v] =
               IF v <= 1 THEN <<block[m]>>[v] ELSE tail(n - 1)[v - 1]
      <4> HIDE DEF m
      <4>1. QED
        BY <3>2, <3>4, ConcatProperties
    <3> HIDE DEF joined
    <3>6. ASSUME NEW v \in 1..n PROVE joined[v] = tail(n)[v]
      <4>0. v \in 1..1 + (n - 1)
        BY <2>1
      <4>1. CASE v = 1
        <5>1. joined[v] = block[m]
          BY <3>4, <3>5, <4>0, <4>1
        <5>2. a - n + v = m
          BY <1>1, <4>1
        <5>3. QED
          BY <3>3, <5>1, <5>2
      <4>2. CASE v # 1
        <5>1. v - 1 \in 1..n - 1 /\ a - (n - 1) + (v - 1) = a - n + v /\ ~ (v <= 1)
          BY <1>1, <2>1, <4>2
        <5>2. joined[v] = tail(n - 1)[v - 1]
          BY <3>5, <4>0, <5>1
        <5>3. tail(n - 1)[v - 1] = block[a - n + v]
          BY <3>2, <5>1
        <5>4. QED
          BY <3>3, <5>2, <5>3
      <4>3. QED
        BY <4>1, <4>2
    <3>7. Len(joined) = Len(tail(n))
      BY <3>3, <3>5
    <3>8. joined = tail(n)
      BY <3>3, <3>5, <3>6, <3>7
    <3>9. QED
      BY <3>8 DEF joined
  <2>3. f[n] = [s |-> t[m - 1], ops |-> tail(n)]
    BY <2>1
  <2>4. f[n - 1] = [s |-> t[m], ops |-> tail(n - 1)]
    BY <2>1
  <2> HIDE DEF f, tail, m
  <2>5. Undone([s |-> t[m], ops |-> tail(n - 1)], m - 1)
          = [s |-> t[m - 1], ops |-> <<block[m]>> \o tail(n - 1)]
    BY <1>2, <2>1, UndoneIsBack
  <2>6. QED
    BY <2>1, <2>2, <2>3, <2>4, <2>5
<1>5. Def(f)
  <2>1. \A n \in 0..a : f[n] = IF n = 0 THEN [s |-> q.s, ops |-> <<>>]
                              ELSE Undone(f[n - 1], a - n)
    <3> HIDE DEF f
    <3>1. QED
      BY <1>1, <1>3, <1>4
  <2>2. f = [n \in 0..a |-> f[n]]
    OBVIOUS
  <2> HIDE DEF f
  <2>3. QED
    BY <2>1, <2>2
<1> DEFINE back == CHOOSE g : Def(g)
<1>6. Def(back)
  <2> HIDE DEF Def, f
  <2>1. QED
    BY <1>5
<1>7. Recovered = back[a].ops
  BY DEF Recovered
<1> HIDE DEF back
<1>8. /\ back[0] = [s |-> q.s, ops |-> <<>>]
      /\ \A n \in 1..a : back[n] = Undone(back[n - 1], a - n)
  <2>1. 0 \in 0..a /\ \A n \in 1..a : n \in 0..a /\ n # 0
    BY <1>1
  <2>2. QED
    BY <1>6, <2>1
<1>9. back[a] = f[a]
  <2> DEFINE Good == {n \in 0..a : back[n] = f[n]}
  <2>1. 0 \in Good
    BY <1>1, <1>3, <1>8
  <2>2. ASSUME NEW n \in 0..a - 1, n \in Good PROVE n + 1 \in Good
    <3>1. n + 1 \in 1..a /\ (n + 1) - 1 = n /\ n + 1 \in 0..a /\ back[n] = f[n]
      BY <1>1, <2>2
    <3> HIDE DEF f
    <3>2. QED
      BY <1>4, <1>8, <3>1
  <2> HIDE DEF Good, f
  <2>3. \A n \in 0..a : n \in Good
    BY <1>1, <2>1, <2>2, InductionUpTo
  <2>4. QED
    BY <1>1, <2>3 DEF Good
<1>10. tail(a) = block
  BY <1>1
<1>11. f[a].ops = tail(a)
  <2>1. a \in 0..a
    BY <1>1
  <2> HIDE DEF tail
  <2>2. QED
    BY <2>1
<1>12. QED
  BY <1>7, <1>9, <1>10, <1>11

\* Until the next shuffle the permutation tells what was absorbed and where the
\* parts end: no two splits of a key and a nonce are confused in a block.
THEOREM BlocksAreDistinguished == Spec => []BlockIsDistinguished
<1>1. BlockInv => BlockIsDistinguished
  BY RecoversBlock DEF BlockIsDistinguished
<1>2. QED
  BY <1>1, InitBlockInv, StepKeepsBlockInv, PTL DEF Spec

-----------------------------------------------------------------------------
\* The whole operations on strings of bytes.
LEMMA NibblesOfByte ==
  ASSUME NEW b \in Bytes
  PROVE  b % Digits \in 0..Digits - 1 /\ b \div Digits \in 0..Digits - 1
<1>1. Digits \in Nat /\ Digits >= 1 /\ b \in Nat /\ b < Digits * Digits
  BY DigitsAssumption, Sizes, Places DEF Bytes, N
<1> DEFINE high == b \div Digits
           low == b % Digits
<1>2. high \in Nat /\ low \in 0..Digits - 1 /\ b = Digits * high + low
  BY <1>1
<1> HIDE DEF high, low
<1>3. ASSUME high >= Digits PROVE FALSE
  <2>1. Digits * high >= Digits * Digits
    BY <1>1, <1>2, <1>3
  <2>2. Digits * high \in Nat /\ Digits * Digits \in Nat
    BY <1>1, <1>2
  <2>3. QED
    BY <1>1, <1>2, <2>1, <2>2
<1>4. high \in 0..Digits - 1
  BY <1>1, <1>2, <1>3
<1>5. QED
  BY <1>2, <1>4 DEF high, low

LEMMA AbsorbByteSound ==
  ASSUME NEW r \in Sound, NEW b \in Bytes
  PROVE  AbsorbByte(r, b) \in Sound
BY NibblesOfByte, AbsorbNibbleSound DEF AbsorbByte

LEMMA AbsorbSound ==
  ASSUME NEW r \in Sound, NEW message \in Seq(Bytes)
  PROVE  Absorb(r, message) \in Sound
<1> DEFINE m == Len(message)
           step == [v \in 1..m |-> [r1 \in Sound |-> AbsorbByte(r1, message[v])]]
           Def(g) == g = [v \in 0..m |->
                            IF v = 0 THEN r ELSE AbsorbByte(g[v - 1], message[v])]
<1>1. m \in Nat /\ \A v \in 1..m : message[v] \in Bytes
  OBVIOUS
<1>2. step \in [1..m -> [Sound -> Sound]]
  BY <1>1, AbsorbByteSound
<1>3. PICK f : IsLoop(f, m, Sound, r, step)
  <2> HIDE DEF step, m
  <2>1. QED
    BY <1>1, <1>2, LoopExists
<1>4. Def(f)
  <2> HIDE DEF m
  <2>1. f \in [0..m -> Sound] /\ f[0] = r /\ \A v \in 1..m : f[v] = step[v][f[v - 1]]
    <3> HIDE DEF step
    <3>1. QED
      BY <1>3 DEF IsLoop
  <2>2. ASSUME NEW v \in 1..m PROVE f[v] = AbsorbByte(f[v - 1], message[v])
    <3>1. f[v - 1] \in Sound
      BY <1>1, <2>1
    <3>2. step[v][f[v - 1]] = AbsorbByte(f[v - 1], message[v])
      BY <3>1
    <3>3. QED
      BY <2>1, <3>2
  <2>3. QED
    BY <1>1, <2>1, <2>2
<1> DEFINE after == CHOOSE g : Def(g)
<1>5. Def(after)
  <2> HIDE DEF Def
  <2>1. QED
    BY <1>4
<1>6. Absorb(r, message) = after[m]
  BY DEF Absorb
<1> HIDE DEF after, m
<1>7. after[0] = r /\ \A v \in 1..m : after[v] = AbsorbByte(after[v - 1], message[v])
  BY <1>1, <1>5
<1> DEFINE Good == {v \in 0..m : after[v] \in Sound}
<1>8. 0 \in Good
  BY <1>1, <1>7
<1>9. ASSUME NEW v \in 0..m - 1, v \in Good PROVE v + 1 \in Good
  <2>1. v + 1 \in 1..m /\ (v + 1) - 1 = v /\ v + 1 \in 0..m
    BY <1>1
  <2>2. QED
    BY <1>1, <1>7, <1>9, <2>1, AbsorbByteSound
<1>10. \A v \in 0..m : v \in Good
  <2> HIDE DEF Good
  <2>1. QED
    BY <1>1, <1>8, <1>9, InductionUpTo
<1>11. QED
  BY <1>1, <1>6, <1>10

LEMMA SqueezeType ==
  ASSUME NEW r \in Sound, NEW length \in Nat
  PROVE  Squeeze(r, length) \in [1..length -> Bytes]
<1> DEFINE start == IF r.a > 0 THEN Shuffle(r) ELSE r
           step == [v \in 1..length |-> [r1 \in Sound |-> Drip(r1)]]
           Def(g) == g = [v \in 0..length |-> IF v = 0 THEN start ELSE Drip(g[v - 1])]
<1>1. start \in Sound
  BY ShuffleSound
<1>2. step \in [1..length -> [Sound -> Sound]]
  BY DripSound
<1>3. PICK f : IsLoop(f, length, Sound, start, step)
  <2> HIDE DEF step, start
  <2>1. QED
    BY <1>1, <1>2, LoopExists
<1>4. Def(f)
  <2> HIDE DEF start
  <2>1. f \in [0..length -> Sound] /\ f[0] = start /\ \A v \in 1..length : f[v] = step[v][f[v - 1]]
    <3> HIDE DEF step
    <3>1. QED
      BY <1>3 DEF IsLoop
  <2>2. ASSUME NEW v \in 1..length PROVE f[v] = Drip(f[v - 1])
    <3>1. f[v - 1] \in Sound
      BY <2>1
    <3>2. step[v][f[v - 1]] = Drip(f[v - 1])
      BY <3>1
    <3>3. QED
      BY <2>1, <3>2
  <2>3. QED
    BY <2>1, <2>2
<1> DEFINE after == CHOOSE g : Def(g)
<1>5. Def(after)
  <2> HIDE DEF Def
  <2>1. QED
    BY <1>4
<1>6. Squeeze(r, length) = [v \in 1..length |-> after[v].z]
  BY DEF Squeeze
<1> HIDE DEF after, start
<1>7. after[0] = start /\ \A v \in 1..length : after[v] = Drip(after[v - 1])
  BY <1>5
<1> DEFINE Good == {v \in 0..length : after[v] \in Sound}
<1>8. 0 \in Good
  BY <1>1, <1>7
<1>9. ASSUME NEW v \in 0..length - 1, v \in Good PROVE v + 1 \in Good
  <2>1. v + 1 \in 1..length /\ (v + 1) - 1 = v /\ v + 1 \in 0..length
    OBVIOUS
  <2>2. QED
    BY <1>7, <1>9, <2>1, DripSound
<1>10. \A v \in 0..length : v \in Good
  <2> HIDE DEF Good
  <2>1. QED
    BY <1>8, <1>9, InductionUpTo
<1>11. \A v \in 1..length : after[v].z \in Bytes
  BY <1>10 DEF Sound, States
<1>12. QED
  BY <1>6, <1>11

\* What is added modulo N is taken away again.
LEMMA AddedAndTaken ==
  ASSUME NEW x \in Bytes, NEW y \in Bytes
  PROVE  (x + y) % N \in Bytes /\ (((x + y) % N) - y) % N = x
<1>1. N \in Nat /\ N >= 1 /\ x \in 0..N - 1 /\ y \in 0..N - 1
  BY Sizes DEF Bytes
<1> HIDE DEF N
<1>2. CASE x + y < N
  BY <1>1, <1>2 DEF Bytes
<1>3. CASE ~ (x + y < N)
  <2>1. (x + y) % N = x + y - N
    BY <1>1, <1>3
  <2>2. (x - N) % N = x
    BY <1>1
  <2>3. QED
    BY <1>1, <1>3, <2>1, <2>2 DEF Bytes
<1>4. QED
  BY <1>2, <1>3

\* spritz_decrypt with the nonce and the key of spritz_encrypt restores every
\* message: both start the same stream of bytes, which only depends on these.
THEOREM DecryptRestores ==
  ASSUME NEW message \in Seq(Bytes), NEW nonce1 \in Seq(Bytes), NEW key \in Seq(Bytes)
  PROVE  Decrypt(Encrypt(message, nonce1, key), nonce1, key) = message
<1> DEFINE m == Len(message)
           stream == Squeeze(Keyed(nonce1, key), m)
           c == [v \in 1..m |-> (message[v] + stream[v]) % N]
<1>1. m \in Nat /\ message \in [1..m -> Bytes]
  OBVIOUS
<1>2. Keyed(nonce1, key) \in Sound
  <2>1. Initial \in Sound
    BY InitialSound
  <2>2. QED
    BY <2>1, AbsorbSound, AbsorbStopSound DEF Keyed
<1>3. stream \in [1..m -> Bytes]
  BY <1>1, <1>2, SqueezeType
<1>4. Encrypt(message, nonce1, key) = c
  BY DEF Encrypt
<1> HIDE DEF stream, m
<1>5. Len(c) = m
  BY <1>1
<1>6. Decrypt(c, nonce1, key) = [v \in 1..m |-> (c[v] - stream[v]) % N]
  BY <1>5 DEF Decrypt, stream
<1>7. ASSUME NEW v \in 1..m PROVE (c[v] - stream[v]) % N = message[v]
  BY <1>1, <1>3, AddedAndTaken
<1>8. message = [v \in 1..m |-> message[v]]
  BY <1>1
<1>9. QED
  BY <1>4, <1>6, <1>7, <1>8
=============================================================================
