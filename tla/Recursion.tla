------------------------------ MODULE Recursion ------------------------------
(***************************************************************************)
(* Induction over the natural numbers, stated with sets in place of         *)
(* predicates so that every prover can use it, and what it gives for the    *)
(* loops of the code: a function defined by recursion over 0..m exists.     *)
(***************************************************************************)
EXTENDS Integers, TLAPS, WellFoundedInduction

\* A set of natural numbers with a member has a least one.
LEMMA LeastMember ==
  ASSUME NEW T \in SUBSET Nat, T # {}
  PROVE  \E m \in T : \A n \in T : m <= n
<1>1. PICK m \in T : \A n \in T : <<n, m>> \notin OpToRel(<, Nat)
  BY NatLessThanWellFounded, WFMin
<1>2. \A n \in T : ~ (n < m)
  BY <1>1 DEF OpToRel
<1>3. QED
  BY <1>2

\* Induction over 0..m.
LEMMA InductionUpTo ==
  ASSUME NEW m \in Nat, NEW S, 0 \in S,
         \A n \in 0..m - 1 : n \in S => n + 1 \in S
  PROVE  \A n \in 0..m : n \in S
<1>1. SUFFICES ASSUME NEW k \in 0..m, k \notin S PROVE FALSE
  OBVIOUS
<1>2. PICK least \in (0..m) \ S : \A n \in (0..m) \ S : least <= n
  <2>1. (0..m) \ S \in SUBSET Nat /\ (0..m) \ S # {}
    BY <1>1
  <2>2. QED
    BY <2>1, LeastMember
<1>3. least - 1 \in 0..m - 1 /\ least - 1 \in S
  BY <1>2
<1>4. QED
  BY <1>2, <1>3

\* The results f of the m rounds of a loop that starts with x.
IsLoop(f, m, S, x, step) ==
  /\ f \in [0..m -> S]
  /\ f[0] = x
  /\ \A n \in 1..m : f[n] = step[n][f[n - 1]]

\* A loop of m rounds, each a function of the round and of the result before,
\* has a result after every round.
LEMMA LoopExists ==
  ASSUME NEW m \in Nat, NEW S, NEW x \in S, NEW step \in [1..m -> [S -> S]]
  PROVE  \E f : IsLoop(f, m, S, x, step)
<1> USE DEF IsLoop
<1> DEFINE Runs(n, f) == IsLoop(f, n, S, x, step)
           Good == {n \in 0..m : \E f : Runs(n, f)}
<1>1. 0 \in Good
  <2>1. Runs(0, [k \in 0..0 |-> x])
    OBVIOUS
  <2> HIDE DEF Runs
  <2>2. QED
    BY <2>1
<1>2. ASSUME NEW n \in 0..m - 1, n \in Good PROVE n + 1 \in Good
  <2>1. PICK f : Runs(n, f)
    BY <1>2
  <2>2. f[n] \in S /\ step[n + 1][f[n]] \in S
    BY <2>1
  <2> DEFINE g == [k \in 0..n + 1 |-> IF k = n + 1 THEN step[n + 1][f[n]] ELSE f[k]]
  <2>3. g \in [0..n + 1 -> S]
    BY <2>1, <2>2
  <2>4. g[0] = x
    BY <2>1
  <2>5. ASSUME NEW k \in 1..n + 1 PROVE g[k] = step[k][g[k - 1]]
    <3>1. CASE k = n + 1
      <4>1. g[k] = step[n + 1][f[n]] /\ g[k - 1] = f[n]
        BY <3>1
      <4>2. QED
        BY <4>1, <3>1
    <3>2. CASE k # n + 1
      <4>1. k \in 1..n /\ g[k] = f[k] /\ g[k - 1] = f[k - 1]
        BY <3>2
      <4>2. QED
        BY <4>1, <2>1
    <3>3. QED
      BY <3>1, <3>2
  <2>6. Runs(n + 1, g)
    BY <2>3, <2>4, <2>5
  <2> HIDE DEF Runs, g
  <2>7. n + 1 \in 0..m
    OBVIOUS
  <2>8. QED
    BY <2>6, <2>7
<1>3. m \in Good
  <2> HIDE DEF Good
  <2>1. \A n \in 0..m : n \in Good
    BY <1>1, <1>2, InductionUpTo
  <2>2. QED
    BY <2>1
<1>4. QED
  BY <1>3
=============================================================================
