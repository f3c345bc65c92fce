-------------------------- MODULE Encodings_proofs --------------------------
(***************************************************************************)
(* Theorems about prv_assign_data (module Storage) and about the packing    *)
(* loop (module WifiList), for every buffer, input and scan result.         *)
(***************************************************************************)
EXTENDS MCEncodings, Recursion, SequenceTheorems

Strings == Seq(Characters \cup {NUL})

\* The inputs of prv_assign_data are strings of characters and NULs.
InputTypeOK == input \in Strings

LEMMA InputIsString == Spec => []InputTypeOK
<1>1. Init => InputTypeOK
  BY DEF Init, InputTypeOK, Strings
<1>2. InputTypeOK /\ [Next]_vars => InputTypeOK'
  BY DEF InputTypeOK, Strings, Next, vars, ReceiveByte, FindNetwork, FillPacket
<1>3. QED
  BY <1>1, <1>2, PTL DEF Spec

-----------------------------------------------------------------------------
\* Three bytes behind the kept input are NUL.
LEMMA StoredInput ==
  ASSUME NEW s \in Strings
  PROVE  /\ Kept(s) \in 0..Capacity - 3
         /\ Kept(s) <= Len(s)
         /\ \A p \in 0..Kept(s) - 1 : Stored(s)[p] = s[p + 1]
         /\ \A p \in Kept(s)..Capacity - 1 : Stored(s)[p] = NUL
<1>1. Len(s) \in Nat
  BY DEF Strings
<1>2. Kept(s) \in 0..Capacity - 3 /\ Kept(s) <= Len(s)
  BY <1>1, CapacityAssumption DEF Kept
<1>3. \A p \in 0..Capacity - 1 :
         Stored(s)[p] = IF p < Kept(s) THEN s[p + 1] ELSE NUL
  BY CapacityAssumption DEF Stored, Indices
<1>4. QED
  BY <1>2, <1>3, CapacityAssumption

\* strlen finds the first NUL at or behind p when there is one in the buffer.
LEMMA EndOfString ==
  ASSUME NEW buffer, NEW p \in Nat, NEW q \in Nat, p <= q, q < Capacity, buffer[q] = NUL
  PROVE  /\ EndOf(buffer, p) \in p..q
         /\ buffer[EndOf(buffer, p)] = NUL
         /\ \A r \in p..EndOf(buffer, p) - 1 : buffer[r] # NUL
<1> DEFINE Found(e) == /\ e = Capacity \/ buffer[e] = NUL
                       /\ \A r \in p..e - 1 : buffer[r] # NUL
           ends == {e \in p..q : buffer[e] = NUL}
<1>1. PICK e \in ends : \A r \in ends : e <= r
  <2>1. ends \in SUBSET Nat /\ q \in ends
    OBVIOUS
  <2> HIDE DEF ends
  <2>2. QED
    BY <2>1, LeastMember
<1>2. e \in p..Capacity /\ Found(e)
  BY <1>1, CapacityAssumption
<1>3. EndOf(buffer, p) \in p..Capacity /\ Found(EndOf(buffer, p))
  <2>1. EndOf(buffer, p) = CHOOSE x \in p..Capacity : Found(x)
    BY DEF EndOf
  <2> HIDE DEF Found
  <2>2. QED
    BY <1>2, <2>1
<1>4. EndOf(buffer, p) <= q
  BY <1>3, CapacityAssumption
<1>5. QED
  BY <1>3, <1>4, CapacityAssumption

\* The three strings lie one behind the other, and end at the latest at the three
\* NULs behind the kept input.
StringAt(buffer, from, limit) ==
  LET end == EndOf(buffer, from)
  IN /\ from \in 0..limit /\ end \in from..limit
     /\ buffer[end] = NUL
     /\ \A r \in from..end - 1 : buffer[r] # NUL

LEMMA ThreeStrings ==
  ASSUME NEW s \in Strings
  PROVE  LET buffer == Stored(s)
         IN /\ StringAt(buffer, First, Kept(s))
            /\ StringAt(buffer, Second(buffer), Kept(s) + 1)
            /\ StringAt(buffer, Third(buffer), Kept(s) + 2)
<1> DEFINE buffer == Stored(s)
           k == Kept(s)
<1>1. /\ k \in Nat /\ k + 2 < Capacity
      /\ buffer[k] = NUL /\ buffer[k + 1] = NUL /\ buffer[k + 2] = NUL
  BY StoredInput, CapacityAssumption
<1> HIDE DEF buffer, k
<1>2. StringAt(buffer, First, k)
  BY <1>1, CapacityAssumption, EndOfString DEF StringAt, First
<1>3. StringAt(buffer, Second(buffer), k + 1)
  <2>1. Second(buffer) \in 0..k + 1
    BY <1>1, <1>2 DEF StringAt, Second, First
  <2>2. QED
    BY <1>1, <2>1, CapacityAssumption, EndOfString DEF StringAt
<1>4. StringAt(buffer, Third(buffer), k + 2)
  <2>1. Third(buffer) \in 0..k + 2
    BY <1>1, <1>3 DEF StringAt, Third
  <2>2. QED
    BY <1>1, <2>1, CapacityAssumption, EndOfString DEF StringAt
<1>5. QED
  BY <1>2, <1>3, <1>4 DEF buffer, k

\* prv_assign_data never reads outside of the buffer, for every length of the
\* buffer and everything an app may send.
THEOREM StorageIsSafe == Spec => []ReadsInsideStorage
<1>1. InputTypeOK => ReadsInsideStorage
  <2> SUFFICES ASSUME InputTypeOK, NEW i \in 1..3
      PROVE  /\ Starts(Stored(input))[i] \in Indices
             /\ EndOf(Stored(input), Starts(Stored(input))[i]) \in Indices
    BY DEF ReadsInsideStorage
  <2> DEFINE buffer == Stored(input)
  <2>1. /\ Kept(input) \in 0..Capacity - 3
        /\ StringAt(buffer, First, Kept(input))
        /\ StringAt(buffer, Second(buffer), Kept(input) + 1)
        /\ StringAt(buffer, Third(buffer), Kept(input) + 2)
    BY StoredInput, ThreeStrings DEF InputTypeOK
  <2> HIDE DEF buffer
  <2>2. /\ Starts(buffer)[1] = First
        /\ Starts(buffer)[2] = Second(buffer)
        /\ Starts(buffer)[3] = Third(buffer)
    BY DEF Starts
  <2>3. ASSUME NEW from, NEW limit \in 0..Capacity - 1, StringAt(buffer, from, limit)
        PROVE  from \in Indices /\ EndOf(buffer, from) \in Indices
    BY <2>3, CapacityAssumption DEF StringAt, Indices
  <2>4. QED
    <3>1. CASE i = 1
      BY <3>1, <2>1, <2>2, <2>3, CapacityAssumption DEF buffer
    <3>2. CASE i = 2
      BY <3>2, <2>1, <2>2, <2>3, CapacityAssumption DEF buffer
    <3>3. CASE i = 3
      BY <3>3, <2>1, <2>2, <2>3, CapacityAssumption DEF buffer
    <3>4. QED
      BY <3>1, <3>2, <3>3
<1>2. QED
  BY <1>1, InputIsString, PTL

\* What is saved to flash, read back, fills the buffer with the same bytes.
THEOREM ReloadIsFaithful == Spec => []ReloadKeepsTexts
<1>1. ASSUME NEW s \in Strings PROVE Stored(Saved(s)) = Stored(s)
  <2>1. Kept(s) \in 0..Capacity - 3
    BY StoredInput
  <2>2. /\ Len(Saved(s)) = Kept(s)
        /\ \A n \in 1..Kept(s) : Saved(s)[n] = Stored(s)[n - 1]
    BY <2>1 DEF Saved
  <2>3. Kept(Saved(s)) = Kept(s)
    BY <2>1, <2>2, CapacityAssumption DEF Kept
  <2>4. ASSUME NEW p \in Indices
        PROVE  (IF p < Kept(s) THEN Saved(s)[p + 1] ELSE NUL)
                 = (IF p < Kept(s) THEN s[p + 1] ELSE NUL)
    <3>1. CASE p < Kept(s)
      <4>1. p + 1 \in 1..Kept(s) /\ p \in 0..Kept(s) - 1
        BY <3>1, <2>1, CapacityAssumption DEF Indices
      <4>2. Saved(s)[p + 1] = Stored(s)[p]
        BY <4>1, <2>2
      <4>3. QED
        BY <3>1, <4>1, <4>2, StoredInput
    <3>2. CASE ~(p < Kept(s))
      BY <3>2
    <3>3. QED
      BY <3>1, <3>2
  <2>5. QED
    BY <2>3, <2>4 DEF Stored
<1>2. InputTypeOK => ReloadKeepsTexts
  BY <1>1 DEF InputTypeOK, ReloadKeepsTexts
<1>3. QED
  BY <1>2, InputIsString, PTL

\* The string w is what the buffer holds at from..to - 1.
Window(w, buffer, from, to) ==
  /\ w \in Strings
  /\ Len(w) = to - from
  /\ \A n \in 1..to - from : w[n] = buffer[from + n - 1]

LEMMA AdjacentWindows ==
  ASSUME NEW buffer, NEW x \in Nat, NEW y \in Nat, NEW z \in Nat, x <= y, y <= z,
         NEW u, NEW w, Window(u, buffer, x, y), Window(w, buffer, y, z)
  PROVE  Window(u \o w, buffer, x, z)
<1>1. /\ u \in Strings /\ Len(u) = y - x
      /\ w \in Strings /\ Len(w) = z - y
  BY DEF Window
<1>2. /\ u \o w \in Strings /\ Len(u \o w) = Len(u) + Len(w)
      /\ \A n \in 1..Len(u) + Len(w) :
           (u \o w)[n] = IF n <= Len(u) THEN u[n] ELSE w[n - Len(u)]
  BY <1>1, ConcatProperties DEF Strings
<1>3. ASSUME NEW n \in 1..z - x PROVE (u \o w)[n] = buffer[x + n - 1]
  <2>1. n \in 1..Len(u) + Len(w)
    BY <1>1
  <2>2. CASE n <= y - x
    <3>1. (u \o w)[n] = u[n]
      BY <1>1, <1>2, <2>1, <2>2
    <3>2. QED
      BY <3>1, <2>2 DEF Window
  <2>3. CASE ~ (n <= y - x)
    <3>1. n - (y - x) \in 1..z - y /\ y + (n - (y - x)) - 1 = x + n - 1
      BY <2>3
    <3>2. ~ (n <= Len(u)) /\ n - Len(u) = n - (y - x)
      BY <1>1, <2>3
    <3>3. (u \o w)[n] = w[n - (y - x)]
      BY <1>2, <2>1, <3>2
    <3>4. w[n - (y - x)] = buffer[y + (n - (y - x)) - 1]
      BY <3>1 DEF Window
    <3>5. QED
      BY <3>1, <3>3, <3>4
  <2>4. QED
    BY <2>2, <2>3
<1>4. Len(u \o w) = z - x
  BY <1>1, <1>2
<1>5. QED
  BY <1>2, <1>3, <1>4 DEF Window

LEMMA NulWindow ==
  ASSUME NEW buffer, NEW p \in Nat, buffer[p] = NUL
  PROVE  Window(<<NUL>>, buffer, p, p + 1)
<1>1. <<NUL>> \in Strings /\ Len(<<NUL>>) = (p + 1) - p /\ <<NUL>>[1] = NUL
  BY DEF Strings
<1>2. \A n \in 1..(p + 1) - p : n = 1 /\ p + n - 1 = p
  OBVIOUS
<1>3. QED
  BY <1>1, <1>2 DEF Window

\* The text read through a pointer is what lies between the pointer and the NUL.
LEMMA TextIsWindow ==
  ASSUME NEW s \in Strings, NEW p, NEW limit \in 0..Capacity - 1,
         StringAt(Stored(s), p, limit)
  PROVE  LET text == Text(Stored(s), p)
         IN /\ Window(text, Stored(s), p, EndOf(Stored(s), p))
            /\ \A n \in 1..Len(text) : text[n] # NUL
<1> DEFINE buffer == Stored(s)
           end == EndOf(buffer, p)
<1>1. /\ p \in Indices /\ end \in p..limit /\ buffer[end] = NUL
      /\ \A r \in p..end - 1 : buffer[r] # NUL
  BY CapacityAssumption DEF StringAt, Indices
<1>2. \A r \in Indices : buffer[r] \in Characters \cup {NUL}
  <2>1. Kept(s) \in 0..Capacity - 3 /\ Kept(s) <= Len(s)
    BY StoredInput
  <2>2. \A n \in 1..Len(s) : s[n] \in Characters \cup {NUL}
    BY DEF Strings
  <2>3. QED
    BY <2>1, <2>2, CapacityAssumption DEF Stored, Indices
<1> HIDE DEF buffer, end
<1>3. CASE buffer[p] = NUL
  <2>1. end = p
    BY <1>1, <1>3 DEF Indices
  <2>2. Text(buffer, p) = <<>>
    BY <1>3 DEF Text, Pointer
  <2>3. QED
    BY <2>1, <2>2, <1>1 DEF Strings, Indices, buffer, end, Window
<1>4. CASE buffer[p] # NUL
  <2>1. Text(buffer, p) = [n \in 1..end - p |-> buffer[p + n - 1]]
    BY <1>1, <1>4, NullAssumption DEF Text, Pointer, end
  <2>2. end - p \in Nat
    BY <1>1 DEF Indices
  <2>3. \A n \in 1..end - p : p + n - 1 \in p..end - 1 /\ p + n - 1 \in Indices
    BY <1>1, CapacityAssumption DEF Indices
  <2>4. \A n \in 1..end - p :
          buffer[p + n - 1] \in Characters \cup {NUL} /\ buffer[p + n - 1] # NUL
    BY <1>1, <1>2, <2>3
  <2>5. Text(buffer, p) \in Strings
    BY <2>1, <2>2, <2>4 DEF Strings
  <2>6. QED
    BY <2>1, <2>2, <2>4, <2>5 DEF buffer, end, Window
<1>5. QED
  BY <1>3, <1>4

\* The credentials are the pieces that an app's NULs cut the kept input into.
THEOREM StringsAreThePieces == Spec => []TextsArePieces
<1>1. ASSUME NEW s \in Strings, s = input PROVE TextsArePieces
  <2> DEFINE buffer == Stored(s)
             k == Kept(s)
             t1 == Text(buffer, First)
             t2 == Text(buffer, Second(buffer))
             t3 == Text(buffer, Third(buffer))
             e1 == EndOf(buffer, First)
             e2 == EndOf(buffer, Second(buffer))
             e3 == EndOf(buffer, Third(buffer))
             joined == (t1 \o <<NUL>>) \o (t2 \o <<NUL>>) \o (t3 \o <<NUL>>)
             padded == SubSeq(s, 1, k) \o <<NUL, NUL, NUL>>
  <2>1. /\ k \in Nat /\ k + 2 < Capacity /\ k <= Len(s) /\ Capacity \in Nat
        /\ \A p \in 0..k - 1 : buffer[p] = s[p + 1]
        /\ buffer[k] = NUL /\ buffer[k + 1] = NUL /\ buffer[k + 2] = NUL
    BY StoredInput, CapacityAssumption
  <2>2. /\ StringAt(buffer, First, k)
        /\ StringAt(buffer, Second(buffer), k + 1)
        /\ StringAt(buffer, Third(buffer), k + 2)
    BY ThreeStrings
  <2>3. /\ Window(t1, buffer, First, e1) /\ \A n \in 1..Len(t1) : t1[n] # NUL
        /\ Window(t2, buffer, Second(buffer), e2) /\ \A n \in 1..Len(t2) : t2[n] # NUL
        /\ Window(t3, buffer, Third(buffer), e3) /\ \A n \in 1..Len(t3) : t3[n] # NUL
    <3>1. k \in 0..Capacity - 1 /\ k + 1 \in 0..Capacity - 1 /\ k + 2 \in 0..Capacity - 1
      BY <2>1
    <3> HIDE DEF k
    <3>2. QED
      BY <3>1, <2>2, TextIsWindow
  <2>4. /\ First = 0 /\ Second(buffer) = e1 + 1 /\ Third(buffer) = e2 + 1
        /\ Texts(buffer)[1] = t1 /\ Texts(buffer)[2] = t2 /\ Texts(buffer)[3] = t3
    BY DEF First, Second, Third, Texts, Starts
  <2>5. /\ e1 \in 0..k /\ e2 \in e1 + 1..k + 1 /\ e3 \in e2 + 1..k + 2
        /\ buffer[e1] = NUL /\ buffer[e2] = NUL /\ buffer[e3] = NUL
    BY <2>1, <2>2, <2>4 DEF StringAt
  <2> HIDE DEF buffer, k, t1, t2, t3, e1, e2, e3
  <2>6. Window(joined, buffer, 0, e3 + 1)
    <3>1. /\ Window(t1 \o <<NUL>>, buffer, 0, e1 + 1)
          /\ Window(t2 \o <<NUL>>, buffer, e1 + 1, e2 + 1)
          /\ Window(t3 \o <<NUL>>, buffer, e2 + 1, e3 + 1)
      BY <2>1, <2>3, <2>4, <2>5, NulWindow, AdjacentWindows
    <3> DEFINE c1 == t1 \o <<NUL>>
               c2 == t2 \o <<NUL>>
               c3 == t3 \o <<NUL>>
    <3>2. joined = (c1 \o c2) \o c3
      OBVIOUS
    <3> HIDE DEF joined, c1, c2, c3
    <3>3. Window(c1 \o c2, buffer, 0, e2 + 1)
      BY <2>1, <2>5, <3>1, AdjacentWindows DEF c1, c2
    <3>4. QED
      BY <2>1, <2>5, <3>1, <3>2, <3>3, AdjacentWindows DEF c3
  <2>7. Window(padded, buffer, 0, k + 3)
    <3>1. Window(SubSeq(s, 1, k), buffer, 0, k)
      BY <2>1 DEF Window, Strings
    <3>2. Window(<<NUL, NUL, NUL>>, buffer, k, k + 3)
      <4>1. /\ <<NUL, NUL, NUL>> \in Strings /\ Len(<<NUL, NUL, NUL>>) = (k + 3) - k
            /\ \A n \in 1..3 : <<NUL, NUL, NUL>>[n] = NUL
        BY <2>1 DEF Strings
      <4>2. \A n \in 1..(k + 3) - k : n \in 1..3 /\ buffer[k + n - 1] = NUL
        BY <2>1
      <4>3. QED
        BY <4>1, <4>2 DEF Window
    <3>3. QED
      BY <2>1, <3>1, <3>2, AdjacentWindows
  <2> HIDE DEF joined, padded
  <2>8. IsPrefix(joined, padded)
    <3>1. /\ Len(joined) = e3 + 1 /\ Len(padded) = k + 3 /\ e3 + 1 <= k + 3
          /\ joined \in Strings /\ padded \in Strings
      BY <2>1, <2>5, <2>6, <2>7 DEF Window
    <3>2. ASSUME NEW n \in 1..e3 + 1 PROVE joined[n] = padded[n]
      <4>1. n \in 1..(e3 + 1) - 0 /\ n \in 1..(k + 3) - 0
        BY <2>1, <2>5, <3>1
      <4>2. QED
        BY <4>1, <2>6, <2>7 DEF Window
    <3>3. SubSeq(joined, 1, e3 + 1) = SubSeq(padded, 1, e3 + 1)
      BY <2>1, <2>5, <3>1, <3>2 DEF Strings
    <3>4. QED
      BY <3>1, <3>3 DEF IsPrefix
  <2>9. \A i \in 1..3 : \A n \in 1..Len(Texts(buffer)[i]) : Texts(buffer)[i][n] # NUL
    BY <2>3, <2>4
  <2>10. QED
    BY <1>1, <2>4, <2>8, <2>9 DEF TextsArePieces, joined, padded, buffer, k
<1>2. InputTypeOK => TextsArePieces
  BY <1>1 DEF InputTypeOK
<1>3. QED
  BY <1>2, InputIsString, PTL

-----------------------------------------------------------------------------
Networks == [length : Nat, own : BOOLEAN]

Lists == [used : Nat, entries : Nat, size : Nat, full : BOOLEAN,
          packed : Seq([at : Nat, network : Networks])]

\* The inductive invariant of the packing loop.  Every entry takes three bytes at
\* least, so the counter of entries does not wrap.
ListInv ==
  /\ networks \in Seq(Networks)
  /\ list \in Lists
  /\ list.used <= BufferSize
  /\ 3 * Len(list.packed) <= list.used
  /\ EntriesAreFound

\* What one round does: it leaves the list alone, ends the loop, or adds an entry.
LEMMA RoundCases ==
  ASSUME NEW l \in Lists, NEW network \in Networks
  PROVE  \/ /\ l.full \/ network.own
            /\ Added(l, network) = l
         \/ Added(l, network) = [l EXCEPT !.full = TRUE]
         \/ /\ ~l.full /\ ~network.own
            /\ l.used + network.length + 3 <= BufferSize
            /\ Added(l, network) =
                 [used |-> l.used + network.length + 3,
                  entries |-> (l.entries + 1) % ByteValues,
                  size |-> (l.size + network.length + 3) % ByteValues,
                  full |-> FALSE,
                  packed |-> Append(l.packed, [at |-> l.used, network |-> network])]
BY DEF Added, Fits, Lists, Networks

LEMMA RoundKeepsListInv ==
  ASSUME ListInv, NEW network \in Networks,
         list' = Added(list, network),
         networks' = IF network.own THEN networks ELSE Append(networks, network)
  PROVE  ListInv'
<1> DEFINE n == Len(list.packed)
           End(packed, k) ==
             IF k = 0 THEN 0 ELSE packed[k].at + packed[k].network.length + 3
<1>1. /\ networks \in Seq(Networks) /\ list \in Lists
      /\ list.used <= BufferSize /\ 3 * n <= list.used
      /\ list.packed \in Seq([at : Nat, network : Networks]) /\ n \in Nat
  BY DEF ListInv, Lists
<1>2. /\ list.entries = n
      /\ n <= Len(networks)
      /\ ~list.full => n = Len(networks)
      /\ \A k \in 1..n : list.packed[k] = [at |-> End(list.packed, k - 1), network |-> networks[k]]
      /\ list.used = End(list.packed, n)
  BY DEF ListInv, EntriesAreFound
<1>3. /\ networks' \in Seq(Networks) /\ Len(networks) <= Len(networks')
      /\ \A k \in 1..Len(networks) : networks'[k] = networks[k]
  BY <1>1
<1>4. CASE list.packed' = list.packed /\ list.used' = list.used /\ list' \in Lists
           /\ list.entries' = list.entries
           /\ (list.full' \/ (networks' = networks /\ list.full' = list.full))
  <2>1. /\ list'.packed = list.packed /\ list'.used = list.used
        /\ list'.entries = list.entries
        /\ ~list'.full => n = Len(networks')
    BY <1>2, <1>4
  <2>2. n <= Len(networks')
    BY <1>1, <1>2, <1>3
  <2>3. ASSUME NEW k \in 1..n
        PROVE  list'.packed[k] = [at |-> End(list'.packed, k - 1), network |-> networks'[k]]
    <3>1. k \in 1..Len(networks)
      BY <1>1, <1>2
    <3>2. list.packed[k] = [at |-> End(list.packed, k - 1), network |-> networks'[k]]
      BY <1>2, <1>3, <3>1
    <3>3. QED
      BY <2>1, <3>2
  <2>4. EntriesAreFound'
    BY <1>2, <2>1, <2>2, <2>3 DEF EntriesAreFound
  <2>5. QED
    BY <1>1, <1>3, <1>4, <2>1, <2>4 DEF ListInv
<1>5. CASE (list.full \/ network.own) /\ list' = list
  BY <1>1, <1>4, <1>5
<1>6. CASE list' = [list EXCEPT !.full = TRUE]
  <2>1. /\ list'.packed = list.packed /\ list'.used = list.used
        /\ list'.entries = list.entries /\ list'.full = TRUE /\ list' \in Lists
    BY <1>1, <1>6 DEF Lists
  <2>2. QED
    BY <1>4, <2>1
<1>7. ASSUME ~list.full, ~network.own,
             list.used + network.length + 3 <= BufferSize,
             list' = [used |-> list.used + network.length + 3,
                      entries |-> (list.entries + 1) % ByteValues,
                      size |-> (list.size + network.length + 3) % ByteValues,
                      full |-> FALSE,
                      packed |-> Append(list.packed, [at |-> list.used, network |-> network])]
      PROVE  ListInv'
  <2> DEFINE entry == [at |-> list.used, network |-> network]
  <2>1. network.length \in Nat /\ list.used \in Nat /\ list.size \in Nat
    BY <1>1 DEF Networks, Lists
  <2>2. (list.entries + 1) % ByteValues = n + 1
    <3>1. n \in Nat /\ 3 * n <= list.used /\ list.used + network.length + 3 <= BufferSize
      BY <1>1, <1>7
    <3> HIDE DEF n
    <3>2. n + 1 < ByteValues
      BY <3>1, <2>1, ListAssumption
    <3>3. (n + 1) % ByteValues = n + 1
      BY <3>1, <3>2, ListAssumption
    <3>4. QED
      BY <3>3, <1>2
  <2>3. (list.size + network.length + 3) % ByteValues \in Nat
    <3>1. ByteValues \in Nat \ {0}
      BY ListAssumption
    <3>2. QED
      BY <2>1, <3>1
  <2>4. /\ list'.packed \in Seq([at : Nat, network : Networks])
        /\ Len(list'.packed) = n + 1
        /\ \A k \in 1..n : list'.packed[k] = list.packed[k]
        /\ list'.packed[n + 1] = entry
    BY <1>1, <1>7, <2>1
  <2>5. list' \in Lists /\ list'.used <= BufferSize /\ 3 * Len(list'.packed) <= list'.used
    <3>1. /\ list'.used = list.used + network.length + 3
          /\ list'.entries = n + 1
      BY <1>7, <2>2
    <3>2. list' \in Lists
      <4>1. Append(list.packed, entry) \in Seq([at : Nat, network : Networks])
        BY <1>7, <2>4
      <4>2. n + 1 \in Nat /\ list.used + network.length + 3 \in Nat
        BY <1>1, <2>1
      <4>3. QED
        BY <1>7, <2>2, <2>3, <4>1, <4>2 DEF Lists
    <3>3. QED
      BY <1>1, <1>7, <2>1, <2>4, <3>1, <3>2
  <2>6. networks' = Append(networks, network) /\ Len(networks) = n
    BY <1>2, <1>7
  <2>7. Len(networks') = n + 1 /\ networks'[n + 1] = network
    BY <2>6, <1>1
  <2>8. ASSUME NEW k \in 1..n + 1
        PROVE  list'.packed[k] = [at |-> End(list'.packed, k - 1), network |-> networks'[k]]
    <3>1. End(list'.packed, k - 1) = End(list.packed, k - 1)
      <4>1. k - 1 = 0 \/ k - 1 \in 1..n
        BY <1>1
      <4>2. QED
        BY <2>4, <4>1
    <3>2. CASE k = n + 1
      <4>1. End(list'.packed, k - 1) = list.used /\ networks'[k] = network
        BY <3>1, <3>2, <1>1, <1>2, <2>7
      <4>2. QED
        BY <4>1, <3>2, <2>4
    <3>3. CASE k # n + 1
      <4>1. k \in 1..n /\ networks'[k] = networks[k]
        BY <3>3, <1>1, <1>2, <1>3
      <4>2. QED
        BY <4>1, <3>1, <1>2, <2>4
    <3>4. QED
      BY <3>2, <3>3
  <2>9. list'.used = End(list'.packed, n + 1)
    BY <1>1, <1>7, <2>4
  <2>10. EntriesAreFound'
    BY <1>1, <1>7, <2>2, <2>4, <2>7, <2>8, <2>9 DEF EntriesAreFound
  <2>11. QED
    BY <1>3, <2>5, <2>10 DEF ListInv
<1>8. QED
  BY <1>1, <1>5, <1>6, <1>7, RoundCases

LEMMA ListInvariant == Spec => []ListInv
<1>1. Init => ListInv
  <2> SUFFICES ASSUME Init PROVE ListInv
    OBVIOUS
  <2>1. /\ networks = <<>> /\ list = EmptyList
        /\ list.used = 0 /\ list.entries = 0 /\ list.packed = <<>> /\ list \in Lists
    BY DEF Init, EmptyList, Lists
  <2>2. EntriesAreFound
    BY <2>1 DEF EntriesAreFound
  <2>3. QED
    BY <2>1, <2>2, ListAssumption DEF ListInv
<1>2. ListInv /\ [Next]_vars => ListInv'
  <2> SUFFICES ASSUME ListInv, [Next]_vars PROVE ListInv'
    OBVIOUS
  <2>1. CASE networks' = networks /\ list' = list
    BY <2>1 DEF ListInv, EntriesAreFound
  <2>2. CASE FindNetwork
    <3>1. PICK network \in [length : 0..MaxName, own : BOOLEAN] :
            /\ list' = Added(list, network)
            /\ networks' = IF network.own THEN networks ELSE Append(networks, network)
      BY <2>2 DEF FindNetwork
    <3>2. network \in Networks
      BY InputAssumption DEF Networks
    <3>3. QED
      BY <3>1, <3>2, RoundKeepsListInv
  <2>3. QED
    BY <2>1, <2>2 DEF Next, vars, ReceiveByte, FillPacket
<1>3. QED
  BY <1>1, <1>2, PTL DEF Spec

\* The list, and the log text when it is copied, never leave the packet's field.
THEOREM ListIsInsidePacket == Spec => []ListFits
<1>1. ListInv => ListFits
  BY ListAssumption DEF ListInv, Lists, ListFits, LogCopied
<1>2. QED
  BY <1>1, ListInvariant, PTL

\* The packet announces exactly the entries a reader finds in it; the counter of
\* entries, unlike the one of bytes, never wraps.
THEOREM ReaderFindsEntries == Spec => []EntriesAreFound
<1>1. ListInv => EntriesAreFound
  BY DEF ListInv
<1>2. QED
  BY <1>1, ListInvariant, PTL
=============================================================================
