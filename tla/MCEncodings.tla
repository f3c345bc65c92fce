----------------------------- MODULE MCEncodings -----------------------------
(***************************************************************************)
(* Every short input of prv_assign_data, of the packing loop and of the     *)
(* checksum, built step by step: the bytes of a SET_DATA packet, a scan     *)
(* result, and a packet that a burst of bit errors hits.                    *)
(***************************************************************************)
EXTENDS Storage, WifiList, Crc16, SequencesExt

CONSTANTS
  MaxInput, MaxNetworks, MaxName,  \* lengths of what is tried
  Contents                         \* bytes of the packets whose checksum is tried

ASSUME InputAssumption == MaxName \in Nat /\ Contents \subseteq SUBSET (0..7)

VARIABLES
  input,     \* the bytes of a SET_DATA packet
  networks,  \* the networks that the packing loop has come to, but for the own
  list,      \* what the loop has made of them
  packet     \* a packet with a checksum

vars == <<input, networks, list, packet>>

Init == input = <<>> /\ networks = <<>> /\ list = EmptyList /\ packet = <<>>

ReceiveByte ==
  /\ list = EmptyList /\ networks = <<>> /\ packet = <<>> /\ Len(input) < MaxInput
  /\ \E c \in Characters \cup {NUL} : input' = Append(input, c)
  /\ UNCHANGED <<networks, list, packet>>

\* One round of the loop.  A name of length 0 or 1 may be a prefix of the own
\* ssid; the empty one always is.
FindNetwork ==
  /\ input = <<>> /\ packet = <<>> /\ Len(networks) < MaxNetworks
  /\ \E network \in [length : 0..MaxName, own : BOOLEAN] :
       /\ network.length = 0 => network.own
       /\ network.own => network.length <= 1
       /\ list' = Added(list, network)
       /\ networks' = IF network.own THEN networks ELSE Append(networks, network)
  /\ UNCHANGED <<input, packet>>

FillPacket ==
  /\ input = <<>> /\ list = EmptyList /\ networks = <<>> /\ Len(packet) < 3
  /\ \E byte \in Contents : packet' = Append(packet, byte)
  /\ UNCHANGED <<input, networks, list>>

Next == ReceiveByte \/ FindNetwork \/ FillPacket

Spec == Init /\ [][Next]_vars

-----------------------------------------------------------------------------
\* prv_assign_data reads inside of the buffer only, whatever an app sends: every
\* string starts in the buffer and ends there.
ReadsInsideStorage ==
  LET buffer == Stored(input)
  IN \A i \in 1..3 : /\ Starts(buffer)[i] \in Indices
                     /\ EndOf(buffer, Starts(buffer)[i]) \in Indices

\* The three strings, each with its NUL, are what the kept input starts with when
\* NULs follow it, and no string holds a NUL: they are cut where an app puts NULs.
TextsArePieces ==
  LET texts == Texts(Stored(input))
      Closed(i) == texts[i] \o <<NUL>>
  IN /\ IsPrefix(Closed(1) \o Closed(2) \o Closed(3),
                 SubSeq(input, 1, Kept(input)) \o <<NUL, NUL, NUL>>)
     /\ \A i \in 1..3 : \A n \in 1..Len(texts[i]) : texts[i][n] # NUL

\* What SET_DATA put into RAM, and what bst_setup reads back from flash after a
\* reboot, are the same credentials.
ReloadKeepsTexts == Texts(Stored(Saved(input))) = Texts(Stored(input))

\* The list and the log text behind it stay inside of the packet.
ListFits ==
  /\ list.used <= BufferSize
  /\ \A length \in 1..BufferSize :
       LogCopied(list, length) => list.used + length <= BufferSize

\* A reader finds as many entries as the packet announces, one right behind the
\* other: the first networks of the scan that are not the own, and all of them
\* unless the packet is full.
EntriesAreFound ==
  LET packed == list.packed
      End(k) == IF k = 0 THEN 0 ELSE packed[k].at + packed[k].network.length + 3
  IN /\ list.entries = Len(packed)
     /\ Len(packed) <= Len(networks)
     /\ ~list.full => Len(packed) = Len(networks)
     /\ \A k \in 1..Len(packed) :
          packed[k] = [at |-> End(k - 1), network |-> networks[k]]
     /\ list.used = End(Len(packed))

\* The packet with the bits of error flipped, the bit b of the byte n being the
\* number 8 * n - b.
Damaged(error) ==
  [n \in 1..Len(packet) |-> SymDiff(packet[n], {b \in 0..7 : 8 * n - b \in error})]

\* A burst of errors of up to 16 bits never leaves the checksum as it was, here
\* the bursts whose inner bits are all, or none, wrong.
BurstsAreDetected ==
  \A first \in 1..8 * Len(packet) :
    \A last \in first..8 * Len(packet) :
      last - first < 16 =>
        \A error \in {first..last, {first, last}} : Crc(Damaged(error)) # Crc(packet)

\* Nor does an odd number of wrong bits, wherever they are: here one or three.
OddErrorsAreDetected ==
  \A a \in 1..8 * Len(packet) :
    \A b, c \in a..8 * Len(packet) :
      Cardinality({a, b, c}) # 2 => Crc(Damaged({a, b, c})) # Crc(packet)

\* The check value bootstrapWifi.c:31 gives for the digits 1 to 9: 0x29b1.
CheckValue ==
  packet = <<>> =>
    Crc([n \in 1..9 |-> {5, 4} \cup {b \in 0..3 : (n \div 2^b) % 2 = 1}])
      = {13, 11, 8, 7, 5, 4, 0}

\* test/request_wifi_list_tests.cpp:172-173: the log field starts at "p +
\* pkt->wifi_list_size_in_bytes", which is right behind the last entry.
LogFollowsList == list.size = list.used
=============================================================================
