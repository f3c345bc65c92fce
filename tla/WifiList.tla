------------------------------ MODULE WifiList ------------------------------
(***************************************************************************)
(* The packing loop of bst_wifi_network_list of src/bootstrapWifi.c: the    *)
(* networks in range go into a packet of fixed size, one after the other,   *)
(* each with two bytes in front of its name and a NUL behind it; then       *)
(* follows the text of the log field.  A network is a record of the length  *)
(* of its name and of whether memcmp takes it for the bootstrap network.    *)
(***************************************************************************)
EXTENDS Integers, Sequences

CONSTANTS
  BufferSize,  \* sizeof data_wifi_list_and_log_msg (484)
  ByteValues   \* how many values a uint8_t has (256)

\* The buffer has no room for as many entries as a byte can count, but may hold
\* more bytes.
ASSUME ListAssumption ==
  BufferSize \in Nat /\ ByteValues \in Nat /\ BufferSize < 3 * ByteValues

\* What is written (used bytes, and each entry with where it starts), the two
\* counters of the packet, and whether the loop has been left.
EmptyList == [used |-> 0, entries |-> 0, size |-> 0, packed |-> <<>>, full |-> FALSE]

\* Mutant: the two bytes in front of the name are forgotten.
FitsWithoutHeader(used, network) == used + network.length + 1 <= BufferSize

Fits(used, network) == used + network.length + 3 <= BufferSize

\* Mutant: an entry that does not fit is skipped, and counted all the same.
AddedUnread(list, network) ==
  IF ~Fits(list.used, network) THEN [list EXCEPT !.entries = @ + 1]
  ELSE [list EXCEPT !.used = @ + network.length + 3,
                    !.entries = (@ + 1) % ByteValues,
                    !.size = (@ + network.length + 3) % ByteValues,
                    !.packed = Append(@, [at |-> list.used, network |-> network])]

\* One round of the loop.  The first name that does not fit ends it.
Added(list, network) ==
  CASE list.full -> list
    [] ~list.full /\ ~Fits(list.used, network) -> [list EXCEPT !.full = TRUE]
    [] ~list.full /\ Fits(list.used, network) /\ network.own -> list
    [] OTHER ->
         [list EXCEPT !.used = @ + network.length + 3,
                      !.entries = (@ + 1) % ByteValues,
                      !.size = (@ + network.length + 3) % ByteValues,
                      !.packed = Append(@, [at |-> list.used, network |-> network])]

\* Whether the text of the log field (NUL included) is copied behind the list.
LogCopied(list, length) == list.used + length < BufferSize
=============================================================================
