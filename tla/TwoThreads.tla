----------------------------- MODULE TwoThreads -----------------------------
(***************************************************************************)
(* bst_network_input on a thread of its own.  The five flags are bits of   *)
(* one byte: where bst_periodic clears one, the processor loads the byte   *)
(* and stores it again, and a packet may be handled in between.  This is   *)
(* one of the outcomes of the data race; the two branches of bst_periodic  *)
(* that clear a single bit have it, all else happens at once here.         *)
(***************************************************************************)
EXTENDS BootstrapWifi

VARIABLES
  loaded,  \* bst_periodic has loaded the byte and not stored it yet
  byte     \* the flags it has loaded

threadVars == <<vars, loaded, byte>>

\* The branches of bst_periodic, on the byte that the processor holds.
Main == INSTANCE BootstrapWifi WITH flags <- byte

\* bst_periodic has found a request and is about to clear it.
Load ==
  /\ ~loaded /\ Configured
  /\ Pending("bind") \/ Pending("wifi_list")
  /\ loaded' = TRUE /\ byte' = flags
  /\ UNCHANGED vars

\* The byte is stored without the bit and the branch goes on.
Store ==
  /\ loaded /\ loaded' = FALSE
  /\ Main!ServeBind \/ Main!ServeWifiList
  /\ flags' = byte'
  /\ UNCHANGED config

Undivided ==
  /\ ~loaded
  /\ \/ Configured /\ (ServeFactoryReset \/ ServeSetWifi \/ RunMode) /\ UNCHANGED config
     \/ Environment
     \/ Tick
  /\ UNCHANGED <<loaded, byte>>

\* The other thread does not wait.
Packet ==
  /\ loaded
  /\ \E p \in Packets : NetworkInput(p)
  /\ UNCHANGED <<loaded, byte>>

ThreadSpec ==
  /\ Init /\ loaded = FALSE /\ byte = {}
  /\ [][Load \/ Store \/ Undivided \/ Packet]_threadVars

\* bootstrapWifi.h:131: bst_network_input "will only setup some flags and copy data.
\* The real work will be done in bst_periodic(). This method can be called from
\* another thread."  The real work for each change of an app is to store it.
RealWorkIsDone == UnsavedChangesPending
=============================================================================
