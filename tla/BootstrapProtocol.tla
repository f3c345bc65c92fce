-------------------------- MODULE BootstrapProtocol --------------------------
(***************************************************************************)
(* The library of BootstrapWifi together with the apps it is made for and  *)
(* the network between them.  The apps are not part of the repository:     *)
(* they do what README.md, "How it works", says of them, at any time and   *)
(* in any order.  Packets are broadcast over UDP: they are lost,           *)
(* duplicated and reordered.                                               *)
(*                                                                         *)
(* An app is its nonce.  Each has a key of its own to bind devices with    *)
(* and data of its own for them, so that the author of a command can be    *)
(* told from what it carries.                                              *)
(***************************************************************************)
EXTENDS BootstrapWifi, FiniteSets

CONSTANTS
  KeyOf,     \* the key an app binds devices with
  DataOf,    \* the data an app has for the device
  Capacity   \* how many packets fit into the air

Apps == AppNonces

ASSUME AppAssumption ==
  /\ KeyOf \in [Apps -> BindKeys]
  /\ DataOf \in [Apps -> SentData]
  /\ \A a, b \in Apps : a # b => KeyOf[a] # KeyOf[b] /\ DataOf[a] # DataOf[b]

VARIABLES
  toDevice,  \* the packets on their way to the device
  toApps,    \* the packets on their way to the apps
  heard      \* the device nonce and the secret of the last list an app could read

protocolVars == <<vars, toDevice, toApps, heard>>

\* An app that has not heard of the device.
Silence == [nonce |-> NoNonce, key |-> NoSecret]

-----------------------------------------------------------------------------
(* The network *)

RoomFor(up, down) == Cardinality(up) + Cardinality(down) <= Capacity

\* A packet more, as long as there is room for it.
Send(p) ==
  /\ RoomFor(toDevice \cup {p}, toApps)
  /\ toDevice' = toDevice \cup {p}
  /\ UNCHANGED <<vars, toApps, heard>>

Lose ==
  /\ \/ \E p \in toDevice : toDevice' = toDevice \ {p} /\ UNCHANGED toApps
     \/ \E p \in toApps : toApps' = toApps \ {p} /\ UNCHANGED toDevice
  /\ UNCHANGED <<vars, heard>>

-----------------------------------------------------------------------------
(* The apps *)

\* README.md, "Request the list of neighbour wifis": again and again.
AppSaysHello(a) ==
  Send([cmd |-> "HELLO", appNonce |-> a])

\* README.md, "The app binds devices": if the generic secret works, the device is
\* not bound.
AppBinds(a) ==
  /\ heard[a].key = InitialSecret
  /\ Send([cmd |-> "BIND", seal |-> heard[a], newKey |-> KeyOf[a]])

\* README.md, "Wifilist/Bootstrap"; the device is bound or not.
AppSetsData(a) ==
  /\ heard[a] # Silence
  /\ Send([cmd |-> "SET_DATA", seal |-> heard[a], data |-> DataOf[a]])

\* Mutant: any app can read a list that answers it.
LegibleWithoutKey(a, p) == p.seal.nonce = a

\* An app tries the generic secret and its own.
Legible(a, p) == p.seal.nonce = a /\ p.seal.key \in {InitialSecret, KeyOf[a]}

AppHearsList(a, p) ==
  /\ Legible(a, p)
  /\ heard' = [heard EXCEPT ![a] = [nonce |-> p.nonce, key |-> p.seal.key]]
  /\ toApps' \in {toApps, toApps \ {p}}
  /\ UNCHANGED <<vars, toDevice>>

AppStep(a) ==
  \/ AppSaysHello(a) \/ AppBinds(a) \/ AppSetsData(a)
  \/ \E p \in toApps : AppHearsList(a, p)

-----------------------------------------------------------------------------
(* The device *)

\* The nonces somebody could still use.
Remembered ==
  {st.deviceNonce} \cup {heard[a].nonce : a \in Apps}
    \cup {p.nonce : p \in toApps}
    \cup {p.seal.nonce : p \in {q \in toDevice : q.cmd # "HELLO"}}

\* Mutant: HELLO may leave the device nonce as it was.
DeliverKeepingNonce(p) ==
  /\ NetworkInput(p)
  /\ p.cmd = "HELLO" => st'.deviceNonce \notin Remembered \ {st.deviceNonce}
  /\ toDevice' \in {toDevice, toDevice \ {p}}
  /\ UNCHANGED <<toApps, heard>>

\* bst_network_input is given a packet, which may arrive again.  Nonces are long
\* enough for a new one to be unlike all that somebody could still use.
Deliver(p) ==
  /\ NetworkInput(p)
  /\ p.cmd = "HELLO" => st'.deviceNonce \notin Remembered
  /\ toDevice' \in {toDevice, toDevice \ {p}}
  /\ UNCHANGED <<toApps, heard>>

\* The lists given to bst_network_output that some app can read are on their way,
\* if there is room for them.
Answer ==
  /\ WifiNetworkList
  /\ LET more == toApps \cup {p \in sent' : \E a \in Apps : Legible(a, p)}
     IN toApps' = IF RoomFor(toDevice, more) THEN more ELSE toApps
  /\ UNCHANGED <<toDevice, heard>>

\* The button of src/main.cpp resets a device at its destination only.
ButtonReset == st.mode = "DESTINATION_CONNECTED" /\ FactoryReset

\* What the device does without the apps.
DeviceAlone ==
  /\ \/ Periodic \/ Tick
     \/ ScanFails \/ ButtonReset \/ LinkChanges \/ Reboot
  /\ UNCHANGED <<toDevice, toApps, heard>>

-----------------------------------------------------------------------------
ProtocolInit ==
  /\ Init
  /\ toDevice = {} /\ toApps = {}
  /\ heard = [a \in Apps |-> Silence]

ProtocolNext ==
  \/ \E a \in Apps : AppStep(a)
  \/ \E p \in toDevice : Deliver(p)
  \/ Answer
  \/ DeviceAlone
  \/ Lose

ProtocolSpec == ProtocolInit /\ [][ProtocolNext]_protocolVars

-----------------------------------------------------------------------------
(* Safety *)

Lists ==
  [kind : {"wifi_list"}, code : ErrorCodes, nonce : DeviceNonces \cup {NoNonce},
   confirmation : {"CONFIRM_NOT_REQUIRED", "CONFIRM_OK", "CONFIRM_REQUIRED"},
   log : Messages, seal : [nonce : Apps, key : Secrets]]

\* Packets have the layouts of prv_bootstrapWifi.h, and what an app knows of the
\* device it knows by a key that it has.
ProtocolTypeOK ==
  /\ toDevice \subseteq Packets /\ toApps \subseteq Lists
  /\ \A a \in Apps : heard[a] \in {Silence} \cup
       [nonce : DeviceNonces \cup {NoNonce}, key : {InitialSecret, KeyOf[a]}]

\* A command that the device accepts comes from the app it has a session with,
\* however old or often repeated the packets are that are still on their way: a
\* new session, and a renewed one, has a device nonce of its own.
CommandsFromOwner ==
  [][LET new == flags' \ flags
     IN /\ "bind" \in new => secret' = KeyOf[st.appNonce]
        /\ "set_wifi" \in new => data' = DataOf[st.appNonce]]_protocolVars

\* Once flash holds the key of an app, only that app can change the device: a
\* loss of power and late packets included.
BoundToOneApp ==
  [][\A a \in Apps :
       flash.secret = KeyOf[a] =>
         /\ "bind" \in flags' \ flags => secret' = KeyOf[a]
         /\ "set_wifi" \in flags' \ flags => data' = DataOf[a]]_protocolVars

\* An app that has heard the device in the session it has with it can read what
\* the device sends next and is understood or knows why not: until the session
\* is over nobody else changes the secret the two have in common.
OwnerNotLockedOut ==
  \A a \in Apps :
    /\ st.appNonce = a /\ SessionValid(st)
    /\ heard[a].nonce = st.deviceNonce
    => /\ secret \in {InitialSecret, KeyOf[a]}
       /\ heard[a].key # secret => secret = KeyOf[a]
=============================================================================
