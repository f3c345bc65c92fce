---------------------------- MODULE Bootstrapping ----------------------------
(***************************************************************************)
(* What a device with this library promises, whatever happens inside of    *)
(* it.  It is on the bootstrap network or on its way to the destination    *)
(* network, where it only ever uses the data it has kept.  One app at a    *)
(* time owns it; the owner may offer a key and data, each of which is kept *)
(* exactly once, the key before the data, or lost with the power.  While   *)
(* its session runs and its network is in reach, the owner is not sent     *)
(* away.                                                                   *)
(*                                                                         *)
(* There are no packets, requests, counters, deadlines or error codes      *)
(* here: BootstrapWifi is shown to implement this module.                  *)
(***************************************************************************)
CONSTANTS
  Data,    \* bootstrap data
  NoData,  \* data that name no network
  Keys,    \* keys a device may have kept
  NoKey,   \* the empty key, which is none for a device that starts
  Apps,
  Nobody

VARIABLES
  kept,      \* the data and the key that survive a loss of power
  phase,     \* "off", "bootstrap" or "destination"
  joined,    \* the data used to join the destination network, or NoData
  online,    \* whether the network of the phase is in reach
  owner,     \* the app the device deals with
  session,   \* "held", or open to another app at its "last" instant, or "over"
  newKey,    \* the key offered but not kept yet: a set of at most one
  newData,   \* the data offered but not kept yet: a set of at most one
  resetting  \* whether the user has asked for a factory reset

vars == <<kept, phase, joined, online, owner, session, newKey, newData,
          resetting>>
offers == <<newKey, newData>>
place  == <<phase, joined, online>>

Nothing == [data |-> NoData, key |-> NoKey]

-----------------------------------------------------------------------------
\* Neither an owner nor offers nor a reset to come: how every phase begins.
Fresh ==
  /\ owner = Nobody /\ session = "over"
  /\ newKey = {} /\ newData = {}
  /\ resetting = FALSE
  /\ online = FALSE

\* After a start the device heads for the destination if it knows one, and the
\* phase of a device that does not is a matter of its configuration.
Started ==
  /\ Fresh
  /\ joined = kept.data
  /\ phase \in IF kept.data # NoData THEN {"destination"} ELSE {"bootstrap", "off"}

Init == kept \in [data : Data \cup {NoData}, key : Keys \cup {NoKey}] /\ Started

-----------------------------------------------------------------------------
(* Starts and networks *)

\* A reset that the power cuts short has emptied one of the two stores.
Restart ==
  /\ Started'
  /\ \/ kept' = kept
     \/ resetting /\ kept' = [kept EXCEPT !.data = NoData]

Reset ==
  /\ resetting
  /\ kept' = Nothing
  /\ Started' /\ phase' = "bootstrap"

AskForReset ==
  /\ resetting' = TRUE
  /\ UNCHANGED <<kept, place, owner, session, offers>>

ReachChanges ==
  /\ online' \in BOOLEAN
  /\ UNCHANGED <<kept, phase, joined, owner, session, offers, resetting>>

\* No offer is on the table, and either the session is over or the app cannot
\* be reached any more.
LeaveForDestination ==
  /\ phase = "bootstrap" /\ kept.data # NoData
  /\ newKey = {} /\ newData = {} /\ ~resetting
  /\ session = "over" \/ ~online
  /\ phase' = "destination" /\ joined' = kept.data
  /\ Fresh'
  /\ UNCHANGED kept

FallBack ==
  /\ phase = "destination" /\ ~resetting
  /\ phase' = "bootstrap" /\ joined' = NoData
  /\ Fresh'
  /\ UNCHANGED kept

-----------------------------------------------------------------------------
(* The owner *)

OpenSession(app) ==
  /\ phase = "bootstrap"
  /\ session # "held" \/ owner = app
  /\ owner' = app /\ session' = "held"
  /\ UNCHANGED <<kept, place, offers, resetting>>

SessionAges ==
  /\ \/ session = "held" /\ session' = "last"
     \/ session = "last" /\ session' = "over"
  /\ UNCHANGED <<kept, place, owner, offers, resetting>>

ForgetOwner ==
  /\ session = "over"
  /\ owner' = Nobody
  /\ UNCHANGED <<kept, place, session, offers, resetting>>

OfferKey(key) ==
  /\ phase = "bootstrap" /\ session # "over" /\ newKey = {}
  /\ newKey' = {key}
  /\ UNCHANGED <<kept, place, owner, session, newData, resetting>>

OfferData(data) ==
  /\ phase = "bootstrap" /\ session # "over" /\ newData = {}
  /\ newData' = {data}
  /\ UNCHANGED <<kept, place, owner, session, newKey, resetting>>

KeepKey ==
  /\ ~resetting
  /\ \E key \in newKey : kept' = [kept EXCEPT !.key = key]
  /\ newKey' = {}
  /\ UNCHANGED <<place, owner, session, newData, resetting>>

\* New data end the bootstrap phase: the device is off to try them.
KeepData ==
  /\ newKey = {} /\ ~resetting
  /\ \E data \in newData :
       /\ kept' = [kept EXCEPT !.data = data]
       /\ joined' = data
  /\ phase' = "destination"
  /\ Fresh'

-----------------------------------------------------------------------------
Next ==
  \/ Restart \/ Reset \/ AskForReset \/ ReachChanges
  \/ LeaveForDestination \/ FallBack
  \/ \E app \in Apps : OpenSession(app)
  \/ SessionAges \/ ForgetOwner
  \/ \E key \in Keys \cup {NoKey} : OfferKey(key)
  \/ \E data \in Data \cup {NoData} : OfferData(data)
  \/ KeepKey \/ KeepData

Spec == Init /\ [][Next]_vars
=============================================================================
