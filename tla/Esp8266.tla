------------------------------ MODULE Esp8266 ------------------------------
(***************************************************************************)
(* The example program on the ESP8266: loop() of src/main.cpp over the     *)
(* platform of src/platform/esp8266sdk.cpp over the library.  One round of *)
(* the loop has four stages: the button, at most one UDP packet, a look at *)
(* the state of the station (if bst_periodic gets that far), and the rest  *)
(* of bst_periodic.  The sdk runs between two rounds: it works on a        *)
(* connection and ends scans.                                              *)
(*                                                                         *)
(* Here link is what the library asked for and the value that              *)
(* bst_get_connection_state returned last; station is what the sdk has.    *)
(* All this is up to the moment when the clock of the sdk falls back to 0; *)
(* WrappingClock has what happens then.                                    *)
(***************************************************************************)
EXTENDS BootstrapWifi

CONSTANT RssiPeriod   \* the 5000 ms between two measurements

ASSUME RssiAssumption == RssiPeriod \in Nat

\* What bst_get_connection_state may return.
Answers == {"CONNECTED", "FAILED_SSID_NOT_FOUND", "FAILED_CREDENTIALS_WRONG",
            "NO_CONNECTION"}

\* setup() of main.cpp names a bootstrap network and a secret.
ASSUME ProgramAssumption ==
  /\ \A o \in UserOptions : o.hasBootstrapSsid /\ o.initialSecret # NoSecret
  /\ Answers \subseteq BootstrapReports \cap DestinationReports

VARIABLES
  stage,      \* how far the present round of loop() is
  timing,     \* handleLEDandButton: previousMillisButton is not 0
  station,    \* the sdk's state of the station, and the network it is in
  lost,       \* the network the station is in has gone out of range
  socket,     \* udpIPv4: whether begin has opened a socket, or has failed
  rssi        \* what is left of last_rssi_time + 5000

platformVars == <<stage, timing, station, lost, socket, rssi>>
espVars == <<vars, platformVars>>

Unreachable == {"STATION_CONNECT_FAIL", "STATION_NO_AP_FOUND"}
SdkStates == Unreachable \cup
  {"STATION_IDLE", "STATION_CONNECTING", "STATION_WRONG_PASSWORD", "STATION_GOT_IP"}

NoNetwork == [target |-> "none", credentials |-> NoData]

\* The network that the station was configured for.
Configuration == [target |-> link.target, credentials |-> link.credentials]

Disconnected == [status |-> "STATION_IDLE", network |-> NoNetwork]
Attempting == [status |-> "STATION_CONNECTING", network |-> NoNetwork]

-----------------------------------------------------------------------------
(* handleLEDandButton *)

\* Mutant: a long press resets the device in every mode.
ReleasedAnywhere(duration) ==
  /\ timing' = (duration = "long")
  /\ CASE duration = "long"  -> FactoryReset
       [] duration = "short" -> ConfirmBootstrap
       [] OTHER              -> UNCHANGED vars

\* The button was let go after a time that is long (more than 3700 ms), short
\* (more than 100 ms) or a bounce.  After a reset the time is not cleared, and
\* the next round takes what it finds for the begin of another press.
Released(duration) ==
  LET resetting == duration = "long" /\ st.mode = "DESTINATION_CONNECTED"
  IN /\ timing' = resetting
     /\ CASE resetting          -> FactoryReset
          [] duration = "short" -> ConfirmBootstrap
          [] OTHER              -> UNCHANGED vars

HandleButton ==
  /\ stage = "button" /\ stage' = "network"
  /\ \/ /\ timing' \in {TRUE, timing}     \* held down, or neither now nor before
        /\ UNCHANGED vars
     \/ /\ timing
        /\ \E duration \in {"long", "short", "bounce"} : Released(duration)
  /\ UNCHANGED <<station, lost, socket, rssi>>

-----------------------------------------------------------------------------
(* bst_loop_esp8266 *)

\* Packets come out of a socket that was opened.  They may have been there for a
\* while: whether there still is a network makes no difference.
Receiving == socket = "open"

\* Mutant: packets are read until there are no more.
ReadPackets ==
  /\ stage = "network" /\ stage' \in {"network", "look"}
  /\ \/ UNCHANGED vars
     \/ Receiving /\ \E p \in Packets : NetworkInput(p)
  /\ UNCHANGED <<timing, station, lost, socket, rssi>>

\* One packet, if there is any; one that the library ignores changes nothing.
ReadPacket ==
  /\ stage = "network" /\ stage' = "look"
  /\ \/ UNCHANGED vars
     \/ Receiving /\ \E p \in Packets : NetworkInput(p)
  /\ UNCHANGED <<timing, station, lost, socket, rssi>>

\* The workaround for lost networks: a level above 10 dBm is no level.
MeasureRssi ==
  IF rssi = Past
  THEN rssi' = RssiPeriod /\ station' = IF lost THEN Disconnected ELSE station
  ELSE UNCHANGED <<rssi, station>>

\* bst_get_connection_state.  The state that is returned is the one before
\* WiFi.disconnect; a wrong password is told once.
GetConnectionState ==
  \/ /\ station.status = "STATION_GOT_IP"
     /\ MeasureRssi
     /\ link' = [link EXCEPT !.status = "CONNECTED"]
  \/ /\ station.status \in Unreachable
     /\ link' = [link EXCEPT !.status = "FAILED_SSID_NOT_FOUND"]
     /\ UNCHANGED <<station, rssi>>
  \/ /\ station.status = "STATION_WRONG_PASSWORD"
     /\ link' = [link EXCEPT !.status = "FAILED_CREDENTIALS_WRONG"]
     /\ station' = Disconnected
     /\ UNCHANGED rssi
  \/ /\ station.status \in {"STATION_IDLE", "STATION_CONNECTING"}
     /\ link' = [link EXCEPT !.status = "NO_CONNECTION"]
     /\ UNCHANGED <<station, rssi>>

\* bst_periodic looks at the connection unless it serves a request.
Look ==
  /\ stage = "look" /\ stage' = "periodic"
  /\ IF Idle
     THEN /\ GetConnectionState
          /\ sent' = {}
          /\ UNCHANGED <<config, ram, st, flags, flash, scan>>
     ELSE UNCHANGED <<vars, station, rssi>>
  /\ UNCHANGED <<timing, lost, socket>>

\* Mutant: the station is not switched off before it is configured anew.
ConnectToWifiWhileOn ==
  /\ station' = station
  /\ lost' = FALSE
  /\ socket' = IF st'.mode = "CONNECTING_TO_DEST" THEN "closed" ELSE socket

\* Mutant: the mode that is tested is the one that is left.
ConnectToWifiTestingOldMode ==
  /\ station' = Attempting
  /\ lost' = FALSE
  /\ socket' = IF st.mode = "CONNECTING_TO_DEST" THEN "closed" ELSE socket

\* bst_connect_to_wifi: off, which drops what there was, on and connect.  The mode
\* it asks for was assigned before the call.
ConnectToWifi ==
  /\ station' = Attempting
  /\ lost' = FALSE
  /\ socket' = IF st'.mode = "CONNECTING_TO_DEST" THEN "closed" ELSE socket

\* bst_connected_to_bootstrap_network is called where HELLO is sent.  That the
\* socket could not be opened is logged and forgotten.
ConnectedToBootstrapNetwork ==
  /\ socket' \in {"open", "failed"}
  /\ UNCHANGED <<station, lost>>

\* The rest of bst_periodic.  The library alone says CONNECTING, where it calls
\* bst_connect_to_wifi.
RunLibrary ==
  /\ stage = "periodic" /\ stage' = "button"
  /\ Periodic
  /\ CASE link'.status = "CONNECTING"  -> ConnectToWifi
       [] Message("HELLO") \in sent' /\ link'.status # "CONNECTING"
                                       -> ConnectedToBootstrapNetwork
       [] OTHER                        -> UNCHANGED <<station, lost, socket>>
  /\ UNCHANGED <<timing, rssi>>

Loop == HandleButton \/ ReadPacket \/ Look \/ RunLibrary

-----------------------------------------------------------------------------
(* The sdk, which runs between two rounds *)

\* The attempt ends or is taken up again, in the network that was asked for.
StationSettles ==
  /\ station.status \in Unreachable \cup {"STATION_CONNECTING"}
  /\ \/ \E failure \in Unreachable \cup {"STATION_WRONG_PASSWORD"} :
          station' = [Disconnected EXCEPT !.status = failure]
     \/ station' = [status |-> "STATION_GOT_IP", network |-> Configuration]
  /\ UNCHANGED lost

\* The network goes, which the sdk may notice or not, or is in range again.
NetworkComesAndGoes ==
  /\ station.status = "STATION_GOT_IP"
  /\ \/ lost' = ~lost /\ UNCHANGED station
     \/ lost' = FALSE /\ station' = Disconnected

Sdk ==
  /\ stage = "button"
  /\ \/ (StationSettles \/ NetworkComesAndGoes) /\ UNCHANGED vars
     \/ (WifiNetworkList \/ ScanFails) /\ UNCHANGED <<station, lost>>
  /\ UNCHANGED <<stage, timing, socket, rssi>>

\* No step of the clock falls back to 0.
Time ==
  /\ Tick
  /\ rssi' = Elapsed(rssi)
  /\ UNCHANGED <<stage, timing, station, lost, socket>>

\* setup() and bst_setup_esp8266: what the two files hold goes to bst_setup.
Booted ==
  /\ stage' = "button"
  /\ timing' = FALSE
  /\ station' = Attempting
  /\ lost' = FALSE
  /\ socket' = "closed"
  /\ rssi' = RssiPeriod

PowerLoss == Reboot /\ Booted

-----------------------------------------------------------------------------
EspInit ==
  /\ Init
  /\ stage = "button" /\ timing = FALSE
  /\ station = Attempting
  /\ lost = FALSE /\ socket = "closed" /\ rssi = RssiPeriod

EspNext == Loop \/ Sdk \/ Time \/ PowerLoss

EspSpec == EspInit /\ [][EspNext]_espVars

-----------------------------------------------------------------------------
(* Properties *)

Networks == [target : {"none", "bootstrap", "destination"}, credentials : DataValues]

\* The values are in range, and a stage knows what the last one left: when
\* bst_periodic looks at modes, no attempt began since the last look.
EspTypeOK ==
  /\ stage \in {"button", "network", "look", "periodic"}
  /\ station \in [status : SdkStates, network : Networks]
  /\ {timing, lost} \subseteq BOOLEAN
  /\ socket \in {"open", "closed", "failed"}
  /\ rssi \in {Past} \cup 0..RssiPeriod
  /\ station.status = "STATION_GOT_IP" <=> station.network # NoNetwork
  /\ stage = "periodic" => link.status # "CONNECTING"

\* The device listens for commands exactly as long as the bootstrap network may
\* bring some, unless the sdk has no socket for it: one is asked for by the callback
\* of every connection and is closed on every way to the destination.
SocketMatchesMode ==
  stage = "button" =>
    /\ st.mode = "WAITING_FOR_DATA" => socket # "closed"
    /\ st.mode \in DestinationModes => socket = "closed"

\* The library takes no network for another: where it believes to be connected,
\* the station is in the network of that mode, with the credentials that flash
\* holds, or has just dropped out of it.
NetworkMatchesMode ==
  /\ st.mode = "DESTINATION_CONNECTED" =>
       station.network \in {NoNetwork, [target |-> "destination", credentials |-> flash.data]}
  /\ st.mode = "WAITING_FOR_DATA" =>
       station.network \in {NoNetwork, [target |-> "bootstrap", credentials |-> NoData]}

\* Since bst_periodic follows each packet, a command that was accepted is in flash
\* before anything else happens: also before the list that confirms a bind with
\* the new secret (README.md:113) can be sent.
StoredInEachRound == stage = "button" => Idle /\ DataSaved /\ KeySaved
=============================================================================
