--------------------------- MODULE Esp8266_proofs ---------------------------
(***************************************************************************)
(* The example program uses the library as BootstrapWifi says it may be    *)
(* used, so that what is proved of the library holds in it; and what only  *)
(* this program promises: each command is stored before the next round,    *)
(* the socket and the network of the station are those of the mode.        *)
(***************************************************************************)
EXTENDS Esp8266, BootstrapWifi_proofs

\* Every step of the program is one of the library's or of its environment.
LEMMA LibrarySteps ==
  ASSUME TypeInv, [EspNext]_espVars, link.target # "none"
  PROVE  [Next]_vars
<1>1. CASE HandleButton
  BY <1>1 DEF HandleButton, Released, Next, Environment
<1>2. CASE ReadPacket
  BY <1>2 DEF ReadPacket, Next, Environment
<1>3. CASE Look
  <2>1. CASE UNCHANGED vars
    BY <2>1
  <2>2. CASE GetConnectionState /\ sent' = {}
             /\ UNCHANGED <<config, ram, st, flags, flash, scan>>
    <3>1. \E status \in Answers : link' = [link EXCEPT !.status = status]
      BY <2>2 DEF GetConnectionState, Answers
    <3>2. Answers \subseteq Reports
      BY ProgramAssumption DEF Reports, TypeInv, TypeOK, LinkRecords
    <3>3. LinkChanges
      BY <2>2, <3>1, <3>2 DEF LinkChanges
    <3>4. QED BY <3>3 DEF Next, Environment
  <2>3. QED BY <1>3, <2>1, <2>2 DEF Look
<1>4. CASE RunLibrary
  BY <1>4 DEF RunLibrary, Next
<1>5. CASE Sdk
  BY <1>5 DEF Sdk, Next, Environment
<1>6. CASE Time
  BY <1>6 DEF Time, Next
<1>7. CASE PowerLoss
  BY <1>7 DEF PowerLoss, Next, Environment
<1>8. CASE UNCHANGED espVars
  BY <1>8 DEF espVars
<1>9. QED
  BY <1>1, <1>2, <1>3, <1>4, <1>5, <1>6, <1>7, <1>8 DEF EspNext, Loop

-----------------------------------------------------------------------------
(* The invariant of the program *)

\* What is noted waits for the end of the round: at most one request of an app,
\* and a factory reset only together with a connected destination.
RoundInv ==
  /\ stage \in {"button", "network", "look", "periodic"}
  /\ stage \in {"button", "network"} => flags \cap Requests = {}
  /\ \E request : flags \cap Requests \subseteq {request}
  /\ "factory_reset" \in flags =>
       stage # "button" /\ st.mode = "DESTINATION_CONNECTED"

\* The radio has a target, an attempt that just began is one of the modes that
\* try to connect, and both options of the example are there.
RadioInv ==
  /\ Configured
  /\ config.hasBootstrapSsid /\ config.initialSecret # NoSecret
  /\ link.target \in {"bootstrap", "destination"}
  /\ link.target = "bootstrap" => link.credentials = NoData
  /\ st.mode \in {"WAITING_FOR_DATA", "DESTINATION_CONNECTED"} \/ stage = "periodic"
       => link.status # "CONNECTING"

\* The socket follows the mode, in all stages of a round.
SocketInv ==
  /\ st.mode = "WAITING_FOR_DATA" => socket # "closed"
  /\ st.mode \in DestinationModes => socket = "closed"

\* The station is in no network or in the one it was configured for.
StationInv ==
  /\ station \in [status : SdkStates, network : {NoNetwork, Configuration}]
  /\ station.status = "STATION_GOT_IP" <=> station.network # NoNetwork

ValuesInv ==
  /\ {timing, lost} \subseteq BOOLEAN
  /\ socket \in {"open", "closed", "failed"}
  /\ rssi \in {Past} \cup 0..RssiPeriod

EspInv ==
  /\ TypeInv /\ StorageInv
  /\ RoundInv /\ RadioInv /\ SocketInv /\ StationInv /\ ValuesInv

-----------------------------------------------------------------------------
(* What a call of bst_periodic does to requests, radio and mode *)

\* The radio keeps target, credentials and state, or a new attempt begins.
SameRadio ==
  /\ link'.target = link.target /\ link'.credentials = link.credentials
  /\ link'.status = link.status

NewAttempt ==
  \/ link' = ConnectedTo("bootstrap", NoData)
  \/ \E d : link' = ConnectedTo("destination", d)

\* How the mode may change together with the radio: it waits for data only after
\* a HELLO, it tries the destination after a new attempt.
ModeFollowsRadio ==
  \/ /\ SameRadio /\ st'.mode = st.mode
     /\ Message("HELLO") \in sent' => st.mode \in BootstrapModes
  \/ /\ SameRadio /\ st'.mode \in BootstrapModes
     /\ st'.mode = "WAITING_FOR_DATA" => Message("HELLO") \in sent'
  \/ /\ SameRadio /\ st.mode \in DestinationModes /\ st'.mode \in DestinationModes
     /\ Message("HELLO") \notin sent'
  \/ NewAttempt /\ st'.mode \in {"CONNECTING_TO_BOOTSTRAP", "CONNECTING_TO_DEST"}

LEMMA EntersAttempt ==
  /\ EnterBootstrapped => NewAttempt /\ st'.mode = "CONNECTING_TO_DEST"
  /\ \A code, message : EnterWaitForBootstrap(code, message) =>
       NewAttempt /\ st'.mode = "CONNECTING_TO_BOOTSTRAP"
BY DEF EnterBootstrapped, EnterWaitForBootstrap, BootstrappedState,
       WaitForBootstrapState, ZeroState, NewAttempt

LEMMA WaitForDataRadio ==
  ASSUME TypeInv, NEW s \in StateRecords, s.mode = "WAITING_FOR_DATA", WaitForData(s)
  PROVE  \/ SameRadio /\ st'.mode \in {"WAITING_FOR_DATA", "CONNECTING_TO_BOOTSTRAP"}
         \/ NewAttempt /\ st'.mode = "CONNECTING_TO_DEST"
BY EntersAttempt DEF WaitForData, SameRadio, StateRecords

LEMMA CheckDestinationRadio ==
  ASSUME TypeInv, NEW s \in StateRecords, s.mode \in DestinationModes,
         CheckDestination(s)
  PROVE  \/ SameRadio /\ st'.mode \in DestinationModes
         \/ NewAttempt /\ st'.mode = "CONNECTING_TO_BOOTSTRAP"
<1>0. link \in LinkRecords
  BY DEF TypeInv, TypeOK
<1>1. CASE \E code, message : EnterWaitForBootstrap(code, message)
  BY <1>1, EntersAttempt
<1>2. CASE /\ link' \in {link, [link EXCEPT !.advanced = TRUE]}
           /\ st'.mode \in {s.mode, "CONNECTING_TO_DEST"}
  BY <1>0, <1>2 DEF SameRadio, LinkRecords, DestinationModes
<1>3. ASSUME AdvancedConnection(s)
      PROVE  \/ \E code, message : EnterWaitForBootstrap(code, message)
             \/ /\ link' \in {link, [link EXCEPT !.advanced = TRUE]}
                /\ st'.mode \in {s.mode, "CONNECTING_TO_DEST"}
  BY <1>3 DEF AdvancedConnection, StateRecords
<1>4. \/ \E code, message : EnterWaitForBootstrap(code, message)
      \/ /\ link' \in {link, [link EXCEPT !.advanced = TRUE]}
         /\ st'.mode \in {s.mode, "CONNECTING_TO_DEST"}
  BY <1>3 DEF CheckDestination, StateRecords
<1>5. QED BY <1>1, <1>2, <1>4

LEMMA PeriodicRadio ==
  ASSUME TypeInv, Periodic
  PROVE  ModeFollowsRadio
<1>0. TypeOK /\ st \in StateRecords /\ link \in LinkRecords
  BY DEF TypeInv, TypeOK
<1>1. Message("HELLO") # Message("BOOTSTRAP_OK")
  BY DEF Message
<1>2. CASE ServeFactoryReset
  BY <1>2 DEF ServeFactoryReset, Setup, SetupState, SetupLink, Periodic, Configured,
     WaitForBootstrapState, ZeroState, ModeFollowsRadio, NewAttempt
<1>3. CASE ServeBind \/ ServeWifiList
  BY <1>0, <1>3 DEF ServeBind, ServeWifiList, StateRecords, ModeFollowsRadio,
     SameRadio
<1>4. CASE ServeSetWifi
  BY <1>4, EntersAttempt DEF ServeSetWifi, ModeFollowsRadio
<1>5. CASE ReachBootstrap
  <2>1. [st EXCEPT !.mode = "WAITING_FOR_DATA"] \in StateRecords
    BY <1>0 DEF StateRecords, Modes
  <2>2. [st EXCEPT !.mode = "WAITING_FOR_DATA"].mode = "WAITING_FOR_DATA"
    BY <1>0 DEF StateRecords
  <2>3. \/ SameRadio /\ st'.mode \in BootstrapModes
        \/ NewAttempt /\ st'.mode = "CONNECTING_TO_DEST"
    BY <1>5, <2>1, <2>2, WaitForDataRadio DEF ReachBootstrap, BootstrapModes
  <2>4. Message("HELLO") \in sent'
    BY <1>5 DEF ReachBootstrap
  <2>5. QED BY <2>3, <2>4 DEF ModeFollowsRadio
<1>6. CASE RetryBootstrap
  BY <1>0, <1>6, EntersAttempt DEF RetryBootstrap, ModeFollowsRadio, SameRadio,
     NewAttempt, StateRecords
<1>7. CASE Wait
  BY <1>0, <1>7, WaitForDataRadio DEF Wait, ModeFollowsRadio, BootstrapModes
<1>8. CASE ReachDestination \/ AwaitDestination \/ StayConnected
  <2>1. /\ Arrived(st) \in StateRecords
        /\ Arrived(st).mode \in DestinationModes
    <3>1. 0 \in 0..MaxCount
      BY CountAssumption
    <3>2. QED
      BY <1>0, <3>1 DEF Arrived, StateRecords, Modes, ErrorCodes, Messages,
                        Deadlines, DestinationModes
  <2>2. st.mode \in DestinationModes /\ sent' = {}
    BY <1>8 DEF ReachDestination, AwaitDestination, StayConnected, DestinationModes
  <2>3. QED
    BY <1>0, <1>8, <2>1, <2>2, CheckDestinationRadio
    DEF ReachDestination, AwaitDestination, StayConnected, ModeFollowsRadio
<1>9. CASE RetryDestination
  <2>1. \/ \E code, message : EnterWaitForBootstrap(code, message)
        \/ st'.mode = st.mode /\ link' = ConnectedTo("destination", data)
    BY <1>0, <1>9 DEF RetryDestination, StateRecords
  <2>2. QED
    BY <1>9, <2>1, EntersAttempt DEF RetryDestination, ModeFollowsRadio, NewAttempt
<1>10. QED
  BY <1>2, <1>3, <1>4, <1>5, <1>6, <1>7, <1>8, <1>9 DEF Periodic, RunMode

\* A call serves what was noted, and without a request none appears.
LEMMA PeriodicRequests ==
  ASSUME Periodic, NEW request, flags \cap Requests \subseteq {request},
         "factory_reset" \in flags => st.mode = "DESTINATION_CONNECTED",
         StorageInv
  PROVE  flags' \cap Requests = {} /\ "factory_reset" \notin flags'
<1>1. "factory_reset" \in flags => flags \cap Requests = {}
  BY DEF StorageInv, RadioMatchesMode
<1>2. CASE ServeFactoryReset
  BY <1>2 DEF ServeFactoryReset, Setup
<1>3. CASE ServeBind
  BY <1>1, <1>3 DEF ServeBind, Pending, Before, Requests
<1>4. CASE ServeWifiList
  BY <1>1, <1>4 DEF ServeWifiList, Pending, Before, Requests
<1>5. CASE ServeSetWifi
  BY <1>5 DEF ServeSetWifi, EnterBootstrapped
<1>6. ASSUME RunMode PROVE flags' \subseteq flags /\ Idle
  BY <1>6 DEF RunMode, ReachBootstrap, RetryBootstrap, Wait, WaitForData,
     ReachDestination, AwaitDestination, StayConnected, RetryDestination,
     CheckDestination, AdvancedConnection, EnterBootstrapped, EnterWaitForBootstrap
<1>7. CASE RunMode
  BY <1>6, <1>7 DEF Idle
<1>8. QED BY <1>2, <1>3, <1>4, <1>5, <1>7 DEF Periodic

\* The two options that Configured tests do not change.
LEMMA PeriodicOptions ==
  ASSUME Periodic
  PROVE  Configured' /\ config' = config
BY DEF Periodic, ServeFactoryReset, Setup, SetupOptions, ServeBind, ServeWifiList,
   ServeSetWifi, RunMode, ram, Configured

-----------------------------------------------------------------------------
(* Each step keeps the invariant; TypeInv and StorageInv are kept by all steps *)
(* of the library already.                                                     *)

PlatformInv == RoundInv /\ RadioInv /\ SocketInv /\ StationInv /\ ValuesInv

LEMMA ButtonKeeps ==
  ASSUME EspInv, HandleButton
  PROVE  PlatformInv'
<1>1. /\ stage = "button" /\ stage' = "network"
      /\ UNCHANGED <<config, options, st, link, station, lost, socket, rssi>>
      /\ \/ UNCHANGED flags
         \/ st.mode = "DESTINATION_CONNECTED" /\ flags' = flags \cup {"factory_reset"}
         \/ flags' = flags \cup {"confirmation"}
      /\ timing' \in BOOLEAN
  BY DEF HandleButton, Released, FactoryReset, ConfirmBootstrap, vars, ram, EspInv,
     ValuesInv
<1>2. RoundInv'
  BY <1>1 DEF EspInv, RoundInv, Requests
<1>3. QED
  BY <1>1, <1>2 DEF EspInv, PlatformInv, RadioInv, SocketInv, StationInv, ValuesInv,
     Configured, Configuration

LEMMA PacketKeeps ==
  ASSUME EspInv, ReadPacket
  PROVE  PlatformInv'
<1>0. st \in StateRecords
  BY DEF EspInv, TypeInv, TypeOK
<1>1. /\ stage = "network" /\ stage' = "look"
      /\ UNCHANGED <<config, options, link, station, lost, socket, rssi, timing>>
  BY DEF ReadPacket, NetworkInput, vars
<1>2. st'.mode = st.mode
  BY <1>0 DEF ReadPacket, NetworkInput, Hello, LateCommand, Bind, SetData,
     WithoutSession, vars, StateRecords
<1>3. flags' = flags \/ \E request \in Requests : flags' = flags \cup {request}
  BY DEF ReadPacket, NetworkInput, Hello, LateCommand, Bind, SetData, vars, Requests
<1>4. RoundInv'
  BY <1>1, <1>2, <1>3 DEF EspInv, RoundInv, Requests
<1>5. QED
  BY <1>1, <1>2, <1>4 DEF EspInv, PlatformInv, RadioInv, SocketInv, StationInv,
     ValuesInv, Configured, Configuration

LEMMA LookKeeps ==
  ASSUME EspInv, Look
  PROVE  PlatformInv'
<1>0. link \in LinkRecords /\ st \in StateRecords
  BY DEF EspInv, TypeInv, TypeOK
<1>1. /\ stage = "look" /\ stage' = "periodic"
      /\ UNCHANGED <<config, options, st, flags, timing, lost, socket>>
  BY DEF Look, vars, ram
<1>2. RoundInv' /\ SocketInv'
  BY <1>1 DEF EspInv, RoundInv, SocketInv
<1>3. CASE Idle
  <2>1. GetConnectionState
    BY <1>3 DEF Look
  <2>2. \E status \in Answers : link' = [link EXCEPT !.status = status]
    BY <2>1 DEF GetConnectionState, Answers
  <2>3. /\ link'.target = link.target /\ link'.credentials = link.credentials
        /\ link'.status # "CONNECTING"
    BY <1>0, <2>2 DEF LinkRecords, Answers
  <2>4. /\ station' \in {station, Disconnected}
        /\ rssi' \in {Past} \cup 0..RssiPeriod
    BY <2>1, RssiAssumption DEF GetConnectionState, MeasureRssi, EspInv, ValuesInv
  <2>5. RadioInv' /\ Configuration' = Configuration
    BY <1>1, <2>3 DEF EspInv, RadioInv, Configured, Configuration
  <2>6. StationInv'
    BY <2>4, <2>5 DEF EspInv, StationInv, Disconnected, SdkStates
  <2>7. QED BY <1>1, <1>2, <2>4, <2>5, <2>6 DEF PlatformInv, EspInv, ValuesInv
<1>4. CASE ~Idle
  <2>1. st.mode \in {"WAITING_FOR_DATA", "DESTINATION_CONNECTED"}
    BY <1>4 DEF EspInv, StorageInv, RadioMatchesMode, RoundInv, Idle
  <2>2. UNCHANGED <<link, station, rssi>>
    BY <1>4 DEF Look, vars
  <2>3. QED
    BY <1>1, <1>2, <2>1, <2>2 DEF PlatformInv, EspInv, RadioInv, StationInv,
       ValuesInv, Configured, Configuration
<1>5. QED BY <1>3, <1>4

LEMMA LibraryKeeps ==
  ASSUME EspInv, RunLibrary
  PROVE  PlatformInv'
<1>0. link \in LinkRecords /\ st \in StateRecords /\ TypeInv
  BY DEF EspInv, TypeInv, TypeOK
<1>1. /\ stage = "periodic" /\ stage' = "button" /\ Periodic
      /\ UNCHANGED <<timing, rssi>>
  BY DEF RunLibrary
<1>2. RoundInv'
  BY <1>1, PeriodicRequests DEF EspInv, RoundInv
<1>3. link.status # "CONNECTING"
  BY <1>1 DEF EspInv, RadioInv
<1>4. ModeFollowsRadio
  BY <1>0, <1>1, PeriodicRadio
<1>5. Configured' /\ UNCHANGED config
  BY <1>1, PeriodicOptions
<1>6. CASE NewAttempt /\ st'.mode \in {"CONNECTING_TO_BOOTSTRAP", "CONNECTING_TO_DEST"}
  <2>1. /\ link'.status = "CONNECTING"
        /\ link'.target \in {"bootstrap", "destination"}
        /\ link'.target = "bootstrap" => link'.credentials = NoData
    BY <1>6 DEF NewAttempt, ConnectedTo
  <2>2. ConnectToWifi
    BY <2>1 DEF RunLibrary
  <2>3. SocketInv' /\ lost' \in BOOLEAN /\ socket' \in {"open", "closed", "failed"}
    BY <1>6, <2>2 DEF ConnectToWifi, SocketInv, DestinationModes, EspInv, ValuesInv
  <2>4. StationInv'
    BY <2>2 DEF ConnectToWifi, Attempting, StationInv, SdkStates
  <2>5. RadioInv'
    BY <1>1, <1>5, <1>6, <2>1 DEF RadioInv, EspInv
  <2>6. QED BY <1>1, <1>2, <2>3, <2>4, <2>5 DEF PlatformInv, EspInv, ValuesInv
<1>7. CASE SameRadio
  <2>1. link'.status # "CONNECTING" /\ Configuration' = Configuration
    BY <1>3, <1>7 DEF SameRadio, Configuration
  <2>2. RadioInv'
    BY <1>5, <1>7, <2>1 DEF RadioInv, EspInv, SameRadio
  <2>3. CASE Message("HELLO") \in sent'
    <3>1. socket' \in {"open", "failed"} /\ UNCHANGED <<station, lost>>
      BY <2>1, <2>3 DEF RunLibrary, ConnectedToBootstrapNetwork
    <3>2. st'.mode \notin DestinationModes
      BY <1>3, <1>4, <2>1, <2>3 DEF ModeFollowsRadio, NewAttempt, ConnectedTo,
         BootstrapModes, DestinationModes
    <3>3. QED
      BY <1>1, <1>2, <2>1, <2>2, <3>1, <3>2 DEF PlatformInv, EspInv, SocketInv,
         StationInv, ValuesInv
  <2>4. CASE Message("HELLO") \notin sent'
    <3>1. UNCHANGED <<station, lost, socket>>
      BY <2>1, <2>4 DEF RunLibrary
    <3>2. SocketInv'
      BY <1>4, <2>1, <2>4, <3>1 DEF ModeFollowsRadio, NewAttempt, ConnectedTo,
         EspInv, SocketInv, BootstrapModes, DestinationModes
    <3>3. QED
      BY <1>1, <1>2, <2>1, <2>2, <3>1, <3>2 DEF PlatformInv, EspInv, StationInv,
         ValuesInv
  <2>5. QED BY <2>3, <2>4
<1>8. QED BY <1>4, <1>6, <1>7 DEF ModeFollowsRadio

LEMMA SdkKeeps ==
  ASSUME EspInv, Sdk
  PROVE  PlatformInv'
<1>1. UNCHANGED <<stage, timing, socket, rssi, config, options, st, flags, link>>
  BY DEF Sdk, WifiNetworkList, ScanFails, vars, ram
<1>2. RoundInv' /\ RadioInv' /\ SocketInv'
  BY <1>1 DEF EspInv, RoundInv, RadioInv, SocketInv, Configured
<1>3. lost' \in BOOLEAN
  BY DEF Sdk, StationSettles, NetworkComesAndGoes, EspInv, ValuesInv
<1>4. Configuration \notin {NoNetwork} /\ Configuration' = Configuration
  BY <1>1 DEF EspInv, RadioInv, Configuration, NoNetwork
<1>5. \/ station' = station
      \/ station' = Disconnected
      \/ \E failure \in SdkStates \ {"STATION_GOT_IP"} :
            station' = [Disconnected EXCEPT !.status = failure]
      \/ station' = [status |-> "STATION_GOT_IP", network |-> Configuration]
  BY DEF Sdk, StationSettles, NetworkComesAndGoes, SdkStates, Unreachable
<1>6. StationInv'
  BY <1>4, <1>5 DEF EspInv, StationInv, Disconnected, SdkStates
<1>7. QED BY <1>1, <1>2, <1>3, <1>6 DEF PlatformInv, EspInv, ValuesInv

LEMMA TimeKeeps ==
  ASSUME EspInv, Time
  PROVE  PlatformInv'
<1>0. st \in StateRecords
  BY DEF EspInv, TypeInv, TypeOK
<1>1. UNCHANGED <<stage, timing, socket, lost, station, config, options, flags, link>>
  BY DEF Time, Tick, ram
<1>2. st'.mode = st.mode
  BY <1>0 DEF Time, Tick, StateRecords
<1>3. rssi' \in {Past} \cup 0..RssiPeriod
  BY RssiAssumption DEF Time, Elapsed, Past, EspInv, ValuesInv
<1>4. QED
  BY <1>1, <1>2, <1>3 DEF PlatformInv, EspInv, RoundInv, RadioInv, SocketInv,
     StationInv, ValuesInv, Configured, Configuration

\* What Init and Reboot have in common: an attempt, to the network of the mode.
LEMMA BootKeeps ==
  ASSUME EspInv, PowerLoss
  PROVE  PlatformInv'
<1>1. /\ Setup(config, flash'.data, flash'.secret, IdleLink)
      /\ config' = config
      /\ stage' = "button" /\ timing' = FALSE /\ station' = Attempting
      /\ lost' = FALSE /\ socket' = "closed" /\ rssi' = RssiPeriod
  BY DEF PowerLoss, Reboot, Booted
<1>2. config.hasBootstrapSsid /\ config.initialSecret # NoSecret
  BY DEF EspInv, RadioInv
<1>3. Configured'
  BY <1>1, <1>2 DEF Configured, Setup, SetupOptions
<1>4. /\ flags' = {}
      /\ st'.mode \in {"CONNECTING_TO_BOOTSTRAP", "CONNECTING_TO_DEST"}
      /\ link'.target \in {"bootstrap", "destination"}
      /\ link'.target = "bootstrap" => link'.credentials = NoData
  BY <1>1, <1>2 DEF Setup, SetupState, SetupLink, BootstrappedState,
     WaitForBootstrapState, ZeroState, ConnectedTo
<1>5. RoundInv' /\ RadioInv' /\ SocketInv'
  BY <1>1, <1>2, <1>3, <1>4 DEF RoundInv, RadioInv, SocketInv
<1>6. StationInv'
  BY <1>1 DEF StationInv, Attempting, SdkStates
<1>7. ValuesInv'
  <2>1. rssi' \in {Past} \cup 0..RssiPeriod
    BY <1>1, RssiAssumption
  <2>2. QED BY <1>1, <2>1 DEF ValuesInv
<1>8. QED BY <1>5, <1>6, <1>7 DEF PlatformInv

LEMMA InitEsp == EspInit => EspInv
<1> SUFFICES ASSUME EspInit PROVE EspInv
  OBVIOUS
<1>1. Init /\ TypeInv /\ StorageInv
  BY InitTypes, InitStorage DEF EspInit
<1>2. /\ stage = "button" /\ timing = FALSE /\ station = Attempting
      /\ lost = FALSE /\ socket = "closed" /\ rssi = RssiPeriod
  BY DEF EspInit
<1>3. config.hasBootstrapSsid /\ config.initialSecret # NoSecret
  BY <1>1, ProgramAssumption DEF Init
<1>4. Configured
  BY <1>1, <1>3 DEF Init, Configured, SetupOptions
<1>5. /\ flags = {}
      /\ st.mode \in {"CONNECTING_TO_BOOTSTRAP", "CONNECTING_TO_DEST"}
      /\ link.target \in {"bootstrap", "destination"}
      /\ link.target = "bootstrap" => link.credentials = NoData
  BY <1>1, <1>4 DEF Init, SetupState, SetupLink, BootstrappedState, Configured,
     WaitForBootstrapState, ZeroState, ConnectedTo, SetupOptions
<1>6. RoundInv /\ RadioInv /\ SocketInv
  BY <1>2, <1>3, <1>4, <1>5 DEF RoundInv, RadioInv, SocketInv, DestinationModes
<1>7. StationInv
  BY <1>2 DEF StationInv, Attempting, SdkStates
<1>8. ValuesInv
  <2>1. rssi \in {Past} \cup 0..RssiPeriod
    BY <1>2, RssiAssumption
  <2>2. QED BY <1>2, <2>1 DEF ValuesInv
<1>9. QED BY <1>1, <1>6, <1>7, <1>8 DEF EspInv

LEMMA NextEsp == EspInv /\ [EspNext]_espVars => EspInv' /\ [Next]_vars
<1> SUFFICES ASSUME EspInv, [EspNext]_espVars PROVE EspInv' /\ [Next]_vars
  OBVIOUS
<1>1. [Next]_vars
  BY LibrarySteps DEF EspInv, RadioInv
<1>2. (TypeInv /\ StorageInv)'
  BY <1>1, NextTypes, NextStorage DEF EspInv
<1>3. ASSUME UNCHANGED espVars PROVE PlatformInv'
  BY <1>3 DEF espVars, platformVars, vars, EspInv, PlatformInv, RoundInv, RadioInv,
     SocketInv, StationInv, ValuesInv, Configured, Configuration
<1>4. ASSUME EspNext PROVE PlatformInv'
  BY <1>4, ButtonKeeps, PacketKeeps, LookKeeps, LibraryKeeps, SdkKeeps,
     TimeKeeps, BootKeeps DEF EspNext, Loop
<1>5. PlatformInv'
  BY <1>3, <1>4
<1>6. EspInv'
  BY <1>2, <1>5 DEF EspInv, PlatformInv
<1>7. QED BY <1>1, <1>6

-----------------------------------------------------------------------------
(* Theorems *)

\* Each behaviour of the example program is one of BootstrapWifi: all that is
\* proved of the library holds in it.
THEOREM ProgramUsesLibrary == EspSpec => Spec
<1>1. EspInit => Init
  BY DEF EspInit
<1>2. QED BY <1>1, InitEsp, NextEsp, PTL DEF EspSpec, Spec

\* Types of the program's own variables, and what a stage knows about the last.
THEOREM EspTypesCorrect == EspSpec => []EspTypeOK
<1>1. EspInv => EspTypeOK
  <2> SUFFICES ASSUME EspInv PROVE EspTypeOK
    OBVIOUS
  <2>1. link \in LinkRecords
    BY DEF EspInv, TypeInv, TypeOK
  <2>2. Configuration \in Networks /\ NoNetwork \in Networks
    BY <2>1 DEF Configuration, NoNetwork, Networks, LinkRecords, DataValues
  <2>3. station \in [status : SdkStates, network : Networks]
    BY <2>2 DEF EspInv, StationInv
  <2>4. QED
    BY <2>3 DEF EspInv, EspTypeOK, RoundInv, RadioInv, StationInv, ValuesInv
<1>2. QED BY <1>1, InitEsp, NextEsp, PTL DEF EspSpec

\* Between two rounds flash holds what the apps have asked for.
THEOREM EachRoundStores == EspSpec => []StoredInEachRound
<1>1. EspInv => StoredInEachRound
  BY DEF EspInv, StorageInv, UnsavedChangesPending, RoundInv, Requests, Idle,
         StoredInEachRound
<1>2. QED BY <1>1, InitEsp, NextEsp, PTL DEF EspSpec

\* The socket for commands is open where packets matter, and nowhere else.
THEOREM SocketFollowsMode == EspSpec => []SocketMatchesMode
<1>1. EspInv => SocketMatchesMode
  BY DEF EspInv, SocketInv, SocketMatchesMode
<1>2. QED BY <1>1, InitEsp, NextEsp, PTL DEF EspSpec

\* The library does not take one network for the other.
THEOREM NetworkFollowsMode == EspSpec => []NetworkMatchesMode
<1>1. EspInv => NetworkMatchesMode
  BY DEF EspInv, StationInv, StorageInv, RadioMatchesMode, RadioInv, Configuration,
     NetworkMatchesMode, DestinationModes, BootstrapModes
<1>2. QED BY <1>1, InitEsp, NextEsp, PTL DEF EspSpec
=============================================================================
