--------------------------- MODULE BootstrapWifi ---------------------------
(***************************************************************************)
(* The bootstrap state machine of src/bootstrapWifi.c: one device that     *)
(* runs bst_setup once per boot and bst_periodic over and over, together   *)
(* with everything that may happen between two calls of bst_periodic: a    *)
(* packet for bst_network_input, the answer of a wifi scan, a call of the  *)
(* application, a change of the wifi link, the passing of time, a reboot.  *)
(*                                                                         *)
(* Time.  The code keeps absolute deadlines and compares them with the     *)
(* clock.  The model keeps what is left of them: a deadline d of the code  *)
(* is the number d - now here, and any deadline of the past is Past.  The  *)
(* field that the code sets to 0 is a deadline of the past.                *)
(*                                                                         *)
(* A wifi name, a key, a nonce and a message are model values; the bytes   *)
(* stored by the library are one member of Data, where NoData stands for   *)
(* data without an ssid.  Encryption and checksum are what they achieve: a *)
(* command is read if and only if it was sealed with the device nonce and  *)
(* the secret the device holds (Readable).                                 *)
(***************************************************************************)
EXTENDS Integers

CONSTANTS
  UserOptions,        \* the bst_connect_options an application may pass
  MaxCount,           \* largest value of the uint8_t attempt counter (255)
  Data,               \* stored bootstrap data that name an ssid
  NoData,             \* bootstrap data without an ssid
  SentData,           \* what the apps of a run put into SET_DATA
  BindKeys,           \* keys that an app may bind the device to
  LongKeys,           \* stored keys that are longer than BST_BINDKEY_MAX_SIZE
  Clamped,            \* the first BST_BINDKEY_MAX_SIZE bytes of each of them
  InitialSecret,      \* the factory secret
  NoSecret,           \* a key of length 0, or the NULL pointer for no secret
  AppNonces,          \* nonces that apps choose
  DeviceNonces,       \* nonces that bst_get_random yields
  NoNonce,            \* the zeroed nonce
  UserMessages,       \* texts the application gives to bst_set_error_message
  NoMessage,          \* the NULL message
  BootstrapReports,   \* link states the platform reports on the bootstrap net
  DestinationReports, \* link states the platform reports on the destination
  Reboots             \* whether the device may lose power and start again

Modes == {"UNINITIALIZED", "CONNECTING_TO_BOOTSTRAP", "WAITING_FOR_DATA",
          "CONNECTING_TO_DEST", "DESTINATION_CONNECTED"}
BootstrapModes   == {"CONNECTING_TO_BOOTSTRAP", "WAITING_FOR_DATA"}
DestinationModes == {"CONNECTING_TO_DEST", "DESTINATION_CONNECTED"}

Failures == {"FAILED_SSID_NOT_FOUND", "FAILED_CREDENTIALS_WRONG",
             "FAILED_ADVANCED"}
Established == {"CONNECTED", "CONNECTED_ADVANCED"}
Unconnected == {"NO_CONNECTION", "CONNECTING"}
LinkStates == Failures \cup Established \cup Unconnected

ErrorCodes == {"OK", "ERROR_WIFI_NOT_FOUND", "ERROR_WIFI_CREDENTIALS_WRONG",
               "ERROR_ADVANCED"}

\* The code a failed link is reported with; it names the default text too.
CodeOf(failure) ==
  CASE failure = "FAILED_SSID_NOT_FOUND"    -> "ERROR_WIFI_NOT_FOUND"
    [] failure = "FAILED_CREDENTIALS_WRONG" -> "ERROR_WIFI_CREDENTIALS_WRONG"
    [] failure = "FAILED_ADVANCED"          -> "ERROR_ADVANCED"

Messages == UserMessages \cup (ErrorCodes \ {"OK"}) \cup {NoMessage}

Requests == {"wifi_list", "set_wifi", "bind"}
Flags == Requests \cup {"factory_reset", "confirmation"}

Confirmations == {"NOT_REQUIRED", "REQUIRED_FIRST_START", "ALWAYS_REQUIRED"}

OptionRecords ==
  [hasBootstrapSsid : BOOLEAN, initialSecret : {InitialSecret, NoSecret},
   connectTimeout : Nat \ {0}, nonceTimeout : Nat \ {0},
   needAdvanced : BOOLEAN, confirmation : Confirmations,
   retryBootstrap : 0..MaxCount, retryDestination : 0..MaxCount]

\* What fits into crypto_secret and is not empty.
Secrets == BindKeys \cup {InitialSecret}

\* What the platform may have kept: a key that an app has bound, which may be
\* empty, or whatever key it gives to bst_setup.
StoredKeys == BindKeys \cup LongKeys \cup {NoSecret}

ASSUME CountAssumption == MaxCount \in Nat \ {0}
ASSUME OptionsAssumption == UserOptions \subseteq OptionRecords
ASSUME DataAssumption == NoData \notin Data /\ SentData \subseteq Data \cup {NoData}
ASSUME KeyAssumption ==
  /\ NoSecret \notin Secrets \cup LongKeys
  /\ InitialSecret \notin BindKeys
  /\ LongKeys \cap Secrets = {}
  /\ Clamped \in [LongKeys -> BindKeys]
ASSUME NonceAssumption == NoNonce \notin AppNonces \cup DeviceNonces
ASSUME MessageAssumption ==
  /\ NoMessage \notin UserMessages \cup ErrorCodes
  /\ UserMessages \cap ErrorCodes = {}
ASSUME ReportAssumption ==
  /\ BootstrapReports \subseteq LinkStates
  /\ DestinationReports \subseteq LinkStates
  /\ Reboots \in BOOLEAN

-----------------------------------------------------------------------------
VARIABLES
  config,   \* the options the application passes to bst_setup on every boot
  options,  \* prv_instance.options
  data,     \* prv_instance.storage with the pointers into it
  secret,   \* prv_instance.crypto_secret
  st,       \* prv_instance.state
  flags,    \* prv_instance.flags: the ones that are set
  flash,    \* what bst_store_bootstrap_data and bst_store_crypto_secret kept
  link,     \* the platform's radio: what it was told and what it reports
  scan,     \* whether the platform owes an answer to a scan request
  sent      \* the packets given to bst_network_output by the last step

vars == <<config, options, data, secret, st, flags, flash, link, scan, sent>>
ram  == <<options, data, secret>>

Past == -1
Deadlines == Nat \cup {Past}
DataValues == Data \cup {NoData}

StateRecords ==
  [mode : Modes, lastError : ErrorCodes, errorMsg : Messages,
   count : 0..MaxCount, timeout : Deadlines, appNonce : AppNonces \cup {NoNonce},
   deviceNonce : DeviceNonces \cup {NoNonce}, nonceValid : Deadlines]

LinkRecords ==
  [target : {"none", "bootstrap", "destination"}, credentials : DataValues,
   status : LinkStates, advanced : BOOLEAN]

-----------------------------------------------------------------------------
(* Sessions, counters and deadlines *)

\* Mutant: the session ends when its deadline is now.
SessionStillValid(s) == s.nonceValid > 0

\* prv_is_app_session_valid: the deadline may be now.
SessionValid(s) == s.nonceValid >= 0

\* The test of prv_enter_and_keep_app_session for starting a new session.
SessionFree(s) == s.nonceValid <= 0

WithoutSession(s) ==
  [s EXCEPT !.nonceValid = Past, !.appNonce = NoNonce, !.deviceNonce = NoNonce]

\* Mutant: the increment is forgotten.
Unincremented(c) == c

\* ++count of a uint8_t
Incremented(c) == (c + 1) % (MaxCount + 1)

\* The memset of prv_instance.state
ZeroState ==
  [mode |-> "UNINITIALIZED", lastError |-> "OK", errorMsg |-> NoMessage,
   count |-> 0, timeout |-> Past, appNonce |-> NoNonce,
   deviceNonce |-> NoNonce, nonceValid |-> Past]

\* The text for the bootstrap app: the application's own one comes first.
Explanation(s, code) == IF s.errorMsg # NoMessage THEN s.errorMsg ELSE code

-----------------------------------------------------------------------------
(* Entering a mode, and bst_setup *)

\* bst_connect_to_wifi: the platform drops what it had and starts over.
ConnectedTo(target, credentials) ==
  [target |-> target, credentials |-> credentials, status |-> "CONNECTING",
   advanced |-> FALSE]

\* The state prv_enter_wait_for_bootstrap_mode leaves behind.
WaitForBootstrapState(o, code, message) ==
  [ZeroState EXCEPT !.mode = "CONNECTING_TO_BOOTSTRAP", !.lastError = code,
                    !.errorMsg = message, !.timeout = o.connectTimeout]

\* The state prv_enter_bootstrapped_mode leaves behind.
BootstrappedState(o) ==
  [ZeroState EXCEPT !.mode = "CONNECTING_TO_DEST", !.timeout = o.connectTimeout]

\* Mutant: the flags are not cleared.
EnterWaitForBootstrapKeepingFlags(code, message) ==
  /\ st' = WaitForBootstrapState(options, code, message)
  /\ flags' = flags
  /\ link' = ConnectedTo("bootstrap", NoData)

EnterWaitForBootstrap(code, message) ==
  /\ st' = WaitForBootstrapState(options, code, message)
  /\ flags' = {}
  /\ link' = ConnectedTo("bootstrap", NoData)

\* Mutants: the flags, or the message, are not cleared.
EnterBootstrappedKeepingFlags ==
  /\ st' = BootstrappedState(options)
  /\ flags' = flags
  /\ link' = ConnectedTo("destination", data)
EnterBootstrappedKeepingMessage ==
  /\ st' = [BootstrappedState(options) EXCEPT !.errorMsg = st.errorMsg]
  /\ flags' = {}
  /\ link' = ConnectedTo("destination", data)

EnterBootstrapped ==
  /\ st' = BootstrappedState(options)
  /\ flags' = {}
  /\ link' = ConnectedTo("destination", data)

\* Confirmation is asked for at the first start only: not once data are stored.
SetupOptions(o, d) ==
  IF d # NoData /\ o.confirmation = "REQUIRED_FIRST_START"
  THEN [o EXCEPT !.confirmation = "NOT_REQUIRED"] ELSE o

\* Mutant: the stored secret is not loaded.
SetupSecretInitial(o, key) == o.initialSecret

\* A stored key is cut at the size of crypto_secret; an empty one is none.
SetupSecret(o, key) ==
  CASE key \in LongKeys -> Clamped[key]
    [] key = NoSecret   -> o.initialSecret
    [] OTHER            -> key

SetupState(o, d) ==
  IF d # NoData THEN BootstrappedState(o)
  ELSE IF o.hasBootstrapSsid THEN WaitForBootstrapState(o, "OK", NoMessage)
  ELSE ZeroState

SetupLink(o, d, idle) ==
  IF d # NoData THEN ConnectedTo("destination", d)
  ELSE IF o.hasBootstrapSsid THEN ConnectedTo("bootstrap", NoData)
  ELSE idle

\* bst_setup(o, d, key): everything in RAM is overwritten.
Setup(o, d, key, idle) ==
  /\ options' = SetupOptions(o, d)
  /\ data' = d
  /\ secret' = SetupSecret(o, key)
  /\ st' = SetupState(o, d)
  /\ flags' = {}
  /\ link' = SetupLink(o, d, idle)

\* The radio of a device that was just switched on.
IdleLink == [target |-> "none", credentials |-> NoData,
             status |-> "NO_CONNECTION", advanced |-> FALSE]

\* Mutant: a factory reset stores the factory secret as if an app had bound it.
DefaultFlash == [data |-> NoData, secret |-> InitialSecret]

EmptyFlash == [data |-> NoData, secret |-> NoSecret]

\* The program after main's call of bst_setup, on a device that is new, bound
\* or bootstrapped already.
Init ==
  /\ config \in UserOptions
  /\ flash \in [data : DataValues, secret : StoredKeys]
  /\ options = SetupOptions(config, flash.data)
  /\ data = flash.data
  /\ secret = SetupSecret(config, flash.secret)
  /\ st = SetupState(config, flash.data)
  /\ flags = {}
  /\ link = SetupLink(config, flash.data, IdleLink)
  /\ scan = FALSE
  /\ sent = {}

-----------------------------------------------------------------------------
(* bst_periodic: the requests noted since the last call, one per call *)

\* The first test: without these two options the library does nothing.
Configured == options.hasBootstrapSsid /\ options.initialSecret # NoSecret

\* Mutant: new data are stored before anything else is looked at.
BeforeDataFirst(request) ==
  CASE request = "set_wifi"      -> {}
    [] request = "factory_reset" -> {"set_wifi"}
    [] request = "bind"          -> {"set_wifi", "factory_reset"}
    [] request = "wifi_list"     -> {"set_wifi", "factory_reset", "bind"}

\* The requests that are looked at before this one.
Before(request) ==
  CASE request = "factory_reset" -> {}
    [] request = "bind"          -> {"factory_reset"}
    [] request = "wifi_list"     -> {"factory_reset", "bind"}
    [] request = "set_wifi"      -> {"factory_reset", "bind", "wifi_list"}

Pending(request) == request \in flags /\ Before(request) \cap flags = {}

Idle == flags \cap (Requests \cup {"factory_reset"}) = {}

Message(code) == [kind |-> "message", code |-> code]

ServeFactoryReset ==
  /\ Pending("factory_reset")
  /\ flash' = EmptyFlash
  /\ Setup(options, NoData, NoSecret, link)
  /\ sent' = {}
  /\ UNCHANGED scan

ServeBind ==
  /\ Pending("bind")
  /\ flags' = flags \ {"bind"}
  /\ st' = [st EXCEPT !.lastError = "OK"]
  /\ flash' = [flash EXCEPT !.secret = secret]
  /\ scan' = TRUE
  /\ sent' = {}
  /\ UNCHANGED <<ram, link>>

ServeWifiList ==
  /\ Pending("wifi_list")
  /\ flags' = flags \ {"wifi_list"}
  /\ scan' = TRUE
  /\ sent' = {}
  /\ UNCHANGED <<ram, st, flash, link>>

ServeSetWifi ==
  /\ Pending("set_wifi")
  /\ sent' = {Message("BOOTSTRAP_OK")}
  /\ flash' = [flash EXCEPT !.data = data]
  /\ EnterBootstrapped
  /\ UNCHANGED <<ram, scan>>

-----------------------------------------------------------------------------
(* bst_periodic: the mode, when nothing is requested *)

\* The case BST_MODE_WAITING_FOR_DATA, with s the state it finds.
WaitForData(s) ==
  \/ /\ link.status # "CONNECTED"
     /\ st' = [s EXCEPT !.mode = "CONNECTING_TO_BOOTSTRAP"]
     /\ UNCHANGED <<flags, link>>
  \/ /\ link.status = "CONNECTED" /\ s.timeout > 0
     /\ st' = s
     /\ UNCHANGED <<flags, link>>
  \/ /\ link.status = "CONNECTED" /\ s.timeout <= 0
     /\ data = NoData \/ SessionValid(s)
     /\ st' = [s EXCEPT !.timeout = options.connectTimeout]
     /\ UNCHANGED <<flags, link>>
  \/ /\ link.status = "CONNECTED" /\ s.timeout <= 0
     /\ data # NoData /\ ~SessionValid(s)
     /\ EnterBootstrapped

Wait ==
  /\ st.mode = "WAITING_FOR_DATA"
  /\ WaitForData(st)
  /\ sent' = {}

\* The callback bst_connected_to_bootstrap_network and a HELLO, then straight
\* into the next case.
ReachBootstrap ==
  /\ st.mode = "CONNECTING_TO_BOOTSTRAP"
  /\ link.status \in Established
  /\ sent' = {Message("HELLO")}
  /\ WaitForData([st EXCEPT !.mode = "WAITING_FOR_DATA"])

\* Mutant: the counter is compared before it is incremented.
KeepTryingOnceMore(attempts) == attempts - 1 <= options.retryBootstrap

\* Too few attempts so far for giving up on the bootstrap network.
KeepTrying(attempts) == attempts <= options.retryBootstrap

RetryBootstrap ==
  /\ st.mode = "CONNECTING_TO_BOOTSTRAP"
  /\ link.status \notin Established
  /\ sent' = {}
  /\ LET attempts == Incremented(st.count)
     IN \/ /\ st.timeout > 0
           /\ UNCHANGED <<st, flags, link>>
        \/ /\ st.timeout <= 0 /\ data = NoData
           /\ st' = [st EXCEPT !.timeout = options.connectTimeout]
           /\ link' = ConnectedTo("bootstrap", NoData)
           /\ UNCHANGED flags
        \/ /\ st.timeout <= 0 /\ data # NoData /\ KeepTrying(attempts)
           /\ st' = [st EXCEPT !.timeout = options.connectTimeout,
                               !.count = attempts]
           /\ link' = ConnectedTo("bootstrap", NoData)
           /\ UNCHANGED flags
        \/ /\ st.timeout <= 0 /\ data # NoData /\ ~KeepTrying(attempts)
           /\ EnterBootstrapped

\* CONNECTED while an advanced connection is wanted: try it at every deadline.
AdvancedConnection(s) ==
  \/ /\ s.count > options.retryDestination
     /\ EnterWaitForBootstrap("ERROR_ADVANCED", Explanation(s, "ERROR_ADVANCED"))
  \/ /\ s.count <= options.retryDestination /\ s.timeout <= 0
     /\ st' = [s EXCEPT !.count = Incremented(s.count),
                        !.timeout = options.connectTimeout]
     /\ link' = [link EXCEPT !.advanced = TRUE]
     /\ UNCHANGED flags
  \/ /\ s.count <= options.retryDestination /\ s.timeout > 0
     /\ st' = s
     /\ UNCHANGED <<flags, link>>

\* The case BST_MODE_DESTINATION_CONNECTED, with s the state it finds.
CheckDestination(s) ==
  \/ /\ link.status \in Failures
     /\ LET code == CodeOf(link.status)
        IN EnterWaitForBootstrap(code, Explanation(s, code))
  \/ /\ link.status = "CONNECTED" /\ options.needAdvanced
     /\ AdvancedConnection(s)
  \/ /\ link.status = "CONNECTED" /\ ~options.needAdvanced
     /\ st' = s
     /\ UNCHANGED <<flags, link>>
  \/ /\ link.status = "CONNECTED_ADVANCED"
     /\ st' = [s EXCEPT !.errorMsg = NoMessage, !.lastError = "OK"]
     /\ UNCHANGED <<flags, link>>
  \/ /\ link.status \in Unconnected
     /\ st' = [s EXCEPT !.mode = "CONNECTING_TO_DEST"]
     /\ UNCHANGED <<flags, link>>

StayConnected ==
  /\ st.mode = "DESTINATION_CONNECTED"
  /\ CheckDestination(st)
  /\ sent' = {}

\* What the wifi connection changes before the next case looks at it.
Arrived(s) ==
  IF options.needAdvanced
  THEN [s EXCEPT !.mode = "DESTINATION_CONNECTED", !.timeout = Past,
                 !.count = 0, !.errorMsg = NoMessage, !.lastError = "OK"]
  ELSE [s EXCEPT !.mode = "DESTINATION_CONNECTED"]

ReachDestination ==
  /\ st.mode = "CONNECTING_TO_DEST"
  /\ link.status \in Established
  /\ CheckDestination(Arrived(st))
  /\ sent' = {}

\* The attempts after which the destination counts as lost.
GiveUp(attempts) == attempts >= options.retryDestination

RetryDestination ==
  /\ st.mode = "CONNECTING_TO_DEST"
  /\ link.status \notin Established
  /\ st.timeout < 0
  /\ sent' = {}
  /\ LET attempts == Incremented(st.count)
         code == "ERROR_WIFI_NOT_FOUND"
     IN \/ /\ GiveUp(attempts)
           /\ EnterWaitForBootstrap(code, Explanation(st, code))
        \/ /\ ~GiveUp(attempts)
           /\ st' = [st EXCEPT !.timeout = options.connectTimeout,
                               !.count = attempts]
           /\ link' = ConnectedTo("destination", data)
           /\ UNCHANGED flags

\* Neither connected nor late: this case, too, runs into the next one.
AwaitDestination ==
  /\ st.mode = "CONNECTING_TO_DEST"
  /\ link.status \notin Established
  /\ st.timeout >= 0
  /\ CheckDestination(st)
  /\ sent' = {}

RunMode ==
  /\ Idle
  /\ \/ ReachBootstrap \/ RetryBootstrap \/ Wait
     \/ ReachDestination \/ RetryDestination \/ AwaitDestination
     \/ StayConnected
  /\ UNCHANGED <<ram, flash, scan>>

Periodic ==
  /\ Configured
  /\ \/ ServeFactoryReset \/ ServeBind \/ ServeWifiList \/ ServeSetWifi
     \/ RunMode
  /\ UNCHANGED config

-----------------------------------------------------------------------------
(* bst_network_input *)

HelloPackets == [cmd : {"HELLO"}, appNonce : AppNonces]
Seals == [nonce : DeviceNonces \cup {NoNonce}, key : Secrets \cup {NoSecret}]

\* The new key is of any length up to the BST_BINDKEY_MAX_SIZE bytes that the packet
\* has for it, 0 included.  That new_bind_key_len keeps to that is a condition on
\* the apps, which the code does not test.
BindPackets == [cmd : {"BIND"}, seal : Seals, newKey : BindKeys \cup {NoSecret}]

SetDataPackets == [cmd : {"SET_DATA"}, seal : Seals, data : SentData]

\* prv_check_header_and_decrypt: what the checksum lets through.
Readable(p) == p.seal = [nonce |-> st.deviceNonce, key |-> secret]

\* Mutant: every HELLO starts a session.
WelcomeAnyone(a) == TRUE

\* prv_enter_and_keep_app_session: a free session goes to whoever says HELLO,
\* a running one is only renewed by the app it belongs to.
Welcome(a) == SessionFree(st) \/ st.appNonce = a

Hello(p) ==
  /\ p.cmd = "HELLO"
  /\ Welcome(p.appNonce)
  /\ \E n \in DeviceNonces :
       st' = [st EXCEPT !.appNonce = p.appNonce, !.deviceNonce = n,
                        !.nonceValid = options.nonceTimeout]
  /\ flags' = flags \cup {"wifi_list"}
  /\ UNCHANGED <<data, secret>>

\* A command that comes too late ends what is left of the session.
LateCommand(p) ==
  /\ p.cmd \in {"BIND", "SET_DATA"}
  /\ Readable(p)
  /\ ~SessionValid(st)
  /\ st' = WithoutSession(st)
  /\ UNCHANGED <<data, secret, flags>>

Bind(p) ==
  /\ p.cmd = "BIND"
  /\ Readable(p)
  /\ SessionValid(st)
  /\ "bind" \notin flags
  /\ secret' = p.newKey
  /\ flags' = flags \cup {"bind"}
  /\ UNCHANGED <<data, st>>

Confirmed == options.confirmation = "NOT_REQUIRED" \/ "confirmation" \in flags

SetData(p) ==
  /\ p.cmd = "SET_DATA"
  /\ Readable(p)
  /\ SessionValid(st)
  /\ Confirmed
  /\ "set_wifi" \notin flags
  /\ data' = p.data
  /\ flags' = flags \cup {"set_wifi"}
  /\ UNCHANGED <<secret, st>>

\* Packets are looked at in one mode only; a packet that is not acted upon is a
\* step that changes nothing.
NetworkInput(p) ==
  /\ st.mode = "WAITING_FOR_DATA"
  /\ Hello(p) \/ LateCommand(p) \/ Bind(p) \/ SetData(p)
  /\ sent' = {}
  /\ UNCHANGED <<config, options, flash, link, scan>>

Packets == HelloPackets \cup BindPackets \cup SetDataPackets

-----------------------------------------------------------------------------
(* The platform and the application *)

\* What flash may hold when the power goes: a factory reset empties one store after
\* the other, and may get no further than the first.
KeptInFlash ==
  IF Configured /\ Pending("factory_reset")
  THEN {flash, [flash EXCEPT !.data = NoData]} ELSE {flash}

\* A crash or a loss of power, and the next start with what flash kept.
Reboot ==
  /\ Reboots
  /\ flash' \in KeptInFlash
  /\ Setup(config, flash'.data, flash'.secret, IdleLink)
  /\ scan' = FALSE
  /\ sent' = {}
  /\ UNCHANGED config

\* What the app may conclude about the confirmation button.
ConfirmationState ==
  IF options.confirmation = "NOT_REQUIRED" THEN "CONFIRM_NOT_REQUIRED"
  ELSE IF "confirmation" \in flags THEN "CONFIRM_OK" ELSE "CONFIRM_REQUIRED"

\* The packet of bst_wifi_network_list; the log is the device name (NoMessage
\* here) unless there is an error to explain.
WifiListPacket ==
  [kind |-> "wifi_list", code |-> st.lastError, nonce |-> st.deviceNonce,
   confirmation |-> ConfirmationState,
   log |-> IF st.lastError # "OK" THEN st.errorMsg ELSE NoMessage,
   seal |-> [nonce |-> st.appNonce, key |-> secret]]

\* bst_wifi_network_list, called once a scan has ended.
WifiNetworkList ==
  /\ scan
  /\ scan' = FALSE
  /\ sent' = IF st.mode = "WAITING_FOR_DATA" THEN {WifiListPacket} ELSE {}
  /\ UNCHANGED <<config, ram, st, flags, flash, link>>

\* The platform gives up a scan and never calls back.
ScanFails ==
  /\ scan
  /\ scan' = FALSE
  /\ sent' = {}
  /\ UNCHANGED <<config, ram, st, flags, flash, link>>

\* bst_set_error_message(NULL or a text)
SetErrorMessage(message) ==
  /\ st' = [st EXCEPT !.errorMsg = message]
  /\ sent' = {}
  /\ UNCHANGED <<config, ram, flags, flash, link, scan>>

\* bst_factory_reset
FactoryReset ==
  /\ flags' = flags \cup {"factory_reset"}
  /\ sent' = {}
  /\ UNCHANGED <<config, ram, st, flash, link, scan>>

\* bst_confirm_bootstrap
ConfirmBootstrap ==
  /\ flags' = flags \cup {"confirmation"}
  /\ sent' = {}
  /\ UNCHANGED <<config, ram, st, flash, link, scan>>

Reports ==
  CASE link.target = "bootstrap"   -> BootstrapReports
    [] link.target = "destination" -> DestinationReports
    [] OTHER                       -> {}

\* The value bst_get_connection_state returns changes.
LinkChanges ==
  /\ \E status \in Reports : link' = [link EXCEPT !.status = status]
  /\ sent' = {}
  /\ UNCHANGED <<config, ram, st, flags, flash, scan>>

Elapsed(deadline) == IF deadline > Past THEN deadline - 1 ELSE Past

\* One unit of time goes by.
Tick ==
  /\ st' = [st EXCEPT !.timeout = Elapsed(@), !.nonceValid = Elapsed(@)]
  /\ sent' = {}
  /\ UNCHANGED <<config, ram, flags, flash, link, scan>>

-----------------------------------------------------------------------------
Environment ==
  \/ \E p \in Packets : NetworkInput(p)
  \/ WifiNetworkList
  \/ ScanFails
  \/ \E message \in UserMessages \cup {NoMessage} : SetErrorMessage(message)
  \/ FactoryReset
  \/ ConfirmBootstrap
  \/ LinkChanges
  \/ Reboot

Next == Periodic \/ Environment \/ Tick

Spec == Init /\ [][Next]_vars

\* The application calls bst_periodic from its main loop, and time goes by.
\* Nothing is assumed of apps, users and the radio.
FairSpec == Spec /\ WF_vars(Periodic) /\ WF_vars(Tick)

-----------------------------------------------------------------------------
(* Safety *)

\* Every variable has the type its declaration in prv_bootstrapWifi.h gives it.
TypeOK ==
  /\ config \in OptionRecords
  /\ options \in OptionRecords
  /\ data \in DataValues
  /\ secret \in Secrets \cup {NoSecret}
  /\ st \in StateRecords
  /\ flags \in SUBSET Flags
  /\ flash \in [data : DataValues, secret : StoredKeys]
  /\ link \in LinkRecords
  /\ scan \in BOOLEAN

\* RAM holds the key of flash, or what bst_setup has made of it: the two differ for
\* a key that is too long, and for an empty one until the next boot.
KeySaved  == secret \in {flash.secret, SetupSecret(options, flash.secret)}
DataSaved == data = flash.data

\* What an app changed in RAM and flash does not hold yet is going to be stored:
\* the request that stores it is still noted.  bst_periodic stores one thing per
\* call, and entering a mode forgets every request, so a bind and new data that
\* arrive between two calls of bst_periodic depend on the order of its tests.
UnsavedChangesPending ==
  /\ ~KeySaved => "bind" \in flags
  /\ ~DataSaved => "set_wifi" \in flags

\* Requests of an app exist only while the device waits for data, and the radio
\* was told what the mode of the state machine needs: in the two destination
\* modes it uses the credentials that flash holds, and an attempt of the
\* advanced connection counts only if bst_connect_advanced was called on the
\* present wifi connection.
RadioMatchesMode ==
  /\ flags \cap Requests # {} => st.mode = "WAITING_FOR_DATA"
  /\ st.mode \in BootstrapModes => link.target = "bootstrap"
  /\ st.mode \in DestinationModes =>
       /\ link.target = "destination"
       /\ link.credentials = data
       /\ data = flash.data
  /\ /\ st.mode = "DESTINATION_CONNECTED" /\ options.needAdvanced
     /\ st.count > 0
     => link.advanced

\* The attempt counter, which three modes share, never passes the limit of the
\* mode the device is in.
AttemptsBounded ==
  /\ st.mode \in BootstrapModes =>
       st.count <= options.retryBootstrap
  /\ st.mode \in DestinationModes =>
       st.count <= options.retryDestination + 1
  /\ st.mode \in DestinationModes /\ ~options.needAdvanced =>
       st.count = 0 \/ st.count < options.retryDestination

\* A default text in error_log_msg belongs to the error code the app is told,
\* unless a bind has cleared the code: no explanation of an earlier failure
\* survives into the next bootstrap phase.
DiagnosisConsistent ==
  /\ st.errorMsg \in ErrorCodes => st.lastError \in {st.errorMsg, "OK"}
  /\ st.mode \in DestinationModes =>
       st.lastError = "OK" /\ st.errorMsg \notin ErrorCodes

\* While a session runs no other app takes it over: its nonce changes only when
\* the whole bootstrap phase ends.
SessionNotTakenOver ==
  [][st.nonceValid > 0 /\ st'.appNonce # st.appNonce
       => st'.appNonce = NoNonce /\ flags' = {}]_vars

\* A request is forgotten only because it was served, although both functions
\* that enter a mode clear all flags: a key and data that were asked to be stored
\* are in flash, and a list that was asked for is on its way.  Only a reset and a
\* loss of power wipe what apps asked for; nothing but the latter forgets a reset.
RequestsAreServed ==
  [][ \/ Reboot
      \/ "factory_reset" \in flags /\ flash' = EmptyFlash /\ flags' = {}
      \/ /\ "factory_reset" \in flags => "factory_reset" \in flags'
         /\ "bind" \in flags \ flags' => flash'.secret = secret
         /\ "set_wifi" \in flags \ flags' => flash'.data = data
         /\ "wifi_list" \in flags \ flags' => scan' ]_vars

\* What belongs to one bootstrap phase (session, confirmation, requests, number
\* of attempts) is not there any more when the next phase begins.
PhaseStartsClean ==
  [][st.mode \in DestinationModes /\ st'.mode \in BootstrapModes
       => /\ flags' = {} /\ st'.count = 0
          /\ st'.appNonce = NoNonce /\ st'.deviceNonce = NoNonce]_vars

-----------------------------------------------------------------------------
(* Liveness, under FairSpec *)

\* A device that has stored data is outside of the bootstrap modes again and again,
\* whoever sends packets, unless it has a session again and again (README.md, "App
\* session"), or finds the bootstrap network with an advanced connection again and
\* again: that link state is taken for a connection by the first bootstrap mode
\* and for a loss of it by the second, before either looks at a deadline.
ReturnsToDestination ==
  []<>( \/ st.mode \notin BootstrapModes \/ data = NoData
        \/ SessionValid(st)
        \/ link.status = "CONNECTED_ADVANCED" )

\* What a connection has to be for the application.
Usable(status) ==
  \/ status = "CONNECTED_ADVANCED"
  \/ status = "CONNECTED" /\ ~options.needAdvanced

\* A destination whose link stays in one state without being usable is given up
\* after finitely many attempts.  No connection and the attempts to get one are one
\* state here, as each attempt begins with CONNECTING.
GivesUpOnDestination ==
  \A states \in {Unconnected} \cup {{status} : status \in LinkStates} :
    []<>~( /\ st.mode \in DestinationModes
           /\ link.status \in states /\ ~Usable(link.status) )

\* A factory reset that was asked for is carried out, whatever apps ask for in
\* the meantime: flash is empty and the device looks for the bootstrap network.
FactoryResetHappens ==
  "factory_reset" \in flags
    ~> flash = EmptyFlash /\ st.mode = "CONNECTING_TO_BOOTSTRAP"

\* The key an app has bound reaches flash, whatever else apps ask for.  So do
\* data, unless apps say HELLO or BIND for ever, which is served before new data.
ChangesReachFlash ==
  /\ []<>KeySaved
  /\ <>[](flags \cap {"bind", "wifi_list"} = {}) => []<>(DataSaved /\ KeySaved)

-----------------------------------------------------------------------------
(* Refinement *)

Flashed == [data |-> flash.data, key |-> flash.secret]

PhaseOf(mode) ==
  IF mode = "UNINITIALIZED" THEN "off"
  ELSE IF mode \in BootstrapModes THEN "bootstrap" ELSE "destination"

Joined == IF link.target = "destination" THEN link.credentials ELSE NoData

Online == link.status \in Established

SessionOf(deadline) ==
  IF deadline > 0 THEN "held" ELSE IF deadline = 0 THEN "last" ELSE "over"

\* What is offered is in RAM already; the request says that it is an offer.
NewKey  == IF "bind" \in flags THEN {secret} ELSE {}
NewData == IF "set_wifi" \in flags THEN {data} ELSE {}

Resetting == "factory_reset" \in flags

Promise == INSTANCE Bootstrapping WITH
  Keys <- BindKeys \cup LongKeys, NoKey <- NoSecret,
  Apps <- AppNonces, Nobody <- NoNonce,
  kept <- Flashed, phase <- PhaseOf(st.mode), joined <- Joined, online <- Online,
  owner <- st.appNonce, session <- SessionOf(st.nonceValid),
  newKey <- NewKey, newData <- NewData, resetting <- Resetting

\* The library keeps the promise of Bootstrapping: among others, what the radio
\* uses at the destination is what flash holds, an offer is stored once and in
\* order although RAM changes at once and flash later, and no branch of the
\* switch in bst_periodic ends a running session whose network is in reach.
ImplementsBootstrapping == Promise!Spec

-----------------------------------------------------------------------------
(* What the documentation says and the program does not do *)

\* test/statemachine_tests.cpp:197: "Without an app session, initiated by a hello
\* packet, no network response should be generated."  A list of networks is sent
\* only while the nonce of an app is there to seal it.
ResponseNeedsSession ==
  \A p \in sent : p.kind = "wifi_list" => p.seal.nonce # NoNonce

\* prv_bootstrapWifi.h:32: the user options "will also survive a factory reset".
OptionsSurviveFactoryReset == [][ServeFactoryReset => options' = config]_vars
=============================================================================
