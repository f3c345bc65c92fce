------------------------ MODULE BootstrapWifi_proofs ------------------------
(***************************************************************************)
(* Proofs about BootstrapWifi, for every value of its constants: any set   *)
(* of options, any width of the attempt counter, any number of apps, keys  *)
(* and messages, any reports of the platform.                              *)
(***************************************************************************)
EXTENDS BootstrapWifi, TLAPS

-----------------------------------------------------------------------------
(* Types *)

\* The two modes that are entered by clearing the state.
LEMMA StateTypes ==
  ASSUME NEW o \in OptionRecords, NEW code \in ErrorCodes, NEW message \in Messages
  PROVE  /\ ZeroState \in StateRecords
         /\ WaitForBootstrapState(o, code, message) \in StateRecords
         /\ BootstrappedState(o) \in StateRecords
<1>1. ZeroState \in StateRecords
  <2>1. 0 \in 0..MaxCount
    BY CountAssumption
  <2>2. QED
    BY <2>1 DEF ZeroState, StateRecords, Modes, ErrorCodes, Messages, Deadlines
<1>2. o.connectTimeout \in Deadlines
  BY DEF OptionRecords, Deadlines
<1>3. WaitForBootstrapState(o, code, message) \in StateRecords
  BY <1>1, <1>2 DEF WaitForBootstrapState, StateRecords, Modes
<1>4. BootstrappedState(o) \in StateRecords
  BY <1>1, <1>2 DEF BootstrappedState, StateRecords, Modes
<1>5. QED BY <1>1, <1>3, <1>4

LEMMA ConnectedTypes ==
  ASSUME NEW d \in DataValues
  PROVE  \A target \in {"bootstrap", "destination"} :
           ConnectedTo(target, d) \in LinkRecords
  BY DEF ConnectedTo, LinkRecords, LinkStates, Unconnected

\* What bst_setup computes has the types of the variables it fills.
LEMMA SetupTypes ==
  ASSUME NEW o \in OptionRecords, NEW d \in DataValues,
         NEW key \in StoredKeys, NEW idle \in LinkRecords
  PROVE  /\ SetupOptions(o, d) \in OptionRecords
         /\ SetupSecret(o, key) \in Secrets \cup {NoSecret}
         /\ SetupState(o, d) \in StateRecords
         /\ SetupLink(o, d, idle) \in LinkRecords
<1>1. SetupOptions(o, d) \in OptionRecords
  BY DEF SetupOptions, OptionRecords, Confirmations
<1>2. SetupSecret(o, key) \in Secrets \cup {NoSecret}
  BY KeyAssumption DEF SetupSecret, OptionRecords, Secrets, StoredKeys
<1>3. SetupState(o, d) \in StateRecords
  BY StateTypes DEF SetupState, ErrorCodes, Messages
<1>4. SetupLink(o, d, idle) \in LinkRecords
  BY ConnectedTypes DEF SetupLink, DataValues
<1>5. QED BY <1>1, <1>2, <1>3, <1>4

\* Entering a bootstrap phase, or the destination, yields typed values.
LEMMA EnterTypes ==
  ASSUME TypeOK, NEW code \in ErrorCodes, NEW message \in Messages
  PROVE  /\ WaitForBootstrapState(options, code, message) \in StateRecords
         /\ BootstrappedState(options) \in StateRecords
         /\ ConnectedTo("bootstrap", NoData) \in LinkRecords
         /\ ConnectedTo("destination", data) \in LinkRecords
BY StateTypes, ConnectedTypes DEF TypeOK, DataValues

\* The counter of an attempt stays within its width.
LEMMA IncrementedType ==
  ASSUME NEW c \in 0..MaxCount
  PROVE  /\ Incremented(c) \in 0..MaxCount
         /\ Incremented(c) <= c + 1
  BY CountAssumption DEF Incremented

LEMMA ExplanationType ==
  ASSUME NEW s \in StateRecords, NEW code \in ErrorCodes \ {"OK"}
  PROVE  Explanation(s, code) \in Messages
  BY DEF Explanation, StateRecords, Messages

LEMMA CodeOfType ==
  ASSUME NEW failure \in Failures
  PROVE  CodeOf(failure) \in ErrorCodes \ {"OK"}
  BY DEF CodeOf, Failures, ErrorCodes

\* What the cases of bst_periodic's switch do to the variables they touch.
Typed == st' \in StateRecords /\ flags' \subseteq flags /\ link' \in LinkRecords

\* The type invariant is not inductive alone: that flash never holds the factory
\* secret rests on a bind request coming with the key of an app, empty or not.
TypeInv == TypeOK /\ ("bind" \in flags => secret \in BindKeys \cup {NoSecret})

LEMMA WaitForDataTypes ==
  ASSUME TypeOK, NEW s \in StateRecords, WaitForData(s)
  PROVE  Typed
<1>1. CASE EnterBootstrapped
  BY <1>1, EnterTypes DEF EnterBootstrapped, Typed, Flags, ErrorCodes, Messages
<1>2. CASE /\ st' \in { s, [s EXCEPT !.mode = "CONNECTING_TO_BOOTSTRAP"],
                        [s EXCEPT !.timeout = options.connectTimeout] }
           /\ UNCHANGED <<flags, link>>
  BY <1>2 DEF TypeOK, Typed, StateRecords, OptionRecords, Modes, Deadlines
<1>3. QED BY <1>1, <1>2 DEF WaitForData

LEMMA CheckDestinationTypes ==
  ASSUME TypeOK, NEW s \in StateRecords, CheckDestination(s)
  PROVE  Typed
<1>1. CASE link.status \in Failures /\
           EnterWaitForBootstrap(CodeOf(link.status),
                                 Explanation(s, CodeOf(link.status)))
  BY <1>1, EnterTypes, ExplanationType, CodeOfType
  DEF EnterWaitForBootstrap, Typed, Flags
<1>2. CASE AdvancedConnection(s)
  <2>1. CASE EnterWaitForBootstrap("ERROR_ADVANCED",
                                   Explanation(s, "ERROR_ADVANCED"))
    BY <2>1, EnterTypes, ExplanationType
    DEF EnterWaitForBootstrap, Typed, Flags, ErrorCodes
  <2>2. CASE /\ st' = [s EXCEPT !.count = Incremented(s.count),
                                !.timeout = options.connectTimeout]
             /\ link' = [link EXCEPT !.advanced = TRUE]
             /\ UNCHANGED flags
    <3>1. Incremented(s.count) \in 0..MaxCount
      BY IncrementedType DEF StateRecords
    <3>2. options.connectTimeout \in Deadlines
      BY DEF TypeOK, OptionRecords, Deadlines
    <3>3. QED
      BY <2>2, <3>1, <3>2 DEF TypeOK, Typed, StateRecords, LinkRecords
  <2>3. CASE st' = s /\ UNCHANGED <<flags, link>>
    BY <2>3 DEF TypeOK, Typed
  <2>4. QED BY <1>2, <2>1, <2>2, <2>3 DEF AdvancedConnection
<1>3. CASE /\ st' \in { s, [s EXCEPT !.errorMsg = NoMessage, !.lastError = "OK"],
                        [s EXCEPT !.mode = "CONNECTING_TO_DEST"] }
           /\ UNCHANGED <<flags, link>>
  BY <1>3 DEF TypeOK, Typed, StateRecords, Modes, ErrorCodes, Messages
<1>4. QED BY <1>1, <1>2, <1>3 DEF CheckDestination

\* A call of bst_periodic that serves no request.
LEMMA RunModeTypes ==
  ASSUME TypeOK, RunMode
  PROVE  Typed
<1>1. CASE ReachBootstrap
  <2>1. [st EXCEPT !.mode = "WAITING_FOR_DATA"] \in StateRecords
    BY DEF TypeOK, StateRecords, Modes
  <2>2. QED BY <1>1, <2>1, WaitForDataTypes DEF ReachBootstrap
<1>2. CASE RetryBootstrap
  <2>1. Incremented(st.count) \in 0..MaxCount
    BY IncrementedType DEF TypeOK, StateRecords
  <2>2. options.connectTimeout \in Deadlines
    BY DEF TypeOK, OptionRecords, Deadlines
  <2>3. CASE EnterBootstrapped
    BY <2>3, EnterTypes DEF EnterBootstrapped, Typed, ErrorCodes, Messages
  <2>4. CASE /\ \/ st' = st /\ link' = link
                \/ /\ st' \in { [st EXCEPT !.timeout = options.connectTimeout],
                                 [st EXCEPT !.timeout = options.connectTimeout,
                                            !.count = Incremented(st.count)] }
                   /\ link' = ConnectedTo("bootstrap", NoData)
             /\ UNCHANGED flags
    BY <2>1, <2>2, <2>4, ConnectedTypes DEF TypeOK, Typed, StateRecords, DataValues
  <2>5. QED BY <1>2, <2>3, <2>4 DEF RetryBootstrap
<1>3. CASE Wait
  BY <1>3, WaitForDataTypes DEF Wait, TypeOK
<1>4. CASE ReachDestination
  <2>1. Arrived(st) \in StateRecords
    <3>1. 0 \in 0..MaxCount
      BY CountAssumption
    <3>2. QED
      BY <3>1 DEF TypeOK, Arrived, StateRecords, Modes, ErrorCodes, Messages,
                  Deadlines
  <2>2. QED BY <1>4, <2>1, CheckDestinationTypes DEF ReachDestination
<1>5. CASE RetryDestination
  <2>1. Incremented(st.count) \in 0..MaxCount
    BY IncrementedType DEF TypeOK, StateRecords
  <2>2. options.connectTimeout \in Deadlines
    BY DEF TypeOK, OptionRecords, Deadlines
  <2>3. CASE EnterWaitForBootstrap("ERROR_WIFI_NOT_FOUND",
                                   Explanation(st, "ERROR_WIFI_NOT_FOUND"))
    BY <2>3, EnterTypes, ExplanationType
    DEF TypeOK, EnterWaitForBootstrap, Typed, ErrorCodes
  <2>4. CASE /\ st' = [st EXCEPT !.timeout = options.connectTimeout,
                                 !.count = Incremented(st.count)]
             /\ link' = ConnectedTo("destination", data)
             /\ UNCHANGED flags
    BY <2>1, <2>2, <2>4, ConnectedTypes DEF TypeOK, Typed, StateRecords
  <2>5. QED BY <1>5, <2>3, <2>4 DEF RetryDestination
<1>6. CASE AwaitDestination \/ StayConnected
  BY <1>6, CheckDestinationTypes DEF AwaitDestination, StayConnected, TypeOK
<1>7. QED BY <1>1, <1>2, <1>3, <1>4, <1>5, <1>6 DEF RunMode

LEMMA PeriodicTypes ==
  ASSUME TypeInv, Periodic
  PROVE  TypeInv'
<1>0. TypeOK
  BY DEF TypeInv
<1>1. CASE ServeFactoryReset
  <2>1. EmptyFlash \in [data : DataValues, secret : StoredKeys] /\ NoSecret \in StoredKeys
    BY DEF EmptyFlash, DataValues, StoredKeys
  <2>2. QED
    BY <1>0, <1>1, <2>1, SetupTypes
    DEF ServeFactoryReset, Setup, Periodic, TypeInv, TypeOK, DataValues
<1>2. CASE ServeBind
  BY <1>2 DEF ServeBind, Pending, Periodic, ram, TypeInv, TypeOK, StateRecords,
              ErrorCodes, StoredKeys
<1>3. CASE ServeWifiList
  BY <1>3 DEF ServeWifiList, Periodic, ram, TypeInv, TypeOK
<1>4. CASE ServeSetWifi
  BY <1>0, <1>4, EnterTypes
  DEF ServeSetWifi, EnterBootstrapped, Periodic, ram, TypeInv, TypeOK,
      ErrorCodes, Messages
<1>5. CASE RunMode
  BY <1>0, <1>5, RunModeTypes DEF RunMode, Typed, Periodic, ram, TypeInv, TypeOK
<1>6. QED BY <1>1, <1>2, <1>3, <1>4, <1>5 DEF Periodic

LEMMA NetworkInputTypes ==
  ASSUME TypeInv, NEW p \in Packets, NetworkInput(p)
  PROVE  TypeInv'
<1>1. CASE Hello(p)
  <2>1. options.nonceTimeout \in Deadlines
    BY DEF TypeInv, TypeOK, OptionRecords, Deadlines
  <2>2. p.appNonce \in AppNonces
    BY <1>1 DEF Hello, Packets, HelloPackets, BindPackets, SetDataPackets
  <2>3. QED
    BY <1>1, <2>1, <2>2
    DEF Hello, NetworkInput, TypeInv, TypeOK, StateRecords, Flags, Requests
<1>2. CASE LateCommand(p)
  BY <1>2 DEF LateCommand, WithoutSession, NetworkInput, TypeInv, TypeOK,
              StateRecords, Deadlines
<1>3. CASE Bind(p)
  <2>1. p.newKey \in BindKeys \cup {NoSecret}
    BY <1>3 DEF Bind, Packets, HelloPackets, BindPackets, SetDataPackets
  <2>2. QED
    BY <1>3, <2>1 DEF Bind, NetworkInput, TypeInv, TypeOK, Flags, Requests, Secrets
<1>4. CASE SetData(p)
  <2>1. p.data \in DataValues
    BY <1>4, DataAssumption
    DEF SetData, Packets, HelloPackets, BindPackets, SetDataPackets, DataValues
  <2>2. QED
    BY <1>4, <2>1 DEF SetData, NetworkInput, TypeInv, TypeOK, Flags, Requests
<1>5. QED BY <1>1, <1>2, <1>3, <1>4 DEF NetworkInput

\* A loss of power leaves the key in flash, and the data or none.
LEMMA KeptType ==
  ASSUME TypeOK
  PROVE  \A kept \in KeptInFlash :
           /\ kept \in [data : DataValues, secret : StoredKeys]
           /\ kept.secret = flash.secret
           /\ kept.data = flash.data \/ ("factory_reset" \in flags /\ kept.data = NoData)
BY DEF TypeOK, KeptInFlash, Pending, DataValues

LEMMA EnvironmentTypes ==
  ASSUME TypeInv, Environment
  PROVE  TypeInv'
<1>1. CASE \E p \in Packets : NetworkInput(p)
  BY <1>1, NetworkInputTypes
<1>2. CASE WifiNetworkList \/ ScanFails
  BY <1>2 DEF WifiNetworkList, ScanFails, ram, TypeInv, TypeOK
<1>3. CASE \E message \in UserMessages \cup {NoMessage} : SetErrorMessage(message)
  BY <1>3 DEF SetErrorMessage, ram, TypeInv, TypeOK, StateRecords, Messages
<1>4. CASE FactoryReset \/ ConfirmBootstrap
  BY <1>4 DEF FactoryReset, ConfirmBootstrap, ram, TypeInv, TypeOK, Flags
<1>5. CASE LinkChanges
  <2>1. Reports \subseteq LinkStates
    BY ReportAssumption DEF Reports, TypeInv, TypeOK, LinkRecords
  <2>2. QED
    BY <1>5, <2>1 DEF LinkChanges, ram, TypeInv, TypeOK, LinkRecords
<1>6. CASE Reboot
  <2>1. IdleLink \in LinkRecords
    BY DEF IdleLink, LinkRecords, LinkStates, Unconnected, DataValues
  <2>2. flash' \in [data : DataValues, secret : StoredKeys]
    BY <1>6, KeptType DEF Reboot, TypeInv
  <2>3. QED
    BY <1>6, <2>1, <2>2, SetupTypes DEF Reboot, Setup, TypeInv, TypeOK
<1>7. QED BY <1>1, <1>2, <1>3, <1>4, <1>5, <1>6 DEF Environment

LEMMA InitTypes == Init => TypeInv
<1> SUFFICES ASSUME Init PROVE TypeInv
  OBVIOUS
<1>1. IdleLink \in LinkRecords
  BY DEF IdleLink, LinkRecords, LinkStates, Unconnected, DataValues
<1>2. config \in OptionRecords
  BY OptionsAssumption DEF Init
<1>3. flash.data \in DataValues /\ flash.secret \in StoredKeys
  BY DEF Init
<1>4. QED
  BY <1>1, <1>2, <1>3, SetupTypes DEF Init, TypeInv, TypeOK

LEMMA NextTypes == TypeInv /\ [Next]_vars => TypeInv'
<1> SUFFICES ASSUME TypeInv, [Next]_vars PROVE TypeInv'
  OBVIOUS
<1>1. CASE Periodic
  BY <1>1, PeriodicTypes
<1>2. CASE Environment
  BY <1>2, EnvironmentTypes
<1>3. CASE Tick
  <2>1. \A t \in Deadlines : Elapsed(t) \in Deadlines
    BY DEF Elapsed, Deadlines, Past
  <2>2. QED
    BY <1>3, <2>1 DEF Tick, ram, TypeInv, TypeOK, StateRecords
<1>4. CASE UNCHANGED vars
  BY <1>4 DEF vars, TypeInv, TypeOK
<1>5. QED BY <1>1, <1>2, <1>3, <1>4 DEF Next

\* Every variable keeps the type its declaration in prv_bootstrapWifi.h gives it;
\* in particular the uint8_t attempt counter and the two stored values.
THEOREM TypeCorrect == Spec => []TypeOK
<1>1. Init => TypeInv
  BY InitTypes
<1>2. TypeInv /\ [Next]_vars => TypeInv'
  BY NextTypes
<1>3. TypeInv => TypeOK
  BY DEF TypeInv
<1>4. QED BY <1>1, <1>2, <1>3, PTL DEF Spec

-----------------------------------------------------------------------------
(* Storage and radio *)

\* The two invariants support each other: in the destination modes nothing is
\* unsaved because there are no requests, and no request is lost by entering a
\* mode because bst_periodic looks at the mode only when there is none.
StorageInv == UnsavedChangesPending /\ RadioMatchesMode

USE DEF KeySaved, DataSaved

LEMMA EnterBootstrappedStorage ==
  ASSUME TypeInv, EnterBootstrapped, UNCHANGED <<options, data, secret>>,
         data = flash'.data,
         secret \in {flash'.secret, SetupSecret(options, flash'.secret)}
  PROVE  StorageInv'
BY DEF EnterBootstrapped, BootstrappedState, ZeroState, ConnectedTo, StorageInv,
       UnsavedChangesPending, RadioMatchesMode, BootstrapModes, DestinationModes

LEMMA EnterWaitStorage ==
  ASSUME TypeInv, NEW code, NEW message, EnterWaitForBootstrap(code, message),
         UNCHANGED <<options, data, secret>>,
         data = flash'.data,
         secret \in {flash'.secret, SetupSecret(options, flash'.secret)}
  PROVE  StorageInv'
BY DEF EnterWaitForBootstrap, WaitForBootstrapState, ZeroState, ConnectedTo,
       StorageInv, UnsavedChangesPending, RadioMatchesMode, BootstrapModes,
       DestinationModes

\* Without requests everything is saved.
LEMMA IdleSaved ==
  ASSUME StorageInv, Idle
  PROVE  data = flash.data /\ secret \in {flash.secret, SetupSecret(options, flash.secret)}
BY DEF StorageInv, UnsavedChangesPending, Idle, Requests

\* A step that keeps the radio on the bootstrap network.
LEMMA StayOnBootstrap ==
  ASSUME TypeInv, StorageInv, Idle, st.mode \in BootstrapModes,
         st'.mode \in BootstrapModes, link'.target = "bootstrap",
         UNCHANGED <<options, data, secret, flash, flags>>
  PROVE  StorageInv'
BY IdleSaved
DEF StorageInv, UnsavedChangesPending, RadioMatchesMode, Idle, BootstrapModes,
    DestinationModes

\* A step that keeps the radio on the destination.
LEMMA StayOnDestination ==
  ASSUME TypeInv, StorageInv, Idle, st.mode \in DestinationModes,
         st'.mode \in DestinationModes, link'.target = "destination",
         link'.credentials = data,
         /\ st'.mode = "DESTINATION_CONNECTED" /\ options.needAdvanced
         /\ st'.count > 0
         => link'.advanced,
         UNCHANGED <<options, data, secret, flash, flags>>
  PROVE  StorageInv'
BY IdleSaved
DEF StorageInv, UnsavedChangesPending, RadioMatchesMode, Idle, BootstrapModes,
    DestinationModes

LEMMA WaitForDataStorage ==
  ASSUME TypeInv, StorageInv, Idle, st.mode \in BootstrapModes,
         NEW s \in StateRecords, s.mode = "WAITING_FOR_DATA", WaitForData(s),
         UNCHANGED <<options, data, secret, flash>>
  PROVE  StorageInv'
<1>1. CASE EnterBootstrapped
  BY <1>1, IdleSaved, EnterBootstrappedStorage
<1>2. CASE /\ st' \in { s, [s EXCEPT !.mode = "CONNECTING_TO_BOOTSTRAP"],
                        [s EXCEPT !.timeout = options.connectTimeout] }
           /\ UNCHANGED <<flags, link>>
  <2>1. st'.mode \in BootstrapModes
    BY <1>2 DEF StateRecords, BootstrapModes
  <2>2. link'.target = "bootstrap"
    BY <1>2 DEF StorageInv, RadioMatchesMode
  <2>3. QED
    BY <1>2, <2>1, <2>2, StayOnBootstrap
<1>3. QED BY <1>1, <1>2 DEF WaitForData

LEMMA CheckDestinationStorage ==
  ASSUME TypeInv, StorageInv, Idle, st.mode \in DestinationModes,
         NEW s \in StateRecords, s.mode \in DestinationModes, CheckDestination(s),
         /\ s.mode = "DESTINATION_CONNECTED" /\ options.needAdvanced /\ s.count > 0
         => link.advanced,
         UNCHANGED <<options, data, secret, flash>>
  PROVE  StorageInv'
<1>1. CASE \E code, message : EnterWaitForBootstrap(code, message)
  BY <1>1, IdleSaved, EnterWaitStorage
<1>2. link.target = "destination" /\ link.credentials = data
  BY DEF StorageInv, RadioMatchesMode
<1>3. CASE /\ st' = [s EXCEPT !.count = Incremented(s.count),
                              !.timeout = options.connectTimeout]
           /\ link' = [link EXCEPT !.advanced = TRUE]
           /\ UNCHANGED flags
  <2>1. st'.mode \in DestinationModes
    BY <1>3 DEF StateRecords
  <2>2. /\ link'.target = "destination" /\ link'.credentials = data
        /\ link'.advanced
    BY <1>2, <1>3 DEF TypeInv, TypeOK, LinkRecords
  <2>3. QED
    BY <1>3, <2>1, <2>2, StayOnDestination
<1>4. CASE /\ st' \in { s, [s EXCEPT !.errorMsg = NoMessage, !.lastError = "OK"],
                        [s EXCEPT !.mode = "CONNECTING_TO_DEST"] }
           /\ UNCHANGED <<flags, link>>
  <2>1. st'.mode \in DestinationModes /\ st'.count = s.count
        /\ (st'.mode = "DESTINATION_CONNECTED" => s.mode = "DESTINATION_CONNECTED")
    BY <1>4 DEF StateRecords, DestinationModes
  <2>2. QED
    BY <1>2, <1>4, <2>1, StayOnDestination
<1>5. QED
  BY <1>1, <1>3, <1>4 DEF CheckDestination, AdvancedConnection

LEMMA RunModeStorage ==
  ASSUME TypeInv, StorageInv, RunMode
  PROVE  StorageInv'
<1>0. /\ Idle /\ st \in StateRecords
      /\ UNCHANGED <<options, data, secret, flash>>
  BY DEF RunMode, ram, TypeInv, TypeOK
<1>1. CASE ReachBootstrap
  <2>1. [st EXCEPT !.mode = "WAITING_FOR_DATA"] \in StateRecords
    BY <1>0 DEF StateRecords, Modes
  <2>2. [st EXCEPT !.mode = "WAITING_FOR_DATA"].mode = "WAITING_FOR_DATA"
    BY <1>0 DEF StateRecords
  <2>3. QED
    BY <1>0, <1>1, <2>1, <2>2, WaitForDataStorage DEF ReachBootstrap, BootstrapModes
<1>2. CASE RetryBootstrap
  <2>1. CASE EnterBootstrapped
    BY <1>0, <2>1, IdleSaved, EnterBootstrappedStorage
  <2>2. CASE /\ \/ st' = st /\ link' = link
                \/ /\ st' \in { [st EXCEPT !.timeout = options.connectTimeout],
                                 [st EXCEPT !.timeout = options.connectTimeout,
                                            !.count = Incremented(st.count)] }
                   /\ link' = ConnectedTo("bootstrap", NoData)
             /\ UNCHANGED flags
    <3>1. st.mode \in BootstrapModes /\ st'.mode = st.mode
      BY <1>0, <1>2, <2>2 DEF RetryBootstrap, StateRecords, BootstrapModes
    <3>2. link'.target = "bootstrap"
      BY <2>2, <3>1 DEF ConnectedTo, StorageInv, RadioMatchesMode
    <3>3. QED BY <1>0, <2>2, <3>1, <3>2, StayOnBootstrap
  <2>3. QED BY <1>2, <2>1, <2>2 DEF RetryBootstrap
<1>3. CASE Wait
  BY <1>0, <1>3, WaitForDataStorage DEF Wait, BootstrapModes
<1>4. CASE ReachDestination
  <2>1. Arrived(st) \in StateRecords
    <3>1. 0 \in 0..MaxCount
      BY CountAssumption
    <3>2. QED
      BY <1>0, <3>1 DEF Arrived, StateRecords, Modes, ErrorCodes, Messages,
                        Deadlines
  <2>2. /\ Arrived(st).mode = "DESTINATION_CONNECTED"
        /\ options.needAdvanced => Arrived(st).count = 0
    BY <1>0 DEF Arrived, StateRecords
  <2>3. QED
    BY <1>0, <1>4, <2>1, <2>2, CheckDestinationStorage
    DEF ReachDestination, DestinationModes
<1>5. CASE RetryDestination
  <2>1. CASE \E code, message : EnterWaitForBootstrap(code, message)
    BY <1>0, <2>1, IdleSaved, EnterWaitStorage
  <2>2. CASE /\ st' = [st EXCEPT !.timeout = options.connectTimeout,
                                 !.count = Incremented(st.count)]
             /\ link' = ConnectedTo("destination", data)
             /\ UNCHANGED flags
    <3>1. st'.mode = "CONNECTING_TO_DEST" /\ st.mode = "CONNECTING_TO_DEST"
      BY <1>0, <1>5, <2>2 DEF RetryDestination, StateRecords
    <3>2. link'.target = "destination" /\ link'.credentials = data
      BY <2>2 DEF ConnectedTo
    <3>3. QED
      BY <1>0, <2>2, <3>1, <3>2, StayOnDestination DEF DestinationModes
  <2>3. QED BY <1>5, <2>1, <2>2 DEF RetryDestination
<1>6. CASE AwaitDestination
  BY <1>0, <1>6, CheckDestinationStorage DEF AwaitDestination, DestinationModes
<1>7. CASE StayConnected
  BY <1>0, <1>7, CheckDestinationStorage
  DEF StayConnected, DestinationModes, StorageInv, RadioMatchesMode
<1>8. QED BY <1>1, <1>2, <1>3, <1>4, <1>5, <1>6, <1>7 DEF RunMode

\* bst_setup leaves behind what it was given: nothing in RAM is unsaved.
LEMMA SetupStorage ==
  ASSUME NEW o \in OptionRecords, NEW d \in DataValues,
         NEW key \in StoredKeys, NEW idle,
         Setup(o, d, key, idle), flash' = [data |-> d, secret |-> key]
  PROVE  StorageInv'
<1>1. options'.initialSecret = o.initialSecret
  BY DEF Setup, SetupOptions, OptionRecords
<1>2. UnsavedChangesPending'
  BY <1>1 DEF Setup, SetupSecret, UnsavedChangesPending
<1>3. RadioMatchesMode'
  BY DEF Setup, SetupState, SetupLink, BootstrappedState, WaitForBootstrapState,
         ZeroState, ConnectedTo, RadioMatchesMode, BootstrapModes, DestinationModes
<1>4. QED BY <1>2, <1>3 DEF StorageInv

LEMMA PeriodicStorage ==
  ASSUME TypeInv, StorageInv, Periodic
  PROVE  StorageInv'
<1>1. CASE ServeFactoryReset
  BY <1>1, SetupStorage
  DEF ServeFactoryReset, EmptyFlash, TypeInv, TypeOK, DataValues, StoredKeys
<1>2. CASE ServeBind
  <2>1. st'.mode = st.mode /\ st'.count = st.count
    BY <1>2 DEF ServeBind, TypeInv, TypeOK, StateRecords
  <2>2. flash'.secret = secret /\ flash'.data = flash.data
    BY <1>2 DEF ServeBind, TypeInv, TypeOK
  <2>3. QED
    BY <1>2, <2>1, <2>2
    DEF ServeBind, ram, StorageInv, UnsavedChangesPending, RadioMatchesMode
<1>3. CASE ServeWifiList
  BY <1>3 DEF ServeWifiList, ram, StorageInv, UnsavedChangesPending,
              RadioMatchesMode
<1>4. CASE ServeSetWifi
  <2>1. flash'.data = data /\ flash'.secret = flash.secret
    BY <1>4 DEF ServeSetWifi, TypeInv, TypeOK
  <2>2. secret \in {flash.secret, SetupSecret(options, flash.secret)}
    BY <1>4 DEF ServeSetWifi, Pending, Before, StorageInv, UnsavedChangesPending
  <2>3. QED
    BY <1>4, <2>1, <2>2, EnterBootstrappedStorage DEF ServeSetWifi, ram
<1>5. CASE RunMode
  BY <1>5, RunModeStorage
<1>6. QED BY <1>1, <1>2, <1>3, <1>4, <1>5 DEF Periodic

LEMMA EnvironmentStorage ==
  ASSUME TypeInv, StorageInv, Environment
  PROVE  StorageInv'
<1> USE DEF ram, StorageInv, UnsavedChangesPending, RadioMatchesMode
<1>1. CASE \E p \in Packets : NetworkInput(p)
  <2>1. PICK p \in Packets : NetworkInput(p)
    BY <1>1
  <2>2. st.mode = "WAITING_FOR_DATA" /\ st'.mode = st.mode
    BY <2>1 DEF NetworkInput, Hello, LateCommand, Bind, SetData, WithoutSession,
                TypeInv, TypeOK, StateRecords
  <2>3. /\ UNCHANGED <<options, flash, link>>
        /\ flags \subseteq flags'
        /\ secret' # secret => "bind" \in flags'
        /\ data' # data => "set_wifi" \in flags'
    BY <2>1 DEF NetworkInput, Hello, LateCommand, Bind, SetData
  <2>4. QED
    BY <2>2, <2>3 DEF BootstrapModes, DestinationModes
<1>2. CASE WifiNetworkList \/ ScanFails
  BY <1>2 DEF WifiNetworkList, ScanFails
<1>3. CASE \E message \in UserMessages \cup {NoMessage} : SetErrorMessage(message)
  BY <1>3 DEF SetErrorMessage, TypeInv, TypeOK, StateRecords
<1>4. CASE FactoryReset \/ ConfirmBootstrap
  BY <1>4 DEF FactoryReset, ConfirmBootstrap, Requests
<1>5. CASE LinkChanges
  BY <1>5 DEF LinkChanges, TypeInv, TypeOK, LinkRecords
<1>6. CASE Reboot
  <2>1. flash' \in [data : DataValues, secret : StoredKeys] /\ config \in OptionRecords
    BY <1>6, KeptType DEF Reboot, TypeInv, TypeOK
  <2>2. flash' = [data |-> flash'.data, secret |-> flash'.secret]
    BY <2>1
  <2>3. QED
    BY <1>6, <2>1, <2>2, SetupStorage DEF Reboot
<1>7. QED BY <1>1, <1>2, <1>3, <1>4, <1>5, <1>6 DEF Environment

LEMMA NextStorage == TypeInv /\ StorageInv /\ [Next]_vars => StorageInv'
<1> SUFFICES ASSUME TypeInv, StorageInv, [Next]_vars PROVE StorageInv'
  OBVIOUS
<1>1. CASE Periodic
  BY <1>1, PeriodicStorage
<1>2. CASE Environment
  BY <1>2, EnvironmentStorage
<1>3. CASE Tick
  BY <1>3 DEF Tick, ram, TypeInv, TypeOK, StateRecords, StorageInv,
              UnsavedChangesPending, RadioMatchesMode
<1>4. CASE UNCHANGED vars
  BY <1>4 DEF vars, StorageInv, UnsavedChangesPending, RadioMatchesMode
<1>5. QED BY <1>1, <1>2, <1>3, <1>4 DEF Next

LEMMA InitStorage == Init => StorageInv
<1> SUFFICES ASSUME Init PROVE StorageInv
  OBVIOUS
<1>1. options.initialSecret = config.initialSecret
  BY OptionsAssumption DEF Init, SetupOptions, OptionRecords
<1>2. UnsavedChangesPending
  BY <1>1 DEF Init, SetupSecret, UnsavedChangesPending
<1>3. RadioMatchesMode
  BY DEF Init, SetupState, SetupLink, BootstrappedState, WaitForBootstrapState,
         ZeroState, ConnectedTo, RadioMatchesMode, BootstrapModes, DestinationModes
<1>4. QED BY <1>2, <1>3 DEF StorageInv

\* No key an app bound and no data an app sent are forgotten while they are in
\* RAM only: the request that stores them stays noted until bst_periodic has
\* called bst_store_crypto_secret or bst_store_bootstrap_data.
THEOREM ChangesArePending == Spec => []UnsavedChangesPending
<1>1. Init => TypeInv /\ StorageInv
  BY InitTypes, InitStorage
<1>2. TypeInv /\ StorageInv /\ [Next]_vars => (TypeInv /\ StorageInv)'
  BY NextTypes, NextStorage
<1>3. StorageInv => UnsavedChangesPending
  BY DEF StorageInv
<1>4. QED BY <1>1, <1>2, <1>3, PTL DEF Spec

\* In every mode the radio was told what the mode needs, and in the destination
\* modes the credentials in use are the ones a reboot would read from flash.
THEOREM RadioFollowsMode == Spec => []RadioMatchesMode
<1>1. Init => TypeInv /\ StorageInv
  BY InitTypes, InitStorage
<1>2. TypeInv /\ StorageInv /\ [Next]_vars => (TypeInv /\ StorageInv)'
  BY NextTypes, NextStorage
<1>3. StorageInv => RadioMatchesMode
  BY DEF StorageInv
<1>4. QED BY <1>1, <1>2, <1>3, PTL DEF Spec

-----------------------------------------------------------------------------
(* Sessions *)

\* bst_periodic leaves the app of a session alone, or ends the phase.
LEMMA PeriodicSession ==
  ASSUME TypeInv, Periodic
  PROVE  st'.appNonce = st.appNonce \/ (st'.appNonce = NoNonce /\ flags' = {})
<1>0. st \in StateRecords
  BY DEF TypeInv, TypeOK
<1>1. CASE ServeFactoryReset
  BY <1>1 DEF ServeFactoryReset, Setup, SetupState, BootstrappedState,
              WaitForBootstrapState, ZeroState
<1>2. CASE ServeBind \/ ServeWifiList
  BY <1>0, <1>2 DEF ServeBind, ServeWifiList, StateRecords
<1>3. CASE EnterBootstrapped
  BY <1>3 DEF EnterBootstrapped, BootstrappedState, ZeroState
<1>4. CASE \E code, message : EnterWaitForBootstrap(code, message)
  BY <1>4 DEF EnterWaitForBootstrap, WaitForBootstrapState, ZeroState
<1>5. ASSUME NEW s \in StateRecords, s.appNonce = st.appNonce,
             WaitForData(s) \/ CheckDestination(s)
      PROVE  st'.appNonce = st.appNonce \/ (st'.appNonce = NoNonce /\ flags' = {})
  BY <1>3, <1>4, <1>5
  DEF WaitForData, CheckDestination, AdvancedConnection, StateRecords
<1>6. CASE ReachBootstrap \/ Wait
  <2>1. /\ [st EXCEPT !.mode = "WAITING_FOR_DATA"] \in StateRecords
        /\ [st EXCEPT !.mode = "WAITING_FOR_DATA"].appNonce = st.appNonce
    BY <1>0 DEF StateRecords, Modes
  <2>2. QED BY <1>0, <1>5, <1>6, <2>1 DEF ReachBootstrap, Wait
<1>7. CASE RetryBootstrap
  BY <1>0, <1>3, <1>7 DEF RetryBootstrap, StateRecords
<1>8. CASE RetryDestination
  BY <1>0, <1>4, <1>8 DEF RetryDestination, StateRecords
<1>9. CASE ReachDestination \/ AwaitDestination \/ StayConnected
  <2>1. Arrived(st) \in StateRecords /\ Arrived(st).appNonce = st.appNonce
    <3>1. 0 \in 0..MaxCount
      BY CountAssumption
    <3>2. QED
      BY <1>0, <3>1 DEF Arrived, StateRecords, Modes, ErrorCodes, Messages,
                        Deadlines
  <2>2. QED
    BY <1>0, <1>5, <1>9, <2>1 DEF ReachDestination, AwaitDestination, StayConnected
<1>10. QED
  BY <1>1, <1>2, <1>3, <1>6, <1>7, <1>8, <1>9 DEF Periodic, RunMode, ServeSetWifi

\* A running session is not taken over by another app: until its deadline the
\* nonce changes only when the whole bootstrap phase ends.
THEOREM SessionsAreKept == Spec => SessionNotTakenOver
<1> DEFINE Kept == st.nonceValid > 0 /\ st'.appNonce # st.appNonce
                     => st'.appNonce = NoNonce /\ flags' = {}
<1>1. TypeInv /\ [Next]_vars => [Kept]_vars
  <2> SUFFICES ASSUME TypeInv, Next PROVE Kept
    OBVIOUS
  <2>0. st \in StateRecords
    BY DEF TypeInv, TypeOK
  <2>1. CASE Periodic
    BY <2>1, PeriodicSession
  <2>2. CASE \E p \in Packets : NetworkInput(p)
    <3>1. PICK p \in Packets : NetworkInput(p)
      BY <2>2
    <3>2. CASE Hello(p)
      <4>1. st'.appNonce = p.appNonce /\ (SessionFree(st) \/ st.appNonce = p.appNonce)
        BY <2>0, <3>2 DEF Hello, Welcome, StateRecords
      <4>2. st.nonceValid > 0 => ~SessionFree(st)
        BY <2>0 DEF SessionFree, StateRecords, Deadlines, Past
      <4>3. QED BY <4>1, <4>2
    <3>3. CASE LateCommand(p)
      BY <2>0, <3>3 DEF LateCommand, SessionValid, StateRecords, Deadlines, Past
    <3>4. CASE Bind(p) \/ SetData(p)
      BY <3>4 DEF Bind, SetData
    <3>5. QED BY <3>1, <3>2, <3>3, <3>4 DEF NetworkInput
  <2>3. CASE Reboot
    BY <2>3 DEF Reboot, Setup, SetupState, BootstrappedState,
                WaitForBootstrapState, ZeroState
  <2>4. CASE Environment /\ ~Reboot /\ ~(\E p \in Packets : NetworkInput(p))
    BY <2>0, <2>4 DEF Environment, WifiNetworkList, ScanFails, SetErrorMessage,
                      FactoryReset, ConfirmBootstrap, LinkChanges, StateRecords
  <2>5. CASE Tick
    BY <2>0, <2>5 DEF Tick, StateRecords
  <2>6. QED BY <2>1, <2>2, <2>3, <2>4, <2>5 DEF Next, Environment
<1>2. QED BY <1>1, InitTypes, NextTypes, PTL DEF Spec, SessionNotTakenOver, Kept

-----------------------------------------------------------------------------
(* Attempts and diagnoses *)

\* AttemptsBounded and DiagnosisConsistent of a state record, with the options of
\* the device.  No strengthening is needed but the types.
Counted(s) ==
  /\ s.mode \in BootstrapModes => s.count <= options.retryBootstrap
  /\ s.mode \in DestinationModes => s.count <= options.retryDestination + 1
  /\ s.mode \in DestinationModes /\ ~options.needAdvanced =>
       s.count = 0 \/ s.count < options.retryDestination
Diagnosed(s) ==
  /\ s.errorMsg \in ErrorCodes => s.lastError \in {s.errorMsg, "OK"}
  /\ s.mode \in DestinationModes =>
       s.lastError = "OK" /\ s.errorMsg \notin ErrorCodes
Sound(s) == Counted(s) /\ Diagnosed(s)

PhaseInv == AttemptsBounded /\ DiagnosisConsistent

LEMMA PhaseInvOfState == PhaseInv <=> Sound(st)
  BY DEF PhaseInv, AttemptsBounded, DiagnosisConsistent, Sound, Counted, Diagnosed

\* A state without attempts and without an error is sound.
LEMMA FreshSound ==
  ASSUME TypeOK, NEW s \in StateRecords, s.count = 0,
         s.lastError = "OK", s.errorMsg \notin ErrorCodes
  PROVE  Sound(s)
  BY DEF Sound, Counted, Diagnosed, TypeOK, OptionRecords

LEMMA EnterBootstrappedSound ==
  ASSUME TypeOK, EnterBootstrapped
  PROVE  Sound(st')
<1>1. BootstrappedState(options) \in StateRecords
  BY EnterTypes DEF ErrorCodes, Messages
<1>2. QED
  BY <1>1, FreshSound, MessageAssumption
  DEF EnterBootstrapped, BootstrappedState, ZeroState

\* The message is the text for the code, or the application's own one.
LEMMA EnterWaitSound ==
  ASSUME TypeOK, NEW code \in ErrorCodes,
         NEW message \in UserMessages \cup {code, NoMessage},
         EnterWaitForBootstrap(code, message)
  PROVE  Sound(st')
<1>1. /\ st'.mode = "CONNECTING_TO_BOOTSTRAP" /\ st'.count = 0
      /\ st'.lastError = code /\ st'.errorMsg = message
  BY DEF EnterWaitForBootstrap, WaitForBootstrapState, ZeroState
<1>2. Counted(st')
  BY <1>1 DEF Counted, TypeOK, OptionRecords, DestinationModes
<1>3. Diagnosed(st')
  BY <1>1, MessageAssumption DEF Diagnosed, DestinationModes
<1>4. QED BY <1>2, <1>3 DEF Sound

\* In a destination mode only the application's own text is there to be kept.
LEMMA ExplanationSound ==
  ASSUME NEW s \in StateRecords, s.mode \in DestinationModes, Diagnosed(s),
         NEW code \in ErrorCodes
  PROVE  Explanation(s, code) \in UserMessages \cup {code, NoMessage}
  BY DEF Explanation, Diagnosed, StateRecords, Messages

LEMMA WaitForDataSound ==
  ASSUME TypeOK, NEW s \in StateRecords, s.mode = "WAITING_FOR_DATA", Sound(s),
         WaitForData(s)
  PROVE  Sound(st')
<1>1. CASE EnterBootstrapped
  BY <1>1, EnterBootstrappedSound
<1>2. CASE st' \in { s, [s EXCEPT !.mode = "CONNECTING_TO_BOOTSTRAP"],
                     [s EXCEPT !.timeout = options.connectTimeout] }
  BY <1>2 DEF Sound, Counted, Diagnosed, StateRecords, BootstrapModes,
              DestinationModes
<1>3. QED BY <1>1, <1>2 DEF WaitForData

LEMMA AdvancedConnectionSound ==
  ASSUME TypeOK, NEW s \in StateRecords, s.mode \in DestinationModes, Sound(s),
         options.needAdvanced, AdvancedConnection(s)
  PROVE  Sound(st')
<1>1. CASE EnterWaitForBootstrap("ERROR_ADVANCED", Explanation(s, "ERROR_ADVANCED"))
  <2>1. Explanation(s, "ERROR_ADVANCED")
          \in UserMessages \cup {"ERROR_ADVANCED", NoMessage}
    BY ExplanationSound DEF Sound, ErrorCodes
  <2>2. QED BY <1>1, <2>1, EnterWaitSound DEF ErrorCodes
<1>2. CASE /\ s.count <= options.retryDestination
           /\ st' = [s EXCEPT !.count = Incremented(s.count),
                              !.timeout = options.connectTimeout]
  <2>1. /\ Incremented(s.count) \in 0..MaxCount
        /\ Incremented(s.count) <= s.count + 1
    BY IncrementedType DEF StateRecords
  <2>2. /\ st'.count = Incremented(s.count) /\ st'.mode = s.mode
        /\ st'.lastError = s.lastError /\ st'.errorMsg = s.errorMsg
    BY <1>2 DEF StateRecords
  <2>3. Counted(st')
    <3>1. s.count \in Nat /\ options.retryDestination \in Nat
      BY CountAssumption DEF StateRecords, TypeOK, OptionRecords
    <3>2. st'.count <= options.retryDestination + 1
      BY <1>2, <2>1, <2>2, <3>1
    <3>3. QED
      BY <2>2, <3>2 DEF Counted, BootstrapModes, DestinationModes
  <2>4. QED BY <2>2, <2>3 DEF Sound, Diagnosed
<1>3. CASE st' = s
  BY <1>3
<1>4. QED BY <1>1, <1>2, <1>3 DEF AdvancedConnection

LEMMA CheckDestinationSound ==
  ASSUME TypeOK, NEW s \in StateRecords, s.mode \in DestinationModes, Sound(s),
         CheckDestination(s)
  PROVE  Sound(st')
<1>1. CASE link.status \in Failures /\
           EnterWaitForBootstrap(CodeOf(link.status),
                                 Explanation(s, CodeOf(link.status)))
  <2>1. CodeOf(link.status) \in ErrorCodes
    BY <1>1, CodeOfType
  <2>2. Explanation(s, CodeOf(link.status))
          \in UserMessages \cup {CodeOf(link.status), NoMessage}
    BY <2>1, ExplanationSound DEF Sound
  <2>3. QED BY <1>1, <2>1, <2>2, EnterWaitSound
<1>2. CASE options.needAdvanced /\ AdvancedConnection(s)
  BY <1>2, AdvancedConnectionSound
<1>3. CASE st' = [s EXCEPT !.errorMsg = NoMessage, !.lastError = "OK"]
  BY <1>3, MessageAssumption DEF Sound, Counted, Diagnosed, StateRecords
<1>4. CASE st' \in {s, [s EXCEPT !.mode = "CONNECTING_TO_DEST"]}
  BY <1>4 DEF Sound, Counted, Diagnosed, StateRecords, BootstrapModes,
              DestinationModes
<1>5. QED BY <1>1, <1>2, <1>3, <1>4 DEF CheckDestination

-----------------------------------------------------------------------------
LEMMA RetryBootstrapSound ==
  ASSUME TypeOK, Sound(st), RetryBootstrap
  PROVE  Sound(st')
<1>0. st \in StateRecords
  BY DEF TypeOK
<1>1. CASE UNCHANGED st
  BY <1>1
<1>2. CASE st' = [st EXCEPT !.timeout = options.connectTimeout]
  BY <1>0, <1>2 DEF Sound, Counted, Diagnosed, StateRecords
<1>3. CASE /\ KeepTrying(Incremented(st.count))
           /\ st' = [st EXCEPT !.timeout = options.connectTimeout,
                               !.count = Incremented(st.count)]
  BY <1>0, <1>3 DEF RetryBootstrap, KeepTrying, Sound, Counted, Diagnosed,
                    StateRecords, DestinationModes
<1>4. CASE EnterBootstrapped
  BY <1>4, EnterBootstrappedSound
<1>5. QED BY <1>1, <1>2, <1>3, <1>4 DEF RetryBootstrap

LEMMA RetryDestinationSound ==
  ASSUME TypeOK, Sound(st), RetryDestination
  PROVE  Sound(st')
<1>0. st \in StateRecords /\ st.mode = "CONNECTING_TO_DEST"
  BY DEF TypeOK, RetryDestination
<1>1. CASE EnterWaitForBootstrap("ERROR_WIFI_NOT_FOUND",
                                 Explanation(st, "ERROR_WIFI_NOT_FOUND"))
  <2>1. Explanation(st, "ERROR_WIFI_NOT_FOUND")
          \in UserMessages \cup {"ERROR_WIFI_NOT_FOUND", NoMessage}
    BY <1>0, ExplanationSound DEF Sound, ErrorCodes, DestinationModes
  <2>2. QED BY <1>1, <2>1, EnterWaitSound DEF ErrorCodes
<1>2. CASE /\ ~GiveUp(Incremented(st.count))
           /\ st' = [st EXCEPT !.timeout = options.connectTimeout,
                               !.count = Incremented(st.count)]
  <2>1. st'.count < options.retryDestination
    <3>1. Incremented(st.count) \in Int /\ options.retryDestination \in Int
      BY <1>0, IncrementedType DEF StateRecords, TypeOK, OptionRecords
    <3>2. st'.count = Incremented(st.count)
      BY <1>0, <1>2 DEF StateRecords
    <3>3. QED BY <1>2, <3>1, <3>2 DEF GiveUp
  <2>2. st'.count \in Int /\ options.retryDestination \in Int
    BY <1>0, <1>2, IncrementedType DEF StateRecords, TypeOK, OptionRecords
  <2>3. /\ st'.mode = st.mode /\ st'.lastError = st.lastError
        /\ st'.errorMsg = st.errorMsg
    BY <1>0, <1>2 DEF StateRecords
  <2>4. Counted(st')
    BY <1>0, <2>1, <2>2, <2>3 DEF Counted, BootstrapModes, DestinationModes
  <2>5. QED BY <2>3, <2>4 DEF Sound, Diagnosed
<1>3. QED BY <1>1, <1>2 DEF RetryDestination

LEMMA ArrivedSound ==
  ASSUME TypeOK, Sound(st), st.mode \in DestinationModes
  PROVE  /\ Arrived(st) \in StateRecords
         /\ Arrived(st).mode \in DestinationModes
         /\ Sound(Arrived(st))
<1>1. Arrived(st) \in StateRecords
  <2>1. 0 \in 0..MaxCount /\ st \in StateRecords
    BY CountAssumption DEF TypeOK
  <2>2. QED
    BY <2>1 DEF Arrived, StateRecords, Modes, ErrorCodes, Messages, Deadlines
<1>2. Arrived(st).mode \in DestinationModes
  BY DEF Arrived, TypeOK, StateRecords, DestinationModes
<1>3. CASE options.needAdvanced
  <2>1. /\ Arrived(st).count = 0 /\ Arrived(st).lastError = "OK"
        /\ Arrived(st).errorMsg = NoMessage
    BY <1>3 DEF Arrived, TypeOK, StateRecords
  <2>2. QED BY <1>1, <1>2, <2>1, FreshSound, MessageAssumption
<1>4. CASE ~options.needAdvanced
  <2>1. /\ Arrived(st).count = st.count /\ Arrived(st).lastError = st.lastError
        /\ Arrived(st).errorMsg = st.errorMsg
    BY <1>4 DEF Arrived, TypeOK, StateRecords
  <2>2. QED
    BY <1>1, <1>2, <1>4, <2>1
    DEF Sound, Counted, Diagnosed, BootstrapModes, DestinationModes
<1>5. QED BY <1>1, <1>2, <1>3, <1>4

\* A call of bst_periodic.
LEMMA PeriodicSound ==
  ASSUME TypeInv, TypeInv', Sound(st), Periodic
  PROVE  PhaseInv'
<1>0. TypeOK /\ TypeOK' /\ st \in StateRecords
  BY DEF TypeInv, TypeOK
<1>1. CASE ServeFactoryReset
  <2>1. st'.count = 0 /\ st'.lastError = "OK" /\ st'.errorMsg = NoMessage
    BY <1>1 DEF ServeFactoryReset, Setup, SetupState, BootstrappedState,
                WaitForBootstrapState, ZeroState
  <2>2. options' \in OptionRecords
    BY <1>0 DEF TypeOK
  <2>3. QED
    BY <2>1, <2>2, MessageAssumption
    DEF PhaseInv, AttemptsBounded, DiagnosisConsistent, OptionRecords
<1>2. CASE /\ options' = options
           /\ Sound(st')
  BY <1>2 DEF PhaseInv, AttemptsBounded, DiagnosisConsistent, Sound, Counted,
              Diagnosed
<1>3. CASE ServeBind \/ ServeWifiList
  <2>1. Sound(st')
    BY <1>0, <1>3 DEF ServeBind, ServeWifiList, Sound, Counted, Diagnosed,
                      StateRecords
  <2>2. QED BY <1>2, <1>3, <2>1 DEF ServeBind, ServeWifiList, ram
<1>4. CASE ServeSetWifi
  BY <1>0, <1>2, <1>4, EnterBootstrappedSound DEF ServeSetWifi, ram
<1>5. CASE RunMode
  <2>1. Sound(st')
    <3>1. CASE ReachBootstrap \/ Wait
      <4>1. /\ [st EXCEPT !.mode = "WAITING_FOR_DATA"] \in StateRecords
            /\ [st EXCEPT !.mode = "WAITING_FOR_DATA"].mode = "WAITING_FOR_DATA"
        BY <1>0 DEF StateRecords, Modes
      <4>2. st.mode \in BootstrapModes
              => Sound([st EXCEPT !.mode = "WAITING_FOR_DATA"])
        BY <1>0 DEF Sound, Counted, Diagnosed, StateRecords, BootstrapModes,
                    DestinationModes
      <4>3. QED
        BY <1>0, <3>1, <4>1, <4>2, WaitForDataSound
        DEF ReachBootstrap, Wait, BootstrapModes
    <3>2. CASE ReachDestination
      BY <1>0, <3>2, ArrivedSound, CheckDestinationSound
      DEF ReachDestination, DestinationModes
    <3>3. CASE AwaitDestination \/ StayConnected
      BY <1>0, <3>3, CheckDestinationSound
      DEF AwaitDestination, StayConnected, DestinationModes
    <3>4. CASE RetryBootstrap \/ RetryDestination
      BY <1>0, <3>4, RetryBootstrapSound, RetryDestinationSound
    <3>5. QED BY <1>5, <3>1, <3>2, <3>3, <3>4 DEF RunMode
  <2>2. QED BY <1>2, <1>5, <2>1 DEF RunMode, ram
<1>6. QED BY <1>1, <1>3, <1>4, <1>5 DEF Periodic

LEMMA NextSound == TypeInv /\ PhaseInv /\ [Next]_vars => PhaseInv'
<1> SUFFICES ASSUME TypeInv, PhaseInv, [Next]_vars PROVE PhaseInv'
  OBVIOUS
<1>0. TypeInv' /\ TypeOK /\ TypeOK' /\ st \in StateRecords /\ Sound(st)
  BY NextTypes, PhaseInvOfState DEF TypeInv, TypeOK
<1> DEFINE Same == /\ options' = options
                   /\ st'.mode = st.mode /\ st'.count = st.count
                   /\ st'.lastError = st.lastError
<1>1. CASE Same /\ (st'.errorMsg = st.errorMsg \/ st'.errorMsg \notin ErrorCodes)
  BY <1>1 DEF PhaseInv, AttemptsBounded, DiagnosisConsistent
<1>2. CASE Periodic
  BY <1>0, <1>2, PeriodicSound
<1>3. CASE \E p \in Packets : NetworkInput(p)
  <2>1. PICK p \in Packets : NetworkInput(p)
    BY <1>3
  <2>2. Same /\ st'.errorMsg = st.errorMsg
    BY <1>0, <2>1 DEF NetworkInput, Hello, LateCommand, Bind, SetData,
                      WithoutSession, StateRecords
  <2>3. QED BY <1>1, <2>2
<1>4. CASE \E message \in UserMessages \cup {NoMessage} : SetErrorMessage(message)
  <2>1. PICK message \in UserMessages \cup {NoMessage} : SetErrorMessage(message)
    BY <1>4
  <2>2. Same /\ st'.errorMsg = message
    BY <1>0, <2>1 DEF SetErrorMessage, StateRecords, ram
  <2>3. QED BY <1>1, <2>2, MessageAssumption
<1>5. CASE Reboot
  <2>1. st'.count = 0 /\ st'.lastError = "OK" /\ st'.errorMsg = NoMessage
    BY <1>5 DEF Reboot, Setup, SetupState, BootstrappedState,
                WaitForBootstrapState, ZeroState
  <2>2. options' \in OptionRecords
    BY <1>0 DEF TypeOK
  <2>3. QED
    BY <2>1, <2>2, MessageAssumption
    DEF PhaseInv, AttemptsBounded, DiagnosisConsistent, OptionRecords
<1>6. CASE \/ WifiNetworkList \/ ScanFails \/ FactoryReset \/ ConfirmBootstrap
           \/ LinkChanges \/ Tick
  BY <1>0, <1>1, <1>6 DEF WifiNetworkList, ScanFails, FactoryReset,
     ConfirmBootstrap, LinkChanges, Tick, StateRecords, ram
<1>7. CASE UNCHANGED vars
  BY <1>1, <1>7 DEF vars
<1>8. QED
  BY <1>2, <1>3, <1>4, <1>5, <1>6, <1>7 DEF Next, Environment

LEMMA InitSound == Init => PhaseInv
<1> SUFFICES ASSUME Init PROVE PhaseInv
  OBVIOUS
<1>1. TypeOK
  BY InitTypes DEF TypeInv
<1>2. st.count = 0 /\ st.lastError = "OK" /\ st.errorMsg = NoMessage
  BY DEF Init, SetupState, BootstrappedState, WaitForBootstrapState, ZeroState
<1>3. QED
  BY <1>1, <1>2, FreshSound, PhaseInvOfState, MessageAssumption DEF TypeOK

\* The attempt counter that three modes share respects the limit of each, also
\* where a limit is the largest value the counter can take.
THEOREM AttemptsStayBounded == Spec => []AttemptsBounded
<1>1. PhaseInv => AttemptsBounded
  BY DEF PhaseInv
<1>2. QED
  BY <1>1, InitTypes, InitSound, NextTypes, NextSound, PTL DEF Spec

\* No explanation of an earlier failure survives into the next bootstrap phase.
THEOREM DiagnosesMatch == Spec => []DiagnosisConsistent
<1>1. PhaseInv => DiagnosisConsistent
  BY DEF PhaseInv
<1>2. QED
  BY <1>1, InitTypes, InitSound, NextTypes, NextSound, PTL DEF Spec

-----------------------------------------------------------------------------
(* The begin of a bootstrap phase *)

Clean ==
  st.mode \in DestinationModes /\ st'.mode \in BootstrapModes
    => /\ flags' = {} /\ st'.count = 0
       /\ st'.appNonce = NoNonce /\ st'.deviceNonce = NoNonce

LEMMA SetupClean ==
  ASSUME NEW o, NEW d, NEW key, NEW idle, Setup(o, d, key, idle)
  PROVE  Clean
BY DEF Clean, Setup, SetupState, BootstrappedState, WaitForBootstrapState,
       ZeroState

\* bst_periodic in one of the modes of the destination.
LEMMA CheckDestinationClean ==
  ASSUME TypeOK, NEW s \in StateRecords, s.mode \in DestinationModes,
         CheckDestination(s)
  PROVE  Clean
<1>1. CASE \E code, message : EnterWaitForBootstrap(code, message)
  BY <1>1 DEF EnterWaitForBootstrap, WaitForBootstrapState, ZeroState, Clean
<1>2. CASE st'.mode \in DestinationModes
  BY <1>2 DEF Clean, DestinationModes, BootstrapModes
<1>3. CASE AdvancedConnection(s)
  <2>1. CASE st' \in { s, [s EXCEPT !.count = Incremented(s.count),
                                    !.timeout = options.connectTimeout] }
    BY <1>2, <2>1 DEF StateRecords
  <2>2. QED BY <1>1, <1>3, <2>1 DEF AdvancedConnection
<1>4. CASE st' \in { s, [s EXCEPT !.errorMsg = NoMessage, !.lastError = "OK"],
                     [s EXCEPT !.mode = "CONNECTING_TO_DEST"] }
  BY <1>2, <1>4 DEF StateRecords, DestinationModes
<1>5. QED BY <1>1, <1>3, <1>4 DEF CheckDestination

LEMMA PeriodicClean ==
  ASSUME TypeOK, Periodic
  PROVE  Clean
<1>0. st \in StateRecords
  BY DEF TypeOK
<1>1. CASE ServeFactoryReset
  BY <1>1, SetupClean DEF ServeFactoryReset
<1>2. CASE ServeBind \/ ServeWifiList
  <2>1. st'.mode = st.mode
    BY <1>0, <1>2 DEF ServeBind, ServeWifiList, StateRecords
  <2>2. QED BY <2>1 DEF Clean, DestinationModes, BootstrapModes
<1>3. CASE EnterBootstrapped
  BY <1>3 DEF EnterBootstrapped, BootstrappedState, ZeroState, Clean,
              BootstrapModes
<1>4. CASE ReachBootstrap \/ RetryBootstrap \/ Wait
  BY <1>4 DEF ReachBootstrap, RetryBootstrap, Wait, Clean, DestinationModes
<1>5. CASE ReachDestination \/ AwaitDestination \/ StayConnected
  <2>1. /\ Arrived(st) \in StateRecords
        /\ Arrived(st).mode \in DestinationModes
    <3>1. 0 \in 0..MaxCount
      BY CountAssumption
    <3>2. QED
      BY <1>0, <3>1 DEF Arrived, StateRecords, Modes, ErrorCodes, Messages,
                        Deadlines, DestinationModes
  <2>2. QED
    BY <1>0, <1>5, <2>1, CheckDestinationClean
    DEF ReachDestination, AwaitDestination, StayConnected, DestinationModes
<1>6. CASE RetryDestination
  <2>1. CASE \E code, message : EnterWaitForBootstrap(code, message)
    BY <2>1 DEF EnterWaitForBootstrap, WaitForBootstrapState, ZeroState, Clean
  <2>2. CASE st'.mode = st.mode
    BY <2>2 DEF Clean, DestinationModes, BootstrapModes
  <2>3. QED BY <1>0, <1>6, <2>1, <2>2 DEF RetryDestination, StateRecords
<1>7. QED
  BY <1>1, <1>2, <1>3, <1>4, <1>5, <1>6 DEF Periodic, RunMode, ServeSetWifi

\* Whichever way leads back to the bootstrap network, nothing of an earlier
\* bootstrap phase is left: no session, confirmation, request or attempt.
THEOREM PhasesStartClean == Spec => PhaseStartsClean
<1>1. TypeInv /\ [Next]_vars => [Clean]_vars
  <2> SUFFICES ASSUME TypeInv, Next PROVE Clean
    OBVIOUS
  <2>0. TypeOK /\ st \in StateRecords
    BY DEF TypeInv, TypeOK
  <2>1. CASE Periodic
    BY <2>0, <2>1, PeriodicClean
  <2>2. CASE st'.mode = st.mode
    BY <2>2 DEF Clean, DestinationModes, BootstrapModes
  <2>3. CASE \E p \in Packets : NetworkInput(p)
    BY <2>3 DEF NetworkInput, Clean, DestinationModes
  <2>4. CASE Reboot
    BY <2>4, SetupClean DEF Reboot
  <2>5. CASE Environment /\ ~Reboot /\ ~(\E p \in Packets : NetworkInput(p))
    BY <2>0, <2>2, <2>5 DEF Environment, WifiNetworkList, ScanFails,
       SetErrorMessage, FactoryReset, ConfirmBootstrap, LinkChanges, StateRecords
  <2>6. CASE Tick
    BY <2>0, <2>2, <2>6 DEF Tick, StateRecords
  <2>7. QED BY <2>1, <2>3, <2>4, <2>5, <2>6 DEF Next, Environment
<1>2. QED
  BY <1>1, InitTypes, NextTypes, PTL DEF Spec, PhaseStartsClean, Clean

-----------------------------------------------------------------------------
(* Requests *)

\* The action of RequestsAreServed: what one step does to the requests.
Served ==
  \/ Reboot
  \/ "factory_reset" \in flags /\ flash' = EmptyFlash /\ flags' = {}
  \/ /\ "factory_reset" \in flags => "factory_reset" \in flags'
     /\ "bind" \in flags \ flags' => flash'.secret = secret
     /\ "set_wifi" \in flags \ flags' => flash'.data = data
     /\ "wifi_list" \in flags \ flags' => scan'

LEMMA PeriodicServes ==
  ASSUME TypeInv, Periodic
  PROVE  Served
<1>1. CASE ServeFactoryReset
  BY <1>1 DEF ServeFactoryReset, Pending, Setup, Served
<1>2. CASE ServeBind
  BY <1>2 DEF ServeBind, Served, TypeInv, TypeOK
<1>3. CASE ServeWifiList
  BY <1>3 DEF ServeWifiList, Served
<1>4. CASE ServeSetWifi
  BY <1>4 DEF ServeSetWifi, Pending, Before, Served, TypeInv, TypeOK
<1>5. CASE RunMode
  BY <1>5 DEF RunMode, Idle, Requests, Served
<1>6. QED BY <1>1, <1>2, <1>3, <1>4, <1>5 DEF Periodic

\* No request is lost: whatever clears a flag has done what it stands for, for
\* any order in which apps, the user and bst_periodic take turns.
THEOREM NoRequestIsLost == Spec => RequestsAreServed
<1>1. TypeInv /\ [Next]_vars => [Served]_vars
  <2> SUFFICES ASSUME TypeInv, Next PROVE Served
    OBVIOUS
  <2>1. CASE Periodic
    BY <2>1, PeriodicServes
  <2>2. CASE Reboot
    BY <2>2 DEF Served
  <2>3. CASE Tick \/ (Environment /\ ~Reboot)
    <3>1. flags \subseteq flags'
      BY <2>3 DEF Environment, NetworkInput, Hello, LateCommand, Bind, SetData,
         WifiNetworkList, ScanFails, SetErrorMessage, FactoryReset,
         ConfirmBootstrap, LinkChanges, Tick
    <3>2. QED BY <3>1 DEF Served
  <2>4. QED BY <2>1, <2>2, <2>3 DEF Next
<1>2. QED
  BY <1>1, InitTypes, NextTypes, PTL DEF Spec, RequestsAreServed, Served

-----------------------------------------------------------------------------
(* Liveness *)

\* Every application passes what bst_periodic needs to do anything.
ProperOptions ==
  \A o \in UserOptions : o.hasBootstrapSsid /\ o.initialSecret # NoSecret

\* bst_setup keeps the two options that the first test of bst_periodic reads.
ConfiguredInv ==
  Configured /\ config.hasBootstrapSsid /\ config.initialSecret # NoSecret

LEMMA InitConfigured == ProperOptions /\ Init => ConfiguredInv
<1> SUFFICES ASSUME ProperOptions, Init PROVE ConfiguredInv
  OBVIOUS
<1>1. config \in UserOptions /\ config \in OptionRecords
  BY OptionsAssumption DEF Init
<1>2. /\ options.hasBootstrapSsid = config.hasBootstrapSsid
      /\ options.initialSecret = config.initialSecret
  BY <1>1 DEF Init, SetupOptions, OptionRecords
<1>3. QED
  BY <1>1, <1>2 DEF ProperOptions, ConfiguredInv, Configured

LEMMA NextConfigured == TypeInv /\ ConfiguredInv /\ [Next]_vars => ConfiguredInv'
<1> SUFFICES ASSUME TypeInv, ConfiguredInv, [Next]_vars PROVE ConfiguredInv'
  OBVIOUS
<1>0. options \in OptionRecords /\ config \in OptionRecords
  BY DEF TypeInv, TypeOK
<1>1. CASE ServeFactoryReset /\ UNCHANGED config
  BY <1>0, <1>1 DEF ServeFactoryReset, Setup, SetupOptions, OptionRecords,
                    ConfiguredInv, Configured
<1>2. CASE Reboot
  BY <1>0, <1>2 DEF Reboot, Setup, SetupOptions, OptionRecords, ConfiguredInv,
                    Configured
<1>3. CASE UNCHANGED <<config, options>>
  BY <1>3 DEF ConfiguredInv, Configured
<1>4. CASE Periodic
  BY <1>1, <1>3, <1>4 DEF Periodic, ServeBind, ServeWifiList, ServeSetWifi,
                          RunMode, ram
<1>5. CASE Environment
  BY <1>2, <1>3, <1>5 DEF Environment, NetworkInput, WifiNetworkList, ScanFails,
     SetErrorMessage, FactoryReset, ConfirmBootstrap, LinkChanges, ram
<1>6. CASE Tick \/ UNCHANGED vars
  BY <1>3, <1>6 DEF Tick, vars, ram
<1>7. QED BY <1>4, <1>5, <1>6 DEF Next

ResetWanted == "factory_reset" \in flags
ResetDone   == flash = EmptyFlash /\ st.mode = "CONNECTING_TO_BOOTSTRAP"

\* A call of bst_periodic that finds the flag carries the reset out at once.
LEMMA ResetServed ==
  ASSUME ConfiguredInv, ResetWanted, Periodic
  PROVE  ResetDone'
<1>1. ServeFactoryReset
  BY DEF ResetWanted, Periodic, ServeBind, ServeWifiList, ServeSetWifi, RunMode,
         Pending, Before, Idle
<1>2. st' = WaitForBootstrapState(options, "OK", NoMessage)
  BY <1>1 DEF ServeFactoryReset, Setup, SetupState, ConfiguredInv, Configured
<1>3. QED
  BY <1>1, <1>2 DEF ServeFactoryReset, ResetDone, WaitForBootstrapState, ZeroState

\* The main loop calls bst_periodic again and again: as long as a request is noted,
\* such a call takes a step.  FairSpec says so by the ENABLED of its weak fairness,
\* which none of the provers expands; this is all that is needed of it.
LoopRuns == []<><<Periodic>>_vars \/ []<>(~Configured \/ Idle)

\* A factory reset that was asked for happens on every device that is not cut off
\* from power before, if only bst_periodic is called again.
THEOREM FactoryResetsHappen ==
  ASSUME ProperOptions, ~Reboots
  PROVE  Spec /\ LoopRuns => FactoryResetHappens
<1>1. Init => TypeInv /\ ConfiguredInv
  BY InitTypes, InitConfigured
<1>2. TypeInv /\ ConfiguredInv /\ [Next]_vars => (TypeInv /\ ConfiguredInv)'
  BY NextTypes, NextConfigured
<1>3. ConfiguredInv /\ ResetWanted => Configured /\ ~Idle
  BY DEF ConfiguredInv, ResetWanted, Idle
<1>4. /\ TypeInv /\ ConfiguredInv /\ ResetWanted /\ [Next]_vars
      => ResetWanted' \/ ResetDone'
  <2> SUFFICES ASSUME TypeInv, ConfiguredInv, ResetWanted, [Next]_vars
               PROVE  ResetWanted' \/ ResetDone'
    OBVIOUS
  <2>1. CASE Periodic
    BY <2>1, ResetServed
  <2>2. CASE ~Periodic
    <3>1. flags \subseteq flags'
      BY <2>2 DEF Next, Environment, NetworkInput, Hello, LateCommand, Bind,
         SetData, WifiNetworkList, ScanFails, SetErrorMessage, FactoryReset,
         ConfirmBootstrap, LinkChanges, Tick, Reboot, vars
    <3>2. QED BY <3>1 DEF ResetWanted
  <2>3. QED BY <2>1, <2>2
<1>5. ConfiguredInv /\ ResetWanted /\ <<Periodic>>_vars => ResetDone'
  BY ResetServed
<1>6. QED
  BY <1>1, <1>2, <1>3, <1>4, <1>5, PTL
  DEF Spec, LoopRuns, FactoryResetHappens, ResetWanted, ResetDone

\* A call of bst_periodic with an unsaved key, or with unsaved data and nothing
\* that comes first, stores what is unsaved.
NothingFirst == flags \cap {"bind", "wifi_list"} = {}
Saved        == DataSaved /\ KeySaved

LEMMA KeyServed ==
  ASSUME TypeInv, StorageInv, ~KeySaved, Periodic
  PROVE  KeySaved'
<1>1. "bind" \in flags
  BY DEF StorageInv, UnsavedChangesPending
<1>2. CASE ServeFactoryReset
  <2>1. options'.initialSecret = options.initialSecret
    BY <1>2 DEF ServeFactoryReset, Setup, SetupOptions, OptionRecords, TypeInv,
                TypeOK
  <2>2. QED
    BY <1>2, <2>1 DEF ServeFactoryReset, Setup, SetupSecret, EmptyFlash
<1>3. CASE ServeBind
  BY <1>3 DEF ServeBind, ram, TypeInv, TypeOK
<1>4. QED
  BY <1>1, <1>2, <1>3 DEF Periodic, ServeWifiList, ServeSetWifi, RunMode, Pending,
                          Before, Idle, Requests

LEMMA DataServed ==
  ASSUME TypeInv, StorageInv, NothingFirst, ~Saved, Periodic
  PROVE  Saved'
<1>1. /\ KeySaved /\ "set_wifi" \in flags
      /\ "bind" \notin flags /\ "wifi_list" \notin flags
  BY DEF StorageInv, UnsavedChangesPending, NothingFirst, Saved
<1>2. CASE ServeFactoryReset
  <2>1. options'.initialSecret = options.initialSecret
    BY <1>2 DEF ServeFactoryReset, Setup, SetupOptions, OptionRecords, TypeInv,
                TypeOK
  <2>2. QED
    BY <1>2, <2>1 DEF ServeFactoryReset, Setup, SetupSecret, EmptyFlash, Saved
<1>3. CASE ServeSetWifi
  <2>1. flash'.data = data /\ flash'.secret = flash.secret
    BY <1>3 DEF ServeSetWifi, TypeInv, TypeOK
  <2>2. UNCHANGED <<options, data, secret>>
    BY <1>3 DEF ServeSetWifi, ram
  <2>3. QED BY <1>1, <2>1, <2>2 DEF Saved, SetupSecret
<1>4. QED
  BY <1>1, <1>2, <1>3 DEF Periodic, ServeBind, ServeWifiList, RunMode, Pending,
                          Idle, Requests

\* What an app has changed reaches flash: its key always, whatever else apps ask
\* for, and its data once apps leave HELLO and BIND alone.  Crashes do no harm: a
\* device that starts again has in RAM what bst_setup makes of flash.
THEOREM ChangesAreSaved ==
  ASSUME ProperOptions
  PROVE  Spec /\ LoopRuns => ChangesReachFlash
<1> DEFINE SavingInv == TypeInv /\ StorageInv /\ ConfiguredInv
<1>1. Init => SavingInv
  BY InitTypes, InitStorage, InitConfigured
<1>2. SavingInv /\ [Next]_vars => SavingInv'
  BY NextTypes, NextStorage, NextConfigured
<1>3. SavingInv /\ ~KeySaved => Configured /\ ~Idle
  BY DEF ConfiguredInv, StorageInv, UnsavedChangesPending, Idle, Requests
<1>4. SavingInv /\ ~Saved => Configured /\ ~Idle
  BY DEF ConfiguredInv, StorageInv, UnsavedChangesPending, Idle, Requests, Saved
<1>5. SavingInv /\ ~KeySaved /\ <<Periodic>>_vars => KeySaved'
  BY KeyServed
<1>6. SavingInv /\ NothingFirst /\ ~Saved /\ <<Periodic>>_vars => Saved'
  BY DataServed
<1> HIDE DEF SavingInv
<1>7. Spec /\ LoopRuns => []<>KeySaved
  BY <1>1, <1>2, <1>3, <1>5, PTL DEF Spec, LoopRuns
<1>8. Spec /\ LoopRuns => (<>[]NothingFirst => []<>Saved)
  BY <1>1, <1>2, <1>4, <1>6, PTL DEF Spec, LoopRuns
<1>9. QED
  BY <1>7, <1>8, PTL DEF ChangesReachFlash, NothingFirst, Saved
=============================================================================
