---------------------- MODULE BootstrapWifi_refinement ----------------------
(***************************************************************************)
(* The proof that the state machine of the library implements the promise  *)
(* of Bootstrapping: its initial states are initial states of the promise, *)
(* and each of its steps is a step of the promise or changes nothing of    *)
(* it.  The steps rest on the invariants proved in BootstrapWifi_proofs.   *)
(***************************************************************************)
EXTENDS BootstrapWifi_proofs

-----------------------------------------------------------------------------
(* The values of the promise in the states the program builds *)

\* What is left of the flags tells that nothing is offered or to be reset.
LEMMA NoFlagsMapped ==
  /\ flags = {} => NewKey = {} /\ NewData = {} /\ Resetting = FALSE
  /\ flags' = {} => NewKey' = {} /\ NewData' = {} /\ Resetting' = FALSE
BY DEF NewKey, NewData, Resetting

\* prv_enter_bootstrapped_mode with what flash holds is the way to the
\* destination.
LEMMA EnterBootstrappedMapped ==
  ASSUME EnterBootstrapped
  PROVE  /\ Promise!Fresh'
         /\ PhaseOf(st.mode)' = "destination" /\ Joined' = data
<1>1. /\ st'.mode = "CONNECTING_TO_DEST" /\ st'.appNonce = NoNonce
      /\ st'.nonceValid = Past
  BY DEF EnterBootstrapped, BootstrappedState, ZeroState
<1>2. /\ link'.target = "destination" /\ link'.credentials = data
      /\ link'.status = "CONNECTING" /\ flags' = {}
  BY DEF EnterBootstrapped, ConnectedTo
<1>3. QED
  BY <1>1, <1>2, NoFlagsMapped
  DEF Promise!Fresh, PhaseOf, SessionOf, Joined, Online, Past, BootstrapModes,
      Established

\* prv_enter_wait_for_bootstrap_mode is the way back.
LEMMA EnterWaitMapped ==
  ASSUME NEW code, NEW message, EnterWaitForBootstrap(code, message)
  PROVE  /\ Promise!Fresh'
         /\ PhaseOf(st.mode)' = "bootstrap" /\ Joined' = NoData
<1>1. /\ st'.mode = "CONNECTING_TO_BOOTSTRAP" /\ st'.appNonce = NoNonce
      /\ st'.nonceValid = Past
  BY DEF EnterWaitForBootstrap, WaitForBootstrapState, ZeroState
<1>2. /\ link'.target = "bootstrap"
      /\ link'.status = "CONNECTING" /\ flags' = {}
  BY DEF EnterWaitForBootstrap, ConnectedTo
<1>3. QED
  BY <1>1, <1>2, NoFlagsMapped
  DEF Promise!Fresh, PhaseOf, SessionOf, Joined, Online, Past, BootstrapModes,
      Established

\* The deadlines tell how the session stands.
LEMMA SessionMapped ==
  ASSUME NEW s \in StateRecords
  PROVE  /\ SessionValid(s) <=> SessionOf(s.nonceValid) # "over"
         /\ SessionFree(s) <=> SessionOf(s.nonceValid) # "held"
BY DEF SessionValid, SessionFree, SessionOf, StateRecords, Deadlines, Past

\* A step that leaves alone what the values are made from is no step of the
\* promise.
LEMMA Unseen ==
  ASSUME UNCHANGED <<flash, data, secret>>,
         flags' \cap {"bind", "set_wifi", "factory_reset"}
           = flags \cap {"bind", "set_wifi", "factory_reset"},
         st'.appNonce = st.appNonce, st'.nonceValid = st.nonceValid,
         PhaseOf(st'.mode) = PhaseOf(st.mode),
         link'.target = link.target, Online' = Online,
         link'.target = "destination" => link'.credentials = link.credentials
  PROVE  UNCHANGED Promise!vars
<1>1. Flashed' = Flashed /\ Joined' = Joined
  BY DEF Flashed, Joined
<1>2. NewKey' = NewKey /\ NewData' = NewData /\ Resetting' = Resetting
  <2>1. \A r \in {"bind", "set_wifi", "factory_reset"} : r \in flags' <=> r \in flags
    OBVIOUS
  <2>2. QED BY <2>1 DEF NewKey, NewData, Resetting
<1>3. QED BY <1>1, <1>2 DEF Promise!vars

-----------------------------------------------------------------------------
(* The switch of bst_periodic *)

\* Nothing is offered when bst_periodic looks at the mode.
LEMMA IdleMapped ==
  ASSUME TypeInv, StorageInv, Idle
  PROVE  /\ NewKey = {} /\ NewData = {} /\ ~Resetting
         /\ Flashed.data = data
<1>1. "bind" \notin flags /\ "set_wifi" \notin flags /\ "factory_reset" \notin flags
  BY DEF Idle, Requests
<1>2. data = flash.data
  BY <1>1 DEF StorageInv, UnsavedChangesPending, KeySaved, DataSaved
<1>3. QED BY <1>1, <1>2 DEF NewKey, NewData, Resetting, Flashed

LEMMA LeaveMapped ==
  ASSUME TypeInv, StorageInv, Idle, st.mode \in BootstrapModes,
         UNCHANGED <<data, secret, flash>>, data # NoData,
         ~SessionValid(st) \/ link.status \notin Established,
         EnterBootstrapped
  PROVE  Promise!LeaveForDestination
<1>1. st \in StateRecords
  BY DEF TypeInv, TypeOK
<1>2. PhaseOf(st.mode) = "bootstrap"
  BY DEF PhaseOf, BootstrapModes
<1>3. SessionOf(st.nonceValid) = "over" \/ ~Online
  BY <1>1, SessionMapped DEF Online
<1>4. Flashed' = Flashed /\ Joined' = Flashed.data
  BY IdleMapped, EnterBootstrappedMapped DEF Flashed
<1>5. QED
  BY <1>2, <1>3, <1>4, IdleMapped, EnterBootstrappedMapped
  DEF Promise!LeaveForDestination

LEMMA FallBackMapped ==
  ASSUME TypeInv, StorageInv, Idle, st.mode \in DestinationModes,
         UNCHANGED flash, NEW code, NEW message,
         EnterWaitForBootstrap(code, message)
  PROVE  Promise!FallBack
<1>1. PhaseOf(st.mode) = "destination"
  BY DEF PhaseOf, BootstrapModes, DestinationModes
<1>2. Flashed' = Flashed
  BY DEF Flashed
<1>3. QED BY <1>1, <1>2, IdleMapped, EnterWaitMapped DEF Promise!FallBack

Step == Promise!Next \/ UNCHANGED Promise!vars

LEMMA WaitForDataStep ==
  ASSUME TypeInv, StorageInv, Idle, UNCHANGED <<data, secret, flash>>,
         st.mode \in BootstrapModes,
         NEW s \in StateRecords, s.mode = "WAITING_FOR_DATA",
         s.appNonce = st.appNonce, s.nonceValid = st.nonceValid,
         WaitForData(s)
  PROVE  Step
<1>1. CASE data # NoData /\ ~SessionValid(s) /\ EnterBootstrapped
  BY <1>1, LeaveMapped DEF SessionValid, Step, Promise!Next
<1>2. CASE /\ st' \in { s, [s EXCEPT !.mode = "CONNECTING_TO_BOOTSTRAP"],
                        [s EXCEPT !.timeout = options.connectTimeout] }
           /\ UNCHANGED <<flags, link>>
  <2>1. /\ st'.appNonce = st.appNonce /\ st'.nonceValid = st.nonceValid
        /\ st'.mode \in BootstrapModes
    BY <1>2 DEF StateRecords, BootstrapModes
  <2>2. PhaseOf(st'.mode) = PhaseOf(st.mode)
    BY <2>1 DEF PhaseOf, BootstrapModes
  <2>3. QED BY <1>2, <2>1, <2>2, Unseen DEF Step, Online
<1>3. QED BY <1>1, <1>2 DEF WaitForData

LEMMA CheckDestinationStep ==
  ASSUME TypeInv, StorageInv, Idle, UNCHANGED <<data, secret, flash>>,
         st.mode \in DestinationModes,
         NEW s \in StateRecords, s.mode \in DestinationModes,
         s.appNonce = st.appNonce, s.nonceValid = st.nonceValid,
         CheckDestination(s)
  PROVE  Step
<1>1. CASE \E code, message : EnterWaitForBootstrap(code, message)
  BY <1>1, FallBackMapped DEF Step, Promise!Next
<1>2. CASE /\ st' \in { s, [s EXCEPT !.mode = "CONNECTING_TO_DEST"],
                        [s EXCEPT !.errorMsg = NoMessage, !.lastError = "OK"],
                        [s EXCEPT !.count = Incremented(s.count),
                                  !.timeout = options.connectTimeout] }
           /\ link' \in {link, [link EXCEPT !.advanced = TRUE]}
           /\ UNCHANGED flags
  <2>1. /\ st'.appNonce = st.appNonce /\ st'.nonceValid = st.nonceValid
        /\ st'.mode \in DestinationModes
    BY <1>2 DEF StateRecords, DestinationModes
  <2>2. PhaseOf(st'.mode) = PhaseOf(st.mode)
    BY <2>1 DEF PhaseOf, DestinationModes, BootstrapModes
  <2>3. link' \in LinkRecords /\ link'.target = link.target
        /\ link'.status = link.status /\ link'.credentials = link.credentials
    BY <1>2 DEF TypeInv, TypeOK, LinkRecords
  <2>4. QED BY <1>2, <2>1, <2>2, <2>3, Unseen DEF Step, Online
<1>3. QED BY <1>1, <1>2 DEF CheckDestination, AdvancedConnection

LEMMA RetryBootstrapStep ==
  ASSUME TypeInv, StorageInv, Idle, UNCHANGED <<data, secret, flash>>,
         RetryBootstrap
  PROVE  Step
<1>0. /\ st \in StateRecords /\ st.mode \in BootstrapModes
      /\ link.target = "bootstrap" /\ ~Online
  BY DEF TypeInv, TypeOK, RetryBootstrap, BootstrapModes, StorageInv,
         RadioMatchesMode, Online
<1>1. CASE data # NoData /\ EnterBootstrapped
  BY <1>0, <1>1, LeaveMapped DEF Step, Promise!Next, Online
<1>2. CASE /\ \/ st' = st /\ link' = link
              \/ /\ st' \in { [st EXCEPT !.timeout = options.connectTimeout],
                               [st EXCEPT !.timeout = options.connectTimeout,
                                          !.count = Incremented(st.count)] }
                 /\ link' = ConnectedTo("bootstrap", NoData)
           /\ UNCHANGED flags
  <2>1. /\ st'.appNonce = st.appNonce /\ st'.nonceValid = st.nonceValid
        /\ st'.mode = st.mode
    BY <1>0, <1>2 DEF StateRecords
  <2>2. link'.target = "bootstrap" /\ Online' = Online
    BY <1>0, <1>2 DEF ConnectedTo, Online, Established
  <2>3. QED BY <1>0, <1>2, <2>1, <2>2, Unseen DEF Step
<1>3. QED BY <1>1, <1>2 DEF RetryBootstrap

LEMMA RetryDestinationStep ==
  ASSUME TypeInv, StorageInv, Idle, UNCHANGED <<data, secret, flash>>,
         RetryDestination
  PROVE  Step
<1>0. /\ st \in StateRecords /\ st.mode \in DestinationModes
      /\ link.target = "destination" /\ link.credentials = data /\ ~Online
  BY DEF TypeInv, TypeOK, RetryDestination, DestinationModes, StorageInv,
         RadioMatchesMode, Online
<1>1. CASE \E code, message : EnterWaitForBootstrap(code, message)
  BY <1>0, <1>1, FallBackMapped DEF Step, Promise!Next
<1>2. CASE /\ st' = [st EXCEPT !.timeout = options.connectTimeout,
                               !.count = Incremented(st.count)]
           /\ link' = ConnectedTo("destination", data)
           /\ UNCHANGED flags
  <2>1. /\ st'.appNonce = st.appNonce /\ st'.nonceValid = st.nonceValid
        /\ st'.mode = st.mode
    BY <1>0, <1>2 DEF StateRecords
  <2>2. /\ link'.target = "destination" /\ link'.credentials = link.credentials
        /\ Online' = Online
    BY <1>0, <1>2 DEF ConnectedTo, Online, Established
  <2>3. QED BY <1>0, <1>2, <2>1, <2>2, Unseen DEF Step
<1>3. QED BY <1>1, <1>2 DEF RetryDestination

LEMMA RunModeStep ==
  ASSUME TypeInv, StorageInv, RunMode
  PROVE  Step
<1>0. /\ Idle /\ st \in StateRecords
      /\ UNCHANGED <<data, secret, flash>>
  BY DEF RunMode, ram, TypeInv, TypeOK
<1>1. CASE ReachBootstrap \/ Wait
  <2>1. [st EXCEPT !.mode = "WAITING_FOR_DATA"] \in StateRecords
    BY <1>0 DEF StateRecords, Modes
  <2>2. /\ [st EXCEPT !.mode = "WAITING_FOR_DATA"].mode = "WAITING_FOR_DATA"
        /\ [st EXCEPT !.mode = "WAITING_FOR_DATA"].appNonce = st.appNonce
        /\ [st EXCEPT !.mode = "WAITING_FOR_DATA"].nonceValid = st.nonceValid
    BY <1>0 DEF StateRecords
  <2>3. QED
    BY <1>0, <1>1, <2>1, <2>2, WaitForDataStep
    DEF ReachBootstrap, Wait, BootstrapModes
<1>2. CASE RetryBootstrap
  BY <1>0, <1>2, RetryBootstrapStep
<1>3. CASE RetryDestination
  BY <1>0, <1>3, RetryDestinationStep
<1>4. CASE ReachDestination
  <2>1. Arrived(st) \in StateRecords
    <3>1. 0 \in 0..MaxCount
      BY CountAssumption
    <3>2. QED
      BY <1>0, <3>1 DEF Arrived, StateRecords, Modes, ErrorCodes, Messages,
                        Deadlines
  <2>2. /\ Arrived(st).mode = "DESTINATION_CONNECTED"
        /\ Arrived(st).appNonce = st.appNonce
        /\ Arrived(st).nonceValid = st.nonceValid
    BY <1>0 DEF Arrived, StateRecords
  <2>3. QED
    BY <1>0, <1>4, <2>1, <2>2, CheckDestinationStep
    DEF ReachDestination, DestinationModes
<1>5. CASE AwaitDestination \/ StayConnected
  BY <1>0, <1>5, CheckDestinationStep
  DEF AwaitDestination, StayConnected, DestinationModes
<1>6. QED BY <1>1, <1>2, <1>3, <1>4, <1>5 DEF RunMode

-----------------------------------------------------------------------------
(* The requests *)

\* bst_setup with what flash holds is a start of the promise.
LEMMA SetupMapped ==
  ASSUME NEW o \in OptionRecords, NEW d, NEW key, NEW idle,
         idle \in {IdleLink} \/ o.hasBootstrapSsid,
         Setup(o, d, key, idle), flash'.data = d
  PROVE  /\ Promise!Started'
         /\ d = NoData /\ o.hasBootstrapSsid => PhaseOf(st.mode)' = "bootstrap"
<1>1. /\ st' = SetupState(o, d) /\ link' = SetupLink(o, d, idle) /\ flags' = {}
      /\ Flashed'.data = d
  BY DEF Setup, Flashed
<1>2. st'.appNonce = NoNonce /\ st'.nonceValid = Past
  BY <1>1 DEF SetupState, BootstrappedState, WaitForBootstrapState, ZeroState
<1>3. SessionOf(st.nonceValid)' = "over"
  BY <1>2 DEF SessionOf, Past
<1>4. ~Online' /\ Joined' = d
  BY <1>1 DEF SetupLink, ConnectedTo, IdleLink, Online, Joined, Established
<1>5. /\ PhaseOf(st.mode)' \in IF d # NoData THEN {"destination"}
                               ELSE {"bootstrap", "off"}
      /\ d = NoData /\ o.hasBootstrapSsid => PhaseOf(st.mode)' = "bootstrap"
  <2>1. st'.mode = IF d # NoData THEN "CONNECTING_TO_DEST"
                   ELSE IF o.hasBootstrapSsid THEN "CONNECTING_TO_BOOTSTRAP"
                   ELSE "UNINITIALIZED"
    BY <1>1 DEF SetupState, BootstrappedState, WaitForBootstrapState, ZeroState
  <2>2. QED BY <2>1 DEF PhaseOf, BootstrapModes
<1>6. QED
  BY <1>1, <1>2, <1>3, <1>4, <1>5, NoFlagsMapped
  DEF Promise!Started, Promise!Fresh

LEMMA FactoryResetStep ==
  ASSUME TypeInv, Configured, ServeFactoryReset
  PROVE  Promise!Reset
<1>1. /\ options \in OptionRecords /\ options.hasBootstrapSsid
      /\ Setup(options, NoData, NoSecret, link) /\ flash' = EmptyFlash
  BY DEF ServeFactoryReset, Configured, TypeInv, TypeOK
<1>2. Promise!Started' /\ PhaseOf(st.mode)' = "bootstrap"
  <2>1. flash'.data = NoData
    BY <1>1 DEF EmptyFlash
  <2>2. QED BY <1>1, <2>1, SetupMapped
<1>3. Resetting /\ Flashed' = Promise!Nothing
  BY <1>1 DEF ServeFactoryReset, Pending, Resetting, Flashed, EmptyFlash,
              Promise!Nothing
<1>4. QED BY <1>2, <1>3 DEF Promise!Reset

LEMMA BindStep ==
  ASSUME TypeInv, ServeBind
  PROVE  Promise!KeepKey
<1>1. /\ "bind" \in flags /\ "factory_reset" \notin flags
      /\ flags' = flags \ {"bind"}
      /\ flash' = [flash EXCEPT !.secret = secret]
      /\ UNCHANGED <<data, link>>
  BY DEF ServeBind, Pending, Before, ram
<1>2. /\ st'.mode = st.mode /\ st'.appNonce = st.appNonce
      /\ st'.nonceValid = st.nonceValid
  BY DEF ServeBind, TypeInv, TypeOK, StateRecords
<1>3. /\ NewKey = {secret} /\ NewKey' = {} /\ NewData' = NewData
      /\ ~Resetting /\ Resetting' = Resetting
  BY <1>1 DEF NewKey, NewData, Resetting
<1>4. Flashed' = [Flashed EXCEPT !.key = secret]
  BY <1>1 DEF Flashed, TypeInv, TypeOK
<1>5. Joined' = Joined /\ Online' = Online
  BY <1>1 DEF Joined, Online
<1>6. QED BY <1>2, <1>3, <1>4, <1>5 DEF Promise!KeepKey, Promise!place

LEMMA SetWifiStep ==
  ASSUME TypeInv, ServeSetWifi
  PROVE  Promise!KeepData
<1>1. /\ "set_wifi" \in flags /\ "bind" \notin flags
      /\ "factory_reset" \notin flags
      /\ flash' = [flash EXCEPT !.data = data]
      /\ EnterBootstrapped
  BY DEF ServeSetWifi, Pending, Before
<1>2. NewKey = {} /\ NewData = {data} /\ ~Resetting
  BY <1>1 DEF NewKey, NewData, Resetting
<1>3. Flashed' = [Flashed EXCEPT !.data = data]
  BY <1>1 DEF Flashed, TypeInv, TypeOK
<1>4. QED
  BY <1>1, <1>2, <1>3, EnterBootstrappedMapped DEF Promise!KeepData

LEMMA PeriodicStep ==
  ASSUME TypeInv, StorageInv, Periodic
  PROVE  Step
<1>1. CASE ServeFactoryReset
  BY <1>1, FactoryResetStep DEF Periodic, Step, Promise!Next
<1>2. CASE ServeBind
  BY <1>2, BindStep DEF Step, Promise!Next
<1>3. CASE ServeSetWifi
  BY <1>3, SetWifiStep DEF Step, Promise!Next
<1>4. CASE ServeWifiList
  <2>1. flags' \cap {"bind", "set_wifi", "factory_reset"}
          = flags \cap {"bind", "set_wifi", "factory_reset"}
    BY <1>4 DEF ServeWifiList
  <2>2. QED BY <1>4, <2>1, Unseen DEF ServeWifiList, ram, Step, Online
<1>5. CASE RunMode
  BY <1>5, RunModeStep
<1>6. QED BY <1>1, <1>2, <1>3, <1>4, <1>5 DEF Periodic

-----------------------------------------------------------------------------
(* Packets *)

LEMMA HelloStep ==
  ASSUME TypeInv, NEW p \in Packets, Hello(p), NetworkInput(p)
  PROVE  Promise!OpenSession(p.appNonce) /\ p.appNonce \in AppNonces
<1>1. p.appNonce \in AppNonces
  BY DEF Hello, Packets, HelloPackets, BindPackets, SetDataPackets
<1>2. /\ st \in StateRecords /\ options.nonceTimeout > 0
  BY DEF TypeInv, TypeOK, OptionRecords
<1>3. /\ st'.appNonce = p.appNonce /\ st'.nonceValid = options.nonceTimeout
      /\ st'.mode = st.mode
  BY <1>2 DEF Hello, StateRecords
<1>4. SessionOf(st'.nonceValid) = "held"
  BY <1>2, <1>3 DEF SessionOf
<1>5. SessionOf(st.nonceValid) # "held" \/ st.appNonce = p.appNonce
  BY <1>2, SessionMapped DEF Hello, Welcome
<1>6. PhaseOf(st.mode) = "bootstrap"
  BY DEF NetworkInput, PhaseOf, BootstrapModes
<1>7. Flashed' = Flashed /\ Joined' = Joined /\ Online' = Online
  BY DEF NetworkInput, Flashed, Joined, Online
<1>8. NewKey' = NewKey /\ NewData' = NewData /\ Resetting' = Resetting
  BY DEF Hello, NewKey, NewData, Resetting
<1>9. QED
  BY <1>1, <1>3, <1>4, <1>5, <1>6, <1>7, <1>8
  DEF Promise!OpenSession, Promise!place, Promise!offers

LEMMA LateCommandStep ==
  ASSUME TypeInv, NEW p, LateCommand(p), NetworkInput(p)
  PROVE  Promise!ForgetOwner
<1>1. st \in StateRecords
  BY DEF TypeInv, TypeOK
<1>2. /\ st'.appNonce = NoNonce /\ st'.nonceValid = Past /\ st'.mode = st.mode
  BY <1>1 DEF LateCommand, WithoutSession, StateRecords
<1>3. /\ SessionOf(st.nonceValid) = "over" /\ SessionOf(st'.nonceValid) = "over"
  BY <1>1, <1>2, SessionMapped DEF LateCommand, SessionOf, Past
<1>4. Flashed' = Flashed /\ Joined' = Joined /\ Online' = Online
  BY DEF NetworkInput, Flashed, Joined, Online
<1>5. NewKey' = NewKey /\ NewData' = NewData /\ Resetting' = Resetting
  BY DEF LateCommand, NewKey, NewData, Resetting
<1>6. QED
  BY <1>2, <1>3, <1>4, <1>5 DEF Promise!ForgetOwner, Promise!place, Promise!offers

LEMMA OfferStep ==
  ASSUME TypeInv, NEW p \in Packets, Bind(p) \/ SetData(p), NetworkInput(p)
  PROVE  Step
<1>1. /\ st \in StateRecords /\ UNCHANGED st
      /\ SessionOf(st.nonceValid) # "over"
  BY SessionMapped DEF TypeInv, TypeOK, Bind, SetData
<1>2. PhaseOf(st.mode) = "bootstrap"
  BY DEF NetworkInput, PhaseOf, BootstrapModes
<1>3. Flashed' = Flashed /\ Joined' = Joined /\ Online' = Online
  BY DEF NetworkInput, Flashed, Joined, Online
<1>4. CASE Bind(p)
  <2>1. p.newKey \in BindKeys \cup {NoSecret}
    BY <1>4 DEF Bind, Packets, HelloPackets, BindPackets, SetDataPackets
  <2>2. NewKey = {} /\ NewKey' = {p.newKey}
    BY <1>4 DEF Bind, NewKey
  <2>3. NewData' = NewData /\ Resetting' = Resetting
    BY <1>4 DEF Bind, NewData, Resetting
  <2>4. Promise!OfferKey(p.newKey)
    BY <1>1, <1>2, <1>3, <2>2, <2>3 DEF Promise!OfferKey, Promise!place
  <2>5. QED BY <2>1, <2>4 DEF Step, Promise!Next
<1>5. CASE SetData(p)
  <2>1. p.data \in Data \cup {NoData}
    BY <1>5, DataAssumption
    DEF SetData, Packets, HelloPackets, BindPackets, SetDataPackets
  <2>2. NewData = {} /\ NewData' = {p.data}
    BY <1>5 DEF SetData, NewData
  <2>3. NewKey' = NewKey /\ Resetting' = Resetting
    BY <1>5 DEF SetData, NewKey, Resetting
  <2>4. Promise!OfferData(p.data)
    BY <1>1, <1>2, <1>3, <2>2, <2>3 DEF Promise!OfferData, Promise!place
  <2>5. QED BY <2>1, <2>4 DEF Step, Promise!Next
<1>6. QED BY <1>4, <1>5

-----------------------------------------------------------------------------
(* The platform, the application and the clock *)

LEMMA RebootStep ==
  ASSUME TypeInv, Reboot
  PROVE  Promise!Restart
<1>1. /\ config \in OptionRecords /\ flash' \in KeptInFlash
      /\ Setup(config, flash'.data, flash'.secret, IdleLink)
  BY DEF Reboot, TypeInv, TypeOK
<1>2. Promise!Started'
  BY <1>1, SetupMapped
<1>3. CASE flash' = flash
  BY <1>2, <1>3 DEF Promise!Restart, Flashed
<1>4. CASE Pending("factory_reset") /\ flash' = [flash EXCEPT !.data = NoData]
  <2>1. Resetting
    BY <1>4 DEF Pending, Resetting
  <2>2. Flashed' = [Flashed EXCEPT !.data = NoData]
    BY <1>4 DEF Flashed, TypeInv, TypeOK
  <2>3. QED BY <1>2, <2>1, <2>2 DEF Promise!Restart
<1>5. QED BY <1>1, <1>3, <1>4 DEF KeptInFlash

LEMMA TickStep ==
  ASSUME TypeInv, Tick
  PROVE  Step
<1>1. /\ st \in StateRecords
      /\ st' = [st EXCEPT !.timeout = Elapsed(@), !.nonceValid = Elapsed(@)]
      /\ UNCHANGED <<data, secret, flags, flash, link>>
  BY DEF Tick, ram, TypeInv, TypeOK
<1>2. /\ st'.mode = st.mode /\ st'.appNonce = st.appNonce
      /\ st'.nonceValid = Elapsed(st.nonceValid)
  BY <1>1 DEF StateRecords
<1>3. /\ Flashed' = Flashed /\ Joined' = Joined /\ Online' = Online
      /\ NewKey' = NewKey /\ NewData' = NewData /\ Resetting' = Resetting
  BY <1>1 DEF Flashed, Joined, Online, NewKey, NewData, Resetting
<1>4. \/ SessionOf(st'.nonceValid) = SessionOf(st.nonceValid)
      \/ SessionOf(st.nonceValid) = "held" /\ SessionOf(st'.nonceValid) = "last"
      \/ SessionOf(st.nonceValid) = "last" /\ SessionOf(st'.nonceValid) = "over"
  BY <1>1, <1>2 DEF SessionOf, Elapsed, StateRecords, Deadlines, Past
<1>5. CASE SessionOf(st'.nonceValid) = SessionOf(st.nonceValid)
  BY <1>2, <1>3, <1>5 DEF Step, Promise!vars
<1>6. CASE SessionOf(st'.nonceValid) # SessionOf(st.nonceValid)
  <2>1. Promise!SessionAges
    BY <1>2, <1>3, <1>4, <1>6
    DEF Promise!SessionAges, Promise!place, Promise!offers
  <2>2. QED BY <2>1 DEF Step, Promise!Next
<1>7. QED BY <1>5, <1>6

LEMMA EnvironmentStep ==
  ASSUME TypeInv, Environment
  PROVE  Step
<1>0. st \in StateRecords /\ link \in LinkRecords
  BY DEF TypeInv, TypeOK
<1>1. CASE \E p \in Packets : NetworkInput(p)
  <2>1. PICK p \in Packets : NetworkInput(p)
    BY <1>1
  <2>2. QED
    BY <2>1, HelloStep, LateCommandStep, OfferStep
    DEF NetworkInput, Step, Promise!Next
<1>2. CASE Reboot
  BY <1>2, RebootStep DEF Step, Promise!Next
<1>3. CASE WifiNetworkList \/ ScanFails
  BY <1>3, Unseen DEF WifiNetworkList, ScanFails, ram, Step, Online
<1>4. CASE \E message \in UserMessages \cup {NoMessage} : SetErrorMessage(message)
  <2>1. /\ st'.mode = st.mode /\ st'.appNonce = st.appNonce
        /\ st'.nonceValid = st.nonceValid
    BY <1>0, <1>4 DEF SetErrorMessage, StateRecords
  <2>2. QED BY <1>4, <2>1, Unseen DEF SetErrorMessage, ram, Step, Online
<1>5. CASE ConfirmBootstrap
  <2>1. flags' \cap {"bind", "set_wifi", "factory_reset"}
          = flags \cap {"bind", "set_wifi", "factory_reset"}
    BY <1>5 DEF ConfirmBootstrap
  <2>2. QED BY <1>5, <2>1, Unseen DEF ConfirmBootstrap, ram, Step, Online
<1>6. CASE FactoryReset
  <2>1. Promise!AskForReset
    BY <1>6
    DEF FactoryReset, ram, Promise!AskForReset, Promise!place, Promise!offers,
        Flashed, Joined, Online, NewKey, NewData, Resetting
  <2>2. QED BY <2>1 DEF Step, Promise!Next
<1>7. CASE LinkChanges
  <2>1. link'.target = link.target /\ link'.credentials = link.credentials
    BY <1>0, <1>7 DEF LinkChanges, LinkRecords
  <2>2. Promise!ReachChanges
    BY <1>7, <2>1
    DEF LinkChanges, ram, Promise!ReachChanges, Promise!offers,
        Flashed, Joined, Online, NewKey, NewData, Resetting
  <2>3. QED BY <2>2 DEF Step, Promise!Next
<1>8. QED
  BY <1>1, <1>2, <1>3, <1>4, <1>5, <1>6, <1>7 DEF Environment

-----------------------------------------------------------------------------
LEMMA InitMapped == Init => Promise!Init
<1> SUFFICES ASSUME Init PROVE Promise!Init
  OBVIOUS
<1>1. /\ flash \in [data : DataValues, secret : StoredKeys]
      /\ st = SetupState(config, flash.data) /\ flags = {}
      /\ link = SetupLink(config, flash.data, IdleLink)
  BY DEF Init
<1>2. Flashed \in [data : Data \cup {NoData},
                     key : (BindKeys \cup LongKeys) \cup {NoSecret}]
  BY <1>1 DEF Flashed, DataValues, StoredKeys
<1>3. st.appNonce = NoNonce /\ SessionOf(st.nonceValid) = "over"
  BY <1>1 DEF SetupState, BootstrappedState, WaitForBootstrapState, ZeroState,
              SessionOf, Past
<1>4. ~Online /\ Joined = Flashed.data
  BY <1>1 DEF SetupLink, ConnectedTo, IdleLink, Online, Joined, Established,
              Flashed
<1>5. PhaseOf(st.mode) \in IF Flashed.data # NoData THEN {"destination"}
                           ELSE {"bootstrap", "off"}
  BY <1>1 DEF SetupState, BootstrappedState, WaitForBootstrapState, ZeroState,
              PhaseOf, BootstrapModes, Flashed
<1>6. QED
  BY <1>1, <1>2, <1>3, <1>4, <1>5, NoFlagsMapped
  DEF Promise!Init, Promise!Started, Promise!Fresh

\* Every step of the program is a step of the promise or none of it.
LEMMA NextMapped ==
  TypeInv /\ StorageInv /\ [Next]_vars => [Promise!Next]_Promise!vars
<1> SUFFICES ASSUME TypeInv, StorageInv, [Next]_vars PROVE Step
  BY DEF Step
<1>1. CASE Periodic
  BY <1>1, PeriodicStep
<1>2. CASE Environment
  BY <1>2, EnvironmentStep
<1>3. CASE Tick
  BY <1>3, TickStep
<1>4. CASE UNCHANGED vars
  BY <1>4, Unseen DEF vars, ram, Step, Online
<1>5. QED BY <1>1, <1>2, <1>3, <1>4 DEF Next

\* For every set of apps, keys, data and options the library keeps its promise:
\* what is offered is kept once and in order, the destination is only ever
\* looked for with kept data, and nobody is sent away while the session runs.
THEOREM KeepsPromise == Spec => ImplementsBootstrapping
<1>1. Init => TypeInv /\ StorageInv
  BY InitTypes, InitStorage
<1>2. TypeInv /\ StorageInv /\ [Next]_vars => TypeInv' /\ StorageInv'
  BY NextTypes, NextStorage
<1>3. QED
  BY <1>1, <1>2, InitMapped, NextMapped, PTL
  DEF Spec, ImplementsBootstrapping, Promise!Spec
=============================================================================
