---------------------- MODULE BootstrapProtocol_proofs ----------------------
(***************************************************************************)
(* Proofs about BootstrapProtocol: for any number of apps and nonces, any  *)
(* capacity of the air and any options of the device, whatever the network *)
(* does to packets.                                                        *)
(***************************************************************************)
EXTENDS BootstrapProtocol, BootstrapWifi_proofs

Commands == {"bind", "set_wifi"}

-----------------------------------------------------------------------------
(* The inductive invariant *)

\* A nonce that the device would accept in a seal.
Current(n) == n = st.deviceNonce /\ n # NoNonce

\* The two nonces come and go together, and a valid session has them.
NoncesAgree ==
  /\ st.appNonce = NoNonce <=> st.deviceNonce = NoNonce
  /\ SessionValid(st) => st.deviceNonce # NoNonce

\* A device that is bound in flash, to a key that fits, uses that key and no other.
KeyForLife == flash.secret \in BindKeys => secret = flash.secret

\* The app a that wrote the command p put its own key and data into it, and
\* sealed it with a secret that it has.
WrittenBy(p, a) ==
  /\ p.seal.key \in {InitialSecret, KeyOf[a]}
  /\ p.cmd = "BIND" => p.newKey = KeyOf[a]
  /\ p.cmd = "SET_DATA" => p.data = DataOf[a]

\* A command with the present device nonce was written by the app of the session.
CommandsWritten ==
  \A p \in toDevice : p.cmd # "HELLO" =>
    \E a \in Apps : WrittenBy(p, a) /\ (Current(p.seal.nonce) => st.appNonce = a)

\* What an app has from the present session is from its own session, and the
\* secret of the device has since changed to the app's own key or not at all.
Understood(a, key) ==
  /\ st.appNonce = a
  /\ secret \in {InitialSecret, KeyOf[a]}
  /\ key # secret => secret = KeyOf[a]

ListsUnderstood ==
  /\ \A a \in Apps : Current(heard[a].nonce) => Understood(a, heard[a].key)
  /\ \A p \in toApps : Current(p.nonce) => Understood(p.seal.nonce, p.seal.key)

ProtocolInv ==
  /\ ProtocolTypeOK /\ NoncesAgree /\ KeyForLife
  /\ CommandsWritten /\ ListsUnderstood

-----------------------------------------------------------------------------
(* Steps of the device without the apps *)

\* A step that leaves the session alone, or only shortens it.
Quiet ==
  /\ UNCHANGED secret
  /\ st'.appNonce = st.appNonce /\ st'.deviceNonce = st.deviceNonce
  /\ SessionValid(st') => SessionValid(st)

\* A step that ends the session.
Ending ==
  /\ st'.appNonce = NoNonce /\ st'.deviceNonce = NoNonce
  /\ ~SessionValid(st')

\* bst_setup leaves no session behind.
LEMMA SetupEnds ==
  ASSUME NEW o, NEW d, NEW key, NEW idle, Setup(o, d, key, idle)
  PROVE  Ending /\ flags' = {}
BY DEF Setup, SetupState, BootstrappedState, WaitForBootstrapState, ZeroState,
       Ending, SessionValid, Past

LEMMA EnterEnds ==
  ASSUME EnterBootstrapped \/ \E code, message : EnterWaitForBootstrap(code, message)
  PROVE  Ending /\ flags' = {}
<1>1. CASE EnterBootstrapped
  BY <1>1 DEF EnterBootstrapped, BootstrappedState, ZeroState, Ending,
              SessionValid, Past
<1>2. CASE \E code, message : EnterWaitForBootstrap(code, message)
  <2>1. /\ st'.appNonce = NoNonce /\ st'.deviceNonce = NoNonce
        /\ st'.nonceValid = Past /\ flags' = {}
    BY <1>2 DEF EnterWaitForBootstrap, WaitForBootstrapState, ZeroState
  <2>2. QED BY <2>1 DEF Ending, SessionValid, Past
<1>3. QED BY <1>1, <1>2

\* A call of bst_periodic leaves the session alone or ends it, and accepts nothing.
LEMMA PeriodicQuiet ==
  ASSUME TypeInv, Periodic
  PROVE  (Quiet \/ Ending) /\ flags' \subseteq flags
<1>0. st \in StateRecords
  BY DEF TypeInv, TypeOK
<1>1. CASE ServeFactoryReset
  BY <1>1, SetupEnds DEF ServeFactoryReset
<1>2. CASE ServeBind \/ ServeWifiList
  BY <1>0, <1>2 DEF ServeBind, ServeWifiList, StateRecords, Quiet, ram,
                    SessionValid
<1>3. CASE ServeSetWifi
  BY <1>3, EnterEnds DEF ServeSetWifi
<1>4. CASE RunMode
  <2>0. UNCHANGED secret
    BY <1>4 DEF RunMode, ram
  <2> DEFINE Outcome == \/ /\ st'.appNonce = st.appNonce
                           /\ st'.deviceNonce = st.deviceNonce
                           /\ st'.nonceValid = st.nonceValid
                           /\ flags' = flags
                        \/ Ending /\ flags' = {}
  <2> SUFFICES Outcome
    BY <2>0 DEF Quiet, SessionValid
  <2>1. ASSUME NEW s \in StateRecords,
               s.appNonce = st.appNonce, s.deviceNonce = st.deviceNonce,
               s.nonceValid = st.nonceValid,
               WaitForData(s) \/ CheckDestination(s)
        PROVE  Outcome
    BY <2>1, EnterEnds
    DEF WaitForData, CheckDestination, AdvancedConnection, StateRecords
  <2>2. CASE ReachBootstrap \/ Wait
    <3> DEFINE s == [st EXCEPT !.mode = "WAITING_FOR_DATA"]
    <3>1. /\ s \in StateRecords /\ s.appNonce = st.appNonce
          /\ s.deviceNonce = st.deviceNonce /\ s.nonceValid = st.nonceValid
      BY <1>0 DEF StateRecords, Modes
    <3>2. WaitForData(s) \/ WaitForData(st)
      BY <2>2 DEF ReachBootstrap, Wait
    <3>3. CASE WaitForData(st)
      BY <1>0, <2>1, <3>3
    <3>4. CASE WaitForData(s)
      BY <2>1, <3>1, <3>4
    <3>5. QED BY <3>2, <3>3, <3>4
  <2>3. CASE RetryBootstrap \/ RetryDestination
    BY <1>0, <2>3, EnterEnds DEF RetryBootstrap, RetryDestination, StateRecords
  <2>4. CASE ReachDestination \/ AwaitDestination \/ StayConnected
    <3>1. /\ Arrived(st) \in StateRecords
          /\ Arrived(st).appNonce = st.appNonce
          /\ Arrived(st).deviceNonce = st.deviceNonce
          /\ Arrived(st).nonceValid = st.nonceValid
      <4>1. 0 \in 0..MaxCount
        BY CountAssumption
      <4>2. QED
        BY <1>0, <4>1 DEF Arrived, StateRecords, Modes, ErrorCodes, Messages,
                          Deadlines
    <3>2. CheckDestination(st) \/ CheckDestination(Arrived(st))
      BY <2>4 DEF ReachDestination, AwaitDestination, StayConnected
    <3>3. CASE CheckDestination(st)
      BY <1>0, <2>1, <3>3
    <3>4. CASE CheckDestination(Arrived(st))
      BY <2>1, <3>1, <3>4
    <3>5. QED BY <3>2, <3>3, <3>4
  <2>5. QED BY <1>4, <2>2, <2>3, <2>4 DEF RunMode
<1>5. QED BY <1>1, <1>2, <1>3, <1>4 DEF Periodic

LEMMA AloneQuiet ==
  ASSUME TypeInv, DeviceAlone
  PROVE  (Quiet \/ Ending) /\ flags' \cap Commands \subseteq flags
<1>0. st \in StateRecords
  BY DEF TypeInv, TypeOK
<1>1. CASE Periodic
  BY <1>1, PeriodicQuiet
<1>2. CASE Tick
  BY <1>0, <1>2 DEF Tick, ram, Quiet, SessionValid, StateRecords, Deadlines,
                    Elapsed, Past
<1>3. CASE ScanFails \/ ButtonReset \/ LinkChanges
  BY <1>3 DEF ScanFails, ButtonReset, FactoryReset, LinkChanges, ram, Quiet,
              Commands
<1>4. CASE Reboot
  BY <1>4, SetupEnds DEF Reboot
<1>5. QED BY <1>1, <1>2, <1>3, <1>4 DEF DeviceAlone

\* What a boot loads, and what is stored, is the key in use.
LEMMA AloneKey ==
  ASSUME TypeInv, KeyForLife, DeviceAlone
  PROVE  KeyForLife'
<1>1. CASE ServeFactoryReset
  BY <1>1, KeyAssumption DEF ServeFactoryReset, EmptyFlash, KeyForLife, Secrets
<1>2. CASE ServeBind
  <2>1. flash'.secret = secret /\ secret' = secret
    BY <1>2 DEF ServeBind, ram, TypeInv, TypeOK
  <2>2. QED BY <2>1 DEF KeyForLife
<1>3. CASE ServeSetWifi
  <2>1. flash'.secret = flash.secret /\ secret' = secret
    BY <1>3 DEF ServeSetWifi, ram, TypeInv, TypeOK
  <2>2. QED BY <2>1 DEF KeyForLife
<1>4. CASE ServeWifiList \/ RunMode
  BY <1>4 DEF ServeWifiList, RunMode, ram, KeyForLife
<1>5. CASE Reboot
  <2>1. flash'.secret = flash.secret
    BY <1>5, KeptType DEF Reboot, TypeInv
  <2>2. secret' = SetupSecret(config, flash'.secret)
    BY <1>5 DEF Reboot, Setup
  <2>3. flash.secret \in BindKeys => SetupSecret(config, flash.secret) = flash.secret
    BY KeyAssumption DEF SetupSecret, Secrets
  <2>4. QED BY <2>1, <2>2, <2>3 DEF KeyForLife
<1>6. CASE Tick \/ ScanFails \/ ButtonReset \/ LinkChanges
  BY <1>6 DEF Tick, ScanFails, ButtonReset, FactoryReset, LinkChanges, ram,
              KeyForLife
<1>7. QED
  BY <1>1, <1>2, <1>3, <1>4, <1>5, <1>6 DEF DeviceAlone, Periodic

LEMMA AloneProtocol ==
  ASSUME TypeInv, ProtocolInv, DeviceAlone
  PROVE  ProtocolInv'
<1>1. UNCHANGED <<toDevice, toApps, heard>>
  BY DEF DeviceAlone
<1>2. ProtocolTypeOK' /\ KeyForLife'
  BY <1>1, AloneKey DEF ProtocolInv, ProtocolTypeOK
<1>3. CASE Quiet
  BY <1>1, <1>2, <1>3 DEF Quiet, ProtocolInv, NoncesAgree, CommandsWritten,
     ListsUnderstood, Current, Understood, WrittenBy
<1>4. CASE Ending
  BY <1>1, <1>2, <1>4 DEF Ending, ProtocolInv, NoncesAgree, CommandsWritten,
     ListsUnderstood, Current, WrittenBy
<1>5. QED BY <1>3, <1>4, AloneQuiet

-----------------------------------------------------------------------------
(* Packets that reach the device *)

LEMMA PacketTypes ==
  ASSUME NEW p \in Packets
  PROVE  /\ p.cmd = "HELLO" => p \in HelloPackets
         /\ p.cmd = "BIND" => p \in BindPackets
         /\ p.cmd = "SET_DATA" => p \in SetDataPackets
BY DEF Packets, HelloPackets, BindPackets, SetDataPackets

\* A command the device reads is one of the app of the session.
LEMMA AcceptedCommand ==
  ASSUME ProtocolInv, NEW p \in toDevice, p.cmd # "HELLO", Readable(p),
         SessionValid(st)
  PROVE  /\ WrittenBy(p, st.appNonce) /\ st.appNonce \in Apps
         /\ \A b \in Apps : flash.secret = KeyOf[b] => st.appNonce = b
         /\ flash.secret \in BindKeys => flash.secret = KeyOf[st.appNonce]
<1>1. Current(p.seal.nonce) /\ p.seal.key = secret
  BY DEF Readable, Current, ProtocolInv, NoncesAgree
<1>2. WrittenBy(p, st.appNonce) /\ st.appNonce \in Apps
  BY <1>1 DEF ProtocolInv, CommandsWritten
<1>3. flash.secret \in BindKeys => flash.secret = KeyOf[st.appNonce]
  BY <1>1, <1>2, KeyAssumption DEF WrittenBy, ProtocolInv, KeyForLife, Secrets
<1>4. ASSUME NEW b \in Apps, flash.secret = KeyOf[b]
      PROVE  st.appNonce = b
  BY <1>2, <1>3, <1>4, AppAssumption
<1>5. QED BY <1>2, <1>3, <1>4

\* The commands that are new in the flags are the app's of the session.
LEMMA DeliveredCommand ==
  ASSUME TypeInv, ProtocolInv, NEW p \in toDevice, Deliver(p)
  PROVE  LET new == flags' \ flags
         IN /\ "bind" \in new =>
                 secret' = KeyOf[st.appNonce] /\ Bind(p)
            /\ "set_wifi" \in new =>
                 data' = DataOf[st.appNonce] /\ SetData(p)
<1>1. CASE Hello(p) \/ LateCommand(p)
  BY <1>1 DEF Hello, LateCommand
<1>2. CASE Bind(p)
  <2>1. WrittenBy(p, st.appNonce)
    BY <1>2, AcceptedCommand DEF Bind
  <2>2. QED BY <1>2, <2>1 DEF Bind, WrittenBy
<1>3. CASE SetData(p)
  <2>1. WrittenBy(p, st.appNonce)
    BY <1>3, AcceptedCommand DEF SetData
  <2>2. QED BY <1>3, <2>1 DEF SetData, WrittenBy
<1>4. QED BY <1>1, <1>2, <1>3 DEF Deliver, NetworkInput

LEMMA DeliverProtocol ==
  ASSUME TypeInv, ProtocolInv, NEW p \in toDevice, Deliver(p)
  PROVE  ProtocolInv'
<1>0. st \in StateRecords /\ p \in Packets
  BY DEF TypeInv, TypeOK, ProtocolInv, ProtocolTypeOK
<1>1. /\ toDevice' \subseteq toDevice /\ UNCHANGED <<toApps, heard, flash>>
      /\ Hello(p) \/ LateCommand(p) \/ Bind(p) \/ SetData(p)
  BY DEF Deliver, NetworkInput
<1>2. ProtocolTypeOK'
  BY <1>1 DEF ProtocolInv, ProtocolTypeOK
<1>3. CASE Hello(p)
  <2>1. PICK n \in DeviceNonces :
          st' = [st EXCEPT !.appNonce = p.appNonce, !.deviceNonce = n,
                           !.nonceValid = options.nonceTimeout]
    BY <1>3 DEF Hello
  <2>2. st'.deviceNonce \notin Remembered
    BY <1>3 DEF Deliver, Hello
  <2>3. /\ st'.appNonce # NoNonce /\ st'.deviceNonce # NoNonce
        /\ UNCHANGED secret
    BY <1>0, <1>3, <2>1, PacketTypes, NonceAssumption
    DEF Hello, HelloPackets, StateRecords
  <2>4. NoncesAgree' /\ KeyForLife'
    BY <1>1, <2>3 DEF NoncesAgree, KeyForLife, ProtocolInv
  <2>5. ListsUnderstood'
    BY <1>1, <2>2 DEF ListsUnderstood, Current, Remembered
  <2>6. CommandsWritten'
    <3>1. ASSUME NEW q \in toDevice, q.cmd # "HELLO"
          PROVE  ~Current(q.seal.nonce)'
      BY <2>2, <3>1 DEF Current, Remembered
    <3>2. QED
      BY <1>1, <3>1 DEF CommandsWritten, ProtocolInv, WrittenBy
  <2>7. QED BY <1>2, <2>4, <2>5, <2>6 DEF ProtocolInv
<1>4. CASE LateCommand(p)
  <2>1. Ending /\ UNCHANGED secret
    BY <1>0, <1>4 DEF LateCommand, WithoutSession, Ending, SessionValid, Past,
                      StateRecords
  <2>2. QED
    BY <1>1, <1>2, <2>1 DEF Ending, ProtocolInv, NoncesAgree, KeyForLife,
       CommandsWritten, ListsUnderstood, Current, WrittenBy
<1>5. CASE SetData(p)
  BY <1>1, <1>2, <1>5 DEF SetData, ProtocolInv, NoncesAgree, KeyForLife,
     CommandsWritten, ListsUnderstood, Current, Understood, WrittenBy
<1>6. CASE Bind(p)
  <2>1. /\ secret' = KeyOf[st.appNonce] /\ UNCHANGED st
        /\ flash.secret \in BindKeys => flash.secret = KeyOf[st.appNonce]
    BY <1>6, AcceptedCommand DEF Bind, WrittenBy
  <2>2. KeyForLife'
    BY <1>1, <2>1 DEF KeyForLife, TypeInv, TypeOK
  <2>3. ListsUnderstood'
    BY <1>1, <2>1 DEF ListsUnderstood, Current, Understood, ProtocolInv
  <2>4. NoncesAgree' /\ CommandsWritten'
    BY <1>1, <2>1 DEF ProtocolInv, NoncesAgree, CommandsWritten, Current, WrittenBy
  <2>5. QED BY <1>2, <2>2, <2>3, <2>4 DEF ProtocolInv
<1>7. QED BY <1>1, <1>3, <1>4, <1>5, <1>6

-----------------------------------------------------------------------------
(* Packets of the apps, and lists for them *)

\* Steps that leave the device alone need to say something of the packets only.
LEMMA AppSends ==
  ASSUME ProtocolInv, NEW a \in Apps,
         AppSaysHello(a) \/ AppBinds(a) \/ AppSetsData(a)
  PROVE  ProtocolInv'
<1>0. UNCHANGED <<vars, toApps, heard>>
  BY DEF AppSaysHello, AppBinds, AppSetsData, Send
<1>1. NoncesAgree' /\ KeyForLife' /\ ListsUnderstood'
  BY <1>0 DEF vars, ProtocolInv, NoncesAgree, KeyForLife, ListsUnderstood,
              Current, Understood
<1>2. \A b \in Apps : heard'[b] = heard[b]
  BY <1>0
<1>3. ASSUME NEW p \in Packets, toDevice' = toDevice \cup {p},
             p.cmd # "HELLO" =>
               WrittenBy(p, a) /\ (Current(p.seal.nonce) => st.appNonce = a)
      PROVE  ProtocolInv'
  <2>1. CommandsWritten'
    <3>1. \A q \in toDevice : q.cmd # "HELLO" =>
            \E b \in Apps : WrittenBy(q, b) /\ (Current(q.seal.nonce) => st.appNonce = b)
      BY DEF ProtocolInv, CommandsWritten
    <3>2. QED
      BY <1>0, <1>3, <3>1 DEF CommandsWritten, vars, Current, WrittenBy
  <2>2. ProtocolTypeOK'
    BY <1>0, <1>3 DEF ProtocolInv, ProtocolTypeOK
  <2>3. QED BY <1>1, <2>1, <2>2 DEF ProtocolInv
<1>4. CASE AppSaysHello(a)
  <2> DEFINE p == [cmd |-> "HELLO", appNonce |-> a]
  <2>1. p \in Packets /\ p.cmd = "HELLO"
    BY DEF Packets, HelloPackets, Apps
  <2>2. toDevice' = toDevice \cup {p}
    BY <1>4 DEF AppSaysHello, Send
  <2>3. QED BY <1>3, <2>1, <2>2
<1>5. Current(heard[a].nonce) => st.appNonce = a
  BY DEF ProtocolInv, ListsUnderstood, Understood
<1>6. heard[a] \in {Silence} \cup
        [nonce : DeviceNonces \cup {NoNonce}, key : {InitialSecret, KeyOf[a]}]
  BY DEF ProtocolInv, ProtocolTypeOK
<1>7. heard[a] # Silence =>
        heard[a] \in Seals /\ heard[a].key \in {InitialSecret, KeyOf[a]}
  BY <1>6, AppAssumption DEF Seals, Secrets
<1>8. CASE AppBinds(a)
  <2> DEFINE p == [cmd |-> "BIND", seal |-> heard[a], newKey |-> KeyOf[a]]
  <2>1. heard[a] # Silence
    BY <1>8, KeyAssumption DEF AppBinds, Silence, Secrets
  <2>2. p \in Packets /\ p.cmd = "BIND"
    BY <1>7, <2>1, AppAssumption DEF Packets, BindPackets
  <2>3. toDevice' = toDevice \cup {p}
    BY <1>8 DEF AppBinds, Send
  <2>4. WrittenBy(p, a) /\ (Current(p.seal.nonce) => st.appNonce = a)
    BY <1>5, <1>7, <2>1 DEF WrittenBy
  <2>5. QED BY <1>3, <2>2, <2>3, <2>4
<1>9. CASE AppSetsData(a)
  <2> DEFINE p == [cmd |-> "SET_DATA", seal |-> heard[a], data |-> DataOf[a]]
  <2>1. heard[a] # Silence
    BY <1>9 DEF AppSetsData
  <2>2. p \in Packets /\ p.cmd = "SET_DATA"
    BY <1>7, <2>1, AppAssumption DEF Packets, SetDataPackets
  <2>3. toDevice' = toDevice \cup {p}
    BY <1>9 DEF AppSetsData, Send
  <2>4. WrittenBy(p, a) /\ (Current(p.seal.nonce) => st.appNonce = a)
    BY <1>5, <1>7, <2>1 DEF WrittenBy
  <2>5. QED BY <1>3, <2>2, <2>3, <2>4
<1>10. QED BY <1>4, <1>8, <1>9

LEMMA AppHears ==
  ASSUME ProtocolInv, NEW a \in Apps, NEW p \in toApps, AppHearsList(a, p)
  PROVE  ProtocolInv'
<1>0. /\ UNCHANGED <<vars, toDevice>> /\ toApps' \subseteq toApps
      /\ p.seal.nonce = a /\ p.seal.key \in {InitialSecret, KeyOf[a]}
      /\ heard' = [heard EXCEPT ![a] = [nonce |-> p.nonce, key |-> p.seal.key]]
  BY DEF AppHearsList, Legible
<1>1. NoncesAgree' /\ KeyForLife' /\ CommandsWritten'
  BY <1>0 DEF vars, ProtocolInv, NoncesAgree, KeyForLife, CommandsWritten,
              Current, WrittenBy
<1>2. \A b \in Apps : heard'[b] \in {heard[b], [nonce |-> p.nonce, key |-> p.seal.key]}
                      /\ (b # a => heard'[b] = heard[b])
  BY <1>0 DEF ProtocolInv
<1>3. ProtocolTypeOK'
  <2>1. p.nonce \in DeviceNonces \cup {NoNonce}
    BY DEF ProtocolInv, ProtocolTypeOK, Lists
  <2>2. QED
    BY <1>0, <1>2, <2>1 DEF ProtocolInv, ProtocolTypeOK
<1>4. ListsUnderstood'
  <2>1. Current(p.nonce) => Understood(a, p.seal.key)
    BY <1>0 DEF ProtocolInv, ListsUnderstood
  <2>2. QED
    BY <1>0, <1>2, <2>1 DEF ProtocolInv, ListsUnderstood, Current, Understood, vars
<1>5. QED BY <1>1, <1>3, <1>4 DEF ProtocolInv

LEMMA AnswerProtocol ==
  ASSUME TypeInv, ProtocolInv, Answer
  PROVE  ProtocolInv'
<1>0. /\ UNCHANGED <<st, secret, flash, toDevice, heard>>
      /\ sent' \subseteq {WifiListPacket}
      /\ toApps' \subseteq toApps \cup {q \in sent' : \E a \in Apps : Legible(a, q)}
  BY DEF Answer, WifiNetworkList, ram
<1>1. NoncesAgree' /\ KeyForLife' /\ CommandsWritten'
  BY <1>0 DEF ProtocolInv, NoncesAgree, KeyForLife, CommandsWritten, Current,
              WrittenBy
<1>2. /\ WifiListPacket.nonce = st.deviceNonce
      /\ WifiListPacket.seal = [nonce |-> st.appNonce, key |-> secret]
  BY DEF WifiListPacket
<1>3. ASSUME NEW a \in Apps, Legible(a, WifiListPacket)
      PROVE  /\ WifiListPacket \in Lists
             /\ Understood(WifiListPacket.seal.nonce, WifiListPacket.seal.key)
  <2>1. st.appNonce = a /\ secret \in {InitialSecret, KeyOf[a]}
    BY <1>2, <1>3 DEF Legible
  <2>2. secret \in Secrets
    BY <2>1, AppAssumption DEF Secrets
  <2>3. ConfirmationState \in {"CONFIRM_NOT_REQUIRED", "CONFIRM_OK", "CONFIRM_REQUIRED"}
    BY DEF ConfirmationState
  <2>4. /\ st.lastError \in ErrorCodes /\ st.errorMsg \in Messages
        /\ NoMessage \in Messages /\ st.deviceNonce \in DeviceNonces \cup {NoNonce}
    BY DEF TypeInv, TypeOK, StateRecords, Messages
  <2>5. WifiListPacket \in Lists
    BY <2>1, <2>2, <2>3, <2>4 DEF WifiListPacket, Lists
  <2>6. QED BY <1>2, <2>1, <2>5 DEF Understood
<1>4. ASSUME NEW q \in toApps', q \notin toApps
      PROVE  q \in Lists /\ Understood(q.seal.nonce, q.seal.key)
  BY <1>0, <1>3, <1>4
<1>5. ProtocolTypeOK'
  BY <1>0, <1>4 DEF ProtocolInv, ProtocolTypeOK
<1>6. ListsUnderstood'
  BY <1>0, <1>4 DEF ProtocolInv, ListsUnderstood, Current, Understood
<1>7. QED BY <1>1, <1>5, <1>6 DEF ProtocolInv

LEMMA FewerPackets ==
  ASSUME ProtocolInv, UNCHANGED <<vars, heard>>, toDevice' \subseteq toDevice,
         toApps' \subseteq toApps
  PROVE  ProtocolInv'
BY DEF vars, ProtocolInv, ProtocolTypeOK, NoncesAgree, KeyForLife,
       CommandsWritten, ListsUnderstood, Current, Understood, WrittenBy

-----------------------------------------------------------------------------
(* The specification *)

\* A step of the protocol is a step of the library, or none.
LEMMA ProtocolStep ==
  ASSUME ProtocolInv, [ProtocolNext]_protocolVars
  PROVE  [Next]_vars
<1>1. CASE \E p \in toDevice : Deliver(p)
  BY <1>1 DEF Deliver, ProtocolInv, ProtocolTypeOK, Next, Environment
<1>2. CASE Answer \/ DeviceAlone
  BY <1>2 DEF Answer, DeviceAlone, ButtonReset, Next, Environment
<1>3. CASE (\E a \in Apps : AppStep(a)) \/ Lose \/ UNCHANGED protocolVars
  BY <1>3 DEF AppStep, AppSaysHello, AppBinds, AppSetsData, AppHearsList, Send,
              Lose, protocolVars
<1>4. QED BY <1>1, <1>2, <1>3 DEF ProtocolNext

LEMMA NextProtocol ==
  TypeInv /\ ProtocolInv /\ [ProtocolNext]_protocolVars => (TypeInv /\ ProtocolInv)'
<1> SUFFICES ASSUME TypeInv, ProtocolInv, [ProtocolNext]_protocolVars
             PROVE  ProtocolInv'
  BY ProtocolStep, NextTypes
<1>1. CASE \E a \in Apps : AppStep(a)
  BY <1>1, AppSends, AppHears DEF AppStep
<1>2. CASE \E p \in toDevice : Deliver(p)
  BY <1>2, DeliverProtocol
<1>3. CASE Answer
  BY <1>3, AnswerProtocol
<1>4. CASE DeviceAlone
  BY <1>4, AloneProtocol
<1>5. CASE Lose \/ UNCHANGED protocolVars
  BY <1>5, FewerPackets DEF Lose, protocolVars
<1>6. QED BY <1>1, <1>2, <1>3, <1>4, <1>5 DEF ProtocolNext

LEMMA InitProtocol == ProtocolInit => TypeInv /\ ProtocolInv
<1> SUFFICES ASSUME ProtocolInit PROVE ProtocolInv
  BY InitTypes DEF ProtocolInit
<1>1. ProtocolTypeOK /\ CommandsWritten
  BY DEF ProtocolInit, ProtocolTypeOK, CommandsWritten
<1>2. st.appNonce = NoNonce /\ st.deviceNonce = NoNonce /\ ~SessionValid(st)
  BY DEF ProtocolInit, Init, SetupState, BootstrappedState,
         WaitForBootstrapState, ZeroState, SessionValid, Past
<1>3. KeyForLife
  BY KeyAssumption DEF ProtocolInit, Init, SetupSecret, KeyForLife, Secrets
<1>4. QED
  BY <1>1, <1>2, <1>3
  DEF ProtocolInit, ProtocolInv, NoncesAgree, ListsUnderstood, Current

\* Packets keep their layouts, and an app knows the device by keys it has.
THEOREM ProtocolTypesCorrect == ProtocolSpec => []ProtocolTypeOK
<1>1. ProtocolInv => ProtocolTypeOK
  BY DEF ProtocolInv
<1>2. QED BY <1>1, InitProtocol, NextProtocol, PTL DEF ProtocolSpec

\* In its session an app is never locked out by the command of another one.
THEOREM OwnersUnderstand == ProtocolSpec => []OwnerNotLockedOut
<1>1. ProtocolInv => OwnerNotLockedOut
  BY DEF ProtocolInv, OwnerNotLockedOut, ListsUnderstood, Current, Understood,
         NoncesAgree
<1>2. QED BY <1>1, InitProtocol, NextProtocol, PTL DEF ProtocolSpec

\* No step but the delivery of a packet notes a bind or new data.
LEMMA OnlyDelivered ==
  ASSUME TypeInv, [ProtocolNext]_protocolVars,
         (flags' \ flags) \cap Commands # {}
  PROVE  \E p \in toDevice : Deliver(p)
<1>1. CASE DeviceAlone
  BY <1>1, AloneQuiet
<1>2. CASE (\E a \in Apps : AppStep(a)) \/ Answer \/ Lose \/ UNCHANGED protocolVars
  BY <1>2 DEF AppStep, AppSaysHello, AppBinds, AppSetsData, AppHearsList, Send,
              Answer, WifiNetworkList, Lose, protocolVars, vars
<1>3. QED BY <1>1, <1>2 DEF ProtocolNext

\* Whatever the network repeats, delays or reorders, the device takes commands
\* only from the app it has a session with.
THEOREM OwnersCommand == ProtocolSpec => CommandsFromOwner
<1> DEFINE Owned ==
      LET new == flags' \ flags
      IN /\ "bind" \in new => secret' = KeyOf[st.appNonce]
         /\ "set_wifi" \in new => data' = DataOf[st.appNonce]
<1>1. TypeInv /\ ProtocolInv /\ [ProtocolNext]_protocolVars => [Owned]_protocolVars
  BY OnlyDelivered, DeliveredCommand DEF Commands
<1>2. QED
  BY <1>1, InitProtocol, NextProtocol, PTL DEF ProtocolSpec, CommandsFromOwner, Owned

\* Once the key of an app is in flash no other app binds the device or sends it
\* data, across sessions and losses of power, until a factory reset.
THEOREM BoundForLife == ProtocolSpec => BoundToOneApp
<1> DEFINE Bound ==
      \A a \in Apps :
        flash.secret = KeyOf[a] =>
          /\ "bind" \in flags' \ flags => secret' = KeyOf[a]
          /\ "set_wifi" \in flags' \ flags => data' = DataOf[a]
<1>1. TypeInv /\ ProtocolInv /\ [ProtocolNext]_protocolVars => [Bound]_protocolVars
  <2> SUFFICES ASSUME TypeInv, ProtocolInv, [ProtocolNext]_protocolVars,
                      NEW a \in Apps, flash.secret = KeyOf[a],
                      (flags' \ flags) \cap Commands # {}
               PROVE  /\ "bind" \in flags' \ flags => secret' = KeyOf[a]
                      /\ "set_wifi" \in flags' \ flags => data' = DataOf[a]
    BY DEF Commands
  <2>1. PICK p \in toDevice : Deliver(p)
    BY OnlyDelivered
  <2>2. Bind(p) \/ SetData(p) => st.appNonce = a
    BY AcceptedCommand DEF Bind, SetData
  <2>3. QED BY <2>1, <2>2, DeliveredCommand
<1>2. QED
  BY <1>1, InitProtocol, NextProtocol, PTL DEF ProtocolSpec, BoundToOneApp, Bound
=============================================================================
