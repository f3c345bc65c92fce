# A TLA+ model of libNodesBootstrap

libNodesBootstrap brings a wifi device without a keyboard into a network.  The
device connects to the wifi of a bootstrap app, the app binds it to a secret of
its own and sends it the credentials of the destination network, and the device
goes there.  When the destination is lost, the device offers itself to the app
again, without ever being stuck on either side.

These modules model the library as it is in `src/`, check it with TLC on small
instances, and prove the safety properties, and two of liveness, with TLAPS for all
instances.
Line numbers without a file are those of `src/bootstrapWifi.c`.

## 1. Inventory

| Part | State | Operations | Hard behaviour |
|---|---|---|---|
| **Bootstrap state machine** (`bootstrapWifi.c`, `prv_bootstrapWifi.h`) | `prv_instance`: options, storage and three pointers into it, secret, mode, last error and message, attempt counter, deadline, request flags | `bst_setup`, `bst_periodic`, `bst_network_input`, `bst_wifi_network_list`, `bst_set_error_message`, `bst_factory_reset`, `bst_confirm_bootstrap` | requests are flags served later, one per call, in a fixed order, and forgotten when a mode is entered; three modes share a counter and a deadline; cases of the switch run into each other; power loss between RAM and flash |
| **App session** (56-99) | app nonce, device nonce, end of validity | HELLO opens or renews; BIND and SET_DATA need it; it ends lazily | two apps, boundary of the deadline, packets and scan answers that come after the end |
| **Packet framing** (32-170) | none | checksum, seal, header | bit errors, packets sealed for an earlier session |
| **Bootstrap data** (`prv_assign_data`, 173-201) | 512 byte buffer and three pointers | copy, cut, parse; store and read back | input without a NUL, empty texts, full buffer |
| **Wifi list** (551-631) | 484 byte buffer, two `uint8_t` counts | pack entries and log text | more networks than fit; widths of the counts |
| **Spritz** (`spritz.c`) | permutation of 256 bytes, five registers, fill level | absorb, stop, shuffle, drip; hash, encrypt, decrypt, auth | full block, wrapping sums, order of parts |
| **ESP8266 platform** (`src/platform/esp8266sdk.cpp`) | sdk's wifi state, UDP socket, two files | the callbacks the library calls; main loop | scans that never answer, stores that fail, clock that wraps after 71 minutes |
| **Example program** (`main.cpp`) | button and LED | long press resets, short press confirms; the main loop | the press time survives a reset |
| Weak default platform, debug output, tests | - | - | - |

How they interact: the main loop hands a UDP packet to `bst_network_input`, which
changes RAM and notes a request, and then calls `bst_periodic`, which serves one
request or looks at the link.  The library calls the platform to connect, scan,
store and send.  The scan answers later, through `bst_wifi_network_list`.  The
application resets and confirms at any time.  At boot the platform gives what it
stored to `bst_setup`.

What makes each part correct:

- *State machine*: nothing an app changed is forgotten; the radio, RAM and flash
  agree when the destination is used; counters, messages and confirmations belong
  to the present phase; the device leaves both sides when it should; a reset
  happens.
- *Session*: nobody takes over a running session; answers belong to a session.
- *Apps and device*: a command that is accepted comes from the app of the session;
  a bound device obeys one app; that app is not locked out.
- *Platform and program*: the socket and the station are those of the mode; what
  an app was told is stored.
- *Data, list, checksum*: buffers are respected; what is written is what is read.
- *Spritz*: the state stays a permutation, indices stay in range, and different
  inputs give different states.

The hazards, each at its line and with the properties that watch it, are in
`PROJECT.json`.

## 2. Modules

| Module | Models |
|---|---|
| `BootstrapWifi` | the state machine, the session, the application, the platform as environment, crashes |
| `MCBootstrapWifi` | the options of each run of it |
| `BootstrapWifi_proofs` | theorems about it |
| `Bootstrapping` | what the library promises, without packets, requests, counters and deadlines |
| `BootstrapWifi_refinement` | the proof that `BootstrapWifi` implements it |
| `BootstrapProtocol`, `MCBootstrapProtocol` | the library composed with apps and an unreliable network |
| `BootstrapProtocol_proofs` | theorems about the protocol |
| `Esp8266`, `MCEsp8266` | the example program: main loop, button, socket, station, scans, start |
| `Esp8266_proofs` | the program uses the library as modelled; theorems about the program |
| `WrappingClock`, `MCWrappingClock` | the library on a clock that falls back to 0 |
| `TwoThreads`, `MCTwoThreads` | `bst_network_input` on a thread of its own |
| `Storage`, `WifiList`, `Crc16` | the three algorithms on bytes, as operators |
| `MCEncodings` | inputs of the three, built byte by byte; a step on networks is a round of the packing loop |
| `Encodings_proofs`, `Crc16_proofs` | theorems about storage and list, and about the checksum |
| `Spritz` | the cipher, for any power of two of digits; the code has 16 |
| `MCSpritz` | one user of a small Spritz state; the test vectors with the real size |
| `Spritz_proofs` | theorems about the cipher |
| `Recursion` | induction over 0..m, and that a loop of m rounds has a result |

### BootstrapWifi

| Variable | Code |
|---|---|
| `options`, `data`, `secret`, `st`, `flags` | the parts of `prv_instance` |
| `config` | the options the application passes on every boot |
| `flash` | what the two store callbacks kept |
| `link` | what the platform was told, and what `bst_get_connection_state` returns |
| `scan` | whether the platform owes an answer to `bst_request_wifi_network_list` |
| `sent` | packets that the last step gave to `bst_network_output` |

One action is one call.  `Periodic` is `bst_periodic`: `ServeFactoryReset`,
`ServeBind`, `ServeWifiList` and `ServeSetWifi` are its four early returns, each
guarded by `Pending`, the order of the tests; the others are the cases of the
switch when no request is noted.  A case that falls through is an action that
conjoins the next case: `ReachBootstrap` ends with `WaitForData`,
`ReachDestination` and `AwaitDestination` with `CheckDestination`.
`NetworkInput(p)` is `bst_network_input`, with `Hello`, `Bind`, `SetData` and
`LateCommand` (a command after the end of the session, which wipes the nonces);
packets it ignores are stuttering steps.  The remaining actions are the calls of
the application, the end of a scan, the radio, the clock and `Reboot`.

Abstractions, and why they lose nothing the properties can tell:

- *Time.*  A deadline is what is left of it, so that the clock need not be part of
  the state.  The code compares a deadline with the clock in four ways; they
  become `> 0`, `>= 0`, `<= 0` and `< 0` of the remaining time.  This supposes a
  clock that does not wrap; `WrappingClock` has the other case.
- *Seals.*  A packet is `Readable` iff it was sealed with the device nonce and the
  secret in use.  What the cipher and the checksum do is modelled by `Spritz` and
  `Crc16`.
- *Data.*  Only whether an ssid is there, and whether two blobs are the same,
  matters to the state machine.  `Storage` has the bytes.
- *Options.*  The options are any record; only that connect and nonce timeouts are
  positive is assumed.
- *Keys.*  BIND brings any key that its packet has room for, the empty one
  (`NoSecret`) included: such a device has no secret until its next boot, which takes
  the factory secret (214).  A stored key may be longer than `crypto_secret`
  (`LongKeys`); a boot cuts it (`Clamped`).  Two things are assumed.  No app binds a
  device to the factory secret.  And a BIND announces at most the
  `BST_BINDKEY_MAX_SIZE` bytes of its packet: `new_bind_key_len` is not tested (511),
  a larger one writes past `crypto_secret`, and what follows is undefined.
- *Factory reset.*  The two stores of a reset (290-291) are one step, as nothing comes
  between them but a loss of power: `Reboot` may find the first one done and the
  second one not (`KeptInFlash`).
- *Radio.*  `bst_connect_to_wifi` starts with `CONNECTING`, as `README.md:84` asks
  of a platform; then the link reports anything its constants allow, at any time.
- *Error texts* exist, i.e. `BST_NO_ERROR_MESSAGES` is not defined.
- `bst_periodic` is atomic: all calls come from the main loop, as in
  `bst_loop_esp8266`.  `TwoThreads` has calls from another thread.

### Bootstrapping

An abstract device has a phase (bootstrap or destination), what it keeps (data and
key), the data it has joined a network with, an owner with a session, and at most
one offer each of a key and of data.  `ImplementsBootstrapping` maps the mode to the
phase, `flash` to what is kept, `appNonce` and the rest of its deadline to owner and
session, and RAM to an offer as long as its request flag is set.  What the abstract
device may *not* do is the content: use data it has not kept, keep an offer twice or
after a later one, take another owner during a session, leave the bootstrap network
while an offer is open or while a session runs and the network is in reach, carry
a session or an offer from one phase into the next.

### BootstrapProtocol

It extends `BootstrapWifi` by the packets on their way in both directions and by what
each app has heard: the device nonce and the secret of the last list it could read.
Apps are external; they do what `README.md`, "How it works", says, at any time.  Each
has a key and data of its own, so that the author of a command can be told.
`Deliver` is `bst_network_input` with a packet that may stay in the air and arrive
again, `Answer` is `bst_wifi_network_list`.  Lists that no app can read are not kept.
A new device nonce differs from all that somebody could still use (`Remembered`):
the code draws it from `bst_get_random`, which promises a random number of 64 bits
(`bootstrapWifi.h:246`).  `bst_get_random` of `esp8266sdk.cpp` is an unseeded
`rand()`; the theorems say nothing of a platform whose nonces repeat.

### Esp8266

| Variable | Code |
|---|---|
| `stage` | how far a round of `loop()` is: button, packet, look at the connection, rest of `bst_periodic` |
| `timing` | `previousMillisButton` is not 0 |
| `station` | what `wifi_station_get_connect_status` returns, and the network the station is in |
| `lost` | the network is out of range and the sdk does not say so |
| `socket` | `udpIPv4`: whether `begin` has opened a socket, or has failed |
| `rssi` | what is left of `last_rssi_time + 5000` |

`HandleButton` is `handleLEDandButton` without the LED, `ReadPacket` the first half of
`bst_loop_esp8266`, `Look` the call of `bst_get_connection_state` in `bst_periodic`,
`RunLibrary` the rest of it with the platform callbacks it makes.  The sdk works
between two rounds (`Sdk`), the clock and a loss of power (`Time`, `PowerLoss`) come
at any stage.  After a reset `handleLEDandButton` returns without clearing the time
of the press (100); the next round takes it for the start of a press, so that a
reset may also confirm, against the comment at `main.cpp:7`; `Released` has this.
A `begin` that fails is only logged (43), so that a device may wait for data and hear
nothing.  A packet is read whenever there is a socket, whatever the station is doing: it
may have been in a buffer.  All of this is the time until the clock of the sdk falls
back to 0, after which the look at the signal level stops (see *Findings*).
Two assumptions are the program's own: both options that `bst_periodic` tests are set
(`main.cpp:72-74`), and `bst_get_connection_state` returns one of four values.

### Storage, WifiList, Crc16 and Spritz

These are operators, without variables.  `Storage` has the buffer and the pointers
that `prv_assign_data` sets (`Stored`, `Starts`) and the strings behind them;
`Saved` is what the store callback gets.  `Added` of `WifiList` is one round of the
packing loop: leave it, skip the own network, or write an entry.  A register of
`Crc16` is the set of its bits that are 1, `ShiftAndReduce` one round for a bit.
An operation of `Spritz` takes the record of the cipher state to the next one.
Loops are recursive functions, or a function that is applied n times (`Times`).
`MCEncodings` and `MCSpritz` are the users: they build an input or absorb and drip in
every order, and their properties look at what the operators make of it.

The assumptions on the constants: the buffer holds three NULs, and `Null` is no index
of it; the packet has no room for as many entries as a byte can count
(`BufferSize < 3 * ByteValues`, 484 and 256 in the code), though it may hold more
bytes than that; the number of digits is a power of two other than 1, so that N has a
middle, and an odd step width stays odd when it wraps and has no divisor in common
with N.

### WrappingClock and TwoThreads

`WrappingClock` adds the clock and the absolute deadlines (`due`).  A step of the
library notes what it has set; `Wrap` goes from the last value to 0, where what is
left of a deadline is its number again.  `TwoThreads` splits the two branches of
`bst_periodic` that clear one bit: the byte of flags is loaded, packets may be
handled, the byte is stored.  That is one outcome of the race, and enough for the
finding.

## 3. Runs

| Run | Instance | Shows |
|---|---|---|
| `safety` | 2 apps (symmetric), a key, the empty key and a stored one that is too long, data with and without an ssid, 3 option sets, reboots, 1 text of the application | 5 invariants, 3 action properties, the refinement |
| `liveness` | 1 app, 3 option sets, no reboot | 4 liveness properties under `FairSpec` |
| `protocol` | 2 apps, each with key and data, 3 nonces, 2 packets in the air, reboots and resets | 2 invariants, 2 action properties |
| `esp8266` | 1 app, 2 data values, 2 option sets, losses of power | 4 invariants |
| `encodings` | inputs up to 7 characters for a buffer of 6, any number of own and up to 4 other networks with names up to 4 for a packet of 14, packets up to 3 bytes | 8 invariants of the algorithms |
| `spritz` | N = 16, 9 operations, so that a block of 8 fills and shuffles; N = 256 for the vectors | 5 invariants |
| `stale_scan`, `confirmation`, `endless`, `list_size`, `clock`, `threads` | small ones | each the counterexample of one finding |

*Bounds.*  Timeouts are 1 unit (6 for the session of `stale_scan`, 2 in `threads`),
which gives a deadline its three relevant states: ahead, now, past.  Retry limits of
0, 1 and 2 cover "no attempt", one, and one that needs a second round, in `liveness` the
limit 0 of either side and of the advanced connection; `MaxCount` = 3 stands for 255,
above every limit used except in `endless`, where the limit equals it.  That finding is
why `liveness` leaves the limit 255 out: both tests, 346 and 422, compare a byte with it
in a way that never fails.  Two apps are enough for a takeover; one key and one data value still differ
from the empty flash.  `Capacity` = 2 in `protocol` bounds the packets in the air: a
list and a command sealed by an older one, or two commands of two apps, and a packet
that stays in the air is as good as any number of copies.  Three nonces are one in
use, one heard and one in an old packet; where a fourth would be needed, HELLO waits,
and the proofs have no such bound.  `LastMs` = 5 in `clock` makes a day of six units.
Nothing else is bounded: all state spaces are finite by themselves.

*Properties of `safety`.*  `UnsavedChangesPending`: data in RAM that flash lacks have
their request noted, and so has a secret that is neither the one in flash nor what a
boot makes of it.  (The two differ for a key that is too long, and for an empty one
until the next boot.)  It breaks if new data are served before a bind.  `RadioMatchesMode`: requests exist only while waiting for data; in
the destination modes the credentials in use, RAM and flash agree; attempts of the
advanced connection count only after it was tried on this link.
`AttemptsBounded`: the shared counter respects the limit of the present mode.
`DiagnosisConsistent`: a default text belongs to the code sent with it.
Three properties say what a step may never do: `SessionNotTakenOver`,
`PhaseStartsClean`, and `RequestsAreServed`, that a request goes away only in the step
that serves it, although entering a mode clears all of them; a reset and a loss of power
are the exceptions.  It breaks if new data are served before the other requests, since
serving them enters a mode.

*Properties of `liveness`.*  `ReturnsToDestination`: a device with data leaves bootstrap
mode.  It has two excuses, sessions that go on and an advanced connection to the
bootstrap network that comes again and again; the second is a fault of the code (see
*Disagreements*), and the property is false without it.  `GivesUpOnDestination`: a
destination whose link stays unusable is given up; the attempts of the library itself,
which show as `CONNECTING`, do not count as a change of the link.  `FactoryResetHappens`:
a reset that was asked for is carried out.  `ChangesReachFlash`: an app's key reaches
flash always, its data unless apps say HELLO or BIND for ever.  The last two are about
the order of the tests in 284-321.

*Properties of `protocol`.*  `CommandsFromOwner`: an accepted command carries key or
data of the app the session is with.  It breaks if a HELLO does not renew the nonce:
an old packet is then understood in the session of another app.  `BoundToOneApp`:
once flash holds the key of an app, no other app's command is accepted; it breaks
if a boot forgets the stored secret.  `OwnerNotLockedOut`: who has heard the device
in its present session shares a secret with it.

*Properties of `esp8266`.*  `SocketMatchesMode`: while the device waits for data it has a
socket or has failed to get one, and at the destination it has none.  `NetworkMatchesMode`: where the
library believes to be connected, the station is in the network of that mode, with
the credentials in flash, or has just dropped out.  `StoredInEachRound`: since
`bst_periodic` follows every packet, no request is left between two rounds, and nothing
is only in RAM.  It needs that at most one packet is read per round.

*Properties of `encodings`.*  `ReadsInsideStorage`: no string runs out of the buffer,
also when the input has no NUL; it breaks if one byte more is kept.
`TextsArePieces` and `ReloadKeepsTexts`: the strings are the pieces of what an app sent,
before and after a reboot.  `ListFits` and `EntriesAreFound`: list and log text stay in
the field, and a reader that goes from NUL to NUL finds what the counter announces; it
breaks if an entry that does not fit is counted.  `BurstsAreDetected`: no damage of up
to 16 neighbouring bits goes unnoticed, and by `OddErrorsAreDetected` none of one or
three bits anywhere.  These errors are the ones that the checksum gets to see: those of
the air for HELLO.  A sealed packet is decrypted before, by subtraction from each byte
(`spritz.c:273`), which leaves the damage in its bytes but may change how many of their
bits are wrong: damage within two neighbouring bytes is noticed there, too.
`CheckValue` and `TestVectors` (in `spritz`)
compare the operators with known results.

*Properties of `spritz`.*  `TypeOK` holds the registers in their arrays: it breaks if a
full block is not shuffled.  `Permutation`: no operation loses a value of `s`.
`StepVisitsAll`: with the present step width the index `i` comes to every element of the
state, so that the updates of a `whip` leave none out.  `BlockIsDistinguished`: from the permutation
one can read what was absorbed since the last shuffle, stops included, so that
another split of the same bytes into key and nonce is another state.

*Fairness.*  `FairSpec` assumes weak fairness of `Periodic`, since the
application calls `bst_periodic` from its main loop (`bst_loop_esp8266` in
`src/platform/esp8266sdk.cpp:119-128`), and of `Tick`, since time passes.  Apps, the
user, scans and the radio are free to act or not, and to act for ever.
`ChangesReachFlash` therefore has a premise: an app that says HELLO again and again
keeps `bst_periodic` at its third test (309) and new data are never stored.  With
the premise the property says that nothing else can prevent it.  `EspSpec` has safety
properties only and assumes no fairness.  `ClockSpec` lets the clock go on only after a call of `bst_periodic`, so that
its counterexample is not one of a slow main loop.

*Findings.*

- `stale_scan`: 553 tests the mode only, so a scan that outlives its session
  (through a factory reset and a reconnect, or by expiry and a late command) is
  answered with a zeroed nonce.
- `confirmation`: `bst_setup` changes `external_confirmation_mode` for a
  bootstrapped device, and the factory reset keeps the change until the next boot.
- `endless`: a retry limit of 255 is no limit.
- `list_size`: the size of a list of 256 bytes or more wraps.
- `clock`: after 4294967 ms the clock starts at 0 again; a deadline set shortly before
  never passes and the device stays in `CONNECTING_TO_DEST`.  The workaround of
  `esp8266sdk.cpp:69` stops for the same reason once `last_rssi_time + 5000` is above
  the last value.
- `threads`: a request bit that is set while another one is cleared is lost, and the
  change in RAM is never stored.

*Disagreements* that have no run of their own:

- BIND and SET_DATA do not renew the session, though `README.md:122` says that every
  packet does.
- `bootstrapWifi.h:125` says that `bst_periodic` generates no network traffic, while
  255-261 are called from it.
- A connection to the bootstrap network that is reported as `CONNECTED_ADVANCED` is one
  for 328 and none for 360, so that the two bootstrap modes alternate and neither looks
  at a deadline, although 371-373 say that the app should not "be able to keep the device
  from connecting to the already stored destination SSID".  This is the second excuse of
  `ReturnsToDestination`.
- A device that is bound to the empty key has the factory secret after its next boot,
  although `prv_bootstrapWifi.h:47-51` says that after a bind it "has to be factory
  reseted to enable bootstrapping again".

## 4. Proofs

`BootstrapWifi_proofs` proves, for all values of the constants that satisfy the
assumptions in `BootstrapWifi`:

- `TypeCorrect`: `Spec => []TypeOK`.
- `ChangesArePending`: `Spec => []UnsavedChangesPending`.
- `RadioFollowsMode`: `Spec => []RadioMatchesMode`.
- `AttemptsStayBounded`: `Spec => []AttemptsBounded`.
- `DiagnosesMatch`: `Spec => []DiagnosisConsistent`.
- `SessionsAreKept`: `Spec => SessionNotTakenOver`.
- `NoRequestIsLost`: `Spec => RequestsAreServed`.
- `PhasesStartClean`: `Spec => PhaseStartsClean`.
- `FactoryResetsHappen`: `Spec /\ LoopRuns => FactoryResetHappens`, for options that
  name a bootstrap network and a secret, without losses of power.
- `ChangesAreSaved`: `Spec /\ LoopRuns => ChangesReachFlash`, for such options, losses
  of power included.

`BootstrapWifi_refinement` proves `KeepsPromise`: `Spec => ImplementsBootstrapping`.
`BootstrapProtocol_proofs`, for any number of apps and any capacity of the air:

- `ProtocolTypesCorrect`: `ProtocolSpec => []ProtocolTypeOK`.
- `OwnersUnderstand`: `ProtocolSpec => []OwnerNotLockedOut`.
- `OwnersCommand`: `ProtocolSpec => CommandsFromOwner`.
- `BoundForLife`: `ProtocolSpec => BoundToOneApp`.

`Esp8266_proofs`, for every behaviour of the sdk and of the button:

- `ProgramUsesLibrary`: `EspSpec => Spec`; each theorem above that starts with
  `Spec =>` holds in the program.
- `EspTypesCorrect`: `EspSpec => []EspTypeOK`.
- `EachRoundStores`: `EspSpec => []StoredInEachRound`.
- `SocketFollowsMode`: `EspSpec => []SocketMatchesMode`.
- `NetworkFollowsMode`: `EspSpec => []NetworkMatchesMode`.

`Encodings_proofs`, for every capacity, every input, every list of networks and every
size of packet and counter:

- `StorageIsSafe`: `Spec => []ReadsInsideStorage`.
- `ReloadIsFaithful`: `Spec => []ReloadKeepsTexts`.
- `StringsAreThePieces`: `Spec => []TextsArePieces`.
- `ListIsInsidePacket`: `Spec => []ListFits`.
- `ReaderFindsEntries`: `Spec => []EntriesAreFound`.

`Crc16_proofs`, for packets of every length and content:

- `EveryBurst`: `Spec => []EveryBurstIsDetected`, any pattern of wrong bits within 16.
- `Bursts`: `Spec => []BurstsAreDetected`, the patterns that the run tries.
- `EveryOddError`: `Spec => []EveryOddErrorIsDetected`, any odd number of wrong bits.
- `OddErrors`: `Spec => []OddErrorsAreDetected`, one and three wrong bits.

`Spritz_proofs`, for every power of two of digits and every order of operations:

- `RegistersInRange`: `Spec => []TypeOK`.
- `StaysPermutation`: `Spec => []Permutation`.
- `StepsVisitAll`: `Spec => []StepVisitsAll`.
- `BlocksAreDistinguished`: `Spec => []BlockIsDistinguished`.
- `DecryptRestores`: `Decrypt(Encrypt(message, nonce, key), nonce, key) = message` for
  all strings of bytes, which no run can enumerate.

So every safety property of a passing run is proved for all values of the constants,
but for the two that are named at the end of this section.  In the library this means
any number of apps, keys and messages, any options and any width of the counter.  The
assumptions say that the special values (`NoData`, `NoSecret`, `NoNonce`, `NoMessage`)
are not ordinary ones, that no key of an app is the factory secret, that keys which are
too long are cut to ones that fit, that the application's texts are not the default ones, that options and reports have their types,
that two apps have different keys and data; for the program the two of `Esp8266`, and
for the algorithms the ones in section 2.

*The library.*  The argument has two inductive invariants.  `TypeInv` is `TypeOK` and "while a bind
is noted, the secret is a key that an app has sent, possibly empty": without it the store in `ServeBind` might
put the factory secret into flash, which `TypeOK` excludes.  `StorageInv` is
`UnsavedChangesPending` and `RadioMatchesMode` together.  Neither is inductive
alone: that a mode may be entered, which forgets all requests, without losing a
change, needs that no request but the served one can be noted (`IdleSaved`); and
that the credentials in use are those in flash needs that data change only while
the device waits for data.  Each lemma treats one part of the next-state relation:
entering a mode, a case of the switch, `Periodic`, a packet, the environment.
`AttemptsBounded` and `DiagnosisConsistent` need no strengthening but the types;
the proof states them of a state record (`Sound`), because a case of the switch that
falls through hands a record on to the next case.  `SessionsAreKept` follows from
`Welcome` for HELLO and from the reset of the session and of the flags for every
other step, `PhasesStartClean` from the two operators that enter a mode.  `NoRequestIsLost` takes
the actions one by one: where a mode is entered, `Idle` or the order of the tests
(`Pending`) says that nothing but the served request was noted.

*Liveness of the library.*  `FactoryResetsHappen` and `ChangesAreSaved` follow from the
weak fairness of `Periodic` by propositional temporal logic: what is wanted holds until
`Periodic` gives it (`ResetServed`, `KeyServed`, `DataServed`, which rest on `TypeInv` and
`StorageInv`), and `Periodic` is enabled while it is wanted.  None of the provers expands
ENABLED.  The hypothesis `LoopRuns` of both theorems is what is needed of the fairness:
calls of `bst_periodic` take a step again and again, or there is again and again nothing
noted to take one for.  Behaviours of `FairSpec` are like that, since the chain of tests
in 284-321 always serves the first request that is noted, and serving it clears a flag;
this step from `FairSpec` to `LoopRuns` is made by reading and not by a prover, and the
run `liveness` checks both properties under `FairSpec` itself.  `ProperOptions` is the other hypothesis: a device without a
bootstrap network or a secret does nothing (281); the example program gives both
(`main.cpp:72-74`), and `ConfiguredInv` says that no reset or boot loses them.  A loss of
power may forget a reset that was asked for, as the flag is in RAM only, and never an
unsaved change: then RAM is made from flash again.

*The refinement* maps each action to an abstract one or to a stutter.  It uses
`TypeInv` and `StorageInv`: that the data at the destination are the kept ones is
`RadioMatchesMode`, and that leaving a mode drops no offer is `IdleSaved`.

*The protocol.*  The three properties are not inductive: that a command comes from the
owner depends on who can have sealed it.  `ProtocolInv` adds: the two nonces come and
go together and a valid session has them (`NoncesAgree`); a device whose flash holds
a key of an app uses it and no other (`KeyForLife`); a command in the air that is sealed with
the present nonce was written by the app of the session (`CommandsWritten`); what an
app has heard, or can still hear, in the present session is for the owner, and the
secret has since changed to the owner's key or not at all (`ListsUnderstood`).  That a
new nonce is unlike all that somebody could still use keeps the last two.

*The program.*  `LibrarySteps` maps every step of `EspNext` to one of `Next` or a
stutter, so that `TypeInv` and `StorageInv` are kept for free.  `RoundInv` says
which requests a stage can find (at most one of an app, none next to a factory
reset), from which `StoredInEachRound` follows with `UnsavedChangesPending`.
`PeriodicRadio` is the lemma about `bst_periodic` the others rest on: either the
radio is left alone, and then the mode becomes "waiting for data" only together
with a HELLO, or a new attempt begins and the mode is one that tries to connect.

*Loops.*  What a loop computes is proved by induction over its rounds.  `Recursion`
states induction with a set in place of a predicate (`InductionUpTo`), from the
well-foundedness of `<` on the naturals, and derives that a function defined by
recursion over 0..m exists (`LoopExists`).  A recursive function of the model is then
shown to satisfy its equation, and its values are described round by round.

*Storage and list.*  `StoredInput` and `EndOfString` give the two facts the rest needs:
the last three bytes of the buffer are NUL, and a string that starts before the last
NUL ends inside.  The texts are windows of the input (`AdjacentWindows`); windows
that follow each other are put together again.  The packing loop has the inductive
invariant `ListInv`: used bytes, the two counters and the positions of the entries as
functions of the networks the loop has come to (`RoundCases`: an entry is written, or
nothing is).  A byte counts the entries without wrapping because each takes three
bytes; nothing like that holds for the counter of bytes (`list_size`).

*Checksum.*  A round is linear (`RoundIsLinear`), so the checksums of two packets differ
by what the register makes of their difference.  The polynomial has a one at 0: a
round can be taken back (`RoundBack`), and an empty register after a byte means that
the register before was that byte (`AddByteKernel`).  A difference within 16 bits
touches at most three bytes; `BurstLeavesTrace` shows that the register is not
empty behind the last of them, and bytes without a difference leave it so.  The
polynomial and its top bit together have an even number of ones: a round keeps the parity
of the register (`RoundParity`), so that an odd difference leaves an odd register.

*Cipher.*  `Sound` is the type, "every value is in `s`" and "w is odd"; each operation
keeps it (`UpdateType`, `CrushType`, `TimesKeeps` and the lemmas `...Sound`).  That an odd
width visits everything needs that it has no divisor in common with N (`OddFactor`,
`OddFactorOfN`): two of N steps that ended at one place would be such a divisor
(`OddStepVisitsAll`).  `CrushType`
looks at an element and its mirror image together.  `BlockIsDistinguished` is not
inductive, for it says nothing of the permutations between.  `BlockInv` adds that there
is a `Trail` of permutations from `base` to `s`, one for each element of the block;
`Untouched` says that an element does not move what later ones will, `OneToOne` (from
finiteness) that a swapped value is found at one place only, and `UndoneIsBack` goes
one step back on the trail.  Encryption and decryption start the same stream, whose
bytes are in range (`SqueezeType`), and addition modulo N is taken back.

Only model-checked:

- `ReturnsToDestination` and `GivesUpOnDestination`.  Each needs many steps, counted by
  an attempt counter and a clock, and so an induction over time, which takes a theorem
  with an operator as its parameter.
- That `FairSpec` implies `LoopRuns`, because of ENABLED, as said above.
- `CheckValue` and `TestVectors`, which compute one known result: the run is the proof.

The findings are counterexamples of small instances and need no proof.

## 5. Not modelled

- Stores that fail or are cut off by a loss of power, and a file system that cannot be
  mounted (`esp8266sdk.cpp:199-203`): each store keeps what it is given, in one step.
- A BIND that announces more than `BST_BINDKEY_MAX_SIZE` bytes, whose effect on RAM is
  undefined (511), and a factory secret of length 0 or of more bytes than fit (215).
- That the signal level of a lost network is looked at in time: it is until the clock
  falls back to 0, and never again afterwards.
- The LED, firmware update, and debug output.
- Other outcomes of the data race between two threads, e.g. half-written storage.
- The wiping of cipher state at the end of a call, which no later call could see.
- Length and header tests of packets: a packet that fails them changes nothing.
- The strength and encryption mode of a network: copied bytes.

## 6. What could come next

1. Liveness of the protocol: with a fair network and an app that repeats HELLO, a
   device that nobody owns is bound.
2. Failing stores: `flash` that keeps what it had, or nothing, and what is left of
   `RadioMatchesMode` and of the promise then.
3. The absolute deadlines of `WrappingClock` with a clock that does not wrap, as a
   refinement of the remaining times of `BootstrapWifi`.
