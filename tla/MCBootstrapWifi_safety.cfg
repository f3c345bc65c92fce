SPECIFICATION Spec
CONSTANTS
  UserOptions <- SafetyOptions
  MaxCount = 3
  Data = {d1}
  NoData = NoData
  SentData = {d1, NoData}
  BindKeys = {k1}
  LongKeys = {long}
  Clamped <- FirstBytes
  InitialSecret = InitialSecret
  NoSecret = NoSecret
  AppNonces = {a1, a2}
  DeviceNonces = {n1}
  NoNonce = NoNonce
  UserMessages = {m1}
  NoMessage = NoMessage
  BootstrapReports = {"CONNECTING", "CONNECTED", "CONNECTED_ADVANCED"}
  DestinationReports = {"NO_CONNECTION", "CONNECTED", "CONNECTED_ADVANCED", "FAILED_SSID_NOT_FOUND", "FAILED_ADVANCED"}
  Reboots = TRUE
INVARIANTS
  TypeOK
  UnsavedChangesPending
  RadioMatchesMode
  AttemptsBounded
  DiagnosisConsistent
PROPERTIES
  SessionNotTakenOver
  RequestsAreServed
  PhaseStartsClean
  ImplementsBootstrapping
SYMMETRY Apps
