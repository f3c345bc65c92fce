SPECIFICATION FairSpec
CONSTANTS
  UserOptions <- LivenessOptions
  MaxCount = 3
  Data = {d1}
  NoData = NoData
  SentData = {d1}
  BindKeys = {k1}
  LongKeys = {}
  Clamped <- FirstBytes
  InitialSecret = InitialSecret
  NoSecret = NoSecret
  AppNonces = {a1}
  DeviceNonces = {n1}
  NoNonce = NoNonce
  UserMessages = {}
  NoMessage = NoMessage
  BootstrapReports = {"CONNECTING", "CONNECTED", "CONNECTED_ADVANCED"}
  DestinationReports = {"NO_CONNECTION", "CONNECTED", "CONNECTED_ADVANCED", "FAILED_ADVANCED"}
  Reboots = FALSE
PROPERTIES
  ReturnsToDestination
  GivesUpOnDestination
  FactoryResetHappens
  ChangesReachFlash
