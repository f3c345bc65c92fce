SPECIFICATION Spec
CONSTANTS
  UserOptions <- FirstStartOptions
  MaxCount = 3
  Data = {d1}
  NoData = NoData
  SentData = {d1}
  BindKeys = {k1}
  LongKeys = {}
  Clamped <- FirstBytes
  InitialSecret = InitialSecret
  NoSecret = NoSecret
  AppNonces = {a1}
  DeviceNonces = {n1}
  NoNonce = NoNonce
  UserMessages = {}
  NoMessage = NoMessage
  BootstrapReports = {"CONNECTING", "CONNECTED"}
  DestinationReports = {"NO_CONNECTION", "CONNECTED"}
  Reboots = FALSE
PROPERTY OptionsSurviveFactoryReset
