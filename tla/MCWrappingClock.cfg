SPECIFICATION ClockSpec
CONSTANTS
  UserOptions <- ClockOptions
  LastMs = 5
  MaxCount = 3
  Data = {d1}
  NoData = NoData
  SentData = {d1}
  BindKeys = {k1}
  LongKeys = {}
  Clamped <- FirstBytes
  InitialSecret = InitialSecret
  NoSecret = NoSecret
  AppNonces = {}
  DeviceNonces = {n1}
  NoNonce = NoNonce
  UserMessages = {}
  NoMessage = NoMessage
  BootstrapReports = {"CONNECTED", "NO_CONNECTION"}
  DestinationReports = {"NO_CONNECTION", "CONNECTED"}
  Reboots = FALSE
PROPERTY ReconnectsPeriodically
