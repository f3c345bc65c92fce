SPECIFICATION EspSpec
CONSTANTS
  UserOptions <- ExampleOptions
  RssiPeriod = 1
  MaxCount = 3
  Data = {d1, d2}
  NoData = NoData
  SentData = {d2}
  BindKeys = {k1}
  LongKeys = {}
  Clamped <- FirstBytes
  InitialSecret = InitialSecret
  NoSecret = NoSecret
  AppNonces = {a1}
  DeviceNonces = {n1}
  NoNonce = NoNonce
  UserMessages = {}
  NoMessage = NoMessage
  BootstrapReports <- Answers
  DestinationReports <- Answers
  Reboots = TRUE
INVARIANTS
  EspTypeOK
  SocketMatchesMode
  NetworkMatchesMode
  StoredInEachRound
