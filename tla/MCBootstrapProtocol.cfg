SPECIFICATION ProtocolSpec
CONSTANTS
  a1 = a1
  a2 = a2
  k1 = k1
  k2 = k2
  d1 = d1
  d2 = d2
  KeyOf <- MCKeyOf
  DataOf <- MCDataOf
  Capacity = 2
  UserOptions <- MCOptions
  MaxCount = 3
  Data = {d1, d2}
  NoData = NoData
  SentData = {d1, d2}
  BindKeys = {k1, k2}
  LongKeys = {}
  Clamped <- FirstBytes
  InitialSecret = InitialSecret
  NoSecret = NoSecret
  AppNonces = {a1, a2}
  DeviceNonces = {n1, n2, n3}
  NoNonce = NoNonce
  UserMessages = {}
  NoMessage = NoMessage
  BootstrapReports = {"CONNECTED"}
  DestinationReports = {"CONNECTED"}
  Reboots = TRUE
INVARIANTS
  ProtocolTypeOK
  OwnerNotLockedOut
PROPERTIES
  CommandsFromOwner
  BoundToOneApp
SYMMETRY Alike
