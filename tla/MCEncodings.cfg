SPECIFICATION Spec
CONSTANTS
  Capacity = 6
  Characters = {"a", "b"}
  NUL = NUL
  Null = Null
  BufferSize = 14
  ByteValues = 8
  MaxInput = 7
  MaxNetworks = 4
  MaxName = 4
  Contents = {{}, {0, 7}, {3, 4, 6}}
INVARIANTS
  ReadsInsideStorage
  TextsArePieces
  ReloadKeepsTexts
  ListFits
  EntriesAreFound
  BurstsAreDetected
  OddErrorsAreDetected
  CheckValue
CHECK_DEADLOCK FALSE
