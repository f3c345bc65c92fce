SPECIFICATION Spec
CONSTANTS
  Digits = 4
  Nibbles = {0, 3}
  MaxOps = 9
INVARIANTS
  TypeOK
  Permutation
  StepVisitsAll
  BlockIsDistinguished
  TestVectors
CHECK_DEADLOCK FALSE
