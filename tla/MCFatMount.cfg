CONSTANTS
  Cards = {1, 2, 3}
  Kind <- MCKind
  CSD <- MCCSD
  Image <- MCImage
  InitTries = 2
  MaxFaults = 1
  Handles = {1, 2}
  IdMod = 8
  MaxCalls = 4
  MaxSwaps = 3
SPECIFICATION Spec
CHECK_DEADLOCK FALSE
INVARIANTS CardInv DataCurrent
PROPERTIES CallsReturn
