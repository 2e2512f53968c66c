SPECIFICATION Spec
CONSTANTS
  NFats = 2
  NFatEnt = 7
  FSS = 4
  SS = 2
  CSize = 2
  NRootDir = 4
  Volume <- MCVolume
  Handle = {h1, h2}
  MaxCalls = 5
  MaxMounts = 3
  Programs <- MCPrograms
SYMMETRY SymHandle
CHECK_DEADLOCK FALSE
INVARIANTS VolumeInv
PROPERTIES CallsExact OthersUntouched
