\* The logo where the boot ROM looks for it.
CONSTANTS
  BootRom    <- bootDMG
  MemorySize = 0
  CycleMod   = 524288
  Cartridges = {}
  Cpus       = {}
  WindowAddresses  = {w1}
  SurfaceAddresses = {s1}
  NULL       = NULL
  Files      <- MCFiles
  NoFile     = NoFile
  Garbage    <- MCGarbage
  BlockEnds  <- MCBlockEnds
  Heap       <- MCHeap
SPECIFICATION MainSpec
INVARIANTS
  LogoVisible
