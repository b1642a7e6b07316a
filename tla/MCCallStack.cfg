\* A recursive function, at depths around the capacity of the stack.
CONSTANTS
  BootRom    <- bootDMG
  MemorySize = 0
  CycleMod   = 16777216
  Cartridges <- MCCartridges
  Cpus       <- MCCpus
SPECIFICATION FairSpec
INVARIANTS
  ReturnsBalanced
  OverflowStops
PROPERTIES
  CallStackSpec
  RecursionEnds
