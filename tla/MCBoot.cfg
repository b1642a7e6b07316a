\* The real program from reset; it exits, and Exited keeps the last state.
CONSTANTS
  BootRom    <- bootDMG
  MemorySize = 0
  CycleMod   = 524288
  Cartridges <- MCCartridges
  Cpus       <- MCCpus
SPECIFICATION FairSpec
INVARIANTS
  ClearLoopTiming
  ClearLoopExit
  StopsAtFirstLdh
PROPERTIES
  CyclesAdvance
  BootStops
