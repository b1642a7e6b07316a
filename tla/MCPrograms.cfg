\* Guest programs over hundreds of instructions.
CONSTANTS
  BootRom    <- bootDMG
  MemorySize = 0
  CycleMod   = 256
  Cartridges <- MCCartridges
  Cpus       <- MCCpus
SPECIFICATION FairSpec
INVARIANTS
  LogoScaled
  HeaderSummed
  CopyExact
  MultiplyExact
  FlagsOutsideAF
  CallAcrossWrap
PROPERTIES
  ProgramsEnd
