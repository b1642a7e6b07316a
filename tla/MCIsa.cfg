\* Every opcode from registers that point into each kind of memory.
CONSTANTS
  BootRom    <- bootDMG
  MemorySize = 0
  CycleMod   = 16777216
  Cartridges <- MCCartridges
  Cpus       <- MCCpus
SPECIFICATION Spec
CONSTRAINT FewCycles
INVARIANT
  TypeOK
PROPERTIES
  NoStrayWrite
  ControlFlow
  FlagsSurvive
  PreciseStop
  StackMoves
