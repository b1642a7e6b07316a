\* Opcode E8, "Add SP, r8".
CONSTANTS
  BootRom    <- bootDMG
  MemorySize = 0
  CycleMod   = 16777216
  Cartridges <- MCCartridges
  Cpus       <- MCCpus
SPECIFICATION Spec
CONSTRAINT FewCycles
PROPERTY
  AddSpIsSigned
