\* Opcode E9, "JP (HL)".
CONSTANTS
  BootRom    <- bootDMG
  MemorySize = 0
  CycleMod   = 16777216
  Cartridges <- MCCartridges
  Cpus       <- MCCpus
SPECIFICATION Spec
CONSTRAINT FewCycles
PROPERTY
  JumpHlIsFourCycles
