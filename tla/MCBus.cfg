\* Any caller of get_memory_byte and set_memory_byte, at the area boundaries.
CONSTANTS
  BootRom    <- bootDMG
  MemorySize = 0
  CycleMod   = 16777216
  Addresses  <- MCAddresses
  Values     <- MCValues
  Cartridges <- MCCartridges
SPECIFICATION Spec
INVARIANTS
  TypeOK
PROPERTIES
  FlatMemorySpec
