-------------------------------- MODULE Bus ---------------------------------
(***************************************************************************)
(* The memory interface of class State under an arbitrary caller: any      *)
(* sequence of get_memory_byte and set_memory_byte calls on an object      *)
(* whose ROM has been loaded.  Both functions are public and take any      *)
(* 16-bit address; the CPU is one such caller.                             *)
(***************************************************************************)
EXTENDS MemoryMap, Sequences

CONSTANTS Addresses,   \* the addresses the caller uses
          Values,      \* the bytes it writes
          Cartridges   \* what can be reached of the ROM file's vector

ASSUME AddressesAssumption  == Addresses \subseteq Word
ASSUME ValuesAssumption     == Values \subseteq Byte
ASSUME CartridgesAssumption == \A rom \in Cartridges : IsArray(rom, RomSize)

VARIABLES state,
          call     \* the last call: its name, its address and, if it returned, the byte

vars == <<state, call>>

Init ==
  /\ \E rom \in Cartridges : state = Loaded(rom, ResetCpu)
  /\ call = <<>>

Running == state.status = "running"

Read(addr) ==
  LET read == get_memory_byte(addr, state)
  IN  /\ Running
      /\ state' = read.st
      /\ call' = IF read.st.status = "running" THEN <<"read", addr, read.val>>
                                                ELSE <<"read", addr>>

Write(addr, v) ==
  /\ Running
  /\ state' = set_memory_byte(addr, v, state)
  /\ call' = IF state'.status = "running" THEN <<"write", addr, v>> ELSE <<"write", addr>>

Exited == ~Running /\ UNCHANGED vars

Next ==
  \/ \E addr \in Addresses : Read(addr)
  \/ \E addr \in Addresses, v \in Values : Write(addr, v)
  \/ Exited

Spec == Init /\ [][Next]_vars

Calls == {"read", "write"}

TypeOK ==
  /\ StateOK(state)
  /\ call \in {<<>>} \cup (Calls \X Word) \cup (Calls \X Word \X Byte)

-----------------------------------------------------------------------------
(* The memory map as the comments of get_memory_byte and the fields of class IO    *)
(* name it, for the addresses the caller uses and a machine with no internal RAM.  *)

Ports == {\hFF11, \hFF12, \hFF24, \hFF25, \hFF26, \hFF40, \hFF42, \hFF44, \hFF47}

Cells    == Addresses \cap (\h8000..\h9FFF \cup Ports \cup \hFF80..\hFFFF)
Unwired  == Addresses \cap ((\hFF00..\hFF4B) \ Ports)
Roms     == Addresses \cap \h0000..\h7FFF
BootRoms == Addresses \cap \h0000..\h00FF
Nowhere  == Addresses \cap ((\hA000..\hFEFF \cup \hFF4C..\hFF7F) \ {\hFF50})

\* What the two ROMs hold, the cartridge's as far as it reaches; a port without a field
\* reads as 0.
Contents(cartridge) ==
  [a \in Unwired \cup BootRoms \cup {b \in Roms : b - \h0100 \in DOMAIN cartridge} |->
     CASE a \in Unwired  -> 0
       [] a \in BootRoms -> BootRom[a]
       [] OTHER          -> cartridge[a - \h0100]]

Flat == INSTANCE FlatMemory WITH
  Value    <- Values,
  Cell     <- Cells,
  Deaf     <- Unwired,
  Fixed    <- Roms,
  Overlay  <- BootRoms,
  Switch   <- \hFF50,
  Void     <- Nowhere,
  mem      <- [a \in Cells |-> ByteAt(a, state)],
  image    <- Contents(state.rom),
  overlay  <- state.boot_rom_enabled,
  call     <- call,
  up       <- Running

\* The members of State behind get_memory_byte and set_memory_byte behave as one
\* flat array: no two addresses share a cell, a read returns the last byte written
\* there, the overlay goes away once, and the machine stops at an access to an
\* address with nothing behind it and at no other.
FlatMemorySpec == Flat!Spec
=============================================================================
