----------------------------- MODULE MemoryMap ------------------------------
(***************************************************************************)
(* The members of class State and its memory interface: get_memory_byte    *)
(* and set_memory_byte, with the I/O registers of class IO behind them.    *)
(*                                                                         *)
(* The object is one record, and every member function an operator from    *)
(* records to records.  Where the code ends the process -- panic() calls   *)
(* exit(-1), an index into the empty vector `memory' faults -- the record  *)
(* keeps what was assigned up to then and its `status' says how the        *)
(* process ended.  No operator changes a record that is not running.       *)
(*                                                                         *)
(* `rom' holds the bytes that an index into the file's vector reaches:     *)
(* those of the file and whatever can be read behind them.  Any other      *)
(* index faults.                                                           *)
(***************************************************************************)
EXTENDS Bytes

CONSTANTS BootRom,     \* the table bootDMG
          MemorySize,  \* size of the vector `memory' after load_rom; the code's is 0
          CycleMod     \* cycles is counted modulo this; the code's is 2^32

ASSUME BootRomAssumption    == BootRom \in [0..\hFF -> Byte]
ASSUME MemorySizeAssumption == MemorySize \in Nat
ASSUME CycleModAssumption   == CycleMod \in Nat \ {0}

-----------------------------------------------------------------------------
(* The object *)

Reg8      == {"A", "F", "B", "C", "D", "E", "H", "L"}
FlagNames == {"Zero", "Subtract", "HalfCarry", "Carry"}

\* The registers class IO has a field for, by their offset from FF00.
IoFields == {\h11, \h12, \h24, \h25, \h26, \h40, \h42, \h44, \h47}

InternalSize == \h7F
VideoSize    == \h2000
RomSize      == \h7F00     \* the largest vector get_memory_byte reaches all of

Statuses == {"running", "panicked", "crashed"}

CpuType == [reg : [Reg8 -> Byte], sp : Word, pc : Word, flags : SUBSET FlagNames]

StateOK(s) ==
  /\ s \in [reg : [Reg8 -> Byte], sp : Word, pc : Word, flags : SUBSET FlagNames,
            io : [IoFields -> Byte], rom : [DOMAIN s.rom -> Byte],
            memory : [DOMAIN s.memory -> Byte], video : [DOMAIN s.video -> Byte],
            internal_memory : [DOMAIN s.internal_memory -> Byte],
            interrupt_enabled : Byte, boot_rom_enabled : BOOLEAN,
            cycles : 0..(CycleMod - 1), status : Statuses]
  /\ IsArray(s.rom, RomSize)
  /\ IsArray(s.memory, MemorySize)
  /\ IsArray(s.video, VideoSize)
  /\ IsArray(s.internal_memory, InternalSize)

ResetCpu == [reg |-> [r \in Reg8 |-> 0], sp |-> 0, pc |-> 0, flags |-> {}]

ResetIo == [f \in IoFields |-> CASE f = \h26 -> \hF1
                                 [] f = \h40 -> \h5B
                                 [] f = \h44 -> \h90
                                 [] OTHER    -> 0]

\* The object after State() and a successful load_rom, with `cpu' set to c.
Loaded(rom, c) ==
  [reg |-> c.reg, sp |-> c.sp, pc |-> c.pc, flags |-> c.flags,
   io |-> ResetIo, rom |-> rom, memory |-> Zeros, video |-> Zeros,
   internal_memory |-> Zeros, interrupt_enabled |-> 0,
   boot_rom_enabled |-> TRUE, cycles |-> 0, status |-> "running"]

\* Code after a call that ended the process is not reached.
Then(s, t) == IF s.status = "running" THEN t ELSE s

panic(s) == [s EXCEPT !.status = "panicked"]
crash(s) == [s EXCEPT !.status = "crashed"]

-----------------------------------------------------------------------------
(* The address space, in the areas the code's comparisons cut it into *)

InterruptEnable == \hFFFF
HighRamSlip     == \hFF81..\hFFFE     \* ">" where the code has ">="
HighRam         == \hFF80..\hFFFE
DisableBootRom  == \hFF50
IoPortsSlip     == \hFF00..\hFF7F     \* without the test for FF4C
IoPorts         == \hFF00..\hFF4B
SpriteTable     == \hFE00..\hFE9F
EchoRam         == \hE000..\hFDFF
InternalRam     == \hC000..\hDFFF
SwitchableRam   == \hA000..\hBFFF
VideoRam        == \h8000..\h9FFF
CartridgeRom    == \h0100..\h7FFF
BootArea        == \h0000..\h00FF

InRam(addr)    == addr \in EchoRam \/ addr \in InternalRam
Unusable(addr) == addr \in \hFF4C..\hFF7F \/ addr \in \hFEA0..\hFEFF

RamIndex(addr) == IF addr \in EchoRam THEN addr - \hE000 ELSE addr - \hC000

IoGet(io, f) == IF f \in IoFields THEN io[f] ELSE 0
IoSet(io, f, v) == IF f \in IoFields THEN [io EXCEPT ![f] = v] ELSE io

ByteAt(addr, s) ==
  CASE addr = InterruptEnable -> s.interrupt_enabled
    [] addr \in HighRam      -> At(s.internal_memory, addr - \hFF80)
    [] addr \in IoPorts      -> IoGet(s.io, addr - \hFF00)
    [] InRam(addr)         -> At(s.memory, RamIndex(addr))
    [] addr \in VideoRam     -> At(s.video, addr - \h8000)
    [] addr \in CartridgeRom -> At(s.rom, addr - \h0100)
    [] addr \in BootArea     -> BootRom[addr]
    [] OTHER                 -> 0

\* How a read of addr leaves the process.  Nothing compares an index with the size of
\* either vector.
ReadStatus(addr, s) ==
  CASE InRam(addr) /\ RamIndex(addr) >= MemorySize -> "crashed"
    [] addr \in CartridgeRom /\ addr - \h0100 \notin DOMAIN s.rom -> "crashed"
    [] Unusable(addr) \/ addr \in SpriteTable \/ addr \in SwitchableRam -> "panicked"
    [] addr \in BootArea /\ ~s.boot_rom_enabled -> "panicked"
    [] OTHER -> "running"

\* The byte read and the object after the call.
get_memory_byte(addr, s) ==
  [val |-> ByteAt(addr, s),
   st  |-> Then(s, [s EXCEPT !.status = ReadStatus(addr, s)])]

RamSetSlip(s, i, v) == [s EXCEPT !.memory = Store(@, i, v)]     \* storing anyway

RamSet(s, i, v) ==
  IF i < MemorySize THEN [s EXCEPT !.memory = Store(@, i, v)] ELSE crash(s)

set_memory_byte(addr, v, s) ==
  Then(s,
    CASE addr = InterruptEnable -> [s EXCEPT !.interrupt_enabled = v]
      [] addr \in HighRam  -> [s EXCEPT !.internal_memory = Store(@, addr - \hFF80, v)]
      [] addr = DisableBootRom -> [s EXCEPT !.boot_rom_enabled = FALSE]
      [] addr \in IoPorts  -> [s EXCEPT !.io = IoSet(@, addr - \hFF00, v)]
      [] InRam(addr)         -> RamSet(s, RamIndex(addr), v)
      [] addr \in VideoRam -> [s EXCEPT !.video = Store(@, addr - \h8000, v)]
      [] OTHER -> panic(s))
=============================================================================
