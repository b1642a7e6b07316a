------------------------------ MODULE BusProofs -----------------------------
(***************************************************************************)
(* Type correctness of the memory interface under any caller: any set of   *)
(* addresses, of bytes written and of cartridges.                          *)
(***************************************************************************)
EXTENDS Bus, MemoryMapProofs

\* Reads and writes in any order keep every member in the range of its type and store
\* nothing past the end of an array, and what a read returned was a byte.  A read of the
\* cartridge at an index that reaches nothing does not return: it is the fault "crashed".
THEOREM BusTypeCorrect == Spec => []TypeOK
<1>1. Init => TypeOK
  BY LoadedType, ResetCpuType, CartridgesAssumption DEF Init, TypeOK
<1>2. TypeOK /\ [Next]_vars => TypeOK'
  <2> SUFFICES ASSUME TypeOK, [Next]_vars
               PROVE  TypeOK'
    OBVIOUS
  <2>1. ASSUME NEW addr \in Addresses, Read(addr)
        PROVE  TypeOK'
    <3>1. addr \in Word /\ StateOK(state)
      BY <2>1, AddressesAssumption DEF TypeOK
    <3>2. /\ get_memory_byte(addr, state).val \in Byte
          /\ StateOK(get_memory_byte(addr, state).st)
      BY <3>1, GetMemoryByteType
    <3>3. StateOK(state')
      BY <2>1, <3>2 DEF Read
    <3>4. \/ call' = <<"read", addr, get_memory_byte(addr, state).val>>
          \/ call' = <<"read", addr>>
      BY <2>1 DEF Read
    <3> QED BY <3>1, <3>2, <3>3, <3>4 DEF TypeOK, Calls
  <2>2. ASSUME NEW addr \in Addresses, NEW v \in Values, Write(addr, v)
        PROVE  TypeOK'
    <3>1. addr \in Word /\ v \in Byte /\ StateOK(state)
      BY <2>2, AddressesAssumption, ValuesAssumption DEF TypeOK
    <3>2. StateOK(state')
      BY <2>2, <3>1, SetMemoryByteType DEF Write
    <3>3. call' = <<"write", addr, v>> \/ call' = <<"write", addr>>
      BY <2>2 DEF Write
    <3> QED BY <3>1, <3>2, <3>3 DEF TypeOK, Calls
  <2>3. CASE Exited
    BY <2>3 DEF Exited, vars, TypeOK
  <2>4. CASE UNCHANGED vars
    BY <2>4 DEF vars, TypeOK
  <2> QED
    BY <2>1, <2>2, <2>3, <2>4 DEF Next
<1> QED
  BY <1>1, <1>2, PTL DEF Spec
-----------------------------------------------------------------------------
(* The flat array *)

\* The areas of the code as ranges.
LEMMA Ranges ==
  ASSUME NEW a \in Word
  PROVE  /\ a \in Int /\ 0 <= a /\ a <= \hFFFF
         /\ a = InterruptEnable <=> a = \hFFFF
         /\ a \in HighRam <=> \hFF80 <= a /\ a <= \hFFFE
         /\ a = DisableBootRom <=> a = \hFF50
         /\ a \in IoPorts <=> \hFF00 <= a /\ a <= \hFF4B
         /\ a \in SpriteTable <=> \hFE00 <= a /\ a <= \hFE9F
         /\ InRam(a) <=> \hC000 <= a /\ a <= \hFDFF
         /\ a \in SwitchableRam <=> \hA000 <= a /\ a <= \hBFFF
         /\ a \in VideoRam <=> \h8000 <= a /\ a <= \h9FFF
         /\ a \in CartridgeRom <=> \h0100 <= a /\ a <= \h7FFF
         /\ a \in BootArea <=> a <= \h00FF
         /\ Unusable(a) <=> (\hFF4C <= a /\ a <= \hFF7F) \/ (\hFEA0 <= a /\ a <= \hFEFF)
<1>1. a \in Int /\ 0 <= a /\ a <= \hFFFF
  BY InWord
<1>2. /\ a = InterruptEnable <=> a = \hFFFF
      /\ a \in HighRam <=> \hFF80 <= a /\ a <= \hFFFE
      /\ a = DisableBootRom <=> a = \hFF50
      /\ a \in IoPorts <=> \hFF00 <= a /\ a <= \hFF4B
  BY <1>1 DEF InterruptEnable, HighRam, DisableBootRom, IoPorts
<1>3. InRam(a) <=> \hC000 <= a /\ a <= \hFDFF
  BY <1>1 DEF InRam, EchoRam, InternalRam
<1>4. /\ a \in SpriteTable <=> \hFE00 <= a /\ a <= \hFE9F
      /\ a \in SwitchableRam <=> \hA000 <= a /\ a <= \hBFFF
      /\ a \in VideoRam <=> \h8000 <= a /\ a <= \h9FFF
  BY <1>1 DEF SpriteTable, SwitchableRam, VideoRam
<1>5. /\ a \in CartridgeRom <=> \h0100 <= a /\ a <= \h7FFF
      /\ a \in BootArea <=> a <= \h00FF
  BY SMTT(20), <1>1 DEF CartridgeRom, BootArea
<1>6. Unusable(a) <=> (\hFF4C <= a /\ a <= \hFF7F) \/ (\hFEA0 <= a /\ a <= \hFEFF)
  BY <1>1 DEF Unusable
<1> QED
  BY <1>1, <1>2, <1>3, <1>4, <1>5, <1>6

\* The sets of the flat array as ranges.
LEMMA FlatRanges ==
  ASSUME NEW a \in Addresses
  PROVE  /\ a \in Ports <=> a \in IoPorts /\ a - \hFF00 \in IoFields
         /\ a \in Cells <=> a \in VideoRam \/ a \in Ports \/ a \in HighRam \/ a = InterruptEnable
         /\ a \in Unwired <=> a \in IoPorts /\ a \notin Ports
         /\ a \in Roms <=> a \in BootArea \/ a \in CartridgeRom
         /\ a \in BootRoms <=> a \in BootArea
         /\ a \in Nowhere <=> /\ a # DisableBootRom
                              /\ \/ a \in SwitchableRam \/ InRam(a) \/ a \in SpriteTable
                                 \/ Unusable(a)
<1>1. a \in Word
  BY AddressesAssumption
<1>2. a \in Int
  BY <1>1, WordIsInt
<1>3. a \in Ports <=> a \in IoPorts /\ a - \hFF00 \in IoFields
  BY <1>1, <1>2, Ranges DEF Ports, IoFields
<1>4. a \in Cells <=> a \in VideoRam \/ a \in Ports \/ a \in HighRam \/ a = InterruptEnable
  <2>1. a \in \h8000..\h9FFF <=> a \in VideoRam
    BY DEF VideoRam
  <2>2. a \in \hFF80..\hFFFF <=> a \in HighRam \/ a = InterruptEnable
    <3>1. a \in \hFF80..\hFFFF <=> \hFF80 <= a /\ a <= \hFFFF
      BY <1>2
    <3>2. a \in HighRam <=> \hFF80 <= a /\ a <= \hFFFE
      BY <1>1, Ranges
    <3>3. a = InterruptEnable <=> a = \hFFFF
      BY DEF InterruptEnable
    <3> QED BY <1>2, <3>1, <3>2, <3>3
  <2> QED BY <2>1, <2>2 DEF Cells
<1>5. a \in Unwired <=> a \in IoPorts /\ a \notin Ports
  BY DEF Unwired, IoPorts
<1>6. /\ a \in Roms <=> a \in BootArea \/ a \in CartridgeRom
      /\ a \in BootRoms <=> a \in BootArea
  <2>1. a \in \h0000..\h7FFF <=> a \in BootArea \/ a \in CartridgeRom
    <3>1. a \in \h0000..\h7FFF <=> 0 <= a /\ a <= \h7FFF
      BY <1>2
    <3>2. /\ a \in CartridgeRom <=> \h0100 <= a /\ a <= \h7FFF
          /\ a \in BootArea <=> a <= \h00FF
          /\ 0 <= a
      BY <1>1, Ranges
    <3> QED BY SMTT(20), <1>2, <3>1, <3>2
  <2>2. a \in \h0000..\h00FF <=> a \in BootArea
    BY DEF BootArea
  <2> QED BY SMTT(20), <2>1, <2>2 DEF Roms, BootRoms
<1>7. a \in Nowhere <=> /\ a # DisableBootRom
                        /\ \/ a \in SwitchableRam \/ InRam(a) \/ a \in SpriteTable
                           \/ Unusable(a)
  <2>1. a \in \hA000..\hFEFF <=> \hA000 <= a /\ a <= \hFEFF
    BY SMTT(20), <1>2
  <2>2. a \in \hFF4C..\hFF7F <=> \hFF4C <= a /\ a <= \hFF7F
    BY <1>2
  <2>3. /\ a \in SpriteTable <=> \hFE00 <= a /\ a <= \hFE9F
        /\ InRam(a) <=> \hC000 <= a /\ a <= \hFDFF
        /\ a \in SwitchableRam <=> \hA000 <= a /\ a <= \hBFFF
        /\ Unusable(a) <=> (\hFF4C <= a /\ a <= \hFF7F) \/ (\hFEA0 <= a /\ a <= \hFEFF)
        /\ a = DisableBootRom <=> a = \hFF50
    BY <1>1, Ranges
  <2>4. a \in Nowhere <=> /\ a # \hFF50
                          /\ \/ \hA000 <= a /\ a <= \hFEFF
                             \/ \hFF4C <= a /\ a <= \hFF7F
    BY SMTT(20), <2>1, <2>2 DEF Nowhere
  <2> QED BY <1>2, <2>3, <2>4
<1> QED
  BY <1>3, <1>4, <1>5, <1>6, <1>7

\* Every address of the caller has one part in the flat array.
LEMMA Parts ==
  ASSUME NEW a \in Addresses
  PROVE  /\ a \in Flat!Address
         /\ a \in Cells \/ a \in Unwired \/ a \in Roms \/ a = \hFF50 \/ a \in Nowhere
         /\ a \in Cells => a \notin Unwired /\ a \notin Roms /\ a # \hFF50 /\ a \notin Nowhere
         /\ a \in Unwired => a \notin Roms /\ a # \hFF50 /\ a \notin Nowhere
         /\ a \in Roms => a # \hFF50 /\ a \notin Nowhere
         /\ a \in Nowhere => a # \hFF50
         /\ a \in BootRoms => a \in Roms
         /\ a \in BootArea <=> a \in BootRoms
         /\ a \in CartridgeRom <=> a \in Roms /\ a \notin BootRoms
<1>1. a \in Word /\ a \in Int
  BY AddressesAssumption, WordIsInt
<1>2. /\ a \in Ports => a \in IoPorts
      /\ a \in Cells <=> a \in VideoRam \/ a \in Ports \/ a \in HighRam \/ a = InterruptEnable
      /\ a \in Unwired <=> a \in IoPorts /\ a \notin Ports
      /\ a \in Roms <=> a \in BootArea \/ a \in CartridgeRom
      /\ a \in BootRoms <=> a \in BootArea
      /\ a \in Nowhere <=> /\ a # DisableBootRom
                           /\ \/ a \in SwitchableRam \/ InRam(a) \/ a \in SpriteTable
                              \/ Unusable(a)
  BY FlatRanges
<1>3. a \in Cells \/ a \in Unwired \/ a \in Roms \/ a = \hFF50 \/ a \in Nowhere
  BY <1>1, <1>2, Ranges
<1>4. a \in Cells => a \notin Unwired /\ a \notin Roms /\ a # \hFF50 /\ a \notin Nowhere
  BY <1>1, <1>2, Ranges
<1>5. a \in Unwired => a \notin Roms /\ a # \hFF50 /\ a \notin Nowhere
  BY <1>1, <1>2, Ranges
<1>6. a \in Roms => a # \hFF50 /\ a \notin Nowhere
  BY <1>1, <1>2, Ranges
<1>7. a \in Nowhere => a # \hFF50
  BY <1>1, <1>2, Ranges
<1>8. a \in BootRoms => a \in Roms
  BY <1>2
<1>9. a \in Flat!Address
  BY <1>3 DEF Flat!Address
<1>10. a \in BootArea => a \notin CartridgeRom
  BY <1>1, Ranges
<1> QED
  BY <1>2, <1>3, <1>4, <1>5, <1>6, <1>7, <1>8, <1>9, <1>10

\* Where the two ROMs hold a byte.
Filled(s) == DOMAIN Contents(s.rom)

\* It is there behind every port without a field, in the whole boot ROM, and in the
\* cartridge as far as it reaches.
LEMMA FilledAddresses ==
  ASSUME NEW s, NEW a \in Addresses
  PROVE  a \in Filled(s) <=> \/ a \in Unwired \/ a \in BootRoms
                             \/ a \in CartridgeRom /\ a - \h0100 \in DOMAIN s.rom
<1>1. a \in Filled(s) <=> \/ a \in Unwired \/ a \in BootRoms
                          \/ a \in Roms /\ a - \h0100 \in DOMAIN s.rom
  BY DEF Filled, Contents
<1> QED
  BY <1>1, Parts

\* Which reads return, and what they return where nothing can be written.
LEMMA ReadAgrees ==
  ASSUME MemorySize = 0, NEW s, StateOK(s), NEW a \in Addresses
  PROVE  /\ ReadStatus(a, s) = "running" <=>
              \/ a \in Cells
              \/ a \in Filled(s) /\ (s.boot_rom_enabled \/ a \notin BootRoms)
         /\ a \in Filled(s) => ByteAt(a, s) = Contents(s.rom)[a]
<1>1. a \in Word /\ a \in Int
  BY AddressesAssumption, WordIsInt
<1>2. InRam(a) => RamIndex(a) >= MemorySize
  BY <1>1, RamIndexNat
<1>3. s.boot_rom_enabled \in BOOLEAN
  BY DEF StateOK
<1>4. ReadStatus(a, s) = "running" <=>
        /\ ~InRam(a) /\ ~Unusable(a) /\ a \notin SpriteTable /\ a \notin SwitchableRam
        /\ s.boot_rom_enabled \/ a \notin BootArea
        /\ a \in CartridgeRom => a - \h0100 \in DOMAIN s.rom
  BY <1>2, <1>3 DEF ReadStatus
<1>5. a = \hFF50 => Unusable(a)
  BY <1>1, Ranges
<1>6. /\ a \in Ports <=> a \in IoPorts /\ a - \hFF00 \in IoFields
      /\ a \in Cells <=> a \in VideoRam \/ a \in Ports \/ a \in HighRam \/ a = InterruptEnable
      /\ a \in Unwired <=> a \in IoPorts /\ a \notin Ports
      /\ a \in Roms <=> a \in BootArea \/ a \in CartridgeRom
      /\ a \in BootRoms <=> a \in BootArea
      /\ a \in Nowhere <=> /\ a # DisableBootRom
                           /\ \/ a \in SwitchableRam \/ InRam(a) \/ a \in SpriteTable
                              \/ Unusable(a)
  BY FlatRanges
<1>7. DisableBootRom = \hFF50
  BY DEF DisableBootRom
<1>8. a \in Cells \/ a \in Unwired \/ a \in Roms =>
        /\ ~InRam(a) /\ ~Unusable(a) /\ a \notin SpriteTable /\ a \notin SwitchableRam
  BY <1>6, <1>7, Parts
<1>9. a = \hFF50 \/ a \in Nowhere =>
        InRam(a) \/ Unusable(a) \/ a \in SpriteTable \/ a \in SwitchableRam
  BY <1>5, <1>6
<1>10. a \notin BootRoms \/ a \in Roms
  BY Parts
<1>11. a \in Cells \/ a \in Unwired => a \notin BootRoms
  BY Parts
<1>12. ReadStatus(a, s) = "running" <=>
              \/ a \in Cells
              \/ a \in Filled(s) /\ (s.boot_rom_enabled \/ a \notin BootRoms)
  <2>1. a \in Filled(s) <=> \/ a \in Unwired \/ a \in BootRoms
                            \/ a \in CartridgeRom /\ a - \h0100 \in DOMAIN s.rom
    BY FilledAddresses
  <2>2. /\ a \in BootArea <=> a \in BootRoms
        /\ a \in CartridgeRom <=> a \in Roms /\ a \notin BootRoms
        /\ a \in Cells \/ a \in Unwired \/ a \in Roms \/ a = \hFF50 \/ a \in Nowhere
        /\ a \in Cells \/ a \in Unwired => a \notin Roms
    BY Parts
  <2> QED BY <1>4, <1>8, <1>9, <1>10, <2>1, <2>2
<1>13. ASSUME a \in Unwired
       PROVE  ByteAt(a, s) = Contents(s.rom)[a]
  <2>1. a \in IoPorts /\ a - \hFF00 \notin IoFields
    BY <1>6, <1>13
  <2>2. ByteAt(a, s) = 0
    BY <1>1, <2>1, Disjoint DEF ByteAt, IoGet
  <2>3. Contents(s.rom)[a] = 0
    BY <1>11, <1>13 DEF Contents
  <2> QED BY <2>2, <2>3, Zenon
<1>14. ASSUME a \in Roms, a \in Filled(s)
       PROVE  ByteAt(a, s) = Contents(s.rom)[a]
  <2>1. a \notin Unwired
    BY <1>14, Parts
  <2>2. Contents(s.rom)[a] = IF a \in BootRoms THEN BootRom[a] ELSE s.rom[a - \h0100]
    BY <1>14, <2>1 DEF Contents, Filled
  <2>3. /\ a # InterruptEnable /\ a \notin HighRam /\ a \notin IoPorts /\ ~InRam(a)
        /\ a \notin VideoRam
    BY <1>1, <1>6, <1>14, Disjoint
  <2>4. a \in BootArea => a \notin CartridgeRom
    BY <1>1, Ranges
  <2>5. CASE a \in BootArea
    <3>1. ByteAt(a, s) = BootRom[a]
      BY <2>3, <2>4, <2>5 DEF ByteAt
    <3> QED BY <1>6, <2>2, <2>5, <3>1
  <2>6. CASE a \notin BootArea
    <3>1. a \in CartridgeRom
      BY <1>6, <1>14, <2>6
    <3>2. ByteAt(a, s) = At(s.rom, a - \h0100)
      BY <2>3, <2>6, <3>1 DEF ByteAt
    <3>3. a - \h0100 \in DOMAIN s.rom
      BY <1>6, <1>14, <2>1, <2>6, FilledAddresses
    <3>4. ByteAt(a, s) = s.rom[a - \h0100]
      BY <3>2, <3>3 DEF At
    <3>5. a \notin BootRoms
      BY <1>6, <2>6
    <3> QED BY <2>2, <3>4, <3>5
  <2> QED BY <2>5, <2>6
<1>15. a \in Filled(s) => a \in Unwired \/ a \in Roms
  BY FilledAddresses, Parts
<1> QED
  BY <1>12, <1>13, <1>14, <1>15

\* What a write does to the cells, the switch and the status.
LEMMA WriteAgrees ==
  ASSUME MemorySize = 0, NEW s, StateOK(s), s.status = "running",
         NEW a \in Addresses, NEW v \in Byte, NEW t, t = set_memory_byte(a, v, s)
  PROVE  /\ t.rom = s.rom
         /\ a # \hFF50 => t.boot_rom_enabled = s.boot_rom_enabled
         /\ a = \hFF50 => ~t.boot_rom_enabled
         /\ t.status = "running" <=> a \in Cells \/ a \in Unwired \/ a = \hFF50
         /\ a \in Cells => \A c \in Cells : ByteAt(c, t) = IF c = a THEN v ELSE ByteAt(c, s)
         /\ a \notin Cells => \A c \in Cells : ByteAt(c, t) = ByteAt(c, s)
<1>1. a \in Word /\ a \in Int
  BY AddressesAssumption, WordIsInt
<1>2. DisableBootRom = \hFF50
  BY DEF DisableBootRom
<1>3. /\ a \in Ports <=> a \in IoPorts /\ a - \hFF00 \in IoFields
      /\ a \in Cells <=> a \in VideoRam \/ a \in Ports \/ a \in HighRam \/ a = InterruptEnable
      /\ a \in Unwired <=> a \in IoPorts /\ a \notin Ports
  BY FlatRanges
<1> DEFINE Arms == {[s EXCEPT !.interrupt_enabled = v],
                    [s EXCEPT !.internal_memory = Store(s.internal_memory, a - \hFF80, v)],
                    [s EXCEPT !.io = IoSet(s.io, a - \hFF00, v)],
                    [s EXCEPT !.video = Store(s.video, a - \h8000, v)]}
<1>4. \A u \in Arms : /\ u.rom = s.rom /\ u.boot_rom_enabled = s.boot_rom_enabled
                      /\ u.status = "running"
  BY DEF StateOK
<1>5. CASE a \in Cells \/ a \in Unwired
  <2>1. a \in VideoRam \/ a \in IoPorts \/ a \in HighRam \/ a = InterruptEnable
    BY <1>3, <1>5
  <2>2. t \in Arms
    BY <1>1, <2>1, Disjoint DEF set_memory_byte, Then
  <2>3. t.rom = s.rom /\ t.boot_rom_enabled = s.boot_rom_enabled /\ t.status = "running"
    <3> HIDE DEF Arms
    <3> QED BY <1>4, <2>2
  <2>4. a # \hFF50
    BY <1>5, Parts
  <2>5. \A c \in Cells : ByteAt(c, t) = IF Held(a) /\ SameCell(a, c) THEN v ELSE ByteAt(c, s)
    <3>1. \A c \in Cells : c \in Word
      BY AddressesAssumption DEF Cells
    <3> QED BY ZenonT(60), <1>1, <2>3, <3>1, WriteThenRead
  <2>6. Held(a) <=> a \in Cells
    <3>1. ~InRam(a)
      BY <1>1, <2>1, Disjoint
    <3> QED BY <1>3, <3>1 DEF Held
  <2>7. \A c : SameCell(a, c) <=> a = c
    BY <1>1, <2>1, Disjoint DEF SameCell
  <2> QED BY <1>5, <2>3, <2>4, <2>5, <2>6, <2>7
<1>6. CASE a = \hFF50
  <2>1. t = [s EXCEPT !.boot_rom_enabled = FALSE]
    BY <1>1, <1>2, <1>6, Disjoint DEF set_memory_byte, Then
  <2>2. /\ t.rom = s.rom /\ t.boot_rom_enabled = FALSE /\ t.status = "running"
        /\ t.interrupt_enabled = s.interrupt_enabled /\ t.internal_memory = s.internal_memory
        /\ t.io = s.io /\ t.memory = s.memory /\ t.video = s.video
    BY <2>1 DEF StateOK
  <2>3. \A c \in Cells : ByteAt(c, t) = ByteAt(c, s)
    BY <2>2, ByteAtMembers
  <2>4. a \notin Cells /\ a \notin Unwired
    BY <1>6, Parts
  <2> QED BY <1>6, <2>2, <2>3, <2>4
<1>7. CASE ~(\/ a \in Cells \/ a \in Unwired \/ a = \hFF50)
  <2>1. a \notin Cells /\ a \notin Unwired /\ a # \hFF50
    BY <1>7
  <2>2. /\ a # InterruptEnable /\ a \notin HighRam /\ a # DisableBootRom /\ a \notin IoPorts
        /\ a \notin VideoRam
    BY <1>2, <1>3, <2>1
  <2>3. InRam(a) => RamSet(s, RamIndex(a), v) = crash(s)
    BY <1>1, RamIndexNat DEF RamSet
  <2>4. t \in {panic(s), crash(s)}
    BY <2>2, <2>3 DEF set_memory_byte, Then
  <2>5. \A u \in {panic(s), crash(s)} :
           /\ u.rom = s.rom /\ u.boot_rom_enabled = s.boot_rom_enabled
           /\ u.status # "running"
           /\ u.interrupt_enabled = s.interrupt_enabled
           /\ u.internal_memory = s.internal_memory
           /\ u.io = s.io /\ u.memory = s.memory /\ u.video = s.video
    BY DEF panic, crash, StateOK
  <2>6. \A c \in Cells : ByteAt(c, t) = ByteAt(c, s)
    BY <2>4, <2>5, ByteAtMembers
  <2> QED BY <2>1, <2>4, <2>5, <2>6
<1> QED
  BY <1>5, <1>6, <1>7

\* A read only sets the status: the array, the switch and the ROM stay.
LEMMA ReadKeepsBytes ==
  ASSUME NEW s, StateOK(s), s.status = "running", NEW addr, NEW t,
         t = get_memory_byte(addr, s).st
  PROVE  /\ t.rom = s.rom /\ t.boot_rom_enabled = s.boot_rom_enabled
         /\ t.status = ReadStatus(addr, s)
         /\ \A c : ByteAt(c, t) = ByteAt(c, s)
<1>1. t = [s EXCEPT !.status = ReadStatus(addr, s)]
  BY DEF get_memory_byte, Then
<1>2. /\ t.rom = s.rom /\ t.boot_rom_enabled = s.boot_rom_enabled
      /\ t.status = ReadStatus(addr, s)
      /\ t.interrupt_enabled = s.interrupt_enabled /\ t.internal_memory = s.internal_memory
      /\ t.io = s.io /\ t.memory = s.memory /\ t.video = s.video
  BY <1>1 DEF StateOK
<1>3. \A c : ByteAt(c, t) = ByteAt(c, s)
  BY <1>2, ByteAtMembers
<1> QED
  BY <1>2, <1>3

\* With the memory the code gives the machine, where the internal RAM has no byte, every
\* call of get_memory_byte and set_memory_byte is a step of the flat array: for any set of
\* addresses, of bytes and of cartridges, no two addresses share a cell, a read returns the
\* byte last written, the boot ROM never comes back, and the machine stops exactly at an
\* access with nothing behind it.
THEOREM BusIsFlat ==
  ASSUME MemorySize = 0
  PROVE  Spec => FlatMemorySpec
<1>1. Init => Flat!Init
  <2> SUFFICES ASSUME Init PROVE Flat!Init
    OBVIOUS
  <2>1. PICK rom \in Cartridges : state = Loaded(rom, ResetCpu)
    BY DEF Init
  <2>2. state.boot_rom_enabled = TRUE /\ state.status = "running"
    BY <2>1 DEF Loaded
  <2>3. call = <<>>
    BY DEF Init
  <2>4. BootRoms \subseteq Roms
    BY DEF BootRoms, Roms
  <2>5. /\ Unwired \cup BootRoms \subseteq DOMAIN Contents(state.rom)
        /\ DOMAIN Contents(state.rom) \subseteq Unwired \cup Roms
    BY <2>4 DEF Contents
  <2> QED BY <2>2, <2>3, <2>5 DEF Flat!Init, Running
<1>2. TypeOK /\ [Next]_vars => [Flat!Next]_(Flat!vars)
  <2> SUFFICES ASSUME TypeOK, [Next]_vars
               PROVE  [Flat!Next]_(Flat!vars)
    OBVIOUS
  <2>1. StateOK(state)
    BY DEF TypeOK
  <2>2. ASSUME NEW addr \in Addresses, Read(addr)
        PROVE  Flat!Next
    <3>1. Running /\ state' = get_memory_byte(addr, state).st
      BY <2>2 DEF Read
    <3>2. /\ state'.rom = state.rom /\ state'.boot_rom_enabled = state.boot_rom_enabled
          /\ state'.status = ReadStatus(addr, state)
          /\ \A c : ByteAt(c, state') = ByteAt(c, state)
      BY <2>1, <3>1, ReadKeepsBytes DEF Running
    <3>3. [a \in Cells |-> ByteAt(a, state')] = [a \in Cells |-> ByteAt(a, state)]
      BY <3>2
    <3>4. addr \in Flat!Address
      BY Parts
    <3>5. CASE state'.status = "running"
      <4>1. call' = <<"read", addr, ByteAt(addr, state)>>
        BY <2>2, <3>1, <3>5 DEF Read, get_memory_byte
      <4>2. Flat!Readable(addr)
        BY <2>1, <3>2, <3>5, ReadAgrees DEF Flat!Readable, Filled
      <4>3. Flat!Content(addr) = ByteAt(addr, state)
        <5>1. CASE addr \in Cells
          BY <5>1 DEF Flat!Content
        <5>2. CASE addr \notin Cells
          <6>1. addr \in Filled(state)
            BY <2>1, <3>2, <3>5, <5>2, ReadAgrees
          <6>2. ByteAt(addr, state) = Contents(state.rom)[addr]
            BY <2>1, <6>1, ReadAgrees
          <6> QED BY <5>2, <6>2 DEF Flat!Content
        <5> QED BY <5>1, <5>2
      <4>4. Flat!Read(addr)
        BY <3>1, <3>2, <3>3, <3>5, <4>1, <4>2, <4>3 DEF Flat!Read, Running
      <4> QED BY <3>1, <3>4, <4>4 DEF Flat!Next
    <3>6. CASE state'.status # "running"
      <4>1. call' = <<"read", addr>>
        BY <2>2, <3>1, <3>6 DEF Read
      <4>2. ~Flat!Readable(addr)
        BY <2>1, <3>2, <3>6, ReadAgrees DEF Flat!Readable, Filled
      <4>3. Flat!Stop(addr)
        BY <3>2, <3>3, <3>6, <4>1, <4>2 DEF Flat!Stop, Running
      <4> QED BY <3>1, <3>4, <4>3 DEF Flat!Next
    <3> QED BY <3>5, <3>6
  <2>3. ASSUME NEW addr \in Addresses, NEW v \in Values, Write(addr, v)
        PROVE  Flat!Next
    <3>1. Running /\ state' = set_memory_byte(addr, v, state)
      BY <2>3 DEF Write
    <3>2. v \in Byte
      BY ValuesAssumption
    <3>3. /\ state'.rom = state.rom
          /\ addr # \hFF50 => state'.boot_rom_enabled = state.boot_rom_enabled
          /\ addr = \hFF50 => ~state'.boot_rom_enabled
          /\ state'.status = "running" <=> addr \in Cells \/ addr \in Unwired \/ addr = \hFF50
          /\ addr \in Cells =>
               \A c \in Cells : ByteAt(c, state') = IF c = addr THEN v ELSE ByteAt(c, state)
          /\ addr \notin Cells => \A c \in Cells : ByteAt(c, state') = ByteAt(c, state)
      BY <2>1, <3>1, <3>2, WriteAgrees DEF Running
    <3>4. addr \in Flat!Address
      BY Parts
    <3>5. CASE addr \in Cells
      <4>1. call' = <<"write", addr, v>> /\ addr # \hFF50
        BY <2>3, <3>3, <3>5, Parts DEF Write
      <4>2. [a \in Cells |-> ByteAt(a, state')] =
              [[a \in Cells |-> ByteAt(a, state)] EXCEPT ![addr] = v]
        <5>1. \A c \in Cells : ByteAt(c, state') = IF c = addr THEN v ELSE ByteAt(c, state)
          BY <3>3, <3>5
        <5>2. [a \in Cells |-> ByteAt(a, state')] =
                [a \in Cells |-> IF a = addr THEN v ELSE ByteAt(a, state)]
          BY <5>1
        <5>3. [a \in Cells |-> IF a = addr THEN v ELSE ByteAt(a, state)] =
                [[a \in Cells |-> ByteAt(a, state)] EXCEPT ![addr] = v]
          OBVIOUS
        <5> QED BY <5>2, <5>3
      <4>3. Flat!Write(addr, v)
        BY <3>1, <3>3, <3>5, <4>1, <4>2 DEF Flat!Write, Running
      <4> QED BY <3>1, <3>4, <4>3 DEF Flat!Next
    <3>6. CASE addr \in Unwired
      <4>1. call' = <<"write", addr, v>> /\ addr # \hFF50 /\ addr \notin Cells
        BY <2>3, <3>3, <3>6, Parts DEF Write
      <4>2. [a \in Cells |-> ByteAt(a, state')] = [a \in Cells |-> ByteAt(a, state)]
        BY <3>3, <4>1
      <4>3. Flat!Ignore(addr, v)
        BY <3>1, <3>3, <3>6, <4>1, <4>2 DEF Flat!Ignore, Running
      <4> QED BY <3>1, <3>4, <4>3 DEF Flat!Next
    <3>7. CASE addr = \hFF50
      <4>1. call' = <<"write", \hFF50, v>> /\ addr \notin Cells
        BY <2>3, <3>3, <3>7, Parts DEF Write
      <4>2. [a \in Cells |-> ByteAt(a, state')] = [a \in Cells |-> ByteAt(a, state)]
        BY <3>3, <4>1
      <4>3. state'.boot_rom_enabled = FALSE
        <5>1. StateOK(state')
          BY <2>1, <3>1, <3>2, SetMemoryByteType, AddressesAssumption
        <5>2. state'.boot_rom_enabled \in BOOLEAN
          BY <5>1 DEF StateOK
        <5>3. ~state'.boot_rom_enabled
          BY <3>3, <3>7
        <5> QED BY <5>2, <5>3
      <4>4. Flat!SwitchOff(v)
        BY <3>1, <3>3, <3>7, <4>1, <4>2, <4>3 DEF Flat!SwitchOff, Running
      <4> QED BY <3>1, <4>4 DEF Flat!Next
    <3>8. CASE ~(addr \in Cells \/ addr \in Unwired \/ addr = \hFF50)
      <4>1. call' = <<"write", addr>>
        BY <2>3, <3>3, <3>8 DEF Write
      <4>2. [a \in Cells |-> ByteAt(a, state')] = [a \in Cells |-> ByteAt(a, state)]
        BY <3>3, <3>8
      <4>3. addr \in Roms \/ addr \in Nowhere
        BY <3>8, Parts
      <4>4. Flat!Stop(addr)
        BY <3>3, <3>8, <4>1, <4>2, <4>3 DEF Flat!Stop, Running
      <4> QED BY <3>1, <3>4, <4>4 DEF Flat!Next
    <3> QED BY <3>5, <3>6, <3>7, <3>8
  <2>4. CASE Exited \/ UNCHANGED vars
    <3>1. state' = state /\ call' = call
      BY <2>4 DEF Exited, vars
    <3> QED BY <3>1 DEF Flat!vars, Running
  <2> QED
    BY <2>2, <2>3, <2>4 DEF Next
<1> QED
  BY <1>1, <1>2, BusTypeCorrect, PTL DEF Spec, FlatMemorySpec, Flat!Spec
=============================================================================
