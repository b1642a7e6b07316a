--------------------------- MODULE MemoryMapProofs --------------------------
(***************************************************************************)
(* Facts about the arrays and the memory interface, for every boot image,  *)
(* every size of the internal RAM and every modulus of the cycle counter.  *)
(***************************************************************************)
EXTENDS MemoryMap, TLAPS

\* What membership in the two widths means.
LEMMA InByte ==
  ASSUME NEW n
  PROVE  n \in Byte <=> n \in Int /\ 0 <= n /\ n < \h100
<1>1. MaxByte \in Int
  BY DEF MaxByte
<1>2. n \in Byte <=> n \in Int /\ 0 <= n /\ n <= MaxByte
  BY <1>1 DEF Byte
<1>3. MaxByte = \h100 - 1
  BY DEF MaxByte
<1> QED
  BY <1>2, <1>3

\* The same for words.
LEMMA InWord ==
  ASSUME NEW n
  PROVE  n \in Word <=> n \in Int /\ 0 <= n /\ n < \h10000
<1>1. MaxWord \in Int
  BY DEF MaxWord
<1>2. n \in Word <=> n \in Int /\ 0 <= n /\ n <= MaxWord
  BY <1>1 DEF Word
<1>3. MaxWord = \h10000 - 1
  BY DEF MaxWord
<1> QED
  BY <1>2, <1>3

\* The constants the code stores are bytes.
LEMMA ByteLiterals ==
  /\ 0 \in Byte /\ \h5B \in Byte /\ \h90 \in Byte /\ \hF1 \in Byte /\ \hFF \in Byte
BY InByte

\* The conversions to 8 and 16 bits stay in their range and keep what fits.
LEMMA Conversions ==
  ASSUME NEW n \in Int
  PROVE  /\ uint8(n) \in Byte /\ uint16(n) \in Word
         /\ n \in Word => uint16(n) = n
<1>1. uint8(n) \in Int /\ 0 <= uint8(n) /\ uint8(n) < \h100
  BY DEF uint8
<1>2. uint16(n) \in Int /\ 0 <= uint16(n) /\ uint16(n) < \h10000
  BY DEF uint16
<1>3. 0 <= n /\ n < \h10000 => uint16(n) = n
  BY DEF uint16
<1> QED
  BY <1>1, <1>2, <1>3, InByte, InWord

\* A word is an integer.
LEMMA WordIsInt ==
  ASSUME NEW w \in Word
  PROVE  w \in Int
BY InWord

\* A word and its two bytes.
LEMMA WordBytes ==
  ASSUME NEW w \in Word
  PROVE  Lo(w) \in Byte /\ Hi(w) \in Byte /\ Join(Hi(w), Lo(w)) = w
<1>1. w \in Int /\ 0 <= w /\ w < \h10000
  BY InWord
<1>2. Lo(w) \in Int /\ 0 <= Lo(w) /\ Lo(w) < \h100
  BY <1>1 DEF Lo
<1>3. Hi(w) \in Int /\ 0 <= Hi(w) /\ Hi(w) < \h100
  BY <1>1 DEF Hi
<1>4. Join(Hi(w), Lo(w)) = w
  BY <1>1 DEF Join, Hi, Lo
<1> QED
  BY <1>2, <1>3, <1>4, InByte

\* Two bytes join to a word.
LEMMA JoinBytes ==
  ASSUME NEW hi \in Byte, NEW lo \in Byte
  PROVE  Join(hi, lo) \in Word
<1>1. /\ hi \in Int /\ 0 <= hi /\ hi < \h100
      /\ lo \in Int /\ 0 <= lo /\ lo < \h100
  BY InByte
<1>2. Join(hi, lo) \in Int /\ 0 <= Join(hi, lo) /\ Join(hi, lo) < \h10000
  BY <1>1 DEF Join
<1> QED
  BY <1>2, InWord

\* An array holds bytes, those it has no value for being 0.
LEMMA AtByte ==
  ASSUME NEW array, NEW size, IsArray(array, size), NEW i
  PROVE  At(array, i) \in Byte
BY ByteLiterals DEF At, IsArray

\* Storing a byte within the bounds of an array gives an array.
LEMMA StoreIsArray ==
  ASSUME NEW array, NEW size \in Nat, IsArray(array, size),
         NEW i \in 0..(size - 1), NEW b \in Byte
  PROVE  IsArray(Store(array, i, b), size)
BY DEF Store, IsArray

\* Reading after a store: the stored byte at its index, the old one elsewhere.
LEMMA StoreThenAt ==
  ASSUME NEW array, NEW i, NEW b \in Byte, NEW j
  PROVE  At(Store(array, i, b), j) = IF j = i THEN b ELSE At(array, j)
BY DEF Store, At

\* The empty array is an array of any size.
LEMMA ZerosIsArray ==
  ASSUME NEW size \in Nat
  PROVE  IsArray(Zeros, size)
BY DEF Zeros, IsArray

-----------------------------------------------------------------------------

\* Whatever the address, the byte read is a byte.
LEMMA ByteAtByte ==
  ASSUME NEW s, StateOK(s), NEW addr \in Word
  PROVE  ByteAt(addr, s) \in Byte
<1>1. At(s.internal_memory, addr - \hFF80) \in Byte
  BY AtByte DEF StateOK
<1>2. At(s.memory, RamIndex(addr)) \in Byte
  BY AtByte DEF StateOK
<1>3. At(s.video, addr - \h8000) \in Byte
  BY AtByte DEF StateOK
<1>4. At(s.rom, addr - \h0100) \in Byte
  BY AtByte DEF StateOK
<1>5. IoGet(s.io, addr - \hFF00) \in Byte
  BY ByteLiterals DEF IoGet, StateOK
<1>6. addr \in BootArea => BootRom[addr] \in Byte
  BY BootRomAssumption DEF BootArea
<1>7. s.interrupt_enabled \in Byte /\ 0 \in Byte
  BY ByteLiterals DEF StateOK
<1> QED
  BY <1>1, <1>2, <1>3, <1>4, <1>5, <1>6, <1>7 DEF ByteAt

\* A read ends the process in one of the two known ways or not at all.
LEMMA ReadStatusType ==
  ASSUME NEW s, NEW addr
  PROVE  ReadStatus(addr, s) \in Statuses
BY DEF ReadStatus, Statuses

\* A read returns a byte and changes the status at most.
LEMMA GetMemoryByteType ==
  ASSUME NEW s, StateOK(s), NEW addr \in Word
  PROVE  /\ get_memory_byte(addr, s).val \in Byte
         /\ StateOK(get_memory_byte(addr, s).st)
<1>1. get_memory_byte(addr, s).val \in Byte
  BY ByteAtByte DEF get_memory_byte
<1>2. StateOK([s EXCEPT !.status = ReadStatus(addr, s)])
  BY ReadStatusType DEF StateOK
<1> QED
  BY <1>1, <1>2 DEF get_memory_byte, Then

\* panic() and a fault keep every other member.
LEMMA PanicType ==
  ASSUME NEW s, StateOK(s)
  PROVE  StateOK(panic(s)) /\ StateOK(crash(s))
BY DEF StateOK, panic, crash, Statuses

\* The index of the echo and of the internal RAM counts from 0.
LEMMA RamIndexNat ==
  ASSUME NEW addr \in Word
  PROVE  RamIndex(addr) \in Int /\ (InRam(addr) => RamIndex(addr) \in Nat)
<1>1. addr \in EchoRam => RamIndex(addr) \in Nat
  BY DEF RamIndex, EchoRam
<1>2. addr \notin EchoRam /\ addr \in InternalRam => RamIndex(addr) \in Nat
  BY DEF RamIndex, InternalRam
<1>3. RamIndex(addr) \in Int
  <2>1. addr \in Int
    BY WordIsInt
  <2> QED BY <2>1 DEF RamIndex
<1> QED
  BY <1>1, <1>2, <1>3 DEF InRam

\* A write stores nothing past the end of an array: an index past the end of the RAM
\* ends the process instead of being stored.
LEMMA SetMemoryByteType ==
  ASSUME NEW s, StateOK(s), NEW addr \in Word, NEW v \in Byte
  PROVE  StateOK(set_memory_byte(addr, v, s))
<1>1. addr \in HighRam =>
        StateOK([s EXCEPT !.internal_memory = Store(s.internal_memory, addr - \hFF80, v)])
  <2>1. IsArray(s.internal_memory, InternalSize) /\ InternalSize \in Nat
    BY DEF StateOK, InternalSize
  <2>2. addr \in HighRam => addr - \hFF80 \in 0..(InternalSize - 1)
    BY DEF HighRam, InternalSize
  <2>3. addr \in HighRam => IsArray(Store(s.internal_memory, addr - \hFF80, v), InternalSize)
    BY <2>1, <2>2, StoreIsArray
  <2> QED BY <2>3 DEF StateOK, IsArray
<1>2. addr \in VideoRam => StateOK([s EXCEPT !.video = Store(s.video, addr - \h8000, v)])
  <2>1. IsArray(s.video, VideoSize) /\ VideoSize \in Nat
    BY DEF StateOK, VideoSize
  <2>2. addr \in VideoRam => addr - \h8000 \in 0..(VideoSize - 1)
    BY DEF VideoRam, VideoSize
  <2>3. addr \in VideoRam => IsArray(Store(s.video, addr - \h8000, v), VideoSize)
    BY <2>1, <2>2, StoreIsArray
  <2> QED BY <2>3 DEF StateOK, IsArray
<1>3. InRam(addr) => StateOK(RamSet(s, RamIndex(addr), v))
  <2> SUFFICES ASSUME InRam(addr) PROVE StateOK(RamSet(s, RamIndex(addr), v))
    OBVIOUS
  <2>1. RamIndex(addr) \in Nat
    BY RamIndexNat
  <2>2. CASE RamIndex(addr) < MemorySize
    <3>1. IsArray(s.memory, MemorySize)
      BY DEF StateOK
    <3>2. RamIndex(addr) \in 0..(MemorySize - 1)
      BY <2>1, <2>2, MemorySizeAssumption
    <3>3. IsArray(Store(s.memory, RamIndex(addr), v), MemorySize)
      BY <3>1, <3>2, StoreIsArray, MemorySizeAssumption
    <3> QED BY <2>2, <3>3 DEF StateOK, IsArray, RamSet
  <2>3. CASE ~(RamIndex(addr) < MemorySize)
    BY <2>3, PanicType DEF RamSet
  <2> QED BY <2>2, <2>3
<1>4. StateOK([s EXCEPT !.io = IoSet(s.io, addr - \hFF00, v)])
  <2>1. IoSet(s.io, addr - \hFF00, v) \in [IoFields -> Byte]
    BY DEF IoSet, StateOK
  <2> QED BY <2>1 DEF StateOK
<1>5. StateOK([s EXCEPT !.interrupt_enabled = v])
  BY DEF StateOK
<1>6. StateOK([s EXCEPT !.boot_rom_enabled = FALSE])
  BY DEF StateOK
<1> QED
  BY <1>1, <1>2, <1>3, <1>4, <1>5, <1>6, PanicType DEF set_memory_byte, Then

\* The registers after State() are registers.
LEMMA ResetCpuType == ResetCpu \in CpuType
BY ByteLiterals, InWord DEF ResetCpu, CpuType

\* The object of a new machine.
LEMMA LoadedType ==
  ASSUME NEW rom, IsArray(rom, RomSize), NEW c \in CpuType
  PROVE  StateOK(Loaded(rom, c))
<1> DEFINE s == Loaded(rom, c)
<1>1. /\ c.reg \in [Reg8 -> Byte] /\ c.sp \in Word /\ c.pc \in Word
      /\ c.flags \in SUBSET FlagNames
  BY DEF CpuType
<1>2. ResetIo \in [IoFields -> Byte]
  BY ByteLiterals DEF ResetIo
<1>3. 0 \in Byte /\ 0 \in 0..(CycleMod - 1)
  BY CycleModAssumption, ByteLiterals
<1>4. /\ IsArray(Zeros, MemorySize) /\ IsArray(Zeros, VideoSize)
      /\ IsArray(Zeros, InternalSize)
  BY ZerosIsArray, MemorySizeAssumption DEF VideoSize, InternalSize
<1>5. rom \in [DOMAIN rom -> Byte] /\ Zeros \in [DOMAIN Zeros -> Byte]
  BY DEF IsArray, Zeros
<1>6. TRUE \in BOOLEAN /\ "running" \in Statuses
  BY DEF Statuses
<1> QED
  BY <1>1, <1>2, <1>3, <1>4, <1>5, <1>6 DEF StateOK, Loaded

-----------------------------------------------------------------------------
(* What a write changes *)

\* Addresses that keep what is written to them.
Held(addr) ==
  \/ addr = InterruptEnable
  \/ addr \in HighRam
  \/ addr \in IoPorts /\ addr - \hFF00 \in IoFields
  \/ InRam(addr) /\ RamIndex(addr) < MemorySize
  \/ addr \in VideoRam

\* Two addresses of one byte: E000..FDFF repeats C000..DDFF.
SameCell(a, b) == a = b \/ (InRam(a) /\ InRam(b) /\ RamIndex(a) = RamIndex(b))

\* The areas in address order.
LEMMA Bounds ==
  ASSUME NEW a \in Word
  PROVE  /\ a \in BootArea \/ a \in CartridgeRom => a < \h8000
         /\ a \in VideoRam => \h8000 <= a /\ a < \hA000
         /\ InRam(a) => \hC000 <= a /\ a < \hFE00
         /\ a \in IoPorts => \hFF00 <= a /\ a < \hFF50
         /\ a = DisableBootRom => \hFF50 <= a /\ a < \hFF80
         /\ a \in HighRam => \hFF80 <= a /\ a < \hFFFF
         /\ a = InterruptEnable => \hFFFF <= a
<1>1. a \in BootArea \/ a \in CartridgeRom => a < \h8000
  <2>1. a \in BootArea => a < \h8000
    BY DEF BootArea
  <2>2. a \in CartridgeRom => a < \h8000
    BY DEF CartridgeRom
  <2> QED BY <2>1, <2>2
<1>2. a \in VideoRam => \h8000 <= a /\ a < \hA000
  BY DEF VideoRam
<1>3. InRam(a) => \hC000 <= a /\ a < \hFE00
  <2>1. a \in EchoRam => \hC000 <= a /\ a < \hFE00
    BY DEF EchoRam
  <2>2. a \in InternalRam => \hC000 <= a /\ a < \hFE00
    BY DEF InternalRam
  <2> QED BY <2>1, <2>2 DEF InRam
<1>4. a \in IoPorts => \hFF00 <= a /\ a < \hFF50
  BY DEF IoPorts
<1>5. a = DisableBootRom => \hFF50 <= a /\ a < \hFF80
  BY DEF DisableBootRom
<1>6. a \in HighRam => \hFF80 <= a /\ a < \hFFFF
  BY DEF HighRam
<1>7. a = InterruptEnable => \hFFFF <= a
  BY DEF InterruptEnable
<1> QED
  BY <1>1, <1>2, <1>3, <1>4, <1>5, <1>6, <1>7

\* No address is in two areas.
LEMMA Disjoint ==
  ASSUME NEW a \in Word
  PROVE  /\ a = InterruptEnable => /\ a \notin HighRam /\ a # DisableBootRom /\ a \notin IoPorts
                                   /\ ~InRam(a) /\ a \notin VideoRam
         /\ a \in HighRam => /\ a # InterruptEnable /\ a # DisableBootRom /\ a \notin IoPorts
                             /\ ~InRam(a) /\ a \notin VideoRam
         /\ a = DisableBootRom => /\ a # InterruptEnable /\ a \notin HighRam /\ a \notin IoPorts
                                  /\ ~InRam(a) /\ a \notin VideoRam
         /\ a \in IoPorts => /\ a # InterruptEnable /\ a \notin HighRam /\ a # DisableBootRom
                             /\ ~InRam(a) /\ a \notin VideoRam
         /\ InRam(a) => /\ a # InterruptEnable /\ a \notin HighRam /\ a # DisableBootRom
                        /\ a \notin IoPorts /\ a \notin VideoRam
         /\ a \in VideoRam => /\ a # InterruptEnable /\ a \notin HighRam /\ a # DisableBootRom
                              /\ a \notin IoPorts /\ ~InRam(a)
         /\ a \in BootArea \/ a \in CartridgeRom =>
              /\ a # InterruptEnable /\ a \notin HighRam /\ a # DisableBootRom
              /\ a \notin IoPorts /\ ~InRam(a) /\ a \notin VideoRam
<1>1. a \in Int
  BY WordIsInt
<1> QED
  BY <1>1, Bounds

\* The byte read depends on these members only.
LEMMA ByteAtMembers ==
  ASSUME NEW addr, NEW s, NEW t,
         t.interrupt_enabled = s.interrupt_enabled, t.rom = s.rom,
         addr \in HighRam => At(t.internal_memory, addr - \hFF80) = At(s.internal_memory, addr - \hFF80),
         addr \in IoPorts => IoGet(t.io, addr - \hFF00) = IoGet(s.io, addr - \hFF00),
         InRam(addr) => At(t.memory, RamIndex(addr)) = At(s.memory, RamIndex(addr)),
         addr \in VideoRam => At(t.video, addr - \h8000) = At(s.video, addr - \h8000)
  PROVE  ByteAt(addr, t) = ByteAt(addr, s)
BY DEF ByteAt

\* A write that returns changes the byte at its own address and at the address that
\* repeats it, and no other byte of the address space: the arrays behind the areas
\* share no element, whatever the size of the internal RAM.
THEOREM WriteThenRead ==
  ASSUME NEW s, StateOK(s), s.status = "running",
         NEW addr \in Word, NEW other \in Word, NEW v \in Byte,
         NEW t, t = set_memory_byte(addr, v, s), t.status = "running"
  PROVE  ByteAt(other, t) =
           IF Held(addr) /\ SameCell(addr, other) THEN v ELSE ByteAt(other, s)
<1>1. CASE addr = InterruptEnable
  <2>1. t = [s EXCEPT !.interrupt_enabled = v]
    BY <1>1, Disjoint DEF set_memory_byte, Then
  <2>2. Held(addr) /\ (SameCell(addr, other) <=> other = addr)
    BY <1>1, Disjoint DEF Held, SameCell
  <2>3. /\ t.interrupt_enabled = v /\ t.rom = s.rom /\ t.io = s.io /\ t.video = s.video
        /\ t.memory = s.memory /\ t.internal_memory = s.internal_memory
    BY <2>1 DEF StateOK
  <2>4. CASE other = addr
    BY <1>1, <2>2, <2>3, <2>4, Disjoint DEF ByteAt
  <2>5. CASE other # addr
    BY <1>1, <2>2, <2>3, <2>5 DEF ByteAt
  <2> QED BY <2>4, <2>5
<1>2. CASE addr \in HighRam
  <2>1. t = [s EXCEPT !.internal_memory = Store(s.internal_memory, addr - \hFF80, v)]
    BY <1>2, Disjoint DEF set_memory_byte, Then
  <2>2. Held(addr) /\ (SameCell(addr, other) <=> other = addr)
    BY <1>2, Disjoint DEF Held, SameCell
  <2>3. /\ t.interrupt_enabled = s.interrupt_enabled /\ t.rom = s.rom /\ t.io = s.io
        /\ t.video = s.video /\ t.memory = s.memory
        /\ t.internal_memory = Store(s.internal_memory, addr - \hFF80, v)
    BY <2>1 DEF StateOK
  <2>4. CASE other = addr
    <3>1. At(t.internal_memory, addr - \hFF80) = v
      BY <2>3, StoreThenAt
    <3> QED BY <1>2, <2>2, <2>4, <3>1, Disjoint DEF ByteAt
  <2>5. CASE other # addr
    <3>1. other - \hFF80 # addr - \hFF80
      BY <2>5, WordIsInt
    <3>2. At(t.internal_memory, other - \hFF80) = At(s.internal_memory, other - \hFF80)
      BY <2>3, <3>1, StoreThenAt
    <3> QED BY <2>2, <2>3, <2>5, <3>2, ByteAtMembers
  <2> QED BY <2>4, <2>5
<1>3. CASE addr = DisableBootRom
  <2>1. t = [s EXCEPT !.boot_rom_enabled = FALSE]
    BY <1>3, Disjoint DEF set_memory_byte, Then
  <2>2. ~Held(addr)
    BY <1>3, Disjoint DEF Held
  <2>3. /\ t.interrupt_enabled = s.interrupt_enabled /\ t.rom = s.rom /\ t.io = s.io
        /\ t.video = s.video /\ t.memory = s.memory /\ t.internal_memory = s.internal_memory
    BY <2>1 DEF StateOK
  <2> QED BY <2>2, <2>3, ByteAtMembers
<1>4. CASE addr \in IoPorts
  <2>1. t = [s EXCEPT !.io = IoSet(s.io, addr - \hFF00, v)]
    BY <1>4, Disjoint DEF set_memory_byte, Then
  <2>2. /\ Held(addr) <=> addr - \hFF00 \in IoFields
        /\ SameCell(addr, other) <=> other = addr
    BY <1>4, Disjoint DEF Held, SameCell
  <2>3. /\ t.interrupt_enabled = s.interrupt_enabled /\ t.rom = s.rom
        /\ t.io = IoSet(s.io, addr - \hFF00, v)
        /\ t.video = s.video /\ t.memory = s.memory /\ t.internal_memory = s.internal_memory
    BY <2>1 DEF StateOK
  <2>4. s.io \in [IoFields -> Byte]
    BY DEF StateOK
  <2>5. CASE other = addr /\ addr - \hFF00 \in IoFields
    <3>1. IoGet(t.io, addr - \hFF00) = v
      BY <2>3, <2>4, <2>5 DEF IoGet, IoSet
    <3> QED BY <1>4, <2>2, <2>5, <3>1, Disjoint DEF ByteAt
  <2>6. CASE addr - \hFF00 \notin IoFields
    <3>1. t.io = s.io
      BY <2>3, <2>6 DEF IoSet
    <3> QED BY <2>2, <2>3, <2>6, <3>1, ByteAtMembers
  <2>7. CASE other # addr /\ addr - \hFF00 \in IoFields
    <3>1. other - \hFF00 # addr - \hFF00
      BY <2>7, WordIsInt
    <3>2. IoGet(t.io, other - \hFF00) = IoGet(s.io, other - \hFF00)
      BY <2>3, <2>4, <2>7, <3>1 DEF IoGet, IoSet
    <3> QED BY <2>2, <2>3, <2>7, <3>2, ByteAtMembers
  <2> QED BY <2>5, <2>6, <2>7
<1>5. CASE InRam(addr)
  <2>1. t = RamSet(s, RamIndex(addr), v)
    BY <1>5, Disjoint DEF set_memory_byte, Then
  <2>2. RamIndex(addr) < MemorySize
    BY <2>1 DEF RamSet, crash, StateOK
  <2>3. t = [s EXCEPT !.memory = Store(s.memory, RamIndex(addr), v)]
    BY <2>1, <2>2 DEF RamSet
  <2>4. /\ Held(addr)
        /\ SameCell(addr, other) <=> InRam(other) /\ RamIndex(other) = RamIndex(addr)
    BY <1>5, <2>2 DEF Held, SameCell
  <2>5. /\ t.interrupt_enabled = s.interrupt_enabled /\ t.rom = s.rom /\ t.io = s.io
        /\ t.video = s.video /\ t.memory = Store(s.memory, RamIndex(addr), v)
        /\ t.internal_memory = s.internal_memory
    BY <2>3 DEF StateOK
  <2>6. CASE SameCell(addr, other)
    <3>1. At(t.memory, RamIndex(other)) = v
      BY <2>4, <2>5, <2>6, StoreThenAt
    <3> QED BY <2>4, <2>6, <3>1, Disjoint DEF ByteAt
  <2>7. CASE ~SameCell(addr, other)
    <3>1. InRam(other) => At(t.memory, RamIndex(other)) = At(s.memory, RamIndex(other))
      BY <2>4, <2>5, <2>7, StoreThenAt
    <3> QED BY <2>5, <2>7, <3>1, ByteAtMembers
  <2> QED BY <2>6, <2>7
<1>6. CASE addr \in VideoRam
  <2>1. t = [s EXCEPT !.video = Store(s.video, addr - \h8000, v)]
    BY <1>6, Disjoint DEF set_memory_byte, Then
  <2>2. Held(addr) /\ (SameCell(addr, other) <=> other = addr)
    BY <1>6, Disjoint DEF Held, SameCell
  <2>3. /\ t.interrupt_enabled = s.interrupt_enabled /\ t.rom = s.rom /\ t.io = s.io
        /\ t.video = Store(s.video, addr - \h8000, v) /\ t.memory = s.memory
        /\ t.internal_memory = s.internal_memory
    BY <2>1 DEF StateOK
  <2>4. CASE other = addr
    <3>1. At(t.video, addr - \h8000) = v
      BY <2>3, StoreThenAt
    <3> QED BY <1>6, <2>2, <2>4, <3>1, Disjoint DEF ByteAt
  <2>5. CASE other # addr
    <3>1. other - \h8000 # addr - \h8000
      BY <2>5, WordIsInt
    <3>2. At(t.video, other - \h8000) = At(s.video, other - \h8000)
      BY <2>3, <3>1, StoreThenAt
    <3> QED BY <2>2, <2>3, <2>5, <3>2, ByteAtMembers
  <2> QED BY <2>4, <2>5
<1>7. CASE ~(\/ addr = InterruptEnable \/ addr \in HighRam \/ addr = DisableBootRom
             \/ addr \in IoPorts \/ InRam(addr) \/ addr \in VideoRam)
  <2>1. t = panic(s)
    BY <1>7 DEF set_memory_byte, Then
  <2>2. panic(s).status # "running"
    BY DEF panic, StateOK
  <2> QED BY <2>1, <2>2
<1> QED
  BY <1>1, <1>2, <1>3, <1>4, <1>5, <1>6, <1>7

\* A write leaves the registers and the cycle counter alone, whichever arm it takes.
LEMMA WriteKeepsCpu ==
  ASSUME NEW s, StateOK(s), NEW addr \in Word, NEW v \in Byte,
         NEW t, t = set_memory_byte(addr, v, s)
  PROVE  /\ t.sp = s.sp /\ t.pc = s.pc /\ t.reg = s.reg /\ t.flags = s.flags
         /\ t.cycles = s.cycles
         /\ t.status = "running" => s.status = "running"
<1> DEFINE Same(u) == /\ u.sp = s.sp /\ u.pc = s.pc /\ u.reg = s.reg /\ u.flags = s.flags
                      /\ u.cycles = s.cycles
<1>1. Same([s EXCEPT !.interrupt_enabled = v])
  BY DEF StateOK
<1>2. Same([s EXCEPT !.internal_memory = Store(s.internal_memory, addr - \hFF80, v)])
  BY DEF StateOK
<1>3. Same([s EXCEPT !.boot_rom_enabled = FALSE])
  BY DEF StateOK
<1>4. Same([s EXCEPT !.io = IoSet(s.io, addr - \hFF00, v)])
  BY DEF StateOK
<1>5. Same(RamSet(s, RamIndex(addr), v))
  BY DEF StateOK, RamSet, crash
<1>6. Same([s EXCEPT !.video = Store(s.video, addr - \h8000, v)])
  BY DEF StateOK
<1>7. Same(panic(s)) /\ Same(s)
  BY DEF StateOK, panic
<1>8. t.status = "running" => s.status = "running"
  BY DEF set_memory_byte, Then
<1>9. Same(t)
  <2> HIDE DEF Same
  <2> QED BY <1>1, <1>2, <1>3, <1>4, <1>5, <1>6, <1>7 DEF set_memory_byte, Then
<1> QED
  BY <1>8, <1>9

\* An address that keeps what is written to it can be read.
LEMMA HeldIsReadable ==
  ASSUME NEW a \in Word, Held(a), NEW s
  PROVE  ReadStatus(a, s) = "running"
<1>1. a \in Int /\ RamIndex(a) \in Int /\ MemorySize \in Int
  BY WordIsInt, MemorySizeAssumption, RamIndexNat
<1>2. a \in SpriteTable \/ a \in SwitchableRam \/ a \in BootArea \/ a \in CartridgeRom
        \/ Unusable(a) =>
        /\ a # InterruptEnable /\ a \notin HighRam /\ a \notin IoPorts /\ a \notin VideoRam
        /\ ~InRam(a)
  <2>1. a \in SpriteTable => \hFE00 <= a /\ a < \hFF00
    BY DEF SpriteTable
  <2>2. a \in SwitchableRam => \hA000 <= a /\ a < \hC000
    BY DEF SwitchableRam
  <2>3. Unusable(a) => (\hFE00 <= a /\ a < \hFF00) \/ (\hFF4C <= a /\ a < \hFF80)
    BY DEF Unusable
  <2>4. a \in IoPorts => a < \hFF4C
    BY DEF IoPorts
  <2> QED BY <1>1, <2>1, <2>2, <2>3, <2>4, Bounds, Disjoint
<1>3. ~(InRam(a) /\ RamIndex(a) >= MemorySize)
  BY <1>1, Disjoint DEF Held
<1>4. /\ ~(Unusable(a) \/ a \in SpriteTable \/ a \in SwitchableRam)
      /\ a \notin BootArea /\ a \notin CartridgeRom
  BY <1>2 DEF Held
<1> QED
  BY <1>3, <1>4 DEF ReadStatus
=============================================================================
