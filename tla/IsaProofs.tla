----------------------------- MODULE IsaProofs ------------------------------
(***************************************************************************)
(* What no instruction does, from any state of the machine: the action     *)
(* properties of Isa for every opcode, operand, register, cartridge and    *)
(* boot image.                                                             *)
(*                                                                         *)
(* Each member function gets one lemma saying which members it moves and   *)
(* which it keeps (Kept, Cpu, Wrote), each group of table rows one saying  *)
(* what its opcodes are, and the steps put the two together.               *)
(***************************************************************************)
EXTENDS Isa, MachineProofs

-----------------------------------------------------------------------------
(* Members that stay *)

\* Memory, ports and the switch of the boot ROM.
Kept(s, t) ==
  /\ t.interrupt_enabled = s.interrupt_enabled /\ t.internal_memory = s.internal_memory
  /\ t.io = s.io /\ t.video = s.video /\ t.memory = s.memory /\ t.rom = s.rom
  /\ t.boot_rom_enabled = s.boot_rom_enabled

\* The registers, pc apart.
Registers(s, t) ==
  t.reg = s.reg /\ t.sp = s.sp /\ t.flags = s.flags /\ t.cycles = s.cycles

\* Nothing but the byte at addr, and the switch if addr is FF50.
Wrote(A, s, t) ==
  /\ Differ(s, t) \subseteq A
  /\ t.boot_rom_enabled # s.boot_rom_enabled => \hFF50 \in A
  /\ t.rom = s.rom /\ t.memory = s.memory

\* Memory that is kept has no byte that differs.
LEMMA KeptWrote ==
  ASSUME NEW s, NEW t, Kept(s, t), NEW A
  PROVE  Wrote(A, s, t)
BY DEF Kept, Wrote, Differ

\* and reads the same everywhere.
LEMMA KeptBytes ==
  ASSUME NEW s, NEW t, Kept(s, t), NEW a
  PROVE  ByteAt(a, t) = ByteAt(a, s)
BY ByteAtMembers DEF Kept

\* What differs after two steps differed after one of them.
LEMMA WroteTwice ==
  ASSUME NEW s, NEW t, NEW u, NEW A, NEW B, Wrote(A, s, t), Wrote(B, t, u)
  PROVE  Wrote(A \cup B, s, u)
<1>1. Differ(s, u) \subseteq Differ(s, t) \cup Differ(t, u)
  <2>1. ASSUME NEW i, i \in DOMAIN s.video \cup DOMAIN u.video,
               At(s.video, i) # At(u.video, i)
        PROVE  \/ i \in DOMAIN s.video \cup DOMAIN t.video /\ At(s.video, i) # At(t.video, i)
               \/ i \in DOMAIN t.video \cup DOMAIN u.video /\ At(t.video, i) # At(u.video, i)
    BY <2>1 DEF At
  <2>2. ASSUME NEW i, i \in DOMAIN s.internal_memory \cup DOMAIN u.internal_memory,
               At(s.internal_memory, i) # At(u.internal_memory, i)
        PROVE  \/ /\ i \in DOMAIN s.internal_memory \cup DOMAIN t.internal_memory
                  /\ At(s.internal_memory, i) # At(t.internal_memory, i)
               \/ /\ i \in DOMAIN t.internal_memory \cup DOMAIN u.internal_memory
                  /\ At(t.internal_memory, i) # At(u.internal_memory, i)
    BY <2>2 DEF At
  <2> QED BY <2>1, <2>2 DEF Differ
<1>2. u.boot_rom_enabled # s.boot_rom_enabled =>
        t.boot_rom_enabled # s.boot_rom_enabled \/ u.boot_rom_enabled # t.boot_rom_enabled
  OBVIOUS
<1> QED
  BY <1>1, <1>2 DEF Wrote

-----------------------------------------------------------------------------
(* Memory accesses *)

\* A read moves the status at most, and only of a machine that runs.
LEMMA ReadEffect ==
  ASSUME NEW s, StateOK(s), NEW a \in Word, NEW read, read = get_memory_byte(a, s)
  PROVE  /\ read.val = ByteAt(a, s)
         /\ Kept(s, read.st) /\ Registers(s, read.st) /\ read.st.pc = s.pc
         /\ read.st.status = "running" => s.status = "running"
         /\ s.status # "running" => read.st = s
BY DEF get_memory_byte, Then, StateOK, Kept, Registers

\* A write changes the byte at its address at most, and none if it stops the machine.
LEMMA WriteEffect ==
  ASSUME MemorySize = 0, NEW s, StateOK(s), NEW a \in Word, NEW v \in Byte,
         NEW t, t = set_memory_byte(a, v, s)
  PROVE  /\ Wrote({a}, s, t) /\ Registers(s, t) /\ t.pc = s.pc
         /\ t.status # "running" => Kept(s, t)
         /\ t.status = "running" => s.status = "running"
         /\ s.status # "running" => t = s
<1>1. /\ Registers(s, t) /\ t.pc = s.pc
      /\ t.status = "running" => s.status = "running"
      /\ s.status # "running" => t = s
  BY WriteKeepsCpu DEF set_memory_byte, Then, Registers
<1> DEFINE Good(u) == Wrote({a}, s, u) /\ (u.status # "running" => Kept(s, u))
<1>2. Good(s)
  BY KeptWrote DEF Kept
<1> SUFFICES ASSUME s.status = "running" PROVE Good(t)
  BY <1>1, <1>2
<1>3. a = InterruptEnable => Good([s EXCEPT !.interrupt_enabled = v])
  <2>1. a = InterruptEnable => a = \hFFFF
    BY DEF InterruptEnable
  <2> QED BY <2>1 DEF StateOK, Wrote, Differ
<1>4. a \in HighRam => Good([s EXCEPT !.internal_memory = Store(s.internal_memory, a - \hFF80, v)])
  <2> DEFINE u == [s EXCEPT !.internal_memory = Store(s.internal_memory, a - \hFF80, v)]
  <2>1. /\ u.interrupt_enabled = s.interrupt_enabled /\ u.io = s.io /\ u.video = s.video
        /\ u.memory = s.memory /\ u.rom = s.rom /\ u.boot_rom_enabled = s.boot_rom_enabled
        /\ u.status = s.status /\ u.internal_memory = Store(s.internal_memory, a - \hFF80, v)
    BY DEF StateOK
  <2>2. \A j : At(u.internal_memory, j) # At(s.internal_memory, j) => j = a - \hFF80
    BY <2>1, StoreThenAt
  <2>3. \hFF80 + (a - \hFF80) = a
    BY WordIsInt
  <2> HIDE DEF u
  <2>4. Differ(s, u) \subseteq {a}
    BY <2>1, <2>2, <2>3 DEF Differ
  <2>5. Good(u)
    BY <2>1, <2>4 DEF Wrote
  <2> QED BY <2>5 DEF u
<1>5. a = DisableBootRom => Good([s EXCEPT !.boot_rom_enabled = FALSE])
  <2>1. a = DisableBootRom => a = \hFF50
    BY DEF DisableBootRom
  <2> QED BY <2>1 DEF StateOK, Wrote, Differ
<1>6. a \in IoPorts => Good([s EXCEPT !.io = IoSet(s.io, a - \hFF00, v)])
  <2> DEFINE u == [s EXCEPT !.io = IoSet(s.io, a - \hFF00, v)]
  <2>1. /\ u.interrupt_enabled = s.interrupt_enabled /\ u.internal_memory = s.internal_memory
        /\ u.video = s.video
        /\ u.memory = s.memory /\ u.rom = s.rom /\ u.boot_rom_enabled = s.boot_rom_enabled
        /\ u.status = s.status /\ u.io = IoSet(s.io, a - \hFF00, v)
    BY DEF StateOK
  <2>2. s.io \in [IoFields -> Byte]
    BY DEF StateOK
  <2>3. \A f \in IoFields : u.io[f] # s.io[f] => f = a - \hFF00
    BY <2>1, <2>2 DEF IoSet
  <2>4. \hFF00 + (a - \hFF00) = a
    BY WordIsInt
  <2> HIDE DEF u
  <2>5. Differ(s, u) \subseteq {a}
    BY <2>1, <2>3, <2>4 DEF Differ
  <2>6. Good(u)
    BY <2>1, <2>5 DEF Wrote
  <2> QED BY <2>6 DEF u
<1>7. InRam(a) => Good(RamSet(s, RamIndex(a), v))
  <2>1. InRam(a) => RamSet(s, RamIndex(a), v) = crash(s)
    BY RamIndexNat DEF RamSet
  <2>2. Kept(s, crash(s))
    BY DEF crash, StateOK, Kept
  <2> QED BY <2>1, <2>2, KeptWrote
<1>8. a \in VideoRam => Good([s EXCEPT !.video = Store(s.video, a - \h8000, v)])
  <2> DEFINE u == [s EXCEPT !.video = Store(s.video, a - \h8000, v)]
  <2>1. /\ u.interrupt_enabled = s.interrupt_enabled /\ u.internal_memory = s.internal_memory
        /\ u.io = s.io
        /\ u.memory = s.memory /\ u.rom = s.rom /\ u.boot_rom_enabled = s.boot_rom_enabled
        /\ u.status = s.status /\ u.video = Store(s.video, a - \h8000, v)
    BY DEF StateOK
  <2>2. \A j : At(u.video, j) # At(s.video, j) => j = a - \h8000
    BY <2>1, StoreThenAt
  <2>3. \h8000 + (a - \h8000) = a
    BY WordIsInt
  <2> HIDE DEF u
  <2>4. Differ(s, u) \subseteq {a}
    BY <2>1, <2>2, <2>3 DEF Differ
  <2>5. Good(u)
    BY <2>1, <2>4 DEF Wrote
  <2> QED BY <2>5 DEF u
<1>9. Good(panic(s))
  <2>1. Kept(s, panic(s))
    BY DEF panic, StateOK, Kept
  <2> QED BY <2>1, KeptWrote
<1> HIDE DEF Good
<1> QED
  BY <1>3, <1>4, <1>5, <1>6, <1>7, <1>8, <1>9 DEF set_memory_byte, Then

-----------------------------------------------------------------------------
(* Registers *)

\* Nothing happens to a machine that has stopped.
LEMMA StoppedStays ==
  ASSUME NEW s, s.status # "running"
  PROVE  /\ \A v : SetPc(v, s) = s /\ SetSp(v, s) = s /\ SetFlags(v, s) = s
                   /\ Charge(v, s) = s
         /\ \A p, v : SetPair(p, v, s) = s
         /\ \A a, v : set_memory_byte(a, v, s) = s
         /\ \A x : AfterAccess(x, s) = s
         /\ \A t : Then(s, t) = s
<1>1. \A t : Then(s, t) = s
  BY DEF Then
<1>2. \A p, v : SetPair(p, v, s) = s
  BY <1>1 DEF SetPair
<1> QED
  BY <1>1, <1>2 DEF SetPc, SetSp, SetFlags, Charge, set_memory_byte, AfterAccess

\* Assigning pc.
LEMMA SetPcEffect ==
  ASSUME NEW s, StateOK(s), s.status = "running", NEW v \in Int, NEW t, t = SetPc(v, s)
  PROVE  /\ Kept(s, t) /\ Registers(s, t) /\ t.status = "running"
         /\ t.pc = uint16(v)
BY DEF SetPc, Then, StateOK, Kept, Registers

\* Assigning sp.
LEMMA SetSpEffect ==
  ASSUME NEW s, StateOK(s), s.status = "running", NEW v \in Int, NEW t, t = SetSp(v, s)
  PROVE  /\ Kept(s, t) /\ t.status = "running" /\ t.pc = s.pc /\ t.sp = uint16(v)
         /\ t.reg = s.reg /\ t.flags = s.flags /\ t.cycles = s.cycles
BY DEF SetSp, Then, StateOK, Kept

\* Assigning the flags.
LEMMA SetFlagsEffect ==
  ASSUME NEW s, StateOK(s), s.status = "running", NEW f, NEW t, t = SetFlags(f, s)
  PROVE  /\ Kept(s, t) /\ t.status = "running" /\ t.pc = s.pc /\ t.flags = f
         /\ t.reg = s.reg /\ t.sp = s.sp /\ t.cycles = s.cycles
BY DEF SetFlags, Then, StateOK, Kept

\* Charging cycles.
LEMMA ChargeEffect ==
  ASSUME NEW s, StateOK(s), s.status = "running", NEW n, NEW t, t = Charge(n, s)
  PROVE  /\ Kept(s, t) /\ t.status = "running" /\ t.pc = s.pc
         /\ t.reg = s.reg /\ t.sp = s.sp /\ t.flags = s.flags
BY DEF Charge, Then, StateOK, Kept

\* Assigning a pair of registers.
LEMMA SetPairEffect ==
  ASSUME NEW s, StateOK(s), s.status = "running", NEW p, NEW v, NEW t, t = SetPair(p, v, s)
  PROVE  /\ Kept(s, t) /\ t.status = "running" /\ t.pc = s.pc
         /\ t.sp = s.sp /\ t.flags = s.flags /\ t.cycles = s.cycles
BY DEF SetPair, Then, StateOK, Kept

\* panic() moves the status and nothing else.
LEMMA PanicEffect ==
  ASSUME NEW s, StateOK(s)
  PROVE  /\ Kept(s, panic(s)) /\ Registers(s, panic(s)) /\ panic(s).pc = s.pc
         /\ panic(s).status # "running"
BY DEF panic, StateOK, Kept, Registers

\* Additions modulo 2^16 may be rounded at once.
LEMMA WrapsOnce ==
  ASSUME NEW m \in Int
  PROVE  /\ uint16(uint16(m + 1) + 1) = uint16(m + 2)
         /\ \A n \in Int : uint16(uint16(m) + n) = uint16(m + n)
BY DEF uint16

-----------------------------------------------------------------------------
(* Operands *)

\* Operand bytes an operand takes from the program.
Used(x) == IF x \in {"D8", "SPR8"} THEN 1 ELSE IF x \in {"D16", "PtrD16"} THEN 2 ELSE 0

\* t is s after reading n operand bytes, or after stopping at one of them.
Consumed(n, s, t) ==
  /\ Kept(s, t) /\ Registers(s, t)
  /\ t.status = "running" => s.status = "running" /\ t.pc = uint16(s.pc + n)
  /\ s.status # "running" => t = s

\* The byte at pc.
LEMMA D8Effect ==
  ASSUME NEW s, StateOK(s)
  PROVE  D8(s).val = ByteAt(s.pc, s) /\ Consumed(1, s, D8(s).st)
<1> DEFINE read == get_memory_byte(s.pc, s)
<1>1. s.pc \in Word /\ s.pc + 1 \in Int
  BY Members, WordSteps
<1>2. StateOK(read.st)
  BY <1>1, GetMemoryByteType
<1>3. /\ read.val = ByteAt(s.pc, s)
      /\ Kept(s, read.st) /\ Registers(s, read.st) /\ read.st.pc = s.pc
      /\ read.st.status = "running" => s.status = "running"
      /\ s.status # "running" => read.st = s
  BY <1>1, ReadEffect
<1>4. D8(s).val = read.val /\ D8(s).st = SetPc(s.pc + 1, read.st)
  BY DEF D8, Value
<1> HIDE DEF read
<1> DEFINE t == SetPc(s.pc + 1, read.st)
<1>5. read.st.status # "running" => t = read.st
  BY StoppedStays
<1>6. read.st.status = "running" =>
        /\ Kept(read.st, t) /\ Registers(read.st, t) /\ t.status = "running"
        /\ t.pc = uint16(s.pc + 1)
  BY <1>1, <1>2, SetPcEffect
<1> HIDE DEF t
<1>7. Consumed(1, s, t)
  BY <1>3, <1>5, <1>6 DEF Consumed, Kept, Registers
<1> QED
  BY <1>3, <1>4, <1>7 DEF t

\* The two bytes at pc, the low one first.
LEMMA D16Effect ==
  ASSUME NEW s, StateOK(s)
  PROVE  /\ Consumed(2, s, D16(s).st)
         /\ D16(s).st.status = "running" =>
              D16(s).val = Join(ByteAt(uint16(s.pc + 1), s), ByteAt(s.pc, s))
<1> DEFINE first == D8(s)
<1> DEFINE second == D8(first.st)
<1>1. first.val = ByteAt(s.pc, s) /\ Consumed(1, s, first.st) /\ StateOK(first.st)
  BY D8Effect, D8Type
<1>2. D16(s).val = Join(second.val, first.val) /\ D16(s).st = second.st
  BY DEF D16, Value
<1> HIDE DEF first
<1>3. second.val = ByteAt(first.st.pc, first.st) /\ Consumed(1, first.st, second.st)
  BY <1>1, D8Effect
<1> HIDE DEF second
<1>4. s.pc + 1 \in Int /\ s.pc \in Int
  BY Members, WordSteps
<1>5. uint16(uint16(s.pc + 1) + 1) = uint16(s.pc + 2)
  BY <1>4, WrapsOnce
<1>6. Consumed(2, s, second.st)
  BY <1>1, <1>3, <1>5 DEF Consumed, Kept, Registers
<1>7. ASSUME second.st.status = "running"
      PROVE  second.val = ByteAt(uint16(s.pc + 1), s)
  <2>1. first.st.pc = uint16(s.pc + 1) /\ Kept(s, first.st)
    BY <1>1, <1>3, <1>7 DEF Consumed
  <2> QED BY <1>3, <2>1, KeptBytes
<1> QED
  BY <1>1, <1>2, <1>6, <1>7

\* Where a pointer operand points depends on the registers only.
LEMMA AddressRegisters ==
  ASSUME NEW s, NEW t, t.reg = s.reg, NEW x
  PROVE  Address(x, t) = Address(x, s)
BY DEF Address, Pair

\* Reading any operand: memory, sp, the flags and the cycle counter stay, pc moves
\* past the operand bytes, and only (HL+) and (HL-) move a register -- after a read
\* that returned.
LEMMA GetEffect ==
  ASSUME NEW s, StateOK(s), NEW x, NEW t, t = Get(x, s).st
  PROVE  /\ Kept(s, t) /\ t.sp = s.sp /\ t.flags = s.flags /\ t.cycles = s.cycles
         /\ t.status = "running" => s.status = "running" /\ t.pc = uint16(s.pc + Used(x))
         /\ t.reg # s.reg => t.status = "running" /\ x \in {"PtrHLIncr", "PtrHLDecr"}
         /\ s.status # "running" => t = s
<1> DEFINE Good(u, n) == Consumed(n, s, u)
<1>1. s.pc \in Word /\ uint16(s.pc + 0) = s.pc
  BY Members, WordSteps, Conversions
<1>2. Consumed(0, s, s)
  BY <1>1 DEF Consumed, Kept, Registers
<1>3. Consumed(1, s, D8(s).st) /\ Consumed(2, s, D16(s).st)
  BY D8Effect, D16Effect
<1>4. Consumed(2, s, get_memory_byte(D16(s).val, D16(s).st).st)
  <2>1. StateOK(D16(s).st) /\ D16(s).val \in Word
    BY D16Type DEF ValueOK
  <2> DEFINE u == get_memory_byte(D16(s).val, D16(s).st).st
  <2>2. /\ Kept(D16(s).st, u) /\ Registers(D16(s).st, u) /\ u.pc = D16(s).st.pc
        /\ u.status = "running" => D16(s).st.status = "running"
        /\ D16(s).st.status # "running" => u = D16(s).st
    BY <2>1, ReadEffect
  <2> HIDE DEF u
  <2>3. Consumed(2, s, u)
    BY <1>3, <2>2 DEF Consumed, Kept, Registers
  <2> QED BY <2>3 DEF u
<1>5. Consumed(0, s, Then(s, panic(s)))
  <2>1. s.status = "running" => Then(s, panic(s)) = panic(s)
    BY DEF Then
  <2>2. s.status # "running" => Then(s, panic(s)) = s
    BY StoppedStays
  <2> QED BY <1>2, <2>1, <2>2, PanicEffect DEF Consumed
<1>6. x \notin Pointers => Consumed(Used(x), s, t)
  BY <1>2, <1>3, <1>4, <1>5 DEF Get, Value, Used, Pointers, Reg8, Pairs
<1>7. CASE x \in Pointers
  <2> DEFINE read == get_memory_byte(Address(x, s), s)
  <2> DEFINE u == AfterAccess(x, read.st)
  <2>1. t = u /\ Used(x) = 0
    BY <1>7 DEF Get, Value, Used, Pointers, Reg8, Pairs
  <2>2. /\ Kept(s, read.st) /\ Registers(s, read.st) /\ read.st.pc = s.pc
        /\ read.st.status = "running" => s.status = "running"
        /\ s.status # "running" => read.st = s
    BY AddressType, ReadEffect
  <2>3. StateOK(read.st)
    BY AddressType, GetMemoryByteType
  <2> HIDE DEF read
  <2>4. read.st.status # "running" => u = read.st
    BY StoppedStays
  <2>5. read.st.status = "running" =>
           /\ Kept(read.st, u) /\ u.status = "running" /\ u.pc = read.st.pc
           /\ u.sp = read.st.sp /\ u.flags = read.st.flags /\ u.cycles = read.st.cycles
           /\ x \notin {"PtrHLIncr", "PtrHLDecr"} => u = read.st
    BY <2>3, SetPairEffect DEF AfterAccess, Kept
  <2> HIDE DEF u
  <2> QED BY <1>1, <2>1, <2>2, <2>4, <2>5 DEF Kept, Registers
<1>8. CASE x \notin Pointers
  BY <1>6, <1>8 DEF Consumed, Registers
<1> QED
  BY <1>7, <1>8

\* The operands an instruction writes.
Written == Reg8 \cup Pairs \cup Pointers \cup {"SP", "PtrD16"}

\* The addresses behind an operand that is written.
Behind(x, s) ==
  IF x \in Pointers THEN {Address(x, s)}
  ELSE IF x = "PtrD16" THEN {Join(ByteAt(uint16(s.pc + 1), s), ByteAt(s.pc, s))} ELSE {}

\* Writing any operand a row writes: the byte behind it at most, sp only if it is sp, no
\* flag, no cycle; and a write that stops the machine has moved no register and no byte.
LEMMA SetEffect ==
  ASSUME MemorySize = 0, NEW s, StateOK(s), NEW x \in Written, NEW v \in Int,
         NEW t, t = Set(x, v, s)
  PROVE  /\ Wrote(Behind(x, s), s, t)
         /\ t.flags = s.flags /\ t.cycles = s.cycles
         /\ x # "SP" => t.sp = s.sp
         /\ t.status # "running" => Kept(s, t) /\ t.reg = s.reg /\ t.sp = s.sp
         /\ t.status = "running" =>
              /\ s.status = "running"
              /\ t.pc = uint16(s.pc + (IF x = "PtrD16" THEN 2 ELSE 0))
         /\ s.status # "running" => t = s
<1> DEFINE Good(u) ==
         /\ Wrote(Behind(x, s), s, u)
         /\ u.flags = s.flags /\ u.cycles = s.cycles
         /\ x # "SP" => u.sp = s.sp
         /\ u.status # "running" => Kept(s, u) /\ u.reg = s.reg /\ u.sp = s.sp
         /\ u.status = "running" =>
              /\ s.status = "running"
              /\ u.pc = uint16(s.pc + (IF x = "PtrD16" THEN 2 ELSE 0))
         /\ s.status # "running" => u = s
<1>1. s.pc \in Word /\ s.pc \in Int /\ s.pc + 0 = s.pc
  BY Members, WordSteps
<1>2. uint16(s.pc + 0) = s.pc
  BY <1>1, Conversions
<1>3. uint8(v) \in Byte
  BY Conversions
<1>4. CASE x \in Reg8
  <2>1. t = Then(s, [s EXCEPT !.reg[x] = uint8(v)])
    BY <1>4 DEF Set, Reg8, Pairs, Pointers
  <2>2. x # "SP" /\ x # "PtrD16"
    BY <1>4 DEF Reg8
  <2>3. CASE s.status = "running"
    <3>1. /\ Kept(s, t) /\ t.sp = s.sp /\ t.flags = s.flags /\ t.cycles = s.cycles
          /\ t.pc = s.pc /\ t.status = "running"
      BY <2>1, <2>3 DEF Then, StateOK, Kept
    <3> QED BY <1>2, <2>2, <2>3, <3>1, KeptWrote
  <2>4. CASE s.status # "running"
    <3>1. t = s
      BY <2>1, <2>4, StoppedStays
    <3> QED BY <2>4, <3>1, KeptWrote DEF Kept
  <2> QED BY <2>3, <2>4
<1>5. CASE x \in Pairs
  <2>1. t = SetPair(x, v, s)
    BY <1>5 DEF Set, Reg8, Pairs, Pointers
  <2>2. x # "SP" /\ x # "PtrD16"
    BY <1>5 DEF Pairs
  <2>3. CASE s.status = "running"
    <3>1. /\ Kept(s, t) /\ t.sp = s.sp /\ t.flags = s.flags /\ t.cycles = s.cycles
          /\ t.pc = s.pc /\ t.status = "running"
      BY <2>1, <2>3, SetPairEffect
    <3> QED BY <1>2, <2>2, <2>3, <3>1, KeptWrote
  <2>4. CASE s.status # "running"
    <3>1. t = s
      BY <2>1, <2>4, StoppedStays
    <3> QED BY <2>4, <3>1, KeptWrote DEF Kept
  <2> QED BY <2>3, <2>4
<1>6. CASE x = "SP"
  <2>1. t = SetSp(v, s)
    BY <1>6 DEF Set, Reg8, Pairs, Pointers
  <2>3. CASE s.status = "running"
    <3>1. /\ Kept(s, t) /\ t.flags = s.flags /\ t.cycles = s.cycles
          /\ t.pc = s.pc /\ t.status = "running"
      BY <2>1, <2>3, SetSpEffect
    <3> QED BY <1>2, <1>6, <2>3, <3>1, KeptWrote
  <2>4. CASE s.status # "running"
    <3>1. t = s
      BY <2>1, <2>4, StoppedStays
    <3> QED BY <2>4, <3>1, KeptWrote DEF Kept
  <2> QED BY <2>3, <2>4
<1>7. CASE x = "PtrD16"
  <2> DEFINE d == D16(s)
  <2>1. t = set_memory_byte(d.val, uint8(v), d.st)
    BY <1>7 DEF Set, Reg8, Pairs, Pointers
  <2>2. /\ Consumed(2, s, d.st)
        /\ d.st.status = "running" => Behind(x, s) = {d.val}
    BY <1>7, D16Effect DEF Behind, Pointers
  <2>3. StateOK(d.st) /\ d.val \in Word
    BY D16Type DEF ValueOK
  <2> HIDE DEF d
  <2>4. /\ Wrote({d.val}, d.st, t) /\ Registers(d.st, t) /\ t.pc = d.st.pc
        /\ t.status # "running" => Kept(d.st, t)
        /\ t.status = "running" => d.st.status = "running"
        /\ d.st.status # "running" => t = d.st
    BY <1>3, <2>1, <2>3, WriteEffect
  <2>5. CASE d.st.status = "running"
    <3>1. Wrote(Behind(x, s), s, t)
      <4>1. Wrote({}, s, d.st)
        BY <2>2, KeptWrote DEF Consumed
      <4>2. {} \cup {d.val} = Behind(x, s)
        BY <2>2, <2>5
      <4>3. Wrote({} \cup {d.val}, s, t)
        BY <2>4, <4>1, WroteTwice
      <4> QED BY <4>2, <4>3
    <3> QED BY <1>7, <2>2, <2>4, <2>5, <3>1 DEF Consumed, Kept, Registers
  <2>6. CASE d.st.status # "running"
    BY <1>7, <2>2, <2>4, <2>6, KeptWrote DEF Consumed, Kept, Registers
  <2> QED BY <2>5, <2>6
<1>8. CASE x \in Pointers
  <2> DEFINE w == set_memory_byte(Address(x, s), uint8(v), s)
  <2>1. t = AfterAccess(x, w)
    BY <1>8 DEF Set, Reg8, Pairs, Pointers
  <2>2. Behind(x, s) = {Address(x, s)} /\ x # "SP" /\ x # "PtrD16"
    BY <1>8 DEF Behind, Pointers
  <2>3. /\ Wrote(Behind(x, s), s, w) /\ Registers(s, w) /\ w.pc = s.pc
        /\ w.status # "running" => Kept(s, w)
        /\ w.status = "running" => s.status = "running"
        /\ s.status # "running" => w = s
    BY <1>3, <2>2, AddressType, WriteEffect
  <2>4. StateOK(w)
    BY <1>3, AddressType, SetMemoryByteType
  <2> HIDE DEF w
  <2>5. CASE w.status # "running"
    <3>1. t = w
      BY <2>1, <2>5, StoppedStays
    <3> QED BY <2>2, <2>3, <2>5, <3>1 DEF Registers
  <2>6. CASE w.status = "running"
    <3>1. /\ Kept(w, t) /\ t.status = "running" /\ t.pc = w.pc
          /\ t.sp = w.sp /\ t.flags = w.flags /\ t.cycles = w.cycles
      BY <2>1, <2>4, <2>6, SetPairEffect DEF AfterAccess, Kept
    <3>2. Wrote(Behind(x, s), s, t)
      <4>1. Wrote({}, w, t)
        BY <3>1, KeptWrote
      <4>2. Wrote(Behind(x, s) \cup {}, s, t)
        BY <2>3, <4>1, WroteTwice
      <4> QED BY <4>2
    <3> QED BY <1>2, <2>2, <2>3, <2>6, <3>1, <3>2 DEF Registers
  <2> QED BY <2>5, <2>6
<1> QED
  BY <1>4, <1>5, <1>6, <1>7, <1>8 DEF Written

-----------------------------------------------------------------------------
(* Operations *)

\* Registers and pairs: operands that no access can stop.
Direct == Reg8 \cup Pairs \cup {"SP"}

\* Reading one leaves the machine as it is, and writing one does not stop it.
LEMMA DirectEffect ==
  ASSUME NEW s, StateOK(s), NEW x \in Direct, NEW v
  PROVE  Get(x, s).st = s /\ Set(x, v, s).status = s.status
<1> DEFINE t == Set(x, v, s)
<1>1. x \in Reg8 => Get(x, s).st = s /\ t = Then(s, [s EXCEPT !.reg[x] = uint8(v)])
  BY DEF Get, Set, Value, Reg8, Pairs, Pointers
<1>2. x \in Pairs => Get(x, s).st = s /\ t = SetPair(x, v, s)
  BY DEF Get, Set, Value, Reg8, Pairs, Pointers
<1>3. x = "SP" => Get(x, s).st = s /\ t = SetSp(v, s)
  BY DEF Get, Set, Value, Reg8, Pairs, Pointers
<1>4. x \in Reg8 \/ x \in Pairs \/ x = "SP"
  BY DEF Direct
<1> HIDE DEF t
<1>5. t.status = s.status
  BY <1>1, <1>2, <1>3, <1>4 DEF SetPair, SetSp, Then, StateOK
<1> QED
  BY <1>1, <1>2, <1>3, <1>4, <1>5 DEF t

\* What an instruction leaves when it writes at most the bytes A and continues at p,
\* or stops the machine on the way.
Result(A, p, s, t) ==
  /\ Wrote(A, s, t)
  /\ t.status = "running" => t.pc = p
  /\ t.status # "running" =>
       /\ t.reg = s.reg /\ t.sp = s.sp /\ t.cycles = s.cycles
       /\ Differ(s, t) \subseteq {s.sp}

\* A step that keeps memory, registers and sp when it stops has such an outcome.
LEMMA KeptResult ==
  ASSUME NEW s, NEW t, NEW A, NEW p,
         Wrote(A, s, t), t.status = "running" => t.pc = p,
         t.status # "running" =>
           Kept(s, t) /\ t.reg = s.reg /\ t.sp = s.sp /\ t.cycles = s.cycles
  PROVE  Result(A, p, s, t)
<1>1. t.status # "running" => Wrote({}, s, t)
  BY KeptWrote
<1> QED
  BY <1>1 DEF Result, Wrote

\* The flags are those of before or f, and sp stays unless it is the operand.
Operated(to, f, s, t) == t.flags \in {s.flags, f} /\ (to # "SP" => t.sp = s.sp)

\* The byte after the operand bytes of both operands.
Past(to, from, s) == uint16(s.pc + (Used(from) + Used(to)))

\* Reading an operand, setting flags and writing an operand: the shape of loads and of
\* all arithmetic.
LEMMA OperateEffect ==
  ASSUME MemorySize = 0, NEW s, StateOK(s), s.status = "running",
         NEW to \in Written, NEW from, NEW v \in Int, NEW f \in SUBSET FlagNames,
         to \in Direct \/ from \notin {"PtrHLIncr", "PtrHLDecr"},
         Used(to) = 0 \/ Used(from) = 0,
         NEW t, t = Set(to, v, SetFlags(f, Get(from, s).st))
  PROVE  /\ Result(Behind(to, s), Past(to, from, s), s, t)
         /\ Operated(to, f, s, t)
<1> DEFINE g == Get(from, s).st
<1> DEFINE h == SetFlags(f, g)
<1>1. /\ Kept(s, g) /\ g.sp = s.sp /\ g.flags = s.flags /\ g.cycles = s.cycles
      /\ g.status = "running" => g.pc = uint16(s.pc + Used(from))
      /\ g.reg # s.reg => g.status = "running" /\ from \in {"PtrHLIncr", "PtrHLDecr"}
  BY GetEffect
<1>2. StateOK(g)
  BY GetType DEF ValueOK
<1> HIDE DEF g
<1>3. g.status = "running" =>
        /\ Kept(g, h) /\ h.status = "running" /\ h.pc = g.pc /\ h.flags = f
        /\ h.reg = g.reg /\ h.sp = g.sp /\ h.cycles = g.cycles
  BY <1>2, SetFlagsEffect
<1>4. g.status # "running" => h = g
  BY StoppedStays
<1>5. StateOK(h)
  BY <1>2, SetFlagsType
<1>6. t = Set(to, v, h)
  BY DEF g
<1> HIDE DEF h
<1>7. /\ Wrote(Behind(to, h), h, t)
      /\ t.flags = h.flags /\ t.cycles = h.cycles
      /\ to # "SP" => t.sp = h.sp
      /\ t.status # "running" => Kept(h, t) /\ t.reg = h.reg /\ t.sp = h.sp
      /\ t.status = "running" =>
           /\ h.status = "running"
           /\ t.pc = uint16(h.pc + (IF to = "PtrD16" THEN 2 ELSE 0))
      /\ h.status # "running" => t = h
  BY <1>5, <1>6, SetEffect
<1>8. CASE g.status # "running"
  <2>1. t = g /\ Wrote(Behind(to, s), s, t)
    BY <1>1, <1>4, <1>7, <1>8, KeptWrote
  <2>2. Result(Behind(to, s), Past(to, from, s), s, t)
    BY <1>1, <1>8, <2>1, KeptResult
  <2> QED BY <1>1, <2>1, <2>2 DEF Operated
<1>9. CASE g.status = "running"
  <2>1. Kept(s, h)
    BY <1>1, <1>3, <1>9 DEF Kept
  <2>2. t.flags = f /\ (to # "SP" => t.sp = s.sp) /\ t.cycles = s.cycles
    BY <1>1, <1>3, <1>7, <1>9
  <2>3. t.status # "running" => to \notin Direct
    BY <1>3, <1>5, <1>6, <1>9, DirectEffect
  <2>4. to \notin Direct => h.reg = s.reg
    BY <1>1, <1>3, <1>9
  <2>5. h.pc = uint16(s.pc + Used(from))
    BY <1>1, <1>3, <1>9
  <2>6. Behind(to, h) = Behind(to, s)
    <3>1. CASE to \in Pointers
      <4>1. to \notin Direct
        BY <3>1 DEF Direct, Pointers, Reg8, Pairs
      <4> QED BY <2>4, <3>1, <4>1, AddressRegisters DEF Behind
    <3>2. CASE to = "PtrD16"
      <4>1. h.pc = s.pc
        <5>1. Used(from) = 0
          BY <3>2 DEF Used
        <5>2. s.pc \in Word /\ s.pc \in Int
          BY Members, WordSteps
        <5>3. uint16(s.pc + 0) = s.pc
          BY <5>2, Conversions
        <5> QED BY <2>5, <5>1, <5>2, <5>3
      <4>2. ByteAt(uint16(h.pc + 1), h) = ByteAt(uint16(s.pc + 1), s)
        BY <2>1, <4>1, KeptBytes
      <4>3. ByteAt(h.pc, h) = ByteAt(s.pc, s)
        BY <2>1, <4>1, KeptBytes
      <4> QED BY <3>2, <4>1, <4>2, <4>3 DEF Behind, Pointers
    <3>3. CASE to \notin Pointers /\ to # "PtrD16"
      BY <3>3 DEF Behind
    <3> QED BY <3>1, <3>2, <3>3
  <2>7. Wrote(Behind(to, s), s, t)
    <3>1. Wrote({}, s, h)
      BY <2>1, KeptWrote
    <3>2. Wrote({} \cup Behind(to, h), s, t)
      BY <1>7, <3>1, WroteTwice
    <3>3. {} \cup Behind(to, h) = Behind(to, s)
      BY <2>6
    <3> QED BY <3>2, <3>3
  <2>8. t.status = "running" => t.pc = uint16(s.pc + (Used(from) + Used(to)))
    <3>1. Used(to) = (IF to = "PtrD16" THEN 2 ELSE 0) /\ Used(from) \in Int /\ Used(to) \in Int
      BY DEF Used, Written, Reg8, Pairs, Pointers
    <3>2. s.pc \in Int
      BY Members, WordSteps
    <3>3. s.pc + Used(from) \in Int /\ (s.pc + Used(from)) + Used(to) = s.pc + (Used(from) + Used(to))
      BY <3>1, <3>2
    <3>4. \A m, n \in Int : uint16(uint16(m) + n) = uint16(m + n)
      BY WrapsOnce
    <3>5. uint16(uint16(s.pc + Used(from)) + Used(to)) = uint16((s.pc + Used(from)) + Used(to))
      BY <3>1, <3>3, <3>4
    <3> QED BY <1>7, <2>5, <3>1, <3>3, <3>5
  <2>9. t.status # "running" =>
          Kept(s, t) /\ t.reg = s.reg /\ t.sp = s.sp /\ t.cycles = s.cycles
    BY <1>1, <1>3, <1>7, <1>9, <2>1, <2>2, <2>3, <2>4 DEF Kept
  <2>10. Result(Behind(to, s), Past(to, from, s), s, t)
    BY <2>7, <2>8, <2>9, KeptResult DEF Past
  <2> QED BY <2>2, <2>10 DEF Operated
<1> QED
  BY <1>8, <1>9

\* The same on a single operand in place: counting and rotation.
LEMMA UpdateEffect ==
  ASSUME MemorySize = 0, NEW s, StateOK(s), s.status = "running",
         NEW x \in Direct \cup {"PtrHL"}, NEW v \in Int, NEW f \in SUBSET FlagNames,
         NEW t, t = Set(x, v, SetFlags(f, Get(x, s).st))
  PROVE  Result(Behind(x, s), s.pc, s, t) /\ Operated(x, f, s, t)
<1>1. x \in Written /\ x \notin {"PtrHLIncr", "PtrHLDecr"} /\ Used(x) = 0
  BY DEF Direct, Written, Used, Reg8, Pairs, Pointers
<1>2. /\ Result(Behind(x, s), Past(x, x, s), s, t)
      /\ Operated(x, f, s, t)
  BY <1>1, OperateEffect
<1>3. s.pc \in Word /\ s.pc \in Int
  BY Members, WordSteps
<1>4. uint16(s.pc + 0) = s.pc /\ Used(x) + Used(x) = 0
  BY <1>1, <1>3, Conversions
<1> QED
  BY <1>2, <1>4 DEF Past

\* Storing a word: its two bytes and sp; at most the first byte if that stops the machine.
LEMMA PushWordEffect ==
  ASSUME MemorySize = 0, NEW s, StateOK(s), NEW w \in Word, NEW t, t = PushWord(w, s)
  PROVE  /\ Result({s.sp, uint16(s.sp - 1)}, s.pc, s, t)
         /\ t.reg = s.reg /\ t.flags = s.flags /\ t.cycles = s.cycles /\ t.pc = s.pc
         /\ t.status = "running" => s.status = "running" /\ t.sp = uint16(s.sp - 2)
<1> DEFINE low == set_memory_byte(s.sp, Lo(w), s)
<1> DEFINE high == set_memory_byte(uint16(s.sp - 1), Hi(w), low)
<1>1. /\ s.sp \in Word /\ uint16(s.sp - 1) \in Word /\ s.sp - 2 \in Int
      /\ Lo(w) \in Byte /\ Hi(w) \in Byte
  BY Members, WordSteps, Conversions, WordBytes
<1>2. /\ Wrote({s.sp}, s, low) /\ Registers(s, low) /\ low.pc = s.pc
      /\ low.status # "running" => Kept(s, low)
      /\ low.status = "running" => s.status = "running"
      /\ s.status # "running" => low = s
  BY <1>1, WriteEffect
<1>3. StateOK(low)
  BY <1>1, SetMemoryByteType
<1>4. t = SetSp(s.sp - 2, high)
  BY DEF PushWord
<1> HIDE DEF low
<1>5. high = set_memory_byte(uint16(s.sp - 1), Hi(w), low) /\ StateOK(high)
  BY <1>1, <1>3, SetMemoryByteType
<1> HIDE DEF high
<1>6. /\ Wrote({uint16(s.sp - 1)}, low, high) /\ Registers(low, high) /\ high.pc = low.pc
      /\ high.status # "running" => Kept(low, high)
      /\ high.status = "running" => low.status = "running"
  BY <1>1, <1>3, <1>5, WriteEffect
<1>7. Registers(s, high) /\ high.pc = s.pc
  BY <1>2, <1>6 DEF Registers
<1>8. Wrote({s.sp, uint16(s.sp - 1)}, s, high)
  <2>1. {s.sp} \cup {uint16(s.sp - 1)} = {s.sp, uint16(s.sp - 1)}
    OBVIOUS
  <2>2. Wrote({s.sp} \cup {uint16(s.sp - 1)}, s, high)
    BY <1>2, <1>6, WroteTwice
  <2> QED BY <2>1, <2>2
<1>9. CASE high.status # "running"
  <2>1. t = high
    BY <1>4, <1>9, StoppedStays
  <2>2. Differ(s, high) \subseteq {s.sp}
    <3>1. Wrote({}, low, high)
      BY <1>6, <1>9, KeptWrote
    <3>2. Wrote({s.sp} \cup {}, s, high)
      BY <1>2, <3>1, WroteTwice
    <3> QED BY <3>2 DEF Wrote
  <2> QED BY <1>7, <1>8, <1>9, <2>1, <2>2 DEF Result, Registers
<1>10. CASE high.status = "running"
  <2>1. /\ Kept(high, t) /\ t.status = "running" /\ t.pc = high.pc /\ t.sp = uint16(s.sp - 2)
        /\ t.reg = high.reg /\ t.flags = high.flags /\ t.cycles = high.cycles
    BY <1>1, <1>4, <1>5, <1>10, SetSpEffect
  <2>2. Wrote({s.sp, uint16(s.sp - 1)}, s, t)
    <3>1. Wrote({}, high, t)
      BY <2>1, KeptWrote
    <3>2. Wrote({s.sp, uint16(s.sp - 1)} \cup {}, s, t)
      BY <1>8, <3>1, WroteTwice
    <3>3. {s.sp, uint16(s.sp - 1)} \cup {} = {s.sp, uint16(s.sp - 1)}
      OBVIOUS
    <3> QED BY <3>2, <3>3
  <2> QED BY <1>2, <1>6, <1>7, <1>10, <2>1, <2>2 DEF Result, Registers
<1> QED
  BY <1>9, <1>10

\* Reading a word back: sp, and only if both reads return.
LEMMA PopWordEffect ==
  ASSUME NEW s, StateOK(s), NEW t, t = PopWord(s).st
  PROVE  /\ Kept(s, t) /\ t.reg = s.reg /\ t.flags = s.flags /\ t.cycles = s.cycles
         /\ t.pc = s.pc
         /\ PopWord(s).val = Join(ByteAt(uint16(s.sp + 1), s), ByteAt(uint16(s.sp + 2), s))
         /\ t.status = "running" => s.status = "running" /\ t.sp = uint16(s.sp + 2)
         /\ t.status # "running" => t.sp = s.sp
<1> DEFINE high == get_memory_byte(uint16(s.sp + 1), s)
<1> DEFINE low == get_memory_byte(uint16(s.sp + 2), high.st)
<1>1. uint16(s.sp + 1) \in Word /\ uint16(s.sp + 2) \in Word /\ s.sp + 2 \in Int
  BY Members, WordSteps, Conversions
<1>2. /\ high.val = ByteAt(uint16(s.sp + 1), s)
      /\ Kept(s, high.st) /\ Registers(s, high.st) /\ high.st.pc = s.pc
      /\ high.st.status = "running" => s.status = "running"
  BY <1>1, ReadEffect
<1>3. StateOK(high.st)
  BY <1>1, GetMemoryByteType
<1>4. t = SetSp(s.sp + 2, low.st) /\ PopWord(s).val = Join(high.val, low.val)
  BY DEF PopWord, Value
<1> HIDE DEF high
<1>5. /\ low.val = ByteAt(uint16(s.sp + 2), high.st)
      /\ Kept(high.st, low.st) /\ Registers(high.st, low.st) /\ low.st.pc = high.st.pc
      /\ low.st.status = "running" => high.st.status = "running"
  BY <1>1, <1>3, ReadEffect
<1>6. StateOK(low.st)
  BY <1>1, <1>3, GetMemoryByteType
<1> HIDE DEF low
<1>7. ByteAt(uint16(s.sp + 2), high.st) = ByteAt(uint16(s.sp + 2), s)
  BY <1>2, KeptBytes
<1>8. Kept(s, low.st) /\ Registers(s, low.st) /\ low.st.pc = s.pc
  BY <1>2, <1>5 DEF Kept, Registers
<1>9. low.st.status # "running" => t = low.st
  BY <1>4, StoppedStays
<1>10. low.st.status = "running" =>
         /\ Kept(low.st, t) /\ t.status = "running" /\ t.pc = low.st.pc /\ t.sp = uint16(s.sp + 2)
         /\ t.reg = low.st.reg /\ t.flags = low.st.flags /\ t.cycles = low.st.cycles
  BY <1>1, <1>4, <1>6, SetSpEffect
<1> QED
  BY <1>2, <1>4, <1>5, <1>7, <1>8, <1>9, <1>10 DEF Kept, Registers

\* A condition looks at the flags alone.
LEMMA ConditionFlags ==
  ASSUME NEW s, NEW t, t.flags = s.flags, NEW condition
  PROVE  is_true(condition, t) = is_true(condition, s)
BY DEF is_true

\* Push: the two bytes below sp, sp, and nothing else.
LEMMA PushEffect ==
  ASSUME MemorySize = 0, NEW s, StateOK(s), NEW field \in Pairs, NEW t, t = Push(field, s)
  PROVE  /\ Result({s.sp, uint16(s.sp - 1)}, s.pc, s, t)
         /\ t.flags = s.flags
         /\ t.status = "running" => t.sp = uint16(s.sp - 2)
<1>1. t = PushWord(Get(field, s).val, s) /\ Get(field, s).val \in Word
  BY Operand DEF Push
<1> QED
  BY <1>1, PushWordEffect

\* Pop: the pair, sp, and nothing else.
LEMMA PopEffect ==
  ASSUME MemorySize = 0, NEW s, StateOK(s), NEW field \in Pairs, NEW t, t = Pop(field, s)
  PROVE  /\ Result({}, s.pc, s, t)
         /\ t.flags = s.flags
         /\ t.status = "running" => t.sp = uint16(s.sp + 2)
<1> DEFINE p == PopWord(s)
<1>1. /\ Kept(s, p.st) /\ p.st.reg = s.reg /\ p.st.flags = s.flags /\ p.st.cycles = s.cycles
      /\ p.st.pc = s.pc
      /\ p.st.status = "running" => p.st.sp = uint16(s.sp + 2)
      /\ p.st.status # "running" => p.st.sp = s.sp
  BY PopWordEffect
<1>2. StateOK(p.st)
  BY PopWordType
<1>3. t = SetPair(field, p.val, p.st)
  BY DEF Pop, Set, Reg8, Pairs, Pointers
<1> HIDE DEF p
<1>4. p.st.status = "running" =>
        /\ Kept(p.st, t) /\ t.status = "running" /\ t.pc = p.st.pc
        /\ t.sp = p.st.sp /\ t.flags = p.st.flags /\ t.cycles = p.st.cycles
  BY <1>2, <1>3, SetPairEffect
<1>5. p.st.status # "running" => t = p.st
  BY <1>3, StoppedStays
<1>6. Kept(s, t)
  BY <1>1, <1>4, <1>5 DEF Kept
<1> QED
  BY <1>1, <1>4, <1>5, <1>6, KeptWrote, KeptResult

\* Call: the operand is read whether the branch is taken or not; the return address is
\* pushed, or else nothing moves but pc, to the target once the operand is read.
LEMMA CallEffect ==
  ASSUME MemorySize = 0, NEW s, StateOK(s), s.status = "running", NEW condition,
         NEW t, t = Call(condition, "D16", s)
  PROVE  /\ t.flags = s.flags
         /\ is_true(condition, s) =>
              /\ Result({s.sp, uint16(s.sp - 1)},
                         Join(ByteAt(uint16(s.pc + 1), s), ByteAt(s.pc, s)), s, t)
              /\ t.status = "running" => t.sp = uint16(s.sp - 2)
              /\ D16(s).st.status = "running" =>
                   t.pc = Join(ByteAt(uint16(s.pc + 1), s), ByteAt(s.pc, s))
         /\ ~is_true(condition, s) =>
              Result({}, uint16(s.pc + 2), s, t) /\ t.sp = s.sp
<1> DEFINE f == D16(s)
<1> DEFINE jumped == SetPc(f.val, f.st)
<1> DEFINE pushed == PushWord(f.st.pc, jumped)
<1> DEFINE target == Join(ByteAt(uint16(s.pc + 1), s), ByteAt(s.pc, s))
<1>1. /\ Consumed(2, s, f.st)
      /\ f.st.status = "running" => f.val = target
  BY D16Effect
<1>2. StateOK(f.st) /\ f.val \in Word
  BY D16Type DEF ValueOK
<1>3. t = IF is_true(condition, f.st) THEN Charge(12, pushed) ELSE f.st
  <2>1. Get("D16", s) = f
    BY DEF Get, Reg8, Pairs, Pointers
  <2> QED BY <2>1 DEF Call
<1> HIDE DEF f
<1>4. is_true(condition, f.st) = is_true(condition, s)
  BY <1>1, ConditionFlags DEF Consumed, Registers
<1>5. f.val \in Int /\ uint16(f.val) = f.val /\ f.st.pc \in Word
  BY <1>2, WordSteps, Conversions, Members
<1>6. StateOK(jumped)
  BY <1>2, <1>5, SetPcType
<1>7. /\ f.st.status = "running" =>
           /\ Kept(f.st, jumped) /\ Registers(f.st, jumped) /\ jumped.status = "running"
           /\ jumped.pc = f.val
      /\ f.st.status # "running" => jumped = f.st
  BY <1>2, <1>5, SetPcEffect, StoppedStays
<1>8. jumped.sp = s.sp /\ Registers(s, jumped) /\ Kept(s, jumped)
  BY <1>1, <1>7 DEF Consumed, Registers, Kept
<1>9. pushed = PushWord(f.st.pc, jumped) /\ StateOK(pushed)
  BY <1>5, <1>6, PushWordType
<1> HIDE DEF jumped
<1> HIDE DEF pushed
<1>10. /\ Result({s.sp, uint16(s.sp - 1)}, jumped.pc, jumped, pushed)
       /\ pushed.reg = jumped.reg /\ pushed.flags = jumped.flags /\ pushed.cycles = jumped.cycles
       /\ pushed.pc = jumped.pc
       /\ pushed.status = "running" => jumped.status = "running" /\ pushed.sp = uint16(s.sp - 2)
  <2>1. jumped.sp = s.sp
    BY <1>8
  <2>2. /\ Result({jumped.sp, uint16(jumped.sp - 1)}, jumped.pc, jumped, pushed)
        /\ pushed.reg = jumped.reg /\ pushed.flags = jumped.flags
        /\ pushed.cycles = jumped.cycles /\ pushed.pc = jumped.pc
        /\ pushed.status = "running" =>
             jumped.status = "running" /\ pushed.sp = uint16(jumped.sp - 2)
    BY <1>5, <1>6, <1>9, PushWordEffect
  <2> QED BY <2>1, <2>2
<1>11. CASE ~is_true(condition, s)
  <2>1. t = f.st
    BY <1>3, <1>4, <1>11
  <2>2. Result({}, uint16(s.pc + 2), s, t)
    BY <1>1, <2>1, KeptWrote, KeptResult DEF Consumed, Registers
  <2> QED BY <1>1, <1>11, <2>1, <2>2 DEF Consumed, Registers
<1>12. CASE is_true(condition, s)
  <2>1. t = Charge(12, pushed)
    BY <1>3, <1>4, <1>12
  <2>2. pushed.status # "running" => t = pushed
    BY <2>1, StoppedStays
  <2>3. pushed.status = "running" =>
          /\ Kept(pushed, t) /\ t.status = "running" /\ t.pc = pushed.pc
          /\ t.sp = pushed.sp /\ t.flags = pushed.flags
    BY <1>9, <2>1, ChargeEffect
  <2>4. Wrote({s.sp, uint16(s.sp - 1)}, s, t)
    <3>1. Wrote({}, s, jumped)
      BY <1>8, KeptWrote
    <3>2. Wrote({} \cup {s.sp, uint16(s.sp - 1)}, s, pushed)
      BY <1>10, <3>1, WroteTwice DEF Result
    <3>3. Wrote({}, pushed, t)
      BY <2>2, <2>3, KeptWrote DEF Kept
    <3>4. Wrote(({} \cup {s.sp, uint16(s.sp - 1)}) \cup {}, s, t)
      BY <3>2, <3>3, WroteTwice
    <3>5. ({} \cup {s.sp, uint16(s.sp - 1)}) \cup {} = {s.sp, uint16(s.sp - 1)}
      OBVIOUS
    <3> QED BY <3>4, <3>5
  <2>5. t.status # "running" =>
          /\ t.reg = s.reg /\ t.sp = s.sp /\ t.cycles = s.cycles
          /\ Differ(s, t) \subseteq {s.sp}
    <3> SUFFICES ASSUME t.status # "running"
                 PROVE  /\ t.reg = s.reg /\ t.sp = s.sp /\ t.cycles = s.cycles
                        /\ Differ(s, t) \subseteq {s.sp}
      OBVIOUS
    <3>1. t = pushed /\ pushed.status # "running"
      BY <2>2, <2>3
    <3>2. Differ(jumped, t) \subseteq {s.sp} /\ Registers(s, t)
      BY <1>8, <1>10, <3>1 DEF Result, Registers
    <3>3. Differ(s, t) = Differ(jumped, t)
      BY <1>8 DEF Differ, Kept
    <3> QED BY <3>2, <3>3 DEF Registers
  <2>6. t.status = "running" => t.pc = target /\ t.sp = uint16(s.sp - 2)
    BY <1>1, <1>7, <1>10, <2>2, <2>3 DEF Result
  <2>7. t.flags = s.flags
    BY <1>8, <1>10, <2>2, <2>3 DEF Registers
  <2>8. f.st.status = "running" => t.pc = target
    BY <1>1, <1>7, <1>10, <2>2, <2>3
  <2> QED BY <1>12, <2>4, <2>5, <2>6, <2>7, <2>8 DEF Result, f
<1> QED
  BY <1>11, <1>12

\* Ret: pc from the stack and sp, or nothing at all.
LEMMA RetEffect ==
  ASSUME NEW s, StateOK(s), s.status = "running", NEW condition,
         NEW t, t = Ret(condition, s)
  PROVE  /\ t.flags = s.flags
         /\ is_true(condition, s) =>
              /\ Result({}, Join(ByteAt(uint16(s.sp + 1), s), ByteAt(uint16(s.sp + 2), s)), s, t)
              /\ t.status = "running" => t.sp = uint16(s.sp + 2)
         /\ ~is_true(condition, s) => Result({}, s.pc, s, t) /\ t.sp = s.sp
<1> DEFINE p == PopWord(s)
<1> DEFINE jumped == SetPc(p.val, p.st)
<1>1. /\ Kept(s, p.st) /\ p.st.reg = s.reg /\ p.st.flags = s.flags /\ p.st.cycles = s.cycles
      /\ p.val = Join(ByteAt(uint16(s.sp + 1), s), ByteAt(uint16(s.sp + 2), s))
      /\ p.st.status = "running" => p.st.sp = uint16(s.sp + 2)
      /\ p.st.status # "running" => p.st.sp = s.sp
  BY PopWordEffect
<1>2. StateOK(p.st) /\ p.val \in Word
  BY PopWordType
<1>3. t = IF is_true(condition, s) THEN Charge(12, jumped) ELSE s
  BY DEF Ret
<1> HIDE DEF p
<1>4. p.val \in Int /\ uint16(p.val) = p.val
  BY <1>2, WordSteps, Conversions
<1>5. StateOK(jumped)
  BY <1>2, <1>4, SetPcType
<1>6. /\ p.st.status = "running" =>
           /\ Kept(p.st, jumped) /\ Registers(p.st, jumped) /\ jumped.status = "running"
           /\ jumped.pc = p.val
      /\ p.st.status # "running" => jumped = p.st
  BY <1>2, <1>4, SetPcEffect, StoppedStays
<1> HIDE DEF jumped
<1>7. CASE ~is_true(condition, s)
  <2>1. t = s
    BY <1>3, <1>7
  <2> QED BY <1>7, <2>1, KeptWrote, KeptResult DEF Kept
<1>8. CASE is_true(condition, s)
  <2>1. t = Charge(12, jumped)
    BY <1>3, <1>8
  <2>2. jumped.status # "running" => t = jumped
    BY <2>1, StoppedStays
  <2>3. jumped.status = "running" =>
          /\ Kept(jumped, t) /\ t.status = "running" /\ t.pc = jumped.pc
          /\ t.sp = jumped.sp /\ t.flags = jumped.flags
    BY <1>5, <2>1, ChargeEffect
  <2>4. Kept(s, t) /\ t.flags = s.flags
    BY <1>1, <1>6, <2>2, <2>3 DEF Kept, Registers
  <2>5. t.status = "running" => t.pc = p.val /\ t.sp = uint16(s.sp + 2)
    BY <1>1, <1>6, <2>2, <2>3 DEF Registers
  <2>6. t.status # "running" => t.reg = s.reg /\ t.sp = s.sp /\ t.cycles = s.cycles
    BY <1>1, <1>6, <2>2, <2>3 DEF Registers
  <2> QED BY <1>1, <1>8, <2>4, <2>5, <2>6, KeptWrote, KeptResult
<1> QED
  BY <1>7, <1>8

\* Jumps of either kind: pc and the cycles. The operand is consumed whether the jump is
\* taken or not, and a relative one counts from the byte after its displacement.
LEMMA JumpEffects ==
  ASSUME NEW s, StateOK(s), s.status = "running", NEW condition,
         NEW field \in {"D8", "D16", "PtrHL"}, NEW t,
         t \in {JumpRelative(condition, field, s), Jump(condition, field, s)}
  PROVE  /\ t.flags = s.flags /\ t.sp = s.sp
         /\ Result({}, t.pc, s, t)
         /\ ~is_true(condition, s) => Result({}, uint16(s.pc + Used(field)), s, t)
         /\ t = JumpRelative(condition, field, s) /\ field = "D8" /\ is_true(condition, s) =>
              Result({}, uint16(s.pc + 1 + int8(ByteAt(s.pc, s))), s, t)
<1> DEFINE f == Get(field, s)
<1> DEFINE charged == Charge(4, f.st)
<1>1. /\ Kept(s, f.st) /\ f.st.sp = s.sp /\ f.st.flags = s.flags /\ f.st.cycles = s.cycles
      /\ f.st.status = "running" => f.st.pc = uint16(s.pc + Used(field))
      /\ f.st.reg = s.reg
  BY GetEffect
<1>2. StateOK(f.st) /\ f.val \in Word /\ f.st.pc \in Word
  BY Operand
<1>3. field = "D8" => f.val = ByteAt(s.pc, s)
  BY D8Effect DEF Get, Reg8, Pairs, Pointers
<1> DEFINE d == IF t = JumpRelative(condition, field, s) THEN int8(f.val) ELSE f.val
<1>4. t = IF is_true(condition, f.st) THEN SetPc(f.st.pc + d, charged) ELSE f.st
  <2>1. JumpRelative(condition, field, s)
          = IF is_true(condition, f.st) THEN SetPc(f.st.pc + int8(f.val), charged) ELSE f.st
    BY DEF JumpRelative
  <2>2. Jump(condition, field, s)
          = IF is_true(condition, f.st) THEN SetPc(f.st.pc + f.val, charged) ELSE f.st
    BY DEF Jump
  <2> HIDE DEF f
  <2> HIDE DEF charged
  <2> QED BY <2>1, <2>2
<1>5. d \in Int /\ f.st.pc + d \in Int
  <2>1. int8(f.val) \in Int /\ f.val \in Int /\ f.st.pc \in Int
    BY <1>2, SignedType, WordSteps
  <2>2. d \in Int
    BY <2>1
  <2> HIDE DEF d
  <2> QED BY <2>1, <2>2
<1>6. is_true(condition, f.st) = is_true(condition, s)
  BY <1>1, ConditionFlags
<1>7. t = JumpRelative(condition, field, s) /\ field = "D8" => d = int8(ByteAt(s.pc, s))
  BY <1>3
<1> HIDE DEF f
<1> HIDE DEF d
<1>8. StateOK(charged)
  BY <1>2, ChargeType
<1>9. f.st.status = "running" =>
        /\ Kept(f.st, charged) /\ charged.status = "running"
        /\ charged.reg = f.st.reg /\ charged.sp = f.st.sp /\ charged.flags = f.st.flags
  BY <1>2, ChargeEffect
<1> HIDE DEF charged
<1>10. CASE f.st.status # "running"
  <2>1. t = f.st
    <3>1. charged = f.st
      BY <1>10, StoppedStays DEF charged
    <3> QED BY <1>4, <1>10, <3>1, StoppedStays
  <2>2. \A p : Result({}, p, s, t)
    BY <1>1, <1>10, <2>1, KeptWrote, KeptResult
  <2> QED BY <1>1, <2>1, <2>2
<1>11. CASE f.st.status = "running" /\ ~is_true(condition, s)
  <2>1. t = f.st
    BY <1>4, <1>6, <1>11
  <2> QED BY <1>1, <1>11, <2>1, KeptWrote, KeptResult
<1>12. CASE f.st.status = "running" /\ is_true(condition, s)
  <2>1. t = SetPc(f.st.pc + d, charged)
    BY <1>4, <1>6, <1>12
  <2>2. /\ Kept(charged, t) /\ Registers(charged, t) /\ t.status = "running"
        /\ t.pc = uint16(f.st.pc + d)
    BY <1>5, <1>8, <1>9, <1>12, <2>1, SetPcEffect
  <2>3. Kept(s, t) /\ t.flags = s.flags /\ t.sp = s.sp
    BY <1>1, <1>9, <1>12, <2>2 DEF Kept, Registers
  <2>4. \A p : t.pc = p => Result({}, p, s, t)
    BY <2>2, <2>3, KeptWrote, KeptResult
  <2>5. field = "D8" => t.pc = uint16(s.pc + 1 + d)
    <3>1. field = "D8" => f.st.pc = uint16(s.pc + 1)
      BY <1>1, <1>12 DEF Used
    <3>2. s.pc + 1 \in Int
      BY Members, WordSteps
    <3>3. \A m, n \in Int : uint16(uint16(m) + n) = uint16(m + n)
      BY WrapsOnce
    <3>4. uint16(uint16(s.pc + 1) + d) = uint16((s.pc + 1) + d)
      BY <1>5, <3>2, <3>3
    <3> QED BY <2>2, <3>1, <3>4
  <2> QED BY <1>7, <1>12, <2>3, <2>4, <2>5
<1> QED
  BY <1>10, <1>11, <1>12

\* Operations that set the flags from an operand and store nothing.
LEMMA FlagsOnlyEffect ==
  ASSUME NEW s, StateOK(s), s.status = "running", NEW f \in SUBSET FlagNames,
         NEW from, from \notin {"PtrHLIncr", "PtrHLDecr"},
         NEW t, t = SetFlags(f, Get(from, s).st)
  PROVE  /\ Result({}, uint16(s.pc + Used(from)), s, t)
         /\ t.sp = s.sp /\ t.flags \in {s.flags, f}
<1> DEFINE g == Get(from, s).st
<1>1. /\ Kept(s, g) /\ g.sp = s.sp /\ g.flags = s.flags /\ g.cycles = s.cycles
      /\ g.status = "running" => g.pc = uint16(s.pc + Used(from))
      /\ g.reg = s.reg
  BY GetEffect
<1>2. StateOK(g)
  BY Operand
<1> HIDE DEF g
<1>3. g.status = "running" =>
        /\ Kept(g, t) /\ t.status = "running" /\ t.pc = g.pc /\ t.flags = f
        /\ t.reg = g.reg /\ t.sp = g.sp /\ t.cycles = g.cycles
  BY <1>2, SetFlagsEffect DEF g
<1>4. g.status # "running" => t = g
  BY StoppedStays DEF g
<1>5. Kept(s, t)
  BY <1>1, <1>3, <1>4 DEF Kept
<1> QED
  BY <1>1, <1>3, <1>4, <1>5, KeptWrote, KeptResult

\* Reading an opcode: pc moves first, and the byte is the one at the old pc.
LEMMA FetchEffect ==
  ASSUME NEW s, StateOK(s)
  PROVE  Fetch(s).val = ByteAt(s.pc, s) /\ Consumed(1, s, Fetch(s).st)
<1> DEFINE moved == SetPc(s.pc + 1, s)
<1> DEFINE read == get_memory_byte(s.pc, moved)
<1>1. s.pc \in Word /\ s.pc + 1 \in Int
  BY Members, WordSteps
<1>2. StateOK(moved)
  BY <1>1, SetPcType
<1>3. /\ s.status = "running" =>
           /\ Kept(s, moved) /\ Registers(s, moved) /\ moved.status = "running"
           /\ moved.pc = uint16(s.pc + 1)
      /\ s.status # "running" => moved = s
  BY <1>1, SetPcEffect, StoppedStays
<1>4. Fetch(s) = read
  BY DEF Fetch
<1> HIDE DEF moved
<1>5. /\ read.val = ByteAt(s.pc, moved)
      /\ Kept(moved, read.st) /\ Registers(moved, read.st) /\ read.st.pc = moved.pc
      /\ read.st.status = "running" => moved.status = "running"
      /\ moved.status # "running" => read.st = moved
  BY <1>1, <1>2, ReadEffect
<1> HIDE DEF read
<1>6. Kept(s, moved) /\ Registers(s, moved)
  BY <1>3 DEF Kept, Registers
<1>7. ByteAt(s.pc, moved) = ByteAt(s.pc, s)
  BY <1>6, KeptBytes
<1>8. Consumed(1, s, read.st)
  BY <1>3, <1>5, <1>6 DEF Consumed, Kept, Registers
<1> QED
  BY <1>4, <1>5, <1>7, <1>8

-----------------------------------------------------------------------------
(* The rows of the tables *)

\* An opcode and its three fields.
LEMMA Fields ==
  ASSUME NEW op \in Byte
  PROVE  /\ (op \div 8) % 8 \in 0..7 /\ op % 8 \in 0..7
         /\ op \in \h00..\h3F => op = 8 * ((op \div 8) % 8) + (op % 8)
         /\ op \in \h40..\h7F => op = \h40 + 8 * ((op \div 8) % 8) + (op % 8)
         /\ op \in \h80..\hBF => op = \h80 + 8 * ((op \div 8) % 8) + (op % 8)
         /\ op \in \hC0..\hFF => op = \hC0 + 8 * ((op \div 8) % 8) + (op % 8)
         /\ op \in \h00..\h3F \/ op \in \h40..\h7F \/ op \in \h80..\hBF \/ op \in \hC0..\hFF
<1>1. op \in Int /\ 0 <= op /\ op < \h100
  BY InByte
<1> QED
  BY <1>1

\* The eight-bit operands.
LEMMA EightBitOperands ==
  ASSUME NEW z \in 0..7
  PROVE  /\ Operand8[z + 1] \in Reg8 \cup {"PtrHL"}
         /\ Operand8[z + 1] = "PtrHL" <=> z = 6
<1>1. z = 0 \/ z = 1 \/ z = 2 \/ z = 3 \/ z = 4 \/ z = 5 \/ z = 6 \/ z = 7
  OBVIOUS
<1> QED
  BY <1>1 DEF Operand8, Reg8

\* Of the rows behind 0xCB, Bit only tests and RotateLeft writes (HL) or a register.
LEMMA ExtendedRows ==
  ASSUME NEW op \in Byte, NEW row, row = extended_instructions[op]
  PROVE  /\ row.op = "Bit" =>
              op \in \h40..\h7F /\ row.args[2] \in Reg8 \cup {"PtrHL"}
         /\ row.op = "RotateLeft" =>
              /\ op \in \h10..\h17 /\ row.args[1] \in Reg8 \cup {"PtrHL"}
              /\ row.args[1] = "PtrHL" => op = \h16
<1> DEFINE y == (op \div 8) % 8
<1> DEFINE z == op % 8
<1> DEFINE r == Operand8[z + 1]
<1>1. /\ y \in 0..7 /\ z \in 0..7
      /\ op \in \h00..\h3F => op = 8 * y + z
      /\ op \in \h00..\h3F \/ op \in \h40..\h7F \/ op \in \h80..\hBF \/ op \in \hC0..\hFF
  BY Fields
<1>2. r \in Reg8 \cup {"PtrHL"} /\ (r = "PtrHL" <=> z = 6)
  BY <1>1, EightBitOperands
<1>3. op \in 0..\hFF
  BY InByte
<1>4. /\ op \in \h00..\h3F => row = ExtRows00(y, r)
      /\ op \in \h40..\h7F => row = ExtRows01(y, r)
      /\ op \in \h80..\hBF => row = ExtRows10(y, r)
      /\ op \in \hC0..\hFF => row = ExtRows11(y, r)
  <2>1. row = CASE op \in \h00..\h3F -> ExtRows00(y, r)
                [] op \in \h40..\h7F -> ExtRows01(y, r)
                [] op \in \h80..\hBF -> ExtRows10(y, r)
                [] op \in \hC0..\hFF -> ExtRows11(y, r)
    BY <1>3 DEF extended_instructions
  <2> HIDE DEF y
  <2> HIDE DEF r
  <2> QED BY SMTT(20), <1>3, <2>1
<1> HIDE DEF y
<1> HIDE DEF z
<1> HIDE DEF r
<1>5. /\ ExtRows00(y, r).op = Rotation[y + 1] /\ ExtRows00(y, r).args[1] = r
      /\ ExtRows01(y, r).op = "Bit" /\ ExtRows01(y, r).args[2] = r
      /\ ExtRows10(y, r).op = "ClearBit" /\ ExtRows11(y, r).op = "SetBit"
  BY DEF ExtRows00, ExtRows01, ExtRows10, ExtRows11, Ins
<1>6. Rotation[y + 1] # "Bit" /\ (Rotation[y + 1] = "RotateLeft" <=> y = 2)
  <2>1. y = 0 \/ y = 1 \/ y = 2 \/ y = 3 \/ y = 4 \/ y = 5 \/ y = 6 \/ y = 7
    BY <1>1
  <2> QED BY <2>1 DEF Rotation
<1>7. CASE op \in \h00..\h3F
  <2>1. row = ExtRows00(y, r) /\ op = 8 * y + z
    BY <1>1, <1>4, <1>7
  <2>2. y = 2 => op \in \h10..\h17 /\ (z = 6 => op = \h16)
    BY <1>1, <2>1
  <2> QED BY <1>2, <1>5, <1>6, <2>1, <2>2
<1>8. CASE op \in \h40..\h7F
  BY <1>2, <1>4, <1>5, <1>8
<1>9. CASE op \in \h80..\hBF
  BY <1>4, <1>5, <1>9
<1>10. CASE op \in \hC0..\hFF
  BY <1>4, <1>5, <1>10
<1> QED
  BY <1>1, <1>7, <1>8, <1>9, <1>10

\* The conditions the opcodes of branches stand for.
ConditionRow(op, condition) ==
  \/ condition = "Always" /\ op \in {\h18, \hC3, \hE9, \hCD, \hC9}
  \/ condition = "NZ" /\ op \in {\h20, \hC2, \hC4, \hC0}
  \/ condition = "Z"  /\ op \in {\h28, \hCA, \hCC, \hC8}
  \/ condition = "NC" /\ op \in {\h30, \hD2, \hD4, \hD0}
  \/ condition = "C"  /\ op \in {\h38, \hDA, \hDC, \hD8}

\* The operands of the opcodes that load,
Small == Reg8 \cup {"PtrHL"}

LoadRow(op, to, from) ==
  \/ op \in {\h01, \h11, \h21, \h31} /\ to \in Direct /\ from = "D16" /\ (to = "SP" => op = \h31)
  \/ op = \h02 /\ to = "PtrBC" /\ from = "A"
  \/ op = \h12 /\ to = "PtrDE" /\ from = "A"
  \/ op \in {\h22, \h32} /\ to \in {"PtrHLIncr", "PtrHLDecr"} /\ from = "A"
  \/ op \in {\h0A, \h1A, \h2A, \h3A} /\ to = "A" /\ from \in Pointers
  \/ /\ op \in {\h06, \h0E, \h16, \h1E, \h26, \h2E, \h36, \h3E} /\ to \in Small /\ from = "D8"
     /\ to = "PtrHL" => op = \h36
  \/ op \in \h40..\h7F /\ to \in Small /\ from \in Small /\ (to = "PtrHL" => op \in \h70..\h77)
  \/ op = \hF8 /\ to = "HL" /\ from = "SPR8"
  \/ op = \hF9 /\ to = "SP" /\ from = "HL"
  \/ op = \hE2 /\ to = "PtrC" /\ from = "A"
  \/ op = \hEA /\ to = "PtrD16" /\ from = "A"
  \/ op = \hF2 /\ to = "A" /\ from = "PtrC"
  \/ op = \hFA /\ to = "A" /\ from = "PtrD16"

\* add,
AddRow(op, to, from) ==
  \/ op \in {\h09, \h19, \h29, \h39} /\ to = "HL" /\ from \in {"BC", "DE", "HL", "SP"}
  \/ op = \hE8 /\ to = "SP" /\ from = "D8"
  \/ op = \hC6 /\ to = "A" /\ from = "D8"
  \/ op \in \h80..\h87 /\ to = "A" /\ from \in Small

\* compute with A otherwise (y counts the operations),
ArithmeticOperand(op, y, from) ==
  \/ op = \hC6 + 8 * y /\ from = "D8"
  \/ op \in (\h80 + 8 * y)..(\h87 + 8 * y) /\ from \in Small

\* and count.
IncRow(op, field) ==
  \/ op \in {\h03, \h13, \h23, \h33} /\ field \in Direct /\ (field = "SP" => op = \h33)
  \/ /\ op \in {\h04, \h0C, \h14, \h1C, \h24, \h2C, \h34, \h3C} /\ field \in Small
     /\ field = "PtrHL" => op = \h34
DecRow(op, field) ==
  \/ op \in {\h0B, \h1B, \h2B, \h3B} /\ field \in Direct /\ (field = "SP" => op = \h3B)
  \/ /\ op \in {\h05, \h0D, \h15, \h1D, \h25, \h2D, \h35, \h3D} /\ field \in Small
     /\ field = "PtrHL" => op = \h35

\* What a row of the main table may be.
RowOK(op, row) ==
  /\ row.op = "Nop"  => op = \h00
  /\ row.op = "Load" => LoadRow(op, row.args[1], row.args[2])
  /\ row.op = "Add"  => AddRow(op, row.args[1], row.args[2])
  /\ row.op = "Sub"  => ArithmeticOperand(op, 2, row.args[1])
  /\ row.op = "Xor"  => ArithmeticOperand(op, 5, row.args[1])
  /\ row.op = "Compare" => ArithmeticOperand(op, 7, row.args[1])
  /\ row.op = "Inc"  => IncRow(op, row.args[1])
  /\ row.op = "Dec"  => DecRow(op, row.args[1])
  /\ row.op = "JumpRelative" =>
       op \in RelativeJumps /\ ConditionRow(op, row.args[1]) /\ row.args[2] = "D8"
  /\ row.op = "Jump" =>
       /\ op \in Jumps /\ ConditionRow(op, row.args[1])
       /\ row.args[2] = IF op = \hE9 THEN "PtrHL" ELSE "D16"
  /\ row.op = "Call" => op \in Calls /\ ConditionRow(op, row.args[1]) /\ row.args[2] = "D16"
  /\ row.op = "Ret"  => op \in Returns /\ ConditionRow(op, row.args[1])
  /\ row.op = "Push" => op \in {\hC5, \hD5, \hE5, \hF5} /\ row.args[1] \in Pairs
  /\ row.op = "Pop"  => op \in {\hC1, \hD1, \hE1, \hF1} /\ row.args[1] \in Pairs
  /\ row.op = "PrefixCB" => op = \hCB

\* The fields of a row.
LEMMA InsFields ==
  ASSUME NEW op, NEW args, NEW cycles
  PROVE  Ins(op, args, cycles).op = op /\ Ins(op, args, cycles).args = args
BY DEF Ins

\* The rows 00 to 3F.
LEMMA Rows00OK ==
  ASSUME NEW y \in 0..7, NEW z \in 0..7
  PROVE  RowOK(8 * y + z, Rows00(y, z))
<1> DEFINE row == Rows00(y, z)
<1> DEFINE pair == Operand16[(y \div 2) + 1]
<1> DEFINE ptr == PtrOperand[(y \div 2) + 1]
<1> DEFINE r == Operand8[y + 1]
<1>1. y = 0 \/ y = 1 \/ y = 2 \/ y = 3 \/ y = 4 \/ y = 5 \/ y = 6 \/ y = 7
  OBVIOUS
<1>2. r \in Small /\ (r = "PtrHL" <=> y = 6)
  BY EightBitOperands DEF Small
<1>3. pair \in {"BC", "DE", "HL", "SP"} /\ (pair = "SP" <=> y \in {6, 7})
  BY <1>1 DEF Operand16
<1>4. /\ ptr \in Pointers /\ (y = 0 => ptr = "PtrBC") /\ (y = 2 => ptr = "PtrDE")
      /\ y \in {4, 6} => ptr \in {"PtrHLIncr", "PtrHLDecr"}
  BY <1>1 DEF PtrOperand, Pointers
<1>5. Null.op = "null"
  BY InsFields DEF Null
<1>6. CASE z = 0
  BY <1>1, <1>5, <1>6 DEF Rows00, RowOK, Ins, Condition, ConditionRow, RelativeJumps
<1> HIDE DEF pair
<1> HIDE DEF ptr
<1> HIDE DEF r
<1>7. CASE z = 1
  <2>1. y % 2 = 0 => row = Ins("Load", <<pair, "D16">>, 12)
    BY <1>7 DEF Rows00, pair
  <2>2. y % 2 # 0 => row = Ins("Add", <<"HL", pair>>, 8)
    BY <1>7 DEF Rows00, pair
  <2> HIDE DEF row
  <2>3. RowOK(8 * y + z, row)
    BY <1>1, <1>3, <1>7, <2>1, <2>2 DEF RowOK, Ins, LoadRow, AddRow, Direct, Pairs
  <2> QED BY <2>3 DEF row
<1>8. CASE z = 2
  <2>1. y % 2 = 0 => row = Ins("Load", <<ptr, "A">>, 8)
    BY <1>8 DEF Rows00, ptr
  <2>2. y % 2 # 0 => row = Ins("Load", <<"A", ptr>>, 8)
    BY <1>8 DEF Rows00, ptr
  <2> HIDE DEF row
  <2>3. RowOK(8 * y + z, row)
    BY <1>1, <1>4, <1>8, <2>1, <2>2 DEF RowOK, Ins, LoadRow
  <2> QED BY <2>3 DEF row
<1>9. CASE z = 3
  <2>1. row = Ins(IF y % 2 = 0 THEN "Inc" ELSE "Dec", <<pair>>, 8)
    BY <1>9 DEF Rows00, pair
  <2> HIDE DEF row
  <2>2. RowOK(8 * y + z, row)
    BY <1>1, <1>3, <1>9, <2>1 DEF RowOK, Ins, IncRow, DecRow, Direct, Pairs
  <2> QED BY <2>2 DEF row
<1>10. CASE z = 4
  <2>1. row = Ins("Inc", <<r>>, MemoryOr(r, r, 12, 4))
    BY <1>10 DEF Rows00, r
  <2> HIDE DEF row
  <2>2. RowOK(8 * y + z, row)
    BY <1>1, <1>2, <1>10, <2>1 DEF RowOK, Ins, IncRow
  <2> QED BY <2>2 DEF row
<1>11. CASE z = 5
  <2>1. row = Ins("Dec", <<IF y = 2 THEN "E" ELSE r>>, MemoryOr(r, r, 12, 4))
    BY <1>11 DEF Rows00, r
  <2> HIDE DEF row
  <2>2. RowOK(8 * y + z, row)
    BY <1>1, <1>2, <1>11, <2>1 DEF RowOK, Ins, DecRow, Small, Reg8
  <2> QED BY <2>2 DEF row
<1>12. CASE z = 6
  <2>1. row = Ins("Load", <<r, "D8">>, MemoryOr(r, r, 12, 8))
    BY <1>12 DEF Rows00, r
  <2> HIDE DEF row
  <2>2. RowOK(8 * y + z, row)
    BY <1>1, <1>2, <1>12, <2>1 DEF RowOK, Ins, LoadRow
  <2> QED BY <2>2 DEF row
<1>13. CASE z = 7
  <2>1. row = Null
    BY <1>13 DEF Rows00
  <2> QED BY <1>5, <2>1 DEF RowOK
<1> QED
  BY <1>6, <1>7, <1>8, <1>9, <1>10, <1>11, <1>12, <1>13

\* The rows 40 to 7F.
LEMMA Rows01OK ==
  ASSUME NEW y \in 0..7, NEW z \in 0..7
  PROVE  RowOK(\h40 + 8 * y + z, Rows01(y, z))
<1> DEFINE row == Rows01(y, z)
<1> DEFINE to == Operand8[y + 1]
<1> DEFINE from == Operand8[z + 1]
<1>1. to \in Small /\ from \in Small /\ (to = "PtrHL" <=> y = 6)
  BY EightBitOperands DEF Small
<1>2. row = Null \/ row = Ins("Load", <<to, from>>, MemoryOr(to, from, 8, 4))
  BY DEF Rows01
<1>3. Null.op = "null"
  BY InsFields DEF Null
<1> HIDE DEF to
<1> HIDE DEF from
<1> HIDE DEF row
<1>4. RowOK(\h40 + 8 * y + z, row)
  BY <1>1, <1>2, <1>3 DEF RowOK, Ins, LoadRow
<1> QED
  BY <1>4 DEF row

\* The rows of the arithmetic with A, in a register or in the program.
LEMMA ArithmeticRowOK ==
  ASSUME NEW y \in 0..7, NEW op \in Byte, NEW from, NEW cycles,
         ArithmeticOperand(op, y, from)
  PROVE  RowOK(op, ArithmeticRow(y, from, cycles))
<1> DEFINE row == ArithmeticRow(y, from, cycles)
<1>1. y = 0 \/ y = 1 \/ y = 2 \/ y = 3 \/ y = 4 \/ y = 5 \/ y = 6 \/ y = 7
  OBVIOUS
<1>2. row = Ins(Arithmetic[y + 1], IF y \in {0, 1} THEN <<"A", from>> ELSE <<from>>, cycles)
  BY DEF ArithmeticRow
<1>3. /\ y = 0 => row = Ins("Add", <<"A", from>>, cycles)
      /\ y = 1 => row = Ins("AddCarry", <<"A", from>>, cycles)
      /\ y = 2 => row = Ins("Sub", <<from>>, cycles)
      /\ y = 3 => row = Ins("SubCarry", <<from>>, cycles)
      /\ y = 4 => row = Ins("And", <<from>>, cycles)
      /\ y = 5 => row = Ins("Xor", <<from>>, cycles)
      /\ y = 6 => row = Ins("Or", <<from>>, cycles)
      /\ y = 7 => row = Ins("Compare", <<from>>, cycles)
  BY <1>2 DEF Arithmetic
<1> HIDE DEF row
<1>4. op \in Int
  BY InByte
<1>5. y = 0 => AddRow(op, "A", from)
  BY <1>4 DEF ArithmeticOperand, AddRow
<1>6. RowOK(op, row)
  BY <1>1, <1>3, <1>5 DEF RowOK, Ins
<1> QED
  BY <1>6 DEF row

\* The rows 80 to BF.
LEMMA Rows10OK ==
  ASSUME NEW y \in 0..7, NEW z \in 0..7
  PROVE  RowOK(\h80 + 8 * y + z, Rows10(y, z))
<1> DEFINE from == Operand8[z + 1]
<1> DEFINE op == \h80 + 8 * y + z
<1>1. from \in Small
  BY EightBitOperands DEF Small
<1>2. Rows10(y, z) = ArithmeticRow(y, from, MemoryOr(from, from, 8, 4))
  BY DEF Rows10
<1> HIDE DEF from
<1>3. op \in Byte /\ ArithmeticOperand(op, y, from)
  BY <1>1, InByte DEF ArithmeticOperand
<1> HIDE DEF op
<1>4. RowOK(op, Rows10(y, z))
  BY <1>2, <1>3, ArithmeticRowOK
<1> QED
  BY <1>4 DEF op

\* The rows C0 to FF.
LEMMA Rows11OK ==
  ASSUME NEW y \in 0..7, NEW z \in 0..7
  PROVE  RowOK(\hC0 + 8 * y + z, Rows11(y, z))
<1> DEFINE row == Rows11(y, z)
<1> DEFINE pair == StackPair[(y \div 2) + 1]
<1>1. y = 0 \/ y = 1 \/ y = 2 \/ y = 3 \/ y = 4 \/ y = 5 \/ y = 6 \/ y = 7
  OBVIOUS
<1>2. pair \in Pairs
  BY SMTT(20), <1>1 DEF StackPair, Pairs
<1>3. Null.op = "null"
  BY InsFields DEF Null
<1>4. CASE z = 0
  BY <1>1, <1>3, <1>4
  DEF Rows11, RowOK, Ins, Condition, ConditionRow, Returns, AddRow, LoadRow
<1>5. CASE z = 1
  <2>1. y % 2 = 0 => row = Ins("Pop", <<pair>>, 12)
    BY <1>5 DEF Rows11
  <2> HIDE DEF pair
  <2>2. y % 2 = 0 => RowOK(\hC0 + 8 * y + z, row)
    <3> HIDE DEF row
    <3> QED BY <1>1, <1>2, <1>5, <2>1 DEF RowOK, Ins
  <2>3. y % 2 # 0 => RowOK(\hC0 + 8 * y + z, row)
    BY SMTT(20), <1>1, <1>3, <1>5 DEF Rows11, RowOK, Ins, ConditionRow, Returns, Jumps, LoadRow
  <2> QED BY <2>2, <2>3
<1>6. CASE z = 2
  BY SMTT(20), <1>1, <1>3, <1>6 DEF Rows11, RowOK, Ins, Condition, ConditionRow, Jumps, LoadRow
<1>7. CASE z = 3
  BY <1>1, <1>3, <1>7 DEF Rows11, RowOK, Ins, ConditionRow, Jumps
<1>8. CASE z = 4
  BY <1>1, <1>3, <1>8 DEF Rows11, RowOK, Ins, Condition, ConditionRow, Calls
<1>9. CASE z = 5
  <2>1. y % 2 = 0 => row = Ins("Push", <<pair>>, 16)
    BY <1>9 DEF Rows11
  <2> HIDE DEF pair
  <2>2. y % 2 = 0 => RowOK(\hC0 + 8 * y + z, row)
    <3> HIDE DEF row
    <3> QED BY <1>1, <1>2, <1>9, <2>1 DEF RowOK, Ins
  <2>3. y % 2 # 0 => RowOK(\hC0 + 8 * y + z, row)
    BY <1>1, <1>3, <1>9 DEF Rows11, RowOK, Ins, ConditionRow, Calls
  <2> QED BY <2>2, <2>3
<1>10. CASE z = 6
  <2>1. row = ArithmeticRow(y, "D8", 8)
    BY <1>10 DEF Rows11
  <2>2. \hC0 + 8 * y + z \in Byte /\ ArithmeticOperand(\hC0 + 8 * y + z, y, "D8")
    BY <1>10, InByte DEF ArithmeticOperand
  <2> QED BY <2>1, <2>2, ArithmeticRowOK
<1>11. CASE z = 7
  <2>1. row = Null
    BY <1>11 DEF Rows11
  <2> QED BY <1>3, <2>1 DEF RowOK
<1> QED
  BY <1>4, <1>5, <1>6, <1>7, <1>8, <1>9, <1>10, <1>11

\* Every row of the main table.
LEMMA TableOK ==
  ASSUME NEW op \in Byte
  PROVE  RowOK(op, instructions[op])
<1> DEFINE y == (op \div 8) % 8
<1> DEFINE z == op % 8
<1>1. /\ y \in 0..7 /\ z \in 0..7
      /\ op \in \h00..\h3F => op = 8 * y + z
      /\ op \in \h40..\h7F => op = \h40 + 8 * y + z
      /\ op \in \h80..\hBF => op = \h80 + 8 * y + z
      /\ op \in \hC0..\hFF => op = \hC0 + 8 * y + z
      /\ op \in \h00..\h3F \/ op \in \h40..\h7F \/ op \in \h80..\hBF \/ op \in \hC0..\hFF
  BY Fields
<1>2. op \in 0..\hFF
  BY InByte
<1>3. instructions[op] = CASE op \in \h00..\h3F -> Rows00(y, z)
                           [] op \in \h40..\h7F -> Rows01(y, z)
                           [] op \in \h80..\hBF -> Rows10(y, z)
                           [] op \in \hC0..\hFF -> Rows11(y, z)
  BY <1>2 DEF instructions
<1> HIDE DEF y
<1> HIDE DEF z
<1>4. CASE op \in \h00..\h3F
  <2>1. instructions[op] = Rows00(y, z)
    BY SMTT(20), <1>2, <1>3, <1>4
  <2> QED BY <1>1, <1>4, <2>1, Rows00OK
<1>5. CASE op \in \h40..\h7F
  <2>1. instructions[op] = Rows01(y, z)
    BY <1>2, <1>3, <1>5
  <2> QED BY <1>1, <1>5, <2>1, Rows01OK
<1>6. CASE op \in \h80..\hBF
  <2>1. instructions[op] = Rows10(y, z)
    BY <1>2, <1>3, <1>6
  <2> QED BY <1>1, <1>6, <2>1, Rows10OK
<1>7. CASE op \in \hC0..\hFF
  <2>1. instructions[op] = Rows11(y, z)
    BY <1>2, <1>3, <1>7
  <2> QED BY <1>1, <1>7, <2>1, Rows11OK
<1> QED
  BY <1>1, <1>4, <1>5, <1>6, <1>7

-----------------------------------------------------------------------------
(* The prefix 0xCB *)

\* A bit test keeps the carry.
LEMMA TestKeepsCarry ==
  ASSUME NEW v, NEW f, NEW n
  PROVE  ("Carry" \in AluBit(n, v, f)) = ("Carry" \in f)
BY DEF AluBit, FlagIf

\* Rotations write (HL) or a register, bit tests neither; both continue after the two
\* opcodes, and what is not implemented stops there.
LEMMA CbEffect ==
  ASSUME MemorySize = 0, NEW s, StateOK(s), s.status = "running",
         NEW t, t = process_cb(s), NEW op, op = ByteAt(s.pc, s)
  PROVE  /\ StateOK(t) /\ t.sp = s.sp
         /\ Result(IF op = \h16 THEN {Pair("HL", s)} ELSE {}, uint16(s.pc + 1), s, t)
         /\ ("Carry" \in t.flags) # ("Carry" \in s.flags) => op \in \h10..\h17
         /\ t.flags # s.flags => op \in \h10..\h17 \/ op \in \h40..\h7F
<1> DEFINE f == Fetch(s)
<1> DEFINE row == extended_instructions[f.val]
<1> DEFINE bit == Bit(row.args[1], row.args[2], f.st)
<1> DEFINE rotated == RotateLeft(row.args[1], f.st)
<1> DEFINE done == CASE row.op = "Bit"        -> bit
                     [] row.op = "RotateLeft" -> rotated
                     [] OTHER                 -> Then(f.st, panic(f.st))
<1> DEFINE A == IF op = \h16 THEN {Pair("HL", s)} ELSE {}
<1> DEFINE Good(u) ==
         /\ StateOK(u) /\ u.sp = s.sp
         /\ Result(A, uint16(s.pc + 1), s, u)
         /\ ("Carry" \in u.flags) # ("Carry" \in s.flags) => op \in \h10..\h17
         /\ u.flags # s.flags => op \in \h10..\h17 \/ op \in \h40..\h7F
<1>1. f.val = op /\ Consumed(1, s, f.st) /\ StateOK(f.st)
  BY FetchEffect, FetchType
<1>2. op \in Byte
  BY Members, ByteAtByte
<1>3. /\ row.op = "Bit" => op \in \h40..\h7F /\ row.args[2] \in Small
      /\ row.op = "RotateLeft" =>
           /\ op \in \h10..\h17 /\ row.args[1] \in Small
           /\ row.args[1] = "PtrHL" => op = \h16
  BY <1>1, <1>2, ExtendedRows DEF Small
<1>4. t = Charge(row.cycles, done) /\ row.cycles \in Int
  BY <1>1, <1>2, ExtendedInstructionCycles DEF process_cb
<1>5. bit = SetFlags(AluBit(row.args[1], Get(row.args[2], f.st).val, Get(row.args[2], f.st).st.flags),
                     Get(row.args[2], f.st).st)
  BY DEF Bit
<1>6. rotated = Set(row.args[1],
                    AluRotateLeft(Get(row.args[1], f.st).val, Get(row.args[1], f.st).st.flags).result,
                    SetFlags(AluRotateLeft(Get(row.args[1], f.st).val,
                                           Get(row.args[1], f.st).st.flags).flags,
                             Get(row.args[1], f.st).st))
  BY DEF RotateLeft
<1>7. StateOK(bit) /\ StateOK(rotated)
  BY <1>1, BitType, RotateLeftType
<1>8. \A x \in Small : /\ Used(x) = 0 /\ x \in Written
                       /\ x \notin {"PtrHLIncr", "PtrHLDecr"} /\ x # "SP"
  BY DEF Small, Used, Written, Reg8, Pointers
<1>9. f.st.status = "running" => f.st.pc = uint16(s.pc + 1) /\ uint16(f.st.pc + 0) = f.st.pc
  <2>1. f.st.pc \in Word /\ f.st.pc \in Int
    BY <1>1, Members, WordSteps
  <2>2. uint16(f.st.pc + 0) = f.st.pc
    BY <2>1, Conversions
  <2> QED BY <1>1, <2>2 DEF Consumed
<1> HIDE DEF f
<1> HIDE DEF row
<1> HIDE DEF bit
<1> HIDE DEF rotated
<1>10. Kept(s, f.st) /\ f.st.reg = s.reg /\ f.st.sp = s.sp /\ f.st.flags = s.flags
       /\ f.st.cycles = s.cycles
  BY <1>1 DEF Consumed, Registers
<1>11. ASSUME NEW u, NEW B, B \subseteq A, Result(B, f.st.pc, f.st, u),
              f.st.status = "running"
       PROVE  Result(A, uint16(s.pc + 1), s, u)
  <2>1. Differ(s, u) = Differ(f.st, u)
    BY <1>10 DEF Differ, Kept
  <2>2. Wrote(A, s, u)
    BY <1>10, <1>11, <2>1 DEF Result, Wrote, Kept
  <2> QED BY <1>9, <1>10, <1>11, <2>1, <2>2 DEF Result
<1>12. ASSUME f.st.status # "running"
       PROVE  Good(f.st)
  <2>1. Result(A, uint16(s.pc + 1), s, f.st)
    BY <1>10, <1>12, KeptWrote, KeptResult
  <2> QED BY <1>1, <1>10, <2>1
<1>13. Good(done)
  <2>1. CASE f.st.status # "running"
    <3>1. row.op = "Bit" => bit = f.st
      BY <1>1, <1>5, <2>1, GetEffect, StoppedStays
    <3>2. row.op = "RotateLeft" => rotated = f.st
      <4>1. SUFFICES ASSUME row.op = "RotateLeft" PROVE rotated = f.st
        OBVIOUS
      <4>2. Get(row.args[1], f.st).st = f.st
        BY <1>1, <2>1, GetEffect
      <4>3. \A y : SetFlags(y, f.st) = f.st
        BY <2>1, StoppedStays
      <4>4. AluRotateLeft(Get(row.args[1], f.st).val, Get(row.args[1], f.st).st.flags).result \in Int
        BY <1>1, Operand, AluRotateLeftType
      <4>5. row.args[1] \in Written
        BY <1>3, <1>8, <4>1
      <4> QED BY <1>1, <1>6, <2>1, <4>2, <4>3, <4>4, <4>5, SetEffect
    <3>3. Then(f.st, panic(f.st)) = f.st
      BY <2>1, StoppedStays
    <3>4. done = f.st
      BY <3>1, <3>2, <3>3
    <3> QED BY <1>12, <2>1, <3>4
  <2>2. CASE f.st.status = "running" /\ row.op = "Bit"
    <3> DEFINE flags == AluBit(row.args[1], Get(row.args[2], f.st).val,
                               Get(row.args[2], f.st).st.flags)
    <3>1. row.args[2] \in Small /\ op \in \h40..\h7F
      BY <1>3, <2>2
    <3>2. flags \in SUBSET FlagNames
      BY <1>1, Operand, AluBitType
    <3>3. Get(row.args[2], f.st).st.flags = s.flags
      BY <1>1, <1>10, GetEffect
    <3>4. ("Carry" \in flags) = ("Carry" \in s.flags)
      BY <3>3, TestKeepsCarry
    <3>5. bit = SetFlags(flags, Get(row.args[2], f.st).st)
      BY <1>5
    <3> HIDE DEF flags
    <3>6. /\ Result({}, uint16(f.st.pc + Used(row.args[2])), f.st, bit)
          /\ bit.sp = f.st.sp /\ bit.flags \in {f.st.flags, flags}
      <4>1. /\ StateOK(f.st) /\ f.st.status = "running"
            /\ row.args[2] \notin {"PtrHLIncr", "PtrHLDecr"}
        BY <1>1, <1>8, <2>2, <3>1
      <4> HIDE DEF A
      <4> HIDE DEF done
      <4> QED BY <3>2, <3>5, <4>1, FlagsOnlyEffect
    <3>7. Result({}, f.st.pc, f.st, bit)
      BY <1>8, <1>9, <2>2, <3>1, <3>6
    <3>8. Result(A, uint16(s.pc + 1), s, bit)
      BY <1>11, <2>2, <3>7
    <3>9. done = bit
      BY <2>2
    <3> QED BY <1>7, <1>10, <3>1, <3>4, <3>6, <3>8, <3>9
  <2>3. CASE f.st.status = "running" /\ row.op = "RotateLeft"
    <3> DEFINE alu == AluRotateLeft(Get(row.args[1], f.st).val, Get(row.args[1], f.st).st.flags)
    <3>1. row.args[1] \in Small /\ op \in \h10..\h17 /\ (row.args[1] = "PtrHL" => op = \h16)
      BY <1>3, <2>3
    <3>2. alu.result \in Int /\ alu.flags \in SUBSET FlagNames
      BY <1>1, Operand, AluRotateLeftType
    <3>3. rotated = Set(row.args[1], alu.result, SetFlags(alu.flags, Get(row.args[1], f.st).st))
      BY <1>6
    <3> HIDE DEF alu
    <3>4. row.args[1] \in Direct \cup {"PtrHL"}
      BY <3>1 DEF Small, Direct
    <3>5. Result(Behind(row.args[1], f.st), f.st.pc, f.st, rotated) /\ rotated.sp = f.st.sp
      <4>1. /\ Result(Behind(row.args[1], f.st), f.st.pc, f.st, rotated)
            /\ Operated(row.args[1], alu.flags, f.st, rotated)
        BY <1>1, <2>3, <3>2, <3>3, <3>4, UpdateEffect
      <4> QED BY <1>8, <3>1, <4>1 DEF Operated
    <3>6. Behind(row.args[1], f.st) \subseteq A
      <4>1. Address("PtrHL", f.st) = Pair("HL", s)
        BY <1>10 DEF Address, Pair
      <4>2. row.args[1] = "PtrHL" => Behind(row.args[1], f.st) = {Pair("HL", s)}
        BY <4>1 DEF Behind, Pointers
      <4>3. row.args[1] # "PtrHL" => Behind(row.args[1], f.st) = {}
        BY <3>1 DEF Behind, Small, Reg8, Pointers
      <4> QED BY <3>1, <4>2, <4>3
    <3>7. Result(A, uint16(s.pc + 1), s, rotated)
      BY <1>11, <2>3, <3>5, <3>6
    <3>8. done = rotated
      BY <2>3
    <3> QED BY <1>7, <1>10, <3>1, <3>5, <3>7, <3>8
  <2>4. CASE f.st.status = "running" /\ row.op # "Bit" /\ row.op # "RotateLeft"
    <3>1. done = panic(f.st)
      BY <2>4 DEF Then
    <3>2. Kept(f.st, panic(f.st)) /\ Registers(f.st, panic(f.st)) /\ panic(f.st).status # "running"
      BY <1>1, PanicEffect
    <3>3. Result({}, f.st.pc, f.st, panic(f.st))
      BY <3>2, KeptWrote, KeptResult DEF Registers
    <3>4. Result(A, uint16(s.pc + 1), s, panic(f.st))
      BY <1>11, <2>4, <3>3
    <3>5. StateOK(panic(f.st))
      BY <1>1, PanicType
    <3> QED BY <1>10, <3>1, <3>2, <3>4, <3>5 DEF Registers
  <2> QED BY <2>1, <2>2, <2>3, <2>4
<1> HIDE DEF done
<1>14. done.status # "running" => t = done
  BY <1>4, StoppedStays
<1>15. done.status = "running" =>
         /\ Kept(done, t) /\ t.status = "running" /\ t.pc = done.pc
         /\ t.reg = done.reg /\ t.sp = done.sp /\ t.flags = done.flags
  BY <1>4, <1>13, ChargeEffect
<1>16. StateOK(t)
  BY <1>4, <1>13, ChargeType
<1>17. Result(A, uint16(s.pc + 1), s, t)
  <2>1. done.status = "running" => Differ(s, t) = Differ(s, done)
    BY <1>15 DEF Differ, Kept
  <2> QED BY <1>13, <1>14, <1>15, <2>1 DEF Result, Wrote, Kept
<1> QED
  BY <1>13, <1>14, <1>15, <1>16, <1>17

-----------------------------------------------------------------------------
(* Instructions *)

\* What a stop leaves, pc apart.
HaltsClean ==
  ~Returned =>
    /\ state'.reg = state.reg /\ state'.sp = state.sp /\ state'.cycles = state.cycles
    /\ Differ(state, state') \subseteq {state.sp}

\* What every instruction keeps to.
Lawful == WritesNamed /\ Continues /\ FlagsKept /\ HaltsClean /\ StackStep

Branching == RelativeJumps \cup Jumps \cup Calls \cup Returns

\* The machine once the opcode is fetched.
LEMMA FetchedFacts ==
  ASSUME TypeOK
  PROVE  /\ StateOK(Fetched.st) /\ Opcode \in Byte /\ Current = instructions[Opcode]
         /\ RowOK(Opcode, Current) /\ Current.cycles \in Int
         /\ Kept(state, Fetched.st) /\ Registers(state, Fetched.st)
         /\ Fetched.st.status = "running" =>
              /\ Fetched.st.pc = uint16(state.pc + 1)
              /\ ByteAt(Fetched.st.pc, Fetched.st) = Operand1
              /\ ByteAt(uint16(Fetched.st.pc + 1), Fetched.st) = Operand2
<1>1. StateOK(state)
  BY DEF TypeOK
<1>2. Fetched.val = Opcode /\ Consumed(1, state, Fetched.st) /\ StateOK(Fetched.st)
  BY <1>1, FetchEffect, FetchType DEF Fetched, Opcode
<1>3. Opcode \in Byte
  BY <1>1, Members, ByteAtByte DEF Opcode
<1>4. Current = instructions[Opcode]
  BY <1>2 DEF Current
<1>5. RowOK(Opcode, Current) /\ Current.cycles \in Int
  BY <1>3, <1>4, TableOK, InstructionCycles DEF Charges
<1>6. state.pc \in Int /\ uint16(uint16(state.pc + 1) + 1) = uint16(state.pc + 2)
  BY <1>1, Members, WordSteps, WrapsOnce
<1>7. ASSUME Fetched.st.status = "running"
      PROVE  /\ Fetched.st.pc = uint16(state.pc + 1)
             /\ ByteAt(Fetched.st.pc, Fetched.st) = Operand1
             /\ ByteAt(uint16(Fetched.st.pc + 1), Fetched.st) = Operand2
  <2>1. Kept(state, Fetched.st) /\ Fetched.st.pc = uint16(state.pc + 1)
    BY <1>2, <1>7 DEF Consumed
  <2>2. ByteAt(Fetched.st.pc, Fetched.st) = Operand1
    BY <2>1, KeptBytes DEF Operand1
  <2>3. ByteAt(uint16(Fetched.st.pc + 1), Fetched.st) = Operand2
    BY <1>6, <2>1, KeptBytes DEF Operand2
  <2> QED BY <2>1, <2>2, <2>3
<1> QED
  BY <1>2, <1>3, <1>4, <1>5, <1>7 DEF Consumed

\* An operation whose outcome fits its opcode makes a lawful instruction.
LEMMA StepLaws ==
  ASSUME TypeOK, Fetched.st.status = "running",
         NEW t, StateOK(t), state' = Charge(Current.cycles, t),
         NEW A, A \subseteq MayWrite,
         NEW p, ~(Opcode \in Jumps /\ Branches) => p = ResumesAt,
         Result(A, p, Fetched.st, t),
         ("Carry" \in t.flags) # ("Carry" \in state.flags) => MayCarry,
         t.flags # state.flags => MayFlag,
         t.status = "running" =>
           \/ t.sp = state.sp
           \/ Opcode \in {\h31, \h33, \h3B, \hE8, \hF9}
           \/ t.sp = uint16(state.sp - 2) /\ MayWrite = {state.sp, uint16(state.sp - 1)}
           \/ /\ t.sp = uint16(state.sp + 2)
              /\ Opcode \in {\hC1, \hD1, \hE1, \hF1, \hC9, \hC0, \hC8, \hD0, \hD8}
  PROVE  Lawful
<1> DEFINE s == Fetched.st
<1>1. Kept(state, s) /\ Registers(state, s) /\ Current.cycles \in Int
  BY FetchedFacts
<1> HIDE DEF s
<1>2. Result(A, p, s, t)
  BY DEF s
<1>3. t.status # "running" => state' = t
  BY StoppedStays
<1>4. t.status = "running" =>
        /\ Kept(t, state') /\ state'.status = "running" /\ state'.pc = t.pc
        /\ state'.reg = t.reg /\ state'.sp = t.sp /\ state'.flags = t.flags
  BY ChargeEffect
<1>5. Differ(state, state') = Differ(s, t)
  BY <1>1, <1>3, <1>4 DEF Differ, Kept
<1>6. /\ state'.boot_rom_enabled = t.boot_rom_enabled /\ state'.flags = t.flags
      /\ state'.rom = t.rom /\ state'.memory = t.memory
  BY <1>3, <1>4 DEF Kept
<1>7. WritesNamed
  BY <1>1, <1>2, <1>5, <1>6 DEF WritesNamed, Result, Wrote, Kept
<1>8. Continues
  BY <1>2, <1>3, <1>4 DEF Continues, Returned, Result
<1>9. FlagsKept
  BY <1>6 DEF FlagsKept
<1>10. HaltsClean
  BY <1>1, <1>2, <1>3, <1>4, <1>5 DEF HaltsClean, Returned, Result, Registers
<1>11. StackStep
  BY <1>3, <1>4 DEF StackStep, Returned
<1> QED
  BY <1>7, <1>8, <1>9, <1>10, <1>11 DEF Lawful

\* What does not branch continues after its last byte.
LEMMA StraightOn ==
  ASSUME TypeOK, Fetched.st.status = "running", Opcode \notin Branching,
         NEW n \in Nat, Length = 1 + n
  PROVE  uint16(Fetched.st.pc + n) = ResumesAt
<1>1. ResumesAt = uint16(state.pc + Length)
  BY DEF ResumesAt, Branches, Branching
<1>2. Fetched.st.pc = uint16(state.pc + 1)
  BY FetchedFacts
<1>3. state.pc \in Int /\ state.pc + 1 \in Int /\ n \in Int
  BY Members, WordSteps DEF TypeOK
<1>4. \A m, k \in Int : uint16(uint16(m) + k) = uint16(m + k)
  BY WrapsOnce
<1>5. uint16(uint16(state.pc + 1) + n) = uint16((state.pc + 1) + n)
  BY <1>3, <1>4
<1>6. (state.pc + 1) + n = state.pc + Length
  BY <1>3
<1> QED
  BY <1>1, <1>2, <1>5, <1>6

\* What the opcode says of an operation that reads `from' and writes `to'.
Shape(to, from) ==
  /\ to \in Written
  /\ to \in Direct \/ from \notin {"PtrHLIncr", "PtrHLDecr"}
  /\ Used(to) = 0 \/ Used(from) = 0
  /\ Length = 1 + (Used(from) + Used(to))
  /\ Opcode \notin Branching
  /\ Behind(to, Fetched.st) \subseteq MayWrite
  /\ to = "SP" => Opcode \in {\h31, \h33, \h3B, \hE8, \hF9}

\* Loads, and arithmetic that stores its result.
LEMMA OperateStep ==
  ASSUME MemorySize = 0, TypeOK, Fetched.st.status = "running",
         NEW to, NEW from, Shape(to, from),
         NEW v \in Int, NEW f \in SUBSET FlagNames,
         NEW t, t = Set(to, v, SetFlags(f, Get(from, Fetched.st).st)),
         state' = Charge(Current.cycles, t),
         ("Carry" \in f) # ("Carry" \in state.flags) => MayCarry,
         f # state.flags => MayFlag
  PROVE  Lawful
<1> DEFINE s == Fetched.st
<1> DEFINE n == Used(from) + Used(to)
<1>1. StateOK(s) /\ s.status = "running" /\ Registers(state, s)
  BY FetchedFacts
<1>2. /\ to \in Written /\ (to \in Direct \/ from \notin {"PtrHLIncr", "PtrHLDecr"})
      /\ (Used(to) = 0 \/ Used(from) = 0)
      /\ Behind(to, s) \subseteq MayWrite
      /\ (to = "SP" => Opcode \in {\h31, \h33, \h3B, \hE8, \hF9})
  BY DEF Shape
<1>3. uint16(s.pc + n) = ResumesAt
  <2>1. n \in Nat
    BY DEF Used
  <2>2. Length = 1 + n /\ Opcode \notin Branching
    BY DEF Shape
  <2> HIDE DEF n
  <2> QED BY <2>1, <2>2, StraightOn
<1>4. t = Set(to, v, SetFlags(f, Get(from, s).st))
  OBVIOUS
<1>5. StateOK(t)
  <2>1. StateOK(SetFlags(f, Get(from, s).st))
    BY <1>1, Operand, SetFlagsType
  <2> QED BY <1>4, <2>1, SetType
<1> HIDE DEF s
<1>6. Result(Behind(to, s), Past(to, from, s), s, t) /\ Operated(to, f, s, t)
  <2>1. StateOK(s) /\ s.status = "running"
    BY <1>1
  <2>2. to \in Written
    BY <1>2
  <2>3. to \in Direct \/ from \notin {"PtrHLIncr", "PtrHLDecr"}
    BY <1>2
  <2>4. Used(to) = 0 \/ Used(from) = 0
    BY <1>2
  <2> QED BY <1>4, <2>1, <2>2, <2>3, <2>4, OperateEffect
<1>7. Result(Behind(to, s), ResumesAt, s, t)
  BY <1>3, <1>6 DEF Past
<1>8. t.flags \in {state.flags, f} /\ (to # "SP" => t.sp = state.sp)
  BY <1>1, <1>6 DEF Operated, Registers
<1>9. Result(Behind(to, s), ResumesAt, Fetched.st, t)
  BY <1>7 DEF s
<1>10. /\ ("Carry" \in t.flags) # ("Carry" \in state.flags) => MayCarry
       /\ t.flags # state.flags => MayFlag
  BY <1>8
<1>11. t.sp = state.sp \/ Opcode \in {\h31, \h33, \h3B, \hE8, \hF9}
  BY <1>2, <1>8
<1> QED
  BY <1>2, <1>5, <1>9, <1>10, <1>11, StepLaws

\* The addresses behind the operands of the next instruction.
LEMMA BehindFacts ==
  ASSUME TypeOK, Fetched.st.status = "running", NEW x
  PROVE  /\ x \in Direct => Behind(x, Fetched.st) = {}
         /\ x = "PtrBC" => Behind(x, Fetched.st) = {Pair("BC", state)}
         /\ x = "PtrDE" => Behind(x, Fetched.st) = {Pair("DE", state)}
         /\ x \in {"PtrHL", "PtrHLIncr", "PtrHLDecr"} =>
              Behind(x, Fetched.st) = {Pair("HL", state)}
         /\ x = "PtrC" => Behind(x, Fetched.st) = {\hFF00 + state.reg["C"]}
         /\ x = "PtrD16" => Behind(x, Fetched.st) = {Join(Operand2, Operand1)}
<1> DEFINE s == Fetched.st
<1>1. s.reg = state.reg
  BY FetchedFacts DEF Registers
<1>2. Address(x, s) = Address(x, state)
  BY <1>1, AddressRegisters
<1>3. x = "PtrD16" => Behind(x, s) = {Join(Operand2, Operand1)}
  BY FetchedFacts DEF Behind, Pointers
<1> HIDE DEF s
<1>4. x \in Direct => Behind(x, s) = {}
  BY DEF Behind, Direct, Reg8, Pairs, Pointers
<1>5. x \in Pointers => Behind(x, s) = {Address(x, state)}
  BY <1>2 DEF Behind
<1>6. /\ x = "PtrBC" => Address(x, state) = Pair("BC", state) /\ x \in Pointers
      /\ x = "PtrDE" => Address(x, state) = Pair("DE", state) /\ x \in Pointers
      /\ x \in {"PtrHL", "PtrHLIncr", "PtrHLDecr"} =>
           Address(x, state) = Pair("HL", state) /\ x \in Pointers
      /\ x = "PtrC" => Address(x, state) = \hFF00 + state.reg["C"] /\ x \in Pointers
  BY DEF Address, Pointers
<1> QED
  BY <1>3, <1>4, <1>5, <1>6 DEF s

\* Operand bytes, operand by operand.
LEMMA UsedFacts ==
  ASSUME NEW x
  PROVE  /\ x \in Direct \cup Pointers => Used(x) = 0 /\ x \in Written
         /\ x \in {"D8", "SPR8"} => Used(x) = 1
         /\ x \in {"D16", "PtrD16"} => Used(x) = 2
         /\ x \in Small => Used(x) = 0 /\ x \in Written /\ x \notin {"PtrHLIncr", "PtrHLDecr", "SP"}
         /\ x \in Small /\ x # "PtrHL" => x \in Direct
         /\ x \in {"A", "HL", "SP", "BC", "DE"} => x \in Direct
         /\ x \in {"PtrBC", "PtrDE", "PtrHL", "PtrHLIncr", "PtrHLDecr", "PtrC"} => x \in Pointers
         /\ x \in Pointers \cup {"PtrD16"} => x # "SP" /\ x \in Written
BY DEF Used, Direct, Pointers, Written, Small, Reg8, Pairs

\* The bytes of the instructions that do not branch.
LEMMA LengthFacts ==
  ASSUME Opcode \in Int
  PROVE  /\ Opcode \in {\h01, \h11, \h21, \h31, \hEA, \hFA} =>
              Length = 3 /\ Opcode \notin Branching
         /\ Opcode \in {\h06, \h0E, \h16, \h1E, \h26, \h2E, \h36, \h3E} =>
              Length = 2 /\ Opcode \notin Branching
         /\ Opcode \in {\hC6, \hD6, \hEE, \hFE, \hE8, \hF8, \hCB} =>
              Length = 2 /\ Opcode \notin Branching
         /\ Opcode \in {\h00, \h02, \h12, \h22, \h32, \h0A, \h1A, \h2A, \h3A} =>
              Length = 1 /\ Opcode \notin Branching
         /\ Opcode \in {\h03, \h13, \h23, \h33, \h0B, \h1B, \h2B, \h3B, \h09, \h19, \h29, \h39} =>
              Length = 1 /\ Opcode \notin Branching
         /\ Opcode \in {\h04, \h0C, \h14, \h1C, \h24, \h2C, \h34, \h3C} =>
              Length = 1 /\ Opcode \notin Branching
         /\ Opcode \in {\h05, \h0D, \h15, \h1D, \h25, \h2D, \h35, \h3D} =>
              Length = 1 /\ Opcode \notin Branching
         /\ Opcode \in {\hE2, \hF2, \hF9} => Length = 1 /\ Opcode \notin Branching
         /\ Opcode \in {\hC5, \hD5, \hE5, \hF5, \hC1, \hD1, \hE1, \hF1} =>
              Length = 1 /\ Opcode \notin Branching
         /\ Opcode \in \h40..\hBF => Length = 1 /\ Opcode \notin Branching
         /\ Opcode \in Calls => Length = 3
         /\ Opcode \in Returns => Length = 1
         /\ Opcode \in RelativeJumps => Length = 2
         /\ Opcode \in Jumps => Length = IF Opcode = \hE9 THEN 1 ELSE 3
<1>1. Opcode \in {\h01, \h11, \h21, \h31, \hEA, \hFA} =>
       Length = 3 /\ Opcode \notin Branching
  BY DEF Length, Branching, RelativeJumps, Jumps, Calls, Returns
<1>2. Opcode \in {\h06, \h0E, \h16, \h1E, \h26, \h2E, \h36, \h3E} =>
       Length = 2 /\ Opcode \notin Branching
  BY DEF Length, Branching, RelativeJumps, Jumps, Calls, Returns
<1>3. Opcode \in {\hC6, \hD6, \hEE, \hFE, \hE8, \hF8, \hCB} =>
       Length = 2 /\ Opcode \notin Branching
  BY DEF Length, Branching, RelativeJumps, Jumps, Calls, Returns
<1>4. Opcode \in {\h00, \h02, \h12, \h22, \h32, \h0A, \h1A, \h2A, \h3A} =>
       Length = 1 /\ Opcode \notin Branching
  BY DEF Length, Branching, RelativeJumps, Jumps, Calls, Returns
<1>5. Opcode \in {\h03, \h13, \h23, \h33, \h0B, \h1B, \h2B, \h3B, \h09, \h19, \h29, \h39} =>
       Length = 1 /\ Opcode \notin Branching
  BY DEF Length, Branching, RelativeJumps, Jumps, Calls, Returns
<1>6. Opcode \in {\h04, \h0C, \h14, \h1C, \h24, \h2C, \h34, \h3C} =>
       Length = 1 /\ Opcode \notin Branching
  BY DEF Length, Branching, RelativeJumps, Jumps, Calls, Returns
<1>7. Opcode \in {\h05, \h0D, \h15, \h1D, \h25, \h2D, \h35, \h3D} =>
       Length = 1 /\ Opcode \notin Branching
  BY DEF Length, Branching, RelativeJumps, Jumps, Calls, Returns
<1>8. Opcode \in {\hE2, \hF2, \hF9} =>
       Length = 1 /\ Opcode \notin Branching
  BY DEF Length, Branching, RelativeJumps, Jumps, Calls, Returns
<1>9. Opcode \in {\hC5, \hD5, \hE5, \hF5, \hC1, \hD1, \hE1, \hF1} =>
       Length = 1 /\ Opcode \notin Branching
  BY DEF Length, Branching, RelativeJumps, Jumps, Calls, Returns
<1>10. Opcode \in \h40..\hBF =>
       Length = 1 /\ Opcode \notin Branching
  BY DEF Length, Branching, RelativeJumps, Jumps, Calls, Returns
<1>11. Opcode \in Calls => Length = 3
  BY DEF Length, Calls
<1>12. Opcode \in Returns => Length = 1
  BY DEF Length, Returns
<1>13. Opcode \in RelativeJumps => Length = 2
  BY DEF Length, RelativeJumps
<1>14. Opcode \in Jumps => Length = IF Opcode = \hE9 THEN 1 ELSE 3
  BY DEF Length, Jumps
<1> QED
  BY <1>1, <1>2, <1>3, <1>4, <1>5, <1>6, <1>7, <1>8,
     <1>9, <1>10, <1>11, <1>12, <1>13, <1>14

\* The addresses the instructions that write may write.
LEMMA MayWriteFacts ==
  ASSUME Opcode \in Int
  PROVE  /\ Opcode = \h02 => MayWrite = {Pair("BC", state)}
         /\ Opcode = \h12 => MayWrite = {Pair("DE", state)}
         /\ Opcode \in {\h22, \h32, \h34, \h35, \h36} \cup \h70..\h77 =>
              MayWrite = {Pair("HL", state)}
         /\ Opcode = \hE2 => MayWrite = {\hFF00 + state.reg["C"]}
         /\ Opcode = \hEA => MayWrite = {Join(Operand2, Operand1)}
         /\ Opcode \in Calls \cup {\hC5, \hD5, \hE5, \hF5} =>
              MayWrite = {state.sp, uint16(state.sp - 1)}
         /\ Opcode = \hCB => MayWrite = IF Operand1 = \h16 THEN {Pair("HL", state)} ELSE {}
<1>1. Opcode = \h02 => MayWrite = {Pair("BC", state)}
  BY DEF MayWrite
<1>2. Opcode = \h12 => MayWrite = {Pair("DE", state)}
  BY DEF MayWrite
<1>3. Opcode \in {\h22, \h32, \h34, \h35, \h36} => MayWrite = {Pair("HL", state)}
  BY DEF MayWrite
<1>4. Opcode \in \h70..\h77 => MayWrite = {Pair("HL", state)}
  BY DEF MayWrite
<1>5. Opcode = \hE2 => MayWrite = {\hFF00 + state.reg["C"]}
  BY DEF MayWrite
<1>6. Opcode = \hEA => MayWrite = {Join(Operand2, Operand1)}
  BY DEF MayWrite
<1>7. Opcode \in Calls => MayWrite = {state.sp, uint16(state.sp - 1)}
  BY DEF MayWrite, Calls
<1>8. Opcode \in {\hC5, \hD5, \hE5, \hF5} => MayWrite = {state.sp, uint16(state.sp - 1)}
  BY DEF MayWrite
<1>9. Opcode = \hCB => MayWrite = IF Operand1 = \h16 THEN {Pair("HL", state)} ELSE {}
  BY DEF MayWrite
<1> QED
  BY <1>1, <1>2, <1>3, <1>4, <1>5, <1>6, <1>7, <1>8, <1>9

\* Operands a row may have that take m and n bytes of the program.
Reads(to, from, m, n) ==
  /\ Used(to) = m /\ Used(from) = n /\ (m = 0 \/ n = 0)
  /\ to \in Written /\ (to \in Direct \/ from \notin {"PtrHLIncr", "PtrHLDecr"})
  /\ to = "SP" => Opcode \in {\h31, \h33, \h3B, \hE8, \hF9}

\* The parts of a shape.
LEMMA ShapeParts ==
  ASSUME NEW to, NEW from, NEW m \in 0..2, NEW n \in 0..2, Reads(to, from, m, n),
         Length = 1 + (n + m), Opcode \notin Branching,
         Behind(to, Fetched.st) \subseteq MayWrite
  PROVE  Shape(to, from)
BY DEF Reads, Shape

\* The loads of the table.
LEMMA LoadShape ==
  ASSUME TypeOK, Fetched.st.status = "running", NEW to, NEW from, LoadRow(Opcode, to, from)
  PROVE  Shape(to, from)
<1> DEFINE b == Behind(to, Fetched.st)
<1>1. /\ to \in Direct => b = {}
      /\ to = "PtrBC" => b = {Pair("BC", state)}
      /\ to = "PtrDE" => b = {Pair("DE", state)}
      /\ to \in {"PtrHL", "PtrHLIncr", "PtrHLDecr"} => b = {Pair("HL", state)}
      /\ to = "PtrC" => b = {\hFF00 + state.reg["C"]}
      /\ to = "PtrD16" => b = {Join(Operand2, Operand1)}
  BY BehindFacts
<1>2. Opcode \in Int
  BY FetchedFacts, InByte
<1> HIDE DEF b
<1>3. CASE /\ Opcode \in {\h01, \h11, \h21, \h31} /\ to \in Direct /\ from = "D16"
           /\ to = "SP" => Opcode = \h31
  <2>1. Length = 3 /\ Opcode \notin Branching
    BY <1>2, <1>3, LengthFacts
  <2>2. Reads(to, from, 0, 2)
    BY <1>3, UsedFacts DEF Reads
  <2>3. b \subseteq MayWrite
    BY <1>1, <1>3
  <2> QED BY <2>1, <2>2, <2>3, ShapeParts DEF b
<1>4. CASE Opcode = \h02 /\ to = "PtrBC" /\ from = "A"
  <2>1. Length = 1 /\ Opcode \notin Branching
    BY <1>2, <1>4, LengthFacts
  <2>2. Reads(to, from, 0, 0)
    BY <1>4, UsedFacts DEF Reads
  <2>3. b \subseteq MayWrite
    BY <1>1, <1>2, <1>4, MayWriteFacts
  <2> QED BY <2>1, <2>2, <2>3, ShapeParts DEF b
<1>5. CASE Opcode = \h12 /\ to = "PtrDE" /\ from = "A"
  <2>1. Length = 1 /\ Opcode \notin Branching
    BY <1>2, <1>5, LengthFacts
  <2>2. Reads(to, from, 0, 0)
    BY <1>5, UsedFacts DEF Reads
  <2>3. b \subseteq MayWrite
    BY <1>1, <1>2, <1>5, MayWriteFacts
  <2> QED BY <2>1, <2>2, <2>3, ShapeParts DEF b
<1>6. CASE Opcode \in {\h22, \h32} /\ to \in {"PtrHLIncr", "PtrHLDecr"} /\ from = "A"
  <2>1. Length = 1 /\ Opcode \notin Branching
    BY <1>2, <1>6, LengthFacts
  <2>2. Reads(to, from, 0, 0)
    BY <1>6, UsedFacts DEF Reads
  <2>3. b \subseteq MayWrite
    BY <1>1, <1>2, <1>6, MayWriteFacts
  <2> QED BY <2>1, <2>2, <2>3, ShapeParts DEF b
<1>7. CASE Opcode \in {\h0A, \h1A, \h2A, \h3A} /\ to = "A" /\ from \in Pointers
  <2>1. Length = 1 /\ Opcode \notin Branching
    BY <1>2, <1>7, LengthFacts
  <2>2. Reads(to, from, 0, 0)
    BY <1>7, UsedFacts DEF Reads
  <2>3. b \subseteq MayWrite
    BY <1>1, <1>7, UsedFacts
  <2> QED BY <2>1, <2>2, <2>3, ShapeParts DEF b
<1>8. CASE /\ Opcode \in {\h06, \h0E, \h16, \h1E, \h26, \h2E, \h36, \h3E}
           /\ to \in Small /\ from = "D8"
           /\ to = "PtrHL" => Opcode = \h36
  <2>1. Length = 2 /\ Opcode \notin Branching
    BY <1>2, <1>8, LengthFacts
  <2>2. Reads(to, from, 0, 1)
    BY <1>8, UsedFacts DEF Reads
  <2>3. b \subseteq MayWrite
    BY <1>1, <1>2, <1>8, UsedFacts, MayWriteFacts
  <2> QED BY <2>1, <2>2, <2>3, ShapeParts DEF b
<1>9. CASE /\ Opcode \in \h40..\h7F /\ to \in Small /\ from \in Small
           /\ to = "PtrHL" => Opcode \in \h70..\h77
  <2>1. Length = 1 /\ Opcode \notin Branching
    BY <1>2, <1>9, LengthFacts
  <2>2. Reads(to, from, 0, 0)
    BY <1>9, UsedFacts DEF Reads
  <2>3. b \subseteq MayWrite
    BY <1>1, <1>2, <1>9, UsedFacts, MayWriteFacts
  <2> QED BY <2>1, <2>2, <2>3, ShapeParts DEF b
<1>10. CASE Opcode = \hF8 /\ to = "HL" /\ from = "SPR8"
  <2>1. Length = 2 /\ Opcode \notin Branching
    BY <1>2, <1>10, LengthFacts
  <2>2. Reads(to, from, 0, 1)
    BY <1>10, UsedFacts DEF Reads
  <2>3. b \subseteq MayWrite
    BY <1>1, <1>10, UsedFacts
  <2> QED BY <2>1, <2>2, <2>3, ShapeParts DEF b
<1>11. CASE Opcode = \hF9 /\ to = "SP" /\ from = "HL"
  <2>1. Length = 1 /\ Opcode \notin Branching
    BY <1>2, <1>11, LengthFacts
  <2>2. Reads(to, from, 0, 0)
    BY <1>11, UsedFacts DEF Reads
  <2>3. b \subseteq MayWrite
    BY <1>1, <1>11, UsedFacts
  <2> QED BY <2>1, <2>2, <2>3, ShapeParts DEF b
<1>12. CASE Opcode = \hE2 /\ to = "PtrC" /\ from = "A"
  <2>1. Length = 1 /\ Opcode \notin Branching
    BY <1>2, <1>12, LengthFacts
  <2>2. Reads(to, from, 0, 0)
    BY <1>12, UsedFacts DEF Reads
  <2>3. b \subseteq MayWrite
    BY <1>1, <1>2, <1>12, MayWriteFacts
  <2> QED BY <2>1, <2>2, <2>3, ShapeParts DEF b
<1>13. CASE Opcode = \hEA /\ to = "PtrD16" /\ from = "A"
  <2>1. Length = 3 /\ Opcode \notin Branching
    BY <1>2, <1>13, LengthFacts
  <2>2. Reads(to, from, 2, 0)
    BY <1>13, UsedFacts DEF Reads
  <2>3. b \subseteq MayWrite
    BY <1>1, <1>2, <1>13, MayWriteFacts
  <2> QED BY <2>1, <2>2, <2>3, ShapeParts DEF b
<1>14. CASE Opcode = \hF2 /\ to = "A" /\ from = "PtrC"
  <2>1. Length = 1 /\ Opcode \notin Branching
    BY <1>2, <1>14, LengthFacts
  <2>2. Reads(to, from, 0, 0)
    BY <1>14, UsedFacts DEF Reads
  <2>3. b \subseteq MayWrite
    BY <1>1, <1>14, UsedFacts
  <2> QED BY <2>1, <2>2, <2>3, ShapeParts DEF b
<1>15. CASE Opcode = \hFA /\ to = "A" /\ from = "PtrD16"
  <2>1. Length = 3 /\ Opcode \notin Branching
    BY <1>2, <1>15, LengthFacts
  <2>2. Reads(to, from, 0, 2)
    BY <1>15, UsedFacts DEF Reads
  <2>3. b \subseteq MayWrite
    BY <1>1, <1>15, UsedFacts
  <2> QED BY <2>1, <2>2, <2>3, ShapeParts DEF b
<1> QED
  BY <1>3, <1>4, <1>5, <1>6, <1>7, <1>8, <1>9,
     <1>10, <1>11, <1>12, <1>13, <1>14, <1>15 DEF LoadRow

\* The additions of the table.
LEMMA AddShape ==
  ASSUME TypeOK, Fetched.st.status = "running", NEW to, NEW from, AddRow(Opcode, to, from)
  PROVE  Shape(to, from) /\ MayCarry
<1>1. Opcode \in Int
  BY FetchedFacts, InByte
<1>2. to \in Direct /\ Behind(to, Fetched.st) = {}
  BY BehindFacts, UsedFacts DEF AddRow
<1>3. CASE Opcode \in {\h09, \h19, \h29, \h39} /\ to = "HL" /\ from \in {"BC", "DE", "HL", "SP"}
  <2>1. Length = 1 /\ Opcode \notin Branching
    BY <1>1, <1>3, LengthFacts
  <2>2. Reads(to, from, 0, 0)
    BY <1>3, UsedFacts DEF Reads
  <2> QED BY <1>2, <1>3, <2>1, <2>2, ShapeParts DEF MayCarry
<1>4. CASE Opcode = \hE8 /\ to = "SP" /\ from = "D8"
  <2>1. Length = 2 /\ Opcode \notin Branching
    BY <1>1, <1>4, LengthFacts
  <2>2. Reads(to, from, 0, 1)
    BY <1>4, UsedFacts DEF Reads
  <2> QED BY <1>2, <1>4, <2>1, <2>2, ShapeParts DEF MayCarry
<1>5. CASE Opcode = \hC6 /\ to = "A" /\ from = "D8"
  <2>1. Length = 2 /\ Opcode \notin Branching
    BY <1>1, <1>5, LengthFacts
  <2>2. Reads(to, from, 0, 1)
    BY <1>5, UsedFacts DEF Reads
  <2> QED BY <1>2, <1>5, <2>1, <2>2, ShapeParts DEF MayCarry
<1>6. CASE Opcode \in \h80..\h87 /\ to = "A" /\ from \in Small
  <2>1. Opcode \in \h40..\hBF
    BY <1>6
  <2>2. Length = 1 /\ Opcode \notin Branching
    BY <1>1, <2>1, LengthFacts
  <2>3. Reads(to, from, 0, 0)
    BY <1>6, UsedFacts DEF Reads
  <2>4. Opcode \in \h80..\hBF /\ Field(8) = 0
    BY <1>1, <1>6 DEF Field
  <2> QED BY <1>2, <2>2, <2>3, <2>4, ShapeParts DEF MayCarry
<1> QED
  BY <1>3, <1>4, <1>5, <1>6 DEF AddRow

\* The rest of the arithmetic with A.
LEMMA ArithmeticShape ==
  ASSUME TypeOK, Fetched.st.status = "running", NEW from, NEW y \in {2, 5, 7},
         ArithmeticOperand(Opcode, y, from)
  PROVE  Shape("A", from) /\ MayCarry /\ from \notin {"PtrHLIncr", "PtrHLDecr"}
<1>1. Opcode \in Int
  BY FetchedFacts, InByte
<1>2. Behind("A", Fetched.st) = {}
  BY BehindFacts, UsedFacts
<1>3. CASE Opcode = \hC6 + 8 * y /\ from = "D8"
  <2>1. Opcode \in {\hD6, \hEE, \hFE}
    BY <1>3
  <2>2. Length = 2 /\ Opcode \notin Branching
    BY <1>1, <2>1, LengthFacts
  <2>3. Reads("A", from, 0, 1)
    BY <1>3, UsedFacts DEF Reads
  <2> QED BY <1>2, <1>3, <2>1, <2>2, <2>3, ShapeParts DEF MayCarry
<1>4. CASE Opcode \in (\h80 + 8 * y)..(\h87 + 8 * y) /\ from \in Small
  <2>1. Opcode \in \h40..\hBF
    BY <1>1, <1>4
  <2>2. Length = 1 /\ Opcode \notin Branching
    BY <1>1, <2>1, LengthFacts
  <2>3. Reads("A", from, 0, 0) /\ from \notin {"PtrHLIncr", "PtrHLDecr"}
    BY <1>4, UsedFacts DEF Reads
  <2>4. Opcode \in \h80..\hBF /\ Field(8) \in {2, 5, 7}
    BY <1>1, <1>4 DEF Field
  <2> QED BY <1>2, <2>2, <2>3, <2>4, ShapeParts DEF MayCarry
<1> QED
  BY <1>3, <1>4 DEF ArithmeticOperand

\* The increments of the table
LEMMA IncShape ==
  ASSUME TypeOK, Fetched.st.status = "running", NEW field, IncRow(Opcode, field)
  PROVE  Shape(field, field) /\ MayFlag
<1>1. Opcode \in Int
  BY FetchedFacts, InByte
<1>2. CASE Opcode \in {\h03, \h13, \h23, \h33} /\ field \in Direct /\ (field = "SP" => Opcode = \h33)
  <2>1. Length = 1 /\ Opcode \notin Branching
    BY <1>1, <1>2, LengthFacts
  <2>2. Reads(field, field, 0, 0) /\ Behind(field, Fetched.st) = {}
    BY <1>2, UsedFacts, BehindFacts DEF Reads
  <2>3. Opcode \in \h00..\h3F /\ Opcode % 8 = 3
    BY <1>2
  <2> QED BY <2>1, <2>2, <2>3, ShapeParts DEF MayFlag
<1>3. CASE /\ Opcode \in {\h04, \h0C, \h14, \h1C, \h24, \h2C, \h34, \h3C} /\ field \in Small
           /\ field = "PtrHL" => Opcode = \h34
  <2>1. Length = 1 /\ Opcode \notin Branching
    BY <1>1, <1>3, LengthFacts
  <2>2. Reads(field, field, 0, 0)
    BY <1>3, UsedFacts DEF Reads
  <2>3. Behind(field, Fetched.st) \subseteq MayWrite
    BY <1>1, <1>3, UsedFacts, BehindFacts, MayWriteFacts
  <2>4. Opcode \in \h00..\h3F /\ Opcode % 8 = 4
    BY <1>3
  <2> QED BY <2>1, <2>2, <2>3, <2>4, ShapeParts DEF MayFlag
<1> QED
  BY <1>2, <1>3 DEF IncRow

\* and the decrements.
LEMMA DecShape ==
  ASSUME TypeOK, Fetched.st.status = "running", NEW field, DecRow(Opcode, field)
  PROVE  Shape(field, field) /\ MayFlag
<1>1. Opcode \in Int
  BY FetchedFacts, InByte
<1>2. CASE Opcode \in {\h0B, \h1B, \h2B, \h3B} /\ field \in Direct /\ (field = "SP" => Opcode = \h3B)
  <2>1. Length = 1 /\ Opcode \notin Branching
    BY <1>1, <1>2, LengthFacts
  <2>2. Reads(field, field, 0, 0) /\ Behind(field, Fetched.st) = {}
    BY <1>2, UsedFacts, BehindFacts DEF Reads
  <2>3. Opcode \in \h00..\h3F /\ Opcode % 8 = 3
    BY <1>2
  <2> QED BY <2>1, <2>2, <2>3, ShapeParts DEF MayFlag
<1>3. CASE /\ Opcode \in {\h05, \h0D, \h15, \h1D, \h25, \h2D, \h35, \h3D} /\ field \in Small
           /\ field = "PtrHL" => Opcode = \h35
  <2>1. Length = 1 /\ Opcode \notin Branching
    BY <1>1, <1>3, LengthFacts
  <2>2. Reads(field, field, 0, 0)
    BY <1>3, UsedFacts DEF Reads
  <2>3. Behind(field, Fetched.st) \subseteq MayWrite
    BY <1>1, <1>3, UsedFacts, BehindFacts, MayWriteFacts
  <2>4. Opcode \in \h00..\h3F /\ Opcode % 8 = 5
    BY <1>3
  <2> QED BY <2>1, <2>2, <2>3, <2>4, ShapeParts DEF MayFlag
<1> QED
  BY <1>2, <1>3 DEF DecRow

-----------------------------------------------------------------------------
(* One step per action *)

\* Reading an operand keeps the flags.
LEMMA GetKeepsFlags ==
  ASSUME TypeOK, NEW from
  PROVE  /\ Get(from, Fetched.st).st.flags = state.flags /\ state.flags \in SUBSET FlagNames
         /\ Get(from, Fetched.st).val \in Word /\ Get(from, Fetched.st).val \in Int
         /\ Get(from, Fetched.st).st.reg["A"] \in Byte
         /\ StateOK(Get(from, Fetched.st).st)
<1>1. StateOK(Fetched.st) /\ Fetched.st.flags = state.flags /\ StateOK(state)
  BY FetchedFacts DEF Registers, TypeOK
<1>2. Get(from, Fetched.st).st.flags = state.flags
  BY <1>1, GetEffect
<1>3. /\ Get(from, Fetched.st).val \in Word /\ Get(from, Fetched.st).st.reg["A"] \in Byte
      /\ StateOK(Get(from, Fetched.st).st)
  BY <1>1, Operand
<1>4. Get(from, Fetched.st).val \in Int
  BY <1>3, WordSteps
<1>5. state.flags \in SUBSET FlagNames
  BY <1>1, Members
<1> QED
  BY <1>2, <1>3, <1>4, <1>5

\* LD.
LEMMA LoadLawful ==
  ASSUME MemorySize = 0, TypeOK, ExecLoad
  PROVE  Lawful
<1> DEFINE g == Get(Arg2, Fetched.st)
<1>1. /\ Fetched.st.status = "running" /\ Current.op = "Load"
      /\ state' = Charge(Current.cycles, Load(Arg1, Arg2, Fetched.st))
  BY DEF ExecLoad, Ready, Retire
<1>2. Shape(Arg1, Arg2)
  BY <1>1, FetchedFacts, LoadShape DEF RowOK, Arg1, Arg2
<1>3. /\ g.st.flags = state.flags /\ state.flags \in SUBSET FlagNames /\ g.val \in Int
      /\ StateOK(g.st)
  BY GetKeepsFlags
<1>4. Load(Arg1, Arg2, Fetched.st) = Set(Arg1, g.val, g.st)
  BY DEF Load
<1>5. SetFlags(state.flags, g.st) = g.st
  BY <1>3 DEF SetFlags, Then, StateOK
<1>6. Load(Arg1, Arg2, Fetched.st) = Set(Arg1, g.val, SetFlags(state.flags, g.st))
  BY <1>4, <1>5
<1> QED
  BY <1>1, <1>2, <1>3, <1>6, OperateStep

\* ADD.
LEMMA AddLawful ==
  ASSUME MemorySize = 0, TypeOK, ExecAdd
  PROVE  Lawful
<1> DEFINE g == Get(Arg2, Fetched.st)
<1> DEFINE sum == AluAdd(Get(Arg1, g.st).val, g.val)
<1>1. /\ Fetched.st.status = "running" /\ Current.op = "Add"
      /\ state' = Charge(Current.cycles, Add(Arg1, Arg2, Fetched.st))
  BY DEF ExecAdd, Ready, Retire
<1>2. AddRow(Opcode, Arg1, Arg2)
  BY <1>1, FetchedFacts DEF RowOK, Arg1, Arg2
<1>3. Shape(Arg1, Arg2) /\ MayCarry /\ MayFlag
  BY <1>1, <1>2, AddShape DEF MayFlag
<1>4. g.val \in Word /\ StateOK(g.st)
  BY GetKeepsFlags
<1>5. Arg1 \in Direct
  BY <1>2, UsedFacts DEF AddRow
<1>6. Get(Arg1, g.st).st = g.st /\ Get(Arg1, g.st).val \in Word
  BY <1>4, <1>5, DirectEffect, Operand
<1>7. sum.result \in Int /\ sum.flags \in SUBSET FlagNames
  BY <1>4, <1>6, AluAddType
<1>8. Add(Arg1, Arg2, Fetched.st) = Set(Arg1, sum.result, SetFlags(sum.flags, g.st))
  BY <1>6 DEF Add
<1> HIDE DEF sum
<1> QED
  BY <1>1, <1>3, <1>7, <1>8, OperateStep

\* SUB.
LEMMA SubLawful ==
  ASSUME MemorySize = 0, TypeOK, ExecSub
  PROVE  Lawful
<1> DEFINE g == Get(Arg1, Fetched.st)
<1> DEFINE alu == AluSub(g.st.reg["A"], g.val)
<1>1. /\ Fetched.st.status = "running" /\ Current.op = "Sub"
      /\ state' = Charge(Current.cycles, Sub(Arg1, Fetched.st))
  BY DEF ExecSub, Ready, Retire
<1>2. ArithmeticOperand(Opcode, 2, Arg1)
  BY <1>1, FetchedFacts DEF RowOK, Arg1
<1>3. Shape("A", Arg1) /\ MayCarry /\ MayFlag
  BY <1>1, <1>2, ArithmeticShape DEF MayFlag
<1>4. g.val \in Word /\ g.st.reg["A"] \in Byte
  BY GetKeepsFlags
<1>5. alu.result \in Int /\ alu.flags \in SUBSET FlagNames
  BY <1>4, AluSubType
<1>6. Sub(Arg1, Fetched.st) = Set("A", alu.result, SetFlags(alu.flags, g.st))
  BY DEF Sub
<1> HIDE DEF alu
<1> QED
  BY <1>1, <1>3, <1>5, <1>6, OperateStep

\* XOR.
LEMMA XorLawful ==
  ASSUME MemorySize = 0, TypeOK, ExecXor
  PROVE  Lawful
<1> DEFINE g == Get(Arg1, Fetched.st)
<1> DEFINE alu == AluXor(g.st.reg["A"], g.val)
<1>1. /\ Fetched.st.status = "running" /\ Current.op = "Xor"
      /\ state' = Charge(Current.cycles, Xor(Arg1, Fetched.st))
  BY DEF ExecXor, Ready, Retire
<1>2. ArithmeticOperand(Opcode, 5, Arg1)
  BY <1>1, FetchedFacts DEF RowOK, Arg1
<1>3. Shape("A", Arg1) /\ MayCarry /\ MayFlag
  BY <1>1, <1>2, ArithmeticShape DEF MayFlag
<1>4. g.val \in Word /\ g.st.reg["A"] \in Byte
  BY GetKeepsFlags
<1>5. alu.result \in Int /\ alu.flags \in SUBSET FlagNames
  BY <1>4, AluXorType
<1>6. Xor(Arg1, Fetched.st) = Set("A", alu.result, SetFlags(alu.flags, g.st))
  BY DEF Xor
<1> HIDE DEF alu
<1> QED
  BY <1>1, <1>3, <1>5, <1>6, OperateStep

\* INC.
LEMMA IncLawful ==
  ASSUME MemorySize = 0, TypeOK, ExecInc
  PROVE  Lawful
<1> DEFINE g == Get(Arg1, Fetched.st)
<1> DEFINE alu == AluInc(g.val, g.st.flags)
<1>1. /\ Fetched.st.status = "running" /\ Current.op = "Inc"
      /\ state' = Charge(Current.cycles, Inc(Arg1, Fetched.st))
  BY DEF ExecInc, Ready, Retire
<1>2. IncRow(Opcode, Arg1)
  BY <1>1, FetchedFacts DEF RowOK, Arg1
<1>3. Shape(Arg1, Arg1) /\ MayFlag
  BY <1>1, <1>2, IncShape
<1>4. g.val \in Word /\ g.st.flags = state.flags /\ state.flags \in SUBSET FlagNames
  BY GetKeepsFlags
<1>5. alu.result \in Int /\ alu.flags \in SUBSET FlagNames
  BY <1>4, AluIncType
<1>6. ("Carry" \in alu.flags) = ("Carry" \in state.flags)
  BY <1>4 DEF AluInc, FlagIf
<1>7. Inc(Arg1, Fetched.st) = Set(Arg1, alu.result, SetFlags(alu.flags, g.st))
  BY DEF Inc
<1> HIDE DEF alu
<1> QED
  BY <1>1, <1>3, <1>5, <1>6, <1>7, OperateStep

\* DEC.
LEMMA DecLawful ==
  ASSUME MemorySize = 0, TypeOK, ExecDec
  PROVE  Lawful
<1> DEFINE g == Get(Arg1, Fetched.st)
<1> DEFINE alu == AluDec(g.val, g.st.flags)
<1>1. /\ Fetched.st.status = "running" /\ Current.op = "Dec"
      /\ state' = Charge(Current.cycles, Dec(Arg1, Fetched.st))
  BY DEF ExecDec, Ready, Retire
<1>2. DecRow(Opcode, Arg1)
  BY <1>1, FetchedFacts DEF RowOK, Arg1
<1>3. Shape(Arg1, Arg1) /\ MayFlag
  BY <1>1, <1>2, DecShape
<1>4. g.val \in Word /\ g.st.flags = state.flags /\ state.flags \in SUBSET FlagNames
  BY GetKeepsFlags
<1>5. alu.result \in Int /\ alu.flags \in SUBSET FlagNames
  BY <1>4, AluDecType
<1>6. ("Carry" \in alu.flags) = ("Carry" \in state.flags)
  BY <1>4 DEF AluDec, FlagIf
<1>7. Dec(Arg1, Fetched.st) = Set(Arg1, alu.result, SetFlags(alu.flags, g.st))
  BY DEF Dec
<1> HIDE DEF alu
<1> QED
  BY <1>1, <1>3, <1>5, <1>6, <1>7, OperateStep

\* CP.
LEMMA CompareLawful ==
  ASSUME TypeOK, ExecCompare
  PROVE  Lawful
<1> DEFINE s == Fetched.st
<1> DEFINE g == Get(Arg1, s)
<1> DEFINE f == AluCompare(g.st.reg["A"], g.val)
<1> DEFINE t == Compare(Arg1, s)
<1>1. s.status = "running" /\ Current.op = "Compare" /\ state' = Charge(Current.cycles, t)
  BY DEF ExecCompare, Ready, Retire
<1>2. ArithmeticOperand(Opcode, 7, Arg1)
  BY <1>1, FetchedFacts DEF RowOK, Arg1
<1>3. /\ Shape("A", Arg1) /\ MayCarry /\ MayFlag
      /\ Arg1 \notin {"PtrHLIncr", "PtrHLDecr"}
  BY <1>1, <1>2, ArithmeticShape DEF MayFlag
<1>4. f \in SUBSET FlagNames
  BY AluCompareType
<1>5. s.status = "running" /\ t = SetFlags(f, Get(Arg1, s).st)
  BY <1>1 DEF Compare
<1>6. StateOK(s) /\ StateOK(t) /\ s.sp = state.sp
  BY FetchedFacts, CompareType DEF Registers
<1> HIDE DEF f
<1> HIDE DEF t
<1>7. Result({}, uint16(s.pc + Used(Arg1)), s, t) /\ t.sp = s.sp
  BY <1>3, <1>4, <1>5, <1>6, FlagsOnlyEffect, SMTT(20)
<1>8. uint16(s.pc + Used(Arg1)) = ResumesAt
  <2>1. Length = 1 + Used(Arg1) /\ Used(Arg1) \in Nat /\ Opcode \notin Branching
    BY <1>3 DEF Shape, Used
  <2> QED BY <1>1, <2>1, StraightOn
<1>9. {} \subseteq MayWrite
  OBVIOUS
<1>10. Result({}, ResumesAt, Fetched.st, t) /\ t.sp = state.sp
  BY <1>6, <1>7, <1>8
<1> QED
  BY <1>1, <1>3, <1>6, <1>9, <1>10, StepLaws

\* NOP.
LEMMA NopLawful ==
  ASSUME TypeOK, ExecNop
  PROVE  Lawful
<1> DEFINE s == Fetched.st
<1>1. s.status = "running" /\ Current.op = "Nop" /\ state' = Charge(Current.cycles, s)
  BY DEF ExecNop, Ready, Retire
<1>2. Opcode = \h00
  BY <1>1, FetchedFacts DEF RowOK
<1>3. StateOK(s) /\ s.sp = state.sp /\ s.flags = state.flags
  BY FetchedFacts DEF Registers
<1>4. s.pc = ResumesAt
  <2>1. Length = 1 + 0 /\ Opcode \notin Branching
    BY <1>2, LengthFacts
  <2>2. uint16(s.pc + 0) = ResumesAt
    BY <1>1, <2>1, StraightOn
  <2>3. s.pc \in Word /\ s.pc \in Int
    BY <1>3, Members, WordSteps
  <2>4. uint16(s.pc + 0) = s.pc
    BY <2>3, Conversions
  <2> QED BY <2>2, <2>4
<1>5. Result({}, ResumesAt, s, s)
  BY <1>1, <1>4, KeptWrote DEF Result, Kept
<1>6. {} \subseteq MayWrite
  OBVIOUS
<1> QED
  BY <1>1, <1>3, <1>5, <1>6, StepLaws

\* A branch is taken when its condition is true.
LEMMA BranchFacts ==
  ASSUME TypeOK, NEW c, ConditionRow(Opcode, c), Opcode \in Branching
  PROVE  Branches <=> is_true(c, Fetched.st)
<1>1. is_true(c, Fetched.st) <=> is_true(c, state)
  BY FetchedFacts, ConditionFlags DEF Registers
<1> DEFINE judged == IF BitOf(Opcode, 16) = 0 THEN "Zero" \in state.flags ELSE "Carry" \in state.flags
<1>2. Branches <=> \/ Opcode \in {\h18, \hC3, \hE9, \hCD, \hC9}
                   \/ judged <=> BitOf(Opcode, 8) = 1
  BY DEF Branches, Branching
<1>3. CASE c = "Always" /\ Opcode \in {\h18, \hC3, \hE9, \hCD, \hC9}
  BY <1>1, <1>2, <1>3 DEF is_true
<1>4. CASE c = "NZ" /\ Opcode \in {\h20, \hC2, \hC4, \hC0}
  <2>1. BitOf(Opcode, 16) = 0 /\ BitOf(Opcode, 8) = 0
    BY <1>4 DEF BitOf
  <2> QED BY <1>1, <1>2, <1>4, <2>1 DEF is_true
<1>5. CASE c = "Z" /\ Opcode \in {\h28, \hCA, \hCC, \hC8}
  <2>1. BitOf(Opcode, 16) = 0 /\ BitOf(Opcode, 8) = 1
    BY <1>5 DEF BitOf
  <2> QED BY <1>1, <1>2, <1>5, <2>1 DEF is_true
<1>6. CASE c = "NC" /\ Opcode \in {\h30, \hD2, \hD4, \hD0}
  <2>1. BitOf(Opcode, 16) = 1 /\ BitOf(Opcode, 8) = 0
    BY <1>6 DEF BitOf
  <2> QED BY <1>1, <1>2, <1>6, <2>1 DEF is_true
<1>7. CASE c = "C" /\ Opcode \in {\h38, \hDA, \hDC, \hD8}
  <2>1. BitOf(Opcode, 16) = 1 /\ BitOf(Opcode, 8) = 1
    BY <1>7 DEF BitOf
  <2> QED BY <1>1, <1>2, <1>7, <2>1 DEF is_true
<1> QED
  BY <1>3, <1>4, <1>5, <1>6, <1>7 DEF ConditionRow

\* Where a branch goes.
LEMMA Targets ==
  ASSUME TypeOK, Opcode \in Branching, Fetched.st.status = "running"
  PROVE  /\ ~Branches /\ Opcode \in Returns => ResumesAt = Fetched.st.pc
         /\ ~Branches /\ Opcode \in RelativeJumps => ResumesAt = uint16(Fetched.st.pc + 1)
         /\ ~Branches /\ Opcode \in Calls => ResumesAt = uint16(Fetched.st.pc + 2)
         /\ ~Branches /\ Opcode \in Jumps =>
              ResumesAt = uint16(Fetched.st.pc + IF Opcode = \hE9 THEN 0 ELSE 2)
         /\ Branches /\ Opcode \in RelativeJumps =>
              ResumesAt = uint16(Fetched.st.pc + 1 + int8(Operand1))
         /\ Branches /\ Opcode \in Calls => ResumesAt = Join(Operand2, Operand1)
         /\ Branches /\ Opcode \in Returns =>
              ResumesAt = Join(ByteAt(uint16(state.sp + 1), state),
                               ByteAt(uint16(state.sp + 2), state))
<1>1. Opcode \in Int /\ Fetched.st.pc = uint16(state.pc + 1) /\ Operand1 \in Word
  <2>1. Opcode \in Int /\ Fetched.st.pc = uint16(state.pc + 1)
    BY FetchedFacts, InByte
  <2>2. uint16(state.pc + 1) \in Word
    BY Members, WordSteps, Conversions DEF TypeOK
  <2>3. Operand1 \in Word
    BY <2>2, ByteAtByte, ByteIsWord DEF Operand1, TypeOK
  <2> QED BY <2>1, <2>3
<1>2. state.pc \in Int /\ int8(Operand1) \in Int
  BY <1>1, Members, WordSteps, SignedType DEF TypeOK
<1>3. /\ uint16(uint16(state.pc + 1) + 0) = uint16(state.pc + 1)
      /\ uint16(uint16(state.pc + 1) + 1) = uint16(state.pc + 2)
      /\ uint16(uint16(state.pc + 1) + 2) = uint16(state.pc + 3)
      /\ uint16(uint16(state.pc + 1) + 1 + int8(Operand1)) = uint16(state.pc + 2 + int8(Operand1))
      /\ uint16(state.pc + 1) = Fetched.st.pc
  <2>1. \A m \in Int, d \in Int :
           /\ uint16(uint16(m + 1) + 0) = uint16(m + 1)
           /\ uint16(uint16(m + 1) + 1) = uint16(m + 2)
           /\ uint16(uint16(m + 1) + 2) = uint16(m + 3)
           /\ uint16(uint16(m + 1) + 1 + d) = uint16(m + 2 + d)
    BY DEF uint16
  <2> QED BY <1>1, <1>2, <2>1
<1>4. ~Branches => ResumesAt = uint16(state.pc + Length)
  BY DEF ResumesAt
<1>5. /\ Opcode \in Returns => Length = 1 /\ Opcode \notin RelativeJumps /\ Opcode \notin Calls
      /\ Opcode \in Calls => Length = 3 /\ Opcode \notin RelativeJumps
      /\ Opcode \in RelativeJumps => Length = 2
      /\ Opcode \in Jumps => Length = IF Opcode = \hE9 THEN 1 ELSE 3
  <2>1. /\ Opcode \in Returns => Opcode \notin RelativeJumps /\ Opcode \notin Calls
        /\ Opcode \in Calls => Opcode \notin RelativeJumps
    BY DEF Returns, RelativeJumps, Calls
  <2> QED BY <1>1, <2>1, LengthFacts
<1>6. /\ Opcode \in RelativeJumps => Opcode \notin Calls \cup Returns
      /\ Opcode \in Calls => Opcode \notin Returns
  BY <1>5
<1>7. /\ Branches /\ Opcode \in RelativeJumps =>
           ResumesAt = uint16(state.pc + 2 + int8(Operand1))
      /\ Branches /\ Opcode \in Calls => ResumesAt = Join(Operand2, Operand1)
      /\ Branches /\ Opcode \in Returns =>
           ResumesAt = Join(ByteAt(uint16(state.sp + 1), state), ByteAt(uint16(state.sp + 2), state))
  BY <1>5, <1>6 DEF ResumesAt
<1> QED
  BY <1>1, <1>3, <1>4, <1>5, <1>7

\* An opcode that branches touches no memory, Call apart.
LEMMA StepParts ==
  ASSUME TypeOK, Fetched.st.status = "running", NEW t, StateOK(t),
         state' = Charge(Current.cycles, t), t.flags = state.flags, t.sp = state.sp,
         NEW p, ~(Opcode \in Jumps /\ Branches) => p = ResumesAt,
         Result({}, p, Fetched.st, t)
  PROVE  Lawful
<1>1. {} \subseteq MayWrite
  OBVIOUS
<1> QED
  BY <1>1, StepLaws

\* JR.
LEMMA JumpRelativeLawful ==
  ASSUME TypeOK, ExecJumpRelative
  PROVE  Lawful
<1> DEFINE s == Fetched.st
<1> DEFINE t == JumpRelative(Arg1, Arg2, s)
<1>1. s.status = "running" /\ Current.op = "JumpRelative" /\ state' = Charge(Current.cycles, t)
  BY DEF ExecJumpRelative, Ready, Retire
<1>2. Opcode \in RelativeJumps /\ ConditionRow(Opcode, Arg1) /\ Arg2 = "D8"
  BY <1>1, FetchedFacts DEF RowOK, Arg1, Arg2
<1>3. Opcode \in Branching /\ (Branches <=> is_true(Arg1, s)) /\ Opcode \notin Jumps
  BY <1>2, BranchFacts DEF Branching, RelativeJumps, Jumps
<1>4. StateOK(s) /\ StateOK(t) /\ s.sp = state.sp /\ s.flags = state.flags
  BY FetchedFacts, JumpRelativeType DEF Registers
<1>5. t = JumpRelative(Arg1, "D8", s)
  BY <1>2
<1>6. ByteAt(s.pc, s) = Operand1
  BY <1>1, FetchedFacts
<1>7. /\ ~Branches => ResumesAt = uint16(s.pc + 1)
      /\ Branches => ResumesAt = uint16(s.pc + 1 + int8(Operand1))
  BY <1>1, <1>2, <1>3, Targets
<1> HIDE DEF t
<1>8. /\ t.flags = s.flags /\ t.sp = s.sp
      /\ ~is_true(Arg1, s) => Result({}, uint16(s.pc + Used("D8")), s, t)
      /\ is_true(Arg1, s) => Result({}, uint16(s.pc + 1 + int8(ByteAt(s.pc, s))), s, t)
  BY <1>1, <1>4, <1>5, JumpEffects
<1>9. Used("D8") = 1
  BY DEF Used
<1>10. Result({}, ResumesAt, s, t)
  BY <1>3, <1>6, <1>7, <1>8, <1>9
<1> QED
  BY <1>1, <1>4, <1>8, <1>10, StepParts

\* JP.
LEMMA JumpLawful ==
  ASSUME TypeOK, ExecJump
  PROVE  Lawful
<1> DEFINE s == Fetched.st
<1> DEFINE t == Jump(Arg1, Arg2, s)
<1>1. s.status = "running" /\ Current.op = "Jump" /\ state' = Charge(Current.cycles, t)
  BY DEF ExecJump, Ready, Retire
<1>2. /\ Opcode \in Jumps /\ ConditionRow(Opcode, Arg1)
      /\ Arg2 = IF Opcode = \hE9 THEN "PtrHL" ELSE "D16"
  BY <1>1, FetchedFacts DEF RowOK, Arg1, Arg2
<1>3. Opcode \in Branching /\ (Branches <=> is_true(Arg1, s))
  BY <1>2, BranchFacts DEF Branching
<1>4. StateOK(s) /\ StateOK(t) /\ s.sp = state.sp /\ s.flags = state.flags
  BY FetchedFacts, JumpType DEF Registers
<1>5. Arg2 \in {"D8", "D16", "PtrHL"} /\ Used(Arg2) = IF Opcode = \hE9 THEN 0 ELSE 2
  BY <1>2 DEF Used
<1>6. ~Branches => ResumesAt = uint16(s.pc + Used(Arg2))
  BY <1>1, <1>2, <1>3, <1>5, Targets
<1>7. t = Jump(Arg1, Arg2, s)
  OBVIOUS
<1> HIDE DEF t
<1>8. /\ t.flags = s.flags /\ t.sp = s.sp
      /\ Result({}, t.pc, s, t)
      /\ ~is_true(Arg1, s) => Result({}, uint16(s.pc + Used(Arg2)), s, t)
  BY <1>1, <1>4, <1>5, <1>7, JumpEffects
<1>9. CASE Branches
  BY <1>1, <1>2, <1>4, <1>8, <1>9, StepParts
<1>10. CASE ~Branches
  <2>1. Result({}, ResumesAt, s, t)
    BY <1>3, <1>6, <1>8, <1>10
  <2> QED BY <1>1, <1>4, <1>8, <2>1, StepParts
<1> QED
  BY <1>9, <1>10

\* CALL.
LEMMA CallLawful ==
  ASSUME MemorySize = 0, TypeOK, ExecCall
  PROVE  Lawful
<1> DEFINE s == Fetched.st
<1> DEFINE t == Call(Arg1, Arg2, s)
<1>1. s.status = "running" /\ Current.op = "Call" /\ state' = Charge(Current.cycles, t)
  BY DEF ExecCall, Ready, Retire
<1>2. Opcode \in Calls /\ ConditionRow(Opcode, Arg1) /\ Arg2 = "D16"
  BY <1>1, FetchedFacts DEF RowOK, Arg1, Arg2
<1>3. Opcode \in Branching /\ (Branches <=> is_true(Arg1, s)) /\ Opcode \in Int
  BY <1>2, BranchFacts DEF Branching, Calls
<1>4. StateOK(s) /\ StateOK(t) /\ s.sp = state.sp /\ s.flags = state.flags
  BY FetchedFacts, CallType DEF Registers
<1>5. t = Call(Arg1, "D16", s)
  BY <1>2
<1>6. ByteAt(s.pc, s) = Operand1 /\ ByteAt(uint16(s.pc + 1), s) = Operand2
  BY <1>1, FetchedFacts
<1>7. /\ ~Branches => ResumesAt = uint16(s.pc + 2)
      /\ Branches => ResumesAt = Join(Operand2, Operand1)
  BY <1>1, <1>2, <1>3, Targets
<1>8. MayWrite = {state.sp, uint16(state.sp - 1)}
  BY <1>2, <1>3, MayWriteFacts
<1> HIDE DEF t
<1>9. /\ t.flags = s.flags
      /\ is_true(Arg1, s) =>
           /\ Result({s.sp, uint16(s.sp - 1)},
                      Join(ByteAt(uint16(s.pc + 1), s), ByteAt(s.pc, s)), s, t)
           /\ t.status = "running" => t.sp = uint16(s.sp - 2)
      /\ ~is_true(Arg1, s) => Result({}, uint16(s.pc + 2), s, t) /\ t.sp = s.sp
  <2>1. /\ t.flags = s.flags
        /\ is_true(Arg1, s) =>
             /\ Result({s.sp, uint16(s.sp - 1)},
                        Join(ByteAt(uint16(s.pc + 1), s), ByteAt(s.pc, s)), s, t)
             /\ t.status = "running" => t.sp = uint16(s.sp - 2)
             /\ D16(s).st.status = "running" =>
                  t.pc = Join(ByteAt(uint16(s.pc + 1), s), ByteAt(s.pc, s))
        /\ ~is_true(Arg1, s) => Result({}, uint16(s.pc + 2), s, t) /\ t.sp = s.sp
    BY <1>1, <1>4, <1>5, CallEffect
  <2> QED BY <2>1
<1>10. CASE Branches
  <2>1. Result(MayWrite, ResumesAt, Fetched.st, t)
    BY <1>3, <1>4, <1>6, <1>7, <1>8, <1>9, <1>10
  <2>2. t.status = "running" => t.sp = uint16(state.sp - 2)
    BY <1>3, <1>4, <1>9, <1>10
  <2>3. t.flags = state.flags /\ MayWrite \subseteq MayWrite
    BY <1>4, <1>9
  <2> QED BY <1>1, <1>4, <1>8, <2>1, <2>2, <2>3, StepLaws
<1>11. CASE ~Branches
  <2>1. Result({}, ResumesAt, Fetched.st, t) /\ t.sp = state.sp /\ t.flags = state.flags
    BY <1>3, <1>4, <1>7, <1>9, <1>11
  <2> QED BY <1>1, <1>4, <2>1, StepParts
<1> QED
  BY <1>10, <1>11

\* RET.
LEMMA RetLawful ==
  ASSUME TypeOK, ExecRet
  PROVE  Lawful
<1> DEFINE s == Fetched.st
<1> DEFINE t == Ret(Arg1, s)
<1>1. s.status = "running" /\ Current.op = "Ret" /\ state' = Charge(Current.cycles, t)
  BY DEF ExecRet, Ready, Retire
<1>2. Opcode \in Returns /\ ConditionRow(Opcode, Arg1)
  BY <1>1, FetchedFacts DEF RowOK, Arg1
<1>3. Opcode \in Branching /\ (Branches <=> is_true(Arg1, s)) /\ Opcode \notin Jumps
  BY <1>2, BranchFacts DEF Branching, Returns, Jumps
<1>4. /\ StateOK(s) /\ StateOK(t) /\ s.sp = state.sp /\ s.flags = state.flags
      /\ Kept(state, s)
  BY FetchedFacts, RetType DEF Registers
<1>5. /\ ByteAt(uint16(s.sp + 1), s) = ByteAt(uint16(state.sp + 1), state)
      /\ ByteAt(uint16(s.sp + 2), s) = ByteAt(uint16(state.sp + 2), state)
  BY <1>4, KeptBytes
<1>6. /\ ~Branches => ResumesAt = s.pc
      /\ Branches => ResumesAt = Join(ByteAt(uint16(state.sp + 1), state),
                                      ByteAt(uint16(state.sp + 2), state))
  BY <1>1, <1>2, <1>3, Targets
<1>7. t = Ret(Arg1, s)
  OBVIOUS
<1> HIDE DEF t
<1>8. /\ t.flags = s.flags
      /\ is_true(Arg1, s) =>
           /\ Result({}, Join(ByteAt(uint16(s.sp + 1), s), ByteAt(uint16(s.sp + 2), s)), s, t)
           /\ t.status = "running" => t.sp = uint16(s.sp + 2)
      /\ ~is_true(Arg1, s) => Result({}, s.pc, s, t) /\ t.sp = s.sp
  BY <1>1, <1>4, <1>7, RetEffect
<1>9. CASE Branches
  <2>1. Result({}, ResumesAt, Fetched.st, t)
    BY <1>3, <1>5, <1>6, <1>8, <1>9
  <2>2. t.status = "running" => t.sp = uint16(state.sp + 2)
    BY <1>3, <1>4, <1>8, <1>9
  <2>3. t.flags = state.flags /\ {} \subseteq MayWrite
    BY <1>4, <1>8
  <2>4. Opcode \in {\hC1, \hD1, \hE1, \hF1, \hC9, \hC0, \hC8, \hD0, \hD8}
    BY <1>2 DEF Returns
  <2> QED BY <1>1, <1>4, <2>1, <2>2, <2>3, <2>4, StepLaws
<1>10. CASE ~Branches
  <2>1. Result({}, ResumesAt, Fetched.st, t) /\ t.sp = state.sp /\ t.flags = state.flags
    BY <1>3, <1>4, <1>6, <1>8, <1>10
  <2> QED BY <1>1, <1>4, <2>1, StepParts
<1> QED
  BY <1>9, <1>10

\* A one-byte opcode continues behind itself.
LEMMA OneByte ==
  ASSUME TypeOK, Fetched.st.status = "running", Opcode \notin Branching, Length = 1
  PROVE  Fetched.st.pc = ResumesAt
<1>1. uint16(Fetched.st.pc + 0) = ResumesAt
  <2>1. Length = 1 + 0
    OBVIOUS
  <2> QED BY <2>1, StraightOn
<1>2. Fetched.st.pc \in Word /\ Fetched.st.pc \in Int
  BY FetchedFacts, Members, WordSteps
<1>3. uint16(Fetched.st.pc + 0) = Fetched.st.pc
  BY <1>2, Conversions
<1> QED
  BY <1>1, <1>3

\* PUSH.
LEMMA PushLawful ==
  ASSUME MemorySize = 0, TypeOK, ExecPush
  PROVE  Lawful
<1> DEFINE s == Fetched.st
<1> DEFINE t == Push(Arg1, s)
<1>1. s.status = "running" /\ Current.op = "Push" /\ state' = Charge(Current.cycles, t)
  BY DEF ExecPush, Ready, Retire
<1>2. Opcode \in {\hC5, \hD5, \hE5, \hF5} /\ Opcode \in Int /\ Arg1 \in Pairs
  BY <1>1, FetchedFacts DEF RowOK, Arg1
<1>3. StateOK(s) /\ StateOK(t) /\ s.sp = state.sp /\ s.flags = state.flags
  BY FetchedFacts, PushType DEF Registers
<1>4. s.pc = ResumesAt
  BY <1>1, <1>2, LengthFacts, OneByte
<1>5. MayWrite = {state.sp, uint16(state.sp - 1)}
  BY <1>2, MayWriteFacts
<1>6. t = Push(Arg1, s)
  OBVIOUS
<1> HIDE DEF t
<1>7. /\ Result({s.sp, uint16(s.sp - 1)}, s.pc, s, t)
      /\ t.flags = s.flags
      /\ t.status = "running" => t.sp = uint16(s.sp - 2)
  <2>1. StateOK(s) /\ Arg1 \in Pairs
    BY <1>2, <1>3
  <2> HIDE DEF s
  <2> QED BY <1>6, <2>1, PushEffect
<1>8. Result(MayWrite, ResumesAt, Fetched.st, t)
  BY <1>3, <1>4, <1>5, <1>7
<1>9. t.status = "running" => t.sp = uint16(state.sp - 2)
  BY <1>3, <1>7
<1>10. t.flags = state.flags
  BY <1>3, <1>7
<1>11. MayWrite \subseteq MayWrite /\ StateOK(t)
  BY <1>3
<1> QED
  BY <1>1, <1>5, <1>8, <1>9, <1>10, <1>11, StepLaws

\* POP.
LEMMA PopLawful ==
  ASSUME MemorySize = 0, TypeOK, ExecPop
  PROVE  Lawful
<1> DEFINE s == Fetched.st
<1> DEFINE t == Pop(Arg1, s)
<1>1. s.status = "running" /\ Current.op = "Pop" /\ state' = Charge(Current.cycles, t)
  BY DEF ExecPop, Ready, Retire
<1>2. Opcode \in {\hC1, \hD1, \hE1, \hF1} /\ Opcode \in Int /\ Arg1 \in Pairs
  BY <1>1, FetchedFacts DEF RowOK, Arg1
<1>3. StateOK(s) /\ StateOK(t) /\ s.sp = state.sp /\ s.flags = state.flags
  BY FetchedFacts, PopType DEF Registers
<1>4. s.pc = ResumesAt
  BY <1>1, <1>2, LengthFacts, OneByte
<1>5. t = Pop(Arg1, s)
  OBVIOUS
<1> HIDE DEF t
<1>6. /\ Result({}, s.pc, s, t)
      /\ t.flags = s.flags
      /\ t.status = "running" => t.sp = uint16(s.sp + 2)
  BY <1>2, <1>3, <1>5, PopEffect
<1>7. Result({}, ResumesAt, Fetched.st, t)
  BY <1>4, <1>6
<1>8. t.status = "running" => t.sp = uint16(state.sp + 2)
  BY <1>3, <1>6
<1>9. t.flags = state.flags /\ {} \subseteq MayWrite
  BY <1>3, <1>6
<1>10. Opcode \in {\hC1, \hD1, \hE1, \hF1, \hC9, \hC0, \hC8, \hD0, \hD8}
  BY <1>2
<1> QED
  BY <1>1, <1>3, <1>7, <1>8, <1>9, <1>10, StepLaws

\* The extended instructions.
LEMMA PrefixCbLawful ==
  ASSUME MemorySize = 0, TypeOK, ExecPrefixCB
  PROVE  Lawful
<1> DEFINE s == Fetched.st
<1> DEFINE t == process_cb(s)
<1>1. s.status = "running" /\ Current.op = "PrefixCB" /\ state' = Charge(Current.cycles, t)
  BY DEF ExecPrefixCB, Ready, Retire
<1>2. Opcode = \hCB /\ Opcode \in Int
  BY <1>1, FetchedFacts DEF RowOK
<1>3. StateOK(s) /\ s.sp = state.sp /\ s.flags = state.flags /\ s.reg = state.reg
  BY FetchedFacts DEF Registers
<1>4. ByteAt(s.pc, s) = Operand1
  BY <1>1, FetchedFacts
<1>5. uint16(s.pc + 1) = ResumesAt
  <2>1. Length = 1 + 1 /\ Opcode \notin Branching
    BY <1>2, LengthFacts
  <2> QED BY <1>1, <2>1, StraightOn
<1>6. MayWrite = IF Operand1 = \h16 THEN {Pair("HL", state)} ELSE {}
  BY <1>2, MayWriteFacts
<1>7. Pair("HL", s) = Pair("HL", state)
  BY <1>3 DEF Pair
<1>8. t = process_cb(s)
  OBVIOUS
<1> HIDE DEF t
<1>9. /\ StateOK(t) /\ t.sp = s.sp
      /\ Result(IF Operand1 = \h16 THEN {Pair("HL", s)} ELSE {}, uint16(s.pc + 1), s, t)
      /\ ("Carry" \in t.flags) # ("Carry" \in s.flags) => Operand1 \in \h10..\h17
      /\ t.flags # s.flags => Operand1 \in \h10..\h17 \/ Operand1 \in \h40..\h7F
  BY <1>1, <1>3, <1>4, <1>8, CbEffect
<1>10. Result(MayWrite, ResumesAt, Fetched.st, t)
  BY <1>5, <1>6, <1>7, <1>9
<1>11. /\ ("Carry" \in t.flags) # ("Carry" \in state.flags) => MayCarry
       /\ t.flags # state.flags => MayFlag
  BY <1>2, <1>3, <1>9 DEF MayCarry, MayFlag
<1>12. t.sp = state.sp /\ MayWrite \subseteq MayWrite
  BY <1>3, <1>9
<1> QED
  BY <1>1, <1>9, <1>10, <1>11, <1>12, StepLaws

\* Stopping at the opcode, before anything but pc has moved.
LEMMA StopLawful ==
  ASSUME Kept(state, state'), Registers(state, state'), state'.status # "running"
  PROVE  Lawful
<1>1. Wrote({}, state, state')
  BY KeptWrote
<1> QED
  BY <1>1
  DEF Lawful, WritesNamed, Continues, FlagsKept, HaltsClean, StackStep, Returned, Wrote,
      Registers, Kept

\* Opcodes without an operation.
LEMMA UnimplementedLawful ==
  ASSUME TypeOK, ExecUnimplemented
  PROVE  Lawful
<1>1. state' = panic(Fetched.st)
  BY DEF ExecUnimplemented
<1>2. StateOK(Fetched.st) /\ Kept(state, Fetched.st) /\ Registers(state, Fetched.st)
  BY FetchedFacts
<1>3. /\ Kept(Fetched.st, state') /\ Registers(Fetched.st, state')
      /\ state'.status # "running"
  BY <1>1, <1>2, PanicEffect
<1>4. Kept(state, state') /\ Registers(state, state')
  BY <1>2, <1>3 DEF Kept, Registers
<1> QED
  BY <1>3, <1>4, StopLawful

\* An opcode that cannot be read.
LEMMA FetchFailsLawful ==
  ASSUME TypeOK, FetchFails
  PROVE  Lawful
BY FetchedFacts, StopLawful DEF FetchFails

\* A branch for which the State cannot be copied moves pc at most.
LEMMA CopyFailsEffect ==
  ASSUME TypeOK, CopyFails
  PROVE  /\ StateOK(state') /\ state'.status = "crashed"
         /\ Kept(state, state') /\ Registers(state, state')
<1> DEFINE s == Fetched.st
<1>1. StateOK(s) /\ Kept(state, s) /\ Registers(state, s) /\ RowOK(Opcode, Current)
  BY FetchedFacts
<1>2. \/ Current.op = "Ret"
      \/ Current.op # "Ret" /\ Arg2 \notin {"PtrHLIncr", "PtrHLDecr"}
  BY <1>1 DEF CopyFails, Ready, RowOK, Arg2
<1>3. Kept(s, BeforeCopy) /\ Registers(s, BeforeCopy)
  <2>1. CASE Current.op = "Ret"
    BY <2>1 DEF BeforeCopy, Kept, Registers
  <2>2. CASE Current.op # "Ret" /\ Arg2 \notin {"PtrHLIncr", "PtrHLDecr"}
    <3>1. BeforeCopy = Get(Arg2, s).st
      BY <2>2 DEF BeforeCopy
    <3> QED BY <1>1, <2>2, <3>1, GetEffect DEF Registers
  <2> QED BY <1>2, <2>1, <2>2
<1>4. StateOK(BeforeCopy) /\ StateOK(state')
  BY BeforeCopyType DEF CopyFails
<1>5. Kept(BeforeCopy, state') /\ Registers(BeforeCopy, state') /\ state'.status = "crashed"
  BY <1>4 DEF CopyFails, crash, StateOK, Kept, Registers
<1> HIDE DEF s
<1>6. Kept(state, state') /\ Registers(state, state')
  BY <1>1, <1>3, <1>5 DEF Kept, Registers, s
<1> QED
  BY <1>4, <1>5, <1>6

\* Every call of process().
LEMMA ProcessLawful ==
  ASSUME MemorySize = 0, TypeOK, process
  PROVE  Lawful
<1>1. CASE ExecNop
  BY <1>1, NopLawful
<1>2. CASE ExecAdd
  BY <1>2, AddLawful
<1>3. CASE ExecSub
  BY <1>3, SubLawful
<1>4. CASE ExecXor
  BY <1>4, XorLawful
<1>5. CASE ExecCompare
  BY <1>5, CompareLawful
<1>6. CASE ExecInc
  BY <1>6, IncLawful
<1>7. CASE ExecDec
  BY <1>7, DecLawful
<1>8. CASE ExecLoad
  BY <1>8, LoadLawful
<1>9. CASE ExecJumpRelative
  BY <1>9, JumpRelativeLawful
<1>10. CASE ExecJump
  BY <1>10, JumpLawful
<1>11. CASE ExecPush
  BY <1>11, PushLawful
<1>12. CASE ExecPop
  BY <1>12, PopLawful
<1>13. CASE ExecCall
  BY <1>13, CallLawful
<1>14. CASE ExecRet
  BY <1>14, RetLawful
<1>15. CASE ExecPrefixCB
  BY <1>15, PrefixCbLawful
<1>16. CASE ExecUnimplemented
  BY <1>16, UnimplementedLawful
<1>17. CASE FetchFails
  BY <1>17, FetchFailsLawful
<1>18. CASE CopyFails
  BY <1>18, CopyFailsEffect, StopLawful
<1> QED
  BY <1>1, <1>2, <1>3, <1>4, <1>5, <1>6, <1>7, <1>8, <1>9, <1>10, <1>11, <1>12, <1>13,
     <1>14, <1>15, <1>16, <1>17, <1>18 DEF process

\* Every step of the specification that is no stutter.
LEMMA NextLawful ==
  ASSUME MemorySize = 0, TypeOK, [Next]_state
  PROVE  Lawful \/ UNCHANGED state
BY ProcessLawful DEF Next, Exited

-----------------------------------------------------------------------------
(* A call without room for the return address *)

\* The rows of the calls.
LEMMA CallRows ==
  ASSUME NEW op \in Calls
  PROVE  instructions[op].op = "Call"
<1>1. /\ instructions[\hCD] = Rows11(1, 5) /\ instructions[\hC4] = Rows11(0, 4)
      /\ instructions[\hCC] = Rows11(1, 4) /\ instructions[\hD4] = Rows11(2, 4)
      /\ instructions[\hDC] = Rows11(3, 4)
  BY DEF instructions
<1>2. /\ Rows11(1, 5).op = "Call" /\ Rows11(0, 4).op = "Call" /\ Rows11(1, 4).op = "Call"
      /\ Rows11(2, 4).op = "Call" /\ Rows11(3, 4).op = "Call"
  BY InsFields DEF Rows11
<1> QED
  BY <1>1, <1>2 DEF Calls

\* Reads end alike while the memory is kept.
LEMMA KeptStatus ==
  ASSUME NEW s, NEW t, Kept(s, t), NEW a
  PROVE  ReadStatus(a, t) = ReadStatus(a, s)
BY DEF Kept, ReadStatus

\* An operand byte that can be read is.
LEMMA D8Runs ==
  ASSUME NEW s, StateOK(s), s.status = "running", ReadStatus(s.pc, s) = "running"
  PROVE  D8(s).st.status = "running"
<1>1. s.pc \in Word /\ s.pc + 1 \in Int
  BY Members, WordSteps
<1> DEFINE read == get_memory_byte(s.pc, s)
<1>2. StateOK(read.st) /\ read.st.status = "running"
  BY <1>1, GetMemoryByteType DEF get_memory_byte, Then, StateOK
<1>3. D8(s).st = SetPc(s.pc + 1, read.st)
  BY DEF D8, Value
<1> HIDE DEF read
<1> QED
  BY <1>1, <1>2, <1>3, SetPcEffect

\* A call that stops though its bytes can be read has left for its target.
LEMMA NoRoomLeaves ==
  ASSUME MemorySize = 0, TypeOK, process, NoRoom
  PROVE  state'.pc = Join(Operand2, Operand1)
<1> DEFINE s == Fetched.st
<1>1. StateOK(state) /\ state.pc \in Word /\ state.pc + 1 \in Int /\ state.pc \in Int
  BY Members, WordSteps DEF TypeOK
<1>2. /\ uint16(state.pc + 0) = state.pc
      /\ uint16(uint16(state.pc + 1) + 1) = uint16(state.pc + 2)
  <2>1. uint16(state.pc + 0) = state.pc
    BY <1>1, Members, WordSteps, Conversions
  <2>2. uint16(uint16(state.pc + 1) + 1) = uint16(state.pc + 2)
    BY <1>1, WrapsOnce
  <2> QED BY <2>1, <2>2
<1>3. /\ ReadStatus(state.pc, state) = "running"
      /\ ReadStatus(uint16(state.pc + 1), state) = "running"
      /\ ReadStatus(uint16(state.pc + 2), state) = "running"
  <2>1. 0 \in 0..2 /\ 1 \in 0..2 /\ 2 \in 0..2
    OBVIOUS
  <2> QED BY <1>2, <2>1 DEF NoRoom
<1>4. state.status = "running"
  BY DEF process, Ready, FetchFails, ExecNop, ExecAdd, ExecSub, ExecXor, ExecCompare, ExecInc,
         ExecDec, ExecLoad, ExecJumpRelative, ExecJump, ExecPush, ExecPop, ExecCall, ExecRet,
         ExecPrefixCB, ExecUnimplemented, CopyFails
<1>5. s.status = "running"
  <2> DEFINE moved == SetPc(state.pc + 1, state)
  <2>1. StateOK(moved) /\ moved.status = "running" /\ Kept(state, moved)
    BY <1>1, <1>4, SetPcType, SetPcEffect
  <2>2. s = get_memory_byte(state.pc, moved).st
    BY DEF Fetched, Fetch
  <2> HIDE DEF moved
  <2>3. ReadStatus(state.pc, moved) = "running"
    BY <1>3, <2>1, KeptStatus
  <2> QED BY <2>1, <2>2, <2>3 DEF get_memory_byte, Then, StateOK
<1>6. /\ StateOK(s) /\ Opcode \in Byte /\ Current = instructions[Opcode]
      /\ RowOK(Opcode, Current) /\ Current.cycles \in Int
      /\ Kept(state, s) /\ s.pc = uint16(state.pc + 1)
      /\ ByteAt(s.pc, s) = Operand1 /\ ByteAt(uint16(s.pc + 1), s) = Operand2
  BY <1>5, FetchedFacts
<1>7. Opcode \in Calls /\ Branches /\ state'.status # "running" /\ Opcode \in Branching
  BY DEF NoRoom, Returned, Branching
<1>8. Current.op = "Call" /\ ConditionRow(Opcode, Arg1) /\ Arg2 = "D16"
  BY <1>6, <1>7, CallRows DEF RowOK, Arg1, Arg2
<1>9. ~CopyFails
  <2>1. ASSUME CopyFails PROVE FALSE
    <3>1. Opcode = \hCD
      BY <1>7, <1>8, <2>1 DEF CopyFails, ConditionRow, Calls
    <3>2. state'.status = "crashed"
      BY <2>1, BeforeCopyType DEF CopyFails, crash, StateOK
    <3> QED BY <3>1, <3>2 DEF NoRoom
  <2> QED BY <2>1
<1>10. ~FetchFails
  BY <1>5 DEF FetchFails
<1>11. \A op : Ready(op) => op = "Call"
  BY <1>8 DEF Ready
<1>12. ExecCall
  BY <1>9, <1>10, <1>11
  DEF process, ExecNop, ExecAdd, ExecSub, ExecXor, ExecCompare, ExecInc, ExecDec, ExecLoad,
      ExecJumpRelative, ExecJump, ExecPush, ExecPop, ExecRet, ExecPrefixCB,
      ExecUnimplemented, Unimplemented
<1>13. D16(s).st.status = "running"
  <2>1. ReadStatus(s.pc, s) = "running" /\ ReadStatus(uint16(s.pc + 1), s) = "running"
    BY <1>2, <1>3, <1>6, KeptStatus
  <2> DEFINE u == D8(s).st
  <2>2. u.status = "running" /\ Consumed(1, s, u) /\ StateOK(u)
    BY <1>5, <1>6, <2>1, D8Runs, D8Effect, D8Type
  <2>3. D16(s).st = D8(u).st
    BY DEF D16, Value
  <2> HIDE DEF u
  <2>4. ReadStatus(u.pc, u) = "running"
    BY <2>1, <2>2, KeptStatus DEF Consumed
  <2> QED BY <2>2, <2>3, <2>4, D8Runs
<1>14. is_true(Arg1, s)
  BY <1>7, <1>8, BranchFacts
<1> DEFINE t == Call(Arg1, "D16", s)
<1>15. state' = Charge(Current.cycles, t)
  BY <1>8, <1>12 DEF ExecCall, Retire
<1>16. t.pc = Join(Operand2, Operand1)
  <2>1. StateOK(s) /\ s.status = "running"
    BY <1>5, <1>6
  <2>2. t = Call(Arg1, "D16", s)
    OBVIOUS
  <2> HIDE DEF t, s
  <2>3. t.pc = Join(ByteAt(uint16(s.pc + 1), s), ByteAt(s.pc, s))
    BY <2>1, <2>2, <1>13, <1>14, CallEffect
  <2>4. ByteAt(uint16(s.pc + 1), s) = Operand2 /\ ByteAt(s.pc, s) = Operand1
    BY <1>6
  <2> QED BY <2>3, <2>4
<1>17. StateOK(t)
  BY <1>6, CallType
<1> HIDE DEF t, s
<1>18. CASE t.status = "running"
  BY <1>6, <1>7, <1>15, <1>17, <1>18, ChargeEffect
<1>19. CASE t.status # "running"
  BY <1>15, <1>16, <1>19, StoppedStays
<1> QED
  BY <1>18, <1>19

\* Every step of the specification that is no stutter.
LEMMA NextStops ==
  ASSUME MemorySize = 0, TypeOK, [Next]_state
  PROVE  StopsClean \/ UNCHANGED state
BY NextLawful, NoRoomLeaves DEF Next, Exited, Lawful, HaltsClean, StopsClean

-----------------------------------------------------------------------------
(* What holds of every behaviour.  The console has no cells behind memory[]:     *)
(* MemorySize = 0 is its value in the code, where an access to the array is an   *)
(* access past its end.                                                          *)

\* Memory changes only at the addresses the operands of the opcode name, and the
\* boot ROM is switched only by a write to FF50: no instruction, operand byte or
\* wrapped address of get_memory_byte() and set_memory_byte() leads a write astray.
THEOREM WritesWhereNamed == ASSUME MemorySize = 0 PROVE Spec => NoStrayWrite
<1>1. TypeOK /\ [Next]_state => [WritesNamed]_state
  BY NextLawful DEF Lawful
<1> QED
  BY <1>1, TypeCorrect, PTL DEF Spec, NoStrayWrite

\* process() leaves pc behind the operand bytes, read whether the branch is taken or
\* not, or at the target that the operand or the stack holds.
THEOREM ContinuesWhereNamed == ASSUME MemorySize = 0 PROVE Spec => ControlFlow
<1>1. TypeOK /\ [Next]_state => [Continues]_state
  BY NextLawful DEF Lawful
<1> QED
  BY <1>1, TypeCorrect, PTL DEF Spec, ControlFlow

\* Loops of loads, counting and bit tests keep the carry of the last arithmetic, and
\* loads, stack operations and jumps keep every flag.
THEOREM FlagsAreKept == ASSUME MemorySize = 0 PROVE Spec => FlagsSurvive
<1>1. TypeOK /\ [Next]_state => [FlagsKept]_state
  BY NextLawful DEF Lawful
<1> QED
  BY <1>1, TypeCorrect, PTL DEF Spec, FlagsSurvive

\* An instruction that fails half way leaves the registers, sp and the cycles as they
\* were, and of the two bytes a Push or Call stores at most the first; a call that finds
\* no room for its return address has by then moved pc to its target.
THEOREM StopsArePrecise == ASSUME MemorySize = 0 PROVE Spec => PreciseStop
<1>1. TypeOK /\ [Next]_state => [StopsClean]_state
  BY NextStops
<1> QED
  BY <1>1, TypeCorrect, PTL DEF Spec, PreciseStop

\* sp moves by whole words, down with Push and Call and up with Pop and Ret, unless
\* the instruction names it as its operand.
THEOREM StackMovesByWords == ASSUME MemorySize = 0 PROVE Spec => StackMoves
<1>1. TypeOK /\ [Next]_state => [StackStep]_state
  BY NextLawful DEF Lawful
<1> QED
  BY <1>1, TypeCorrect, PTL DEF Spec, StackMoves
=============================================================================
