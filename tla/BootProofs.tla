----------------------------- MODULE BootProofs -----------------------------
(***************************************************************************)
(* The boot program, instruction by instruction: where it is tells what it *)
(* has done, from which its timing, its exit and its end follow.           *)
(***************************************************************************)
EXTENDS Boot, IsaProofs

\* The machine main() makes: its boot ROM, and a cycle counter that does not wrap
\* in the clear loop.
Shipped == BootRom = bootDMG /\ CycleMod > 28 + 32 * VideoSize

-----------------------------------------------------------------------------
(* The bytes of the program *)

\* The program up to the first LDH.
LEMMA Program ==
  /\ bootDMG[\h00] = \h31 /\ bootDMG[\h01] = \hFE /\ bootDMG[\h02] = \hFF
  /\ bootDMG[\h03] = \hAF
  /\ bootDMG[\h04] = \h21 /\ bootDMG[\h05] = \hFF /\ bootDMG[\h06] = \h9F
  /\ bootDMG[\h07] = \h32
  /\ bootDMG[\h08] = \hCB /\ bootDMG[\h09] = \h7C
  /\ bootDMG[\h0A] = \h20 /\ bootDMG[\h0B] = \hFB
  /\ bootDMG[\h0C] = \h21 /\ bootDMG[\h0D] = \h26 /\ bootDMG[\h0E] = \hFF
  /\ bootDMG[\h0F] = \h0E /\ bootDMG[\h10] = \h11
  /\ bootDMG[\h11] = \h3E /\ bootDMG[\h12] = \h80
  /\ bootDMG[\h13] = \h32
  /\ bootDMG[\h14] = \hE2
  /\ bootDMG[\h15] = \h0C
  /\ bootDMG[\h16] = \h3E /\ bootDMG[\h17] = \hF3
  /\ bootDMG[\h18] = \hE2
  /\ bootDMG[\h19] = \h32
  /\ bootDMG[\h1A] = \h3E /\ bootDMG[\h1B] = \h77
  /\ bootDMG[\h1C] = \h77
  /\ bootDMG[\h1D] = \h3E /\ bootDMG[\h1E] = \hFC
  /\ bootDMG[\h1F] = \hE0
BY DEF bootDMG, Bytes256

\* Where its opcodes are in the tables,
LEMMA Places ==
  /\ instructions[\h31] = Rows00(6, 1)
  /\ instructions[\hAF] = Rows10(5, 7)
  /\ instructions[\h21] = Rows00(4, 1)
  /\ instructions[\h32] = Rows00(6, 2)
  /\ instructions[\hCB] = Rows11(1, 3)
  /\ instructions[\h20] = Rows00(4, 0)
  /\ instructions[\h0E] = Rows00(1, 6)
  /\ instructions[\h3E] = Rows00(7, 6)
  /\ instructions[\hE2] = Rows11(4, 2)
  /\ instructions[\h0C] = Rows00(1, 4)
  /\ instructions[\h77] = Rows01(6, 7)
  /\ instructions[\hE0] = Rows11(4, 0)
  /\ extended_instructions[\h7C] = ExtRows01(7, "H")
BY DEF instructions, extended_instructions, Operand8

\* and what is there.
LEMMA Rows ==
  /\ instructions[\h31] = Ins("Load", <<"SP", "D16">>, 12)
  /\ instructions[\hAF] = Ins("Xor", <<"A">>, 4)
  /\ instructions[\h21] = Ins("Load", <<"HL", "D16">>, 12)
  /\ instructions[\h32] = Ins("Load", <<"PtrHLDecr", "A">>, 8)
  /\ instructions[\hCB] = Ins("PrefixCB", <<>>, 4)
  /\ instructions[\h20] = Ins("JumpRelative", <<"NZ", "D8">>, 8)
  /\ instructions[\h0E] = Ins("Load", <<"C", "D8">>, 8)
  /\ instructions[\h3E] = Ins("Load", <<"A", "D8">>, 8)
  /\ instructions[\hE2] = Ins("Load", <<"PtrC", "A">>, 8)
  /\ instructions[\h0C] = Ins("Inc", <<"C">>, 4)
  /\ instructions[\h77] = Ins("Load", <<"PtrHL", "A">>, 8)
  /\ instructions[\hE0] = Null
  /\ extended_instructions[\h7C] = Ins("Bit", <<7, "H">>, 8)
BY Places DEF Rows00, Rows01, Rows10, Rows11, ExtRows01, ArithmeticRow, Arithmetic, Operand8,
              Operand16, PtrOperand, Condition, MemoryOr, ExtendedCycles, Ins, Null

-----------------------------------------------------------------------------
(* Reading the program *)

\* The machine runs on the boot ROM.
InBoot(s) == StateOK(s) /\ s.status = "running" /\ s.boot_rom_enabled

\* t is s after reading n bytes of the program.
Took(n, s, t) == InBoot(t) /\ Kept(s, t) /\ Registers(s, t) /\ t.pc = s.pc + n

\* A byte of the boot ROM is what the table holds, and reading it succeeds.
LEMMA BootByte ==
  ASSUME NEW s, InBoot(s), NEW a \in 0..\hFE
  PROVE  /\ ByteAt(a, s) = BootRom[a]
         /\ get_memory_byte(a, s).st.status = "running"
         /\ a \in Word /\ uint16(a + 1) = a + 1
<1>1. a \in Word /\ a \in BootArea
  BY SMTT(20) DEF Word, MaxWord, BootArea
<1>2. /\ a # InterruptEnable /\ a \notin HighRam /\ a \notin IoPorts
      /\ ~InRam(a) /\ a \notin VideoRam
  BY <1>1, Disjoint
<1>3. a \notin CartridgeRom
  <2>1. a \in CartridgeRom => \h0100 <= a
    BY DEF CartridgeRom
  <2>2. a < \h0100
    OBVIOUS
  <2> QED BY <2>1, <2>2
<1>4. ~Unusable(a) /\ a \notin SpriteTable
  <2>1. a < \hFE00
    OBVIOUS
  <2>2. a \in SpriteTable => \hFE00 <= a
    BY DEF SpriteTable
  <2>3. Unusable(a) => \hFE00 <= a
    BY DEF Unusable
  <2> QED BY <2>1, <2>2, <2>3
<1>5. a \notin SwitchableRam
  <2>1. a \in SwitchableRam => \hA000 <= a
    BY DEF SwitchableRam
  <2>2. a < \hA000
    OBVIOUS
  <2> QED BY <2>1, <2>2
<1>6. ByteAt(a, s) = BootRom[a]
  BY <1>1, <1>2, <1>3 DEF ByteAt
<1>7. ReadStatus(a, s) = "running"
  BY <1>1, <1>2, <1>3, <1>4, <1>5 DEF ReadStatus, InBoot
<1>8. get_memory_byte(a, s).st.status = "running"
  BY <1>7 DEF get_memory_byte, Then, InBoot, StateOK
<1>9. uint16(a + 1) = a + 1
  <2>1. a + 1 \in Int /\ a + 1 \in Word
    BY InWord
  <2> QED BY <2>1, Conversions
<1> QED
  BY <1>1, <1>6, <1>8, <1>9

\* An operand byte.
LEMMA BootD8 ==
  ASSUME NEW s, InBoot(s), s.pc \in 0..\hFE
  PROVE  D8(s).val = BootRom[s.pc] /\ Took(1, s, D8(s).st)
<1> DEFINE read == get_memory_byte(s.pc, s)
<1>1. /\ ByteAt(s.pc, s) = BootRom[s.pc] /\ read.st.status = "running"
      /\ s.pc \in Word /\ uint16(s.pc + 1) = s.pc + 1
  BY BootByte
<1>2. D8(s).val = ByteAt(s.pc, s) /\ Consumed(1, s, D8(s).st) /\ StateOK(D8(s).st)
  BY D8Effect, D8Type DEF InBoot
<1>3. D8(s).st.status = "running"
  BY <1>1 DEF D8, Value, SetPc, Then, get_memory_byte, InBoot, StateOK
<1> QED
  BY <1>1, <1>2, <1>3 DEF Consumed, Took, InBoot, Kept

\* Two of them.
LEMMA BootD16 ==
  ASSUME NEW s, InBoot(s), s.pc \in 0..\hFD
  PROVE  D16(s).val = Join(BootRom[s.pc + 1], BootRom[s.pc]) /\ Took(2, s, D16(s).st)
<1> DEFINE first == D8(s)
<1> DEFINE second == D8(first.st)
<1>1. s.pc \in 0..\hFE /\ s.pc + 1 \in 0..\hFE /\ (s.pc + 1) + 1 = s.pc + 2
  OBVIOUS
<1>2. first.val = BootRom[s.pc] /\ Took(1, s, first.st)
  BY <1>1, BootD8
<1>3. D16(s).val = Join(second.val, first.val) /\ D16(s).st = second.st
  BY DEF D16, Value
<1> HIDE DEF first
<1>4. InBoot(first.st) /\ first.st.pc = s.pc + 1
  BY <1>2 DEF Took
<1>5. second.val = BootRom[s.pc + 1] /\ Took(1, first.st, second.st)
  BY <1>1, <1>4, BootD8
<1> HIDE DEF second
<1>6. Took(2, s, second.st)
  BY <1>1, <1>2, <1>5 DEF Took, Kept, Registers
<1> QED
  BY <1>2, <1>3, <1>5, <1>6

\* An opcode.
LEMMA BootFetch ==
  ASSUME NEW s, InBoot(s), s.pc \in 0..\hFE
  PROVE  Fetch(s).val = BootRom[s.pc] /\ Took(1, s, Fetch(s).st)
<1> DEFINE moved == SetPc(s.pc + 1, s)
<1>1. /\ ByteAt(s.pc, s) = BootRom[s.pc]
      /\ s.pc \in Word /\ uint16(s.pc + 1) = s.pc + 1
  BY BootByte
<1>2. InBoot(moved)
  <2>1. StateOK(s) /\ s.status = "running" /\ s.boot_rom_enabled /\ s.pc + 1 \in Int
    BY DEF InBoot
  <2>2. StateOK(moved)
    BY <2>1, SetPcType
  <2>3. Kept(s, moved) /\ moved.status = "running"
    BY <2>1, SetPcEffect
  <2> QED BY <2>1, <2>2, <2>3 DEF InBoot, Kept
<1>3. Fetch(s).val = ByteAt(s.pc, s) /\ Consumed(1, s, Fetch(s).st) /\ StateOK(Fetch(s).st)
  BY FetchEffect, FetchType DEF InBoot
<1>4. Fetch(s).st.status = "running"
  BY <1>2, BootByte DEF Fetch
<1> QED
  BY <1>1, <1>3, <1>4 DEF Consumed, Took, InBoot, Kept

-----------------------------------------------------------------------------
(* The instructions of the program, after their opcode has been read *)

\* t is s after an instruction that took n more bytes and c cycles, on the same
\* boot ROM and internal memory.
Ran(n, c, s, t) ==
  /\ t.status = "running" /\ t.boot_rom_enabled /\ t.internal_memory = s.internal_memory
  /\ t.pc = s.pc + n /\ t.cycles = (s.cycles + c) % CycleMod

\* Nothing else in memory moved.
SameMemory(s, t) == t.video = s.video /\ t.io = s.io

\* Charging the cycles at the end.
LEMMA ChargeBoot ==
  ASSUME NEW s, NEW u, NEW t, NEW n, NEW c,
         InBoot(u), u.internal_memory = s.internal_memory, u.pc = s.pc + n,
         u.cycles = s.cycles, t = Charge(c, u)
  PROVE  /\ Ran(n, c, s, t) /\ SameMemory(u, t)
         /\ t.reg = u.reg /\ t.sp = u.sp /\ t.flags = u.flags
BY DEF Charge, Then, InBoot, StateOK, Ran, SameMemory

\* Both halves of HL.
LEMMA SetHL ==
  ASSUME NEW s, InBoot(s), NEW v \in Word, NEW t, t = SetPair("HL", v, s)
  PROVE  /\ InBoot(t) /\ Kept(s, t) /\ t.pc = s.pc /\ t.sp = s.sp
         /\ t.flags = s.flags /\ t.cycles = s.cycles
         /\ Pair("HL", t) = v /\ t.reg["A"] = s.reg["A"] /\ t.reg["C"] = s.reg["C"]
<1>1. v \in Int /\ uint16(v) = v /\ "HL" \in Pairs /\ High["HL"] = "H" /\ Low["HL"] = "L"
  <2>1. v \in Int
    BY WordIsInt
  <2>2. uint16(v) = v
    BY <2>1, Conversions
  <2>3. "HL" \in Pairs /\ High["HL"] = "H" /\ Low["HL"] = "L"
    BY DEF Pairs, High, Low
  <2> QED BY <2>1, <2>2, <2>3
<1>2. StateOK(s) /\ s.status = "running" /\ s.boot_rom_enabled
  BY DEF InBoot
<1>3. StateOK(t)
  BY <1>1, <1>2, SetPairType
<1>4. /\ Kept(s, t) /\ t.status = "running" /\ t.pc = s.pc
      /\ t.sp = s.sp /\ t.flags = s.flags /\ t.cycles = s.cycles
  BY <1>2, SetPairEffect
<1>5. t.reg = [s.reg EXCEPT !["H"] = Hi(v), !["L"] = Lo(v)]
  BY <1>1, <1>2 DEF SetPair, Then, StateOK
<1>6. /\ t.reg["H"] = Hi(v) /\ t.reg["L"] = Lo(v)
      /\ t.reg["A"] = s.reg["A"] /\ t.reg["C"] = s.reg["C"]
  BY <1>2, <1>5, Members DEF Reg8
<1>7. Pair("HL", t) = v
  BY <1>1, <1>6, WordBytes DEF Pair
<1> QED
  BY <1>2, <1>3, <1>4, <1>6, <1>7 DEF InBoot, Kept

\* One register.
LEMMA SetReg ==
  ASSUME NEW s, InBoot(s), NEW x \in {"A", "C"}, NEW v \in Byte, NEW t, t = Set(x, v, s)
  PROVE  /\ InBoot(t) /\ Kept(s, t) /\ t.pc = s.pc /\ t.sp = s.sp
         /\ t.flags = s.flags /\ t.cycles = s.cycles
         /\ t.reg = [s.reg EXCEPT ![x] = v]
<1>1. uint8(v) = v /\ x \in Reg8 /\ v \in Int
  <2>1. v \in Int /\ 0 <= v /\ v < \h100
    BY InByte
  <2> QED BY <2>1 DEF uint8, Reg8
<1>2. t = Then(s, [s EXCEPT !.reg[x] = v])
  <2>1. Set(x, v, s) = Then(s, [s EXCEPT !.reg[x] = uint8(v)])
    BY <1>1 DEF Set, Reg8, Pairs, Pointers
  <2> QED BY <1>1, <2>1
<1>3. StateOK(s) /\ s.status = "running" /\ s.boot_rom_enabled
  BY DEF InBoot
<1>4. StateOK(t)
  BY <1>1, <1>3, SetType
<1> QED
  BY <1>2, <1>3, <1>4 DEF Then, StateOK, InBoot, Kept

\* One register changed.
Put(r, x, v) == [r EXCEPT ![x] = v]

\* LD A,d8 and LD C,d8.
LEMMA LoadByte ==
  ASSUME NEW s, InBoot(s), s.pc \in 0..\hFD, NEW x \in {"A", "C"}, NEW c,
         NEW t, t = Charge(c, Load(x, "D8", s))
  PROVE  /\ Ran(1, c, s, t) /\ SameMemory(s, t) /\ t.sp = s.sp /\ t.flags = s.flags
         /\ t.reg = Put(s.reg, x, BootRom[s.pc])
<1> DEFINE f == D8(s)
<1> DEFINE u == Set(x, f.val, f.st)
<1>1. s.pc \in 0..\hFE /\ BootRom[s.pc] \in Byte
  BY BootRomAssumption
<1>2. f.val = BootRom[s.pc] /\ Took(1, s, f.st)
  BY <1>1, BootD8
<1>3. Get("D8", s) = f
  BY DEF Get, Reg8, Pairs, Pointers
<1>4. Load(x, "D8", s) = u
  BY <1>3 DEF Load
<1> HIDE DEF f
<1>5. InBoot(f.st) /\ Kept(s, f.st) /\ Registers(s, f.st) /\ f.st.pc = s.pc + 1
  BY <1>2 DEF Took
<1>6. /\ InBoot(u) /\ Kept(f.st, u) /\ u.pc = f.st.pc /\ u.sp = f.st.sp
      /\ u.flags = f.st.flags /\ u.cycles = f.st.cycles
      /\ u.reg = [f.st.reg EXCEPT ![x] = f.val]
  BY <1>1, <1>2, <1>5, SetReg
<1> HIDE DEF u
<1>7. u.internal_memory = s.internal_memory /\ u.pc = s.pc + 1 /\ u.cycles = s.cycles
  BY <1>5, <1>6 DEF Kept, Registers
<1>8. /\ Ran(1, c, s, t) /\ SameMemory(u, t)
      /\ t.reg = u.reg /\ t.sp = u.sp /\ t.flags = u.flags
  BY <1>4, <1>6, <1>7, ChargeBoot
<1> QED
  BY <1>2, <1>5, <1>6, <1>8 DEF Kept, Registers, SameMemory, Put

\* LD HL,d16.
LEMMA LoadPointer ==
  ASSUME NEW s, InBoot(s), s.pc \in 0..\hFD, NEW c,
         NEW t, t = Charge(c, Load("HL", "D16", s))
  PROVE  /\ Ran(2, c, s, t) /\ SameMemory(s, t) /\ t.sp = s.sp /\ t.flags = s.flags
         /\ Pair("HL", t) = Join(BootRom[s.pc + 1], BootRom[s.pc])
         /\ t.reg["A"] = s.reg["A"] /\ t.reg["C"] = s.reg["C"]
<1> DEFINE f == D16(s)
<1> DEFINE u == SetPair("HL", f.val, f.st)
<1>1. f.val = Join(BootRom[s.pc + 1], BootRom[s.pc]) /\ Took(2, s, f.st)
  BY BootD16
<1>2. f.val \in Word
  <2>1. BootRom[s.pc] \in Byte /\ BootRom[s.pc + 1] \in Byte
    BY BootRomAssumption
  <2> QED BY <1>1, <2>1, JoinBytes
<1>3. Get("D16", s) = f
  BY DEF Get, Reg8, Pairs, Pointers
<1>4. Load("HL", "D16", s) = u
  BY <1>3 DEF Load, Set, Reg8, Pairs, Pointers
<1> HIDE DEF f
<1>5. InBoot(f.st) /\ Kept(s, f.st) /\ Registers(s, f.st) /\ f.st.pc = s.pc + 2
  BY <1>1 DEF Took
<1>6. /\ InBoot(u) /\ Kept(f.st, u) /\ u.pc = f.st.pc /\ u.sp = f.st.sp
      /\ u.flags = f.st.flags /\ u.cycles = f.st.cycles
      /\ Pair("HL", u) = f.val /\ u.reg["A"] = f.st.reg["A"] /\ u.reg["C"] = f.st.reg["C"]
  BY <1>2, <1>5, SetHL
<1> HIDE DEF u
<1>7. u.internal_memory = s.internal_memory /\ u.pc = s.pc + 2 /\ u.cycles = s.cycles
  BY <1>5, <1>6 DEF Kept, Registers
<1>8. /\ Ran(2, c, s, t) /\ SameMemory(u, t)
      /\ t.reg = u.reg /\ t.sp = u.sp /\ t.flags = u.flags
  BY <1>4, <1>6, <1>7, ChargeBoot
<1>9. Pair("HL", t) = Pair("HL", u)
  BY <1>8 DEF Pair
<1> QED
  BY <1>1, <1>5, <1>6, <1>8, <1>9 DEF Kept, Registers, SameMemory

\* LD SP,d16.
LEMMA LoadStack ==
  ASSUME NEW s, InBoot(s), s.pc \in 0..\hFD, NEW c,
         NEW t, t = Charge(c, Load("SP", "D16", s))
  PROVE  /\ Ran(2, c, s, t) /\ SameMemory(s, t) /\ t.flags = s.flags /\ t.reg = s.reg
         /\ t.sp = Join(BootRom[s.pc + 1], BootRom[s.pc])
<1> DEFINE f == D16(s)
<1> DEFINE u == SetSp(f.val, f.st)
<1>1. f.val = Join(BootRom[s.pc + 1], BootRom[s.pc]) /\ Took(2, s, f.st)
  BY BootD16
<1>2. f.val \in Word /\ f.val \in Int /\ uint16(f.val) = f.val
  <2>1. BootRom[s.pc] \in Byte /\ BootRom[s.pc + 1] \in Byte
    BY BootRomAssumption
  <2>2. f.val \in Word
    BY <1>1, <2>1, JoinBytes
  <2> HIDE DEF f
  <2>3. f.val \in Int
    BY <2>2, WordIsInt
  <2> QED BY <2>2, <2>3, Conversions
<1>3. Get("D16", s) = f
  BY DEF Get, Reg8, Pairs, Pointers
<1>4. Load("SP", "D16", s) = u
  BY <1>3 DEF Load, Set, Reg8, Pairs, Pointers
<1> HIDE DEF f
<1>5. InBoot(f.st) /\ Kept(s, f.st) /\ Registers(s, f.st) /\ f.st.pc = s.pc + 2
  BY <1>1 DEF Took
<1>6. /\ Kept(f.st, u) /\ u.status = "running" /\ u.pc = f.st.pc /\ u.sp = f.val
      /\ u.reg = f.st.reg /\ u.flags = f.st.flags /\ u.cycles = f.st.cycles
  BY <1>2, <1>5, SetSpEffect DEF InBoot
<1>7. StateOK(u)
  BY <1>2, <1>5, SetSpType DEF InBoot
<1> HIDE DEF u
<1>8. /\ InBoot(u) /\ u.internal_memory = s.internal_memory /\ u.pc = s.pc + 2
      /\ u.cycles = s.cycles
  BY <1>5, <1>6, <1>7 DEF Kept, Registers, InBoot
<1>9. /\ Ran(2, c, s, t) /\ SameMemory(u, t)
      /\ t.reg = u.reg /\ t.sp = u.sp /\ t.flags = u.flags
  BY <1>4, <1>8, ChargeBoot
<1> QED
  BY <1>1, <1>5, <1>6, <1>9 DEF Kept, Registers, SameMemory

\* A write that reached memory other than the internal one.
Reached(s, w) ==
  /\ InBoot(w) /\ Registers(s, w) /\ w.pc = s.pc /\ w.internal_memory = s.internal_memory

\* Storing 0 in a video RAM that is clear leaves it clear.
LEMMA ClearByte ==
  ASSUME NEW s, InBoot(s), s.video = Zeros, NEW a \in VideoRam,
         NEW w, w = set_memory_byte(a, 0, s)
  PROVE  Reached(s, w) /\ SameMemory(s, w)
<1>1. a \in Word
  <2>1. \h8000 <= a /\ a < \hA000 /\ a \in Int
    BY DEF VideoRam
  <2> QED BY <2>1, InWord
<1>2. /\ a # InterruptEnable /\ a \notin HighRam /\ a # DisableBootRom
      /\ a \notin IoPorts /\ ~InRam(a)
  BY <1>1, Disjoint
<1>3. Store(Zeros, a - \h8000, 0) = Zeros
  BY DEF Store, Zeros
<1>4. w = [s EXCEPT !.video = Zeros]
  BY <1>2, <1>3 DEF set_memory_byte, Then, InBoot
<1>5. StateOK(w)
  BY <1>1, ByteLiterals, SetMemoryByteType DEF InBoot
<1> QED
  BY <1>4, <1>5 DEF InBoot, StateOK, Reached, Registers, SameMemory

\* Storing a byte in an I/O register changes this register.
LEMMA SetPort ==
  ASSUME NEW s, InBoot(s), NEW f \in {\h11, \h12, \h24, \h25, \h26}, NEW v \in Byte,
         NEW w, w = set_memory_byte(\hFF00 + f, v, s)
  PROVE  Reached(s, w) /\ w.video = s.video /\ w.io = [s.io EXCEPT ![f] = v]
<1> DEFINE a == \hFF00 + f
<1>1. a \in Word /\ a \in IoPorts /\ a - \hFF00 = f /\ f \in IoFields
  <2>1. f \in Int /\ 0 <= f /\ f <= \h4B
    OBVIOUS
  <2>2. a \in IoPorts /\ a - \hFF00 = f
    BY <2>1 DEF IoPorts
  <2>3. a \in Int /\ 0 <= a /\ a < \h10000
    BY <2>1
  <2> QED BY <2>2, <2>3, InWord DEF IoFields
<1> HIDE DEF a
<1>2. /\ a # InterruptEnable /\ a \notin HighRam /\ a # DisableBootRom
      /\ ~InRam(a) /\ a \notin VideoRam
  BY <1>1, Disjoint
<1>3. w = [s EXCEPT !.io = [s.io EXCEPT ![f] = v]]
  BY <1>1, <1>2 DEF set_memory_byte, Then, InBoot, IoSet, a
<1>4. StateOK(w)
  BY <1>1, SetMemoryByteType DEF InBoot, a
<1> QED
  BY <1>3, <1>4 DEF InBoot, StateOK, Reached, Registers

\* LD (HL-),A, LD (HL),A and LD (FF00+C),A.
LEMMA StoreA ==
  ASSUME NEW s, InBoot(s), NEW x \in {"PtrHLDecr", "PtrHL", "PtrC"}, NEW c,
         NEW w, w = set_memory_byte(Address(x, s), s.reg["A"], s), Reached(s, w),
         Pair("HL", s) # 0, NEW t, t = Charge(c, Load(x, "A", s))
  PROVE  /\ Ran(0, c, s, t) /\ SameMemory(w, t) /\ t.sp = s.sp /\ t.flags = s.flags
         /\ Pair("HL", t) = (IF x = "PtrHLDecr" THEN Pair("HL", s) - 1 ELSE Pair("HL", s))
         /\ t.reg["A"] = s.reg["A"] /\ t.reg["C"] = s.reg["C"]
<1> DEFINE u == AfterAccess(x, w)
<1>1. /\ InBoot(w) /\ w.reg = s.reg /\ w.sp = s.sp /\ w.flags = s.flags
      /\ w.cycles = s.cycles /\ w.pc = s.pc /\ w.internal_memory = s.internal_memory
  BY DEF Reached, Registers
<1>2. Get("A", s) = Value(s.reg["A"], s)
  BY DEF Get, Reg8, Pairs, Pointers
<1>3. uint8(s.reg["A"]) = s.reg["A"]
  <2>1. s.reg["A"] \in Byte
    BY Members DEF InBoot, Reg8
  <2>2. s.reg["A"] \in Int /\ 0 <= s.reg["A"] /\ s.reg["A"] < \h100
    BY <2>1, InByte
  <2> QED BY <2>2 DEF uint8
<1>4. Set(x, s.reg["A"], s) = u
  BY <1>3 DEF Set, Reg8, Pairs, Pointers
<1>5. Load(x, "A", s) = u
  BY <1>2, <1>4 DEF Load, Value
<1>6. /\ Pair("HL", w) = Pair("HL", s) /\ Pair("HL", s) \in Word
      /\ Pair("HL", s) - 1 \in Word
  <2>1. Pair("HL", w) = Pair("HL", s)
    BY <1>1 DEF Pair
  <2>2. Pair("HL", s) \in Word
    BY PairType DEF InBoot, Pairs
  <2>3. Pair("HL", s) \in Int /\ 0 <= Pair("HL", s) - 1 /\ Pair("HL", s) - 1 < \h10000
    BY <2>2, InWord
  <2>4. Pair("HL", s) - 1 \in Word
    BY <2>3, InWord
  <2> QED BY <2>1, <2>2, <2>4
<1>7. /\ InBoot(u) /\ Kept(w, u) /\ u.pc = w.pc /\ u.sp = w.sp
      /\ u.flags = w.flags /\ u.cycles = w.cycles
      /\ Pair("HL", u) = (IF x = "PtrHLDecr" THEN Pair("HL", s) - 1 ELSE Pair("HL", s))
      /\ u.reg["A"] = w.reg["A"] /\ u.reg["C"] = w.reg["C"]
  <2>1. CASE x = "PtrHLDecr"
    <3>1. u = SetPair("HL", Pair("HL", s) - 1, w)
      BY <1>6, <2>1 DEF AfterAccess
    <3> HIDE DEF u
    <3>2. /\ InBoot(u) /\ Kept(w, u) /\ u.pc = w.pc /\ u.sp = w.sp
          /\ u.flags = w.flags /\ u.cycles = w.cycles
          /\ Pair("HL", u) = Pair("HL", s) - 1
          /\ u.reg["A"] = w.reg["A"] /\ u.reg["C"] = w.reg["C"]
      BY <1>1, <1>6, <3>1, SetHL
    <3> QED BY <2>1, <3>2
  <2>2. CASE x # "PtrHLDecr"
    <3>1. u = w
      BY <2>2 DEF AfterAccess
    <3> HIDE DEF u
    <3> QED BY <1>1, <1>6, <2>2, <3>1 DEF Kept
  <2> QED BY <2>1, <2>2
<1> HIDE DEF u
<1>8. u.internal_memory = s.internal_memory /\ u.pc = s.pc + 0 /\ u.cycles = s.cycles
  <2>1. s.pc + 0 = s.pc
    BY Members, WordSteps DEF InBoot
  <2> QED BY <1>1, <1>7, <2>1 DEF Kept
<1>9. /\ Ran(0, c, s, t) /\ SameMemory(u, t)
      /\ t.reg = u.reg /\ t.sp = u.sp /\ t.flags = u.flags
  BY <1>5, <1>7, <1>8, ChargeBoot
<1>10. Pair("HL", t) = Pair("HL", u)
  BY <1>9 DEF Pair
<1> QED
  BY <1>1, <1>7, <1>9, <1>10 DEF Kept, SameMemory

\* A counter that does not reach its modulus does not wrap.
LEMMA NoWrap ==
  ASSUME NEW n \in Nat, n < CycleMod
  PROVE  n % CycleMod = n
BY CycleModAssumption

\* XOR A clears A and the carry.
LEMMA XorA ==
  ASSUME NEW s, InBoot(s), NEW c, NEW t, t = Charge(c, Xor("A", s))
  PROVE  /\ Ran(0, c, s, t) /\ SameMemory(s, t) /\ t.sp = s.sp
         /\ t.flags = {"Zero"} /\ t.reg["A"] = 0
<1> DEFINE a == s.reg["A"]
<1> DEFINE v == SetFlags({"Zero"}, s)
<1> DEFINE u == Set("A", 0, v)
<1>1. XorByte(a, a) = 0
  <2>1. a \in Int
    <3>1. a \in Byte
      BY Members DEF InBoot, Reg8
    <3> QED BY <3>1, InByte
  <2> HIDE DEF a
  <2>2. ASSUME NEW w \in {1, 2, 4, 8, 16, 32, 64, 128}
        PROVE  XorBit(a, a, w) = 0
    <3>1. BitOf(a, w) \in Int
      BY <2>1 DEF BitOf
    <3>2. (BitOf(a, w) + BitOf(a, w)) % 2 = 0
      BY <3>1
    <3> QED BY <3>2 DEF XorBit
  <2> QED BY <2>2 DEF XorByte
<1>2. Get("A", s) = Value(a, s)
  BY DEF Get, Reg8, Pairs, Pointers
<1>3. AluXor(a, a) = [result |-> 0, flags |-> {"Zero"}]
  BY <1>1 DEF AluXor, FlagIf
<1>4. Xor("A", s) = u
  BY <1>2, <1>3 DEF Xor, Value
<1>5. StateOK(s) /\ s.status = "running" /\ s.boot_rom_enabled
  BY DEF InBoot
<1>6. StateOK(v)
  BY <1>5, SetFlagsType DEF FlagNames
<1>7. /\ Kept(s, v) /\ v.status = "running" /\ v.pc = s.pc /\ v.flags = {"Zero"}
      /\ v.reg = s.reg /\ v.sp = s.sp /\ v.cycles = s.cycles
  BY <1>5, SetFlagsEffect
<1> HIDE DEF v
<1>8. InBoot(v) /\ 0 \in Byte
  BY <1>5, <1>6, <1>7, ByteLiterals DEF InBoot, Kept
<1>9. /\ InBoot(u) /\ Kept(v, u) /\ u.pc = v.pc /\ u.sp = v.sp
      /\ u.flags = v.flags /\ u.cycles = v.cycles
      /\ u.reg = [v.reg EXCEPT !["A"] = 0]
  BY <1>8, SetReg
<1>10. u.reg["A"] = 0
  BY <1>5, <1>7, <1>9, Members DEF Reg8
<1> HIDE DEF u
<1>11. u.internal_memory = s.internal_memory /\ u.pc = s.pc + 0 /\ u.cycles = s.cycles
  <2>1. s.pc + 0 = s.pc
    BY <1>5, Members, WordSteps
  <2> QED BY <1>7, <1>9, <2>1 DEF Kept
<1>12. /\ Ran(0, c, s, t) /\ SameMemory(u, t)
       /\ t.reg = u.reg /\ t.sp = u.sp /\ t.flags = u.flags
  BY <1>4, <1>9, <1>11, ChargeBoot
<1> QED
  BY <1>7, <1>9, <1>10, <1>12 DEF Kept, SameMemory

\* INC C.
LEMMA IncC ==
  ASSUME NEW s, InBoot(s), s.reg["C"] = \h11, NEW c, NEW t, t = Charge(c, Inc("C", s))
  PROVE  /\ Ran(0, c, s, t) /\ SameMemory(s, t)
         /\ t.reg = [s.reg EXCEPT !["C"] = \h12]
<1> DEFINE f == AluInc(\h11, s.flags).flags
<1> DEFINE v == SetFlags(f, s)
<1> DEFINE u == Set("C", \h12, v)
<1>1. StateOK(s) /\ s.status = "running" /\ s.boot_rom_enabled /\ s.flags \in SUBSET FlagNames
  BY Members DEF InBoot
<1>2. Get("C", s) = Value(\h11, s)
  BY DEF Get, Reg8, Pairs, Pointers
<1>3. f \in SUBSET FlagNames
  BY <1>1 DEF AluInc, FlagIf, FlagNames
<1>4. AluInc(\h11, s.flags).result = \h12
  BY DEF AluInc
<1>5. Inc("C", s) = u
  BY <1>2, <1>4 DEF Inc, Value
<1> HIDE DEF f
<1>6. StateOK(v)
  BY <1>1, <1>3, SetFlagsType
<1>7. /\ Kept(s, v) /\ v.status = "running" /\ v.pc = s.pc
      /\ v.reg = s.reg /\ v.sp = s.sp /\ v.cycles = s.cycles
  BY <1>1, SetFlagsEffect
<1> HIDE DEF v
<1>8. InBoot(v) /\ \h12 \in Byte
  BY <1>1, <1>6, <1>7, InByte DEF InBoot, Kept
<1>9. /\ InBoot(u) /\ Kept(v, u) /\ u.pc = v.pc /\ u.cycles = v.cycles
      /\ u.reg = [v.reg EXCEPT !["C"] = \h12]
  BY <1>8, SetReg
<1> HIDE DEF u
<1>10. u.internal_memory = s.internal_memory /\ u.pc = s.pc + 0 /\ u.cycles = s.cycles
  <2>1. s.pc + 0 = s.pc
    BY <1>1, Members, WordSteps
  <2> QED BY <1>7, <1>9, <2>1 DEF Kept
<1>11. Ran(0, c, s, t) /\ SameMemory(u, t) /\ t.reg = u.reg
  BY <1>5, <1>9, <1>10, ChargeBoot
<1> QED
  BY <1>7, <1>9, <1>11 DEF Kept, SameMemory

\* BIT 7,H behind the prefix: Zero says whether HL has left the upper half of memory.
LEMMA TestH ==
  ASSUME NEW s, InBoot(s), s.pc \in 0..\hFE, BootRom[s.pc] = \h7C, s.cycles + 12 < CycleMod,
         NEW t, t = Charge(4, process_cb(s))
  PROVE  /\ t.status = "running" /\ t.boot_rom_enabled /\ SameMemory(s, t)
         /\ t.internal_memory = s.internal_memory /\ t.pc = s.pc + 1
         /\ t.cycles = s.cycles + 12 /\ t.reg = s.reg /\ t.sp = s.sp
         /\ "Zero" \in t.flags <=> Pair("HL", s) < \h8000
         /\ "Carry" \in t.flags <=> "Carry" \in s.flags
<1> DEFINE f == Fetch(s)
<1> DEFINE b == AluBit(7, f.st.reg["H"], f.st.flags)
<1> DEFINE v == SetFlags(b, f.st)
<1> DEFINE u == Charge(8, v)
<1>1. f.val = \h7C /\ Took(1, s, f.st)
  BY BootFetch
<1>2. extended_instructions[\h7C] = Ins("Bit", <<7, "H">>, 8)
  BY Rows
<1>3. Get("H", f.st) = Value(f.st.reg["H"], f.st)
  BY DEF Get, Reg8, Pairs, Pointers
<1>4. Bit(7, "H", f.st) = v
  BY <1>3 DEF Bit, Value
<1>5. process_cb(s) = u
  BY <1>1, <1>2, <1>4 DEF process_cb, Ins
<1> HIDE DEF f
<1>6. InBoot(f.st) /\ Kept(s, f.st) /\ Registers(s, f.st) /\ f.st.pc = s.pc + 1
  BY <1>1 DEF Took
<1>7. StateOK(f.st) /\ f.st.status = "running" /\ f.st.boot_rom_enabled
  BY <1>6 DEF InBoot
<1>8. /\ "Zero" \in b <=> Pair("HL", s) < \h8000
      /\ "Carry" \in b <=> "Carry" \in s.flags
      /\ b \in SUBSET FlagNames
  <2>1. /\ s.reg["H"] \in Int /\ 0 <= s.reg["H"] /\ s.reg["H"] < \h100
        /\ s.reg["L"] \in Int /\ 0 <= s.reg["L"] /\ s.reg["L"] < \h100
    <3>1. s.reg["H"] \in Byte /\ s.reg["L"] \in Byte
      BY Members DEF InBoot, Reg8
    <3> QED BY <3>1, InByte
  <2>2. f.st.reg["H"] = s.reg["H"] /\ f.st.flags = s.flags /\ s.flags \in SUBSET FlagNames
    BY <1>6, Members DEF Registers, InBoot
  <2>3. Pair("HL", s) = \h100 * s.reg["H"] + s.reg["L"]
    BY DEF Pair, High, Low, Join
  <2>4. 2^7 = 128
    OBVIOUS
  <2>5. BitOf(s.reg["H"], 128) = 0 <=> s.reg["H"] < 128
    BY <2>1 DEF BitOf
  <2>6. s.reg["H"] < 128 <=> Pair("HL", s) < \h8000
    BY <2>1, <2>3
  <2> QED BY <2>2, <2>4, <2>5, <2>6 DEF AluBit, FlagIf, FlagNames
<1> HIDE DEF b
<1>9. /\ Kept(f.st, v) /\ v.status = "running" /\ v.pc = f.st.pc /\ v.flags = b
      /\ v.reg = f.st.reg /\ v.sp = f.st.sp /\ v.cycles = f.st.cycles
  BY <1>7, SetFlagsEffect
<1>10. StateOK(v)
  BY <1>7, <1>8, SetFlagsType
<1> HIDE DEF v
<1>11. InBoot(v) /\ v.internal_memory = s.internal_memory /\ v.pc = s.pc + 1 /\ v.cycles = s.cycles
  BY <1>6, <1>9, <1>10 DEF InBoot, Kept, Registers
<1>12. /\ Ran(1, 8, s, u) /\ SameMemory(v, u)
       /\ u.reg = v.reg /\ u.sp = v.sp /\ u.flags = v.flags
  BY <1>11, ChargeBoot
<1>13. s.cycles \in Nat /\ s.pc \in Int
  BY CycleModAssumption, Members, WordIsInt DEF InBoot, StateOK
<1>14. (s.cycles + 8) % CycleMod = s.cycles + 8 /\ (s.cycles + 12) % CycleMod = s.cycles + 12
  <2>1. s.cycles + 8 \in Nat /\ s.cycles + 8 < CycleMod /\ s.cycles + 12 \in Nat
    BY <1>13, CycleModAssumption
  <2> QED BY <2>1, NoWrap
<1>15. StateOK(u)
  BY <1>10, ChargeType
<1> HIDE DEF u
<1>16. InBoot(u) /\ u.cycles = s.cycles + 8 /\ u.internal_memory = s.internal_memory
       /\ u.pc = s.pc + 1
  BY <1>12, <1>14, <1>15 DEF InBoot, Ran
<1>17. t = Charge(4, u) /\ u.pc = u.pc + 0
  BY <1>5, <1>13, <1>16
<1>18. /\ Ran(0, 4, u, t) /\ SameMemory(u, t)
       /\ t.reg = u.reg /\ t.sp = u.sp /\ t.flags = u.flags
  BY <1>16, <1>17, ChargeBoot
<1>19. t.cycles = s.cycles + 12 /\ t.pc = s.pc + 1
  <2>1. t.cycles = (u.cycles + 4) % CycleMod /\ u.cycles + 4 = s.cycles + 12 /\ t.pc = u.pc + 0
    BY <1>13, <1>16, <1>18 DEF Ran
  <2> QED BY <1>14, <1>16, <1>17, <2>1
<1> QED
  BY <1>6, <1>8, <1>9, <1>12, <1>16, <1>18, <1>19 DEF Ran, SameMemory, Kept, Registers

\* JR NZ over -5: four cycles more when it is taken.
LEMMA JumpBack ==
  ASSUME NEW s, InBoot(s), s.pc \in 4..\hFD, BootRom[s.pc] = \hFB, s.cycles + 12 < CycleMod,
         NEW t, t = Charge(8, JumpRelative("NZ", "D8", s))
  PROVE  /\ t.status = "running" /\ t.boot_rom_enabled /\ SameMemory(s, t)
         /\ t.internal_memory = s.internal_memory
         /\ t.reg = s.reg /\ t.sp = s.sp /\ t.flags = s.flags
         /\ "Zero" \notin s.flags => t.pc = s.pc - 4 /\ t.cycles = s.cycles + 12
         /\ "Zero" \in s.flags => t.pc = s.pc + 1 /\ t.cycles = s.cycles + 8
<1> DEFINE f == D8(s)
<1> DEFINE v == Charge(4, f.st)
<1> DEFINE u == SetPc(s.pc - 4, v)
<1>1. s.pc \in 0..\hFE /\ s.pc \in Int /\ s.pc - 4 \in 0..\hFD /\ s.pc - 4 \in Int
  OBVIOUS
<1>2. f.val = \hFB /\ Took(1, s, f.st)
  BY <1>1, BootD8
<1>3. Get("D8", s) = f
  BY DEF Get, Reg8, Pairs, Pointers
<1> HIDE DEF f
<1>4. InBoot(f.st) /\ Kept(s, f.st) /\ Registers(s, f.st) /\ f.st.pc = s.pc + 1
  BY <1>2 DEF Took
<1>5. f.st.pc + int8(f.val) = s.pc - 4
  BY <1>1, <1>2, <1>4 DEF int8
<1>6. is_true("NZ", f.st) <=> "Zero" \notin s.flags
  BY <1>4 DEF is_true, Registers
<1>7. JumpRelative("NZ", "D8", s) = (IF "Zero" \notin s.flags THEN u ELSE f.st)
  BY <1>3, <1>5, <1>6 DEF JumpRelative
<1>8. s.cycles \in Nat
  BY CycleModAssumption DEF InBoot, StateOK
<1>9. /\ (s.cycles + 4) % CycleMod = s.cycles + 4 /\ (s.cycles + 8) % CycleMod = s.cycles + 8
      /\ (s.cycles + 12) % CycleMod = s.cycles + 12
  <2>1. /\ s.cycles + 4 \in Nat /\ s.cycles + 4 < CycleMod
        /\ s.cycles + 8 \in Nat /\ s.cycles + 8 < CycleMod /\ s.cycles + 12 \in Nat
    BY <1>8, CycleModAssumption
  <2> QED BY <2>1, NoWrap
<1>10. CASE "Zero" \in s.flags
  <2>1. t = Charge(8, f.st) /\ f.st.internal_memory = s.internal_memory /\ f.st.cycles = s.cycles
    BY <1>4, <1>7, <1>10 DEF Kept, Registers
  <2>2. /\ Ran(1, 8, s, t) /\ SameMemory(f.st, t)
        /\ t.reg = f.st.reg /\ t.sp = f.st.sp /\ t.flags = f.st.flags
    BY <1>4, <2>1, ChargeBoot
  <2> QED BY <1>4, <1>9, <1>10, <2>2 DEF Ran, SameMemory, Kept, Registers
<1>11. CASE "Zero" \notin s.flags
  <2>1. StateOK(f.st) /\ f.st.status = "running" /\ f.st.boot_rom_enabled
    BY <1>4 DEF InBoot
  <2>2. /\ f.st.internal_memory = s.internal_memory /\ f.st.cycles = s.cycles
        /\ f.st.pc = s.pc + 1
    BY <1>4 DEF Kept, Registers
  <2>3. /\ Ran(1, 4, s, v) /\ SameMemory(f.st, v)
        /\ v.reg = f.st.reg /\ v.sp = f.st.sp /\ v.flags = f.st.flags
    BY <1>4, <2>2, ChargeBoot
  <2>4. StateOK(v)
    BY <2>1, ChargeType
  <2> HIDE DEF v
  <2>5. v.status = "running" /\ v.boot_rom_enabled
    BY <2>3 DEF Ran
  <2>6. uint16(s.pc - 4) = s.pc - 4
    BY <1>1 DEF uint16
  <2>7. /\ Kept(v, u) /\ Registers(v, u) /\ u.status = "running"
        /\ u.pc = s.pc - 4
    BY <1>1, <2>4, <2>5, <2>6, SetPcEffect
  <2>8. StateOK(u)
    BY <1>1, <2>4, SetPcType
  <2> HIDE DEF u
  <2>9. /\ InBoot(u) /\ u.internal_memory = s.internal_memory /\ u.cycles = s.cycles + 4
        /\ u.pc = u.pc + 0
    BY <1>1, <1>9, <2>3, <2>5, <2>7, <2>8 DEF InBoot, Kept, Registers, Ran
  <2>10. t = Charge(8, u)
    BY <1>7, <1>11
  <2>11. /\ Ran(0, 8, u, t) /\ SameMemory(u, t)
         /\ t.reg = u.reg /\ t.sp = u.sp /\ t.flags = u.flags
    BY <2>9, <2>10, ChargeBoot
  <2>12. t.cycles = s.cycles + 12
    <3>1. t.cycles = (u.cycles + 8) % CycleMod /\ u.cycles + 8 = s.cycles + 12
      BY <1>8, <2>9, <2>11 DEF Ran
    <3> QED BY <1>9, <3>1
  <2> QED BY <1>4, <1>11, <2>3, <2>7, <2>9, <2>11, <2>12 DEF Ran, SameMemory, Kept, Registers
<1> QED
  BY <1>10, <1>11

-----------------------------------------------------------------------------
(* process() *)

\* The opcode at pc decides which operation runs; a row without a function panics.
LEMMA Dispatch ==
  ASSUME InBoot(state), state.pc \in 0..\hFE, process,
         NEW row, row = instructions[BootRom[state.pc]]
  PROVE  LET f == Fetched.st
         IN  /\ row.op = "Load" =>
                   state' = Charge(row.cycles, Load(row.args[1], row.args[2], f))
             /\ row.op = "Xor" => state' = Charge(row.cycles, Xor(row.args[1], f))
             /\ row.op = "Inc" => state' = Charge(row.cycles, Inc(row.args[1], f))
             /\ row.op = "JumpRelative" /\ row.args[1] # "Always" =>
                   state' = Charge(row.cycles, JumpRelative(row.args[1], row.args[2], f))
             /\ row.op = "PrefixCB" => state' = Charge(row.cycles, process_cb(f))
             /\ row.op = "null" => state' = panic(f)
<1>1. Fetched.val = BootRom[state.pc] /\ Fetched.st.status = "running"
  BY BootFetch DEF Fetched, Took, InBoot
<1>2. Current = row
  BY <1>1 DEF Current
<1>3. ~FetchFails
  BY <1>1 DEF FetchFails
<1>4. \A op : Ready(op) => row.op = op
  BY <1>2 DEF Ready
<1> QED
  BY <1>2, <1>3, <1>4
  DEF process, Retire, Arg1, Arg2, Unimplemented, ExecNop, ExecAdd, ExecSub, ExecXor, ExecCompare,
      ExecInc, ExecDec, ExecLoad, ExecJumpRelative, ExecJump, ExecPush, ExecPop, ExecCall,
      ExecRet, ExecPrefixCB, ExecUnimplemented, CopyFails

-----------------------------------------------------------------------------
(* The steps of the program *)

\* The video RAM as a range.
LEMMA InVideo ==
  ASSUME NEW a \in Int
  PROVE  a \in VideoRam <=> \h8000 <= a /\ a < \hA000
BY DEF VideoRam

\* The sound registers change at five offsets,
LEMMA SoundIoKept ==
  ASSUME NEW p \in Int, NEW q \in Int,
         p > \h13 <=> q > \h13, p > \h14 <=> q > \h14, p > \h18 <=> q > \h18,
         p > \h19 <=> q > \h19, p > \h1C <=> q > \h1C
  PROVE  SoundIo(p) = SoundIo(q)
BY DEF SoundIo

\* and there one at a time.
LEMMA SoundIoSet ==
  /\ SoundIo(\h14) = [SoundIo(\h13) EXCEPT ![\h26] = \h80]
  /\ SoundIo(\h15) = [SoundIo(\h14) EXCEPT ![\h11] = \h80]
  /\ SoundIo(\h19) = [SoundIo(\h18) EXCEPT ![\h12] = \hF3]
  /\ SoundIo(\h1A) = [SoundIo(\h19) EXCEPT ![\h25] = \hF3]
  /\ SoundIo(\h1D) = [SoundIo(\h1C) EXCEPT ![\h24] = \h77]
<1>1. \A p : SoundIo(p) = [f \in IoFields |-> SoundIo(p)[f]] /\ DOMAIN SoundIo(p) = IoFields
  BY DEF SoundIo
<1>2. /\ \h26 \in IoFields
      /\ \A f \in IoFields : SoundIo(\h14)[f] = IF f = \h26 THEN \h80 ELSE SoundIo(\h13)[f]
  BY DEF SoundIo, IoFields
<1>3. /\ \h11 \in IoFields
      /\ \A f \in IoFields : SoundIo(\h15)[f] = IF f = \h11 THEN \h80 ELSE SoundIo(\h14)[f]
  BY DEF SoundIo, IoFields
<1>4. /\ \h12 \in IoFields
      /\ \A f \in IoFields : SoundIo(\h19)[f] = IF f = \h12 THEN \hF3 ELSE SoundIo(\h18)[f]
  BY DEF SoundIo, IoFields
<1>5. /\ \h25 \in IoFields
      /\ \A f \in IoFields : SoundIo(\h1A)[f] = IF f = \h25 THEN \hF3 ELSE SoundIo(\h19)[f]
  BY DEF SoundIo, IoFields
<1>6. /\ \h24 \in IoFields
      /\ \A f \in IoFields : SoundIo(\h1D)[f] = IF f = \h24 THEN \h77 ELSE SoundIo(\h1C)[f]
  BY DEF SoundIo, IoFields
<1>7. SoundIo(\h14) = [SoundIo(\h13) EXCEPT ![\h26] = \h80]
  BY <1>1, <1>2
<1>8. SoundIo(\h15) = [SoundIo(\h14) EXCEPT ![\h11] = \h80]
  BY <1>1, <1>3
<1>9. SoundIo(\h19) = [SoundIo(\h18) EXCEPT ![\h12] = \hF3]
  BY <1>1, <1>4
<1>10. SoundIo(\h1A) = [SoundIo(\h19) EXCEPT ![\h25] = \hF3]
  BY <1>1, <1>5
<1>11. SoundIo(\h1D) = [SoundIo(\h1C) EXCEPT ![\h24] = \h77]
  BY <1>1, <1>6
<1> QED
  BY <1>7, <1>8, <1>9, <1>10, <1>11

\* The object behind the opcode at p, of a machine that BootInv describes.
Begun(p, f) ==
  /\ InBoot(f) /\ f.pc = p + 1 /\ f.internal_memory = Zeros /\ f.video = Zeros
  /\ f.io = SoundIo(p) /\ f.reg = state.reg /\ f.sp = state.sp /\ f.flags = state.flags
  /\ f.cycles = state.cycles

\* Every step starts from it.
LEMMA Begins ==
  ASSUME Shipped, BootInv, state.status = "running", process, NEW p \in 0..\h1F, state.pc = p
  PROVE  /\ Begun(p, Fetched.st) /\ InBoot(state) /\ state.pc \in 0..\hFE
         /\ StateOK(state') /\ BootRom = bootDMG
<1>1. InBoot(state) /\ state.pc \in 0..\hFE
  BY DEF BootInv, InBoot
<1>2. Took(1, state, Fetched.st)
  BY <1>1, BootFetch DEF Fetched
<1>3. StateOK(state')
  BY StepType DEF TypeOK, Next, BootInv
<1> QED
  BY <1>1, <1>2, <1>3 DEF Begun, BootInv, Took, Kept, Registers, Shipped

\* A step that returns and leaves the video RAM clear keeps the invariant if it
\* leads to one of the places.
LEMMA Arrives ==
  ASSUME StateOK(state'), state'.status = "running", state'.boot_rom_enabled,
         state'.internal_memory = Zeros, state'.video = Zeros, state'.io = SoundIo(state'.pc),
         \/ (BeforeLoop \/ InLoop)' /\ "Carry" \notin state'.flags
         \/ AfterLoop'
  PROVE  BootInv'
BY DEF BootInv

\* Before the loop.
LEMMA SetupStep ==
  ASSUME Shipped, BootInv, state.status = "running", process, BeforeLoop,
         "Carry" \notin state.flags
  PROVE  BootInv'
<1> DEFINE f == Fetched.st
<1>1. CycleMod > 28 /\ CycleMod \in Nat
  BY CycleModAssumption DEF Shipped, VideoSize
<1>2. CASE state.pc = \h00 /\ state.cycles = 0
  <2>1. /\ Begun(\h00, f) /\ InBoot(state) /\ state.pc \in 0..\hFE
        /\ StateOK(state') /\ BootRom = bootDMG
    BY <1>2, Begins
  <2>2. /\ BootRom[\h00] = \h31 /\ BootRom[\h01] = \hFE /\ BootRom[\h02] = \hFF
        /\ instructions[\h31] = Ins("Load", <<"SP", "D16">>, 12)
    BY <2>1, Program, Rows
  <2>3. state' = Charge(12, Load("SP", "D16", f))
    BY <1>2, <2>1, <2>2, Dispatch DEF Ins
  <2> HIDE DEF f
  <2>4. /\ InBoot(f) /\ f.pc = 1 /\ f.internal_memory = Zeros /\ f.video = Zeros
        /\ f.io = SoundIo(0) /\ f.flags = state.flags /\ f.cycles = 0
    BY <1>2, <2>1 DEF Begun
  <2>5. /\ Ran(2, 12, f, state') /\ SameMemory(f, state') /\ state'.flags = f.flags
        /\ state'.sp = Join(BootRom[f.pc + 1], BootRom[f.pc])
    BY <2>3, <2>4, LoadStack
  <2>6. state'.sp = \hFFFE
    BY <2>2, <2>4, <2>5 DEF Join
  <2>7. state'.cycles = 12 /\ state'.pc = 3
    BY <1>1, <2>4, <2>5, NoWrap DEF Ran
  <2>8. SoundIo(0) = SoundIo(3)
    BY SoundIoKept
  <2> QED BY <2>1, <2>4, <2>5, <2>6, <2>7, <2>8, Arrives DEF Ran, SameMemory, BeforeLoop
<1>3. CASE state.pc = \h03 /\ state.cycles = 12 /\ state.sp = \hFFFE
  <2>1. /\ Begun(\h03, f) /\ InBoot(state) /\ state.pc \in 0..\hFE
        /\ StateOK(state') /\ BootRom = bootDMG
    BY <1>3, Begins
  <2>2. BootRom[\h03] = \hAF /\ instructions[\hAF] = Ins("Xor", <<"A">>, 4)
    BY <2>1, Program, Rows
  <2>3. state' = Charge(4, Xor("A", f))
    BY <1>3, <2>1, <2>2, Dispatch DEF Ins
  <2> HIDE DEF f
  <2>4. /\ InBoot(f) /\ f.pc = 4 /\ f.internal_memory = Zeros /\ f.video = Zeros
        /\ f.io = SoundIo(3) /\ f.sp = \hFFFE /\ f.cycles = 12
    BY <1>3, <2>1 DEF Begun
  <2>5. /\ Ran(0, 4, f, state') /\ SameMemory(f, state') /\ state'.sp = f.sp
        /\ state'.flags = {"Zero"} /\ state'.reg["A"] = 0
    BY <2>3, <2>4, XorA
  <2>6. state'.cycles = 16 /\ state'.pc = 4
    BY <1>1, <2>4, <2>5, NoWrap DEF Ran
  <2>7. SoundIo(3) = SoundIo(4)
    BY SoundIoKept
  <2> QED BY <2>1, <2>4, <2>5, <2>6, <2>7, Arrives DEF Ran, SameMemory, BeforeLoop
<1>4. CASE state.pc = \h04 /\ state.cycles = 16 /\ state.sp = \hFFFE /\ state.reg["A"] = 0
  <2>1. /\ Begun(\h04, f) /\ InBoot(state) /\ state.pc \in 0..\hFE
        /\ StateOK(state') /\ BootRom = bootDMG
    BY <1>4, Begins
  <2>2. /\ BootRom[\h04] = \h21 /\ BootRom[\h05] = \hFF /\ BootRom[\h06] = \h9F
        /\ instructions[\h21] = Ins("Load", <<"HL", "D16">>, 12)
    BY <2>1, Program, Rows
  <2>3. state' = Charge(12, Load("HL", "D16", f))
    BY <1>4, <2>1, <2>2, Dispatch DEF Ins
  <2> HIDE DEF f
  <2>4. /\ InBoot(f) /\ f.pc = 5 /\ f.internal_memory = Zeros /\ f.video = Zeros
        /\ f.io = SoundIo(4) /\ f.sp = \hFFFE /\ f.cycles = 16 /\ f.reg["A"] = 0
        /\ f.flags = state.flags
    BY <1>4, <2>1 DEF Begun
  <2>5. /\ Ran(2, 12, f, state') /\ SameMemory(f, state') /\ state'.sp = f.sp
        /\ state'.flags = f.flags /\ state'.reg["A"] = f.reg["A"]
        /\ Pair("HL", state') = Join(BootRom[f.pc + 1], BootRom[f.pc])
    BY <2>3, <2>4, LoadPointer
  <2>6. Pair("HL", state') = \h9FFF
    BY <2>2, <2>4, <2>5 DEF Join
  <2>7. state'.cycles = 28 /\ state'.pc = 7
    BY <1>1, <2>4, <2>5, NoWrap DEF Ran
  <2>8. SoundIo(4) = SoundIo(7)
    BY SoundIoKept
  <2>9. InLoop'
    <3>1. \h9FFF \in VideoRam
      BY InVideo
    <3> QED BY <2>4, <2>5, <2>6, <2>7, <3>1 DEF InLoop
  <2> QED BY <2>1, <2>4, <2>5, <2>7, <2>8, <2>9, Arrives DEF Ran, SameMemory
<1> QED
  BY <1>2, <1>3, <1>4 DEF BeforeLoop

\* HL on the boot ROM is a word.
LEMMA PointerType ==
  ASSUME NEW s, InBoot(s)
  PROVE  Pair("HL", s) \in Int
<1>1. Pair("HL", s) \in Word
  BY PairType DEF InBoot, Pairs
<1> QED
  BY <1>1, WordIsInt

\* In the loop: 32 cycles for each byte, whichever of the three instructions is next.
LEMMA ClearStep ==
  ASSUME Shipped, BootInv, state.status = "running", process, InLoop,
         "Carry" \notin state.flags
  PROVE  BootInv'
<1> DEFINE f == Fetched.st
<1> DEFINE hl == Pair("HL", state)
<1>1. CycleMod > 262172 /\ CycleMod \in Nat
  BY CycleModAssumption DEF Shipped, VideoSize
<1>2. hl \in Int /\ hl + 1 \in Int /\ state.sp = \hFFFE /\ state.reg["A"] = 0
  <2>1. InBoot(state)
    BY DEF BootInv, InBoot
  <2> QED BY <2>1, PointerType DEF InLoop
<1> HIDE DEF hl
<1>3. CASE state.pc = \h07 /\ hl \in VideoRam /\ state.cycles = 28 + 32 * (\h9FFF - hl)
  <2>1. /\ Begun(\h07, f) /\ InBoot(state) /\ state.pc \in 0..\hFE
        /\ StateOK(state') /\ BootRom = bootDMG
    BY <1>3, Begins
  <2>2. /\ BootRom[\h07] = \h32
        /\ instructions[\h32] = Ins("Load", <<"PtrHLDecr", "A">>, 8)
    BY <2>1, Program, Rows
  <2>3. state' = Charge(8, Load("PtrHLDecr", "A", f))
    BY <1>3, <2>1, <2>2, Dispatch DEF Ins
  <2> HIDE DEF f
  <2>4. /\ InBoot(f) /\ f.pc = 8 /\ f.internal_memory = Zeros /\ f.video = Zeros
        /\ f.io = SoundIo(7) /\ f.sp = \hFFFE /\ f.reg["A"] = 0 /\ f.flags = state.flags
        /\ f.cycles = state.cycles /\ Pair("HL", f) = hl
    BY <1>2, <1>3, <2>1 DEF Begun, Pair, hl
  <2>5. /\ \h8000 <= hl /\ hl < \hA000
    BY <1>2, <1>3, InVideo
  <2> DEFINE w == set_memory_byte(hl, 0, f)
  <2>6. Reached(f, w) /\ SameMemory(f, w)
    BY <1>3, <2>4, ClearByte
  <2>7. Address("PtrHLDecr", f) = hl
    BY <2>4 DEF Address
  <2> HIDE DEF w
  <2>8. w = set_memory_byte(Address("PtrHLDecr", f), f.reg["A"], f) /\ Pair("HL", f) # 0
    BY <2>4, <2>5, <2>7 DEF w
  <2>9. /\ Ran(0, 8, f, state') /\ SameMemory(w, state') /\ state'.sp = f.sp
        /\ state'.flags = f.flags /\ Pair("HL", state') = Pair("HL", f) - 1
        /\ state'.reg["A"] = f.reg["A"]
    BY <2>3, <2>4, <2>6, <2>8, StoreA
  <2>10. state'.cycles = 36 + 32 * (\h9FFE - (hl - 1)) /\ state'.pc = 8
    <3>1. /\ f.cycles + 8 \in Nat /\ f.cycles + 8 < CycleMod
          /\ f.cycles + 8 = 36 + 32 * (\h9FFE - (hl - 1))
      BY <1>1, <1>2, <1>3, <2>4, <2>5
    <3> QED BY <2>4, <2>9, <3>1, NoWrap DEF Ran
  <2>11. SoundIo(7) = SoundIo(8)
    BY SoundIoKept
  <2>12. InLoop'
    <3>1. Pair("HL", state') = hl - 1 /\ Pair("HL", state') + 1 = hl
      BY <1>2, <2>4, <2>9
    <3> QED BY <1>3, <2>4, <2>9, <2>10, <3>1 DEF InLoop
  <2>13. state'.video = Zeros /\ state'.io = SoundIo(state'.pc)
    BY <2>4, <2>6, <2>9, <2>10, <2>11 DEF SameMemory
  <2> QED BY <2>1, <2>4, <2>9, <2>12, <2>13, Arrives DEF Ran
<1>4. CASE state.pc = \h08 /\ hl + 1 \in VideoRam /\ state.cycles = 36 + 32 * (\h9FFE - hl)
  <2>1. /\ Begun(\h08, f) /\ InBoot(state) /\ state.pc \in 0..\hFE
        /\ StateOK(state') /\ BootRom = bootDMG
    BY <1>4, Begins
  <2>2. /\ BootRom[\h08] = \hCB /\ BootRom[\h09] = \h7C
        /\ instructions[\hCB] = Ins("PrefixCB", <<>>, 4)
    BY <2>1, Program, Rows
  <2>3. state' = Charge(4, process_cb(f))
    BY <1>4, <2>1, <2>2, Dispatch DEF Ins
  <2> HIDE DEF f
  <2>4. /\ InBoot(f) /\ f.pc = 9 /\ f.internal_memory = Zeros /\ f.video = Zeros
        /\ f.io = SoundIo(8) /\ f.sp = \hFFFE /\ f.reg["A"] = 0 /\ f.flags = state.flags
        /\ f.cycles = state.cycles /\ Pair("HL", f) = hl
    BY <1>2, <1>4, <2>1 DEF Begun, Pair, hl
  <2>5. \h8000 <= hl + 1 /\ hl + 1 < \hA000
    BY <1>2, <1>4, InVideo
  <2>6. f.cycles + 12 < CycleMod
    BY <1>1, <1>2, <1>4, <2>4, <2>5
  <2>7. /\ state'.status = "running" /\ state'.boot_rom_enabled /\ SameMemory(f, state')
        /\ state'.internal_memory = f.internal_memory /\ state'.pc = f.pc + 1
        /\ state'.cycles = f.cycles + 12 /\ state'.reg = f.reg /\ state'.sp = f.sp
        /\ "Zero" \in state'.flags <=> Pair("HL", f) < \h8000
        /\ "Carry" \in state'.flags <=> "Carry" \in f.flags
    BY <2>2, <2>3, <2>4, <2>6, TestH
  <2>8. state'.cycles = 48 + 32 * (\h9FFE - hl) /\ state'.pc = \h0A
    BY <1>2, <1>4, <2>4, <2>7
  <2>9. Pair("HL", state') = hl
    BY <2>4, <2>7 DEF Pair
  <2>10. InLoop'
    BY <1>4, <2>4, <2>7, <2>8, <2>9 DEF InLoop
  <2>11. SoundIo(8) = SoundIo(\h0A)
    BY SoundIoKept
  <2>12. state'.video = Zeros /\ state'.io = SoundIo(state'.pc)
    BY <2>4, <2>7, <2>8, <2>11 DEF SameMemory
  <2> QED BY <2>1, <2>4, <2>7, <2>10, <2>12, Arrives
<1>5. CASE /\ state.pc = \h0A /\ hl + 1 \in VideoRam
           /\ state.cycles = 48 + 32 * (\h9FFE - hl)
           /\ "Zero" \in state.flags <=> hl < \h8000
  <2>1. /\ Begun(\h0A, f) /\ InBoot(state) /\ state.pc \in 0..\hFE
        /\ StateOK(state') /\ BootRom = bootDMG
    BY <1>5, Begins
  <2>2. /\ BootRom[\h0A] = \h20 /\ BootRom[\h0B] = \hFB
        /\ instructions[\h20] = Ins("JumpRelative", <<"NZ", "D8">>, 8)
    BY <2>1, Program, Rows
  <2>3. state' = Charge(8, JumpRelative("NZ", "D8", f))
    BY <1>5, <2>1, <2>2, Dispatch DEF Ins
  <2> HIDE DEF f
  <2>4. /\ InBoot(f) /\ f.pc = \h0B /\ f.internal_memory = Zeros /\ f.video = Zeros
        /\ f.io = SoundIo(\h0A) /\ f.sp = \hFFFE /\ f.reg["A"] = 0 /\ f.flags = state.flags
        /\ f.cycles = state.cycles /\ Pair("HL", f) = hl
    BY <1>2, <1>5, <2>1 DEF Begun, Pair, hl
  <2>5. \h8000 <= hl + 1 /\ hl + 1 < \hA000
    BY <1>2, <1>5, InVideo
  <2>6. f.cycles + 12 < CycleMod
    BY <1>1, <1>2, <1>5, <2>4, <2>5
  <2>7. /\ state'.status = "running" /\ state'.boot_rom_enabled /\ SameMemory(f, state')
        /\ state'.internal_memory = f.internal_memory
        /\ state'.reg = f.reg /\ state'.sp = f.sp /\ state'.flags = f.flags
        /\ "Zero" \notin f.flags => state'.pc = f.pc - 4 /\ state'.cycles = f.cycles + 12
        /\ "Zero" \in f.flags => state'.pc = f.pc + 1 /\ state'.cycles = f.cycles + 8
    BY <2>2, <2>3, <2>4, <2>6, JumpBack
  <2>8. Pair("HL", state') = hl
    BY <2>4, <2>7 DEF Pair
  <2>9. SoundIo(\h0A) = SoundIo(7) /\ SoundIo(\h0A) = SoundIo(\h0C)
    BY SoundIoKept
  <2>10. CASE "Zero" \notin state.flags
    <3>1. state'.pc = 7 /\ state'.cycles = 28 + 32 * (\h9FFF - hl)
      BY <1>2, <1>5, <2>4, <2>7, <2>10
    <3>2. hl \in VideoRam
      BY <1>2, <1>5, <2>5, <2>10, InVideo
    <3>3. InLoop'
      BY <2>4, <2>7, <2>8, <3>1, <3>2 DEF InLoop
    <3>4. state'.video = Zeros /\ state'.io = SoundIo(state'.pc)
      BY <2>4, <2>7, <2>9, <3>1 DEF SameMemory
    <3> QED BY <2>1, <2>4, <2>7, <3>3, <3>4, Arrives
  <2>11. CASE "Zero" \in state.flags
    <3>1. hl = \h7FFF
      BY <1>2, <1>5, <2>5, <2>11
    <3>2. state'.pc = \h0C /\ state'.cycles = 24 + 32 * VideoSize
      BY <1>5, <2>4, <2>7, <2>11, <3>1 DEF VideoSize
    <3>3. InLoop'
      BY <2>4, <2>7, <2>8, <3>1, <3>2 DEF InLoop
    <3>4. state'.video = Zeros /\ state'.io = SoundIo(state'.pc)
      BY <2>4, <2>7, <2>9, <3>2 DEF SameMemory
    <3> QED BY <2>1, <2>4, <2>7, <3>3, <3>4, Arrives
  <2> QED BY <2>10, <2>11
<1>6. CASE state.pc = \h0C
  <2>1. /\ Begun(\h0C, f) /\ InBoot(state) /\ state.pc \in 0..\hFE
        /\ StateOK(state') /\ BootRom = bootDMG
    BY <1>6, Begins
  <2>2. /\ BootRom[\h0C] = \h21 /\ BootRom[\h0D] = \h26 /\ BootRom[\h0E] = \hFF
        /\ instructions[\h21] = Ins("Load", <<"HL", "D16">>, 12)
    BY <2>1, Program, Rows
  <2>3. state' = Charge(12, Load("HL", "D16", f))
    BY <1>6, <2>1, <2>2, Dispatch DEF Ins
  <2> HIDE DEF f
  <2>4. /\ InBoot(f) /\ f.pc = \h0D /\ f.internal_memory = Zeros /\ f.video = Zeros
        /\ f.io = SoundIo(\h0C)
    BY <2>1 DEF Begun
  <2>5. /\ Ran(2, 12, f, state') /\ SameMemory(f, state')
        /\ Pair("HL", state') = Join(BootRom[f.pc + 1], BootRom[f.pc])
    BY <2>3, <2>4, LoadPointer
  <2>6. Pair("HL", state') = \hFF26 /\ state'.pc = \h0F
    BY <2>2, <2>4, <2>5 DEF Join, Ran
  <2>7. SoundIo(\h0C) = SoundIo(\h0F)
    BY SoundIoKept
  <2>8. AfterLoop'
    BY <2>6 DEF AfterLoop
  <2> QED BY <2>1, <2>4, <2>5, <2>6, <2>7, <2>8, Arrives DEF Ran, SameMemory
<1> QED
  BY <1>3, <1>4, <1>5, <1>6 DEF InLoop, hl

\* What a step of the sound setup leaves alone.
Onward(p) ==
  /\ StateOK(state') /\ state'.status = "running" /\ state'.boot_rom_enabled
  /\ state'.internal_memory = Zeros /\ state'.video = Zeros
  /\ state'.pc = p /\ state'.io = SoundIo(p)

\* An immediate load of A or C.
LEMMA SoundLoad ==
  ASSUME Shipped, BootInv, state.status = "running", process, NEW p \in 0..\h1E, state.pc = p,
         NEW x \in {"A", "C"}, NEW v, bootDMG[p + 1] = v,
         instructions[bootDMG[p]] = Ins("Load", <<x, "D8">>, 8), SoundIo(p + 2) = SoundIo(p)
  PROVE  /\ Onward(p + 2) /\ state'.reg = [state.reg EXCEPT ![x] = v]
         /\ Pair("HL", state') = Pair("HL", state)
<1> DEFINE f == Fetched.st
<1>1. /\ Begun(p, f) /\ InBoot(state) /\ state.pc \in 0..\hFE
      /\ StateOK(state') /\ BootRom = bootDMG
  BY Begins
<1>2. state' = Charge(8, Load(x, "D8", f))
  BY <1>1, Dispatch DEF Ins
<1> HIDE DEF f
<1>3. /\ InBoot(f) /\ f.pc = p + 1 /\ f.internal_memory = Zeros /\ f.video = Zeros
      /\ f.io = SoundIo(p) /\ f.reg = state.reg
  BY <1>1 DEF Begun
<1>4. f.pc \in 0..\hFD /\ p \in Int
  BY <1>3
<1>5. /\ Ran(1, 8, f, state') /\ SameMemory(f, state')
      /\ state'.reg = Put(f.reg, x, BootRom[f.pc])
  BY <1>2, <1>3, <1>4, LoadByte
<1>6. state'.pc = p + 2
  BY <1>3, <1>4, <1>5 DEF Ran
<1>7. Onward(p + 2)
  BY <1>1, <1>3, <1>5, <1>6 DEF Onward, Ran, SameMemory
<1>8. state'.reg = [state.reg EXCEPT ![x] = v]
  BY <1>1, <1>3, <1>5 DEF Put
<1>9. Pair("HL", state') = Pair("HL", state)
  BY <1>1, <1>8, Members DEF Pair, High, Low, InBoot, Reg8
<1> QED
  BY <1>7, <1>8, <1>9

\* A store of A to a sound register.
LEMMA SoundStore ==
  ASSUME Shipped, BootInv, state.status = "running", process, NEW p \in 0..\h1E, state.pc = p,
         NEW x \in {"PtrHLDecr", "PtrHL", "PtrC"},
         instructions[bootDMG[p]] = Ins("Load", <<x, "A">>, 8),
         NEW g \in {\h11, \h12, \h24, \h25, \h26}, Address(x, state) = \hFF00 + g,
         NEW v, state.reg["A"] = v, Pair("HL", state) # 0,
         SoundIo(p + 1) = [SoundIo(p) EXCEPT ![g] = v]
  PROVE  /\ Onward(p + 1)
         /\ Pair("HL", state') = (IF x = "PtrHLDecr" THEN Pair("HL", state) - 1
                                                    ELSE Pair("HL", state))
         /\ state'.reg["A"] = v /\ state'.reg["C"] = state.reg["C"]
<1> DEFINE f == Fetched.st
<1>1. /\ Begun(p, f) /\ InBoot(state) /\ state.pc \in 0..\hFE
      /\ StateOK(state') /\ BootRom = bootDMG
  BY Begins
<1>2. state' = Charge(8, Load(x, "A", f))
  BY <1>1, Dispatch DEF Ins
<1> HIDE DEF f
<1>3. /\ InBoot(f) /\ f.pc = p + 1 /\ f.internal_memory = Zeros /\ f.video = Zeros
      /\ f.io = SoundIo(p) /\ f.reg = state.reg
  BY <1>1 DEF Begun
<1>4. Pair("HL", f) = Pair("HL", state) /\ Address(x, f) = \hFF00 + g /\ v \in Byte
  BY <1>1, <1>3, AddressRegisters, Members DEF Pair, InBoot, Reg8
<1> DEFINE w == set_memory_byte(\hFF00 + g, v, f)
<1>5. Reached(f, w) /\ w.video = f.video /\ w.io = [f.io EXCEPT ![g] = v]
  BY <1>3, <1>4, SetPort
<1>6. w = set_memory_byte(Address(x, f), f.reg["A"], f)
  BY <1>3, <1>4
<1> HIDE DEF w
<1>7. /\ Ran(0, 8, f, state') /\ SameMemory(w, state')
      /\ Pair("HL", state') = (IF x = "PtrHLDecr" THEN Pair("HL", f) - 1 ELSE Pair("HL", f))
      /\ state'.reg["A"] = f.reg["A"] /\ state'.reg["C"] = f.reg["C"]
  BY <1>2, <1>3, <1>4, <1>5, <1>6, StoreA
<1>8. state'.pc = p + 1
  BY <1>3, <1>7 DEF Ran
<1>9. Onward(p + 1)
  BY <1>1, <1>3, <1>5, <1>7, <1>8 DEF Onward, Ran, SameMemory
<1> QED
  BY <1>3, <1>4, <1>7, <1>9

\* Behind the loop.
LEMMA SoundStep ==
  ASSUME Shipped, BootInv, state.status = "running", process, AfterLoop
  PROVE  BootInv'
<1> USE DEF Pairs
<1>1. \A p : Onward(p) /\ AfterLoop' => BootInv'
  BY Arrives DEF Onward
<1>2. /\ Pair("HL", state) # 0
      /\ Address("PtrHLDecr", state) = Pair("HL", state)
      /\ Address("PtrHL", state) = Pair("HL", state)
      /\ Address("PtrC", state) = \hFF00 + state.reg["C"]
      /\ state.reg \in [Reg8 -> Byte]
  BY Members DEF AfterLoop, Address, BootInv
<1>3. CASE state.pc = \h0F
  <2>1. SoundIo(\h0F) = SoundIo(\h11)
    BY SoundIoKept
  <2>2. bootDMG[\h10] = \h11 /\ instructions[bootDMG[\h0F]] = Ins("Load", <<"C", "D8">>, 8)
    BY Program, Rows
  <2>3. /\ Onward(\h11) /\ state'.reg = [state.reg EXCEPT !["C"] = \h11]
        /\ Pair("HL", state') = Pair("HL", state)
    BY <1>3, <2>1, <2>2, SoundLoad
  <2>4. AfterLoop'
    BY <1>2, <1>3, <2>3 DEF AfterLoop, Onward, Reg8
  <2> QED BY <1>1, <2>3, <2>4
<1>4. CASE state.pc = \h11
  <2>1. SoundIo(\h11) = SoundIo(\h13)
    BY SoundIoKept
  <2>2. bootDMG[\h12] = \h80 /\ instructions[bootDMG[\h11]] = Ins("Load", <<"A", "D8">>, 8)
    BY Program, Rows
  <2>3. /\ Onward(\h13) /\ state'.reg = [state.reg EXCEPT !["A"] = \h80]
        /\ Pair("HL", state') = Pair("HL", state)
    BY <1>4, <2>1, <2>2, SoundLoad
  <2>4. AfterLoop'
    BY <1>2, <1>4, <2>3 DEF AfterLoop, Onward, Reg8
  <2> QED BY <1>1, <2>3, <2>4
<1>5. CASE state.pc = \h13
  <2>1. instructions[bootDMG[\h13]] = Ins("Load", <<"PtrHLDecr", "A">>, 8)
    BY Program, Rows
  <2>2. Address("PtrHLDecr", state) = \hFF00 + \h26 /\ state.reg["A"] = \h80
    BY <1>2, <1>5 DEF AfterLoop
  <2>3. /\ Onward(\h14) /\ Pair("HL", state') = Pair("HL", state) - 1
        /\ state'.reg["A"] = \h80 /\ state'.reg["C"] = state.reg["C"]
    BY <1>2, <1>5, <2>1, <2>2, SoundIoSet, SoundStore
  <2>4. AfterLoop'
    BY <1>5, <2>3 DEF AfterLoop, Onward
  <2> QED BY <1>1, <2>3, <2>4
<1>6. CASE state.pc = \h14
  <2>1. instructions[bootDMG[\h14]] = Ins("Load", <<"PtrC", "A">>, 8)
    BY Program, Rows
  <2>2. Address("PtrC", state) = \hFF00 + \h11 /\ state.reg["A"] = \h80
    BY <1>2, <1>6 DEF AfterLoop
  <2>3. /\ Onward(\h15) /\ Pair("HL", state') = Pair("HL", state)
        /\ state'.reg["A"] = \h80 /\ state'.reg["C"] = state.reg["C"]
    BY <1>2, <1>6, <2>1, <2>2, SoundIoSet, SoundStore
  <2>4. AfterLoop'
    BY <1>6, <2>3 DEF AfterLoop, Onward
  <2> QED BY <1>1, <2>3, <2>4
<1>7. CASE state.pc = \h15
  <2> DEFINE f == Fetched.st
  <2>1. /\ Begun(\h15, f) /\ InBoot(state) /\ state.pc \in 0..\hFE
        /\ StateOK(state') /\ BootRom = bootDMG
    BY <1>7, Begins
  <2>2. BootRom[\h15] = \h0C /\ instructions[\h0C] = Ins("Inc", <<"C">>, 4)
    BY <2>1, Program, Rows
  <2>3. state' = Charge(4, Inc("C", f))
    BY <1>7, <2>1, <2>2, Dispatch DEF Ins
  <2> HIDE DEF f
  <2>4. /\ InBoot(f) /\ f.pc = \h16 /\ f.internal_memory = Zeros /\ f.video = Zeros
        /\ f.io = SoundIo(\h15) /\ f.reg = state.reg /\ f.reg["C"] = \h11
    BY <1>7, <2>1 DEF Begun, AfterLoop
  <2>5. /\ Ran(0, 4, f, state') /\ SameMemory(f, state')
        /\ state'.reg = [f.reg EXCEPT !["C"] = \h12]
    BY <2>3, <2>4, IncC
  <2>6. SoundIo(\h15) = SoundIo(\h16)
    BY SoundIoKept
  <2>7. Onward(\h16)
    BY <2>1, <2>4, <2>5, <2>6 DEF Onward, Ran, SameMemory
  <2>8. state'.reg["C"] = \h12 /\ Pair("HL", state') = Pair("HL", state)
    BY <1>2, <2>4, <2>5 DEF Pair, High, Low, Reg8
  <2>9. AfterLoop'
    BY <1>7, <2>7, <2>8 DEF AfterLoop, Onward
  <2> QED BY <1>1, <2>7, <2>9
<1>8. CASE state.pc = \h16
  <2>1. SoundIo(\h16) = SoundIo(\h18)
    BY SoundIoKept
  <2>2. bootDMG[\h17] = \hF3 /\ instructions[bootDMG[\h16]] = Ins("Load", <<"A", "D8">>, 8)
    BY Program, Rows
  <2>3. /\ Onward(\h18) /\ state'.reg = [state.reg EXCEPT !["A"] = \hF3]
        /\ Pair("HL", state') = Pair("HL", state)
    BY <1>8, <2>1, <2>2, SoundLoad
  <2>4. AfterLoop'
    BY <1>2, <1>8, <2>3 DEF AfterLoop, Onward, Reg8
  <2> QED BY <1>1, <2>3, <2>4
<1>9. CASE state.pc = \h18
  <2>1. instructions[bootDMG[\h18]] = Ins("Load", <<"PtrC", "A">>, 8)
    BY Program, Rows
  <2>2. Address("PtrC", state) = \hFF00 + \h12 /\ state.reg["A"] = \hF3
    BY <1>2, <1>9 DEF AfterLoop
  <2>3. /\ Onward(\h19) /\ Pair("HL", state') = Pair("HL", state)
        /\ state'.reg["A"] = \hF3 /\ state'.reg["C"] = state.reg["C"]
    BY <1>2, <1>9, <2>1, <2>2, SoundIoSet, SoundStore
  <2>4. AfterLoop'
    BY <1>9, <2>3 DEF AfterLoop, Onward
  <2> QED BY <1>1, <2>3, <2>4
<1>10. CASE state.pc = \h19
  <2>1. instructions[bootDMG[\h19]] = Ins("Load", <<"PtrHLDecr", "A">>, 8)
    BY Program, Rows
  <2>2. Address("PtrHLDecr", state) = \hFF00 + \h25 /\ state.reg["A"] = \hF3
    BY <1>2, <1>10 DEF AfterLoop
  <2>3. /\ Onward(\h1A) /\ Pair("HL", state') = Pair("HL", state) - 1
        /\ state'.reg["A"] = \hF3 /\ state'.reg["C"] = state.reg["C"]
    BY <1>2, <1>10, <2>1, <2>2, SoundIoSet, SoundStore
  <2>4. AfterLoop'
    BY <1>10, <2>3 DEF AfterLoop, Onward
  <2> QED BY <1>1, <2>3, <2>4
<1>11. CASE state.pc = \h1A
  <2>1. SoundIo(\h1A) = SoundIo(\h1C)
    BY SoundIoKept
  <2>2. bootDMG[\h1B] = \h77 /\ instructions[bootDMG[\h1A]] = Ins("Load", <<"A", "D8">>, 8)
    BY Program, Rows
  <2>3. /\ Onward(\h1C) /\ state'.reg = [state.reg EXCEPT !["A"] = \h77]
        /\ Pair("HL", state') = Pair("HL", state)
    BY <1>11, <2>1, <2>2, SoundLoad
  <2>4. AfterLoop'
    BY <1>2, <1>11, <2>3 DEF AfterLoop, Onward, Reg8
  <2> QED BY <1>1, <2>3, <2>4
<1>12. CASE state.pc = \h1C
  <2>1. instructions[bootDMG[\h1C]] = Ins("Load", <<"PtrHL", "A">>, 8)
    BY Program, Rows
  <2>2. Address("PtrHL", state) = \hFF00 + \h24 /\ state.reg["A"] = \h77
    BY <1>2, <1>12 DEF AfterLoop
  <2>3. /\ Onward(\h1D) /\ Pair("HL", state') = Pair("HL", state)
        /\ state'.reg["A"] = \h77 /\ state'.reg["C"] = state.reg["C"]
    BY <1>2, <1>12, <2>1, <2>2, SoundIoSet, SoundStore
  <2>4. AfterLoop'
    BY <1>12, <2>3 DEF AfterLoop, Onward
  <2> QED BY <1>1, <2>3, <2>4
<1>13. CASE state.pc = \h1D
  <2>1. SoundIo(\h1D) = SoundIo(\h1F)
    BY SoundIoKept
  <2>2. bootDMG[\h1E] = \hFC /\ instructions[bootDMG[\h1D]] = Ins("Load", <<"A", "D8">>, 8)
    BY Program, Rows
  <2>3. /\ Onward(\h1F) /\ state'.reg = [state.reg EXCEPT !["A"] = \hFC]
        /\ Pair("HL", state') = Pair("HL", state)
    BY <1>13, <2>1, <2>2, SoundLoad
  <2>4. AfterLoop'
    BY <1>2, <1>13, <2>3 DEF AfterLoop, Onward, Reg8
  <2> QED BY <1>1, <2>3, <2>4
<1>14. CASE state.pc = \h1F
  <2> DEFINE f == Fetched.st
  <2>1. /\ Begun(\h1F, f) /\ InBoot(state) /\ state.pc \in 0..\hFE
        /\ StateOK(state') /\ BootRom = bootDMG
    BY <1>14, Begins
  <2>2. BootRom[\h1F] = \hE0 /\ instructions[\hE0] = Null
    BY <2>1, Program, Rows
  <2>3. state' = panic(f)
    BY <1>14, <2>1, <2>2, Dispatch DEF Null, Ins
  <2> HIDE DEF f
  <2>4. /\ InBoot(f) /\ f.pc = \h20 /\ f.internal_memory = Zeros /\ f.video = Zeros
        /\ f.io = SoundIo(\h1F)
    BY <2>1 DEF Begun
  <2>5. SoundIo(\h1F) = SoundIo(\h20)
    BY SoundIoKept
  <2> QED BY <2>1, <2>3, <2>4, <2>5 DEF panic, InBoot, StateOK, BootInv
<1> QED
  BY <1>3, <1>4, <1>5, <1>6, <1>7, <1>8, <1>9, <1>10, <1>11, <1>12, <1>13, <1>14 DEF AfterLoop

-----------------------------------------------------------------------------
(* The program *)

\* What main() starts from.
LEMMA BootStarts ==
  ASSUME Loaded(state.rom, ResetCpu) = state, StateOK(state)
  PROVE  BootInv
<1> DEFINE s == Loaded(state.rom, ResetCpu)
<1>1. /\ s.io = ResetIo /\ s.pc = 0 /\ s.cycles = 0 /\ s.flags = {} /\ s.status = "running"
      /\ s.boot_rom_enabled /\ s.video = Zeros /\ s.internal_memory = Zeros
  BY DEF Loaded, ResetCpu
<1>2. SoundIo(0) = ResetIo
  BY DEF SoundIo, ResetIo
<1> QED
  BY <1>1, <1>2 DEF BootInv, BeforeLoop

\* One call of process() leads from place to place.
LEMMA BootProcess ==
  ASSUME Shipped, BootInv, process
  PROVE  BootInv'
<1>1. state.status = "running"
  BY DEF process, Ready, FetchFails, ExecNop, ExecAdd, ExecSub, ExecXor, ExecCompare, ExecInc,
         ExecDec, ExecLoad, ExecJumpRelative, ExecJump, ExecPush, ExecPop, ExecCall, ExecRet,
         ExecPrefixCB, ExecUnimplemented, CopyFails
<1> QED
  BY <1>1, SetupStep, ClearStep, SoundStep DEF BootInv

\* Nothing happens.
LEMMA BootStutters ==
  ASSUME BootInv, UNCHANGED state
  PROVE  BootInv'
BY DEF BootInv, BeforeLoop, InLoop, AfterLoop

\* The boot program runs through its places: the three loads, the loop that clears
\* the video RAM, the sound setup, and the LDH without a function.
THEOREM BootInvariant ==
  ASSUME Shipped, Cpus \subseteq {ResetCpu}
  PROVE  Spec => []BootInv
<1>1. Init => BootInv
  <2> SUFFICES ASSUME NEW rom \in Cartridges, state = Loaded(rom, ResetCpu)
               PROVE  BootInv
    BY DEF Init
  <2>1. ResetCpu \in CpuType /\ IsArray(rom, RomSize)
    BY ResetCpuType, CartridgesAssumption
  <2>2. StateOK(state)
    BY <2>1, LoadedType
  <2>3. state.rom = rom
    BY DEF Loaded
  <2> QED BY <2>2, <2>3, BootStarts
<1>2. BootInv /\ [Next]_state => BootInv'
  BY BootProcess, BootStutters DEF Next, Exited
<1> QED
  BY <1>1, <1>2, PTL DEF Spec

\* No turn of the clear loop is lost or charged twice.
THEOREM LoopTiming ==
  ASSUME Shipped, Cpus \subseteq {ResetCpu}
  PROVE  Spec => []ClearLoopTiming
<1>1. BootInv => ClearLoopTiming
  BY DEF BootInv, BeforeLoop, InLoop, AfterLoop, ClearLoopTiming, Cleared
<1> QED
  BY <1>1, BootInvariant, PTL

\* The loop is left when every byte of the video RAM has been written.
THEOREM LoopExit ==
  ASSUME Shipped, Cpus \subseteq {ResetCpu}
  PROVE  Spec => []ClearLoopExit
<1>1. BootInv => ClearLoopExit
  BY DEF BootInv, BeforeLoop, InLoop, AfterLoop, ClearLoopExit, VideoSize
<1> QED
  BY <1>1, BootInvariant, PTL

\* The boot program ends at its first LDH, and nowhere else.
THEOREM FirstLdh ==
  ASSUME Shipped, Cpus \subseteq {ResetCpu}
  PROVE  Spec => []StopsAtFirstLdh
<1> DEFINE sound == [ResetIo EXCEPT ![\h26] = \h80, ![\h11] = \h80, ![\h12] = \hF3,
                                    ![\h25] = \hF3, ![\h24] = \h77]
<1>1. SoundIo(\h20) = sound
  <2>1. \A f \in IoFields : SoundIo(\h20)[f] = sound[f]
    BY DEF SoundIo, ResetIo, IoFields
  <2> QED BY <2>1 DEF SoundIo, ResetIo
<1>2. BootInv => StopsAtFirstLdh
  <2> SUFFICES ASSUME BootInv, state.status # "running"
               PROVE  /\ state.status = "panicked"
                      /\ state.pc = \h20 /\ state.boot_rom_enabled
                      /\ state.io = sound
                      /\ state.video = Zeros /\ state.internal_memory = Zeros
    BY DEF StopsAtFirstLdh
  <2> HIDE DEF sound
  <2> QED BY <1>1 DEF BootInv
<1> QED
  BY <1>2, BootInvariant, PTL
=============================================================================
