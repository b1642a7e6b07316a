--------------------------- MODULE GuestPrograms ----------------------------
(***************************************************************************)
(* Guest programs that combine operands, arithmetic, flags, stack and      *)
(* memory, what each computes, and every state it passes through.  F,      *)
(* which none of them changes, tells which one runs; FF has no function    *)
(* and ends each.                                                          *)
(***************************************************************************)
EXTENDS Recursion

\* The boot ROM's drawing of the logo, which doubles the bits of every nibble, with
\* RLA (17, no function) written as RL A.
Scale == 1
ScaleCode == <<\h11, \h04, \h01,    \* 0200       LD DE,0104
               \h21, \h10, \h80,    \* 0203       LD HL,8010
               \h1A,                \* 0206 next: LD A,(DE)
               \hCD, \h15, \h02,    \* 0207       CALL fun
               \hCD, \h16, \h02,    \* 020A       CALL fun + 1
               \h13, \h7B,          \* 020D       INC DE; LD A,E
               \hFE, \h34,          \* 020F       CP 34
               \h20, \hF3,          \* 0211       JR NZ,next
               \hFF, \hFF,          \* 0213       end
               \h4F, \h06, \h04,    \* 0215 fun:  LD C,A; LD B,4
               \hC5,                \* 0218 bit:  PUSH BC
               \hCB, \h11,          \* 0219       RL C
               \hCB, \h17,          \* 021B       RL A
               \hC1,                \* 021D       POP BC
               \hCB, \h11,          \* 021E       RL C
               \hCB, \h17,          \* 0220       RL A
               \h05, \h20, \hF3,    \* 0222       DEC B; JR NZ,bit
               \h22, \h23,          \* 0225       LD (HL+),A; INC HL
               \h22, \h23, \hC9>>   \* 0227       LD (HL+),A; INC HL; RET

\* B bytes from HL to DE; sp holds the first DE.
Copy == 3
CopyCode == <<\h2A, \h12, \h13,     \* 0240 next: LD A,(HL+); LD (DE),A; INC DE
              \h05, \h20, \hFA,     \* 0243       DEC B; JR NZ,next
              \hFF>>               \* 0246       end

\* HL becomes B times DE; C holds the first B.
Multiply == 4
MultiplyCode == <<\h21, \h00, \h00,  \* 0260       LD HL,0000
                  \h19,              \* 0263 next: ADD HL,DE
                  \h05, \h20, \hFC,  \* 0264       DEC B; JR NZ,next
                  \hFF>>             \* 0267       end

\* Counting up until Zero.
CountUp == 5
CountUpCode == <<\h04, \h20, \hFD>>  \* 0270 next: INC B; JR NZ,next

\* A register pair saved around a comparison, and a branch after it.
SaveAF == 6
SaveAFCode == <<\hB8, \hF5,         \* 0280       CP B; PUSH AF
                \hB9, \hF1,         \* 0282       CP C; POP AF
                \h28, \h01,         \* 0284       JR Z,0287
                \hFF, \hFF>>        \* 0286       ends

\* A CALL at FFFF, reached by a return: its operand is behind the wrap.
Wrap == 7
WrapCode == <<\h3E, \hCD,           \* 0290       LD A,CD
              \hEA, \hFF, \hFF,     \* 0292       LD (FFFF),A
              \h21, \hFF, \hFF,     \* 0295       LD HL,FFFF
              \hE5, \hC9>>          \* 0298       PUSH HL; RET

Program(p) == state.reg["F"] = p
Running    == state.status = "running"
AtPc(pc)   == Running /\ state.pc = pc

\* The code at its CPU address, and a start of it.
CodeAt(rom, at, code) ==
  \A i \in 1..Len(code) : LET o == at - \h101 + i IN o \in DOMAIN rom /\ rom[o] = code[i]

Enters(program, at, code) ==
  Program(program) /\ state.pc = at /\ CodeAt(state.rom, at, code)

-----------------------------------------------------------------------------
(* What they compute *)

\* Bit i of the nibble becomes bits 2i and 2i + 1.
Doubled(nibble) == 3 * (BitOf(nibble, 1) + 4 * BitOf(nibble, 2)
                          + 16 * BitOf(nibble, 4) + 64 * BitOf(nibble, 8))

\* After 96 calls, each of four turns that rotate a bit out of C into A twice, once with
\* BC saved around it, the video memory holds the logo the CPU reads at 0104, scaled, and
\* nothing else; the stack and HL are where they should be.
LogoScaled ==
  (Program(Scale) /\ AtPc(\h0213)) =>
     /\ \A i \in 0..95 : LET byte == ByteAt(\h0104 + i \div 2, state)
                             want == Doubled(IF i % 2 = 0 THEN byte \div 16 ELSE byte % 16)
                         IN  /\ ByteAt(\h8010 + 4 * i, state) = want
                             /\ ByteAt(\h8012 + 4 * i, state) = want
     /\ DOMAIN state.video \subseteq {\h10 + 2 * i : i \in 0..191}
     /\ state.sp = \hFFFE /\ Pair("HL", state) = \h8190

\* Turns of a loop that DEC ends, from b: 0 counts through 255.
Turns(b) == IF b = 0 THEN 256 ELSE b

\* The addresses whose byte is no longer what State() made it.
Touched(s) ==
  {\h8000 + i : i \in DOMAIN s.video} \cup {\hFF80 + i : i \in DOMAIN s.internal_memory}
    \cup (IF s.interrupt_enabled = 0 THEN {} ELSE {\hFFFF})

\* Between sp and DE is a copy of the bytes before HL, at every turn of the loop, also
\* when the source runs into the copy; the copy stops at the first address that cannot
\* be written, with everything before it copied, and no other byte changes in the video and
\* the internal memory or at FFFF, nor an I/O register or the boot ROM switch.
CopyExact ==
  Program(Copy) =>
     LET de == Pair("DE", state)
         hl == Pair("HL", state)
         done == uint16(de - state.sp)
         stored == IF AtPc(\h0242) THEN done + 1 ELSE done
         Agree(source) == \A i \in 1..done :
           ByteAt(uint16(de - i), state) = ByteAt(uint16(source - i), state)
     IN  /\ AtPc(\h0240) \/ AtPc(\h0246) => Agree(hl)
         /\ AtPc(\h0246) => done = Turns(state.reg["C"])
         /\ ~Running /\ state.pc = \h0242 => de \in {\hA000, \h0000} /\ Agree(hl - 1)
         /\ Touched(state) \subseteq state.sp..(state.sp + stored - 1)
         /\ state.io = ResetIo /\ state.boot_rom_enabled

\* ADD HL,DE and a counted loop multiply, modulo 2^16: at every turn HL is DE times
\* the turns taken, 256 in all when the count starts from 0.
MultiplyExact ==
  (Program(Multiply) /\ (AtPc(\h0263) \/ AtPc(\h0267))) =>
     LET left == IF AtPc(\h0267) THEN 0 ELSE Turns(state.reg["B"])
     IN  Pair("HL", state) = uint16((Turns(state.reg["C"]) - left) * Pair("DE", state))

\* The flags are not part of AF: a branch after POP AF follows the comparison made
\* since PUSH AF and not the one saved, whatever that was; A, F and sp are restored.
FlagsOutsideAF ==
  (Program(SaveAF) /\ (AtPc(\h0286) \/ AtPc(\h0287))) =>
     /\ AtPc(\h0287) <=> state.reg["A"] = state.reg["C"]
     /\ state.reg["A"] = 5 /\ state.sp = \hFFFE

\* An instruction whose opcode is in the interrupt register takes its operand from
\* 0000 and 0001 and returns to 0002: addresses wrap in the middle of it.
CallAcrossWrap ==
  (Program(Wrap) /\ state.status = "panicked") =>
     /\ state.pc = uint16(Join(BootRom[1], BootRom[0]) + 1)
     /\ state.sp = \hFFFC /\ PopWord([state EXCEPT !.status = "running"]).val = \h0002

-----------------------------------------------------------------------------
(* Every state they pass through *)

MultiplyStarts ==
  Enters(Multiply, \h0260, MultiplyCode) /\ state.reg["B"] = state.reg["C"]

MultiplyInv ==
  LET b == state.reg["B"]
      n == Turns(state.reg["C"])
      Added(k) == Pair("HL", state) = uint16(k * Pair("DE", state))
  IN  /\ CodeAt(state.rom, \h0260, MultiplyCode)
      /\ Running =>
           \/ state.pc = \h0260 /\ b = state.reg["C"]
           \/ state.pc = \h0263 /\ Turns(b) <= n /\ Added(n - Turns(b))
           \/ state.pc = \h0264 /\ Turns(b) <= n /\ Added(n - Turns(b) + 1)
           \/ state.pc = \h0265 /\ b < n /\ Added(n - b) /\ ("Zero" \in state.flags <=> b = 0)
           \/ state.pc = \h0267 /\ Added(n)

CountUpStarts == Enters(CountUp, \h0270, CountUpCode)

CountUpInv ==
  /\ CodeAt(state.rom, \h0270, CountUpCode)
  /\ \/ AtPc(\h0270)
     \/ AtPc(\h0271) /\ "Zero" \notin state.flags

SaveAFStarts ==
  Enters(SaveAF, \h0280, SaveAFCode) /\ state.reg["A"] = 5 /\ state.sp = Top(0)

SaveAFInv ==
  /\ CodeAt(state.rom, \h0280, SaveAFCode)
  /\ Running =>
       /\ state.reg["A"] = 5 /\ state.reg["F"] = SaveAF
       /\ \/ state.pc \in {\h0280, \h0281} /\ state.sp = Top(0)
          \/ state.pc = \h0282 /\ state.sp = Top(1) /\ WordAt(1, state) = Join(5, SaveAF)
          \/ /\ state.pc = \h0283 /\ state.sp = Top(1) /\ WordAt(1, state) = Join(5, SaveAF)
             /\ "Zero" \in state.flags <=> state.reg["C"] = 5
          \/ /\ state.pc = \h0284 /\ state.sp = Top(0)
             /\ "Zero" \in state.flags <=> state.reg["C"] = 5
          \/ state.pc = \h0286 /\ state.sp = Top(0) /\ state.reg["C"] # 5
          \/ state.pc = \h0287 /\ state.sp = Top(0) /\ state.reg["C"] = 5

WrapStarts == Enters(Wrap, \h0290, WrapCode) /\ state.sp = Top(0)

\* Where the boot ROM's first two bytes, taken as an address, send the CALL.
Entry == Join(BootRom[1], BootRom[0])

WrapInv ==
  /\ CodeAt(state.rom, \h0290, WrapCode) /\ state.boot_rom_enabled
  /\ IF Running
     THEN \/ state.pc = \h0290 /\ state.sp = Top(0)
          \/ state.pc = \h0292 /\ state.sp = Top(0) /\ state.reg["A"] = \hCD
          \/ /\ state.interrupt_enabled = \hCD
             /\ \/ state.pc = \h0295 /\ state.sp = Top(0)
                \/ state.pc = \h0298 /\ state.sp = Top(0) /\ Pair("HL", state) = \hFFFF
                \/ state.pc = \h0299 /\ state.sp = Top(1) /\ WordAt(1, state) = \hFFFF
                \/ state.pc = \hFFFF /\ state.sp = Top(0)
                \/ state.pc = Entry /\ state.sp = Top(1) /\ WordAt(1, state) = \h0002
     ELSE \/ state.status = "crashed"
          \/ /\ state.status = "panicked" /\ state.pc = uint16(Entry + 1)
             /\ state.sp = Top(1) /\ WordAt(1, state) = \h0002

\* Up to 256 bytes to the video memory or to the end of the address space, from a source
\* that is not overwritten before it is read.
CopyStarts ==
  /\ Enters(Copy, \h0240, CopyCode) /\ state.reg["B"] = state.reg["C"]
  /\ state.sp = Pair("DE", state) /\ state.sp \in VideoRam \cup \hFF80..\hFFFF
  /\ uint16(Pair("HL", state) - Pair("DE", state)) \notin 1..255

\* In s, d bytes have been copied, from before hl.
Copied(d, hl, s) ==
  LET de == Pair("DE", s)
  IN  /\ de = uint16(s.sp + d) /\ d \in 0..256
      /\ s.sp \in VideoRam => s.sp + d <= \hA000
      /\ s.sp \notin VideoRam => s.sp \in \hFF80..\hFFFF /\ s.sp + d <= \h10000
      /\ uint16(hl - de) \notin 1..255
      /\ \A i \in 1..d : ByteAt(uint16(de - i), s) = ByteAt(uint16(hl - i), s)

\* Only n bytes from sp on have been written.
CopyWrites(n, s) ==
  /\ \A i \in DOMAIN s.video : \h8000 + i \in s.sp..(s.sp + n - 1)
  /\ \A i \in DOMAIN s.internal_memory : \hFF80 + i \in s.sp..(s.sp + n - 1)
  /\ s.interrupt_enabled # 0 => \hFFFF \in s.sp..(s.sp + n - 1)
  /\ s.io = ResetIo /\ s.boot_rom_enabled

CopyInv ==
  LET b  == state.reg["B"]
      n  == Turns(state.reg["C"])
      d  == n - Turns(b)
      de == Pair("DE", state)
      hl == Pair("HL", state)
      Done(k, source) == Copied(k, source, state) /\ CopyWrites(k, state)
  IN  /\ CodeAt(state.rom, \h0240, CopyCode)
      /\ IF Running
         THEN \/ state.pc = \h0240 /\ Done(d, hl)
              \/ /\ state.pc = \h0241 /\ Done(d, uint16(hl - 1))
                 /\ state.reg["A"] = ByteAt(uint16(hl - 1), state)
              \/ /\ state.pc = \h0242 /\ Copied(d, uint16(hl - 1), state)
                 /\ CopyWrites(d + 1, state) /\ de \notin {\hA000, 0}
                 /\ ByteAt(de, state) = ByteAt(uint16(hl - 1), state)
              \/ state.pc = \h0243 /\ Done(d + 1, hl) /\ d >= 0
              \/ state.pc = \h0244 /\ Done(n - b, hl) /\ b < n /\ ("Zero" \in state.flags <=> b = 0)
              \/ state.pc = \h0246 /\ Done(n, hl)
         ELSE \/ state.pc = \h0241 /\ Done(d, hl)
              \/ state.pc = \h0242 /\ Done(d, uint16(hl - 1)) /\ de \in {\hA000, 0}
              \/ state.pc = \h0247 /\ Done(n, hl)

\* The CPU reads the logo of the file at 0104.
LogoPresent == \A m \in 0..47 : 4 + m \in DOMAIN state.rom

ScaleStarts == Enters(Scale, \h0200, ScaleCode) /\ LogoPresent /\ state.sp = Top(0)

\* The m-th byte of the logo and its nibbles; the picture with the first k nibbles drawn.
Logo(m) == At(state.rom, 4 + m)

Nibble(k) == IF k % 2 = 0 THEN Logo(k \div 2) \div 16 ELSE Logo(k \div 2) % 16

Row(a, k) == At(state.video, \h10 + a) = Doubled(Nibble(k))

Drawn(k) ==
  /\ \A i \in 0..95 : i < k => Row(4 * i, i) /\ Row(4 * i + 2, i)
  /\ DOMAIN state.video \subseteq {\h10 + 2 * i : i \in 0..191}

\* k nibbles have been drawn; DE is at the m-th byte of the logo, HL at offset a of the
\* picture.
Scene(k, m, a) ==
  Drawn(k) /\ Pair("DE", state) = \h0104 + m /\ Pair("HL", state) = \h8010 + a

\* Between the calls for the m-th byte.
Outer(m) ==
  /\ state.sp = Top(0)
  /\ \/ state.pc = \h0206 /\ m < 48 /\ Scene(2 * m, m, 8 * m)
     \/ state.pc = \h0207 /\ m < 48 /\ Scene(2 * m, m, 8 * m) /\ state.reg["A"] = Logo(m)
     \/ /\ state.pc = \h020A /\ m < 48 /\ Scene(2 * m + 1, m, 8 * m + 4)
        /\ state.reg["C"] \div 16 = Logo(m) % 16
     \/ state.pc = \h020D /\ m < 48 /\ Scene(2 * m + 2, m, 8 * m + 8)
     \/ /\ m > 0 /\ Scene(2 * m, m, 8 * m)
        /\ \/ state.pc = \h020E
           \/ state.pc = \h020F /\ state.reg["A"] = 4 + m
           \/ state.pc = \h0211 /\ ("Zero" \in state.flags <=> m = 48)
           \/ state.pc = \h0213 /\ m = 48

\* With b turns to go, c has rotated 4 - b bits of w out of its way, and the bits of w
\* that left it are doubled in a.  The next one is Leaving; a turn appends it twice.
Power == <<1, 2, 4, 8, 16>>

Rotated(w, b, c) == c \div Power[5 - b] = w % (16 * Power[b + 1])

Leaving(w, b) == (w \div (8 * Power[b + 1])) % 2

Gone(w, b) == Doubled(w \div (16 * Power[b + 1]))

Target(w, b, a) == a % (Power[5 - b] * Power[5 - b]) = Gone(w, b)

Half(w, b, a) == a % (2 * Power[5 - b] * Power[5 - b]) = 2 * Gone(w, b) + Leaving(w, b)

Carries1(w, b) == "Carry" \in state.flags <=> Leaving(w, b) = 1

\* BC with b and a rotated w, on the stack.
Saved(w, b) == \E c \in Byte : WordAt(2, state) = Join(b, c) /\ Rotated(w, b, c)

Turn(w, b) ==
  LET A == state.reg["A"]  B == state.reg["B"]  C == state.reg["C"]
  IN  \/ /\ state.sp = Top(2)
         /\ \/ state.pc = \h0219 /\ Saved(w, b) /\ Rotated(w, b, C) /\ Target(w, b, A)
            \/ state.pc = \h021B /\ Saved(w, b) /\ Carries1(w, b) /\ Target(w, b, A)
            \/ state.pc = \h021D /\ Saved(w, b) /\ Half(w, b, A)
      \/ /\ state.sp = Top(1)
         /\ \/ state.pc = \h0218 /\ B = b /\ Rotated(w, b, C) /\ Target(w, b, A)
            \/ state.pc = \h021E /\ B = b /\ Rotated(w, b, C) /\ Half(w, b, A)
            \/ state.pc = \h0220 /\ B = b /\ Rotated(w, b - 1, C) /\ Carries1(w, b) /\ Half(w, b, A)
            \/ state.pc = \h0222 /\ B = b /\ Rotated(w, b - 1, C) /\ Target(w, b - 1, A)
            \/ /\ state.pc = \h0223 /\ B = b - 1 /\ Rotated(w, b - 1, C) /\ Target(w, b - 1, A)
               /\ "Zero" \in state.flags <=> b = 1

\* The call that draws nibble h of the m-th byte, the upper half of w,
Called(m, h, w) ==
  /\ w \div 16 = Nibble(2 * m + h) /\ (h = 0 => w = Logo(m))
  /\ WordAt(1, state) = IF h = 0 THEN \h020A ELSE \h020D

\* before it is drawn, while it is, and after.
Drawing(m, h, w) ==
  LET k == 2 * m + h  a == 8 * m + 4 * h
  IN  \/ /\ Scene(k, m, a)
         /\ \/ state.pc = \h0215 /\ state.sp = Top(1) /\ h = 0 /\ state.reg["A"] = w
            \/ state.pc = \h0216 /\ state.sp = Top(1) /\ state.reg["C"] = w
            \/ \E b \in 1..4 : Turn(w, b)
      \/ /\ state.sp = Top(1) /\ state.reg["A"] = Gone(w, 0) /\ Rotated(w, 0, state.reg["C"])
         /\ \/ state.pc = \h0225 /\ Scene(k, m, a)
            \/ state.pc = \h0226 /\ Scene(k, m, a + 1) /\ Row(a, k)
            \/ state.pc = \h0227 /\ Scene(k, m, a + 2) /\ Row(a, k)
            \/ state.pc = \h0228 /\ Scene(k + 1, m, a + 3)
            \/ state.pc = \h0229 /\ Scene(k + 1, m, a + 4)

ScaleInv ==
  /\ CodeAt(state.rom, \h0200, ScaleCode) /\ LogoPresent
  /\ Running =>
       \/ state.pc = \h0200 /\ state.sp = Top(0) /\ state.video = Zeros
       \/ /\ state.pc = \h0203 /\ state.sp = Top(0) /\ state.video = Zeros
          /\ Pair("DE", state) = \h0104
       \/ \E m \in 0..48 : Outer(m)
       \/ \E m \in 0..47, h \in 0..1, w \in Byte : Called(m, h, w) /\ Drawing(m, h, w)
=============================================================================
