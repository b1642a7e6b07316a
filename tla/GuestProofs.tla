---------------------------- MODULE GuestProofs -----------------------------
(***************************************************************************)
(* Guest programs, instruction by instruction, for every cartridge that    *)
(* carries them and every value they start with.  The stack is a last-in   *)
(* first-out list of words as long as sp stays in the internal memory, and *)
(* the recursive function of Recursion uses it as one, at every depth.     *)
(* The loops and branches of GuestPrograms compute what they should.       *)
(***************************************************************************)
EXTENDS GuestPrograms, IsaProofs, SequenceTheorems

-----------------------------------------------------------------------------
(* Reading a program *)

Alive(s) == StateOK(s) /\ s.status = "running"

\* A read of a returns b.
Finds(a, b, s) == ByteAt(a, s) = b /\ ReadStatus(a, s) = "running"

\* t is s after reading n bytes of the program.
Took(n, s, t) == Alive(t) /\ Kept(s, t) /\ Registers(s, t) /\ t.pc = uint16(s.pc + n)

\* What is read depends on memory only.
LEMMA ReadsKept ==
  ASSUME NEW s, NEW t, Kept(s, t), NEW a, NEW b, Finds(a, b, s)
  PROVE  Finds(a, b, t)
<1>1. ReadStatus(a, t) = ReadStatus(a, s)
  BY DEF ReadStatus, Kept
<1> QED
  BY <1>1, KeptBytes DEF Finds

\* An opcode.
LEMMA TakeOpcode ==
  ASSUME NEW s, Alive(s), NEW b, Finds(s.pc, b, s)
  PROVE  Fetch(s).val = b /\ Took(1, s, Fetch(s).st)
<1> DEFINE moved == SetPc(s.pc + 1, s)
<1>1. Fetch(s).val = ByteAt(s.pc, s) /\ Consumed(1, s, Fetch(s).st) /\ StateOK(Fetch(s).st)
  BY FetchEffect, FetchType DEF Alive
<1>2. s.pc + 1 \in Int
  BY Members, WordSteps DEF Alive
<1>3. Kept(s, moved) /\ moved.status = "running" /\ StateOK(moved)
  BY <1>2, SetPcEffect, SetPcType DEF Alive
<1>4. Fetch(s).st = Then(moved, [moved EXCEPT !.status = ReadStatus(s.pc, moved)])
  BY DEF Fetch, get_memory_byte
<1> HIDE DEF moved
<1>5. ReadStatus(s.pc, moved) = "running"
  BY <1>3, ReadsKept DEF Finds
<1>6. Fetch(s).st.status = "running"
  BY <1>3, <1>4, <1>5 DEF Then, StateOK
<1> QED
  BY <1>1, <1>6 DEF Consumed, Took, Alive, Finds

\* An operand byte.
LEMMA TakeByte ==
  ASSUME NEW s, Alive(s), NEW b, Finds(s.pc, b, s)
  PROVE  D8(s).val = b /\ Took(1, s, D8(s).st)
<1> DEFINE read == get_memory_byte(s.pc, s)
<1>1. D8(s).val = ByteAt(s.pc, s) /\ Consumed(1, s, D8(s).st) /\ StateOK(D8(s).st)
  BY D8Effect, D8Type DEF Alive
<1>2. read.st.status = "running"
  BY DEF get_memory_byte, Then, Alive, StateOK, Finds
<1>3. D8(s).st.status = "running"
  <2>1. D8(s).st = SetPc(s.pc + 1, read.st) /\ s.pc + 1 \in Int /\ StateOK(read.st)
    BY Members, WordSteps, GetMemoryByteType DEF D8, Value, Alive
  <2> HIDE DEF read
  <2> QED BY <1>2, <2>1, SetPcEffect
<1> QED
  BY <1>1, <1>3 DEF Consumed, Took, Alive, Finds

\* Two of them, the low one first.
LEMMA TakeWord ==
  ASSUME NEW s, Alive(s), NEW lo, NEW hi,
         Finds(s.pc, lo, s), Finds(uint16(s.pc + 1), hi, s)
  PROVE  D16(s).val = Join(hi, lo) /\ Took(2, s, D16(s).st)
<1> DEFINE first == D8(s)
<1> DEFINE second == D8(first.st)
<1>1. first.val = lo /\ Took(1, s, first.st)
  BY TakeByte
<1>2. D16(s).val = Join(second.val, first.val) /\ D16(s).st = second.st
  BY DEF D16, Value
<1> HIDE DEF first
<1>3. Alive(first.st) /\ Finds(first.st.pc, hi, first.st)
  BY <1>1, ReadsKept DEF Took
<1>4. second.val = hi /\ Took(1, first.st, second.st)
  BY <1>3, TakeByte
<1> HIDE DEF second
<1>5. uint16(uint16(s.pc + 1) + 1) = uint16(s.pc + 2)
  BY Members, WordSteps, WrapsOnce DEF Alive
<1>6. Took(2, s, second.st)
  BY <1>1, <1>4, <1>5 DEF Took, Kept, Registers
<1> QED
  BY <1>1, <1>2, <1>4, <1>6

\* The file from its offset 0 is what the CPU reads from 0100.
LEMMA RomReads ==
  ASSUME NEW s, NEW i \in 0..(RomSize - 1), i \in DOMAIN s.rom
  PROVE  Finds(i + \h100, s.rom[i], s)
<1> DEFINE a == i + \h100
<1>1. RomSize = \h7F00
  BY DEF RomSize
<1>2. a \in Word /\ a \in CartridgeRom /\ a - \h100 = i /\ \h100 <= a /\ a < \h8000
  <2>1. a \in Int /\ a - \h100 = i /\ \h100 <= a /\ a < \h8000
    <3>1. i \in 0..(RomSize - 1)
      OBVIOUS
    <3>2. i \in Int /\ 0 <= i /\ i < \h7F00
      BY ONLY <1>1, <3>1
    <3> QED BY ONLY <3>2
  <2> HIDE DEF a
  <2>2. a \in Word
    BY <2>1, InWord
  <2>3. a \in CartridgeRom
    <3>1. a \in CartridgeRom <=> \h0100 <= a /\ a < \h8000
      <4>1. a \in Int
        BY <2>1
      <4> QED BY ONLY <4>1 DEF CartridgeRom
    <3> QED BY <2>1, <3>1
  <2> QED BY <2>1, <2>2, <2>3
<1> HIDE DEF a
<1>3. /\ a # InterruptEnable /\ a \notin HighRam /\ a \notin IoPorts
      /\ ~InRam(a) /\ a \notin VideoRam
  BY <1>2, Disjoint
<1>4. ~Unusable(a) /\ a \notin SpriteTable /\ a \notin SwitchableRam /\ a \notin BootArea
  <2>1. a \in Int
    BY <1>2, WordIsInt
  <2>2. Unusable(a) => \hFE00 <= a
    BY ONLY <2>1 DEF Unusable
  <2>3. a \in SpriteTable => \hFE00 <= a
    BY ONLY <2>1 DEF SpriteTable
  <2>4. a \in SwitchableRam => \hA000 <= a
    BY ONLY <2>1 DEF SwitchableRam
  <2>5. a \in BootArea => a < \h100
    BY ONLY <2>1 DEF BootArea
  <2> QED BY <1>2, <2>1, <2>2, <2>3, <2>4, <2>5
<1>5. ByteAt(a, s) = s.rom[i]
  BY <1>2, <1>3, <1>4 DEF ByteAt, At
<1>6. ReadStatus(a, s) = "running"
  BY <1>2, <1>3, <1>4 DEF ReadStatus
<1> QED
  BY <1>5, <1>6 DEF Finds, a

\* The step of a program is the row of its opcode.
LEMMA Dispatch ==
  ASSUME Alive(state), process, NEW b, Finds(state.pc, b, state),
         NEW row, row = instructions[b]
  PROVE  LET f == Fetched.st
         IN  /\ Took(1, state, f)
             /\ row.op = "Load" =>
                   state' = Charge(row.cycles, Load(row.args[1], row.args[2], f))
             /\ row.op = "Add" =>
                   state' = Charge(row.cycles, Add(row.args[1], row.args[2], f))
             /\ row.op = "Inc" => state' = Charge(row.cycles, Inc(row.args[1], f))
             /\ row.op = "Dec" => state' = Charge(row.cycles, Dec(row.args[1], f))
             /\ row.op = "Compare" => state' = Charge(row.cycles, Compare(row.args[1], f))
             /\ row.op = "JumpRelative" /\ row.args[1] # "Always" =>
                   state' = Charge(row.cycles, JumpRelative(row.args[1], row.args[2], f))
             /\ row.op = "Push" => state' = Charge(row.cycles, Push(row.args[1], f))
             /\ row.op = "Pop" => state' = Charge(row.cycles, Pop(row.args[1], f))
             /\ row.op = "Call" /\ ~CopyFails =>
                   state' = Charge(row.cycles, Call(row.args[1], row.args[2], f))
             /\ row.op = "Ret" /\ (row.args[1] # "Always" \/ ~CopyFails) =>
                   state' = Charge(row.cycles, Ret(row.args[1], f))
             /\ row.op = "PrefixCB" => state' = Charge(row.cycles, process_cb(f))
             /\ row.op = "null" => state' = panic(f)
<1>1. Fetched.val = b /\ Took(1, state, Fetched.st)
  BY TakeOpcode DEF Fetched
<1>2. Current = row
  BY <1>1 DEF Current
<1>3. ~FetchFails
  BY <1>1 DEF FetchFails, Took, Alive
<1>4. \A op : Ready(op) => row.op = op
  BY <1>2 DEF Ready
<1> QED
  BY <1>1, <1>2, <1>3, <1>4
  DEF process, Retire, Arg1, Arg2, Unimplemented, ExecNop, ExecAdd, ExecSub, ExecXor, ExecCompare,
      ExecInc, ExecDec, ExecLoad, ExecJumpRelative, ExecJump, ExecPush, ExecPop, ExecCall,
      ExecRet, ExecPrefixCB, ExecUnimplemented, CopyFails

\* t is s with other cycles.
Ended(s, t) ==
  /\ Alive(t) /\ Kept(s, t) /\ t.pc = s.pc
  /\ t.reg = s.reg /\ t.sp = s.sp /\ t.flags = s.flags

\* The cycles charged at the end change nothing else.
LEMMA Charged ==
  ASSUME NEW s, Alive(s), NEW n \in Int
  PROVE  Ended(s, Charge(n, s))
<1> DEFINE t == Charge(n, s)
<1>1. /\ Kept(s, t) /\ t.status = "running" /\ t.pc = s.pc
      /\ t.reg = s.reg /\ t.sp = s.sp /\ t.flags = s.flags
  BY ChargeEffect DEF Alive
<1>2. StateOK(t)
  BY ChargeType DEF Alive
<1> QED
  BY <1>1, <1>2 DEF Ended, Alive

-----------------------------------------------------------------------------
(* The stack *)

\* Memory apart from the internal one.
Outside(s, t) ==
  /\ t.interrupt_enabled = s.interrupt_enabled /\ t.io = s.io /\ t.video = s.video
  /\ t.memory = s.memory /\ t.rom = s.rom /\ t.boot_rom_enabled = s.boot_rom_enabled

\* The registers other than sp and pc.
SameFile(s, t) == t.reg = s.reg /\ t.flags = s.flags

\* A byte stored in the internal memory is the only thing that changes.
LEMMA HighWrite ==
  ASSUME NEW s, Alive(s), NEW a \in HighRam, NEW v \in Byte,
         NEW t, t = set_memory_byte(a, v, s)
  PROVE  /\ Alive(t) /\ Outside(s, t) /\ SameFile(s, t) /\ t.sp = s.sp /\ t.pc = s.pc
         /\ \A b \in Word : ByteAt(b, t) = IF b = a THEN v ELSE ByteAt(b, s)
<1>1. a \in Word /\ Held(a)
  <2>1. a \in Int /\ \hFF80 <= a /\ a < \hFFFF
    BY DEF HighRam
  <2> QED BY <2>1, InWord DEF Held
<1>2. /\ a # InterruptEnable /\ a # DisableBootRom /\ a \notin IoPorts
      /\ ~InRam(a) /\ a \notin VideoRam
  BY <1>1, Disjoint
<1>3. t = [s EXCEPT !.internal_memory = Store(s.internal_memory, a - \hFF80, v)]
  BY <1>2 DEF set_memory_byte, Then, Alive
<1>4. Alive(t)
  <2>1. StateOK(t)
    BY <1>1, SetMemoryByteType DEF Alive
  <2> QED BY <1>3, <2>1 DEF Alive, StateOK
<1>5. Outside(s, t) /\ SameFile(s, t) /\ t.sp = s.sp /\ t.pc = s.pc
  BY <1>3 DEF Alive, StateOK, Outside, SameFile
<1>6. ASSUME NEW b \in Word
      PROVE  ByteAt(b, t) = IF b = a THEN v ELSE ByteAt(b, s)
  <2>1. ByteAt(b, t) = IF Held(a) /\ SameCell(a, b) THEN v ELSE ByteAt(b, s)
    BY <1>1, <1>4, WriteThenRead DEF Alive
  <2>2. SameCell(a, b) <=> b = a
    BY <1>2 DEF SameCell
  <2> QED BY <1>1, <2>1, <2>2
<1> QED
  BY <1>4, <1>5, <1>6

\* The addresses of the stack.
LEMMA Slots ==
  ASSUME NEW n \in 0..62
  PROVE  /\ Top(n) \in HighRam /\ Top(n) \in Word
         /\ uint16(Top(n) - 1) = Top(n) - 1 /\ Top(n) - 1 \in HighRam /\ Top(n) - 1 \in Word
         /\ uint16(Top(n) - 2) = Top(n + 1) /\ Top(n) - 1 # Top(n)
         /\ Top(n) \in Int /\ Top(n) - 2 \in Int
<1>1. Top(n) \in Int /\ \hFF82 <= Top(n) /\ Top(n) <= \hFFFE /\ Top(n) - 2 = Top(n + 1)
  BY DEF Top
<1> HIDE DEF Top
<1>2. Top(n) \in HighRam /\ Top(n) - 1 \in HighRam
  BY <1>1 DEF HighRam
<1>3. Top(n) \in Word /\ Top(n) - 1 \in Word /\ Top(n) - 2 \in Word
  BY <1>1, InWord
<1>4. uint16(Top(n) - 1) = Top(n) - 1 /\ uint16(Top(n) - 2) = Top(n) - 2
  BY <1>1, <1>3, Conversions
<1> QED
  BY <1>1, <1>2, <1>3, <1>4

\* The words with nothing but two bytes below them written.
LEMMA OldWords ==
  ASSUME NEW n \in 0..63, NEW s, NEW t,
         \A b \in Word : b # Top(n) /\ b # Top(n) - 1 => ByteAt(b, t) = ByteAt(b, s)
  PROVE  \A i \in 1..n : WordAt(i, t) = WordAt(i, s)
<1> SUFFICES ASSUME NEW i \in 1..n PROVE WordAt(i, t) = WordAt(i, s)
  OBVIOUS
<1> DEFINE a == \hFFFE - 2 * (i - 1)
<1>1. /\ a \in Int /\ \hFF82 <= a /\ a <= \hFFFE
      /\ a # Top(n) /\ a - 1 # Top(n) /\ a # Top(n) - 1 /\ a - 1 # Top(n) - 1
  BY DEF Top
<1>2. WordAt(i, t) = Join(ByteAt(a - 1, t), ByteAt(a, t))
      /\ WordAt(i, s) = Join(ByteAt(a - 1, s), ByteAt(a, s))
  BY DEF WordAt
<1> HIDE DEF a
<1>3. a \in Word /\ a - 1 \in Word
  BY <1>1, InWord
<1> QED
  BY <1>1, <1>2, <1>3

\* One word more on the stack, the others as they were.
Pushed(n, w, s, t) ==
  /\ t.sp = Top(n + 1) /\ WordAt(n + 1, t) = w
  /\ \A i \in 1..n : WordAt(i, t) = WordAt(i, s)

\* All words as they were.
SameWords(n, s, t) == \A i \in 1..n : WordAt(i, t) = WordAt(i, s)

\* A word that fits.
LEMMA PushFits ==
  ASSUME NEW s, Alive(s), NEW n \in 0..62, s.sp = Top(n), NEW w \in Word,
         NEW t, t = PushWord(w, s)
  PROVE  Alive(t) /\ Outside(s, t) /\ SameFile(s, t) /\ t.pc = s.pc /\ Pushed(n, w, s, t)
<1> DEFINE low == set_memory_byte(s.sp, Lo(w), s)
<1> DEFINE high == set_memory_byte(uint16(s.sp - 1), Hi(w), low)
<1>1. t = SetSp(s.sp - 2, high)
  BY DEF PushWord
<1>2. Lo(w) \in Byte /\ Hi(w) \in Byte /\ Join(Hi(w), Lo(w)) = w
  BY WordBytes
<1>3. /\ s.sp \in HighRam /\ uint16(s.sp - 1) = Top(n) - 1 /\ uint16(s.sp - 1) \in HighRam
      /\ s.sp - 2 \in Int /\ uint16(s.sp - 2) = Top(n + 1)
  BY Slots
<1>4. /\ Alive(low) /\ Outside(s, low) /\ SameFile(s, low) /\ low.sp = s.sp /\ low.pc = s.pc
      /\ \A b \in Word : ByteAt(b, low) = IF b = s.sp THEN Lo(w) ELSE ByteAt(b, s)
  BY <1>3, <1>2, HighWrite
<1> HIDE DEF low
<1>5. /\ Alive(high) /\ Outside(low, high) /\ SameFile(low, high)
      /\ high.sp = low.sp /\ high.pc = low.pc
      /\ \A b \in Word : ByteAt(b, high) = IF b = uint16(s.sp - 1) THEN Hi(w) ELSE ByteAt(b, low)
  BY <1>3, <1>2, <1>4, HighWrite, SMTT(20)
<1> HIDE DEF high
<1>6. /\ Kept(high, t) /\ t.status = "running" /\ t.pc = high.pc /\ t.sp = Top(n + 1)
      /\ SameFile(high, t)
  BY <1>3, <1>1, <1>5, SetSpEffect DEF Alive, SameFile
<1>7. Alive(t)
  BY <1>3, <1>1, <1>5, <1>6, SetSpType DEF Alive
<1>8. Outside(s, t) /\ SameFile(s, t) /\ t.pc = s.pc
  BY <1>4, <1>5, <1>6 DEF Outside, SameFile, Kept
<1>9. \A b : ByteAt(b, t) = ByteAt(b, high)
  BY <1>6, KeptBytes
<1>10. WordAt(n + 1, t) = w
  <2>1. \hFFFE - 2 * ((n + 1) - 1) = Top(n)
    BY DEF Top
  <2>2. ByteAt(Top(n), t) = Lo(w) /\ ByteAt(Top(n) - 1, t) = Hi(w)
    <3>1. Top(n) \in Word /\ Top(n) - 1 \in Word /\ Top(n) - 1 # Top(n)
      BY Slots
    <3> QED BY <1>3, <1>4, <1>5, <1>9, <3>1
  <2> QED BY <1>2, <2>1, <2>2 DEF WordAt
<1>11. \A i \in 1..n : WordAt(i, t) = WordAt(i, s)
  <2>1. \A b \in Word : b # Top(n) /\ b # Top(n) - 1 => ByteAt(b, t) = ByteAt(b, s)
    BY <1>3, <1>4, <1>5, <1>9
  <2> QED BY <2>1, OldWords
<1> QED
  BY <1>6, <1>7, <1>8, <1>10, <1>11 DEF Pushed

\* A word that does not: its low byte is lost below the last word, its high byte
\* stops the machine.
LEMMA PushFull ==
  ASSUME NEW s, Alive(s), s.sp = Top(63), NEW w \in Word, NEW t, t = PushWord(w, s)
  PROVE  /\ StateOK(t) /\ t.status = "panicked"
         /\ Outside(s, t) /\ SameFile(s, t) /\ t.sp = s.sp /\ t.pc = s.pc
         /\ SameWords(63, s, t)
<1> DEFINE low == set_memory_byte(s.sp, Lo(w), s)
<1> DEFINE high == set_memory_byte(uint16(s.sp - 1), Hi(w), low)
<1>1. t = SetSp(s.sp - 2, high)
  BY DEF PushWord
<1>2. Lo(w) \in Byte /\ Hi(w) \in Byte
  BY WordBytes
<1>3. s.sp = \hFF80 /\ s.sp \in HighRam /\ uint16(s.sp - 1) = \hFF7F
  BY DEF Top, HighRam, uint16
<1>4. /\ Alive(low) /\ Outside(s, low) /\ SameFile(s, low) /\ low.sp = s.sp /\ low.pc = s.pc
      /\ \A b \in Word : ByteAt(b, low) = IF b = Top(63) THEN Lo(w) ELSE ByteAt(b, s)
  BY <1>2, <1>3, HighWrite
<1> HIDE DEF low
<1>5. high = panic(low)
  <2>1. /\ \hFF7F # InterruptEnable /\ \hFF7F \notin HighRam /\ \hFF7F # DisableBootRom
        /\ \hFF7F \notin IoPorts /\ \hFF7F \notin VideoRam /\ ~InRam(\hFF7F)
    BY DEF InterruptEnable, HighRam, DisableBootRom, IoPorts, VideoRam, InRam, EchoRam, InternalRam
  <2> QED BY <1>3, <1>4, <2>1 DEF set_memory_byte, Then, Alive
<1> HIDE DEF high
<1>6. /\ StateOK(high) /\ high.status = "panicked" /\ Kept(low, high) /\ Registers(low, high)
      /\ high.pc = low.pc
  BY <1>4, <1>5, PanicEffect, PanicType DEF Alive, panic, StateOK
<1>7. t = high
  BY <1>1, <1>6, StoppedStays
<1>8. SameWords(63, s, t)
  <2>1. \A b \in Word : b # Top(63) /\ b # Top(63) - 1 => ByteAt(b, t) = ByteAt(b, s)
    BY <1>4, <1>6, <1>7, KeptBytes
  <2> QED BY <2>1, OldWords DEF SameWords
<1> QED
  BY <1>4, <1>6, <1>7, <1>8 DEF Outside, SameFile, Kept, Registers

\* The word on top, read back.
LEMMA PopTop ==
  ASSUME NEW s, Alive(s), NEW n \in 1..63, s.sp = Top(n)
  PROVE  /\ PopWord(s).val = WordAt(n, s) /\ WordAt(n, s) \in Word
         /\ Alive(PopWord(s).st) /\ Kept(s, PopWord(s).st) /\ SameFile(s, PopWord(s).st)
         /\ PopWord(s).st.pc = s.pc /\ PopWord(s).st.sp = Top(n - 1)
<1> DEFINE t == PopWord(s).st
<1>1. /\ s.sp + 1 = Top(n - 1) - 1 /\ s.sp + 2 = Top(n - 1) /\ n - 1 \in 0..62
      /\ \hFFFE - 2 * (n - 1) = Top(n - 1)
  BY DEF Top
<1>2. /\ uint16(s.sp + 1) = Top(n - 1) - 1 /\ uint16(s.sp + 2) = Top(n - 1)
      /\ Top(n - 1) \in HighRam /\ Top(n - 1) \in Word
      /\ Top(n - 1) - 1 \in HighRam /\ Top(n - 1) - 1 \in Word
  <2>1. /\ Top(n - 1) \in HighRam /\ Top(n - 1) \in Word
        /\ Top(n - 1) - 1 \in HighRam /\ uint16(Top(n - 1) - 1) = Top(n - 1) - 1
        /\ Top(n - 1) - 1 \in Word /\ Top(n - 1) \in Int
    BY <1>1, Slots
  <2>2. uint16(Top(n - 1)) = Top(n - 1)
    BY <2>1, Conversions
  <2> QED BY <1>1, <2>1, <2>2
<1>3. /\ Kept(s, t) /\ t.reg = s.reg /\ t.flags = s.flags /\ t.pc = s.pc
      /\ PopWord(s).val = Join(ByteAt(uint16(s.sp + 1), s), ByteAt(uint16(s.sp + 2), s))
      /\ t.status = "running" => t.sp = uint16(s.sp + 2)
  BY PopWordEffect DEF Alive
<1>4. PopWord(s).val = WordAt(n, s) /\ PopWord(s).val \in Word /\ StateOK(t)
  BY <1>1, <1>2, <1>3, PopWordType DEF WordAt, Alive
<1>5. t.status = "running"
  <2> DEFINE high == get_memory_byte(uint16(s.sp + 1), s)
  <2> DEFINE low == get_memory_byte(uint16(s.sp + 2), high.st)
  <2>1. Held(uint16(s.sp + 1)) /\ Held(uint16(s.sp + 2))
    BY <1>2 DEF Held
  <2>2. Alive(high.st)
    <3>1. ReadStatus(uint16(s.sp + 1), s) = "running"
      BY <1>2, <2>1, HeldIsReadable
    <3>2. StateOK(high.st)
      BY <1>2, GetMemoryByteType DEF Alive
    <3> QED BY <3>1, <3>2 DEF get_memory_byte, Then, Alive, StateOK
  <2>3. t = SetSp(s.sp + 2, low.st)
    BY DEF PopWord, Value
  <2> HIDE DEF high
  <2>4. Alive(low.st)
    <3>1. ReadStatus(uint16(s.sp + 2), high.st) = "running"
      BY <1>2, <2>1, HeldIsReadable
    <3>2. StateOK(low.st)
      BY <1>2, <2>2, GetMemoryByteType DEF Alive
    <3> QED BY <2>2, <3>1, <3>2 DEF get_memory_byte, Then, Alive, StateOK
  <2> HIDE DEF low, t
  <2>5. s.sp + 2 \in Int
    BY Members, WordSteps DEF Alive
  <2> QED BY <2>3, <2>4, <2>5, SetSpEffect DEF Alive
<1> QED
  BY <1>2, <1>3, <1>4, <1>5 DEF Alive, SameFile

-----------------------------------------------------------------------------
(* Instructions *)

Put(r, x, v) == [r EXCEPT ![x] = v]

\* A register stored.
LEMMA PutRegister ==
  ASSUME NEW s, Alive(s), NEW x \in Reg8, NEW v \in Int, NEW t, t = Set(x, v, s)
  PROVE  /\ Alive(t) /\ Kept(s, t) /\ t.pc = s.pc /\ t.sp = s.sp /\ t.flags = s.flags
         /\ t.reg = Put(s.reg, x, uint8(v))
<1>1. t = Then(s, [s EXCEPT !.reg[x] = uint8(v)])
  BY DEF Set, Reg8, Pairs, Pointers
<1>2. StateOK(t)
  BY SetType DEF Alive
<1> QED
  BY <1>1, <1>2 DEF Then, Alive, StateOK, Kept, Put

\* A register pair stored.
LEMMA PutPair ==
  ASSUME NEW s, Alive(s), NEW p \in Pairs, NEW v \in Word, NEW t, t = Set(p, v, s)
  PROVE  /\ Alive(t) /\ Kept(s, t) /\ t.pc = s.pc /\ t.sp = s.sp /\ t.flags = s.flags
         /\ t.reg = Put(Put(s.reg, High[p], Hi(v)), Low[p], Lo(v))
<1>1. v \in Int /\ uint16(v) = v
  BY WordIsInt, Conversions
<1>2. t = SetPair(p, v, s)
  BY DEF Set, Reg8, Pairs, Pointers
<1>3. StateOK(t)
  BY <1>1, SetType DEF Alive
<1>4. Kept(s, t) /\ t.status = "running" /\ t.pc = s.pc /\ t.sp = s.sp /\ t.flags = s.flags
  BY <1>2, SetPairEffect DEF Alive
<1>5. t.reg = [s.reg EXCEPT ![High[p]] = Hi(v), ![Low[p]] = Lo(v)]
  BY <1>1, <1>2 DEF SetPair, Then, Alive, StateOK
<1> QED
  BY <1>3, <1>4, <1>5 DEF Alive, Put

\* INC and DEC of a register.
LEMMA RunCount ==
  ASSUME Alive(state), process, NEW b, Finds(state.pc, b, state), NEW x \in Reg8
  PROVE  /\ instructions[b] = Ins("Inc", <<x>>, 4) =>
              /\ Alive(state') /\ Kept(state, state')
              /\ state'.pc = uint16(state.pc + 1) /\ state'.sp = state.sp
              /\ state'.reg = Put(state.reg, x, uint8(state.reg[x] + 1))
              /\ "Zero" \notin state'.flags
         /\ instructions[b] = Ins("Dec", <<x>>, 4) =>
              /\ Alive(state') /\ Kept(state, state')
              /\ state'.pc = uint16(state.pc + 1) /\ state'.sp = state.sp
              /\ state'.reg = Put(state.reg, x, uint8(state.reg[x] - 1))
              /\ "Zero" \in state'.flags <=> state.reg[x] = 1
<1> DEFINE f == Fetched.st
<1> DEFINE up == AluInc(f.reg[x], f.flags)
<1> DEFINE down == AluDec(f.reg[x], f.flags)
<1>1. /\ Took(1, state, f)
      /\ instructions[b].op = "Inc" =>
           state' = Charge(instructions[b].cycles, Inc(instructions[b].args[1], f))
      /\ instructions[b].op = "Dec" =>
           state' = Charge(instructions[b].cycles, Dec(instructions[b].args[1], f))
  BY Dispatch
<1> HIDE DEF f
<1>2. /\ Alive(f) /\ Kept(state, f) /\ f.reg = state.reg /\ f.sp = state.sp
      /\ f.pc = uint16(state.pc + 1) /\ f.flags \in SUBSET FlagNames
      /\ state.reg[x] \in Byte /\ state.reg[x] \in Int
  BY <1>1, Members, InByte DEF Took, Registers, Alive
<1>3. Get(x, f) = Value(f.reg[x], f)
  BY DEF Get, Reg8, Pairs, Pointers
<1>4. /\ Inc(x, f) = Set(x, up.result, SetFlags(up.flags, f))
      /\ Dec(x, f) = Set(x, down.result, SetFlags(down.flags, f))
  BY <1>3 DEF Inc, Dec, Value
<1>5. /\ up.result = state.reg[x] + 1 /\ down.result = state.reg[x] - 1
      /\ up.flags \in SUBSET FlagNames /\ down.flags \in SUBSET FlagNames
      /\ "Zero" \in down.flags <=> state.reg[x] = 1
      /\ "Zero" \notin up.flags
  <2>1. up.flags \subseteq FlagNames /\ down.flags \subseteq FlagNames
    BY <1>2, AluIncType, AluDecType, ByteIsWord
  <2>2. up.result = state.reg[x] + 1 /\ down.result = state.reg[x] - 1
    BY <1>2 DEF AluInc, AluDec
  <2>3. "Zero" \in down.flags <=> state.reg[x] - 1 = 0
    BY <1>2 DEF AluDec, FlagIf
  <2>4. "Zero" \notin up.flags
    <3>1. state.reg[x] + 1 # 0
      BY <1>2, InByte
    <3> QED BY <1>2, <3>1 DEF AluInc, FlagIf
  <2> QED BY <1>2, <2>1, <2>2, <2>3, <2>4
<1> HIDE DEF up, down
<1>6. ASSUME NEW alu, alu.result \in Int, alu.flags \in SUBSET FlagNames,
             state' = Charge(4, Set(x, alu.result, SetFlags(alu.flags, f)))
      PROVE  /\ Alive(state') /\ Kept(state, state')
             /\ state'.pc = uint16(state.pc + 1) /\ state'.sp = state.sp
             /\ state'.reg = Put(state.reg, x, uint8(alu.result))
             /\ state'.flags = alu.flags
  <2> DEFINE flagged == SetFlags(alu.flags, f)
  <2> DEFINE done == Set(x, alu.result, flagged)
  <2>1. /\ Alive(flagged) /\ Kept(f, flagged) /\ flagged.pc = f.pc /\ flagged.sp = f.sp
        /\ flagged.reg = f.reg /\ flagged.flags = alu.flags
    BY <1>2, <1>6, SetFlagsEffect, SetFlagsType DEF Alive
  <2> HIDE DEF flagged
  <2>2. /\ Alive(done) /\ Kept(flagged, done) /\ done.pc = flagged.pc /\ done.sp = flagged.sp
        /\ done.flags = flagged.flags /\ done.reg = Put(flagged.reg, x, uint8(alu.result))
    BY <1>6, <2>1, PutRegister
  <2>3. state' = Charge(4, done)
    BY <1>6 DEF flagged
  <2> HIDE DEF done
  <2>4. /\ Alive(state') /\ Kept(done, state') /\ state'.pc = done.pc
        /\ state'.reg = done.reg /\ state'.sp = done.sp /\ state'.flags = done.flags
    BY <2>2, <2>3, Charged DEF Ended
  <2> QED BY <1>2, <2>1, <2>2, <2>4 DEF Kept
<1>7. CASE instructions[b] = Ins("Inc", <<x>>, 4)
  <2>1. state' = Charge(4, Set(x, up.result, SetFlags(up.flags, f)))
    BY <1>1, <1>4, <1>7 DEF Ins
  <2>2. /\ Alive(state') /\ Kept(state, state')
        /\ state'.pc = uint16(state.pc + 1) /\ state'.sp = state.sp
        /\ state'.reg = Put(state.reg, x, uint8(up.result)) /\ state'.flags = up.flags
    BY <1>2, <1>5, <1>6, <2>1
  <2> QED BY <1>5, <1>7, <2>2 DEF Ins
<1>8. CASE instructions[b] = Ins("Dec", <<x>>, 4)
  <2>1. state' = Charge(4, Set(x, down.result, SetFlags(down.flags, f)))
    BY <1>1, <1>4, <1>8 DEF Ins
  <2>2. /\ Alive(state') /\ Kept(state, state')
        /\ state'.pc = uint16(state.pc + 1) /\ state'.sp = state.sp
        /\ state'.reg = Put(state.reg, x, uint8(down.result)) /\ state'.flags = down.flags
    BY <1>2, <1>5, <1>6, <2>1
  <2> QED BY <1>5, <1>8, <2>2 DEF Ins
<1> QED
  BY <1>7, <1>8

\* An opcode without a function.
LEMMA RunNull ==
  ASSUME Alive(state), process, NEW b, Finds(state.pc, b, state), instructions[b] = Null
  PROVE  /\ StateOK(state') /\ state'.status = "panicked" /\ Kept(state, state')
         /\ SameFile(state, state') /\ state'.sp = state.sp /\ state'.pc = uint16(state.pc + 1)
<1>1. Took(1, state, Fetched.st) /\ state' = panic(Fetched.st)
  BY Dispatch DEF Null, Ins
<1>2. StateOK(Fetched.st)
  BY <1>1 DEF Took, Alive
<1>3. state'.status = "panicked"
  BY <1>1, <1>2 DEF panic, StateOK
<1> QED
  BY <1>1, <1>2, <1>3, PanicEffect, PanicType DEF Took, Kept, Registers, SameFile

\* PUSH of a register pair.
LEMMA RunPush ==
  ASSUME Alive(state), process, NEW b, Finds(state.pc, b, state),
         NEW p \in Pairs, instructions[b] = Ins("Push", <<p>>, 16),
         NEW n \in 0..63, state.sp = Top(n)
  PROVE  /\ Outside(state, state') /\ SameFile(state, state')
         /\ state'.pc = uint16(state.pc + 1)
         /\ n < 63 => Alive(state') /\ Pushed(n, Pair(p, state), state, state')
         /\ n = 63 => /\ StateOK(state') /\ state'.status = "panicked"
                      /\ state'.sp = state.sp /\ SameWords(63, state, state')
<1> DEFINE f == Fetched.st
<1> DEFINE t == PushWord(Pair(p, f), f)
<1>1. Took(1, state, f) /\ state' = Charge(16, Push(p, f))
  BY Dispatch DEF Ins
<1>2. Push(p, f) = t
  BY DEF Push, Get, Value, Reg8, Pairs, Pointers
<1> HIDE DEF f
<1>3. /\ Alive(f) /\ Kept(state, f) /\ SameFile(state, f) /\ f.sp = state.sp
      /\ f.pc = uint16(state.pc + 1)
  BY <1>1 DEF Took, Registers, SameFile
<1>4. Pair(p, f) = Pair(p, state) /\ Pair(p, f) \in Word
  BY <1>3, PairType DEF Pair, SameFile, Alive
<1>5. \A i : WordAt(i, f) = WordAt(i, state)
  BY <1>3, KeptBytes DEF WordAt
<1>6. CASE n < 63
  <2>1. Alive(t) /\ Outside(f, t) /\ SameFile(f, t) /\ t.pc = f.pc /\ Pushed(n, Pair(p, f), f, t)
    <3>1. n \in 0..62
      BY <1>6
    <3> QED BY <1>3, <1>4, <3>1, PushFits
  <2> HIDE DEF t
  <2>2. Alive(state') /\ Kept(t, state') /\ state'.pc = t.pc /\ SameFile(t, state') /\ state'.sp = t.sp
    <3>1. Alive(t) /\ state' = Charge(16, t) /\ 16 \in Int
      BY <1>1, <1>2, <2>1
    <3>2. Ended(t, state')
      BY <3>1, Charged
    <3> QED BY <3>2 DEF Ended, SameFile
  <2>3. \A i : WordAt(i, state') = WordAt(i, t)
    BY <2>2, KeptBytes DEF WordAt
  <2>4. Outside(state, state') /\ SameFile(state, state')
    BY <1>3, <2>1, <2>2 DEF Outside, SameFile, Kept
  <2>5. Pushed(n, Pair(p, state), state, state')
    BY <1>4, <1>5, <2>1, <2>2, <2>3 DEF Pushed
  <2> QED BY <1>3, <1>6, <2>1, <2>2, <2>4, <2>5
<1>7. CASE n = 63
  <2>1. /\ StateOK(t) /\ t.status = "panicked" /\ Outside(f, t) /\ SameFile(f, t)
        /\ t.sp = f.sp /\ t.pc = f.pc /\ SameWords(63, f, t)
    BY <1>3, <1>4, <1>7, PushFull
  <2> HIDE DEF t
  <2>2. state' = t
    BY <1>1, <1>2, <2>1, StoppedStays
  <2>3. SameWords(63, state, state')
    BY <1>5, <2>1, <2>2 DEF SameWords
  <2> QED BY <1>3, <1>7, <2>1, <2>2, <2>3 DEF Outside, SameFile, Kept
<1> QED
  BY <1>6, <1>7

\* POP of a register pair.
LEMMA RunPop ==
  ASSUME Alive(state), process, NEW b, Finds(state.pc, b, state),
         NEW p \in Pairs, instructions[b] = Ins("Pop", <<p>>, 12),
         NEW n \in 1..63, state.sp = Top(n)
  PROVE  /\ Alive(state') /\ Kept(state, state') /\ state'.flags = state.flags
         /\ state'.pc = uint16(state.pc + 1) /\ state'.sp = Top(n - 1)
         /\ state'.reg = Put(Put(state.reg, High[p], Hi(WordAt(n, state))),
                             Low[p], Lo(WordAt(n, state)))
<1> DEFINE f == Fetched.st
<1> DEFINE u == PopWord(f)
<1> DEFINE t == Set(p, u.val, u.st)
<1>1. Took(1, state, f) /\ state' = Charge(12, Pop(p, f))
  BY Dispatch DEF Ins
<1>2. Pop(p, f) = t
  BY DEF Pop
<1> HIDE DEF f
<1>3. /\ Alive(f) /\ Kept(state, f) /\ SameFile(state, f) /\ f.sp = state.sp
      /\ f.pc = uint16(state.pc + 1)
  BY <1>1 DEF Took, Registers, SameFile
<1>4. WordAt(n, f) = WordAt(n, state)
  BY <1>3, KeptBytes DEF WordAt
<1>5. /\ u.val = WordAt(n, f) /\ u.val \in Word
      /\ Alive(u.st) /\ Kept(f, u.st) /\ SameFile(f, u.st) /\ u.st.pc = f.pc /\ u.st.sp = Top(n - 1)
  BY <1>3, PopTop
<1> HIDE DEF u
<1>6. /\ Alive(t) /\ Kept(u.st, t) /\ t.pc = u.st.pc /\ t.sp = u.st.sp /\ t.flags = u.st.flags
      /\ t.reg = Put(Put(u.st.reg, High[p], Hi(u.val)), Low[p], Lo(u.val))
  BY <1>5, PutPair
<1> HIDE DEF t
<1>7. /\ Alive(state') /\ Kept(t, state') /\ state'.pc = t.pc
      /\ state'.reg = t.reg /\ state'.sp = t.sp /\ state'.flags = t.flags
  <2>1. state' = Charge(12, t)
    BY <1>1, <1>2
  <2>2. Ended(t, Charge(12, t))
    BY <1>6, Charged
  <2> QED BY <2>1, <2>2 DEF Ended
<1> QED
  BY <1>3, <1>4, <1>5, <1>6, <1>7 DEF Kept, SameFile

\* CALL a16.
LEMMA RunCall ==
  ASSUME Alive(state), process, NEW b, Finds(state.pc, b, state),
         NEW lo \in Byte, Finds(uint16(state.pc + 1), lo, state),
         NEW hi \in Byte, Finds(uint16(state.pc + 2), hi, state),
         instructions[b] = Ins("Call", <<"Always", "D16">>, 12), ~CopyFails,
         NEW n \in 0..62, state.sp = Top(n)
  PROVE  /\ Alive(state') /\ Outside(state, state') /\ SameFile(state, state')
         /\ state'.pc = Join(hi, lo)
         /\ Pushed(n, uint16(state.pc + 3), state, state')
<1> DEFINE f == Fetched.st
<1> DEFINE g == D16(f)
<1> DEFINE u == SetPc(g.val, g.st)
<1> DEFINE t == PushWord(g.st.pc, u)
<1>1. Took(1, state, f) /\ state' = Charge(12, Call("Always", "D16", f))
  BY Dispatch DEF Ins
<1>2. Get("D16", f) = g
  BY DEF Get, Reg8, Pairs, Pointers
<1>3. Call("Always", "D16", f) = Charge(12, t)
  BY <1>2 DEF Call, is_true
<1> HIDE DEF f
<1>4. /\ Alive(f) /\ Kept(state, f) /\ SameFile(state, f) /\ f.sp = state.sp
      /\ f.pc = uint16(state.pc + 1)
  BY <1>1 DEF Took, Registers, SameFile
<1>5. uint16(f.pc + 1) = uint16(state.pc + 2) /\ uint16(f.pc + 2) = uint16(state.pc + 3)
  <2>1. state.pc \in Int
    BY Members, WordSteps DEF Alive
  <2>2. state.pc + 1 \in Int /\ (state.pc + 1) + 1 = state.pc + 2 /\ (state.pc + 1) + 2 = state.pc + 3
    BY <2>1
  <2> QED BY <1>4, <2>2, WrapsOnce
<1>6. g.val = Join(hi, lo) /\ Took(2, f, g.st)
  BY <1>4, <1>5, ReadsKept, TakeWord
<1> HIDE DEF g
<1>7. /\ Alive(g.st) /\ Kept(f, g.st) /\ SameFile(f, g.st) /\ g.st.sp = f.sp
      /\ g.st.pc = uint16(state.pc + 3) /\ g.st.pc \in Word /\ g.val \in Word /\ g.val \in Int
  BY <1>5, <1>6, JoinBytes, WordIsInt, Members DEF Took, Registers, SameFile, Alive
<1>8. /\ Alive(u) /\ Kept(g.st, u) /\ SameFile(g.st, u) /\ u.sp = g.st.sp /\ u.pc = g.val
  <2>1. uint16(g.val) = g.val
    BY <1>7, Conversions
  <2>2. Kept(g.st, u) /\ Registers(g.st, u) /\ u.status = "running" /\ u.pc = uint16(g.val)
    BY <1>7, SetPcEffect DEF Alive
  <2>3. StateOK(u)
    BY <1>7, SetPcType DEF Alive
  <2> QED BY <2>1, <2>2, <2>3 DEF Alive, Registers, SameFile
<1> HIDE DEF u
<1>9. Alive(t) /\ Outside(u, t) /\ SameFile(u, t) /\ t.pc = u.pc /\ Pushed(n, g.st.pc, u, t)
  BY <1>4, <1>7, <1>8, PushFits
<1> HIDE DEF t
<1> DEFINE r == Charge(12, t)
<1>10. Alive(r) /\ Kept(t, r) /\ r.pc = t.pc /\ SameFile(t, r) /\ r.sp = t.sp
  BY <1>9, Charged DEF Ended, SameFile
<1>11. /\ Alive(state') /\ Kept(r, state') /\ state'.pc = r.pc
       /\ SameFile(r, state') /\ state'.sp = r.sp
  <2>1. state' = Charge(12, r)
    BY <1>1, <1>3
  <2> HIDE DEF r
  <2>2. Ended(r, Charge(12, r))
    BY <1>10, Charged
  <2> QED BY <2>1, <2>2 DEF Ended, SameFile
<1> HIDE DEF r
<1>12. Outside(state, state') /\ SameFile(state, state')
  BY <1>4, <1>7, <1>8, <1>9, <1>10, <1>11 DEF Outside, SameFile, Kept
<1>13. Pushed(n, uint16(state.pc + 3), state, state')
  <2>1. Kept(state, u) /\ Kept(t, state')
    BY <1>4, <1>7, <1>8, <1>10, <1>11 DEF Kept
  <2>2. \A i : WordAt(i, u) = WordAt(i, state) /\ WordAt(i, state') = WordAt(i, t)
    BY <2>1, KeptBytes DEF WordAt
  <2> QED BY <1>7, <1>9, <1>10, <1>11, <2>2 DEF Pushed
<1> QED
  BY <1>6, <1>8, <1>9, <1>10, <1>11, <1>12, <1>13

\* RET and RET cc.
LEMMA RunRet ==
  ASSUME Alive(state), process, NEW b, Finds(state.pc, b, state),
         NEW c, NEW cycles \in Int, instructions[b] = Ins("Ret", <<c>>, cycles),
         c # "Always" \/ ~CopyFails, NEW n \in 1..63, state.sp = Top(n)
  PROVE  /\ Alive(state') /\ Kept(state, state') /\ SameFile(state, state')
         /\ is_true(c, state) =>
              WordAt(n, state) \in Word /\ state'.pc = WordAt(n, state) /\ state'.sp = Top(n - 1)
         /\ ~is_true(c, state) => state'.pc = uint16(state.pc + 1) /\ state'.sp = state.sp
<1> DEFINE f == Fetched.st
<1> DEFINE u == PopWord(f)
<1> DEFINE t == Charge(12, SetPc(u.val, u.st))
<1>1. Took(1, state, f) /\ state' = Charge(cycles, Ret(c, f))
  BY Dispatch DEF Ins
<1>2. Ret(c, f) = IF is_true(c, f) THEN t ELSE f
  BY DEF Ret
<1> HIDE DEF f
<1>3. /\ Alive(f) /\ Kept(state, f) /\ SameFile(state, f) /\ f.sp = state.sp
      /\ f.pc = uint16(state.pc + 1) /\ is_true(c, f) = is_true(c, state)
  BY <1>1, ConditionFlags DEF Took, Registers, SameFile
<1>4. WordAt(n, f) = WordAt(n, state)
  BY <1>3, KeptBytes DEF WordAt
<1>5. /\ u.val = WordAt(n, f) /\ WordAt(n, f) \in Word
      /\ Alive(u.st) /\ Kept(f, u.st) /\ SameFile(f, u.st) /\ u.st.sp = Top(n - 1)
  BY <1>3, PopTop
<1> HIDE DEF u
<1>6. /\ Alive(t) /\ Kept(u.st, t) /\ SameFile(u.st, t) /\ t.sp = u.st.sp /\ t.pc = u.val
  <2> DEFINE v == SetPc(u.val, u.st)
  <2>1. u.val \in Int /\ uint16(u.val) = u.val
    BY <1>5, WordIsInt, Conversions
  <2>2. Alive(v) /\ Kept(u.st, v) /\ SameFile(u.st, v) /\ v.sp = u.st.sp /\ v.pc = u.val
    <3>1. Kept(u.st, v) /\ Registers(u.st, v) /\ v.status = "running" /\ v.pc = uint16(u.val)
      BY <1>5, <2>1, SetPcEffect DEF Alive
    <3>2. StateOK(v)
      BY <1>5, <2>1, SetPcType DEF Alive
    <3> QED BY <2>1, <3>1, <3>2 DEF Alive, Registers, SameFile
  <2> HIDE DEF v
  <2>3. /\ Alive(t) /\ Kept(v, t) /\ SameFile(v, t) /\ t.sp = v.sp /\ t.pc = v.pc
    BY <2>2, Charged DEF Ended, SameFile, v
  <2> QED BY <2>2, <2>3 DEF Kept, SameFile
<1> HIDE DEF t
<1>7. ASSUME NEW r, Alive(r), state' = Charge(cycles, r)
      PROVE  /\ Alive(state') /\ Kept(r, state') /\ SameFile(r, state')
             /\ state'.sp = r.sp /\ state'.pc = r.pc
  BY <1>7, Charged DEF Ended, SameFile
<1>8. CASE is_true(c, f)
  <2>1. state' = Charge(cycles, t)
    BY <1>1, <1>2, <1>8
  <2>2. /\ Alive(state') /\ Kept(t, state') /\ SameFile(t, state')
        /\ state'.sp = t.sp /\ state'.pc = t.pc
    BY <1>6, <1>7, <2>1
  <2> QED BY <1>3, <1>4, <1>5, <1>6, <1>8, <2>2 DEF Kept, SameFile
<1>9. CASE ~is_true(c, f)
  <2>1. state' = Charge(cycles, f)
    BY <1>1, <1>2, <1>9
  <2>2. /\ Alive(state') /\ Kept(f, state') /\ SameFile(f, state')
        /\ state'.sp = f.sp /\ state'.pc = f.pc
    BY <1>3, <1>7, <2>1
  <2> QED BY <1>3, <1>9, <2>2 DEF Kept, SameFile
<1> QED
  BY <1>8, <1>9

-----------------------------------------------------------------------------
(* The words as a list *)

\* q lists the n words above sp.
Lists(q, n, s) ==
  q \in Seq(Word) /\ Len(q) = n /\ \A i \in 1..n : q[i] = WordAt(i, s)

\* There is one list of given words.
LEMMA OneList ==
  ASSUME NEW s, NEW t, NEW n \in Nat, NEW p, Lists(p, n, s), NEW q, Lists(q, n, t),
         SameWords(n, s, t)
  PROVE  p = q
<1>1. /\ p \in Seq(Word) /\ q \in Seq(Word) /\ Len(p) = Len(q)
      /\ \A i \in 1..Len(p) : p[i] = q[i]
  BY DEF Lists, SameWords
<1> QED
  BY <1>1, SeqEqual

\* The words on the stack are a list as long as sp says,
LEMMA StackWords ==
  ASSUME NEW s, StateOK(s), NEW n \in 0..63, s.sp = Top(n)
  PROVE  Lists(WordsIn(s), n, s)
<1>1. (\hFFFE - s.sp) \div 2 = n
  BY DEF Top
<1>2. WordsIn(s) = [i \in 1..n |-> WordAt(i, s)]
  BY <1>1 DEF WordsIn
<1>3. ASSUME NEW i \in 1..n PROVE WordAt(i, s) \in Word
  <2> DEFINE a == \hFFFE - 2 * (i - 1)
  <2>1. a \in Int /\ \hFF82 <= a /\ a <= \hFFFE
    OBVIOUS
  <2>2. WordAt(i, s) = Join(ByteAt(a - 1, s), ByteAt(a, s))
    BY DEF WordAt
  <2> HIDE DEF a
  <2>3. a \in Word /\ a - 1 \in Word
    BY <2>1, InWord
  <2> QED BY <2>2, <2>3, ByteAtByte, JoinBytes
<1> DEFINE w == WordsIn(s)
<1>4. w \in [1..n -> Word] /\ n \in Nat /\ \A i \in 1..n : w[i] = WordAt(i, s)
  BY <1>2, <1>3
<1> HIDE DEF w
<1>5. w \in Seq(Word)
  BY <1>4, SeqDef
<1>6. Len(w) = n
  <2> DEFINE l == Len(w)
  <2>1. l \in Nat /\ DOMAIN w = 1..l
    BY <1>5, LenProperties
  <2>2. DOMAIN w = 1..n
    BY <1>4
  <2> HIDE DEF l
  <2>3. l \in 1..l \/ l = 0
    BY <2>1
  <2>4. n \in 1..n \/ n = 0
    BY <1>4
  <2>5. l <= n /\ n <= l
    BY <1>4, <2>1, <2>2, <2>3, <2>4
  <2> QED BY <1>4, <2>1, <2>5 DEF l
<1> QED
  BY <1>4, <1>5, <1>6 DEF Lists, w

\* and so are the oldest of them.
LEMMA FirstWords ==
  ASSUME NEW s, NEW n \in Nat, NEW q, Lists(q, n, s), NEW m \in Nat, m <= n
  PROVE  Lists(SubSeq(q, 1, m), m, s)
<1>1. \A i \in 1..m : q[i] \in Word /\ q[i] = WordAt(i, s)
  <2>1. q \in [1..n -> Word]
    BY LenProperties DEF Lists
  <2> QED BY <2>1 DEF Lists
<1> DEFINE a == SubSeq(q, 1, m)
<1>2. /\ a \in Seq(Word)
      /\ Len(a) = IF 1 <= m THEN m - 1 + 1 ELSE 0
      /\ \A i \in 1..(m - 1 + 1) : a[i] = q[1 + i - 1]
  BY <1>1, SubSeqProperties
<1> HIDE DEF a
<1>3. Len(a) = m /\ \A i \in 1..m : a[i] = q[i]
  BY <1>2
<1> QED
  BY <1>1, <1>2, <1>3 DEF Lists, a

\* A push is Grown with the word as the last one.
LEMMA Grows ==
  ASSUME StateOK(state), StateOK(state'), NEW n \in 0..62, state.sp = Top(n),
         NEW w, Pushed(n, w, state, state')
  PROVE  Stack!Grown /\ Stack!Last(Words') = w
<1>1. /\ n \in Nat /\ n <= n + 1 /\ n <= n /\ n + 1 \in 1..63 /\ n + 1 \in 0..63 /\ n \in 0..63
      /\ n + 1 \in Nat
  OBVIOUS
<1>2. state'.sp = Top(n + 1) /\ WordAt(n + 1, state') = w /\ SameWords(n, state, state')
  BY DEF Pushed, SameWords
<1> DEFINE old == Words
<1> DEFINE new == Words'
<1>3. Lists(old, n, state)
  BY <1>1, StackWords DEF Words
<1>4. Lists(new, n + 1, state')
  BY <1>1, <1>2, StackWords DEF Words
<1>5. Stack!Grown <=>
        Len(old) < Capacity /\ Len(new) = Len(old) + 1 /\ Stack!IsPrefix(old, new)
  BY DEF Stack!Grown
<1>6. Stack!Last(new) = new[Len(new)]
  BY DEF Stack!Last
<1>7. Stack!IsPrefix(old, new) <=>
        Len(old) <= Len(new) /\ SubSeq(old, 1, Len(old)) = SubSeq(new, 1, Len(old))
  BY DEF Stack!IsPrefix
<1> HIDE DEF old, new
<1>8. SubSeq(old, 1, n) = SubSeq(new, 1, n)
  <2>1. Lists(SubSeq(old, 1, n), n, state) /\ Lists(SubSeq(new, 1, n), n, state')
    BY <1>1, <1>3, <1>4, FirstWords
  <2> QED BY <1>1, <1>2, <2>1, OneList
<1>9. Len(old) = n /\ Len(new) = n + 1 /\ new[n + 1] = w
  BY <1>1, <1>2, <1>3, <1>4 DEF Lists
<1>10. Stack!Grown /\ Stack!Last(new) = w
  BY <1>1, <1>5, <1>6, <1>7, <1>8, <1>9 DEF Capacity
<1> QED
  BY <1>10 DEF new

\* A pop is Shrunk, and takes the last word.
LEMMA Shrinks ==
  ASSUME StateOK(state), StateOK(state'), NEW n \in 1..63, state.sp = Top(n),
         state'.sp = Top(n - 1), Kept(state, state')
  PROVE  Stack!Shrunk /\ Stack!Last(Words) = WordAt(n, state)
<1>1. n \in Nat /\ n - 1 \in Nat /\ n - 1 <= n /\ n - 1 \in 0..63 /\ n \in 0..63 /\ n # 0
  OBVIOUS
<1>2. SameWords(n - 1, state, state')
  BY KeptBytes DEF SameWords, WordAt
<1> DEFINE old == Words
<1> DEFINE new == Words'
<1>3. Lists(old, n, state)
  BY <1>1, StackWords DEF Words
<1>4. Lists(new, n - 1, state')
  BY <1>1, StackWords DEF Words
<1>5. Stack!Shrunk <=> old # <<>> /\ new = SubSeq(old, 1, Len(old) - 1)
  BY DEF Stack!Shrunk, Stack!Front
<1>6. Stack!Last(old) = old[Len(old)]
  BY DEF Stack!Last
<1> HIDE DEF old, new
<1>7. SubSeq(old, 1, n - 1) = new
  BY <1>1, <1>2, <1>3, <1>4, FirstWords, OneList
<1>8. Len(old) = n /\ old[n] = WordAt(n, state) /\ old # <<>>
  BY <1>1, <1>3 DEF Lists
<1>9. Stack!Shrunk /\ Stack!Last(old) = WordAt(n, state)
  BY <1>5, <1>6, <1>7, <1>8
<1> QED
  BY <1>9 DEF old

\* Otherwise the list stays as it is.
LEMMA Stays ==
  ASSUME StateOK(state), StateOK(state'), NEW n \in 0..63, state.sp = Top(n),
         state'.sp = state.sp, SameWords(n, state, state')
  PROVE  Words' = Words
<1>1. n \in Nat
  OBVIOUS
<1>2. Lists(Words, n, state)
  BY StackWords DEF Words
<1>3. Lists(Words', n, state')
  BY StackWords DEF Words
<1> QED
  BY <1>1, <1>2, <1>3, OneList

-----------------------------------------------------------------------------
(* The program *)

\* The rows of its opcodes.
LEMMA ProgramRows ==
  /\ instructions[\hCD] = Ins("Call", <<"Always", "D16">>, 12)
  /\ instructions[\hFF] = Null
  /\ instructions[\h05] = Ins("Dec", <<"B">>, 4)
  /\ instructions[\hC8] = Ins("Ret", <<"Z">>, 8)
  /\ instructions[\hC5] = Ins("Push", <<"BC">>, 16)
  /\ instructions[\hC1] = Ins("Pop", <<"BC">>, 12)
  /\ instructions[\h1C] = Ins("Inc", <<"E">>, 4)
  /\ instructions[\hC9] = Ins("Ret", <<"Always">>, 4)
<1>1. /\ instructions[\hCD] = Rows11(1, 5)
      /\ instructions[\hFF] = Rows11(7, 7)
      /\ instructions[\h05] = Rows00(0, 5)
      /\ instructions[\hC8] = Rows11(1, 0)
      /\ instructions[\hC5] = Rows11(0, 5)
      /\ instructions[\hC1] = Rows11(0, 1)
      /\ instructions[\h1C] = Rows00(3, 4)
      /\ instructions[\hC9] = Rows11(1, 1)
  BY DEF instructions
<1> QED
  BY <1>1 DEF Rows00, Rows11, Operand8, StackPair, Condition, MemoryOr, Ins, Null

\* Its bytes, where the CPU reads them.
LEMMA ProgramBytes ==
  ASSUME NEW s, Carries(s.rom)
  PROVE  /\ Finds(\h0100, \hCD, s) /\ Finds(\h0101, \h10, s) /\ Finds(\h0102, \h01, s)
         /\ Finds(\h0103, \hFF, s) /\ Finds(\h0110, \h05, s) /\ Finds(\h0111, \hC8, s)
         /\ Finds(\h0112, \hC5, s) /\ Finds(\h0113, \hCD, s) /\ Finds(\h0114, \h10, s)
         /\ Finds(\h0115, \h01, s) /\ Finds(\h0116, \hC1, s) /\ Finds(\h0117, \h1C, s)
         /\ Finds(\h0118, \hC9, s)
<1>1. \A i \in DOMAIN Code : i \in DOMAIN s.rom /\ s.rom[i] = Code[i]
  BY DEF Carries
<1>2. DOMAIN Code = (0..3) \cup (\h10..\h18)
  BY DEF Code
<1>3. /\ Code[\h00] = \hCD /\ Code[\h01] = \h10 /\ Code[\h02] = \h01 /\ Code[\h03] = \hFF
      /\ Code[\h10] = \h05 /\ Code[\h11] = \hC8 /\ Code[\h12] = \hC5 /\ Code[\h13] = \hCD
      /\ Code[\h14] = \h10 /\ Code[\h15] = \h01 /\ Code[\h16] = \hC1 /\ Code[\h17] = \h1C
      /\ Code[\h18] = \hC9
  BY DEF Code, Function
<1>4. \A i \in (0..3) \cup (\h10..\h18) : i \in 0..(RomSize - 1)
  BY DEF RomSize
<1>5. ASSUME NEW i \in (0..3) \cup (\h10..\h18)
      PROVE  Finds(i + \h100, Code[i], s)
  BY <1>1, <1>2, <1>4, RomReads
<1>6. /\ Finds(\h00 + \h100, Code[\h00], s) /\ Finds(\h01 + \h100, Code[\h01], s)
      /\ Finds(\h02 + \h100, Code[\h02], s) /\ Finds(\h03 + \h100, Code[\h03], s)
      /\ Finds(\h10 + \h100, Code[\h10], s) /\ Finds(\h11 + \h100, Code[\h11], s)
      /\ Finds(\h12 + \h100, Code[\h12], s) /\ Finds(\h13 + \h100, Code[\h13], s)
      /\ Finds(\h14 + \h100, Code[\h14], s) /\ Finds(\h15 + \h100, Code[\h15], s)
      /\ Finds(\h16 + \h100, Code[\h16], s) /\ Finds(\h17 + \h100, Code[\h17], s)
      /\ Finds(\h18 + \h100, Code[\h18], s)
  BY <1>5
<1> QED
  BY <1>3, <1>6

\* The depth and the bytes it is counted in.
LEMMA Depths ==
  ASSUME StateOK(state)
  PROVE  /\ Depth \in 1..256 /\ state.reg["D"] \in 0..255
         /\ Depth = 256 <=> state.reg["D"] = 0
         /\ Depth # 256 => state.reg["D"] = Depth
         /\ state.reg["B"] \in Byte /\ state.reg["C"] \in Byte /\ state.reg["E"] \in Byte
BY Members, SMTT(20) DEF Depth, Reg8, Byte, MaxByte

\* Join taken apart.
LEMMA Halves ==
  ASSUME NEW hi \in Byte, NEW lo \in Byte
  PROVE  Hi(Join(hi, lo)) = hi /\ Lo(Join(hi, lo)) = lo
BY DEF Byte, MaxByte, Hi, Lo, Join

\* What the frames are made of stays.
SameGhosts == state'.reg["D"] = state.reg["D"] /\ state'.reg["C"] = state.reg["C"]

\* Frames of a stack that has not grown.
LEMMA FramesKept ==
  ASSUME Frames, SameGhosts, NEW n \in 0..63, state.sp = Top(n),
         NEW m \in 0..n, state'.sp = Top(m), SameWords(m, state, state')
  PROVE  Frames'
<1>1. Depth' = Depth
  BY DEF SameGhosts, Depth
<1>2. ASSUME NEW k \in 1..63, state'.sp <= Top(k)
      PROVE  state.sp <= Top(k) /\ WordAt(k, state') = WordAt(k, state)
  <2>1. k <= m /\ state.sp <= Top(k)
    BY <1>2 DEF Top
  <2> QED BY <2>1 DEF SameWords
<1>3. state'.sp <= Top(1) => WordAt(1, state') = \h0103
  BY <1>2 DEF Frames
<1>4. ASSUME NEW j \in 1..31
      PROVE  /\ state'.sp <= Top(2 * j) => WordAt(2 * j, state') = Join(Depth - j, state.reg["C"])
             /\ state'.sp <= Top(2 * j + 1) => WordAt(2 * j + 1, state') = \h0116
  <2>1. 2 * j \in 1..63 /\ 2 * j + 1 \in 1..63
    OBVIOUS
  <2> QED BY <1>2, <2>1 DEF Frames
<1> QED
  BY <1>1, <1>3, <1>4 DEF Frames, SameGhosts

\* Frames with one word more.
LEMMA FramesGrow ==
  ASSUME Frames, SameGhosts, NEW n \in 0..62, state.sp = Top(n),
         NEW w, Pushed(n, w, state, state'),
         n = 0 => w = \h0103,
         \A j \in 1..31 : /\ n + 1 = 2 * j => w = Join(Depth - j, state.reg["C"])
                          /\ n + 1 = 2 * j + 1 => w = \h0116
  PROVE  Frames'
<1>1. Depth' = Depth
  BY DEF SameGhosts, Depth
<1>2. ASSUME NEW k \in 1..63, state'.sp <= Top(k)
      PROVE  \/ k = n + 1 /\ WordAt(k, state') = w
             \/ state.sp <= Top(k) /\ WordAt(k, state') = WordAt(k, state)
  <2>1. k <= n + 1
    BY <1>2 DEF Top, Pushed
  <2>2. k = n + 1 \/ (k \in 1..n /\ state.sp <= Top(k))
    BY <2>1 DEF Top
  <2> QED BY <2>2 DEF Pushed
<1>3. state'.sp <= Top(1) => WordAt(1, state') = \h0103
  BY <1>2 DEF Frames
<1>4. ASSUME NEW j \in 1..31
      PROVE  /\ state'.sp <= Top(2 * j) => WordAt(2 * j, state') = Join(Depth - j, state.reg["C"])
             /\ state'.sp <= Top(2 * j + 1) => WordAt(2 * j + 1, state') = \h0116
  <2>1. 2 * j \in 1..63 /\ 2 * j + 1 \in 1..63
    OBVIOUS
  <2> QED BY <1>2, <2>1 DEF Frames
<1> QED
  BY <1>1, <1>3, <1>4 DEF Frames, SameGhosts

-----------------------------------------------------------------------------
(* Its steps *)

\* Counting down, from the value counting up would have reached, wrapped at 256.
LEMMA CountsDown ==
  ASSUME NEW d \in 0..255
  PROVE  uint8(uint8(d + 1) - 1) = d /\ (uint8(d + 1) = 1 <=> d = 0)
<1> DEFINE up == (d + 1) % 256
<1>1. up = IF d = 255 THEN 0 ELSE d + 1
  <2>1. CASE d = 255
    BY <2>1
  <2>2. CASE d < 255
    BY <2>2
  <2> QED BY <2>1, <2>2
<1>2. uint8(d + 1) = up /\ uint8(up - 1) = (up - 1) % 256
  BY DEF uint8
<1> HIDE DEF up
<1>3. 256 \in Nat \ {0} /\ d \in 0..(256 - 1) /\ up - 1 \in {d, d - 256}
  BY <1>1
<1>4. (up - 1) % 256 = d
  BY <1>3, Unwraps
<1> QED
  BY <1>1, <1>2, <1>4

\* What is not the stack stays.
LEMMA UntouchedKept ==
  ASSUME Untouched, Outside(state, state')
  PROVE  Untouched'
BY DEF Untouched, Outside, Carries

\* Memory that is kept keeps both sides.
LEMMA KeptMemory ==
  ASSUME Kept(state, state')
  PROVE  Outside(state, state') /\ \A n : SameWords(n, state, state')
BY KeptBytes DEF Kept, Outside, SameWords, WordAt

\* The steps of the list, while the machine runs and when it stops.
LEMMA ListSteps ==
  ASSUME state.status = "running"
  PROVE  /\ state'.status = "running"
              /\ (Stack!Call \/ Stack!Return \/ Stack!Push \/ Stack!Pop \/ Stack!Local) => Stack!Next
         /\ state'.status # "running" /\ Words' = Words => Stack!Next
BY DEF Stack!Next

\* 0100: the first call.
LEMMA StepStart ==
  ASSUME Alive(state), Untouched, Frames, process, ~CopyFails,
         state.pc = \h0100, state.sp = Top(0),
         state.reg["B"] = state.reg["D"], state.reg["E"] = 0
  PROVE  RecursionInv' /\ Stack!Next
<1>1. /\ Finds(state.pc, \hCD, state) /\ uint16(state.pc + 1) = \h0101
      /\ uint16(state.pc + 2) = \h0102 /\ uint16(state.pc + 3) = \h0103
      /\ \h10 \in Byte /\ \h01 \in Byte /\ Join(\h01, \h10) = \h0110 /\ \h0103 = state.pc + 3
  BY ProgramBytes DEF Untouched, uint16, Byte, MaxByte, Join
<1>2. Finds(uint16(state.pc + 1), \h10, state) /\ Finds(uint16(state.pc + 2), \h01, state)
  BY <1>1, ProgramBytes DEF Untouched
<1>3. 0 \in 0..62
  OBVIOUS
<1>4. /\ Alive(state') /\ Outside(state, state') /\ SameFile(state, state')
      /\ state'.pc = \h0110 /\ Pushed(0, \h0103, state, state')
  <2>1. /\ Alive(state') /\ Outside(state, state') /\ SameFile(state, state')
        /\ state'.pc = Join(\h01, \h10) /\ Pushed(0, uint16(state.pc + 3), state, state')
    BY <1>1, <1>2, <1>3, ProgramRows, RunCall
  <2> QED BY <1>1, <2>1
<1>5. Untouched' /\ SameGhosts
  BY <1>4, UntouchedKept DEF SameFile, SameGhosts
<1>6. Frames'
  <2>1. \A j \in 1..31 : 0 + 1 # 2 * j /\ 0 + 1 # 2 * j + 1
    OBVIOUS
  <2> QED BY <1>3, <1>4, <1>5, <2>1, FramesGrow
<1>7. Descending(1)'
  <2>1. Depth' = Depth /\ Depth \in 1..256 /\ uint8(Depth - 1 + 1) = state.reg["B"]
    <3>1. Depth' = Depth
      BY <1>5 DEF SameGhosts, Depth
    <3>2. Depth \in 1..256 /\ (Depth = 256 <=> state.reg["D"] = 0)
          /\ (Depth # 256 => state.reg["D"] = Depth)
      BY Depths DEF Alive
    <3>3. Depth - 1 + 1 = Depth
      BY <3>2
    <3>4. uint8(Depth) = state.reg["D"]
      BY <3>2 DEF uint8
    <3> QED BY <3>1, <3>2, <3>3, <3>4
  <2>2. state'.sp = Top(2 * 1 - 1)
    BY <1>4 DEF Pushed
  <2> QED BY <1>4, <2>1, <2>2 DEF Descending, SameFile
<1>8. Control'
  BY <1>4, <1>7 DEF Control, Alive
<1>9. Stack!Next
  <2>1. Stack!Grown /\ Stack!Last(Words') = \h0103
    BY <1>3, <1>4, Grows DEF Alive
  <2>2. Stack!Call
    BY <1>1, <2>1 DEF Stack!Call, Stack!CallLength
  <2> QED BY <1>4, <2>2, ListSteps DEF Alive
<1> QED
  BY <1>4, <1>5, <1>6, <1>8, <1>9 DEF RecursionInv, Alive

\* 0110: B counts the calls still to make.
LEMMA StepCount ==
  ASSUME Alive(state), Untouched, Frames, process, NEW j \in 1..32, Descending(j),
         state.pc = \h0110
  PROVE  RecursionInv' /\ Stack!Next
<1>1. /\ state.reg["E"] = 0 /\ j <= Depth /\ state.sp = Top(2 * j - 1)
      /\ state.reg["B"] = uint8(Depth - j + 1) /\ Depth \in 1..256
  BY Depths DEF Descending, Alive
<1>2. Finds(state.pc, \h05, state) /\ uint16(state.pc + 1) = \h0111 /\ "B" \in Reg8
  BY ProgramBytes DEF Untouched, uint16, Reg8
<1>3. /\ Alive(state') /\ Kept(state, state') /\ state'.pc = \h0111 /\ state'.sp = state.sp
      /\ state'.reg = Put(state.reg, "B", uint8(state.reg["B"] - 1))
      /\ "Zero" \in state'.flags <=> state.reg["B"] = 1
  BY <1>2, ProgramRows, RunCount
<1>4. /\ state'.reg["B"] = uint8(state.reg["B"] - 1) /\ state'.reg["C"] = state.reg["C"]
      /\ state'.reg["D"] = state.reg["D"] /\ state'.reg["E"] = state.reg["E"]
  BY <1>3, Members DEF Put, Reg8, Alive
<1>5. Untouched' /\ SameGhosts /\ \A n : SameWords(n, state, state')
  BY <1>3, <1>4, KeptMemory, UntouchedKept DEF SameGhosts
<1>6. 2 * j - 1 \in 0..63 /\ 2 * j - 1 \in 0..(2 * j - 1)
  OBVIOUS
<1>7. Frames'
  <2> DEFINE n == 2 * j - 1
  <2>1. n \in 0..63 /\ n \in 0..n /\ state.sp = Top(n) /\ state'.sp = Top(n)
    BY <1>1, <1>3, <1>6
  <2> HIDE DEF n
  <2> QED BY <1>5, <2>1, FramesKept
<1>8. Descending(j)'
  <2>1. Depth' = Depth
    BY <1>5 DEF SameGhosts, Depth
  <2>2. state'.reg["B"] = Depth - j /\ (state.reg["B"] = 1 <=> j = Depth)
    <3> DEFINE d == Depth - j
    <3>1. d \in 0..255 /\ Depth - j + 1 = d + 1 /\ (d = 0 <=> j = Depth)
      BY <1>1
    <3> HIDE DEF d
    <3>2. uint8(uint8(d + 1) - 1) = d /\ (uint8(d + 1) = 1 <=> d = 0)
      BY <3>1, CountsDown
    <3>3. state.reg["B"] = uint8(d + 1)
      BY <1>1, <3>1
    <3> QED BY <1>4, <3>1, <3>2, <3>3 DEF d
  <2> QED BY <1>1, <1>3, <1>4, <2>1, <2>2 DEF Descending
<1>9. Control'
  BY <1>3, <1>8 DEF Control, Alive
<1>10. Stack!Next
  <2>1. Words' = Words
    BY <1>1, <1>3, <1>5, <1>6, Stays DEF Alive
  <2>2. Stack!Local
    BY <1>3, <2>1 DEF Stack!Local
  <2> QED BY <1>3, <2>2, ListSteps DEF Alive
<1> QED
  BY <1>3, <1>5, <1>7, <1>9, <1>10 DEF RecursionInv, Alive

\* What a return from the j-th level finds, and where it leads.
LEMMA StepBack ==
  ASSUME Alive(state), Untouched, Frames, NEW j \in 1..32,
         j <= Depth, Depth <= 32, state.sp = Top(2 * j - 1),
         state.reg["E"] = Depth - j, state.reg["B"] = Depth - j,
         Alive(state'), Kept(state, state'), SameFile(state, state'),
         state'.pc = WordAt(2 * j - 1, state), state'.sp = Top(2 * j - 2)
  PROVE  RecursionInv' /\ Stack!Next
<1>1. /\ Depth' = Depth /\ Depth \in 1..256 /\ SameGhosts
      /\ state'.reg["E"] = state.reg["E"] /\ state'.reg["B"] = state.reg["B"]
  BY Depths DEF Depth, SameFile, SameGhosts, Alive
<1>2. Untouched' /\ \A n : SameWords(n, state, state')
  BY KeptMemory, UntouchedKept
<1>3. /\ 2 * j - 1 \in 0..63 /\ 2 * j - 2 \in 0..(2 * j - 1) /\ 2 * j - 1 \in 1..63
      /\ 2 * j - 1 - 1 = 2 * j - 2
  OBVIOUS
<1>4. Frames'
  BY <1>1, <1>2, <1>3, FramesKept
<1>5. Control'
  <2>1. CASE j = 1
    <3>1. state.sp <= Top(1) /\ 2 * j - 1 = 1 /\ 2 * j - 2 = 0
      BY <2>1 DEF Top
    <3>2. state'.pc = \h0103 /\ state'.sp = Top(0)
      BY <3>1 DEF Frames
    <3>3. Finished'
      BY <1>1, <2>1, <3>2 DEF Finished
    <3> QED BY <3>2, <3>3 DEF Control, Alive
  <2>2. CASE j # 1
    <3> DEFINE i == j - 1
    <3>1. /\ i \in 1..31 /\ i \in 1..32 /\ 2 * i + 1 = 2 * j - 1 /\ 2 * i = 2 * j - 2 /\ i < Depth
          /\ Depth - 1 - i = Depth - j /\ state.sp <= Top(2 * i + 1)
      BY <1>1, <2>2 DEF Top
    <3> HIDE DEF i
    <3>2. state'.pc = \h0116 /\ state'.sp = Top(2 * i)
      BY <3>1 DEF Frames
    <3>3. Returning(i)'
      BY <1>1, <3>1, <3>2 DEF Returning
    <3> QED BY <3>1, <3>3 DEF Control, Alive
  <2> QED BY <2>1, <2>2
<1>6. Stack!Next
  <2>1. Stack!Shrunk /\ Stack!Last(Words) = WordAt(2 * j - 1, state)
    BY <1>3, Shrinks DEF Alive
  <2>2. Stack!Return
    BY <2>1 DEF Stack!Return
  <2> QED BY <2>2, ListSteps DEF Alive
<1> QED
  BY <1>2, <1>4, <1>5, <1>6 DEF RecursionInv, Alive

\* 0111: the innermost call returns at once, the others go on.
LEMMA StepTest ==
  ASSUME Alive(state), Untouched, Frames, process, NEW j \in 1..32, Descending(j),
         state.pc = \h0111
  PROVE  RecursionInv' /\ Stack!Next
<1>1. /\ state.reg["E"] = 0 /\ j <= Depth /\ state.sp = Top(2 * j - 1)
      /\ state.reg["B"] = Depth - j /\ ("Zero" \in state.flags <=> j = Depth)
      /\ Depth \in 1..256
  BY Depths DEF Descending, Alive
<1>2. /\ Finds(state.pc, \hC8, state) /\ uint16(state.pc + 1) = \h0112 /\ 8 \in Int
      /\ 2 * j - 1 \in 1..63 /\ 2 * j - 1 \in 0..63 /\ 2 * j - 1 \in 0..(2 * j - 1)
      /\ 2 * j - 1 - 1 = 2 * j - 2
  BY ProgramBytes DEF Untouched, uint16
<1>3. is_true("Z", state) <=> j = Depth
  BY <1>1 DEF is_true
<1>4. /\ Alive(state') /\ Kept(state, state') /\ SameFile(state, state')
      /\ j = Depth => state'.pc = WordAt(2 * j - 1, state) /\ state'.sp = Top(2 * j - 2)
      /\ j # Depth => state'.pc = \h0112 /\ state'.sp = state.sp
  <2> DEFINE n == 2 * j - 1
  <2>1. n \in 1..63 /\ state.sp = Top(n) /\ n - 1 = 2 * j - 2
    BY <1>1, <1>2
  <2> HIDE DEF n
  <2>2. /\ Alive(state') /\ Kept(state, state') /\ SameFile(state, state')
        /\ is_true("Z", state) => state'.pc = WordAt(n, state) /\ state'.sp = Top(n - 1)
        /\ ~is_true("Z", state) => state'.pc = uint16(state.pc + 1) /\ state'.sp = state.sp
    BY <1>2, <2>1, ProgramRows, RunRet
  <2> QED BY <1>2, <1>3, <2>1, <2>2 DEF n
<1>5. CASE j = Depth
  BY <1>1, <1>4, <1>5, StepBack
<1>6. CASE j # Depth
  <2>1. Untouched' /\ SameGhosts /\ \A n : SameWords(n, state, state')
    BY <1>4, KeptMemory, UntouchedKept DEF SameFile, SameGhosts
  <2>2. Frames'
    BY <1>1, <1>2, <1>4, <1>6, <2>1, FramesKept, SMTT(40)
  <2>3. Descending(j)'
    <3>1. state'.reg = state.reg
      BY <1>4 DEF SameFile
    <3>2. Depth' = Depth
      BY <3>1 DEF Depth
    <3>3. j < Depth
      BY <1>1, <1>6
    <3> QED BY <1>1, <1>4, <1>6, <3>1, <3>2, <3>3 DEF Descending
  <2>4. Control'
    BY <1>4, <2>3 DEF Control, Alive
  <2>5. Stack!Next
    <3>1. Words' = Words
      BY <1>1, <1>2, <1>4, <1>6, <2>1, Stays DEF Alive
    <3>2. Stack!Local
      BY <1>4, <1>6, <3>1 DEF Stack!Local
    <3> QED BY <1>4, <3>2, ListSteps DEF Alive
  <2> QED BY <1>4, <2>1, <2>2, <2>4, <2>5 DEF RecursionInv, Alive
<1> QED
  BY <1>5, <1>6

\* 0112: the count is saved, or there is no room for it.
LEMMA StepSave ==
  ASSUME Alive(state), Untouched, Frames, process, NEW j \in 1..32, Descending(j),
         state.pc = \h0112
  PROVE  RecursionInv' /\ Stack!Next
<1>1. /\ state.reg["E"] = 0 /\ j < Depth /\ state.sp = Top(2 * j - 1)
      /\ state.reg["B"] = Depth - j /\ Depth \in 1..256
  BY Depths DEF Descending, Alive
<1>2. /\ Finds(state.pc, \hC5, state) /\ uint16(state.pc + 1) = \h0113 /\ "BC" \in Pairs
      /\ Pair("BC", state) = Join(Depth - j, state.reg["C"])
  BY <1>1, ProgramBytes DEF Untouched, uint16, Pairs, Pair, High, Low
<1> DEFINE n == 2 * j - 1
<1>3. /\ n \in 0..63 /\ state.sp = Top(n) /\ n + 1 = 2 * j /\ (n < 63 <=> j <= 31)
      /\ (n = 63 <=> j = 32) /\ n # 0
  BY <1>1
<1> HIDE DEF n
<1>4. /\ Outside(state, state') /\ SameFile(state, state') /\ state'.pc = \h0113
      /\ n < 63 => Alive(state') /\ Pushed(n, Pair("BC", state), state, state')
      /\ n = 63 => /\ StateOK(state') /\ state'.status = "panicked"
                   /\ state'.sp = state.sp /\ SameWords(63, state, state')
  BY <1>2, <1>3, ProgramRows, RunPush
<1>5. Untouched' /\ SameGhosts /\ Depth' = Depth /\ state'.reg = state.reg
  BY <1>4, UntouchedKept DEF SameFile, SameGhosts, Depth
<1>6. CASE j <= 31
  <2>1. n \in 0..62 /\ j \in 1..31
    BY <1>3, <1>6
  <2>2. Alive(state') /\ Pushed(n, Join(Depth - j, state.reg["C"]), state, state')
    BY <1>2, <1>3, <1>4, <1>6
  <2>3. Frames'
    <3>1. ASSUME NEW k \in 1..31
          PROVE  /\ n + 1 = 2 * k =>
                      Join(Depth - j, state.reg["C"]) = Join(Depth - k, state.reg["C"])
                 /\ n + 1 = 2 * k + 1 => Join(Depth - j, state.reg["C"]) = \h0116
      <4>1. n + 1 = 2 * k => j = k
        BY <1>3
      <4>2. n + 1 # 2 * k + 1
        BY <1>3
      <4> QED BY <4>1, <4>2
    <3> QED BY <1>3, <1>5, <2>1, <2>2, <3>1, FramesGrow
  <2>4. Descending(j)'
    BY <1>1, <1>3, <1>4, <1>5, <1>6, <2>2 DEF Descending, Pushed
  <2>5. Control'
    BY <2>2, <2>4 DEF Control, Alive
  <2>6. Stack!Next
    <3>1. Stack!Grown
      BY <1>3, <2>1, <2>2, Grows DEF Alive
    <3>2. Stack!Push
      BY <1>4, <3>1 DEF Stack!Push
    <3> QED BY <2>2, <3>2, ListSteps DEF Alive
  <2> QED BY <1>5, <2>2, <2>3, <2>5, <2>6 DEF RecursionInv, Alive
<1>7. CASE j = 32
  <2>1. /\ n = 63 /\ StateOK(state') /\ state'.status = "panicked"
        /\ state'.sp = Top(63) /\ state'.sp = state.sp /\ SameWords(63, state, state')
    BY <1>3, <1>4, <1>7
  <2>2. Frames'
    <3>1. 63 \in 0..63
      OBVIOUS
    <3> QED BY <1>5, <2>1, <3>1, FramesKept
  <2>3. Control'
    BY <1>1, <1>4, <1>5, <1>7, <2>1 DEF Control, Capacity
  <2>4. Stack!Next
    <3>1. Words' = Words
      BY <1>3, <2>1, Stays DEF Alive
    <3> QED BY <2>1, <3>1, ListSteps DEF Alive
  <2> QED BY <1>5, <2>1, <2>2, <2>3, <2>4 DEF RecursionInv
<1> QED
  BY <1>6, <1>7

\* 0113: the next level.
LEMMA StepRecurse ==
  ASSUME Alive(state), Untouched, Frames, process, NEW j \in 1..32, Descending(j),
         ~CopyFails, state.pc = \h0113
  PROVE  RecursionInv' /\ Stack!Next
<1>1. /\ state.reg["E"] = 0 /\ j < Depth /\ state.sp = Top(2 * j)
      /\ state.reg["B"] = Depth - j /\ Depth \in 1..256 /\ j <= 31
  BY Depths DEF Descending, Alive
<1>2. /\ Finds(state.pc, \hCD, state) /\ uint16(state.pc + 1) = \h0114
      /\ uint16(state.pc + 2) = \h0115 /\ uint16(state.pc + 3) = \h0116
      /\ \h10 \in Byte /\ \h01 \in Byte /\ Join(\h01, \h10) = \h0110 /\ \h0116 = state.pc + 3
  BY ProgramBytes DEF Untouched, uint16, Byte, MaxByte, Join
<1>3. Finds(uint16(state.pc + 1), \h10, state) /\ Finds(uint16(state.pc + 2), \h01, state)
  BY <1>2, ProgramBytes DEF Untouched
<1> DEFINE n == 2 * j
<1> DEFINE i == j + 1
<1>4. /\ n \in 0..62 /\ n # 0 /\ state.sp = Top(n) /\ n + 1 = 2 * i - 1 /\ i \in 1..32
      /\ i <= Depth /\ Depth - i + 1 = Depth - j
      /\ \A k \in 1..31 : n + 1 # 2 * k
  <2>1. n \in 0..62 /\ n # 0 /\ state.sp = Top(n) /\ n + 1 = 2 * i - 1 /\ i \in 1..32
    BY <1>1
  <2>2. i <= Depth /\ Depth - i + 1 = Depth - j
    BY <1>1
  <2>3. \A k \in 1..31 : n + 1 # 2 * k
    OBVIOUS
  <2> QED BY <2>1, <2>2, <2>3
<1> HIDE DEF n, i
<1>5. /\ Alive(state') /\ Outside(state, state') /\ SameFile(state, state')
      /\ state'.pc = \h0110 /\ Pushed(n, \h0116, state, state')
  <2>1. /\ Alive(state') /\ Outside(state, state') /\ SameFile(state, state')
        /\ state'.pc = Join(\h01, \h10) /\ Pushed(n, uint16(state.pc + 3), state, state')
    BY <1>2, <1>3, <1>4, ProgramRows, RunCall
  <2> QED BY <1>2, <2>1
<1>6. Untouched' /\ SameGhosts /\ Depth' = Depth /\ state'.reg = state.reg
  BY <1>5, UntouchedKept DEF SameFile, SameGhosts, Depth
<1>7. Frames'
  BY <1>4, <1>5, <1>6, FramesGrow
<1>8. Descending(i)'
  <2>1. uint8(Depth - j) = Depth - j
    BY <1>1 DEF uint8
  <2> QED BY <1>1, <1>4, <1>5, <1>6, <2>1 DEF Descending, Pushed
<1>9. Control'
  BY <1>4, <1>5, <1>8 DEF Control, Alive
<1>10. Stack!Next
  <2>1. Stack!Grown /\ Stack!Last(Words') = \h0116
    BY <1>4, <1>5, Grows DEF Alive
  <2>2. Stack!Call
    BY <1>2, <2>1 DEF Stack!Call, Stack!CallLength
  <2> QED BY <1>5, <2>2, ListSteps DEF Alive
<1> QED
  BY <1>5, <1>6, <1>7, <1>9, <1>10 DEF RecursionInv, Alive

\* 0116: the count comes back.
LEMMA StepRestore ==
  ASSUME Alive(state), Untouched, Frames, process, NEW j \in 1..32, Returning(j),
         state.pc = \h0116
  PROVE  RecursionInv' /\ Stack!Next
<1>1. /\ j < Depth /\ Depth <= 32 /\ state.sp = Top(2 * j)
      /\ state.reg["E"] = Depth - 1 - j /\ Depth \in 1..256
      /\ state.reg["C"] \in Byte
  BY Depths DEF Returning, Alive
<1>2. Finds(state.pc, \hC1, state) /\ uint16(state.pc + 1) = \h0117 /\ "BC" \in Pairs
  BY ProgramBytes DEF Untouched, uint16, Pairs
<1> DEFINE n == 2 * j
<1>3. n \in 1..63 /\ n \in 0..63 /\ n - 1 \in 0..n /\ state.sp = Top(n) /\ n - 1 = 2 * j - 1
      /\ j \in 1..31 /\ state.sp <= Top(2 * j)
  BY <1>1 DEF Top
<1>4. WordAt(n, state) = Join(Depth - j, state.reg["C"])
  BY <1>3 DEF Frames
<1> HIDE DEF n
<1>5. /\ Alive(state') /\ Kept(state, state') /\ state'.pc = \h0117 /\ state'.sp = Top(n - 1)
      /\ state'.reg = Put(Put(state.reg, "B", Hi(WordAt(n, state))), "C", Lo(WordAt(n, state)))
  <2> DEFINE b == \hC1
  <2> DEFINE p == "BC"
  <2>1. /\ Finds(state.pc, b, state) /\ instructions[b] = Ins("Pop", <<p>>, 12)
        /\ p \in Pairs /\ High[p] = "B" /\ Low[p] = "C"
    BY <1>2, ProgramRows DEF High, Low
  <2> HIDE DEF b, p
  <2>2. /\ Alive(state') /\ Kept(state, state') /\ state'.pc = uint16(state.pc + 1)
        /\ state'.sp = Top(n - 1)
        /\ state'.reg = Put(Put(state.reg, High[p], Hi(WordAt(n, state))),
                            Low[p], Lo(WordAt(n, state)))
    BY <1>3, <2>1, RunPop
  <2> QED BY <1>2, <2>1, <2>2
<1>6. /\ state'.reg["B"] = Depth - j /\ state'.reg["C"] = state.reg["C"]
      /\ state'.reg["D"] = state.reg["D"] /\ state'.reg["E"] = state.reg["E"]
  <2>1. Depth - j \in Byte
    BY <1>1 DEF Byte, MaxByte
  <2>2. Lo(WordAt(n, state)) = state.reg["C"] /\ Hi(WordAt(n, state)) = Depth - j
    BY <1>1, <1>4, <2>1, Halves
  <2> QED BY <1>5, <2>2, Members DEF Put, Reg8, Alive
<1>7. Untouched' /\ SameGhosts /\ Depth' = Depth /\ \A k : SameWords(k, state, state')
  BY <1>5, <1>6, KeptMemory, UntouchedKept DEF SameGhosts, Depth
<1>8. Frames'
  BY <1>3, <1>5, <1>7, FramesKept
<1>9. Returning(j)'
  BY <1>1, <1>3, <1>5, <1>6, <1>7 DEF Returning
<1>10. Control'
  BY <1>5, <1>9 DEF Control, Alive
<1>11. Stack!Next
  <2>1. Stack!Shrunk
    BY <1>3, <1>5, Shrinks DEF Alive
  <2>2. Stack!Pop
    BY <1>5, <2>1 DEF Stack!Pop
  <2> QED BY <1>5, <2>2, ListSteps DEF Alive
<1> QED
  BY <1>5, <1>7, <1>8, <1>10, <1>11 DEF RecursionInv, Alive

\* 0117: E counts the levels returned through.
LEMMA StepTally ==
  ASSUME Alive(state), Untouched, Frames, process, NEW j \in 1..32, Returning(j),
         state.pc = \h0117
  PROVE  RecursionInv' /\ Stack!Next
<1>1. /\ j < Depth /\ Depth <= 32 /\ state.sp = Top(2 * j - 1)
      /\ state.reg["E"] = Depth - 1 - j /\ state.reg["B"] = Depth - j /\ Depth \in 1..256
  BY Depths DEF Returning, Alive
<1>2. Finds(state.pc, \h1C, state) /\ uint16(state.pc + 1) = \h0118 /\ "E" \in Reg8
  BY ProgramBytes DEF Untouched, uint16, Reg8
<1>3. /\ Alive(state') /\ Kept(state, state') /\ state'.pc = \h0118 /\ state'.sp = state.sp
      /\ state'.reg = Put(state.reg, "E", uint8(state.reg["E"] + 1))
  BY <1>2, ProgramRows, RunCount
<1>4. /\ state'.reg["E"] = uint8(state.reg["E"] + 1) /\ state'.reg["C"] = state.reg["C"]
      /\ state'.reg["D"] = state.reg["D"] /\ state'.reg["B"] = state.reg["B"]
  BY <1>3, Members DEF Put, Reg8, Alive
<1>5. Untouched' /\ SameGhosts /\ Depth' = Depth /\ \A n : SameWords(n, state, state')
  BY <1>3, <1>4, KeptMemory, UntouchedKept DEF SameGhosts, Depth
<1>6. 2 * j - 1 \in 0..63 /\ 2 * j - 1 \in 0..(2 * j - 1)
  OBVIOUS
<1>7. Frames'
  BY <1>1, <1>3, <1>5, <1>6, FramesKept, SMTT(20)
<1>8. Returning(j)'
  <2>1. state'.reg["E"] = Depth - j
    BY <1>1, <1>4 DEF uint8
  <2> QED BY <1>1, <1>3, <1>4, <1>5, <2>1 DEF Returning
<1>9. Control'
  BY <1>3, <1>8 DEF Control, Alive
<1>10. Stack!Next
  <2>1. Words' = Words
    BY <1>1, <1>3, <1>5, <1>6, Stays DEF Alive
  <2>2. Stack!Local
    BY <1>3, <2>1 DEF Stack!Local
  <2> QED BY <1>3, <2>2, ListSteps DEF Alive
<1> QED
  BY <1>3, <1>5, <1>7, <1>9, <1>10 DEF RecursionInv, Alive

\* 0118: one level back.
LEMMA StepReturn ==
  ASSUME Alive(state), Untouched, Frames, process, NEW j \in 1..32, Returning(j),
         ~CopyFails, state.pc = \h0118
  PROVE  RecursionInv' /\ Stack!Next
<1>1. /\ j < Depth /\ Depth <= 32 /\ state.sp = Top(2 * j - 1)
      /\ state.reg["E"] = Depth - j /\ state.reg["B"] = Depth - j /\ j <= Depth
  BY Depths DEF Returning, Alive
<1>2. Finds(state.pc, \hC9, state) /\ 4 \in Int /\ is_true("Always", state)
  BY ProgramBytes DEF Untouched, is_true
<1> DEFINE n == 2 * j - 1
<1>3. n \in 1..63 /\ state.sp = Top(n) /\ n - 1 = 2 * j - 2
  BY <1>1
<1> HIDE DEF n
<1>4. /\ Alive(state') /\ Kept(state, state') /\ SameFile(state, state')
      /\ state'.pc = WordAt(n, state) /\ state'.sp = Top(n - 1)
  BY <1>2, <1>3, ProgramRows, RunRet
<1>5. state'.pc = WordAt(2 * j - 1, state) /\ state'.sp = Top(2 * j - 2)
  BY <1>3, <1>4 DEF n
<1> QED
  BY <1>1, <1>4, <1>5, StepBack

\* 0103: no instruction.
LEMMA StepEnd ==
  ASSUME Alive(state), Untouched, Frames, process, state.pc = \h0103, Finished
  PROVE  RecursionInv' /\ Stack!Next
<1>1. Finds(state.pc, \hFF, state) /\ uint16(state.pc + 1) = \h0104
  BY ProgramBytes DEF Untouched, uint16
<1>2. /\ StateOK(state') /\ state'.status = "panicked" /\ Kept(state, state')
      /\ SameFile(state, state') /\ state'.sp = state.sp /\ state'.pc = \h0104
  BY <1>1, ProgramRows, RunNull
<1>3. Untouched' /\ SameGhosts /\ Depth' = Depth /\ \A n : SameWords(n, state, state')
  BY <1>2, KeptMemory, UntouchedKept DEF SameGhosts, SameFile, Depth
<1>4. state.sp = Top(0) /\ 0 \in 0..63 /\ 0 \in 0..0
  BY DEF Finished
<1>5. Frames'
  BY <1>2, <1>3, <1>4, FramesKept
<1>6. Control'
  BY <1>2, <1>3 DEF Control, Finished, SameFile
<1>7. Stack!Next
  <2>1. Words' = Words
    BY <1>2, <1>3, <1>4, Stays DEF Alive
  <2> QED BY <1>2, <2>1, ListSteps DEF Alive
<1> QED
  BY <1>2, <1>3, <1>5, <1>6, <1>7 DEF RecursionInv

\* No room to copy the State for an unconditional branch.
LEMMA StepCopyFails ==
  ASSUME RecursionInv, CopyFails
  PROVE  RecursionInv' /\ Stack!Next
<1>1. /\ StateOK(state') /\ state'.status = "crashed"
      /\ Kept(state, state') /\ Registers(state, state')
  BY CopyFailsEffect DEF RecursionInv, TypeOK
<1>2. state'.sp = state.sp /\ state'.reg = state.reg /\ \A k : WordAt(k, state') = WordAt(k, state)
  BY <1>1, KeptBytes DEF Registers, WordAt
<1>3. Untouched'
  BY <1>1, UntouchedKept, KeptMemory DEF RecursionInv
<1>4. Frames'
  <2>1. Depth' = Depth
    BY <1>2 DEF Depth
  <2> QED BY <1>2, <2>1 DEF RecursionInv, Frames
<1>5. Control'
  BY <1>1 DEF Control
<1>6. Words' = Words
  BY <1>2 DEF Words, WordsIn
<1>7. Stack!Next
  <2>1. state.status = "running"
    BY DEF CopyFails, Ready
  <2> QED BY <1>1, <1>6, <2>1, ListSteps
<1> QED
  BY <1>1, <1>3, <1>4, <1>5, <1>7 DEF RecursionInv

-----------------------------------------------------------------------------
(* The recursive function *)

\* One step of the machine.
LEMMA RecursionStep ==
  ASSUME RecursionInv, [Next]_state
  PROVE  RecursionInv' /\ [Stack!Next]_(Stack!vars)
<1>1. CASE state.status = "running" /\ process /\ ~CopyFails
  <2>1. Alive(state) /\ Untouched /\ Frames /\ Control
    BY <1>1 DEF RecursionInv, Alive
  <2>2. \/ /\ state.pc = \h0100 /\ state.sp = Top(0)
           /\ state.reg["B"] = state.reg["D"] /\ state.reg["E"] = 0
        \/ \E j \in 1..32 : Descending(j) \/ Returning(j)
        \/ state.pc = \h0103 /\ Finished
    BY <1>1, <2>1 DEF Control
  <2>3. ASSUME NEW j \in 1..32, Descending(j) PROVE RecursionInv' /\ Stack!Next
    <3>1. state.pc \in {\h0110, \h0111, \h0112, \h0113}
      BY <2>3 DEF Descending
    <3> QED BY <1>1, <2>1, <2>3, <3>1, StepCount, StepTest, StepSave, StepRecurse
  <2>4. ASSUME NEW j \in 1..32, Returning(j) PROVE RecursionInv' /\ Stack!Next
    <3>1. state.pc \in {\h0116, \h0117, \h0118}
      BY <2>4 DEF Returning
    <3> QED BY <1>1, <2>1, <2>4, <3>1, StepRestore, StepTally, StepReturn
  <2> QED BY <1>1, <2>1, <2>2, <2>3, <2>4, StepStart, StepEnd
<1>2. CASE UNCHANGED state
  <2>1. RecursionInv'
    <3>1. StateOK(state)' /\ Untouched'
      BY <1>2 DEF RecursionInv, Untouched, Carries
    <3>2. Frames'
      BY <1>2 DEF RecursionInv, Frames, Depth, WordAt
    <3>3. Control'
      <4>1. Depth' = Depth
        BY <1>2 DEF Depth
      <4>2. Finished' <=> Finished
        BY <1>2, <4>1 DEF Finished
      <4>3. ASSUME NEW j \in 1..32
            PROVE  (Descending(j)' <=> Descending(j)) /\ (Returning(j)' <=> Returning(j))
        BY <1>2, <4>1 DEF Descending, Returning
      <4>4. (\E j \in 1..32 : Descending(j) \/ Returning(j))'
              <=> \E j \in 1..32 : Descending(j) \/ Returning(j)
        BY ONLY <4>3
      <4>5. Control
        BY DEF RecursionInv
      <4> QED BY <1>2, <4>1, <4>2, <4>4, <4>5 DEF Control
    <3> QED BY <3>1, <3>2, <3>3 DEF RecursionInv
  <2>2. UNCHANGED Stack!vars
    BY <1>2 DEF Stack!vars, Words, WordsIn, WordAt
  <2> QED BY <2>1, <2>2
<1>3. process => state.status = "running"
  BY DEF process, Ready, ExecNop, ExecAdd, ExecSub, ExecXor, ExecCompare, ExecInc, ExecDec,
         ExecLoad, ExecJumpRelative, ExecJump, ExecPush, ExecPop, ExecCall, ExecRet,
         ExecPrefixCB, ExecUnimplemented, FetchFails, CopyFails
<1> QED
  BY <1>1, <1>2, <1>3, StepCopyFails DEF Next, Exited

\* The machine starts on the first call.
LEMMA RecursionInit ==
  ASSUME \A rom \in Cartridges : Carries(rom), \A cpu \in Cpus : Starts(cpu), Init
  PROVE  RecursionInv /\ Stack!Init
<1>1. PICK rom \in Cartridges, cpu \in Cpus : state = Loaded(rom, cpu)
  BY DEF Init
<1>2. IsArray(rom, RomSize) /\ cpu \in CpuType /\ Carries(rom) /\ Starts(cpu)
  BY CartridgesAssumption, CpusAssumption
<1>3. StateOK(state)
  BY <1>1, <1>2, LoadedType
<1>4. /\ state.rom = rom /\ state.io = ResetIo /\ state.video = Zeros
      /\ state.interrupt_enabled = 0 /\ state.boot_rom_enabled = TRUE
      /\ state.status = "running"
      /\ state.sp = cpu.sp /\ state.pc = cpu.pc /\ state.reg = cpu.reg
  BY <1>1 DEF Loaded
<1>5. Untouched
  BY <1>2, <1>4 DEF Untouched
<1>6. state.sp = Top(0) /\ \A k \in 1..63 : ~(state.sp <= Top(k))
  BY <1>2, <1>4 DEF Starts, Top
<1>7. Frames
  <2>1. \A j \in 1..31 : 2 * j \in 1..63 /\ 2 * j + 1 \in 1..63
    OBVIOUS
  <2> QED BY <1>6, <2>1 DEF Frames
<1>8. Control
  BY <1>2, <1>4, <1>6 DEF Control, Starts
<1>9. Words = <<>>
  <2>1. Lists(Words, 0, state)
    BY <1>3, <1>6, StackWords DEF Words
  <2> QED BY <2>1 DEF Lists
<1> QED
  BY <1>3, <1>4, <1>5, <1>7, <1>8, <1>9 DEF RecursionInv, Stack!Init

\* The calls under way and the words they left, from every cartridge that carries the
\* function and at every depth a register can count.
THEOREM RecursionInvariant ==
  ASSUME \A rom \in Cartridges : Carries(rom), \A cpu \in Cpus : Starts(cpu)
  PROVE  Spec => []RecursionInv
<1>1. Init => RecursionInv
  BY RecursionInit
<1>2. RecursionInv /\ [Next]_state => RecursionInv'
  BY RecursionStep
<1> QED
  BY <1>1, <1>2, PTL DEF Spec

\* Every return resumes after its own call: each step of the machine is a step of the
\* last-in first-out list, or leaves it as it is.
THEOREM MemoryIsAStack ==
  ASSUME \A rom \in Cartridges : Carries(rom), \A cpu \in Cpus : Starts(cpu)
  PROVE  Spec => CallStackSpec
<1>1. Init => Stack!Init
  BY RecursionInit
<1>2. RecursionInv /\ [Next]_state => [Stack!Next]_(Stack!vars)
  BY RecursionStep
<1>3. Spec => []RecursionInv
  BY RecursionInvariant
<1> QED
  BY <1>1, <1>2, <1>3, PTL DEF Spec, CallStackSpec, Stack!Spec

\* The function comes back balanced: sp, B, E and the number of words that fitted.
THEOREM RecursionBalances ==
  ASSUME \A rom \in Cartridges : Carries(rom), \A cpu \in Cpus : Starts(cpu)
  PROVE  Spec => []ReturnsBalanced
<1>1. RecursionInv => ReturnsBalanced
  <2> SUFFICES ASSUME RecursionInv, state.status = "running", state.pc = \h0103,
                      state.reg["D"] # 0
               PROVE  ReturnsBalanced
    BY DEF ReturnsBalanced
  <2>1. Finished
    BY DEF RecursionInv, Control, Descending, Returning
  <2>2. Depth = state.reg["D"] /\ Depth \in 1..256
    BY Depths DEF RecursionInv, Depth
  <2> QED BY <2>1, <2>2 DEF Finished, Top, ReturnsBalanced, Capacity
<1>2. Spec => []RecursionInv
  BY RecursionInvariant
<1> QED
  BY <1>1, <1>2, PTL

\* or it stops with the stack full and no video memory, port, FFFF or FF50 written.
THEOREM DeepRecursionStops ==
  ASSUME \A rom \in Cartridges : Carries(rom), \A cpu \in Cpus : Starts(cpu)
  PROVE  Spec => []OverflowStops
<1>1. RecursionInv => OverflowStops
  <2> SUFFICES ASSUME RecursionInv, state.status = "panicked", state.pc # \h0104
               PROVE  OverflowStops
    BY DEF OverflowStops
  <2>1. state.status = "panicked" /\ state.sp = Top(63) /\ StateOK(state) /\ Untouched
    BY DEF RecursionInv, Control, Capacity
  <2>2. Len(Words) = 63
    <3>1. 63 \in 0..63
      OBVIOUS
    <3>2. Lists(Words, 63, state)
      BY <2>1, <3>1, StackWords DEF Words
    <3> QED BY <3>2 DEF Lists
  <2> QED BY <2>1, <2>2 DEF OverflowStops, Untouched, Capacity
<1>2. Spec => []RecursionInv
  BY RecursionInvariant
<1> QED
  BY <1>1, <1>2, PTL

-----------------------------------------------------------------------------
(* Loads, arithmetic, branches *)

\* The machine has gone on n bytes further, with memory and sp as they were.
Straight(n) ==
  /\ Alive(state') /\ Kept(state, state')
  /\ state'.pc = uint16(state.pc + n) /\ state'.sp = state.sp

\* f is the machine when the n bytes of its instruction have been read.
Passed(n, f) ==
  /\ Alive(f) /\ Kept(state, f) /\ f.reg = state.reg /\ f.sp = state.sp
  /\ f.flags = state.flags /\ f.pc = uint16(state.pc + n)

\* A pair of registers stored.
PutWord(r, p, w) == Put(Put(r, High[p], Hi(w)), Low[p], Lo(w))

\* It is the word, and the other registers stay.
LEMMA WordPut ==
  ASSUME NEW s, StateOK(s), NEW p \in Pairs, NEW w \in Word, NEW t, t.reg = PutWord(s.reg, p, w)
  PROVE  /\ Pair(p, t) = w
         /\ \A x \in Reg8 \ {High[p], Low[p]} : t.reg[x] = s.reg[x]
<1>1. /\ High[p] \in Reg8 /\ Low[p] \in Reg8 /\ High[p] # Low[p]
      /\ s.reg \in [Reg8 -> Byte]
  BY Members DEF Pairs, High, Low, Reg8
<1>2. t.reg[High[p]] = Hi(w) /\ t.reg[Low[p]] = Lo(w)
  BY <1>1 DEF PutWord, Put
<1>3. \A x \in Reg8 \ {High[p], Low[p]} : t.reg[x] = s.reg[x]
  BY <1>1 DEF PutWord, Put
<1>4. Join(Hi(w), Lo(w)) = w
  BY WordBytes
<1> QED
  BY <1>2, <1>3, <1>4 DEF Pair

\* A wider value stored in a pair is cut to 16 bits.
LEMMA PairWraps ==
  ASSUME NEW s, NEW p \in Pairs, NEW v \in Int
  PROVE  Set(p, v, s) = Set(p, uint16(v), s)
<1>1. uint16(uint16(v)) = uint16(v)
  BY Conversions, WordIsInt
<1>2. Lo(uint16(v)) = Lo(v)
  BY DEF Lo, uint16
<1>3. Set(p, v, s) = SetPair(p, v, s) /\ Set(p, uint16(v), s) = SetPair(p, uint16(v), s)
  BY DEF Set, Reg8, Pairs, Pointers
<1> QED
  BY <1>1, <1>2, <1>3 DEF SetPair

\* An instruction ends with a result in a register,
LEMMA EndsInRegister ==
  ASSUME NEW n, NEW f, Passed(n, f), NEW flags \in SUBSET FlagNames,
         NEW x \in Reg8, NEW v \in Int, NEW cycles \in Int,
         state' = Charge(cycles, Set(x, v, SetFlags(flags, f)))
  PROVE  Straight(n) /\ state'.flags = flags /\ state'.reg = Put(state.reg, x, uint8(v))
<1> DEFINE g == SetFlags(flags, f)
<1> DEFINE t == Set(x, v, g)
<1>1. /\ Alive(g) /\ Kept(f, g) /\ g.pc = f.pc /\ g.sp = f.sp /\ g.reg = f.reg /\ g.flags = flags
  BY SetFlagsEffect, SetFlagsType DEF Alive, Passed
<1> HIDE DEF g
<1>2. /\ Alive(t) /\ Kept(g, t) /\ t.pc = g.pc /\ t.sp = g.sp /\ t.flags = g.flags
      /\ t.reg = Put(g.reg, x, uint8(v))
  BY <1>1, PutRegister
<1>3. state' = Charge(cycles, t)
  BY DEF g
<1> HIDE DEF t
<1>4. Ended(t, state')
  BY <1>2, <1>3, Charged
<1> QED
  BY <1>1, <1>2, <1>4 DEF Passed, Straight, Ended, Kept

\* or in a pair,
LEMMA EndsInPair ==
  ASSUME NEW n, NEW f, Passed(n, f), NEW flags \in SUBSET FlagNames,
         NEW p \in Pairs, NEW v \in Int, NEW cycles \in Int,
         state' = Charge(cycles, Set(p, v, SetFlags(flags, f)))
  PROVE  Straight(n) /\ state'.flags = flags /\ state'.reg = PutWord(state.reg, p, uint16(v))
<1> DEFINE g == SetFlags(flags, f)
<1> DEFINE t == Set(p, uint16(v), g)
<1>1. /\ Alive(g) /\ Kept(f, g) /\ g.pc = f.pc /\ g.sp = f.sp /\ g.reg = f.reg /\ g.flags = flags
  BY SetFlagsEffect, SetFlagsType DEF Alive, Passed
<1> HIDE DEF g
<1>2. uint16(v) \in Word
  BY Conversions
<1>3. /\ Alive(t) /\ Kept(g, t) /\ t.pc = g.pc /\ t.sp = g.sp /\ t.flags = g.flags
      /\ t.reg = PutWord(g.reg, p, uint16(v))
  BY <1>1, <1>2, PutPair DEF PutWord
<1>4. state' = Charge(cycles, t)
  BY PairWraps DEF g
<1> HIDE DEF t
<1>5. Ended(t, state')
  BY <1>3, <1>4, Charged
<1> QED
  BY <1>1, <1>3, <1>5 DEF Passed, Straight, Ended, Kept

\* Stored without flags, which stay.
LEMMA SameFlags ==
  ASSUME NEW f, Alive(f)
  PROVE  SetFlags(f.flags, f) = f /\ f.flags \in SUBSET FlagNames
BY DEF Alive, SetFlags, Then, StateOK

\* A byte stored in a byte.
LEMMA ByteFits ==
  ASSUME NEW v \in Byte
  PROVE  v \in Int /\ uint8(v) = v
BY DEF Byte, MaxByte, uint8

\* The bytes of an instruction, read one by one,
LEMMA NextByte ==
  ASSUME Alive(state), NEW n \in Int, NEW f, Passed(n, f),
         NEW v, Finds(uint16(state.pc + n), v, state)
  PROVE  /\ D8(f).val = v /\ Passed(n + 1, D8(f).st)
         /\ Fetch(f).val = v /\ Passed(n + 1, Fetch(f).st)
<1>1. Alive(f) /\ Finds(f.pc, v, f) /\ state.pc \in Int
  BY ReadsKept, Members, WordSteps DEF Passed, Alive
<1>2. /\ D8(f).val = v /\ Took(1, f, D8(f).st)
      /\ Fetch(f).val = v /\ Took(1, f, Fetch(f).st)
  BY <1>1, TakeByte, TakeOpcode
<1>3. uint16(f.pc + 1) = uint16(state.pc + (n + 1))
  <2> DEFINE m == state.pc + n
  <2>1. m \in Int /\ m + 1 = state.pc + (n + 1) /\ f.pc = uint16(m)
    BY <1>1 DEF Passed
  <2> HIDE DEF m
  <2>2. uint16(uint16(m) + 1) = uint16(m + 1)
    BY <2>1, WrapsOnce
  <2> QED BY <2>1, <2>2
<1>4. ASSUME NEW g, Took(1, f, g) PROVE Passed(n + 1, g)
  BY <1>3, <1>4 DEF Passed, Took, Kept, Registers
<1> QED
  BY <1>2, <1>4

\* or two together.
LEMMA NextWord ==
  ASSUME Alive(state), NEW n \in Int, NEW f, Passed(n, f),
         NEW lo, Finds(uint16(state.pc + n), lo, state),
         NEW hi, Finds(uint16(state.pc + (n + 1)), hi, state)
  PROVE  D16(f).val = Join(hi, lo) /\ Passed(n + 2, D16(f).st)
<1> DEFINE first == D8(f)
<1> DEFINE second == D8(first.st)
<1>0. n + 1 \in Int /\ (n + 1) + 1 = n + 2
  OBVIOUS
<1>1. first.val = lo /\ Passed(n + 1, first.st)
  BY NextByte
<1>2. D16(f).val = Join(second.val, first.val) /\ D16(f).st = second.st
  BY DEF D16, Value
<1> HIDE DEF first
<1>3. second.val = hi /\ Passed(n + 2, second.st)
  <2>1. second.val = hi /\ Passed((n + 1) + 1, second.st)
    BY <1>0, <1>1, NextByte
  <2> QED BY <1>0, <2>1
<1> QED
  BY <1>1, <1>2, <1>3

\* The opcode, and what is the same behind it.
LEMMA BehindOpcode ==
  ASSUME Alive(state), NEW f, Took(1, state, f)
  PROVE  /\ Passed(1, f) /\ Alive(f)
         /\ \A x \in Reg8 : Get(x, f) = Value(state.reg[x], f) /\ state.reg[x] \in Byte
         /\ \A p \in Pairs : Get(p, f) = Value(Pair(p, state), f) /\ Pair(p, state) \in Word
<1>1. Passed(1, f) /\ f.reg = state.reg
  BY DEF Took, Passed, Registers
<1>2. ASSUME NEW x \in Reg8 PROVE Get(x, f) = Value(state.reg[x], f) /\ state.reg[x] \in Byte
  BY <1>1, Members DEF Get, Reg8, Pairs, Pointers, Alive
<1>3. ASSUME NEW p \in Pairs
      PROVE  Get(p, f) = Value(Pair(p, state), f) /\ Pair(p, state) \in Word
  <2>1. Pair(p, f) = Pair(p, state)
    BY <1>1 DEF Pair
  <2>2. Get(p, f) = Value(Pair(p, f), f)
    BY DEF Get, Reg8, Pairs, Pointers
  <2> QED BY <2>1, <2>2, PairType DEF Alive
<1> QED
  BY <1>1, <1>2, <1>3 DEF Passed

\* LD r,r
LEMMA RunLoad ==
  ASSUME Alive(state), process, NEW b, Finds(state.pc, b, state), NEW x \in Reg8, NEW y \in Reg8,
         instructions[b] = Ins("Load", <<x, y>>, 4)
  PROVE  /\ Straight(1) /\ state'.flags = state.flags
         /\ state'.reg = Put(state.reg, x, state.reg[y])
<1> DEFINE f == Fetched.st
<1>1. Took(1, state, f) /\ state' = Charge(4, Load(x, y, f))
  BY Dispatch DEF Ins
<1> HIDE DEF f
<1>2. Passed(1, f) /\ Get(y, f) = Value(state.reg[y], f) /\ state.reg[y] \in Byte
  BY <1>1, BehindOpcode
<1>3. state.reg[y] \in Int /\ uint8(state.reg[y]) = state.reg[y]
  BY <1>2, ByteFits
<1>4. SetFlags(f.flags, f) = f /\ f.flags \in SUBSET FlagNames /\ f.flags = state.flags
  BY <1>2, SameFlags DEF Passed
<1>5. state' = Charge(4, Set(x, state.reg[y], SetFlags(f.flags, f)))
  BY <1>1, <1>2, <1>4 DEF Load, Value
<1>6. 1 \in Int /\ 4 \in Int
  OBVIOUS
<1> QED
  BY <1>2, <1>3, <1>4, <1>5, <1>6, EndsInRegister

\* LD r,d8
LEMMA RunLoadByte ==
  ASSUME Alive(state), process, NEW b, Finds(state.pc, b, state), NEW x \in Reg8,
         NEW v \in Byte, Finds(uint16(state.pc + 1), v, state),
         instructions[b] = Ins("Load", <<x, "D8">>, 8)
  PROVE  Straight(2) /\ state'.flags = state.flags /\ state'.reg = Put(state.reg, x, v)
<1> DEFINE f == Fetched.st
<1> DEFINE g == D8(f)
<1>1. Took(1, state, f) /\ state' = Charge(8, Load(x, "D8", f))
  BY Dispatch DEF Ins
<1>2. Get("D8", f) = g
  BY DEF Get, Reg8, Pairs, Pointers
<1>3. state' = Charge(8, Set(x, g.val, g.st))
  BY <1>1, <1>2 DEF Load
<1> HIDE DEF f
<1>4. Passed(1, f) /\ 1 \in Int /\ 1 + 1 = 2 /\ 8 \in Int
  BY <1>1, BehindOpcode
<1>5. g.val = v /\ Passed(2, g.st)
  BY <1>4, NextByte
<1> HIDE DEF g
<1>6. v \in Int /\ uint8(v) = v
  BY ByteFits
<1>7. SetFlags(g.st.flags, g.st) = g.st /\ g.st.flags \in SUBSET FlagNames
      /\ g.st.flags = state.flags
  BY <1>5, SameFlags DEF Passed
<1>8. state' = Charge(8, Set(x, v, SetFlags(g.st.flags, g.st)))
  BY <1>3, <1>5, <1>7
<1> QED
  BY <1>4, <1>5, <1>6, <1>7, <1>8, EndsInRegister

\* LD rr,d16
LEMMA RunLoadWord ==
  ASSUME Alive(state), process, NEW b, Finds(state.pc, b, state), NEW p \in Pairs,
         NEW lo \in Byte, Finds(uint16(state.pc + 1), lo, state),
         NEW hi \in Byte, Finds(uint16(state.pc + 2), hi, state),
         instructions[b] = Ins("Load", <<p, "D16">>, 12)
  PROVE  /\ Straight(3) /\ state'.flags = state.flags
         /\ state'.reg = PutWord(state.reg, p, Join(hi, lo))
<1> DEFINE f == Fetched.st
<1> DEFINE g == D16(f)
<1> DEFINE w == Join(hi, lo)
<1>1. Took(1, state, f) /\ state' = Charge(12, Load(p, "D16", f))
  BY Dispatch DEF Ins
<1>2. Get("D16", f) = g
  BY DEF Get, Reg8, Pairs, Pointers
<1>3. state' = Charge(12, Set(p, g.val, g.st))
  BY <1>1, <1>2 DEF Load
<1> HIDE DEF f
<1>4. Passed(1, f) /\ 1 \in Int /\ 1 + 1 = 2 /\ 1 + 2 = 3 /\ 12 \in Int
  BY <1>1, BehindOpcode
<1>5. g.val = w /\ Passed(3, g.st)
  BY <1>4, NextWord
<1>6. w \in Int /\ uint16(w) = w
  BY JoinBytes, WordIsInt, Conversions
<1> HIDE DEF g, w
<1>7. SetFlags(g.st.flags, g.st) = g.st /\ g.st.flags \in SUBSET FlagNames
      /\ g.st.flags = state.flags
  BY <1>5, SameFlags DEF Passed
<1>8. state' = Charge(12, Set(p, w, SetFlags(g.st.flags, g.st)))
  BY <1>3, <1>5, <1>7
<1>9. Straight(3) /\ state'.flags = state.flags /\ state'.reg = PutWord(state.reg, p, w)
  BY <1>4, <1>5, <1>6, <1>7, <1>8, EndsInPair
<1> QED
  BY <1>9 DEF w

\* INC rr
LEMMA RunIncPair ==
  ASSUME Alive(state), process, NEW b, Finds(state.pc, b, state), NEW p \in Pairs,
         instructions[b] = Ins("Inc", <<p>>, 8)
  PROVE  Straight(1) /\ state'.reg = PutWord(state.reg, p, uint16(Pair(p, state) + 1))
<1> DEFINE f == Fetched.st
<1> DEFINE w == Pair(p, state)
<1> DEFINE up == AluInc(w, f.flags)
<1>1. Took(1, state, f) /\ state' = Charge(8, Inc(p, f))
  BY Dispatch DEF Ins
<1> HIDE DEF f
<1>2. Passed(1, f) /\ Get(p, f) = Value(w, f) /\ w \in Word /\ f.flags \subseteq FlagNames
  BY <1>1, BehindOpcode, Members DEF Passed, Alive
<1> HIDE DEF w
<1>3. up.result = w + 1 /\ w + 1 \in Int /\ up.flags \in SUBSET FlagNames
  BY <1>2, AluIncType, WordSteps DEF AluInc
<1>4. state' = Charge(8, Set(p, w + 1, SetFlags(up.flags, f)))
  BY <1>1, <1>2, <1>3 DEF Inc, Value
<1> HIDE DEF up
<1>5. 1 \in Int /\ 8 \in Int
  OBVIOUS
<1>6. Straight(1) /\ state'.reg = PutWord(state.reg, p, uint16(w + 1))
  BY <1>2, <1>3, <1>4, <1>5, EndsInPair
<1> QED
  BY <1>6 DEF w

\* ADD HL,rr
LEMMA RunAddPair ==
  ASSUME Alive(state), process, NEW b, Finds(state.pc, b, state), NEW p \in Pairs,
         instructions[b] = Ins("Add", <<"HL", p>>, 8)
  PROVE  /\ Straight(1)
         /\ state'.reg = PutWord(state.reg, "HL", uint16(Pair("HL", state) + Pair(p, state)))
<1> DEFINE f == Fetched.st
<1> DEFINE v == Pair(p, state)
<1> DEFINE w == Pair("HL", state)
<1> DEFINE sum == AluAdd(w, v)
<1>1. Took(1, state, f) /\ state' = Charge(8, Add("HL", p, f))
  BY Dispatch DEF Ins
<1> HIDE DEF f
<1>2. "HL" \in Pairs /\ 1 \in Int /\ 8 \in Int
  BY DEF Pairs
<1>3. Passed(1, f) /\ Get(p, f) = Value(v, f) /\ v \in Word /\ Get("HL", f) = Value(w, f) /\ w \in Word
  BY <1>1, <1>2, BehindOpcode
<1> HIDE DEF v, w
<1>4. sum.result = w + v /\ w + v \in Int /\ sum.flags \in SUBSET FlagNames
  BY <1>3, AluAddType, WordIsInt DEF AluAdd
<1>5. state' = Charge(8, Set("HL", w + v, SetFlags(sum.flags, f)))
  BY <1>1, <1>3, <1>4 DEF Add, Value
<1> HIDE DEF sum
<1>6. Straight(1) /\ state'.reg = PutWord(state.reg, "HL", uint16(w + v))
  BY <1>2, <1>3, <1>4, <1>5, EndsInPair
<1> QED
  BY <1>6 DEF v, w

\* A comparison, which stores nothing.
LEMMA EndsInFlags ==
  ASSUME NEW n, NEW f, Passed(n, f), NEW v \in Byte, NEW cycles \in Int,
         state' = Charge(cycles, SetFlags(AluCompare(state.reg["A"], v), f)), Alive(state)
  PROVE  /\ Straight(n) /\ state'.reg = state.reg
         /\ "Zero" \in state'.flags <=> state.reg["A"] = v
<1> DEFINE flags == AluCompare(state.reg["A"], v)
<1> DEFINE t == SetFlags(flags, f)
<1>1. flags \in SUBSET FlagNames /\ ("Zero" \in flags <=> state.reg["A"] = v)
  BY DEF AluCompare, FlagIf, FlagNames
<1> HIDE DEF flags
<1>2. /\ Alive(t) /\ Kept(f, t) /\ t.pc = f.pc /\ t.sp = f.sp /\ t.reg = f.reg /\ t.flags = flags
  BY <1>1, SetFlagsEffect, SetFlagsType DEF Alive, Passed
<1>3. state' = Charge(cycles, t)
  BY DEF flags
<1> HIDE DEF t
<1>4. Ended(t, state')
  BY <1>2, <1>3, Charged
<1> QED
  BY <1>1, <1>2, <1>4 DEF Passed, Straight, Ended, Kept

\* CP r
LEMMA RunCompare ==
  ASSUME Alive(state), process, NEW b, Finds(state.pc, b, state), NEW x \in Reg8,
         instructions[b] = Ins("Compare", <<x>>, 4)
  PROVE  /\ Straight(1) /\ state'.reg = state.reg
         /\ "Zero" \in state'.flags <=> state.reg["A"] = state.reg[x]
<1> DEFINE f == Fetched.st
<1>1. Took(1, state, f) /\ state' = Charge(4, Compare(x, f))
  BY Dispatch DEF Ins
<1> HIDE DEF f
<1>2. Passed(1, f) /\ Get(x, f) = Value(state.reg[x], f) /\ state.reg[x] \in Byte
      /\ f.reg["A"] = state.reg["A"]
  BY <1>1, BehindOpcode DEF Passed
<1>3. state' = Charge(4, SetFlags(AluCompare(state.reg["A"], state.reg[x]), f)) /\ 4 \in Int
  BY <1>1, <1>2 DEF Compare, Value
<1> QED
  BY <1>2, <1>3, EndsInFlags

\* CP d8
LEMMA RunCompareByte ==
  ASSUME Alive(state), process, NEW b, Finds(state.pc, b, state),
         NEW v \in Byte, Finds(uint16(state.pc + 1), v, state),
         instructions[b] = Ins("Compare", <<"D8">>, 8)
  PROVE  /\ Straight(2) /\ state'.reg = state.reg
         /\ "Zero" \in state'.flags <=> state.reg["A"] = v
<1> DEFINE f == Fetched.st
<1> DEFINE g == D8(f)
<1>1. Took(1, state, f) /\ state' = Charge(8, Compare("D8", f))
  BY Dispatch DEF Ins
<1>2. Get("D8", f) = g
  BY DEF Get, Reg8, Pairs, Pointers
<1> HIDE DEF f
<1>3. Passed(1, f) /\ 1 \in Int /\ 1 + 1 = 2 /\ 8 \in Int
  BY <1>1, BehindOpcode
<1>4. g.val = v /\ Passed(2, g.st)
  BY <1>3, NextByte
<1>5. g.st.reg["A"] = state.reg["A"]
  BY <1>4 DEF Passed
<1>6. state' = Charge(8, SetFlags(AluCompare(state.reg["A"], v), g.st))
  BY <1>1, <1>2, <1>4, <1>5 DEF Compare
<1> QED
  BY <1>3, <1>4, <1>6, EndsInFlags

\* JR cc,d8
LEMMA RunJumpRelative ==
  ASSUME Alive(state), process, NEW b, Finds(state.pc, b, state), NEW c, c # "Always",
         NEW v \in Byte, Finds(uint16(state.pc + 1), v, state),
         instructions[b] = Ins("JumpRelative", <<c, "D8">>, 8)
  PROVE  /\ Alive(state') /\ Kept(state, state') /\ SameFile(state, state')
         /\ state'.sp = state.sp
         /\ is_true(c, state) => state'.pc = uint16(state.pc + (2 + int8(v)))
         /\ ~is_true(c, state) => state'.pc = uint16(state.pc + 2)
<1> DEFINE f == Fetched.st
<1> DEFINE g == D8(f)
<1> DEFINE far == Charge(4, g.st)
<1> DEFINE t == SetPc(g.st.pc + int8(v), far)
<1>1. Took(1, state, f) /\ state' = Charge(8, JumpRelative(c, "D8", f))
  BY Dispatch DEF Ins
<1>2. Get("D8", f) = g
  BY DEF Get, Reg8, Pairs, Pointers
<1> HIDE DEF f
<1>3. Passed(1, f) /\ 1 \in Int /\ 1 + 1 = 2 /\ 8 \in Int /\ 4 \in Int
  BY <1>1, BehindOpcode
<1>4. g.val = v /\ Passed(2, g.st)
  BY <1>3, NextByte
<1>5. JumpRelative(c, "D8", f) = IF is_true(c, g.st) THEN t ELSE g.st
  BY <1>2, <1>4 DEF JumpRelative
<1> HIDE DEF g
<1>6. /\ Alive(g.st) /\ Kept(state, g.st) /\ SameFile(state, g.st) /\ g.st.sp = state.sp
      /\ g.st.pc = uint16(state.pc + 2) /\ is_true(c, g.st) = is_true(c, state)
  BY <1>4, ConditionFlags DEF Passed, SameFile
<1>7. int8(v) \in Int /\ g.st.pc + int8(v) \in Int
      /\ uint16(g.st.pc + int8(v)) = uint16(state.pc + (2 + int8(v)))
  <2> DEFINE m == state.pc + 2
  <2> DEFINE n == int8(v)
  <2>1. n \in Int /\ m \in Int /\ m + n = state.pc + (2 + n) /\ g.st.pc \in Int
    <3>1. n \in Int
      BY DEF int8, Byte, MaxByte
    <3>2. state.pc \in Int /\ g.st.pc \in Int
      BY <1>6, Members, WordSteps DEF Alive
    <3> HIDE DEF n
    <3> QED BY <3>1, <3>2
  <2>2. g.st.pc = uint16(m)
    BY <1>6
  <2> HIDE DEF m, n
  <2>3. uint16(uint16(m) + n) = uint16(m + n)
    BY <2>1, WrapsOnce
  <2> QED BY <2>1, <2>2, <2>3 DEF n
<1>8. Ended(g.st, far)
  BY <1>3, <1>6, Charged
<1> HIDE DEF far
<1>9. /\ Alive(t) /\ Kept(far, t) /\ SameFile(far, t) /\ t.sp = far.sp
      /\ t.pc = uint16(state.pc + (2 + int8(v)))
  <2>1. Kept(far, t) /\ Registers(far, t) /\ t.status = "running"
        /\ t.pc = uint16(g.st.pc + int8(v))
    BY <1>7, <1>8, SetPcEffect DEF Ended, Alive
  <2>2. StateOK(t)
    BY <1>7, <1>8, SetPcType DEF Ended, Alive
  <2> QED BY <1>7, <2>1, <2>2 DEF Alive, Registers, SameFile
<1> HIDE DEF t
<1>10. CASE is_true(c, state)
  <2>1. Ended(t, state')
    BY <1>1, <1>3, <1>5, <1>6, <1>9, <1>10, Charged
  <2> QED BY <1>6, <1>8, <1>9, <1>10, <2>1 DEF Ended, Kept, SameFile
<1>11. CASE ~is_true(c, state)
  <2>1. Ended(g.st, state')
    BY <1>1, <1>3, <1>5, <1>6, <1>11, Charged
  <2> QED BY <1>6, <1>11, <2>1 DEF Ended, Kept, SameFile
<1> QED
  BY <1>10, <1>11

-----------------------------------------------------------------------------
(* Code in the cartridge *)

\* The bytes of a program at its address.
LEMMA CodeFinds ==
  ASSUME NEW s, NEW code, NEW at \in Int, at > \h0100, CodeAt(s.rom, at, code),
         NEW i \in 1..Len(code), i \in Int, NEW a, a = at + i - 1, a < \h2000
  PROVE  Finds(a, code[i], s)
<1> DEFINE o == at - \h101 + i
<1>1. o \in 0..(RomSize - 1) /\ o + \h100 = a
  <2>1. RomSize \in Nat /\ RomSize > \h2000
    BY DEF RomSize
  <2>2. o \in Int /\ o >= 0 /\ o + \h100 = a
    OBVIOUS
  <2> HIDE DEF o
  <2> QED BY <2>1, <2>2
<1>2. o \in DOMAIN s.rom /\ s.rom[o] = code[i]
  BY DEF CodeAt
<1> HIDE DEF o
<1> QED
  BY <1>1, <1>2, RomReads

\* The code of a machine that has not changed its cartridge.
LEMMA SameCode ==
  ASSUME NEW s, NEW t, t.rom = s.rom, NEW at, NEW code, CodeAt(s.rom, at, code)
  PROVE  CodeAt(t.rom, at, code)
OBVIOUS

\* A machine that has stopped takes no step.
LEMMA RunningSteps ==
  ASSUME [Next]_state
  PROVE  UNCHANGED state \/ (process /\ state.status = "running")
BY DEF Next, Exited, process, Ready, FetchFails, Unimplemented, ExecNop, ExecAdd, ExecSub, ExecXor,
       ExecCompare, ExecInc, ExecDec, ExecLoad, ExecJumpRelative, ExecJump, ExecPush, ExecPop,
       ExecCall, ExecRet, ExecPrefixCB, ExecUnimplemented, CopyFails

-----------------------------------------------------------------------------
(* Multiplication *)

\* Its bytes, where the CPU reads them.
LEMMA MultiplyCodeAt ==
  ASSUME NEW s, CodeAt(s.rom, \h0260, MultiplyCode)
  PROVE  /\ Finds(\h0260, \h21, s) /\ Finds(\h0261, 0, s) /\ Finds(\h0262, 0, s)
         /\ Finds(\h0263, \h19, s) /\ Finds(\h0264, \h05, s) /\ Finds(\h0265, \h20, s)
         /\ Finds(\h0266, \hFC, s) /\ Finds(\h0267, \hFF, s)
<1>1. /\ MultiplyCode[1] = \h21 /\ MultiplyCode[2] = 0 /\ MultiplyCode[3] = 0
      /\ MultiplyCode[4] = \h19 /\ MultiplyCode[5] = \h05 /\ MultiplyCode[6] = \h20
      /\ MultiplyCode[7] = \hFC /\ MultiplyCode[8] = \hFF /\ Len(MultiplyCode) = 8
  BY DEF MultiplyCode
<1>2. ASSUME NEW i \in 1..8 PROVE Finds(\h025F + i, MultiplyCode[i], s)
  <2> DEFINE a == \h025F + i
  <2>1. /\ \h0260 \in Int /\ \h0260 > \h0100 /\ a = \h0260 + i - 1 /\ a < \h2000 /\ i \in Int
        /\ i \in 1..Len(MultiplyCode)
    BY <1>1
  <2> HIDE DEF a
  <2>2. Finds(a, MultiplyCode[i], s)
    BY <2>1, CodeFinds, SMTT(20)
  <2> QED BY <2>2 DEF a
<1>3. /\ Finds(\h025F + 1, MultiplyCode[1], s) /\ Finds(\h025F + 2, MultiplyCode[2], s)
      /\ Finds(\h025F + 3, MultiplyCode[3], s) /\ Finds(\h025F + 4, MultiplyCode[4], s)
      /\ Finds(\h025F + 5, MultiplyCode[5], s) /\ Finds(\h025F + 6, MultiplyCode[6], s)
      /\ Finds(\h025F + 7, MultiplyCode[7], s) /\ Finds(\h025F + 8, MultiplyCode[8], s)
  BY <1>2
<1> QED
  BY <1>1, <1>3

\* The rows of its opcodes.
LEMMA MultiplyRows ==
  /\ instructions[\h21] = Ins("Load", <<"HL", "D16">>, 12)
  /\ instructions[\h19] = Ins("Add", <<"HL", "DE">>, 8)
  /\ instructions[\h05] = Ins("Dec", <<"B">>, 4)
  /\ instructions[\h20] = Ins("JumpRelative", <<"NZ", "D8">>, 8)
  /\ instructions[\hFF] = Null
<1>1. /\ instructions[\h21] = Rows00(4, 1) /\ instructions[\h19] = Rows00(3, 1)
      /\ instructions[\h20] = Rows00(4, 0)
  BY DEF instructions
<1> QED
  BY <1>1, ProgramRows DEF Rows00, Operand16, Condition

\* The turns DEC still allows.
LEMMA CountTurns ==
  ASSUME NEW b \in Byte
  PROVE  /\ Turns(b) \in 1..256 /\ uint8(b - 1) = Turns(b) - 1 /\ uint8(b - 1) \in Byte
         /\ (b = 1 <=> uint8(b - 1) = 0) /\ (b # 0 => Turns(b) = b)
<1>1. b \in Int /\ 0 <= b /\ b < 256
  BY InByte
<1>2. uint8(b - 1) = Turns(b) - 1
  <2> DEFINE n == Turns(b) - 1
  <2>1. n \in 0..(256 - 1) /\ b - 1 \in {n, n - 256} /\ 256 \in Nat \ {0}
    BY <1>1 DEF Turns
  <2> HIDE DEF n
  <2>2. (b - 1) % 256 = n
    BY <2>1, Unwraps
  <2> QED BY <2>2 DEF n, uint8
<1>3. uint8(b - 1) \in Byte
  BY <1>1, Conversions
<1> QED
  BY <1>1, <1>2, <1>3 DEF Turns

\* One summand more.
LEMMA OneMoreTime ==
  ASSUME NEW k \in Int, NEW d \in Int
  PROVE  uint16(uint16(k * d) + d) = uint16((k + 1) * d)
<1> DEFINE m == k * d
<1>1. m \in Int /\ (k + 1) * d = m + d
  OBVIOUS
<1> HIDE DEF m
<1>2. uint16(uint16(m) + d) = uint16(m + d)
  BY <1>1, WrapsOnce
<1> QED
  BY <1>1, <1>2 DEF m

\* Its steps.
LEMMA MultiplySteps ==
  ASSUME Alive(state), MultiplyInv, process
  PROVE  MultiplyInv'
<1> DEFINE b == state.reg["B"]
<1> DEFINE n == Turns(state.reg["C"])
<1> DEFINE d == Pair("DE", state)
<1> DEFINE hl == Pair("HL", state)
<1> DEFINE k == n - Turns(b)
<1>1. /\ b \in Byte /\ state.reg["C"] \in Byte /\ hl \in Word /\ d \in Word /\ d \in Int
      /\ n \in 1..256 /\ Turns(b) \in 1..256 /\ uint8(b - 1) = Turns(b) - 1 /\ uint8(b - 1) \in Byte
      /\ (b = 1 <=> uint8(b - 1) = 0) /\ (b # 0 => Turns(b) = b) /\ k \in Int
  <2>1. b \in Byte /\ state.reg["C"] \in Byte
    BY Members DEF Alive, Reg8
  <2>2. hl \in Word /\ d \in Word /\ d \in Int
    BY PairType, WordIsInt DEF Alive, Pairs
  <2>3. n \in 1..256 /\ Turns(b) \in 1..256 /\ uint8(b - 1) = Turns(b) - 1 /\ uint8(b - 1) \in Byte
        /\ (b = 1 <=> uint8(b - 1) = 0) /\ (b # 0 => Turns(b) = b)
    BY <2>1, CountTurns
  <2> HIDE DEF b, n
  <2>4. k \in Int
    BY <2>3
  <2> QED BY <2>1, <2>2, <2>3, <2>4
<1>2. CodeAt(state.rom, \h0260, MultiplyCode)
  BY DEF MultiplyInv
<1>3. /\ Finds(\h0260, \h21, state) /\ Finds(\h0261, 0, state) /\ Finds(\h0262, 0, state)
      /\ Finds(\h0263, \h19, state) /\ Finds(\h0264, \h05, state) /\ Finds(\h0265, \h20, state)
      /\ Finds(\h0266, \hFC, state) /\ Finds(\h0267, \hFF, state)
  BY <1>2, MultiplyCodeAt
<1>4. \/ state.pc = \h0260 /\ b = state.reg["C"]
      \/ state.pc = \h0263 /\ Turns(b) <= n /\ hl = uint16(k * d)
      \/ state.pc = \h0264 /\ Turns(b) <= n /\ hl = uint16((k + 1) * d)
      \/ state.pc = \h0265 /\ b < n /\ hl = uint16((n - b) * d) /\ ("Zero" \in state.flags <=> b = 0)
      \/ state.pc = \h0267 /\ hl = uint16(n * d)
  BY DEF MultiplyInv, Running, Alive
<1>5. CASE state.pc = \h0260
  <2>1. uint16(state.pc + 1) = \h0261 /\ uint16(state.pc + 2) = \h0262 /\ uint16(state.pc + 3) = \h0263
        /\ 0 \in Byte /\ Join(0, 0) = 0 /\ 0 \in Word /\ "HL" \in Pairs
    BY <1>5 DEF uint16, Byte, MaxByte, Join, Word, MaxWord, Pairs
  <2>2. Straight(3) /\ state'.reg = PutWord(state.reg, "HL", Join(0, 0))
    BY <1>3, <1>5, <2>1, MultiplyRows, RunLoadWord
  <2>3. /\ Pair("HL", state') = 0
        /\ \A x \in Reg8 \ {High["HL"], Low["HL"]} : state'.reg[x] = state.reg[x]
    BY <2>1, <2>2, WordPut DEF Alive
  <2>4. state'.reg["B"] = b /\ state'.reg["C"] = state.reg["C"] /\ Pair("DE", state') = d
    BY <2>3 DEF Reg8, High, Low, Pair
  <2>5. 0 = uint16(0 * d) /\ n - n = 0 /\ b = state.reg["C"]
    BY <1>1, <1>4, <1>5 DEF uint16
  <2>6. CodeAt(state'.rom, \h0260, MultiplyCode) /\ state'.pc = \h0263
    BY <1>2, <1>5, <2>1, <2>2 DEF Straight, Kept
  <2> QED BY <1>1, <2>3, <2>4, <2>5, <2>6 DEF MultiplyInv
<1>6. CASE state.pc = \h0263
  <2>1. uint16(state.pc + 1) = \h0264 /\ "HL" \in Pairs /\ "DE" \in Pairs
    BY <1>6 DEF uint16, Pairs
  <2>2. Straight(1) /\ state'.reg = PutWord(state.reg, "HL", uint16(hl + d))
    BY <1>3, <1>6, <2>1, MultiplyRows, RunAddPair
  <2>3. Turns(b) <= n /\ hl = uint16(k * d)
    BY <1>4, <1>6
  <2>4. uint16(hl + d) = uint16((k + 1) * d) /\ uint16(hl + d) \in Word
    BY <1>1, <2>3, OneMoreTime, WordIsInt, Conversions
  <2>5. /\ Pair("HL", state') = uint16((k + 1) * d)
        /\ \A x \in Reg8 \ {High["HL"], Low["HL"]} : state'.reg[x] = state.reg[x]
    BY <2>1, <2>2, <2>4, WordPut DEF Alive
  <2>6. state'.reg["B"] = b /\ state'.reg["C"] = state.reg["C"] /\ Pair("DE", state') = d
    BY <2>5 DEF Reg8, High, Low, Pair
  <2>7. CodeAt(state'.rom, \h0260, MultiplyCode) /\ state'.pc = \h0264
    BY <1>2, <1>6, <2>1, <2>2 DEF Straight, Kept
  <2> QED BY <2>3, <2>5, <2>6, <2>7 DEF MultiplyInv
<1>7. CASE state.pc = \h0264
  <2>1. uint16(state.pc + 1) = \h0265 /\ "B" \in Reg8
    BY <1>7 DEF uint16, Reg8
  <2>2. /\ Alive(state') /\ Kept(state, state') /\ state'.pc = \h0265
        /\ state'.reg = Put(state.reg, "B", uint8(b - 1))
        /\ "Zero" \in state'.flags <=> b = 1
    BY <1>3, <1>7, <2>1, MultiplyRows, RunCount
  <2>3. /\ state'.reg["B"] = uint8(b - 1) /\ state'.reg["C"] = state.reg["C"]
        /\ Pair("DE", state') = d /\ Pair("HL", state') = hl
    BY <2>2, Members DEF Put, Alive, Reg8, Pair, High, Low
  <2>4. Turns(b) <= n /\ hl = uint16((k + 1) * d)
    BY <1>4, <1>7
  <2>5. uint8(b - 1) < n /\ n - uint8(b - 1) = k + 1
    <3> HIDE DEF b, n
    <3> QED BY <1>1, <2>4
  <2>6. CodeAt(state'.rom, \h0260, MultiplyCode)
    BY <1>2, <2>2 DEF Kept
  <2> HIDE DEF hl, d, n
  <2>7. /\ state'.reg["B"] < n /\ hl = uint16((n - state'.reg["B"]) * d)
        /\ "Zero" \in state'.flags <=> state'.reg["B"] = 0
    BY <1>1, <2>2, <2>3, <2>4, <2>5
  <2> QED BY <2>2, <2>3, <2>6, <2>7 DEF MultiplyInv, hl, d, n
<1>8. CASE state.pc = \h0265
  <2>1. uint16(state.pc + 1) = \h0266 /\ uint16(state.pc + 2) = \h0267 /\ int8(\hFC) = -4
        /\ uint16(state.pc + (2 + int8(\hFC))) = \h0263 /\ \hFC \in Byte
    BY <1>8 DEF uint16, int8, Byte, MaxByte
  <2>2. b < n /\ hl = uint16((n - b) * d) /\ ("Zero" \in state.flags <=> b = 0)
    BY <1>4, <1>8
  <2>3. is_true("NZ", state) <=> b # 0
    BY <2>2 DEF is_true
  <2>4. /\ Alive(state') /\ Kept(state, state') /\ SameFile(state, state')
        /\ b # 0 => state'.pc = \h0263
        /\ b = 0 => state'.pc = \h0267
    BY <1>3, <1>8, <2>1, <2>3, MultiplyRows, RunJumpRelative
  <2>5. CodeAt(state'.rom, \h0260, MultiplyCode) /\ state'.reg = state.reg
    BY <1>2, <2>4 DEF Kept, SameFile
  <2>6. Pair("DE", state') = d /\ Pair("HL", state') = hl
    BY <2>5 DEF Pair
  <2>7. CASE b # 0
    <3>1. Turns(b) <= n /\ hl = uint16(k * d) /\ state'.pc = \h0263
      <4> HIDE DEF b, n, hl, d
      <4>1. Turns(b) = b /\ b <= n
        BY <1>1, <2>2, <2>7, InByte
      <4> QED BY <2>2, <2>4, <2>7, <4>1
    <3> QED BY <2>5, <2>6, <3>1 DEF MultiplyInv
  <2>8. CASE b = 0
    <3>1. hl = uint16(n * d)
      <4> HIDE DEF n, hl, d
      <4>1. n - b = n
        BY <1>1, <2>8
      <4> QED BY <2>2, <4>1
    <3> QED BY <2>4, <2>5, <2>6, <2>8, <3>1 DEF MultiplyInv
  <2> QED BY <2>7, <2>8
<1>9. CASE state.pc = \h0267
  <2>1. state'.status = "panicked" /\ Kept(state, state')
    BY <1>3, <1>9, MultiplyRows, RunNull
  <2> QED BY <1>2, <2>1 DEF Kept, MultiplyInv, Running
<1> QED
  BY <1>4, <1>5, <1>6, <1>7, <1>8, <1>9

\* The product, at every turn of the loop and for every cartridge with the program, from
\* every count, 0 (256 turns) included.
THEOREM LoopMultiplies == Spec /\ MultiplyStarts => []MultiplyExact
<1>1. Init /\ MultiplyStarts => MultiplyInv
  BY DEF MultiplyStarts, Enters, MultiplyInv
<1>2. TypeOK /\ MultiplyInv /\ [Next]_state => MultiplyInv'
  <2> SUFFICES ASSUME TypeOK, MultiplyInv, [Next]_state PROVE MultiplyInv'
    OBVIOUS
  <2>1. CASE UNCHANGED state
    BY <2>1 DEF MultiplyInv, Running, Pair, CodeAt
  <2>2. CASE process /\ state.status = "running"
    BY <2>2, MultiplySteps DEF Alive, TypeOK
  <2> QED BY <2>1, <2>2, RunningSteps
<1>3. TypeOK /\ MultiplyInv => MultiplyExact
  <2> SUFFICES ASSUME TypeOK, MultiplyInv, AtPc(\h0263) \/ AtPc(\h0267)
               PROVE  Pair("HL", state) =
                        uint16((Turns(state.reg["C"])
                                  - (IF AtPc(\h0267) THEN 0 ELSE Turns(state.reg["B"])))
                                 * Pair("DE", state))
    BY DEF MultiplyExact
  <2>1. Turns(state.reg["C"]) \in Int
    <3>1. state.reg["C"] \in Byte
      BY Members DEF TypeOK, Reg8
    <3> QED BY <3>1, CountTurns
  <2>2. CASE AtPc(\h0267)
    <3>1. Pair("HL", state) = uint16(Turns(state.reg["C"]) * Pair("DE", state))
      BY <2>2 DEF AtPc, MultiplyInv
    <3> QED BY <2>1, <2>2, <3>1
  <2>3. CASE AtPc(\h0263)
    <3>1. Pair("HL", state) =
            uint16((Turns(state.reg["C"]) - Turns(state.reg["B"])) * Pair("DE", state))
      BY <2>3 DEF AtPc, MultiplyInv
    <3>2. ~AtPc(\h0267)
      BY <2>3 DEF AtPc
    <3> QED BY <3>1, <3>2
  <2> QED BY <2>2, <2>3
<1> QED
  BY <1>1, <1>2, <1>3, TypeCorrect, PTL DEF Spec

-----------------------------------------------------------------------------
(* Counting up *)

\* The code of the loop and the rows of its opcodes.
LEMMA CountUpCodeAt ==
  ASSUME NEW s, CodeAt(s.rom, \h0270, CountUpCode)
  PROVE  /\ Finds(\h0270, \h04, s) /\ Finds(\h0271, \h20, s) /\ Finds(\h0272, \hFD, s)
         /\ instructions[\h04] = Ins("Inc", <<"B">>, 4)
<1>1. /\ CountUpCode[1] = \h04 /\ CountUpCode[2] = \h20 /\ CountUpCode[3] = \hFD
      /\ Len(CountUpCode) = 3
  BY DEF CountUpCode
<1>2. ASSUME NEW i \in 1..3 PROVE Finds(\h026F + i, CountUpCode[i], s)
  <2> DEFINE a == \h026F + i
  <2>1. /\ \h0270 \in Int /\ \h0270 > \h0100 /\ a = \h0270 + i - 1 /\ a < \h2000 /\ i \in Int
        /\ i \in 1..Len(CountUpCode)
    BY <1>1
  <2> HIDE DEF a
  <2>2. Finds(a, CountUpCode[i], s)
    BY <2>1, CodeFinds, SMTT(20)
  <2> QED BY <2>2 DEF a
<1>3. /\ Finds(\h026F + 1, CountUpCode[1], s) /\ Finds(\h026F + 2, CountUpCode[2], s)
      /\ Finds(\h026F + 3, CountUpCode[3], s)
  BY <1>2
<1>4. instructions[\h04] = Rows00(0, 4)
  BY DEF instructions
<1>5. Rows00(0, 4) = Ins("Inc", <<"B">>, 4)
  BY DEF Rows00, Operand8, MemoryOr
<1> QED
  BY <1>1, <1>3, <1>4, <1>5

\* The two instructions of the loop.
LEMMA CountUpSteps ==
  ASSUME Alive(state), CountUpInv, process
  PROVE  CountUpInv'
<1>1. /\ Finds(\h0270, \h04, state) /\ Finds(\h0271, \h20, state) /\ Finds(\h0272, \hFD, state)
      /\ instructions[\h04] = Ins("Inc", <<"B">>, 4)
  BY CountUpCodeAt DEF CountUpInv
<1>2. ASSUME state'.rom = state.rom PROVE CodeAt(state'.rom, \h0270, CountUpCode)
  BY <1>2 DEF CountUpInv
<1>3. CASE state.pc = \h0270
  <2> DEFINE b == \h04
  <2> DEFINE x == "B"
  <2>1. /\ uint16(state.pc + 1) = \h0271 /\ Finds(state.pc, b, state) /\ x \in Reg8
        /\ instructions[b] = Ins("Inc", <<x>>, 4)
    BY <1>1, <1>3 DEF uint16, Reg8
  <2> HIDE DEF b, x
  <2>2. /\ Alive(state') /\ Kept(state, state') /\ state'.pc = uint16(state.pc + 1)
        /\ "Zero" \notin state'.flags
    BY <2>1, RunCount
  <2>3. state'.rom = state.rom
    BY <2>2 DEF Kept
  <2> QED BY <1>2, <2>1, <2>2, <2>3 DEF CountUpInv, AtPc, Running, Alive
<1>4. CASE state.pc = \h0271 /\ "Zero" \notin state.flags
  <2> DEFINE c == "NZ"
  <2> DEFINE o == \h20
  <2> DEFINE v == \hFD
  <2>1. /\ uint16(state.pc + 1) = \h0272 /\ v \in Byte /\ int8(v) = -3
        /\ uint16(state.pc + (2 + -3)) = \h0270 /\ is_true(c, state) /\ c # "Always"
    BY <1>4 DEF Byte, MaxByte, int8, uint16, is_true
  <2>2. /\ Finds(state.pc, o, state) /\ Finds(uint16(state.pc + 1), v, state)
        /\ instructions[o] = Ins("JumpRelative", <<c, "D8">>, 8)
    BY <1>1, <1>4, <2>1, MultiplyRows
  <2> HIDE DEF c, o, v
  <2>3. /\ Alive(state') /\ Kept(state, state')
        /\ state'.pc = uint16(state.pc + (2 + int8(v)))
    BY <2>1, <2>2, RunJumpRelative
  <2>4. state'.rom = state.rom
    BY <2>3 DEF Kept
  <2> QED BY <1>2, <2>1, <2>3, <2>4 DEF CountUpInv, AtPc, Running, Alive
<1> QED
  BY <1>3, <1>4 DEF CountUpInv, AtPc

\* A loop until INC makes a register zero never ends: Inc compares an int that cannot be 0.
THEOREM CountsForever == Spec /\ CountUpStarts => []Running
<1>1. Init /\ CountUpStarts => CountUpInv
  BY DEF Init, Loaded, CountUpStarts, Enters, CountUpInv, AtPc, Running
<1>2. TypeOK /\ CountUpInv /\ [Next]_state => CountUpInv'
  <2> SUFFICES ASSUME TypeOK, CountUpInv, [Next]_state PROVE CountUpInv'
    OBVIOUS
  <2>1. CASE UNCHANGED state
    BY <2>1 DEF CountUpInv, AtPc, Running, CodeAt
  <2>2. CASE process /\ state.status = "running"
    BY <2>2, CountUpSteps DEF Alive, TypeOK
  <2> QED BY <2>1, <2>2, RunningSteps
<1>3. CountUpInv => Running
  BY DEF CountUpInv, AtPc
<1> QED
  BY <1>1, <1>2, <1>3, TypeCorrect, PTL DEF Spec

-----------------------------------------------------------------------------
(* Flags around a saved pair *)

\* Its bytes, where the CPU reads them.
LEMMA SaveAFCodeAt ==
  ASSUME NEW s, CodeAt(s.rom, \h0280, SaveAFCode)
  PROVE  /\ Finds(\h0280, \hB8, s) /\ Finds(\h0281, \hF5, s) /\ Finds(\h0282, \hB9, s)
         /\ Finds(\h0283, \hF1, s) /\ Finds(\h0284, \h28, s) /\ Finds(\h0285, \h01, s)
         /\ Finds(\h0286, \hFF, s) /\ Finds(\h0287, \hFF, s)
<1>1. /\ SaveAFCode[1] = \hB8 /\ SaveAFCode[2] = \hF5 /\ SaveAFCode[3] = \hB9
      /\ SaveAFCode[4] = \hF1 /\ SaveAFCode[5] = \h28 /\ SaveAFCode[6] = \h01
      /\ SaveAFCode[7] = \hFF /\ SaveAFCode[8] = \hFF /\ Len(SaveAFCode) = 8
  BY DEF SaveAFCode
<1>2. ASSUME NEW i \in 1..8 PROVE Finds(\h027F + i, SaveAFCode[i], s)
  <2> DEFINE a == \h027F + i
  <2>1. /\ \h0280 \in Int /\ \h0280 > \h0100 /\ a = \h0280 + i - 1 /\ a < \h2000 /\ i \in Int
        /\ i \in 1..Len(SaveAFCode)
    BY <1>1
  <2> HIDE DEF a
  <2>2. Finds(a, SaveAFCode[i], s)
    BY <2>1, CodeFinds, SMTT(20)
  <2> QED BY <2>2 DEF a
<1>3. /\ Finds(\h027F + 1, SaveAFCode[1], s) /\ Finds(\h027F + 2, SaveAFCode[2], s)
      /\ Finds(\h027F + 3, SaveAFCode[3], s) /\ Finds(\h027F + 4, SaveAFCode[4], s)
      /\ Finds(\h027F + 5, SaveAFCode[5], s) /\ Finds(\h027F + 6, SaveAFCode[6], s)
      /\ Finds(\h027F + 7, SaveAFCode[7], s) /\ Finds(\h027F + 8, SaveAFCode[8], s)
  BY <1>2
<1> QED
  BY <1>1, <1>3

\* The rows of its opcodes.
LEMMA SaveAFRows ==
  /\ instructions[\hB8] = Ins("Compare", <<"B">>, 4)
  /\ instructions[\hB9] = Ins("Compare", <<"C">>, 4)
  /\ instructions[\hF5] = Ins("Push", <<"AF">>, 16)
  /\ instructions[\hF1] = Ins("Pop", <<"AF">>, 12)
  /\ instructions[\h28] = Ins("JumpRelative", <<"Z", "D8">>, 8)
  /\ instructions[\hFF] = Null
<1>1. /\ instructions[\hB8] = Rows10(7, 0) /\ instructions[\hB9] = Rows10(7, 1)
      /\ instructions[\hF5] = Rows11(6, 5) /\ instructions[\hF1] = Rows11(6, 1)
      /\ instructions[\h28] = Rows00(5, 0)
  BY DEF instructions
<1>2. Rows10(7, 0) = Ins("Compare", <<"B">>, 4) /\ Rows10(7, 1) = Ins("Compare", <<"C">>, 4)
  BY DEF Rows10, ArithmeticRow, Arithmetic, MemoryOr, Operand8
<1>3. /\ Rows11(6, 5) = Ins("Push", <<"AF">>, 16) /\ Rows11(6, 1) = Ins("Pop", <<"AF">>, 12)
      /\ Rows00(5, 0) = Ins("JumpRelative", <<"Z", "D8">>, 8)
  BY DEF Rows11, Rows00, StackPair, Condition
<1> QED
  BY <1>1, <1>2, <1>3, ProgramRows

\* Its steps.
LEMMA SaveAFSteps ==
  ASSUME Alive(state), SaveAFInv, process
  PROVE  SaveAFInv'
<1> DEFINE c == state.reg["C"]
<1>1. CodeAt(state.rom, \h0280, SaveAFCode)
  BY DEF SaveAFInv
<1>2. /\ Finds(\h0280, \hB8, state) /\ Finds(\h0281, \hF5, state) /\ Finds(\h0282, \hB9, state)
      /\ Finds(\h0283, \hF1, state) /\ Finds(\h0284, \h28, state) /\ Finds(\h0285, \h01, state)
      /\ Finds(\h0286, \hFF, state) /\ Finds(\h0287, \hFF, state)
  BY <1>1, SaveAFCodeAt
<1>3. /\ state.reg["A"] = 5 /\ state.reg["F"] = SaveAF
      /\ \/ state.pc = \h0280 /\ state.sp = Top(0)
         \/ state.pc = \h0281 /\ state.sp = Top(0)
         \/ state.pc = \h0282 /\ state.sp = Top(1) /\ WordAt(1, state) = Join(5, SaveAF)
         \/ /\ state.pc = \h0283 /\ state.sp = Top(1) /\ WordAt(1, state) = Join(5, SaveAF)
            /\ "Zero" \in state.flags <=> c = 5
         \/ state.pc = \h0284 /\ state.sp = Top(0) /\ ("Zero" \in state.flags <=> c = 5)
         \/ state.pc = \h0286
         \/ state.pc = \h0287
  BY DEF SaveAFInv, Running, Alive
<1>4. /\ "B" \in Reg8 /\ "C" \in Reg8 /\ "AF" \in Pairs /\ High["AF"] = "A" /\ Low["AF"] = "F"
      /\ Pair("AF", state) = Join(5, SaveAF)
  BY <1>3 DEF Reg8, Pairs, High, Low, Pair
<1>5. CASE state.pc = \h0280
  <2>1. uint16(state.pc + 1) = \h0281
    BY <1>5 DEF uint16
  <2>2. Straight(1) /\ state'.reg = state.reg
    BY <1>2, <1>4, <1>5, SaveAFRows, RunCompare
  <2>3. CodeAt(state'.rom, \h0280, SaveAFCode) /\ state'.pc = \h0281 /\ state'.sp = state.sp
    BY <1>1, <2>1, <2>2 DEF Straight, Kept
  <2> QED BY <1>3, <1>5, <2>2, <2>3 DEF SaveAFInv
<1>6. CASE state.pc = \h0281
  <2>1. uint16(state.pc + 1) = \h0282 /\ 0 \in 0..63 /\ state.sp = Top(0)
    BY <1>3, <1>6 DEF uint16
  <2>2. /\ Outside(state, state') /\ SameFile(state, state') /\ state'.pc = \h0282
        /\ Pushed(0, Join(5, SaveAF), state, state')
    BY <1>2, <1>4, <1>6, <2>1, SaveAFRows, RunPush
  <2>3. CodeAt(state'.rom, \h0280, SaveAFCode) /\ state'.reg = state.reg
    BY <1>1, <2>2 DEF Outside, SameFile
  <2>4. state'.sp = Top(1) /\ WordAt(1, state') = Join(5, SaveAF)
    BY <2>2 DEF Pushed
  <2> QED BY <1>3, <2>2, <2>3, <2>4 DEF SaveAFInv
<1>7. CASE state.pc = \h0282
  <2>1. uint16(state.pc + 1) = \h0283
    BY <1>7 DEF uint16
  <2>2. Straight(1) /\ state'.reg = state.reg /\ ("Zero" \in state'.flags <=> state.reg["A"] = c)
    BY <1>2, <1>4, <1>7, SaveAFRows, RunCompare
  <2>3. /\ CodeAt(state'.rom, \h0280, SaveAFCode) /\ state'.pc = \h0283 /\ state'.sp = state.sp
        /\ WordAt(1, state') = WordAt(1, state)
    BY <1>1, <2>1, <2>2, KeptBytes DEF Straight, Kept, WordAt
  <2> QED BY <1>3, <1>7, <2>2, <2>3 DEF SaveAFInv
<1>8. CASE state.pc = \h0283
  <2>1. /\ uint16(state.pc + 1) = \h0284 /\ 1 \in 1..63 /\ state.sp = Top(1) /\ 1 - 1 = 0
        /\ WordAt(1, state) = Join(5, SaveAF) /\ Hi(Join(5, SaveAF)) = 5
        /\ Lo(Join(5, SaveAF)) = SaveAF
    <3>1. 5 \in Byte /\ SaveAF \in Byte
      BY DEF Byte, MaxByte, SaveAF
    <3> QED BY <1>3, <1>8, <3>1, Halves DEF uint16
  <2>2. /\ Alive(state') /\ Kept(state, state') /\ state'.flags = state.flags
        /\ state'.pc = \h0284 /\ state'.sp = Top(0)
        /\ state'.reg = Put(Put(state.reg, "A", 5), "F", SaveAF)
    <3> DEFINE n == 1
    <3>1. n \in 1..63 /\ state.sp = Top(n)
      BY <2>1
    <3> HIDE DEF n
    <3>2. /\ Alive(state') /\ Kept(state, state') /\ state'.flags = state.flags
          /\ state'.pc = uint16(state.pc + 1) /\ state'.sp = Top(n - 1)
          /\ state'.reg = Put(Put(state.reg, High["AF"], Hi(WordAt(n, state))),
                              Low["AF"], Lo(WordAt(n, state)))
      BY <1>2, <1>4, <1>8, <3>1, SaveAFRows, RunPop
    <3> QED BY <1>4, <2>1, <3>2 DEF n
  <2>3. state'.reg["A"] = 5 /\ state'.reg["F"] = SaveAF /\ state'.reg["C"] = c
    BY <2>2, Members DEF Put, Reg8, Alive
  <2>4. CodeAt(state'.rom, \h0280, SaveAFCode)
    BY <1>1, <2>2 DEF Kept
  <2> QED BY <1>3, <1>8, <2>2, <2>3, <2>4 DEF SaveAFInv
<1>9. CASE state.pc = \h0284
  <2>1. uint16(state.pc + 1) = \h0285 /\ uint16(state.pc + 2) = \h0286 /\ int8(1) = 1
        /\ uint16(state.pc + (2 + int8(1))) = \h0287 /\ 1 \in Byte
    BY <1>9 DEF uint16, int8, Byte, MaxByte
  <2>2. is_true("Z", state) <=> c = 5
    BY <1>3, <1>9 DEF is_true
  <2>3. /\ Alive(state') /\ Kept(state, state') /\ SameFile(state, state') /\ state'.sp = state.sp
        /\ c = 5 => state'.pc = \h0287
        /\ c # 5 => state'.pc = \h0286
    BY <1>2, <1>9, <2>1, <2>2, SaveAFRows, RunJumpRelative
  <2>4. CodeAt(state'.rom, \h0280, SaveAFCode) /\ state'.reg = state.reg
    BY <1>1, <2>3 DEF Kept, SameFile
  <2> QED BY <1>3, <1>9, <2>3, <2>4 DEF SaveAFInv
<1>10. CASE state.pc \in {\h0286, \h0287}
  <2>1. state'.status = "panicked" /\ Kept(state, state')
    BY <1>2, <1>10, SaveAFRows, RunNull
  <2> QED BY <1>1, <2>1 DEF Kept, SaveAFInv, Running
<1> QED
  BY <1>3, <1>5, <1>6, <1>7, <1>8, <1>9, <1>10

\* The branch follows the second comparison, whatever B and C are and whatever flags
\* were set before.
THEOREM FlagsNotSaved == Spec /\ SaveAFStarts => []FlagsOutsideAF
<1>1. Init /\ SaveAFStarts => SaveAFInv
  BY DEF SaveAFStarts, Enters, SaveAFInv, Program
<1>2. TypeOK /\ SaveAFInv /\ [Next]_state => SaveAFInv'
  <2> SUFFICES ASSUME TypeOK, SaveAFInv, [Next]_state PROVE SaveAFInv'
    OBVIOUS
  <2>1. CASE UNCHANGED state
    BY <2>1 DEF SaveAFInv, Running, CodeAt, WordAt
  <2>2. CASE process /\ state.status = "running"
    BY <2>2, SaveAFSteps DEF Alive, TypeOK
  <2> QED BY <2>1, <2>2, RunningSteps
<1>3. SaveAFInv => FlagsOutsideAF
  BY DEF SaveAFInv, FlagsOutsideAF, AtPc, Top
<1> QED
  BY <1>1, <1>2, <1>3, TypeCorrect, PTL DEF Spec

-----------------------------------------------------------------------------
(* Bytes stored *)

\* The byte v is stored at a and nothing else in memory, and the registers stay.
PutByte(a, v, s, t) ==
  /\ Alive(t) /\ SameFile(s, t) /\ t.sp = s.sp
  /\ t.rom = s.rom /\ t.io = s.io /\ t.boot_rom_enabled = s.boot_rom_enabled
  /\ t.interrupt_enabled = IF a = InterruptEnable THEN v ELSE s.interrupt_enabled
  /\ \A b \in Word : ByteAt(b, t) = IF b = a THEN v ELSE ByteAt(b, s)
  /\ \A i \in DOMAIN t.video : i \in DOMAIN s.video \/ \h8000 + i = a
  /\ \A i \in DOMAIN t.internal_memory : i \in DOMAIN s.internal_memory \/ \hFF80 + i = a

\* Addresses where a store does only that,
Writable == VideoRam \cup (\hFF80..\hFFFF)

\* every byte that is stored there.
LEMMA StoresByte ==
  ASSUME NEW s, Alive(s), NEW a \in Writable, NEW v \in Byte,
         NEW t, t = set_memory_byte(a, v, s)
  PROVE  PutByte(a, v, s, t) /\ t.pc = s.pc
<1>1. a \in Int /\ ((\h8000 <= a /\ a < \hA000) \/ (\hFF80 <= a /\ a < \h10000))
  BY DEF Writable, VideoRam
<1>2. a \in Word
  BY <1>1, InWord
<1>3. a \in VideoRam \/ a \in HighRam \/ a = InterruptEnable
  BY <1>1 DEF Writable, VideoRam, HighRam, InterruptEnable
<1>4. a # DisableBootRom /\ a \notin IoPorts /\ ~InRam(a) /\ Held(a)
  BY <1>2, <1>3, Disjoint DEF Held
<1>5. /\ a \in VideoRam => /\ a # InterruptEnable /\ a \notin HighRam
      /\ a \in HighRam => /\ a # InterruptEnable /\ a \notin VideoRam
      /\ a = InterruptEnable => a \notin HighRam /\ a \notin VideoRam
  BY <1>2, Disjoint
<1>6. /\ a = InterruptEnable => t = [s EXCEPT !.interrupt_enabled = v]
      /\ a \in HighRam => t = [s EXCEPT !.internal_memory = Store(s.internal_memory, a - \hFF80, v)]
      /\ a \in VideoRam => t = [s EXCEPT !.video = Store(s.video, a - \h8000, v)]
  BY <1>4, <1>5 DEF set_memory_byte, Then, Alive
<1>7. StateOK(t)
  BY <1>2, SetMemoryByteType DEF Alive
<1>8. /\ t.status = "running" /\ SameFile(s, t) /\ t.sp = s.sp /\ t.pc = s.pc
      /\ t.rom = s.rom /\ t.io = s.io /\ t.boot_rom_enabled = s.boot_rom_enabled
      /\ t.interrupt_enabled = IF a = InterruptEnable THEN v ELSE s.interrupt_enabled
      /\ t.video = IF a \in VideoRam THEN Store(s.video, a - \h8000, v) ELSE s.video
      /\ t.internal_memory = IF a \in HighRam THEN Store(s.internal_memory, a - \hFF80, v)
                             ELSE s.internal_memory
  BY <1>3, <1>5, <1>6 DEF Alive, StateOK, SameFile
<1>9. ASSUME NEW b \in Word
      PROVE  ByteAt(b, t) = IF b = a THEN v ELSE ByteAt(b, s)
  <2>1. ByteAt(b, t) = IF Held(a) /\ SameCell(a, b) THEN v ELSE ByteAt(b, s)
    BY <1>2, <1>8, WriteThenRead DEF Alive
  <2>2. SameCell(a, b) <=> b = a
    BY <1>4 DEF SameCell
  <2> QED BY <1>4, <2>1, <2>2
<1>10. ASSUME NEW i \in DOMAIN t.video
       PROVE  i \in DOMAIN s.video \/ \h8000 + i = a
  <2>1. CASE a \in VideoRam
    <3> DEFINE o == a - \h8000
    <3>1. \h8000 + o = a
      BY <1>1
    <3>2. t.video = Store(s.video, o, v)
      BY <1>8, <2>1
    <3> HIDE DEF o
    <3>3. i \in DOMAIN s.video \/ i = o
      BY <1>10, <3>2 DEF Store
    <3> QED BY <3>1, <3>3
  <2>2. CASE a \notin VideoRam
    BY <1>8, <1>10, <2>2
  <2> QED BY <2>1, <2>2
<1>11. ASSUME NEW i \in DOMAIN t.internal_memory
       PROVE  i \in DOMAIN s.internal_memory \/ \hFF80 + i = a
  <2>1. CASE a \in HighRam
    <3> DEFINE o == a - \hFF80
    <3>1. \hFF80 + o = a
      BY <1>1
    <3>2. t.internal_memory = Store(s.internal_memory, o, v)
      BY <1>8, <2>1
    <3> HIDE DEF o
    <3>3. i \in DOMAIN s.internal_memory \/ i = o
      BY <1>11, <3>2 DEF Store
    <3> QED BY <3>1, <3>3
  <2>2. CASE a \notin HighRam
    BY <1>8, <1>11, <2>2
  <2> QED BY <2>1, <2>2
<1> QED
  BY <1>7, <1>8, <1>9, <1>10, <1>11 DEF PutByte, Alive

\* The areas as inequalities.
LEMMA Areas ==
  ASSUME NEW a \in Int
  PROVE  /\ a \in HighRam <=> \hFF80 <= a /\ a < \hFFFF
         /\ a \in IoPorts <=> \hFF00 <= a /\ a < \hFF4C
         /\ a \in SpriteTable <=> \hFE00 <= a /\ a < \hFEA0
         /\ a \in SwitchableRam <=> \hA000 <= a /\ a < \hC000
         /\ a \in VideoRam <=> \h8000 <= a /\ a < \hA000
         /\ a \in CartridgeRom <=> \h0100 <= a /\ a < \h8000
         /\ a \in BootArea <=> 0 <= a /\ a < \h0100
         /\ InRam(a) <=> \hC000 <= a /\ a < \hFE00
         /\ Unusable(a) <=> (\hFF4C <= a /\ a < \hFF80) \/ (\hFEA0 <= a /\ a < \hFF00)
         /\ (a = InterruptEnable <=> a = \hFFFF) /\ (a = DisableBootRom <=> a = \hFF50)
<1>1. a \in HighRam <=> \hFF80 <= a /\ a < \hFFFF
  BY DEF HighRam
<1>2. a \in IoPorts <=> \hFF00 <= a /\ a < \hFF4C
  BY DEF IoPorts
<1>3. a \in SpriteTable <=> \hFE00 <= a /\ a < \hFEA0
  BY DEF SpriteTable
<1>4. a \in SwitchableRam <=> \hA000 <= a /\ a < \hC000
  BY DEF SwitchableRam
<1>5. a \in VideoRam <=> \h8000 <= a /\ a < \hA000
  BY DEF VideoRam
<1>6. a \in CartridgeRom <=> \h0100 <= a /\ a < \h8000
  BY DEF CartridgeRom
<1>7. a \in BootArea <=> 0 <= a /\ a < \h0100
  BY DEF BootArea
<1>8. InRam(a) <=> \hC000 <= a /\ a < \hFE00
  BY DEF InRam, EchoRam, InternalRam
<1>9. Unusable(a) <=> (\hFF4C <= a /\ a < \hFF80) \/ (\hFEA0 <= a /\ a < \hFF00)
  BY DEF Unusable
<1> QED
  BY <1>1, <1>2, <1>3, <1>4, <1>5, <1>6, <1>7, <1>8, <1>9 DEF InterruptEnable, DisableBootRom

\* Any other address here stops the machine.
LEMMA StoreStops ==
  ASSUME NEW s, Alive(s), NEW a \in {0, \hA000}, NEW v \in Byte,
         NEW t, t = set_memory_byte(a, v, s)
  PROVE  t = panic(s)
<1>1. /\ a # InterruptEnable /\ a \notin HighRam /\ a # DisableBootRom
      /\ a \notin IoPorts /\ a \notin VideoRam /\ ~InRam(a)
  <2>1. a \in Int /\ (a = 0 \/ a = \hA000)
    OBVIOUS
  <2> QED BY <2>1, Areas
<1> QED
  BY <1>1 DEF set_memory_byte, Then, Alive

\* A byte is stored behind the instruction's n bytes.
LEMMA EndsInByte ==
  ASSUME NEW n, NEW f, Passed(n, f), NEW a, NEW v \in Byte, NEW t, PutByte(a, v, f, t),
         t.pc = f.pc, NEW cycles \in Int, state' = Charge(cycles, t)
  PROVE  PutByte(a, v, state, state') /\ state'.pc = uint16(state.pc + n)
<1>1. Ended(t, state')
  BY Charged DEF PutByte
<1>2. /\ \A b : ByteAt(b, f) = ByteAt(b, state)
      /\ \A b : ByteAt(b, state') = ByteAt(b, t)
  BY <1>1, KeptBytes DEF Passed, Ended
<1> QED
  BY <1>1, <1>2 DEF Passed, Ended, PutByte, SameFile, Kept

\* LD (a16),A
LEMMA RunStoreAt ==
  ASSUME Alive(state), process, NEW b, Finds(state.pc, b, state),
         NEW lo \in Byte, Finds(uint16(state.pc + 1), lo, state),
         NEW hi \in Byte, Finds(uint16(state.pc + 2), hi, state),
         instructions[b] = Ins("Load", <<"PtrD16", "A">>, 16), Join(hi, lo) \in Writable
  PROVE  /\ PutByte(Join(hi, lo), state.reg["A"], state, state')
         /\ state'.pc = uint16(state.pc + 3)
<1> DEFINE f == Fetched.st
<1> DEFINE g == D16(f)
<1> DEFINE w == Join(hi, lo)
<1> DEFINE v == state.reg["A"]
<1> DEFINE t == set_memory_byte(w, v, g.st)
<1>1. Took(1, state, f) /\ state' = Charge(16, Load("PtrD16", "A", f))
  BY Dispatch DEF Ins
<1> HIDE DEF f
<1>2. "A" \in Reg8 /\ 1 \in Int /\ 1 + 1 = 2 /\ 1 + 2 = 3 /\ 16 \in Int
  BY DEF Reg8
<1>3. Passed(1, f) /\ Get("A", f) = Value(v, f) /\ v \in Byte
  BY <1>1, <1>2, BehindOpcode
<1>4. g.val = w /\ Passed(3, g.st)
  BY <1>2, <1>3, NextWord
<1>5. Load("PtrD16", "A", f) = Set("PtrD16", v, f)
  BY <1>3 DEF Load, Value
<1>6. Set("PtrD16", v, f) = set_memory_byte(g.val, uint8(v), g.st)
  BY DEF Set, Reg8, Pairs, Pointers
<1>7. uint8(v) = v
  BY <1>3, ByteFits
<1>8. state' = Charge(16, t)
  BY <1>1, <1>4, <1>5, <1>6, <1>7
<1> HIDE DEF g, v, w
<1>9. PutByte(w, v, g.st, t) /\ t.pc = g.st.pc
  BY <1>3, <1>4, StoresByte DEF Passed, w
<1> HIDE DEF t
<1>10. PutByte(w, v, state, state') /\ state'.pc = uint16(state.pc + 3)
  BY <1>2, <1>3, <1>4, <1>8, <1>9, EndsInByte
<1> QED
  BY <1>10 DEF w, v

-----------------------------------------------------------------------------
(* A call across the end of the address space *)

\* Its bytes, where the CPU reads them.
LEMMA WrapCodeAt ==
  ASSUME NEW s, CodeAt(s.rom, \h0290, WrapCode)
  PROVE  /\ Finds(\h0290, \h3E, s) /\ Finds(\h0291, \hCD, s) /\ Finds(\h0292, \hEA, s)
         /\ Finds(\h0293, \hFF, s) /\ Finds(\h0294, \hFF, s) /\ Finds(\h0295, \h21, s)
         /\ Finds(\h0296, \hFF, s) /\ Finds(\h0297, \hFF, s) /\ Finds(\h0298, \hE5, s)
         /\ Finds(\h0299, \hC9, s)
<1>1. /\ WrapCode[1] = \h3E /\ WrapCode[2] = \hCD /\ WrapCode[3] = \hEA
      /\ WrapCode[4] = \hFF /\ WrapCode[5] = \hFF /\ WrapCode[6] = \h21
      /\ WrapCode[7] = \hFF /\ WrapCode[8] = \hFF /\ WrapCode[9] = \hE5
      /\ WrapCode[10] = \hC9 /\ Len(WrapCode) = 10
  BY DEF WrapCode
<1>2. ASSUME NEW i \in 1..10 PROVE Finds(\h028F + i, WrapCode[i], s)
  <2> DEFINE a == \h028F + i
  <2>1. /\ \h0290 \in Int /\ \h0290 > \h0100 /\ a = \h0290 + i - 1 /\ a < \h2000 /\ i \in Int
        /\ i \in 1..Len(WrapCode)
    BY <1>1
  <2> HIDE DEF a
  <2>2. Finds(a, WrapCode[i], s)
    BY <2>1, CodeFinds, SMTT(20)
  <2> QED BY <2>2 DEF a
<1>3. /\ Finds(\h028F + 1, WrapCode[1], s) /\ Finds(\h028F + 2, WrapCode[2], s)
      /\ Finds(\h028F + 3, WrapCode[3], s) /\ Finds(\h028F + 4, WrapCode[4], s)
      /\ Finds(\h028F + 5, WrapCode[5], s) /\ Finds(\h028F + 6, WrapCode[6], s)
      /\ Finds(\h028F + 7, WrapCode[7], s) /\ Finds(\h028F + 8, WrapCode[8], s)
      /\ Finds(\h028F + 9, WrapCode[9], s) /\ Finds(\h028F + 10, WrapCode[10], s)
  BY <1>2
<1> QED
  BY <1>1, <1>3

\* The rows of its opcodes.
LEMMA WrapRows ==
  /\ instructions[\h3E] = Ins("Load", <<"A", "D8">>, 8)
  /\ instructions[\hEA] = Ins("Load", <<"PtrD16", "A">>, 16)
  /\ instructions[\h21] = Ins("Load", <<"HL", "D16">>, 12)
  /\ instructions[\hE5] = Ins("Push", <<"HL">>, 16)
  /\ instructions[\hC9] = Ins("Ret", <<"Always">>, 4)
  /\ instructions[\hCD] = Ins("Call", <<"Always", "D16">>, 12)
<1>1. /\ instructions[\h3E] = Rows00(7, 6) /\ instructions[\hEA] = Rows11(5, 2)
      /\ instructions[\hE5] = Rows11(4, 5)
  BY DEF instructions
<1>2. /\ Rows00(7, 6) = Ins("Load", <<"A", "D8">>, 8)
      /\ Rows11(5, 2) = Ins("Load", <<"PtrD16", "A">>, 16)
      /\ Rows11(4, 5) = Ins("Push", <<"HL">>, 16)
  BY DEF Rows00, Rows11, Operand8, MemoryOr, StackPair
<1> QED
  BY <1>1, <1>2, ProgramRows, MultiplyRows

\* The opcode in the interrupt register and its operand in the boot ROM.
LEMMA WrapReads ==
  ASSUME NEW s, s.boot_rom_enabled, s.interrupt_enabled = \hCD
  PROVE  Finds(\hFFFF, \hCD, s) /\ Finds(0, BootRom[0], s) /\ Finds(1, BootRom[1], s)
<1>1. Finds(\hFFFF, \hCD, s)
  <2> DEFINE a == InterruptEnable
  <2>1. a \in Int /\ a = \hFFFF
    BY DEF InterruptEnable
  <2> HIDE DEF a
  <2>2. /\ ~InRam(a) /\ ~Unusable(a) /\ a \notin SpriteTable /\ a \notin SwitchableRam
        /\ a \notin BootArea /\ a \notin HighRam /\ a \notin IoPorts /\ a \notin VideoRam
        /\ a \notin CartridgeRom
    BY <2>1, Areas
  <2>3. ByteAt(a, s) = \hCD
    <3>1. a = InterruptEnable
      BY DEF a
    <3> QED BY <2>2, <3>1 DEF ByteAt
  <2>4. ReadStatus(a, s) = "running"
    BY <2>2 DEF ReadStatus
  <2> QED BY <2>1, <2>3, <2>4 DEF Finds
<1>2. ASSUME NEW a \in {0, 1} PROVE Finds(a, BootRom[a], s)
  <2>1. /\ a # InterruptEnable /\ a \notin HighRam /\ a \notin IoPorts /\ ~InRam(a)
        /\ a \notin VideoRam /\ a \notin CartridgeRom /\ a \in BootArea
        /\ ~Unusable(a) /\ a \notin SpriteTable /\ a \notin SwitchableRam
    <3>1. a \in Int /\ 0 <= a /\ a < 2
      BY <1>2
    <3> QED BY <3>1, Areas
  <2>2. ByteAt(a, s) = BootRom[a]
    BY <2>1 DEF ByteAt
  <2>3. ReadStatus(a, s) = "running"
    BY <2>1 DEF ReadStatus
  <2> QED BY <2>2, <2>3 DEF Finds
<1> QED
  BY <1>1, <1>2

\* An opcode that cannot be read.
LEMMA RunUnreadable ==
  ASSUME Alive(state), process, state.pc \in SpriteTable
  PROVE  /\ StateOK(state') /\ state'.status = "panicked" /\ Kept(state, state')
         /\ state'.sp = state.sp /\ state'.pc = uint16(state.pc + 1)
<1> DEFINE f == Fetched.st
<1>1. f = Fetch(state).st /\ f.status = "panicked"
  <2> DEFINE moved == SetPc(state.pc + 1, state)
  <2>1. f = Fetch(state).st /\ f = Then(moved, [moved EXCEPT !.status = ReadStatus(state.pc, moved)])
    BY DEF Fetched, Fetch, get_memory_byte
  <2>2. StateOK(moved) /\ moved.status = "running"
    <3>1. state.pc + 1 \in Int
      BY Members, WordSteps DEF Alive
    <3> QED BY <3>1, SetPcEffect, SetPcType DEF Alive
  <2>3. ReadStatus(state.pc, moved) = "panicked"
    <3>1. state.pc \in Int
      BY DEF SpriteTable
    <3>2. ~InRam(state.pc) /\ state.pc \notin CartridgeRom
      BY <3>1, Areas
    <3> QED BY <3>2 DEF ReadStatus
  <2> HIDE DEF moved
  <2> QED BY <2>1, <2>2, <2>3 DEF Then, StateOK
<1>2. state' = f
  BY <1>1 DEF process, FetchFails, Ready, Unimplemented, ExecNop, ExecAdd, ExecSub, ExecXor,
       ExecCompare, ExecInc, ExecDec, ExecLoad, ExecJumpRelative, ExecJump, ExecPush, ExecPop,
       ExecCall, ExecRet, ExecPrefixCB, ExecUnimplemented, CopyFails
<1>3. Kept(state, f) /\ StateOK(f) /\ f.sp = state.sp /\ f.pc = uint16(state.pc + 1)
  <2> DEFINE moved == SetPc(state.pc + 1, state)
  <2>1. f = Then(moved, [moved EXCEPT !.status = ReadStatus(state.pc, moved)])
    BY DEF Fetched, Fetch, get_memory_byte
  <2>2. /\ StateOK(moved) /\ Kept(state, moved) /\ moved.sp = state.sp
        /\ moved.pc = uint16(state.pc + 1)
    <3>1. state.pc + 1 \in Int
      BY Members, WordSteps DEF Alive
    <3> QED BY <3>1, SetPcEffect, SetPcType DEF Alive, Registers
  <2>3. StateOK(f)
    BY FetchType DEF Fetched, Alive
  <2> HIDE DEF moved
  <2> QED BY <2>1, <2>2, <2>3 DEF Then, StateOK, Kept
<1> QED
  BY <1>1, <1>2, <1>3

\* Its steps.
LEMMA WrapSteps ==
  ASSUME Entry \in SpriteTable, Alive(state), WrapInv, process, ~CopyFails
  PROVE  WrapInv'
<1>1. CodeAt(state.rom, \h0290, WrapCode) /\ state.boot_rom_enabled
  BY DEF WrapInv
<1>2. /\ Finds(\h0290, \h3E, state) /\ Finds(\h0291, \hCD, state) /\ Finds(\h0292, \hEA, state)
      /\ Finds(\h0293, \hFF, state) /\ Finds(\h0294, \hFF, state) /\ Finds(\h0295, \h21, state)
      /\ Finds(\h0296, \hFF, state) /\ Finds(\h0297, \hFF, state) /\ Finds(\h0298, \hE5, state)
      /\ Finds(\h0299, \hC9, state)
  BY <1>1, WrapCodeAt
<1>3. \/ state.pc = \h0290 /\ state.sp = Top(0)
      \/ state.pc = \h0292 /\ state.sp = Top(0) /\ state.reg["A"] = \hCD
      \/ state.pc = \h0295 /\ state.interrupt_enabled = \hCD /\ state.sp = Top(0)
      \/ /\ state.pc = \h0298 /\ state.interrupt_enabled = \hCD /\ state.sp = Top(0)
         /\ Pair("HL", state) = \hFFFF
      \/ /\ state.pc = \h0299 /\ state.interrupt_enabled = \hCD /\ state.sp = Top(1)
         /\ WordAt(1, state) = \hFFFF
      \/ state.pc = \hFFFF /\ state.interrupt_enabled = \hCD /\ state.sp = Top(0)
      \/ state.pc = Entry /\ state.sp = Top(1) /\ WordAt(1, state) = \h0002
  BY DEF WrapInv, Running, Alive
<1>4. /\ \hCD \in Byte /\ \hFF \in Byte /\ \hFFFF \in Word /\ Join(\hFF, \hFF) = \hFFFF
      /\ "A" \in Reg8 /\ "HL" \in Pairs /\ 0 \in 0..62 /\ 0 \in 0..63
      /\ Entry \notin {\h0290, \h0292, \h0295, \h0298, \h0299, \hFFFF}
  <2>1. \A a \in SpriteTable : a \notin {\h0290, \h0292, \h0295, \h0298, \h0299, \hFFFF}
    BY DEF SpriteTable
  <2> QED BY <2>1 DEF Byte, MaxByte, Word, MaxWord, Join, Reg8, Pairs
<1>5. CASE state.pc = \h0290
  <2>1. uint16(state.pc + 1) = \h0291 /\ uint16(state.pc + 2) = \h0292 /\ state.sp = Top(0)
    BY <1>3, <1>4, <1>5 DEF uint16
  <2>2. Straight(2) /\ state'.reg = Put(state.reg, "A", \hCD)
    BY <1>2, <1>4, <1>5, <2>1, WrapRows, RunLoadByte
  <2>3. state'.reg["A"] = \hCD
    BY <1>4, <2>2, Members DEF Put, Alive
  <2>4. /\ CodeAt(state'.rom, \h0290, WrapCode) /\ state'.boot_rom_enabled
        /\ state'.pc = \h0292 /\ state'.sp = state.sp /\ state'.status = "running"
    BY <1>1, <2>1, <2>2 DEF Straight, Kept, Alive
  <2> QED BY <2>1, <2>3, <2>4 DEF WrapInv, Running
<1>6. CASE state.pc = \h0292
  <2>1. /\ uint16(state.pc + 1) = \h0293 /\ uint16(state.pc + 2) = \h0294
        /\ uint16(state.pc + 3) = \h0295 /\ state.sp = Top(0) /\ state.reg["A"] = \hCD
        /\ \hFFFF \in Writable /\ InterruptEnable = \hFFFF
    BY <1>3, <1>4, <1>6 DEF uint16, Writable, InterruptEnable
  <2>2. PutByte(\hFFFF, \hCD, state, state') /\ state'.pc = \h0295
    BY <1>2, <1>4, <1>6, <2>1, WrapRows, RunStoreAt
  <2>3. /\ CodeAt(state'.rom, \h0290, WrapCode) /\ state'.boot_rom_enabled
        /\ state'.sp = state.sp /\ state'.status = "running" /\ state'.interrupt_enabled = \hCD
    BY <1>1, <2>1, <2>2 DEF PutByte, Alive
  <2> QED BY <2>1, <2>2, <2>3 DEF WrapInv, Running
<1>7. CASE state.pc = \h0295
  <2>1. /\ uint16(state.pc + 1) = \h0296 /\ uint16(state.pc + 2) = \h0297
        /\ uint16(state.pc + 3) = \h0298 /\ state.sp = Top(0) /\ state.interrupt_enabled = \hCD
    BY <1>3, <1>4, <1>7 DEF uint16
  <2>2. Straight(3) /\ state'.reg = PutWord(state.reg, "HL", \hFFFF)
    BY <1>2, <1>4, <1>7, <2>1, WrapRows, RunLoadWord
  <2>3. Pair("HL", state') = \hFFFF
    BY <1>4, <2>2, WordPut DEF Alive
  <2>4. /\ CodeAt(state'.rom, \h0290, WrapCode) /\ state'.boot_rom_enabled
        /\ state'.pc = \h0298 /\ state'.sp = state.sp /\ state'.status = "running"
        /\ state'.interrupt_enabled = \hCD
    BY <1>1, <2>1, <2>2 DEF Straight, Kept, Alive
  <2> QED BY <2>1, <2>3, <2>4 DEF WrapInv, Running
<1>8. CASE state.pc = \h0298
  <2>1. /\ uint16(state.pc + 1) = \h0299 /\ state.sp = Top(0) /\ Pair("HL", state) = \hFFFF
        /\ state.interrupt_enabled = \hCD
    BY <1>3, <1>4, <1>8 DEF uint16
  <2>2. /\ Outside(state, state') /\ state'.pc = \h0299 /\ Alive(state')
        /\ Pushed(0, \hFFFF, state, state')
    BY <1>2, <1>4, <1>8, <2>1, WrapRows, RunPush
  <2>3. state'.sp = Top(1) /\ WordAt(1, state') = \hFFFF
    BY <2>2 DEF Pushed
  <2>4. /\ CodeAt(state'.rom, \h0290, WrapCode) /\ state'.boot_rom_enabled
        /\ state'.status = "running" /\ state'.interrupt_enabled = \hCD
    BY <1>1, <2>1, <2>2 DEF Outside, Alive
  <2> QED BY <2>2, <2>3, <2>4 DEF WrapInv, Running
<1>9. CASE state.pc = \h0299
  <2>1. /\ state.sp = Top(1) /\ WordAt(1, state) = \hFFFF /\ 1 \in 1..63 /\ 4 \in Int
        /\ state.interrupt_enabled = \hCD /\ is_true("Always", state)
    BY <1>3, <1>4, <1>9 DEF is_true
  <2>2. /\ Alive(state') /\ Kept(state, state') /\ state'.pc = \hFFFF /\ state'.sp = Top(0)
    <3> DEFINE n == 1
    <3>1. n \in 1..63 /\ state.sp = Top(n)
      BY <2>1
    <3> HIDE DEF n
    <3>2. /\ Alive(state') /\ Kept(state, state')
          /\ state'.pc = WordAt(n, state) /\ state'.sp = Top(n - 1)
      BY <1>2, <1>9, <2>1, <3>1, WrapRows, RunRet
    <3> QED BY <2>1, <3>2 DEF n
  <2>3. /\ CodeAt(state'.rom, \h0290, WrapCode) /\ state'.boot_rom_enabled
        /\ state'.status = "running" /\ state'.interrupt_enabled = \hCD
    BY <1>1, <2>1, <2>2 DEF Kept, Alive
  <2> QED BY <2>2, <2>3 DEF WrapInv, Running
<1>10. CASE state.pc = \hFFFF
  <2>1. /\ uint16(state.pc + 1) = 0 /\ uint16(state.pc + 2) = 1 /\ uint16(state.pc + 3) = 2
        /\ state.sp = Top(0) /\ state.interrupt_enabled = \hCD
    BY <1>3, <1>4, <1>10 DEF uint16
  <2>2. Finds(\hFFFF, \hCD, state) /\ Finds(0, BootRom[0], state) /\ Finds(1, BootRom[1], state)
    BY <1>1, <2>1, WrapReads
  <2>3. BootRom[0] \in Byte /\ BootRom[1] \in Byte
    BY BootRomAssumption
  <2>4. /\ Alive(state') /\ Outside(state, state') /\ state'.pc = Entry
        /\ Pushed(0, 2, state, state')
    BY <1>4, <1>10, <2>1, <2>2, <2>3, WrapRows, RunCall DEF Entry
  <2>5. state'.sp = Top(1) /\ WordAt(1, state') = 2
    BY <2>4 DEF Pushed
  <2>6. /\ CodeAt(state'.rom, \h0290, WrapCode) /\ state'.boot_rom_enabled
        /\ state'.status = "running" /\ state'.interrupt_enabled = \hCD
    BY <1>1, <2>1, <2>4 DEF Outside, Alive
  <2> QED BY <2>4, <2>5, <2>6 DEF WrapInv, Running
<1>11. CASE state.pc = Entry /\ state.sp = Top(1) /\ WordAt(1, state) = \h0002
  <2>1. /\ state'.status = "panicked" /\ Kept(state, state')
        /\ state'.sp = state.sp /\ state'.pc = uint16(Entry + 1)
    BY <1>11, RunUnreadable
  <2>2. /\ CodeAt(state'.rom, \h0290, WrapCode) /\ state'.boot_rom_enabled
    BY <1>1, <2>1 DEF Kept
  <2>3. WordAt(1, state') = WordAt(1, state)
    BY <2>1, KeptBytes DEF WordAt
  <2> QED BY <1>11, <2>1, <2>2, <2>3 DEF WrapInv, Running
<1> QED
  BY <1>3, <1>5, <1>6, <1>7, <1>8, <1>9, <1>10, <1>11

\* The call that straddles FFFF takes its operand from the boot ROM and returns behind
\* it, for every boot ROM whose first two bytes send it where nothing can be fetched
\* (the DMG one's, 31 FE, do).
THEOREM CallsWrap == ASSUME Entry \in SpriteTable PROVE Spec /\ WrapStarts => []CallAcrossWrap
<1>1. Init /\ WrapStarts => WrapInv
  BY DEF WrapStarts, Enters, WrapInv, Running, Init, Loaded
<1>2. TypeOK /\ WrapInv /\ [Next]_state => WrapInv'
  <2> SUFFICES ASSUME TypeOK, WrapInv, [Next]_state PROVE WrapInv'
    OBVIOUS
  <2>1. CASE UNCHANGED state
    BY <2>1 DEF WrapInv, Running, CodeAt, WordAt, Pair
  <2>2. CASE process /\ state.status = "running" /\ ~CopyFails
    BY <2>2, WrapSteps DEF Alive, TypeOK
  <2>3. CASE CopyFails
    <3>1. state'.status = "crashed" /\ Kept(state, state')
      BY <2>3, CopyFailsEffect
    <3> QED BY <3>1 DEF WrapInv, Running, Kept
  <2> QED BY <2>1, <2>2, <2>3, RunningSteps
<1>3. TypeOK /\ WrapInv => CallAcrossWrap
  <2> SUFFICES ASSUME TypeOK, WrapInv, state.status = "panicked"
               PROVE  /\ state.pc = uint16(Entry + 1) /\ state.sp = \hFFFC
                      /\ PopWord([state EXCEPT !.status = "running"]).val = \h0002
    BY DEF CallAcrossWrap, Entry
  <2> DEFINE s == [state EXCEPT !.status = "running"]
  <2>1. state.pc = uint16(Entry + 1) /\ state.sp = Top(1) /\ WordAt(1, state) = 2
    BY DEF WrapInv, Running
  <2>2. StateOK(s) /\ s.status = "running" /\ s.sp = state.sp /\ Kept(state, s)
    BY DEF TypeOK, StateOK, Statuses, Kept
  <2> HIDE DEF s
  <2>3. WordAt(1, s) = 2
    BY <2>1, <2>2, KeptBytes DEF WordAt
  <2>4. PopWord(s).val = WordAt(1, s)
    <3> DEFINE n == 1
    <3>1. n \in 1..63 /\ s.sp = Top(n)
      BY <2>1, <2>2
    <3> HIDE DEF n
    <3>2. PopWord(s).val = WordAt(n, s)
      BY <2>2, <3>1, PopTop DEF Alive
    <3> QED BY <3>2 DEF n
  <2> QED BY <2>1, <2>3, <2>4 DEF s, Top
<1> QED
  BY <1>1, <1>2, <1>3, TypeCorrect, PTL DEF Spec

-----------------------------------------------------------------------------
(* Loads through pointers *)

\* A byte of memory.
LEMMA ReadByte ==
  ASSUME NEW s, Alive(s), NEW a \in Word, NEW t, t = get_memory_byte(a, s).st
  PROVE  /\ StateOK(t) /\ Kept(s, t) /\ SameFile(s, t) /\ t.pc = s.pc /\ t.sp = s.sp
         /\ t.status = ReadStatus(a, s) /\ get_memory_byte(a, s).val = ByteAt(a, s)
<1>1. t = [s EXCEPT !.status = ReadStatus(a, s)] /\ get_memory_byte(a, s).val = ByteAt(a, s)
  BY DEF get_memory_byte, Then, Alive
<1>2. StateOK(t)
  BY GetMemoryByteType DEF Alive
<1> QED
  BY <1>1, <1>2 DEF Alive, StateOK, Kept, SameFile

\* LD A,(HL+)
LEMMA RunLoadIncr ==
  ASSUME Alive(state), process, NEW b, Finds(state.pc, b, state),
         instructions[b] = Ins("Load", <<"A", "PtrHLIncr">>, 8)
  PROVE  LET hl == Pair("HL", state)
         IN  /\ ReadStatus(hl, state) = "running" =>
                  /\ Straight(1)
                  /\ state'.reg = Put(PutWord(state.reg, "HL", uint16(hl + 1)), "A", ByteAt(hl, state))
             /\ ReadStatus(hl, state) # "running" =>
                  /\ StateOK(state') /\ state'.status # "running" /\ Kept(state, state')
                  /\ SameFile(state, state') /\ state'.sp = state.sp
                  /\ state'.pc = uint16(state.pc + 1)
<1> DEFINE f == Fetched.st
<1> DEFINE hl == Pair("HL", state)
<1> DEFINE r == get_memory_byte(hl, f).st
<1> DEFINE v == ByteAt(hl, state)
<1> DEFINE t == SetPair("HL", Pair("HL", r) + 1, r)
<1>1. Took(1, state, f) /\ state' = Charge(8, Load("A", "PtrHLIncr", f))
  BY Dispatch DEF Ins
<1> HIDE DEF f
<1>2. "HL" \in Pairs /\ "A" \in Reg8 /\ 8 \in Int
  BY DEF Pairs, Reg8
<1>3. Passed(1, f) /\ Alive(f) /\ hl \in Word
  BY <1>1, <1>2, BehindOpcode
<1>4. Pair("HL", f) = hl /\ ReadStatus(hl, f) = ReadStatus(hl, state) /\ ByteAt(hl, f) = v
  BY <1>3, KeptBytes DEF Passed, Pair, ReadStatus, Kept
<1>5. Get("PtrHLIncr", f) = Value(get_memory_byte(Pair("HL", f), f).val,
                                  SetPair("HL", Pair("HL", get_memory_byte(Pair("HL", f), f).st) + 1,
                                          get_memory_byte(Pair("HL", f), f).st))
  BY DEF Get, Reg8, Pairs, Pointers, Address, AfterAccess
<1>6. /\ StateOK(r) /\ Kept(f, r) /\ SameFile(f, r) /\ r.pc = f.pc /\ r.sp = f.sp
      /\ r.status = ReadStatus(hl, f) /\ get_memory_byte(hl, f).val = v
  BY <1>3, <1>4, ReadByte
<1>7. Load("A", "PtrHLIncr", f) = Set("A", v, t)
  BY <1>4, <1>5, <1>6 DEF Load, Value
<1> HIDE DEF r
<1>8. Pair("HL", r) = hl /\ v \in Byte /\ v \in Int /\ uint8(v) = v
      /\ hl + 1 \in Int /\ uint16(hl + 1) \in Word
  <2>1. Pair("HL", r) = hl
    BY <1>4, <1>6 DEF Pair, SameFile
  <2>2. v \in Byte
    BY <1>3, ByteAtByte DEF Alive
  <2> HIDE DEF hl, v
  <2> QED BY <1>3, <2>1, <2>2, ByteFits, WordSteps, Conversions
<1> HIDE DEF hl, v
<1>9. CASE r.status = "running"
  <2>1. t = Set("HL", uint16(hl + 1), r)
    <3>1. Set("HL", hl + 1, r) = Set("HL", uint16(hl + 1), r)
      BY <1>2, <1>8, PairWraps
    <3>2. Set("HL", hl + 1, r) = SetPair("HL", hl + 1, r)
      BY DEF Set, Reg8, Pairs, Pointers
    <3> QED BY <1>8, <3>1, <3>2
  <2>2. /\ Alive(t) /\ Kept(r, t) /\ t.pc = r.pc /\ t.sp = r.sp /\ t.flags = r.flags
        /\ t.reg = PutWord(r.reg, "HL", uint16(hl + 1))
    BY <1>2, <1>6, <1>8, <1>9, <2>1, PutPair DEF Alive, PutWord
  <2> HIDE DEF t
  <2> DEFINE u == Set("A", v, t)
  <2>3. /\ Alive(u) /\ Kept(t, u) /\ u.pc = t.pc /\ u.sp = t.sp /\ u.flags = t.flags
        /\ u.reg = Put(t.reg, "A", v)
    BY <1>2, <1>8, <2>2, PutRegister
  <2>4. state' = Charge(8, u)
    BY <1>1, <1>7
  <2> HIDE DEF u
  <2>5. Ended(u, state')
    BY <1>2, <2>3, <2>4, Charged
  <2>6. /\ Straight(1)
        /\ state'.reg = Put(PutWord(state.reg, "HL", uint16(hl + 1)), "A", v)
    BY <1>3, <1>6, <2>2, <2>3, <2>5 DEF Passed, Ended, Straight, Kept, SameFile
  <2> QED BY <1>4, <1>6, <1>9, <2>6 DEF hl, v
<1>10. CASE r.status # "running"
  <2>1. t = r /\ Set("A", v, r) = r /\ Charge(8, r) = r
    <3>1. Set("A", v, r) = Then(r, [r EXCEPT !.reg["A"] = uint8(v)])
      BY DEF Set, Reg8, Pairs, Pointers
    <3> QED BY <1>10, <3>1, StoppedStays
  <2>2. state' = r
    BY <1>1, <1>7, <2>1
  <2>3. /\ Kept(state, state') /\ SameFile(state, state') /\ state'.sp = state.sp
        /\ state'.pc = uint16(state.pc + 1)
    BY <1>3, <1>6, <2>2 DEF Passed, Kept, SameFile
  <2> QED BY <1>4, <1>6, <1>10, <2>2, <2>3 DEF hl
<1> QED
  BY <1>9, <1>10

\* LD A,(DE)
LEMMA RunLoadFrom ==
  ASSUME Alive(state), process, NEW b, Finds(state.pc, b, state),
         NEW v \in Byte, Finds(Pair("DE", state), v, state),
         instructions[b] = Ins("Load", <<"A", "PtrDE">>, 8)
  PROVE  Straight(1) /\ state'.reg = Put(state.reg, "A", v)
<1> DEFINE f == Fetched.st
<1> DEFINE de == Pair("DE", state)
<1> DEFINE r == get_memory_byte(de, f).st
<1>1. Took(1, state, f) /\ state' = Charge(8, Load("A", "PtrDE", f))
  BY Dispatch DEF Ins
<1> HIDE DEF f
<1>2. "DE" \in Pairs /\ "A" \in Reg8 /\ 8 \in Int
  BY DEF Pairs, Reg8
<1>3. Passed(1, f) /\ Alive(f) /\ de \in Word
  BY <1>1, <1>2, BehindOpcode
<1>4. Pair("DE", f) = de /\ ReadStatus(de, f) = "running" /\ ByteAt(de, f) = v
  BY <1>3, ReadsKept DEF Passed, Pair, Finds
<1>5. Get("PtrDE", f) = Value(get_memory_byte(Pair("DE", f), f).val, get_memory_byte(Pair("DE", f), f).st)
  BY DEF Get, Reg8, Pairs, Pointers, Address, AfterAccess
<1>6. /\ StateOK(r) /\ Kept(f, r) /\ SameFile(f, r) /\ r.pc = f.pc /\ r.sp = f.sp
      /\ r.status = "running" /\ get_memory_byte(de, f).val = v
  BY <1>3, <1>4, ReadByte
<1>7. state' = Charge(8, Set("A", v, r))
  BY <1>1, <1>4, <1>5, <1>6 DEF Load, Value
<1> HIDE DEF r, de
<1>8. Passed(1, r) /\ v \in Int /\ uint8(v) = v
  BY <1>3, <1>6, ByteFits DEF Passed, Kept, SameFile, Alive
<1>9. SetFlags(r.flags, r) = r /\ r.flags \in SUBSET FlagNames
  BY <1>8, SameFlags DEF Passed
<1>10. state' = Charge(8, Set("A", v, SetFlags(r.flags, r)))
  BY <1>7, <1>9
<1> QED
  BY <1>2, <1>8, <1>9, <1>10, EndsInRegister

\* The first address behind the video memory and the first in the ROM refuse a store.
LEMMA Refused == ASSUME NEW a \in {0, \hA000} PROVE ~(a \in Writable)
<1>1. CASE a = 0
  BY <1>1 DEF Writable, VideoRam
<1>2. CASE a = \hA000
  BY <1>2 DEF Writable, VideoRam
<1> QED
  BY <1>1, <1>2

\* LD (DE),A
LEMMA RunStoreTo ==
  ASSUME Alive(state), process, NEW b, Finds(state.pc, b, state),
         instructions[b] = Ins("Load", <<"PtrDE", "A">>, 8)
  PROVE  LET de == Pair("DE", state)
         IN  /\ de \in Writable =>
                  /\ PutByte(de, state.reg["A"], state, state')
                  /\ state'.pc = uint16(state.pc + 1)
             /\ de \in {0, \hA000} =>
                  /\ StateOK(state') /\ state'.status # "running" /\ Kept(state, state')
                  /\ SameFile(state, state') /\ state'.sp = state.sp
                  /\ state'.pc = uint16(state.pc + 1)
<1> DEFINE f == Fetched.st
<1> DEFINE de == Pair("DE", state)
<1> DEFINE v == state.reg["A"]
<1> DEFINE t == set_memory_byte(de, v, f)
<1>1. Took(1, state, f) /\ state' = Charge(8, Load("PtrDE", "A", f))
  BY Dispatch DEF Ins
<1> HIDE DEF f
<1>2. "DE" \in Pairs /\ "A" \in Reg8 /\ 8 \in Int
  BY DEF Pairs, Reg8
<1>3. Passed(1, f) /\ Alive(f) /\ Get("A", f) = Value(v, f) /\ v \in Byte
  BY <1>1, <1>2, BehindOpcode
<1>4. Pair("DE", f) = de /\ uint8(v) = v
  BY <1>3, ByteFits DEF Passed, Pair
<1>5. Set("PtrDE", v, f) = set_memory_byte(Pair("DE", f), uint8(v), f)
  BY DEF Set, Reg8, Pairs, Pointers, Address, AfterAccess
<1>6. state' = Charge(8, t)
  BY <1>1, <1>3, <1>4, <1>5 DEF Load, Value
<1> HIDE DEF de, v
<1>7. CASE de \in Writable
  <2>1. PutByte(de, v, f, t) /\ t.pc = f.pc
    BY <1>3, <1>7, StoresByte
  <2> HIDE DEF t
  <2>2. PutByte(de, v, state, state') /\ state'.pc = uint16(state.pc + 1)
    BY <1>2, <1>3, <1>6, <2>1, EndsInByte
  <2>3. ~(de \in {0, \hA000})
    BY <1>7, Refused
  <2> QED BY <2>2, <2>3 DEF de, v
<1>8. CASE de \in {0, \hA000}
  <2>1. t = panic(f)
    BY <1>3, <1>8, StoreStops
  <2>2. StateOK(t) /\ t.status = "panicked" /\ Kept(f, t) /\ SameFile(f, t) /\ t.sp = f.sp /\ t.pc = f.pc
    <3>1. StateOK(t) /\ Kept(f, t)
      BY <1>3, <2>1, PanicType, PanicEffect DEF Alive
    <3>2. SameFile(f, t) /\ t.status = "panicked" /\ t.sp = f.sp /\ t.pc = f.pc
      BY <1>3, <2>1 DEF panic, Alive, StateOK, SameFile
    <3> QED BY <3>1, <3>2
  <2> HIDE DEF t
  <2>3. state' = t
    BY <1>6, <2>2, StoppedStays
  <2>4. /\ StateOK(state') /\ state'.status # "running" /\ Kept(state, state')
        /\ SameFile(state, state') /\ state'.sp = state.sp
        /\ state'.pc = uint16(state.pc + 1)
    BY <1>3, <2>2, <2>3 DEF Passed, Kept, SameFile
  <2>5. ~(de \in Writable)
    BY <1>8, Refused
  <2> QED BY <2>4, <2>5 DEF de
<1> QED
  BY <1>7, <1>8 DEF de

\* LD (HL+),A
LEMMA RunStoreIncr ==
  ASSUME Alive(state), process, NEW b, Finds(state.pc, b, state),
         Pair("HL", state) \in Writable,
         instructions[b] = Ins("Load", <<"PtrHLIncr", "A">>, 8)
  PROVE  LET hl == Pair("HL", state)
         IN  /\ Alive(state') /\ state'.sp = state.sp /\ state'.rom = state.rom
             /\ state'.flags = state.flags /\ state'.pc = uint16(state.pc + 1)
             /\ state'.reg = PutWord(state.reg, "HL", uint16(hl + 1))
             /\ \A c \in Word : ByteAt(c, state') = IF c = hl THEN state.reg["A"] ELSE ByteAt(c, state)
             /\ \A i \in DOMAIN state'.video : i \in DOMAIN state.video \/ \h8000 + i = hl
<1> DEFINE f == Fetched.st
<1> DEFINE hl == Pair("HL", state)
<1> DEFINE v == state.reg["A"]
<1> DEFINE r == set_memory_byte(hl, v, f)
<1> DEFINE t == SetPair("HL", Pair("HL", r) + 1, r)
<1>1. Took(1, state, f) /\ state' = Charge(8, Load("PtrHLIncr", "A", f))
  BY Dispatch DEF Ins
<1> HIDE DEF f
<1>2. "HL" \in Pairs /\ "A" \in Reg8 /\ 8 \in Int
  BY DEF Pairs, Reg8
<1>3. Passed(1, f) /\ Alive(f) /\ Get("A", f) = Value(v, f) /\ v \in Byte /\ hl \in Word
  BY <1>1, <1>2, BehindOpcode
<1>4. Pair("HL", f) = hl /\ uint8(v) = v
  BY <1>3, ByteFits DEF Passed, Pair
<1>5. Set("PtrHLIncr", v, f) = SetPair("HL", Pair("HL", set_memory_byte(Pair("HL", f), uint8(v), f)) + 1,
                                       set_memory_byte(Pair("HL", f), uint8(v), f))
  BY DEF Set, Reg8, Pairs, Pointers, Address, AfterAccess
<1>6. state' = Charge(8, t)
  BY <1>1, <1>3, <1>4, <1>5 DEF Load, Value
<1>7. PutByte(hl, v, f, r) /\ r.pc = f.pc
  BY <1>3, StoresByte
<1> HIDE DEF r
<1>8. Pair("HL", r) = hl /\ hl + 1 \in Int /\ uint16(hl + 1) \in Word
  <2>1. Pair("HL", r) = hl
    BY <1>4, <1>7 DEF Pair, PutByte, SameFile
  <2> HIDE DEF hl
  <2> QED BY <1>3, <2>1, WordSteps, Conversions
<1> HIDE DEF hl, v
<1>9. t = Set("HL", uint16(hl + 1), r)
  <2>1. Set("HL", hl + 1, r) = Set("HL", uint16(hl + 1), r)
    BY <1>2, <1>8, PairWraps
  <2>2. Set("HL", hl + 1, r) = SetPair("HL", hl + 1, r)
    BY DEF Set, Reg8, Pairs, Pointers
  <2> QED BY <1>8, <2>1, <2>2
<1>10. /\ Alive(t) /\ Kept(r, t) /\ t.pc = r.pc /\ t.sp = r.sp /\ t.flags = r.flags
       /\ t.reg = PutWord(r.reg, "HL", uint16(hl + 1))
  BY <1>2, <1>7, <1>8, <1>9, PutPair DEF PutByte, PutWord
<1> HIDE DEF t
<1>11. Ended(t, state')
  BY <1>2, <1>6, <1>10, Charged
<1>12. /\ \A c : ByteAt(c, f) = ByteAt(c, state)
       /\ \A c : ByteAt(c, t) = ByteAt(c, r)
       /\ \A c : ByteAt(c, state') = ByteAt(c, t)
  BY <1>3, <1>10, <1>11, KeptBytes DEF Passed, Ended
<1>13. /\ Alive(state') /\ state'.sp = state.sp /\ state'.rom = state.rom
       /\ state'.flags = state.flags /\ state'.pc = uint16(state.pc + 1)
       /\ state'.reg = PutWord(state.reg, "HL", uint16(hl + 1))
  BY <1>3, <1>7, <1>10, <1>11 DEF Passed, PutByte, SameFile, Ended, Kept
<1>14. \A c \in Word : ByteAt(c, state') = IF c = hl THEN v ELSE ByteAt(c, state)
  BY <1>7, <1>12 DEF PutByte
<1>15. \A i \in DOMAIN state'.video : i \in DOMAIN state.video \/ \h8000 + i = hl
  BY <1>3, <1>7, <1>10, <1>11 DEF Passed, PutByte, Ended, Kept
<1> QED
  BY <1>13, <1>14, <1>15 DEF hl, v

-----------------------------------------------------------------------------
(* Copying *)

\* Differences modulo 2^16 may be rounded at once.
LEMMA RoundsOnce ==
  ASSUME NEW x \in Int, NEW y \in Int
  PROVE  uint16(uint16(x) - y) = uint16(x - y) /\ uint16(x - uint16(y)) = uint16(x - y)
BY DEF uint16

\* Less than 2^16 apart, and never the same.
LEMMA Apart ==
  ASSUME NEW w \in Word, NEW i \in 1..255
  PROVE  uint16(w - i) # w
<1>1. w \in Int /\ 0 <= w /\ w < \h10000
  BY InWord
<1>2. CASE w < i
  <2> DEFINE N == \h10000
  <2> DEFINE n == w - i + N
  <2>1. N \in Nat \ {0}
    OBVIOUS
  <2>2. N = 65536 /\ i \in Int /\ 1 <= i /\ i <= 255
    OBVIOUS
  <2> HIDE DEF N
  <2>3. n \in Int /\ 0 <= n /\ n < N /\ w - i = n - N /\ n # w
    BY <1>1, <1>2, <2>2
  <2> HIDE DEF n
  <2>4. n \in 0..(N - 1)
    BY <2>1, <2>3
  <2>5. (w - i) % N = n
    <3> DEFINE d == w - i
    <3>1. d \in {n, n - N}
      BY <2>3
    <3> HIDE DEF d
    <3>2. d % N = n
      BY <2>1, <2>4, <3>1, Unwraps
    <3> QED BY <3>2 DEF d
  <2> QED BY <2>3, <2>5 DEF uint16, N
<1>3. CASE i <= w
  <2>1. w - i \in Word /\ w - i \in Int /\ w - i # w
    BY <1>1, <1>3, InWord
  <2> QED BY <2>1, Conversions
<1> QED
  BY <1>1, <1>2, <1>3

\* A source that does not run into the copy never meets it.
LEMMA NeverMeets ==
  ASSUME NEW h \in Word, NEW d \in Word, uint16(h - d) \notin 1..255, NEW i \in 1..255
  PROVE  uint16(h - i) # d
<1>1. h \in Int /\ d \in Int /\ i \in Int /\ h - i \in Int
  BY InWord
<1>2. SUFFICES ASSUME d = uint16(h - i) PROVE FALSE
  OBVIOUS
<1>3. uint16(h - d) = uint16(h - (h - i))
  BY <1>1, <1>2, RoundsOnce
<1>4. h - (h - i) = i /\ i \in Word
  BY <1>1, InWord
<1>5. uint16(h - d) = i
  BY <1>1, <1>3, <1>4, Conversions
<1> QED
  BY <1>5

\* Where DE is.
LEMMA CopyEnd ==
  ASSUME NEW s, StateOK(s), NEW d, NEW h, Copied(d, h, s)
  PROVE  LET de == Pair("DE", s)
         IN  /\ de \in Word /\ d \in Int /\ 0 <= d /\ s.sp \in Int
             /\ s.sp \in VideoRam => \h8000 <= s.sp /\ s.sp + d <= \hA000 /\ de = s.sp + d
             /\ s.sp \notin VideoRam =>
                  /\ \hFF80 <= s.sp /\ s.sp + d <= \h10000
                  /\ \/ s.sp + d < \h10000 /\ de = s.sp + d
                     \/ s.sp + d = \h10000 /\ de = 0
             /\ de \in Writable \/ de \in {0, \hA000}
<1> DEFINE de == Pair("DE", s)
<1>1. /\ de = uint16(s.sp + d) /\ d \in 0..256
      /\ s.sp \in VideoRam => s.sp + d <= \hA000
      /\ s.sp \notin VideoRam => s.sp \in \hFF80..\hFFFF /\ s.sp + d <= \h10000
  BY DEF Copied
<1>2. de \in Word /\ s.sp \in Int /\ d \in Int /\ 0 <= d
  BY <1>1, PairType, Members, WordIsInt DEF Pairs
<1>3. CASE s.sp \in VideoRam
  <2>1. \h8000 <= s.sp /\ s.sp + d <= \hA000
    BY <1>1, <1>2, <1>3, Areas
  <2>2. s.sp + d \in Word /\ s.sp + d \in Int
    BY <1>2, <2>1, InWord
  <2>3. de = s.sp + d
    BY <1>1, <2>2, Conversions
  <2>4. de = \hA000 \/ de \in VideoRam
    <3>1. \h8000 <= de /\ de <= \hA000 /\ de \in Int
      BY <1>2, <2>1, <2>3, WordIsInt
    <3> HIDE DEF de
    <3> QED BY <3>1, Areas
  <2> QED BY <1>2, <1>3, <2>1, <2>3, <2>4 DEF Writable
<1>4. CASE s.sp \notin VideoRam
  <2>1. \hFF80 <= s.sp /\ s.sp + d <= \h10000
    BY <1>1, <1>4
  <2>2. CASE s.sp + d < \h10000
    <3>1. s.sp + d \in Word /\ s.sp + d \in Int
      BY <1>2, <2>1, <2>2, InWord
    <3>2. de = s.sp + d
      BY <1>1, <3>1, Conversions
    <3>3. de \in \hFF80..\hFFFF
      BY <1>2, <2>1, <2>2, <3>2
    <3> QED BY <1>2, <1>4, <2>1, <2>2, <3>2, <3>3 DEF Writable
  <2>3. CASE s.sp + d = \h10000
    <3>1. de = 0
      BY <1>1, <2>3 DEF uint16
    <3> QED BY <1>2, <1>4, <2>1, <2>3, <3>1
  <2> QED BY <1>2, <2>1, <2>2, <2>3
<1> QED
  BY <1>3, <1>4

\* Steps that leave memory, DE and sp alone.
LEMMA CopyKept ==
  ASSUME NEW s, NEW t, Kept(s, t), t.sp = s.sp, NEW d, NEW h
  PROVE  /\ Pair("DE", t) = Pair("DE", s) /\ Copied(d, h, s) => Copied(d, h, t)
         /\ CopyWrites(d, s) => CopyWrites(d, t)
<1>1. \A a : ByteAt(a, t) = ByteAt(a, s)
  BY KeptBytes
<1>2. ASSUME Pair("DE", t) = Pair("DE", s), Copied(d, h, s) PROVE Copied(d, h, t)
  BY <1>1, <1>2 DEF Copied
<1>3. CopyWrites(d, s) => CopyWrites(d, t)
  BY DEF Kept, CopyWrites
<1> QED
  BY <1>2, <1>3

\* The addresses of the video memory's bytes.
LEMMA VideoEnds ==
  ASSUME NEW i \in 0..(VideoSize - 1)
  PROVE  \h8000 <= \h8000 + i /\ \h8000 + i < \hA000
BY DEF VideoSize

\* The store of a byte that has been read from h.
LEMMA CopyStore ==
  ASSUME NEW s, StateOK(s), NEW h \in Word, NEW d \in 0..255, Copied(d, h, s), CopyWrites(d, s),
         NEW t, Pair("DE", s) \in Writable, PutByte(Pair("DE", s), ByteAt(h, s), s, t)
  PROVE  /\ Copied(d, h, t) /\ CopyWrites(d + 1, t) /\ Pair("DE", t) = Pair("DE", s)
         /\ ByteAt(Pair("DE", t), t) = ByteAt(h, t) /\ Pair("DE", t) \notin {\hA000, 0}
<1> DEFINE de == Pair("DE", s)
<1> DEFINE v == ByteAt(h, s)
<1>1. /\ Pair("DE", t) = de /\ t.sp = s.sp /\ t.io = s.io
      /\ t.boot_rom_enabled = s.boot_rom_enabled /\ s.io = ResetIo /\ s.boot_rom_enabled
  BY DEF PutByte, SameFile, Pair, CopyWrites
<1>2. /\ \A c \in Word : ByteAt(c, t) = IF c = de THEN v ELSE ByteAt(c, s)
      /\ \A i \in DOMAIN t.video : i \in DOMAIN s.video \/ \h8000 + i = de
      /\ \A i \in DOMAIN t.internal_memory : i \in DOMAIN s.internal_memory \/ \hFF80 + i = de
      /\ t.interrupt_enabled # 0 => s.interrupt_enabled # 0 \/ de = InterruptEnable
  BY DEF PutByte
<1>3. /\ de \in Word /\ de \in Int /\ uint16(h - de) \notin 1..255
      /\ \A i \in 1..d : ByteAt(uint16(de - i), s) = ByteAt(uint16(h - i), s)
  <2>1. de \in Word
    BY CopyEnd
  <2> QED BY <2>1, WordIsInt DEF Copied
<1>4. ByteAt(de, t) = ByteAt(h, t)
  BY <1>2, <1>3
<1>5. ASSUME NEW i \in 1..d
      PROVE  ByteAt(uint16(de - i), t) = ByteAt(uint16(h - i), t)
  <2>1. i \in 1..255 /\ i \in Int /\ h \in Int /\ de - i \in Int /\ h - i \in Int
    BY <1>3, WordIsInt
  <2>2. uint16(de - i) # de /\ uint16(de - i) \in Word
    BY <1>3, <2>1, Apart, Conversions
  <2>3. uint16(h - i) # de /\ uint16(h - i) \in Word
    BY <1>3, <2>1, NeverMeets, Conversions
  <2> QED BY <1>2, <1>3, <2>2, <2>3
<1>6. Copied(d, h, t)
  <2> HIDE DEF v
  <2> QED BY <1>1, <1>5 DEF Copied
<1>7. /\ s.sp \in Int /\ d \in Int /\ 0 <= d /\ de = s.sp + d
      /\ \A a \in Int : a \in s.sp..(s.sp + d - 1) \/ a = de => a \in s.sp..(s.sp + (d + 1) - 1)
  <2>1. de \notin {\hA000, 0} /\ s.sp \in Int /\ d \in Int /\ 0 <= d
    BY Refused, Members, WordIsInt
  <2>2. de = s.sp + d
    BY <2>1, CopyEnd
  <2> HIDE DEF de
  <2> QED BY <2>1, <2>2
<1>8. ASSUME NEW i \in DOMAIN t.video
      PROVE  \h8000 + i \in s.sp..(s.sp + (d + 1) - 1)
  <2>1. \h8000 + i \in s.sp..(s.sp + d - 1) \/ \h8000 + i = de
    BY <1>2 DEF CopyWrites
  <2> HIDE DEF de
  <2> QED BY <1>3, <1>7, <2>1
<1>9. ASSUME NEW i \in DOMAIN t.internal_memory
      PROVE  \hFF80 + i \in s.sp..(s.sp + (d + 1) - 1)
  <2>1. \hFF80 + i \in s.sp..(s.sp + d - 1) \/ \hFF80 + i = de
    BY <1>2 DEF CopyWrites
  <2> HIDE DEF de
  <2> QED BY <1>3, <1>7, <2>1
<1>10. ASSUME t.interrupt_enabled # 0
       PROVE  \hFFFF \in s.sp..(s.sp + (d + 1) - 1)
  <2>1. \hFFFF \in s.sp..(s.sp + d - 1) \/ \hFFFF = de
    BY <1>2, <1>10 DEF CopyWrites, InterruptEnable
  <2> HIDE DEF de
  <2> QED BY <1>7, <2>1
<1>11. CopyWrites(d + 1, t)
  BY <1>1, <1>8, <1>9, <1>10 DEF CopyWrites
<1>12. de \notin {\hA000, 0}
  BY Refused
<1> QED
  BY <1>1, <1>4, <1>6, <1>11, <1>12

\* DE behind that byte.
LEMMA CopyNext ==
  ASSUME NEW s, StateOK(s), NEW hl \in Word, NEW d \in 0..255, Copied(d, uint16(hl - 1), s),
         ByteAt(Pair("DE", s), s) = ByteAt(uint16(hl - 1), s), Pair("DE", s) \notin {\hA000, 0},
         NEW t, Kept(s, t), t.sp = s.sp, Pair("DE", t) = uint16(Pair("DE", s) + 1)
  PROVE  Copied(d + 1, hl, t)
<1> DEFINE de == Pair("DE", s)
<1> DEFINE to == Pair("DE", t)
<1>1. /\ de \in Word /\ de \in Int /\ hl \in Int /\ d \in Int /\ s.sp \in Int
      /\ de + 1 \in Int /\ hl - 1 \in Int /\ s.sp + d \in Int
  BY CopyEnd, WordIsInt
<1>2. /\ de = uint16(s.sp + d)
      /\ uint16(uint16(hl - 1) - de) \notin 1..255
      /\ \A i \in 1..d : ByteAt(uint16(de - i), s) = ByteAt(uint16(uint16(hl - 1) - i), s)
  BY DEF Copied
<1>3. to = uint16(s.sp + (d + 1))
  <2> DEFINE m == s.sp + d
  <2>1. to = uint16(uint16(m) + 1) /\ m \in Int /\ m + 1 = s.sp + (d + 1)
    BY <1>1, <1>2
  <2> HIDE DEF m, to
  <2>2. uint16(uint16(m) + 1) = uint16(m + 1)
    BY <2>1, WrapsOnce
  <2> QED BY <2>1, <2>2
<1>4. /\ s.sp \in VideoRam => s.sp + (d + 1) <= \hA000
      /\ s.sp \notin VideoRam => s.sp \in \hFF80..\hFFFF /\ s.sp + (d + 1) <= \h10000
  <2>1. CASE s.sp \in VideoRam
    <3>1. s.sp + d <= \hA000 /\ de = s.sp + d /\ de # \hA000
      BY <2>1, CopyEnd
    <3> HIDE DEF de
    <3> QED BY <1>1, <2>1, <3>1
  <2>2. CASE s.sp \notin VideoRam
    <3>1. s.sp + d < \h10000 /\ s.sp \in \hFF80..\hFFFF
      <4>1. s.sp + d < \h10000
        BY <2>2, CopyEnd
      <4> QED BY <2>2, <4>1 DEF Copied
    <3> QED BY <1>1, <2>2, <3>1
  <2> QED BY <2>1, <2>2
<1>5. uint16(hl - to) = uint16(uint16(hl - 1) - de)
  <2>1. uint16(hl - uint16(de + 1)) = uint16(hl - (de + 1))
    BY <1>1, RoundsOnce
  <2>2. uint16(uint16(hl - 1) - de) = uint16((hl - 1) - de)
    BY <1>1, RoundsOnce
  <2>3. hl - (de + 1) = (hl - 1) - de
    BY <1>1
  <2> QED BY <2>1, <2>2, <2>3
<1>6. ASSUME NEW i \in 1..(d + 1)
      PROVE  ByteAt(uint16(to - i), t) = ByteAt(uint16(hl - i), t)
  <2>1. i \in Int /\ i - 1 \in Int /\ (de + 1) - i = de - (i - 1) /\ (hl - 1) - (i - 1) = hl - i
    BY <1>1
  <2>2. uint16(to - i) = uint16(de - (i - 1)) /\ uint16(hl - i) = uint16(uint16(hl - 1) - (i - 1))
    <3>1. uint16(uint16(de + 1) - i) = uint16((de + 1) - i)
      BY <1>1, <2>1, RoundsOnce
    <3>2. uint16(uint16(hl - 1) - (i - 1)) = uint16((hl - 1) - (i - 1))
      BY <1>1, <2>1, RoundsOnce
    <3> QED BY <2>1, <3>1, <3>2
  <2>3. \A a : ByteAt(a, t) = ByteAt(a, s)
    BY KeptBytes
  <2>4. CASE i = 1
    <3>1. de - (i - 1) = de /\ hl - i = hl - 1
      BY <1>1, <2>4
    <3>2. uint16(de) = de
      BY <1>1, Conversions
    <3> QED BY <2>2, <2>3, <3>1, <3>2
  <2>5. CASE i # 1
    <3>1. i - 1 \in 1..d
      BY <1>1, <2>5
    <3>2. ByteAt(uint16(de - (i - 1)), s) = ByteAt(uint16(uint16(hl - 1) - (i - 1)), s)
      BY <1>2, <3>1
    <3> QED BY <2>2, <2>3, <3>2
  <2> QED BY <2>4, <2>5
<1>7. d + 1 \in 0..256
  OBVIOUS
<1> HIDE DEF de
<1> QED
  BY <1>2, <1>3, <1>4, <1>5, <1>6, <1>7 DEF Copied

\* The bytes of the program,
LEMMA CopyCodeAt ==
  ASSUME NEW s, CodeAt(s.rom, \h0240, CopyCode)
  PROVE  /\ Finds(\h0240, \h2A, s) /\ Finds(\h0241, \h12, s) /\ Finds(\h0242, \h13, s)
         /\ Finds(\h0243, \h05, s) /\ Finds(\h0244, \h20, s) /\ Finds(\h0245, \hFA, s)
         /\ Finds(\h0246, \hFF, s)
<1>1. /\ CopyCode[1] = \h2A /\ CopyCode[2] = \h12 /\ CopyCode[3] = \h13
      /\ CopyCode[4] = \h05 /\ CopyCode[5] = \h20 /\ CopyCode[6] = \hFA
      /\ CopyCode[7] = \hFF /\ Len(CopyCode) = 7
  BY DEF CopyCode
<1>2. ASSUME NEW i \in 1..7 PROVE Finds(\h023F + i, CopyCode[i], s)
  <2> DEFINE a == \h023F + i
  <2>1. /\ \h0240 \in Int /\ \h0240 > \h0100 /\ a = \h0240 + i - 1 /\ a < \h2000 /\ i \in Int
        /\ i \in 1..Len(CopyCode)
    BY <1>1
  <2> HIDE DEF a
  <2>2. Finds(a, CopyCode[i], s)
    BY <2>1, CodeFinds, SMTT(20)
  <2> QED BY <2>2 DEF a
<1>3. /\ Finds(\h023F + 1, CopyCode[1], s) /\ Finds(\h023F + 2, CopyCode[2], s)
      /\ Finds(\h023F + 3, CopyCode[3], s) /\ Finds(\h023F + 4, CopyCode[4], s)
      /\ Finds(\h023F + 5, CopyCode[5], s) /\ Finds(\h023F + 6, CopyCode[6], s)
      /\ Finds(\h023F + 7, CopyCode[7], s)
  BY <1>2
<1> QED
  BY <1>1, <1>3

\* and its rows.
LEMMA CopyRows ==
  /\ instructions[\h2A] = Ins("Load", <<"A", "PtrHLIncr">>, 8)
  /\ instructions[\h12] = Ins("Load", <<"PtrDE", "A">>, 8)
  /\ instructions[\h13] = Ins("Inc", <<"DE">>, 8)
<1>1. /\ instructions[\h2A] = Rows00(5, 2) /\ instructions[\h12] = Rows00(2, 2)
      /\ instructions[\h13] = Rows00(2, 3)
  BY DEF instructions
<1> QED
  BY <1>1 DEF Rows00, Operand16, PtrOperand

\* Its steps.
LEMMA CopySteps ==
  ASSUME Alive(state), CopyInv, process
  PROVE  CopyInv'
<1> DEFINE b == state.reg["B"]
<1> DEFINE n == Turns(state.reg["C"])
<1> DEFINE d == n - Turns(b)
<1> DEFINE de == Pair("DE", state)
<1> DEFINE hl == Pair("HL", state)
<1>1. /\ b \in Byte /\ hl \in Word /\ de \in Word /\ n \in 1..256 /\ Turns(b) \in 1..256
      /\ uint8(b - 1) = Turns(b) - 1 /\ uint8(b - 1) \in Byte
      /\ (b = 1 <=> uint8(b - 1) = 0) /\ (b # 0 => Turns(b) = b)
  <2>1. b \in Byte /\ state.reg["C"] \in Byte
    BY Members DEF Alive, Reg8
  <2>2. hl \in Word /\ de \in Word
    BY PairType DEF Alive, Pairs
  <2> QED BY <2>1, <2>2, CountTurns
<1>2. CodeAt(state.rom, \h0240, CopyCode) /\ state.sp \in Word
  BY Members DEF CopyInv, Alive
<1>3. /\ Finds(\h0240, \h2A, state) /\ Finds(\h0241, \h12, state) /\ Finds(\h0242, \h13, state)
      /\ Finds(\h0243, \h05, state) /\ Finds(\h0244, \h20, state) /\ Finds(\h0245, \hFA, state)
      /\ Finds(\h0246, \hFF, state)
  BY <1>2, CopyCodeAt
<1>4. \/ state.pc = \h0240 /\ Copied(d, hl, state) /\ CopyWrites(d, state)
      \/ /\ state.pc = \h0241 /\ Copied(d, uint16(hl - 1), state) /\ CopyWrites(d, state)
         /\ state.reg["A"] = ByteAt(uint16(hl - 1), state)
      \/ /\ state.pc = \h0242 /\ Copied(d, uint16(hl - 1), state)
         /\ CopyWrites(d + 1, state) /\ de \notin {\hA000, 0}
         /\ ByteAt(de, state) = ByteAt(uint16(hl - 1), state)
      \/ /\ state.pc = \h0243 /\ Copied(d + 1, hl, state) /\ CopyWrites(d + 1, state)
         /\ d >= 0
      \/ /\ state.pc = \h0244 /\ Copied(n - b, hl, state) /\ CopyWrites(n - b, state)
         /\ b < n /\ ("Zero" \in state.flags <=> b = 0)
      \/ state.pc = \h0246 /\ Copied(n, hl, state) /\ CopyWrites(n, state)
  BY DEF CopyInv, Running, Alive
<1>5. d \in 0..256 => d \in 0..255
  <2> HIDE DEF b, n
  <2> QED BY <1>1
<1>6. /\ "DE" \in Pairs /\ "HL" \in Pairs /\ "B" \in Reg8 /\ "A" \in Reg8 /\ \hFA \in Byte
      /\ int8(\hFA) = -6
  BY DEF Pairs, Reg8, int8, Byte, MaxByte
<1>7. uint16(hl - 1) \in Word /\ uint16(hl + 1) \in Word /\ uint16(uint16(hl + 1) - 1) = hl
  <2>1. hl \in Int /\ hl + 1 \in Int /\ hl - 1 \in Int /\ (hl + 1) - 1 = hl
    BY <1>1, WordIsInt
  <2> HIDE DEF hl
  <2>2. uint16(uint16(hl + 1) - 1) = uint16((hl + 1) - 1)
    BY <2>1, RoundsOnce
  <2> QED BY <1>1, <2>1, <2>2, Conversions
<1>8. CASE state.pc = \h0240
  <2>1. uint16(state.pc + 1) = \h0241 /\ Copied(d, hl, state) /\ CopyWrites(d, state)
    BY <1>4, <1>8 DEF uint16
  <2> DEFINE v == ByteAt(hl, state)
  <2>2. CASE ReadStatus(hl, state) = "running"
    <3>1. Straight(1) /\ state'.reg = Put(PutWord(state.reg, "HL", uint16(hl + 1)), "A", v)
      BY <1>3, <1>8, <2>2, CopyRows, RunLoadIncr
    <3> HIDE DEF v
    <3>2. /\ Pair("HL", state') = uint16(hl + 1) /\ Pair("DE", state') = de
          /\ state'.reg["B"] = b /\ state'.reg["C"] = state.reg["C"] /\ state'.reg["A"] = v
      <4> DEFINE r == PutWord(state.reg, "HL", uint16(hl + 1))
      <4>1. r \in [Reg8 -> Byte] /\ state'.reg = Put(r, "A", v)
        <5>1. Hi(uint16(hl + 1)) \in Byte /\ Lo(uint16(hl + 1)) \in Byte
          BY <1>7, WordBytes
        <5> QED BY <3>1, <5>1, Members DEF PutWord, Put, Alive
      <4>2. /\ r[High["HL"]] = Hi(uint16(hl + 1)) /\ r[Low["HL"]] = Lo(uint16(hl + 1))
            /\ \A x \in Reg8 \ {"H", "L"} : r[x] = state.reg[x]
        BY Members DEF PutWord, Put, Alive, High, Low, Reg8
      <4>3. Join(Hi(uint16(hl + 1)), Lo(uint16(hl + 1))) = uint16(hl + 1)
        BY <1>7, WordBytes
      <4> HIDE DEF r
      <4> QED BY <4>1, <4>2, <4>3 DEF Put, Reg8, High, Low, Pair
    <3>3. CodeAt(state'.rom, \h0240, CopyCode) /\ state'.pc = \h0241 /\ state'.status = "running"
      BY <1>2, <2>1, <3>1 DEF Straight, Kept, Alive
    <3>4. /\ Copied(d, uint16(Pair("HL", state') - 1), state') /\ CopyWrites(d, state')
          /\ state'.reg["A"] = ByteAt(uint16(Pair("HL", state') - 1), state')
      <4>1. v = ByteAt(hl, state')
        BY <3>1, KeptBytes DEF v, Straight
      <4> HIDE DEF d, hl, de
      <4> QED BY <1>7, <2>1, <3>1, <3>2, <4>1, CopyKept DEF Straight, de
    <3> QED BY <3>2, <3>3, <3>4 DEF CopyInv, Running
  <2>3. CASE ReadStatus(hl, state) # "running"
    <3>1. /\ StateOK(state') /\ state'.status # "running" /\ Kept(state, state')
          /\ SameFile(state, state') /\ state'.sp = state.sp /\ state'.pc = \h0241
      BY <1>3, <1>8, <2>1, <2>3, CopyRows, RunLoadIncr
    <3>2. state'.reg = state.reg /\ Pair("DE", state') = de /\ Pair("HL", state') = hl
          /\ CodeAt(state'.rom, \h0240, CopyCode)
      BY <1>2, <3>1 DEF SameFile, Pair, Kept
    <3>3. Copied(d, hl, state') /\ CopyWrites(d, state')
      <4> HIDE DEF d, hl
      <4> QED BY <2>1, <3>1, <3>2, CopyKept DEF de
    <3> QED BY <3>1, <3>2, <3>3 DEF CopyInv, Running
  <2> QED BY <2>2, <2>3
<1>9. CASE state.pc = \h0241
  <2>1. /\ uint16(state.pc + 1) = \h0242
        /\ Copied(d, uint16(hl - 1), state) /\ CopyWrites(d, state)
        /\ state.reg["A"] = ByteAt(uint16(hl - 1), state)
    BY <1>4, <1>9 DEF uint16
  <2>2. d \in 0..255 /\ (de \in Writable \/ de \in {0, \hA000})
    <3>1. d \in 0..256
      BY <2>1 DEF Copied
    <3>2. de \in Writable \/ de \in {0, \hA000}
      BY <2>1, CopyEnd DEF Alive
    <3> QED BY <1>5, <3>1, <3>2, SMTT(20)
  <2>3. CASE de \in Writable
    <3>1. PutByte(de, state.reg["A"], state, state') /\ state'.pc = \h0242
      BY <1>3, <1>9, <2>1, <2>3, CopyRows, RunStoreTo
    <3>2. /\ CodeAt(state'.rom, \h0240, CopyCode) /\ state'.reg = state.reg
          /\ Pair("HL", state') = hl /\ Pair("DE", state') = de /\ state'.status = "running"
      BY <1>2, <3>1 DEF PutByte, SameFile, Pair, Alive
    <3>3. /\ Copied(d, uint16(hl - 1), state') /\ CopyWrites(d + 1, state')
          /\ de \notin {\hA000, 0} /\ ByteAt(de, state') = ByteAt(uint16(hl - 1), state')
      <4> DEFINE h == uint16(hl - 1)
      <4>1. h \in Word /\ Copied(d, h, state) /\ PutByte(de, ByteAt(h, state), state, state')
        BY <1>7, <2>1, <3>1
      <4> HIDE DEF h, d
      <4>2. /\ Copied(d, h, state') /\ CopyWrites(d + 1, state') /\ Pair("DE", state') \notin {\hA000, 0}
            /\ ByteAt(Pair("DE", state'), state') = ByteAt(h, state')
        BY <2>1, <2>2, <2>3, <4>1, CopyStore DEF Alive
      <4> QED BY <3>2, <4>2 DEF h
    <3> QED BY <3>1, <3>2, <3>3 DEF CopyInv, Running
  <2>4. CASE de \in {0, \hA000}
    <3>1. /\ StateOK(state') /\ state'.status # "running" /\ Kept(state, state')
          /\ SameFile(state, state') /\ state'.sp = state.sp /\ state'.pc = \h0242
      BY <1>3, <1>9, <2>1, <2>4, CopyRows, RunStoreTo
    <3>2. state'.reg = state.reg /\ Pair("DE", state') = de /\ Pair("HL", state') = hl
          /\ CodeAt(state'.rom, \h0240, CopyCode)
      BY <1>2, <3>1 DEF SameFile, Pair, Kept
    <3>3. Copied(d, uint16(hl - 1), state') /\ CopyWrites(d, state')
      <4> HIDE DEF d, hl
      <4> QED BY <2>1, <3>1, <3>2, CopyKept DEF de
    <3> QED BY <2>4, <3>1, <3>2, <3>3 DEF CopyInv, Running
  <2> QED BY <2>2, <2>3, <2>4
<1>10. CASE state.pc = \h0242
  <2>1. /\ uint16(state.pc + 1) = \h0243 /\ de \notin {\hA000, 0}
        /\ Copied(d, uint16(hl - 1), state) /\ CopyWrites(d + 1, state)
        /\ ByteAt(de, state) = ByteAt(uint16(hl - 1), state)
    BY <1>4, <1>10 DEF uint16
  <2>2. d \in 0..255
    <3>1. d \in 0..256
      BY <2>1, SMTT(20) DEF Copied
    <3> HIDE DEF d
    <3> QED BY <1>5, <3>1
  <2>3. Straight(1) /\ state'.reg = PutWord(state.reg, "DE", uint16(de + 1))
    BY <1>3, <1>6, <1>10, CopyRows, RunIncPair
  <2>4. uint16(de + 1) \in Word
    BY <1>1, WordSteps, Conversions
  <2>5. /\ Pair("DE", state') = uint16(de + 1)
        /\ \A x \in Reg8 \ {High["DE"], Low["DE"]} : state'.reg[x] = state.reg[x]
    BY <1>6, <2>3, <2>4, WordPut DEF Alive
  <2>6. state'.reg["B"] = b /\ state'.reg["C"] = state.reg["C"] /\ Pair("HL", state') = hl
    BY <2>5 DEF Reg8, High, Low, Pair
  <2>7. CodeAt(state'.rom, \h0240, CopyCode) /\ state'.pc = \h0243 /\ state'.status = "running"
    BY <1>2, <2>1, <2>3 DEF Straight, Kept, Alive
  <2>8. Copied(d + 1, hl, state') /\ CopyWrites(d + 1, state')
    <3>1. Kept(state, state') /\ state'.sp = state.sp
      BY <2>3 DEF Straight
    <3> HIDE DEF d, hl
    <3>2. /\ StateOK(state) /\ hl \in Word /\ d \in 0..255 /\ Copied(d, uint16(hl - 1), state)
          /\ ByteAt(Pair("DE", state), state) = ByteAt(uint16(hl - 1), state)
          /\ Pair("DE", state) \notin {\hA000, 0}
          /\ Pair("DE", state') = uint16(Pair("DE", state) + 1)
      BY <1>1, <2>1, <2>2, <2>5 DEF Alive
    <3>3. Copied(d + 1, hl, state')
      BY <3>1, <3>2, CopyNext
    <3>4. CopyWrites(d + 1, state')
      BY <2>1, <3>1, CopyKept
    <3> QED BY <3>3, <3>4
  <2>9. d >= 0
    <3> HIDE DEF d
    <3> QED BY <2>2
  <2> QED BY <2>6, <2>7, <2>8, <2>9 DEF CopyInv, Running
<1>11. CASE state.pc = \h0243
  <2>1. /\ uint16(state.pc + 1) = \h0244 /\ d >= 0
        /\ Copied(d + 1, hl, state) /\ CopyWrites(d + 1, state)
    BY <1>4, <1>11 DEF uint16
  <2>2. /\ Alive(state') /\ Kept(state, state') /\ state'.pc = \h0244 /\ state'.sp = state.sp
        /\ state'.reg = Put(state.reg, "B", uint8(b - 1))
        /\ "Zero" \in state'.flags <=> b = 1
    BY <1>3, <1>6, <1>11, <2>1, MultiplyRows, RunCount
  <2>3. /\ state'.reg["B"] = uint8(b - 1) /\ state'.reg["C"] = state.reg["C"]
        /\ Pair("DE", state') = de /\ Pair("HL", state') = hl
    BY <2>2, Members DEF Put, Alive, Reg8, Pair, High, Low
  <2>4. uint8(b - 1) < n /\ n - uint8(b - 1) = d + 1
    <3> HIDE DEF b, n
    <3> QED BY <1>1, <2>1
  <2>5. CodeAt(state'.rom, \h0240, CopyCode)
    BY <1>2, <2>2 DEF Kept
  <2>6. Copied(d + 1, hl, state') /\ CopyWrites(d + 1, state')
    <3> HIDE DEF d, hl
    <3> QED BY <2>1, <2>2, <2>3, CopyKept DEF de
  <2> HIDE DEF hl, de, n, d
  <2>7. /\ Copied(n - state'.reg["B"], hl, state') /\ CopyWrites(n - state'.reg["B"], state')
        /\ state'.reg["B"] < n /\ ("Zero" \in state'.flags <=> state'.reg["B"] = 0)
    BY <1>1, <2>2, <2>3, <2>4, <2>6
  <2> QED BY <2>2, <2>3, <2>5, <2>7 DEF CopyInv, Running, Alive, hl, n
<1>12. CASE state.pc = \h0244
  <2>1. /\ uint16(state.pc + 1) = \h0245 /\ uint16(state.pc + 2) = \h0246
        /\ uint16(state.pc + (2 + int8(\hFA))) = \h0240
    BY <1>6, <1>12 DEF uint16
  <2>2. /\ Copied(n - b, hl, state) /\ CopyWrites(n - b, state)
        /\ b < n /\ ("Zero" \in state.flags <=> b = 0)
    BY <1>4, <1>12
  <2>3. is_true("NZ", state) <=> b # 0
    BY <2>2 DEF is_true
  <2>4. /\ Alive(state') /\ Kept(state, state') /\ SameFile(state, state') /\ state'.sp = state.sp
        /\ b # 0 => state'.pc = \h0240
        /\ b = 0 => state'.pc = \h0246
    BY <1>3, <1>6, <1>12, <2>1, <2>3, MultiplyRows, RunJumpRelative
  <2>5. /\ CodeAt(state'.rom, \h0240, CopyCode) /\ state'.reg = state.reg
        /\ Pair("DE", state') = de /\ Pair("HL", state') = hl
    BY <1>2, <2>4 DEF Kept, SameFile, Pair
  <2>6. Copied(n - b, hl, state') /\ CopyWrites(n - b, state')
    <3> HIDE DEF n, b, hl
    <3> QED BY <2>2, <2>4, <2>5, CopyKept DEF de
  <2>7. CASE b # 0
    <3>1. Copied(d, hl, state') /\ CopyWrites(d, state') /\ state'.pc = \h0240
      BY <1>1, <2>4, <2>6, <2>7
    <3> QED BY <2>4, <2>5, <3>1 DEF CopyInv, Running, Alive
  <2>8. CASE b = 0
    <3>1. n - b = n
      <4> HIDE DEF n
      <4> QED BY <1>1, <2>8
    <3>2. Copied(n, hl, state') /\ CopyWrites(n, state') /\ state'.pc = \h0246
      BY <2>4, <2>6, <2>8, <3>1
    <3> QED BY <2>4, <2>5, <3>2 DEF CopyInv, Running, Alive
  <2> QED BY <2>7, <2>8
<1>13. CASE state.pc = \h0246
  <2>1. uint16(state.pc + 1) = \h0247 /\ Copied(n, hl, state) /\ CopyWrites(n, state)
    BY <1>4, <1>13 DEF uint16
  <2>2. /\ StateOK(state') /\ state'.status = "panicked" /\ Kept(state, state')
        /\ SameFile(state, state') /\ state'.sp = state.sp /\ state'.pc = \h0247
    BY <1>3, <1>13, <2>1, MultiplyRows, RunNull
  <2>3. /\ CodeAt(state'.rom, \h0240, CopyCode) /\ state'.reg = state.reg
        /\ Pair("DE", state') = de /\ Pair("HL", state') = hl
    BY <1>2, <2>2 DEF Kept, SameFile, Pair
  <2>4. Copied(n, hl, state') /\ CopyWrites(n, state')
    <3> HIDE DEF n, hl
    <3> QED BY <2>1, <2>2, <2>3, CopyKept DEF de
  <2> QED BY <2>2, <2>3, <2>4 DEF CopyInv, Running
<1> QED
  BY <1>4, <1>8, <1>9, <1>10, <1>11, <1>12, <1>13

\* What the copy of d bytes shows of CopyExact.
LEMMA CopyShows ==
  ASSUME TypeOK, NEW d, NEW h \in Int, Copied(d, uint16(h), state),
         NEW k \in {d, d + 1}, CopyWrites(k, state)
  PROVE  LET de   == Pair("DE", state)
             done == uint16(de - state.sp)
         IN  /\ done = d
             /\ \A i \in 1..done : ByteAt(uint16(de - i), state) = ByteAt(uint16(h - i), state)
             /\ Touched(state) \subseteq state.sp..(state.sp + k - 1)
<1> DEFINE de == Pair("DE", state)
<1>1. /\ de = uint16(state.sp + d) /\ d \in 0..256
      /\ \A i \in 1..d : ByteAt(uint16(de - i), state) = ByteAt(uint16(uint16(h) - i), state)
  BY DEF Copied
<1>2. StateOK(state) /\ state.sp \in Int /\ de \in Word /\ de \in Int /\ d \in Int /\ 0 <= d
  <2>1. StateOK(state)
    BY DEF TypeOK
  <2> QED BY <2>1, CopyEnd, WordIsInt
<1>3. uint16(de - state.sp) = d
  <2>1. uint16(uint16(state.sp + d) - state.sp) = uint16((state.sp + d) - state.sp)
    <3> DEFINE x == state.sp + d
    <3> DEFINE y == state.sp
    <3>1. x \in Int /\ y \in Int
      BY <1>2
    <3> HIDE DEF x, y
    <3>2. uint16(uint16(x) - y) = uint16(x - y)
      BY <3>1, RoundsOnce
    <3> QED BY <3>2 DEF x, y
  <2>2. (state.sp + d) - state.sp = d /\ d \in Word
    BY <1>1, <1>2, InWord
  <2> QED BY <1>1, <1>2, <2>1, <2>2, Conversions
<1>4. ASSUME NEW i \in 1..d
      PROVE  ByteAt(uint16(de - i), state) = ByteAt(uint16(h - i), state)
  <2>1. uint16(uint16(h) - i) = uint16(h - i)
    BY <1>1, RoundsOnce
  <2> QED BY <1>1, <2>1
<1>5. Touched(state) \subseteq state.sp..(state.sp + k - 1)
  <2> DEFINE S == state.sp..(state.sp + k - 1)
  <2>1. /\ \A i \in DOMAIN state.video : \h8000 + i \in S
        /\ \A i \in DOMAIN state.internal_memory : \hFF80 + i \in S
        /\ state.interrupt_enabled # 0 => \hFFFF \in S
    BY DEF CopyWrites
  <2> HIDE DEF S
  <2>2. Touched(state) \subseteq S
    BY <2>1 DEF Touched
  <2> QED BY <2>2 DEF S
<1> HIDE DEF de
<1> QED
  BY <1>3, <1>4, <1>5 DEF de

\* The copy, at every turn, for every length and from wherever to wherever it goes, also
\* when the source or the destination ends in the middle; no other byte of the video or
\* internal memory, no I/O register and not the boot ROM switch is written.
THEOREM CopiesBytes == Spec /\ CopyStarts => []CopyExact
<1>1. Init /\ CopyStarts => CopyInv
  <2> SUFFICES ASSUME Init, CopyStarts PROVE CopyInv
    OBVIOUS
  <2> DEFINE b == state.reg["B"]
  <2> DEFINE de == Pair("DE", state)
  <2> DEFINE hl == Pair("HL", state)
  <2>1. /\ CodeAt(state.rom, \h0240, CopyCode) /\ state.pc = \h0240 /\ b = state.reg["C"]
        /\ state.sp = de /\ state.sp \in VideoRam \cup \hFF80..\hFFFF
        /\ uint16(hl - de) \notin 1..255
    BY DEF CopyStarts, Enters
  <2>2. /\ StateOK(state) /\ state.video = Zeros /\ state.internal_memory = Zeros
        /\ state.interrupt_enabled = 0 /\ state.boot_rom_enabled
        /\ state.io = ResetIo /\ state.status = "running"
    <3>1. StateOK(state)
      BY LoadedType, CartridgesAssumption, CpusAssumption DEF Init
    <3> QED BY <3>1 DEF Init, Loaded
  <2>3. Turns(b) - Turns(b) = 0
    <3>1. Turns(b) \in Int
      BY <2>2, Members, CountTurns DEF Reg8
    <3> QED BY <3>1
  <2>4. Copied(0, hl, state)
    <3>1. de = uint16(state.sp + 0) /\ 0 \in 0..256 /\ 1..0 = {} /\ state.sp + 0 = state.sp
      <4>1. state.sp \in Int /\ state.sp \in Word
        BY <2>2, Members, WordIsInt
      <4>2. uint16(state.sp) = state.sp
        BY <4>1, Conversions
      <4> QED BY <2>1, <4>1, <4>2
    <3>2. /\ state.sp \in VideoRam => state.sp <= \hA000
          /\ state.sp \notin VideoRam => state.sp \in \hFF80..\hFFFF /\ state.sp <= \h10000
      <4>1. state.sp \in Int
        BY <2>2, Members, WordIsInt
      <4>2. state.sp \in VideoRam => state.sp < \hA000
        BY <4>1, Areas
      <4>3. state.sp \notin VideoRam => state.sp \in \hFF80..\hFFFF
        BY <2>1
      <4> QED BY <4>1, <4>2, <4>3
    <3> HIDE DEF hl
    <3> QED BY <2>1, <3>1, <3>2 DEF Copied
  <2>5. CopyWrites(0, state)
    BY <2>2 DEF CopyWrites, Zeros
  <2> QED BY <2>1, <2>2, <2>3, <2>4, <2>5 DEF CopyInv, Running
<1>2. TypeOK /\ CopyInv /\ [Next]_state => CopyInv'
  <2> SUFFICES ASSUME TypeOK, CopyInv, [Next]_state PROVE CopyInv'
    OBVIOUS
  <2>1. CASE UNCHANGED state
    BY <2>1 DEF CopyInv, Running, CodeAt
  <2>2. CASE process /\ state.status = "running"
    BY <2>2, CopySteps DEF Alive, TypeOK
  <2> QED BY <2>1, <2>2, RunningSteps
<1>3. TypeOK /\ CopyInv => CopyExact
  <2> SUFFICES ASSUME TypeOK, CopyInv PROVE CopyExact
    OBVIOUS
  <2> DEFINE b == state.reg["B"]
  <2> DEFINE n == Turns(state.reg["C"])
  <2> DEFINE d == n - Turns(b)
  <2> DEFINE de == Pair("DE", state)
  <2> DEFINE hl == Pair("HL", state)
  <2> DEFINE done == uint16(de - state.sp)
  <2> DEFINE Agree(source) == \A i \in 1..done :
           ByteAt(uint16(de - i), state) = ByteAt(uint16(source - i), state)
  <2>1. hl \in Int /\ uint16(hl) = hl /\ hl - 1 \in Int
    <3>1. hl \in Word
      BY PairType DEF TypeOK, Pairs
    <3> QED BY <3>1, WordSteps, Conversions
  <2>2. ASSUME NEW e, NEW h \in Int, NEW k \in {e, e + 1},
               Copied(e, uint16(h), state), CopyWrites(k, state)
        PROVE  done = e /\ Agree(h) /\ Touched(state) \subseteq state.sp..(state.sp + k - 1)
    BY <2>2, CopyShows
  <2>3. \/ Running /\ state.pc \in {\h0240, \h0241, \h0242, \h0243, \h0244, \h0246}
        \/ ~Running /\ state.pc \in {\h0241, \h0242, \h0247}
    BY DEF CopyInv
  <2>4. state.io = ResetIo /\ state.boot_rom_enabled
    BY DEF CopyInv, CopyWrites
  <2> HIDE DEF hl, d, Agree, done
  <2>5. ASSUME AtPc(\h0240) PROVE Agree(hl)
    <3>1. Copied(d, hl, state) /\ CopyWrites(d, state)
      BY <2>5 DEF CopyInv, AtPc, hl, d
    <3> QED BY <2>1, <2>2, <3>1
  <2>6. ASSUME AtPc(\h0246) PROVE done = n /\ Agree(hl)
    <3>1. Copied(n, hl, state) /\ CopyWrites(n, state)
      BY <2>6 DEF CopyInv, AtPc, hl
    <3> QED BY <2>1, <2>2, <3>1
  <2>7. ASSUME ~Running, state.pc = \h0242 PROVE de \in {\hA000, 0} /\ Agree(hl - 1)
    <3>1. Copied(d, uint16(hl - 1), state) /\ CopyWrites(d, state) /\ de \in {\hA000, 0}
      BY <2>7 DEF CopyInv, hl, d
    <3> QED BY <2>1, <2>2, <3>1
  <2>8. Touched(state) \subseteq state.sp..(state.sp + (IF AtPc(\h0242) THEN done + 1 ELSE done) - 1)
    <3>1. CASE AtPc(\h0242)
      <4>1. Copied(d, uint16(hl - 1), state) /\ CopyWrites(d + 1, state)
        BY <3>1 DEF CopyInv, AtPc, hl, d
      <4>2. done = d /\ Touched(state) \subseteq state.sp..(state.sp + (d + 1) - 1)
        BY <2>1, <2>2, <4>1
      <4> QED BY <3>1, <4>2
    <3>2. CASE ~AtPc(\h0242)
      <4>1. \E e, h : h \in Int /\ Copied(e, uint16(h), state) /\ CopyWrites(e, state)
        <5>1. \/ Copied(d, hl, state) /\ CopyWrites(d, state)
              \/ Copied(d, uint16(hl - 1), state) /\ CopyWrites(d, state)
              \/ Copied(d + 1, hl, state) /\ CopyWrites(d + 1, state)
              \/ Copied(n - b, hl, state) /\ CopyWrites(n - b, state)
              \/ Copied(n, hl, state) /\ CopyWrites(n, state)
          BY <2>3, <3>2 DEF CopyInv, AtPc, hl, d
        <5> HIDE DEF n, b
        <5> QED BY <2>1, <5>1
      <4>2. Touched(state) \subseteq state.sp..(state.sp + done - 1)
        BY <2>2, <4>1
      <4> QED BY <3>2, <4>2
    <3> QED BY <3>1, <3>2
  <2> QED BY <2>4, <2>5, <2>6, <2>7, <2>8 DEF CopyExact, hl, Agree, done
<1> QED
  BY <1>1, <1>2, <1>3, TypeCorrect, PTL DEF Spec

-----------------------------------------------------------------------------
(* The logo, doubled *)

\* The powers by name.
LEMMA Powers ==
  /\ Power[1] = 1 /\ Power[2] = 2 /\ Power[3] = 4 /\ Power[4] = 8 /\ Power[5] = 16
BY DEF Power

\* A nibble that grows by a bit doubles to four times as much and the bit twice.
LEMMA DoubledGrows ==
  ASSUME NEW n \in 0..7, NEW k \in 0..1
  PROVE  /\ Doubled(2 * n + k) = 4 * Doubled(n) + 3 * k
         /\ Doubled(n) \in 0..63 /\ (n < 1 => Doubled(n) = 0) /\ (n < 2 => Doubled(n) < 4)
         /\ (n < 4 => Doubled(n) < 16)
<1>1. /\ Doubled(0) = 0 /\ Doubled(1) = 3 /\ Doubled(2) = 12 /\ Doubled(3) = 15
      /\ Doubled(4) = 48 /\ Doubled(5) = 51 /\ Doubled(6) = 60 /\ Doubled(7) = 63
  BY DEF Doubled, BitOf
<1>2. /\ Doubled(8) = 192 /\ Doubled(9) = 195 /\ Doubled(10) = 204 /\ Doubled(11) = 207
      /\ Doubled(12) = 240 /\ Doubled(13) = 243 /\ Doubled(14) = 252 /\ Doubled(15) = 255
  BY DEF Doubled, BitOf
<1>3. n = 0 \/ n = 1 \/ n = 2 \/ n = 3 \/ n = 4 \/ n = 5 \/ n = 6 \/ n = 7
  OBVIOUS
<1>4. k = 0 \/ k = 1
  OBVIOUS
<1> QED
  BY <1>1, <1>2, <1>3, <1>4

\* The same, of a number m with one bit more.
LEMMA DoubledNext ==
  ASSUME NEW n \in 0..7, NEW k \in 0..1, NEW m, m = 2 * n + k, NEW g, g = Doubled(n)
  PROVE  /\ Doubled(m) = 4 * g + 3 * k /\ g \in 0..63
         /\ (n < 1 => g = 0) /\ (n < 2 => g < 4) /\ (n < 4 => g < 16)
<1>1. /\ Doubled(2 * n + k) = 4 * Doubled(n) + 3 * k
      /\ Doubled(n) \in 0..63 /\ (n < 1 => Doubled(n) = 0) /\ (n < 2 => Doubled(n) < 4)
      /\ (n < 4 => Doubled(n) < 16)
  BY DoubledGrows
<1> QED
  BY <1>1

\* The result of a rotation, as the code computes it.
Rolled(v, k) == uint8(2 * v) + k

\* It drops the highest bit.
LEMMA RolledByte ==
  ASSUME NEW v \in Byte, NEW k \in 0..1
  PROVE  /\ Rolled(v, k) \in Byte /\ Rolled(v, k) = 2 * (v % 128) + k /\ v % 128 \in 0..127
<1>1. (2 * v) % 256 = 2 * (v % 128) /\ v % 128 \in 0..127
  BY DEF Byte, MaxByte
<1> QED
  BY <1>1 DEF Rolled, uint8, Byte, MaxByte

\* The upper bits of a byte, one more at a time.
LEMMA OneBitMore ==
  ASSUME NEW w \in Byte
  PROVE  /\ w \div 256 = 0 /\ w \div 128 \in 0..1 /\ w \div 64 \in 0..3 /\ w \div 32 \in 0..7
         /\ w \div 128 = 2 * (w \div 256) + ((w \div 128) % 2)
         /\ w \div 64 = 2 * (w \div 128) + ((w \div 64) % 2)
         /\ w \div 32 = 2 * (w \div 64) + ((w \div 32) % 2)
         /\ w \div 16 = 2 * (w \div 32) + ((w \div 16) % 2)
         /\ (w \div 128) % 2 \in 0..1 /\ (w \div 64) % 2 \in 0..1
         /\ (w \div 32) % 2 \in 0..1 /\ (w \div 16) % 2 \in 0..1
<1>1. /\ w \div 256 = 0 /\ w \div 128 \in 0..1 /\ w \div 64 \in 0..3 /\ w \div 32 \in 0..7
  BY DEF Byte, MaxByte
<1>2. w \div 128 = 2 * (w \div 256) + ((w \div 128) % 2) /\ (w \div 128) % 2 \in 0..1
  BY DEF Byte, MaxByte
<1>3. w \div 64 = 2 * (w \div 128) + ((w \div 64) % 2) /\ (w \div 64) % 2 \in 0..1
  BY DEF Byte, MaxByte
<1>4. w \div 32 = 2 * (w \div 64) + ((w \div 32) % 2) /\ (w \div 32) % 2 \in 0..1
  BY DEF Byte, MaxByte
<1>5. w \div 16 = 2 * (w \div 32) + ((w \div 16) % 2) /\ (w \div 16) % 2 \in 0..1
  BY DEF Byte, MaxByte
<1> QED
  BY <1>1, <1>2, <1>3, <1>4, <1>5

\* The turns one by one.
LEMMA TurnByTurn ==
  ASSUME NEW w \in Byte, NEW c \in Byte
  PROVE  /\ Rotated(w, 4, c) <=> c = w
         /\ Rotated(w, 3, c) <=> c \div 2 = w % 128
         /\ Rotated(w, 2, c) <=> c \div 4 = w % 64
         /\ Rotated(w, 1, c) <=> c \div 8 = w % 32
         /\ Rotated(w, 0, c) <=> c \div 16 = w % 16
         /\ Leaving(w, 4) = (w \div 128) % 2 /\ Leaving(w, 3) = (w \div 64) % 2
         /\ Leaving(w, 2) = (w \div 32) % 2 /\ Leaving(w, 1) = (w \div 16) % 2
<1>1. 5 - 4 = 1 /\ 5 - 3 = 2 /\ 5 - 2 = 3 /\ 5 - 1 = 4 /\ 5 - 0 = 5 /\ 4 + 1 = 5 /\ 3 + 1 = 4
      /\ 2 + 1 = 3 /\ 1 + 1 = 2 /\ 0 + 1 = 1
  OBVIOUS
<1>2. c \div 1 = c /\ w % 256 = w
  BY DEF Byte, MaxByte
<1>3. Rotated(w, 4, c) <=> c = w
  BY <1>1, <1>2, Powers DEF Rotated
<1> QED
  BY <1>1, <1>3, Powers DEF Rotated, Leaving

\* and its low bits.
LEMMA RolledPlaces ==
  ASSUME NEW a \in Byte, NEW k \in 0..1
  PROVE  LET r == Rolled(a, k)
         IN  /\ r % 2 = k /\ r % 4 = 2 * (a % 2) + k /\ r % 8 = 2 * (a % 4) + k
             /\ r % 16 = 2 * (a % 8) + k /\ r % 32 = 2 * (a % 16) + k
             /\ r % 64 = 2 * (a % 32) + k /\ r % 128 = 2 * (a % 64) + k
             /\ r % 256 = 2 * (a % 128) + k
<1> DEFINE u == a % 128
<1>1. /\ u \in 0..127 /\ a % 2 = u % 2 /\ a % 4 = u % 4 /\ a % 8 = u % 8 /\ a % 16 = u % 16
      /\ a % 32 = u % 32 /\ a % 64 = u % 64
  BY SMTT(20) DEF Byte, MaxByte
<1>0. Rolled(a, k) = 2 * u + k /\ u = a % 128
  BY RolledByte
<1> HIDE DEF u
<1>2. (2 * u + k) % 2 = k /\ (2 * u + k) % 4 = 2 * (u % 2) + k
  BY <1>1
<1>3. (2 * u + k) % 8 = 2 * (u % 4) + k
  BY <1>1
<1>4. (2 * u + k) % 16 = 2 * (u % 8) + k
  BY <1>1
<1>5. (2 * u + k) % 32 = 2 * (u % 16) + k
  BY <1>1
<1>6. (2 * u + k) % 64 = 2 * (u % 32) + k
  BY <1>1
<1>7. (2 * u + k) % 128 = 2 * (u % 64) + k
  BY <1>1
<1>8. (2 * u + k) % 256 = 2 * u + k
  BY <1>1
<1> QED
  BY <1>0, <1>1, <1>2, <1>3, <1>4, <1>5, <1>6, <1>7, <1>8

\* A rotation of c takes the leaving bit out of it and makes it the next turn's c,
LEMMA TurnsSource ==
  ASSUME NEW w \in Byte, NEW b \in 1..4, NEW c \in Byte, Rotated(w, b, c), NEW k \in 0..1
  PROVE  /\ BitOf(c, \h80) = Leaving(w, b)
         /\ Rotated(w, b - 1, Rolled(c, k))
<1>0. Rolled(c, k) \in Byte /\ BitOf(c, \h80) = c \div 128
  BY DEF Rolled, uint8, Byte, MaxByte, BitOf
<1>1. CASE b = 4
  <2>1. c = w
    BY <1>1, TurnByTurn
  <2>2. Rolled(c, k) \div 2 = w % 128
    <3>1. (2 * c) % 256 = 2 * (c % 128)
      BY DEF Byte, MaxByte
    <3>2. c % 128 \in Int
      BY DEF Byte, MaxByte
    <3> DEFINE x == c % 128
    <3> HIDE DEF x
    <3>3. (2 * x + k) \div 2 = x
      <4>1. x \in Int
        BY <3>2 DEF x
      <4> QED BY <4>1
    <3> QED BY <2>1, <3>1, <3>3 DEF Rolled, uint8, x
  <2>3. BitOf(c, \h80) = (w \div 128) % 2
    BY <2>1 DEF BitOf
  <2> QED BY <1>0, <1>1, <2>2, <2>3, TurnByTurn
<1>2. CASE b = 3
  <2>1. c \div 2 = w % 128
    BY <1>2, TurnByTurn
  <2>2. Rolled(c, k) \div 4 = w % 64
    BY <2>1 DEF Rolled, uint8, Byte, MaxByte
  <2>3. c \div 128 = (w \div 64) % 2
    BY <2>1 DEF Byte, MaxByte
  <2> QED BY <1>0, <1>2, <2>2, <2>3, TurnByTurn
<1>3. CASE b = 2
  <2>1. c \div 4 = w % 64
    BY <1>3, TurnByTurn
  <2>2. Rolled(c, k) \div 8 = w % 32
    BY <2>1 DEF Rolled, uint8, Byte, MaxByte
  <2>3. c \div 128 = (w \div 32) % 2
    BY <2>1 DEF Byte, MaxByte
  <2> QED BY <1>0, <1>3, <2>2, <2>3, TurnByTurn
<1>4. CASE b = 1
  <2>1. c \div 8 = w % 32
    BY <1>4, TurnByTurn
  <2>2. Rolled(c, k) \div 16 = w % 16
    <3>1. (2 * c) % 256 = 2 * (c % 128)
      BY DEF Byte, MaxByte
    <3>2. c % 128 = 8 * ((c \div 8) % 16) + (c % 8) /\ c % 8 \in 0..7
      BY DEF Byte, MaxByte
    <3>3. (c \div 8) % 16 = w % 16
      BY <2>1 DEF Byte, MaxByte
    <3> DEFINE q == w % 16
    <3> DEFINE r == c % 8
    <3>4. Rolled(c, k) = 16 * q + (2 * r + k) /\ q \in Int /\ r \in 0..7
      BY <3>1, <3>2, <3>3 DEF Rolled, uint8, Byte, MaxByte
    <3> HIDE DEF q, r
    <3>5. (16 * q + (2 * r + k)) \div 16 = q
      BY <3>4
    <3> QED BY <3>4, <3>5 DEF q
  <2>3. c \div 128 = (w \div 16) % 2
    BY <2>1 DEF Byte, MaxByte
  <2> QED BY <1>0, <1>4, <2>2, <2>3, TurnByTurn
<1> QED
  BY <1>1, <1>2, <1>3, <1>4

\* What a turn appends to a,
LEMMA TurnsTarget ==
  ASSUME NEW w \in Byte, NEW a \in Byte
  PROVE  /\ (Target(w, 4, a) <=> a % 1 = Gone(w, 4)) /\ (Target(w, 3, a) <=> a % 4 = Gone(w, 3))
         /\ (Target(w, 2, a) <=> a % 16 = Gone(w, 2)) /\ (Target(w, 1, a) <=> a % 64 = Gone(w, 1))
         /\ (Target(w, 0, a) <=> a % 256 = Gone(w, 0))
         /\ Half(w, 4, a) <=> a % 2 = 2 * Gone(w, 4) + Leaving(w, 4)
         /\ Half(w, 3, a) <=> a % 8 = 2 * Gone(w, 3) + Leaving(w, 3)
         /\ Half(w, 2, a) <=> a % 32 = 2 * Gone(w, 2) + Leaving(w, 2)
         /\ Half(w, 1, a) <=> a % 128 = 2 * Gone(w, 1) + Leaving(w, 1)
         /\ Gone(w, 4) = Doubled(w \div 256) /\ Gone(w, 3) = Doubled(w \div 128)
         /\ Gone(w, 2) = Doubled(w \div 64) /\ Gone(w, 1) = Doubled(w \div 32)
         /\ Gone(w, 0) = Doubled(w \div 16)
<1>1. 5 - 4 = 1 /\ 5 - 3 = 2 /\ 5 - 2 = 3 /\ 5 - 1 = 4 /\ 5 - 0 = 5 /\ 4 + 1 = 5 /\ 3 + 1 = 4
      /\ 2 + 1 = 3 /\ 1 + 1 = 2 /\ 0 + 1 = 1
  OBVIOUS
<1> QED
  BY <1>1, Powers DEF Target, Half, Gone

\* in two rotations through the carry.
LEMMA TurnsHalf ==
  ASSUME NEW w \in Byte, NEW b \in 1..4, NEW a \in Byte, NEW k, k = Leaving(w, b)
  PROVE  /\ Target(w, b, a) => Half(w, b, Rolled(a, k))
         /\ Half(w, b, a) => Target(w, b - 1, Rolled(a, k))
<1> DEFINE g == Gone(w, b)
<1>1. /\ k \in 0..1 /\ g \in 0..63 /\ Gone(w, b - 1) = 4 * g + 3 * k
      /\ (b = 4 => g = 0) /\ (b = 3 => g < 4) /\ (b = 2 => g < 16)
  <2>1. CASE b = 4
    <3> DEFINE n == w \div 256
    <3> DEFINE m == w \div 128
    <3>1. n \in 0..7 /\ n < 1 /\ m = 2 * n + k /\ k \in 0..1
      BY <2>1, OneBitMore, TurnByTurn
    <3>2. g = Doubled(n) /\ Gone(w, b - 1) = Doubled(m)
      BY <2>1, TurnsTarget
    <3> HIDE DEF n, m, g
    <3>3. /\ Doubled(m) = 4 * g + 3 * k /\ g \in 0..63
          /\ (n < 1 => g = 0) /\ (n < 2 => g < 4) /\ (n < 4 => g < 16)
      BY <3>1, <3>2, DoubledNext
    <3> QED BY <2>1, <3>1, <3>2, <3>3
  <2>2. CASE b = 3
    <3> DEFINE n == w \div 128
    <3> DEFINE m == w \div 64
    <3>1. n \in 0..7 /\ n < 2 /\ m = 2 * n + k /\ k \in 0..1
      BY <2>2, OneBitMore, TurnByTurn
    <3>2. g = Doubled(n) /\ Gone(w, b - 1) = Doubled(m)
      BY <2>2, TurnsTarget
    <3> HIDE DEF n, m, g
    <3>3. /\ Doubled(m) = 4 * g + 3 * k /\ g \in 0..63
          /\ (n < 1 => g = 0) /\ (n < 2 => g < 4) /\ (n < 4 => g < 16)
      BY <3>1, <3>2, DoubledNext
    <3> QED BY <2>2, <3>1, <3>2, <3>3
  <2>3. CASE b = 2
    <3> DEFINE n == w \div 64
    <3> DEFINE m == w \div 32
    <3>1. n \in 0..7 /\ n < 4 /\ m = 2 * n + k /\ k \in 0..1
      BY <2>3, OneBitMore, TurnByTurn
    <3>2. g = Doubled(n) /\ Gone(w, b - 1) = Doubled(m)
      BY <2>3, TurnsTarget
    <3> HIDE DEF n, m, g
    <3>3. /\ Doubled(m) = 4 * g + 3 * k /\ g \in 0..63
          /\ (n < 1 => g = 0) /\ (n < 2 => g < 4) /\ (n < 4 => g < 16)
      BY <3>1, <3>2, DoubledNext
    <3> QED BY <2>3, <3>1, <3>2, <3>3
  <2>4. CASE b = 1
    <3> DEFINE n == w \div 32
    <3> DEFINE m == w \div 16
    <3>1. n \in 0..7 /\ m = 2 * n + k /\ k \in 0..1
      BY <2>4, OneBitMore, TurnByTurn
    <3>2. g = Doubled(n) /\ Gone(w, b - 1) = Doubled(m)
      BY <2>4, TurnsTarget
    <3> HIDE DEF n, m, g
    <3>3. /\ Doubled(m) = 4 * g + 3 * k /\ g \in 0..63
          /\ (n < 1 => g = 0) /\ (n < 2 => g < 4) /\ (n < 4 => g < 16)
      BY <3>1, <3>2, DoubledNext
    <3> QED BY <2>4, <3>1, <3>2, <3>3
  <2> QED BY <2>1, <2>2, <2>3, <2>4
<1> DEFINE r == Rolled(a, k)
<1>2. r \in Byte /\ r = 2 * (a % 128) + k
  BY <1>1, RolledByte
<1> HIDE DEF g, r
<1>21. /\ r % 2 = k /\ r % 4 = 2 * (a % 2) + k /\ r % 8 = 2 * (a % 4) + k
       /\ r % 16 = 2 * (a % 8) + k /\ r % 32 = 2 * (a % 16) + k /\ r % 64 = 2 * (a % 32) + k
       /\ r % 128 = 2 * (a % 64) + k /\ r % 256 = 2 * (a % 128) + k
  <2>1. k \in 0..1
    BY <1>1
  <2> QED BY <2>1, RolledPlaces DEF r
<1>3. CASE b = 4
  <2>1. r % 2 = k
    BY <1>1, <1>21
  <2>2. a % 2 = 2 * g + k => r % 4 = 4 * g + 3 * k
    BY <1>1, <1>21, <1>3
  <2> QED BY <1>1, <1>2, <1>3, <2>1, <2>2, TurnsTarget DEF g, r
<1>4. CASE b = 3
  <2>1. a % 4 = g => r % 8 = 2 * g + k
    BY <1>1, <1>21, <1>4
  <2>2. a % 8 = 2 * g + k => r % 16 = 4 * g + 3 * k
    BY <1>1, <1>21, <1>4
  <2> QED BY <1>1, <1>2, <1>4, <2>1, <2>2, TurnsTarget DEF g, r
<1>5. CASE b = 2
  <2>1. a % 16 = g => r % 32 = 2 * g + k
    BY <1>1, <1>21, <1>5
  <2>2. a % 32 = 2 * g + k => r % 64 = 4 * g + 3 * k
    BY <1>1, <1>21, <1>5
  <2> QED BY <1>1, <1>2, <1>5, <2>1, <2>2, TurnsTarget DEF g, r
<1>6. CASE b = 1
  <2>1. a % 64 = g => r % 128 = 2 * g + k
    BY <1>1, <1>21, <1>6
  <2>2. a % 128 = 2 * g + k => r % 256 = 4 * g + 3 * k
    BY <1>1, <1>21, <1>6
  <2> QED BY <1>1, <1>2, <1>6, <2>1, <2>2, TurnsTarget DEF g, r
<1> QED
  BY <1>3, <1>4, <1>5, <1>6

\* RL r
LEMMA RunRotate ==
  ASSUME Alive(state), process, NEW b, Finds(state.pc, b, state),
         instructions[b] = Ins("PrefixCB", <<>>, 4), NEW x \in Reg8,
         NEW e, Finds(uint16(state.pc + 1), e, state),
         extended_instructions[e] = Ins("RotateLeft", <<x>>, 8)
  PROVE  /\ Straight(2)
         /\ state'.reg = Put(state.reg, x, Rolled(state.reg[x], IF "Carry" \in state.flags THEN 1 ELSE 0))
         /\ "Carry" \in state'.flags <=> BitOf(state.reg[x], \h80) = 1
<1> DEFINE f == Fetched.st
<1>1. Took(1, state, f) /\ state' = Charge(4, process_cb(f))
  BY Dispatch DEF Ins
<1> HIDE DEF f
<1>2. Passed(1, f) /\ state.reg[x] \in Byte
  BY <1>1, BehindOpcode
<1> DEFINE g == Fetch(f).st
<1>3. Fetch(f).val = e /\ Passed(2, g)
  <2>1. 1 \in Int /\ 1 + 1 = 2
    OBVIOUS
  <2> DEFINE n == 1
  <2>2. n \in Int /\ Passed(n, f) /\ Finds(uint16(state.pc + n), e, state)
    BY <1>2
  <2> HIDE DEF n, g
  <2>3. Fetch(f).val = e /\ Passed(n + 1, Fetch(f).st)
    BY <2>2, NextByte
  <2> QED BY <2>1, <2>3 DEF n, g
<1> DEFINE alu == AluRotateLeft(state.reg[x], state.flags)
<1> DEFINE flagged == SetFlags(alu.flags, g)
<1> DEFINE done == Set(x, alu.result, flagged)
<1>4. process_cb(f) = Charge(8, done)
  <2>1. Get(x, g) = Value(state.reg[x], g)
    BY <1>3 DEF Get, Reg8, Pairs, Pointers, Passed
  <2>2. RotateLeft(x, g) = done
    BY <1>3, <2>1 DEF RotateLeft, Value, Passed
  <2>3. /\ extended_instructions[e].op = "RotateLeft" /\ extended_instructions[e].args[1] = x
        /\ extended_instructions[e].cycles = 8
    BY DEF Ins
  <2> HIDE DEF done, g
  <2>4. process_cb(f) = Charge(8, RotateLeft(x, Fetch(f).st))
    BY <1>3, <2>3 DEF process_cb
  <2> QED BY <2>2, <2>4 DEF g
<1> HIDE DEF g
<1>5. /\ alu.result = Rolled(state.reg[x], IF "Carry" \in state.flags THEN 1 ELSE 0)
      /\ alu.result \in Byte /\ alu.flags \in SUBSET FlagNames
      /\ "Carry" \in alu.flags <=> BitOf(state.reg[x], \h80) = 1
  <2>1. alu.result = Rolled(state.reg[x], IF "Carry" \in state.flags THEN 1 ELSE 0)
    BY DEF AluRotateLeft, Rolled
  <2>2. "Carry" \in alu.flags <=> BitOf(state.reg[x], \h80) = 1
    BY DEF AluRotateLeft, FlagIf
  <2>3. alu.flags \in SUBSET FlagNames
    BY DEF AluRotateLeft, FlagIf, FlagNames
  <2> QED BY <1>2, <2>1, <2>2, <2>3, RolledByte
<1> HIDE DEF alu
<1>6. /\ Alive(flagged) /\ Kept(g, flagged) /\ flagged.pc = g.pc /\ flagged.sp = g.sp
      /\ flagged.reg = g.reg /\ flagged.flags = alu.flags
  BY <1>3, <1>5, SetFlagsEffect, SetFlagsType DEF Alive, Passed
<1> HIDE DEF flagged
<1>7. alu.result \in Int /\ uint8(alu.result) = alu.result
  BY <1>5, ByteFits
<1>8. /\ Alive(done) /\ Kept(flagged, done) /\ done.pc = flagged.pc /\ done.sp = flagged.sp
      /\ done.flags = flagged.flags /\ done.reg = Put(flagged.reg, x, alu.result)
  BY <1>6, <1>7, PutRegister
<1> HIDE DEF done
<1> DEFINE charged == Charge(8, done)
<1>9. Ended(done, charged)
  BY <1>8, Charged
<1>10. state' = Charge(4, charged)
  BY <1>1, <1>4
<1> HIDE DEF charged
<1>11. Ended(charged, state')
  <2>1. Alive(charged)
    BY <1>9 DEF Ended
  <2> QED BY <1>10, <2>1, Charged
<1> QED
  BY <1>3, <1>5, <1>6, <1>8, <1>9, <1>11 DEF Passed, Straight, Ended, Kept

\* The bytes of the program, where the CPU reads them.
LEMMA ScaleCodeAt ==
  ASSUME NEW s, CodeAt(s.rom, \h0200, ScaleCode)
  PROVE  /\ Finds(\h0200, \h11, s) /\ Finds(\h0201, \h04, s) /\ Finds(\h0202, \h01, s)
         /\ Finds(\h0203, \h21, s) /\ Finds(\h0204, \h10, s) /\ Finds(\h0205, \h80, s)
         /\ Finds(\h0206, \h1A, s)
         /\ Finds(\h0207, \hCD, s) /\ Finds(\h0208, \h15, s) /\ Finds(\h0209, \h02, s)
         /\ Finds(\h020A, \hCD, s) /\ Finds(\h020B, \h16, s) /\ Finds(\h020C, \h02, s)
         /\ Finds(\h020D, \h13, s) /\ Finds(\h020E, \h7B, s)
         /\ Finds(\h020F, \hFE, s) /\ Finds(\h0210, \h34, s)
         /\ Finds(\h0211, \h20, s) /\ Finds(\h0212, \hF3, s) /\ Finds(\h0213, \hFF, s)
         /\ Finds(\h0215, \h4F, s) /\ Finds(\h0216, \h06, s) /\ Finds(\h0217, \h04, s)
         /\ Finds(\h0218, \hC5, s) /\ Finds(\h0219, \hCB, s) /\ Finds(\h021A, \h11, s)
         /\ Finds(\h021B, \hCB, s) /\ Finds(\h021C, \h17, s) /\ Finds(\h021D, \hC1, s)
         /\ Finds(\h021E, \hCB, s) /\ Finds(\h021F, \h11, s)
         /\ Finds(\h0220, \hCB, s) /\ Finds(\h0221, \h17, s) /\ Finds(\h0222, \h05, s)
         /\ Finds(\h0223, \h20, s) /\ Finds(\h0224, \hF3, s)
         /\ Finds(\h0225, \h22, s) /\ Finds(\h0226, \h23, s)
         /\ Finds(\h0227, \h22, s) /\ Finds(\h0228, \h23, s) /\ Finds(\h0229, \hC9, s)
<1>1. /\ ScaleCode[1] = \h11 /\ ScaleCode[2] = \h04 /\ ScaleCode[3] = \h01
      /\ ScaleCode[4] = \h21 /\ ScaleCode[5] = \h10 /\ ScaleCode[6] = \h80
      /\ ScaleCode[7] = \h1A /\ ScaleCode[8] = \hCD /\ ScaleCode[9] = \h15
      /\ ScaleCode[10] = \h02 /\ ScaleCode[11] = \hCD /\ ScaleCode[12] = \h16
      /\ ScaleCode[13] = \h02 /\ ScaleCode[14] = \h13 /\ ScaleCode[15] = \h7B
      /\ ScaleCode[16] = \hFE /\ ScaleCode[17] = \h34 /\ ScaleCode[18] = \h20
      /\ ScaleCode[19] = \hF3 /\ ScaleCode[20] = \hFF /\ ScaleCode[21] = \hFF
      /\ ScaleCode[22] = \h4F /\ ScaleCode[23] = \h06 /\ ScaleCode[24] = \h04
      /\ ScaleCode[25] = \hC5 /\ ScaleCode[26] = \hCB /\ ScaleCode[27] = \h11
      /\ ScaleCode[28] = \hCB /\ ScaleCode[29] = \h17 /\ ScaleCode[30] = \hC1
      /\ ScaleCode[31] = \hCB /\ ScaleCode[32] = \h11 /\ ScaleCode[33] = \hCB
      /\ ScaleCode[34] = \h17 /\ ScaleCode[35] = \h05 /\ ScaleCode[36] = \h20
      /\ ScaleCode[37] = \hF3 /\ ScaleCode[38] = \h22 /\ ScaleCode[39] = \h23
      /\ ScaleCode[40] = \h22 /\ ScaleCode[41] = \h23 /\ ScaleCode[42] = \hC9
      /\ Len(ScaleCode) = 42
  BY DEF ScaleCode
<1>2. ASSUME NEW i \in 1..42 PROVE Finds(\h01FF + i, ScaleCode[i], s)
  <2> DEFINE a == \h01FF + i
  <2>1. /\ \h0200 \in Int /\ \h0200 > \h0100 /\ a = \h0200 + i - 1 /\ a < \h2000 /\ i \in Int
        /\ i \in 1..Len(ScaleCode)
    BY <1>1
  <2> HIDE DEF a
  <2>2. Finds(a, ScaleCode[i], s)
    BY <2>1, CodeFinds, SMTT(20)
  <2> QED BY <2>2 DEF a
<1>3. /\ Finds(\h01FF + 1, ScaleCode[1], s) /\ Finds(\h01FF + 2, ScaleCode[2], s)
      /\ Finds(\h01FF + 3, ScaleCode[3], s) /\ Finds(\h01FF + 4, ScaleCode[4], s)
      /\ Finds(\h01FF + 5, ScaleCode[5], s) /\ Finds(\h01FF + 6, ScaleCode[6], s)
      /\ Finds(\h01FF + 7, ScaleCode[7], s) /\ Finds(\h01FF + 8, ScaleCode[8], s)
      /\ Finds(\h01FF + 9, ScaleCode[9], s) /\ Finds(\h01FF + 10, ScaleCode[10], s)
      /\ Finds(\h01FF + 11, ScaleCode[11], s) /\ Finds(\h01FF + 12, ScaleCode[12], s)
      /\ Finds(\h01FF + 13, ScaleCode[13], s) /\ Finds(\h01FF + 14, ScaleCode[14], s)
      /\ Finds(\h01FF + 15, ScaleCode[15], s) /\ Finds(\h01FF + 16, ScaleCode[16], s)
      /\ Finds(\h01FF + 17, ScaleCode[17], s) /\ Finds(\h01FF + 18, ScaleCode[18], s)
      /\ Finds(\h01FF + 19, ScaleCode[19], s) /\ Finds(\h01FF + 20, ScaleCode[20], s)
      /\ Finds(\h01FF + 21, ScaleCode[21], s) /\ Finds(\h01FF + 22, ScaleCode[22], s)
      /\ Finds(\h01FF + 23, ScaleCode[23], s) /\ Finds(\h01FF + 24, ScaleCode[24], s)
      /\ Finds(\h01FF + 25, ScaleCode[25], s) /\ Finds(\h01FF + 26, ScaleCode[26], s)
      /\ Finds(\h01FF + 27, ScaleCode[27], s) /\ Finds(\h01FF + 28, ScaleCode[28], s)
      /\ Finds(\h01FF + 29, ScaleCode[29], s) /\ Finds(\h01FF + 30, ScaleCode[30], s)
      /\ Finds(\h01FF + 31, ScaleCode[31], s) /\ Finds(\h01FF + 32, ScaleCode[32], s)
      /\ Finds(\h01FF + 33, ScaleCode[33], s) /\ Finds(\h01FF + 34, ScaleCode[34], s)
      /\ Finds(\h01FF + 35, ScaleCode[35], s) /\ Finds(\h01FF + 36, ScaleCode[36], s)
      /\ Finds(\h01FF + 37, ScaleCode[37], s) /\ Finds(\h01FF + 38, ScaleCode[38], s)
      /\ Finds(\h01FF + 39, ScaleCode[39], s) /\ Finds(\h01FF + 40, ScaleCode[40], s)
      /\ Finds(\h01FF + 41, ScaleCode[41], s) /\ Finds(\h01FF + 42, ScaleCode[42], s)
  BY <1>2
<1> QED
  BY <1>1, <1>3

\* The rows of its opcodes.
LEMMA ScaleRows ==
  /\ instructions[\h11] = Ins("Load", <<"DE", "D16">>, 12)
  /\ instructions[\h21] = Ins("Load", <<"HL", "D16">>, 12)
  /\ instructions[\h1A] = Ins("Load", <<"A", "PtrDE">>, 8)
  /\ instructions[\hCD] = Ins("Call", <<"Always", "D16">>, 12)
  /\ instructions[\h13] = Ins("Inc", <<"DE">>, 8)
  /\ instructions[\h7B] = Ins("Load", <<"A", "E">>, 4)
  /\ instructions[\hFE] = Ins("Compare", <<"D8">>, 8)
  /\ instructions[\h20] = Ins("JumpRelative", <<"NZ", "D8">>, 8)
  /\ instructions[\hFF] = Null
  /\ instructions[\h4F] = Ins("Load", <<"C", "A">>, 4)
  /\ instructions[\h06] = Ins("Load", <<"B", "D8">>, 8)
  /\ instructions[\hC5] = Ins("Push", <<"BC">>, 16)
  /\ instructions[\hCB] = Ins("PrefixCB", <<>>, 4)
  /\ instructions[\hC1] = Ins("Pop", <<"BC">>, 12)
  /\ instructions[\h05] = Ins("Dec", <<"B">>, 4)
  /\ instructions[\h22] = Ins("Load", <<"PtrHLIncr", "A">>, 8)
  /\ instructions[\h23] = Ins("Inc", <<"HL">>, 8)
  /\ instructions[\hC9] = Ins("Ret", <<"Always">>, 4)
  /\ extended_instructions[\h11] = Ins("RotateLeft", <<"C">>, 8)
  /\ extended_instructions[\h17] = Ins("RotateLeft", <<"A">>, 8)
<1>1. /\ instructions[\h11] = Rows00(2, 1) /\ instructions[\h1A] = Rows00(3, 2)
      /\ instructions[\h13] = Rows00(2, 3) /\ instructions[\h06] = Rows00(0, 6)
      /\ instructions[\h22] = Rows00(4, 2) /\ instructions[\h23] = Rows00(4, 3)
      /\ instructions[\h7B] = Rows01(7, 3) /\ instructions[\h4F] = Rows01(1, 7)
      /\ instructions[\hFE] = Rows11(7, 6) /\ instructions[\hCB] = Rows11(1, 3)
  BY DEF instructions
<1>2. /\ Rows00(2, 1) = Ins("Load", <<"DE", "D16">>, 12)
      /\ Rows00(3, 2) = Ins("Load", <<"A", "PtrDE">>, 8) /\ Rows00(2, 3) = Ins("Inc", <<"DE">>, 8)
      /\ Rows00(0, 6) = Ins("Load", <<"B", "D8">>, 8)
      /\ Rows00(4, 2) = Ins("Load", <<"PtrHLIncr", "A">>, 8)
      /\ Rows00(4, 3) = Ins("Inc", <<"HL">>, 8)
  BY DEF Rows00, Operand16, PtrOperand, Operand8, MemoryOr
<1>3. Rows01(7, 3) = Ins("Load", <<"A", "E">>, 4) /\ Rows01(1, 7) = Ins("Load", <<"C", "A">>, 4)
  BY DEF Rows01, Operand8, MemoryOr
<1>4. Rows11(7, 6) = Ins("Compare", <<"D8">>, 8) /\ Rows11(1, 3) = Ins("PrefixCB", <<>>, 4)
  BY DEF Rows11, ArithmeticRow, Arithmetic
<1>5. /\ extended_instructions[\h11] = ExtRows00(2, "C")
      /\ extended_instructions[\h17] = ExtRows00(2, "A")
  BY DEF extended_instructions, Operand8
<1>6. /\ ExtRows00(2, "C") = Ins("RotateLeft", <<"C">>, 8)
      /\ ExtRows00(2, "A") = Ins("RotateLeft", <<"A">>, 8)
  BY DEF ExtRows00, Rotation, ExtendedCycles
<1> QED
  BY <1>1, <1>2, <1>3, <1>4, <1>5, <1>6, ProgramRows, MultiplyRows

\* What a turn of the loop leaves alone.
Beside ==
  /\ Alive(state') /\ state'.video = state.video /\ state'.rom = state.rom
  /\ Pair("DE", state') = Pair("DE", state) /\ Pair("HL", state') = Pair("HL", state)
  /\ WordAt(1, state') = WordAt(1, state)

\* An instruction that stores in A, B or C.
LEMMA OneRegister ==
  ASSUME Alive(state), NEW n, Straight(n), NEW x \in {"A", "B", "C"}, NEW v,
         state'.reg = Put(state.reg, x, v)
  PROVE  /\ Beside /\ WordAt(2, state') = WordAt(2, state)
         /\ state'.reg[x] = v /\ \A y \in Reg8 \ {x} : state'.reg[y] = state.reg[y]
<1>1. state.reg \in [Reg8 -> Byte] /\ x \in Reg8
  BY Members DEF Alive, Reg8
<1>2. state'.reg[x] = v /\ \A y \in Reg8 \ {x} : state'.reg[y] = state.reg[y]
  BY <1>1 DEF Put
<1>3. Pair("DE", state') = Pair("DE", state) /\ Pair("HL", state') = Pair("HL", state)
  BY <1>2 DEF Pair, High, Low, Reg8
<1>4. Alive(state') /\ Kept(state, state') /\ state'.video = state.video /\ state'.rom = state.rom
  BY DEF Straight, Kept
<1>5. WordAt(1, state') = WordAt(1, state) /\ WordAt(2, state') = WordAt(2, state)
  BY <1>4, KeptBytes DEF WordAt
<1> QED
  BY <1>2, <1>3, <1>4, <1>5 DEF Beside

\* The rotations of a turn.
LEMMA RunRotateLeft ==
  ASSUME Alive(state), process, NEW x \in {"A", "C"}, NEW e, NEW k \in 0..1,
         "Carry" \in state.flags <=> k = 1,
         Finds(state.pc, \hCB, state), Finds(uint16(state.pc + 1), e, state),
         extended_instructions[e] = Ins("RotateLeft", <<x>>, 8)
  PROVE  /\ Beside /\ state'.pc = uint16(state.pc + 2) /\ state'.sp = state.sp
         /\ state'.reg[x] = Rolled(state.reg[x], k)
         /\ \A y \in Reg8 \ {x} : state'.reg[y] = state.reg[y]
         /\ "Carry" \in state'.flags <=> BitOf(state.reg[x], \h80) = 1
         /\ WordAt(2, state') = WordAt(2, state)
<1>1. x \in Reg8 /\ x \in {"A", "B", "C"} /\ k = IF "Carry" \in state.flags THEN 1 ELSE 0
  BY DEF Reg8
<1>2. /\ Straight(2) /\ state'.reg = Put(state.reg, x, Rolled(state.reg[x], k))
      /\ "Carry" \in state'.flags <=> BitOf(state.reg[x], \h80) = 1
  <2> DEFINE b == \hCB
  <2>1. Finds(state.pc, b, state) /\ instructions[b] = Ins("PrefixCB", <<>>, 4)
    BY ScaleRows
  <2> HIDE DEF b
  <2> QED BY <1>1, <2>1, RunRotate
<1> QED
  BY <1>1, <1>2, OneRegister DEF Straight

\* The turns.
LEMMA TurnSteps ==
  ASSUME Alive(state), CodeAt(state.rom, \h0200, ScaleCode), process,
         NEW w \in Byte, NEW b \in 1..4, Turn(w, b)
  PROVE  /\ Beside
         /\ \/ Turn(w, b)'
            \/ b - 1 \in 1..4 /\ Turn(w, b - 1)'
            \/ /\ state'.pc = \h0225 /\ state'.sp = Top(1)
               /\ state'.reg["A"] = Gone(w, 0) /\ Rotated(w, 0, state'.reg["C"])
<1> DEFINE A == state.reg["A"]
<1> DEFINE B == state.reg["B"]
<1> DEFINE C == state.reg["C"]
<1>1. A \in Byte /\ B \in Byte /\ C \in Byte /\ {"A", "B", "C"} \subseteq Reg8 /\ "BC" \in Pairs
  BY Members DEF Alive, Reg8, Pairs
<1>2. /\ Finds(\h0218, \hC5, state) /\ Finds(\h0219, \hCB, state) /\ Finds(\h021A, \h11, state)
      /\ Finds(\h021B, \hCB, state) /\ Finds(\h021C, \h17, state) /\ Finds(\h021D, \hC1, state)
      /\ Finds(\h021E, \hCB, state) /\ Finds(\h021F, \h11, state)
      /\ Finds(\h0220, \hCB, state) /\ Finds(\h0221, \h17, state) /\ Finds(\h0222, \h05, state)
      /\ Finds(\h0223, \h20, state) /\ Finds(\h0224, \hF3, state)
  BY ScaleCodeAt
<1>3. \/ /\ state.pc = \h0218 /\ state.sp = Top(1)
         /\ B = b /\ Rotated(w, b, C) /\ Target(w, b, A)
      \/ /\ state.pc = \h0219 /\ state.sp = Top(2)
         /\ Saved(w, b) /\ Rotated(w, b, C) /\ Target(w, b, A)
      \/ /\ state.pc = \h021B /\ state.sp = Top(2)
         /\ Saved(w, b) /\ Carries1(w, b) /\ Target(w, b, A)
      \/ state.pc = \h021D /\ state.sp = Top(2) /\ Saved(w, b) /\ Half(w, b, A)
      \/ /\ state.pc = \h021E /\ state.sp = Top(1)
         /\ B = b /\ Rotated(w, b, C) /\ Half(w, b, A)
      \/ /\ state.pc = \h0220 /\ state.sp = Top(1)
         /\ B = b /\ Rotated(w, b - 1, C) /\ Carries1(w, b) /\ Half(w, b, A)
      \/ /\ state.pc = \h0222 /\ state.sp = Top(1)
         /\ B = b /\ Rotated(w, b - 1, C) /\ Target(w, b - 1, A)
      \/ /\ state.pc = \h0223 /\ state.sp = Top(1)
         /\ B = b - 1 /\ Rotated(w, b - 1, C) /\ Target(w, b - 1, A)
         /\ "Zero" \in state.flags <=> b = 1
  BY DEF Turn
<1>4. /\ Leaving(w, b) \in 0..1
      /\ \A c \in Byte : Rotated(w, b, c) =>
           /\ BitOf(c, \h80) = Leaving(w, b)
           /\ \A k \in 0..1 : Rotated(w, b - 1, Rolled(c, k))
      /\ \A a \in Byte : Target(w, b, a) => Half(w, b, Rolled(a, Leaving(w, b)))
      /\ \A a \in Byte : Half(w, b, a) => Target(w, b - 1, Rolled(a, Leaving(w, b)))
  <2>1. Leaving(w, b) \in 0..1
    <3>1. b = 1 \/ b = 2 \/ b = 3 \/ b = 4
      OBVIOUS
    <3> QED BY <3>1, OneBitMore, TurnByTurn
  <2> QED BY <2>1, TurnsSource, TurnsHalf
<1>5. PICK k \in 0..1 : "Carry" \in state.flags <=> k = 1
  <2>1. CASE "Carry" \in state.flags
    BY <2>1
  <2>2. CASE "Carry" \notin state.flags
    BY <2>2
  <2> QED BY <2>1, <2>2
<1>6. CASE state.pc = \h0218
  <2>1. /\ uint16(state.pc + 1) = \h0219 /\ state.sp = Top(1)
        /\ B = b /\ Rotated(w, b, C) /\ Target(w, b, A)
    BY <1>3, <1>6 DEF uint16
  <2> DEFINE n == 1
  <2> DEFINE p == "BC"
  <2> DEFINE o == \hC5
  <2>2. /\ n \in 0..63 /\ n < 63 /\ state.sp = Top(n) /\ p \in Pairs
        /\ Finds(state.pc, o, state) /\ instructions[o] = Ins("Push", <<p>>, 16)
    BY <1>1, <1>2, <1>6, <2>1, ScaleRows
  <2> HIDE DEF n, p, o
  <2>3. /\ Outside(state, state') /\ SameFile(state, state') /\ state'.pc = \h0219
        /\ Alive(state') /\ Pushed(n, Pair(p, state), state, state')
    BY <2>1, <2>2, RunPush
  <2>4. /\ state'.sp = Top(2) /\ WordAt(2, state') = Join(B, C)
        /\ WordAt(1, state') = WordAt(1, state)
    BY <2>3 DEF Pushed, n, p, Pair, High, Low
  <2>5. Saved(w, b)'
    BY <1>1, <2>1, <2>4 DEF Saved
  <2>6. Beside
    BY <2>3, <2>4 DEF Beside, Outside, SameFile, Pair
  <2> QED BY <2>1, <2>3, <2>4, <2>5, <2>6 DEF Turn, SameFile
<1>7. CASE state.pc = \h0219
  <2>1. /\ uint16(state.pc + 1) = \h021A /\ uint16(state.pc + 2) = \h021B
        /\ state.sp = Top(2) /\ Saved(w, b) /\ Rotated(w, b, C) /\ Target(w, b, A)
    BY <1>3, <1>7 DEF uint16
  <2> DEFINE x == "C"
  <2> DEFINE e == \h11
  <2>2. /\ x \in {"A", "C"} /\ Finds(state.pc, \hCB, state) /\ Finds(uint16(state.pc + 1), e, state)
        /\ extended_instructions[e] = Ins("RotateLeft", <<x>>, 8)
    BY <1>2, <1>7, <2>1, ScaleRows
  <2> HIDE DEF x, e
  <2>3. /\ Beside /\ state'.pc = uint16(state.pc + 2) /\ state'.sp = state.sp
        /\ \A y \in Reg8 \ {x} : state'.reg[y] = state.reg[y]
        /\ "Carry" \in state'.flags <=> BitOf(state.reg[x], \h80) = 1
        /\ WordAt(2, state') = WordAt(2, state)
    BY <1>5, <2>2, RunRotateLeft
  <2>4. state'.reg["A"] = A /\ ("Carry" \in state'.flags <=> Leaving(w, b) = 1)
    BY <1>1, <1>4, <2>1, <2>3 DEF x
  <2>5. Saved(w, b)'
    BY <2>1, <2>3 DEF Saved
  <2> QED BY <2>1, <2>3, <2>4, <2>5 DEF Turn, Carries1
<1>8. CASE state.pc = \h021B
  <2>1. /\ uint16(state.pc + 1) = \h021C /\ uint16(state.pc + 2) = \h021D
        /\ state.sp = Top(2) /\ Saved(w, b) /\ Carries1(w, b) /\ Target(w, b, A)
    BY <1>3, <1>8 DEF uint16
  <2> DEFINE x == "A"
  <2> DEFINE e == \h17
  <2>2. /\ x \in {"A", "C"} /\ Finds(state.pc, \hCB, state) /\ Finds(uint16(state.pc + 1), e, state)
        /\ extended_instructions[e] = Ins("RotateLeft", <<x>>, 8)
    BY <1>2, <1>8, <2>1, ScaleRows
  <2> HIDE DEF x, e
  <2>3. /\ Beside /\ state'.pc = uint16(state.pc + 2) /\ state'.sp = state.sp
        /\ state'.reg[x] = Rolled(state.reg[x], k)
        /\ \A y \in Reg8 \ {x} : state'.reg[y] = state.reg[y]
        /\ "Carry" \in state'.flags <=> BitOf(state.reg[x], \h80) = 1
        /\ WordAt(2, state') = WordAt(2, state)
    BY <1>5, <2>2, RunRotateLeft
  <2>4. k = Leaving(w, b)
    BY <1>4, <1>5, <2>1 DEF Carries1
  <2>5. Half(w, b, state'.reg["A"])
    BY <1>1, <1>4, <2>1, <2>3, <2>4 DEF x
  <2>6. Saved(w, b)'
    BY <2>1, <2>3 DEF Saved
  <2> QED BY <2>1, <2>3, <2>5, <2>6 DEF Turn
<1>9. CASE state.pc = \h021D
  <2>1. uint16(state.pc + 1) = \h021E /\ state.sp = Top(2) /\ Saved(w, b) /\ Half(w, b, A)
    BY <1>3, <1>9 DEF uint16
  <2>2. PICK c \in Byte : WordAt(2, state) = Join(b, c) /\ Rotated(w, b, c)
    BY <2>1 DEF Saved
  <2>3. b \in Byte /\ Hi(WordAt(2, state)) = b /\ Lo(WordAt(2, state)) = c
    <3>1. b \in Byte
      BY DEF Byte, MaxByte
    <3> QED BY <2>2, <3>1, Halves
  <2> DEFINE n == 2
  <2>4. n \in 1..63 /\ state.sp = Top(n) /\ n - 1 = 1
    BY <2>1
  <2> HIDE DEF n
  <2>5. /\ Alive(state') /\ Kept(state, state') /\ state'.pc = \h021E /\ state'.sp = Top(n - 1)
        /\ state'.reg = Put(Put(state.reg, "B", Hi(WordAt(n, state))), "C", Lo(WordAt(n, state)))
    <3> DEFINE o == \hC1
    <3> DEFINE p == "BC"
    <3>1. Finds(state.pc, o, state) /\ p \in Pairs /\ instructions[o] = Ins("Pop", <<p>>, 12)
      BY <1>1, <1>2, <1>9, ScaleRows
    <3>2. High[p] = "B" /\ Low[p] = "C"
      BY DEF High, Low
    <3> HIDE DEF o, p
    <3>3. /\ Alive(state') /\ Kept(state, state')
          /\ state'.pc = uint16(state.pc + 1) /\ state'.sp = Top(n - 1)
          /\ state'.reg = Put(Put(state.reg, High[p], Hi(WordAt(n, state))),
                              Low[p], Lo(WordAt(n, state)))
      BY <2>4, <3>1, RunPop
    <3> QED BY <2>1, <3>2, <3>3
  <2>6. /\ state'.reg["B"] = b /\ state'.reg["C"] = c
        /\ \A y \in Reg8 \ {"B", "C"} : state'.reg[y] = state.reg[y]
    BY <1>1, <2>3, <2>5, Members DEF n, Put, Alive
  <2>7. Pair("DE", state') = Pair("DE", state) /\ Pair("HL", state') = Pair("HL", state)
    BY <2>6 DEF Pair, High, Low, Reg8
  <2>8. WordAt(1, state') = WordAt(1, state) /\ state'.video = state.video /\ state'.rom = state.rom
    BY <2>5, KeptBytes DEF WordAt, Kept
  <2>9. state'.reg["A"] = A /\ state'.sp = Top(1)
    BY <1>1, <2>4, <2>5, <2>6
  <2> QED BY <2>1, <2>2, <2>5, <2>6, <2>7, <2>8, <2>9 DEF Turn, Beside
<1>10. CASE state.pc = \h021E
  <2>1. /\ uint16(state.pc + 1) = \h021F /\ uint16(state.pc + 2) = \h0220
        /\ state.sp = Top(1) /\ B = b /\ Rotated(w, b, C) /\ Half(w, b, A)
    BY <1>3, <1>10 DEF uint16
  <2> DEFINE x == "C"
  <2> DEFINE e == \h11
  <2>2. /\ x \in {"A", "C"} /\ Finds(state.pc, \hCB, state) /\ Finds(uint16(state.pc + 1), e, state)
        /\ extended_instructions[e] = Ins("RotateLeft", <<x>>, 8)
    BY <1>2, <1>10, <2>1, ScaleRows
  <2> HIDE DEF x, e
  <2>3. /\ Beside /\ state'.pc = uint16(state.pc + 2) /\ state'.sp = state.sp
        /\ state'.reg[x] = Rolled(state.reg[x], k)
        /\ \A y \in Reg8 \ {x} : state'.reg[y] = state.reg[y]
        /\ "Carry" \in state'.flags <=> BitOf(state.reg[x], \h80) = 1
        /\ WordAt(2, state') = WordAt(2, state)
    BY <1>5, <2>2, RunRotateLeft
  <2>4. /\ state'.reg["A"] = A /\ state'.reg["B"] = B
        /\ "Carry" \in state'.flags <=> Leaving(w, b) = 1
        /\ Rotated(w, b - 1, state'.reg["C"])
    BY <1>1, <1>4, <2>1, <2>3 DEF x
  <2> QED BY <2>1, <2>3, <2>4 DEF Turn, Carries1
<1>11. CASE state.pc = \h0220
  <2>1. /\ uint16(state.pc + 1) = \h0221 /\ uint16(state.pc + 2) = \h0222
        /\ state.sp = Top(1) /\ B = b /\ Rotated(w, b - 1, C)
        /\ Carries1(w, b) /\ Half(w, b, A)
    BY <1>3, <1>11 DEF uint16
  <2> DEFINE x == "A"
  <2> DEFINE e == \h17
  <2>2. /\ x \in {"A", "C"} /\ Finds(state.pc, \hCB, state) /\ Finds(uint16(state.pc + 1), e, state)
        /\ extended_instructions[e] = Ins("RotateLeft", <<x>>, 8)
    BY <1>2, <1>11, <2>1, ScaleRows
  <2> HIDE DEF x, e
  <2>3. /\ Beside /\ state'.pc = uint16(state.pc + 2) /\ state'.sp = state.sp
        /\ state'.reg[x] = Rolled(state.reg[x], k)
        /\ \A y \in Reg8 \ {x} : state'.reg[y] = state.reg[y]
        /\ "Carry" \in state'.flags <=> BitOf(state.reg[x], \h80) = 1
        /\ WordAt(2, state') = WordAt(2, state)
    BY <1>5, <2>2, RunRotateLeft
  <2>4. k = Leaving(w, b)
    BY <1>4, <1>5, <2>1 DEF Carries1
  <2>5. /\ state'.reg["B"] = B /\ state'.reg["C"] = C /\ Target(w, b - 1, state'.reg["A"])
    BY <1>1, <1>4, <2>1, <2>3, <2>4 DEF x
  <2> QED BY <2>1, <2>3, <2>5 DEF Turn
<1>12. CASE state.pc = \h0222
  <2>1. /\ uint16(state.pc + 1) = \h0223 /\ state.sp = Top(1)
        /\ B = b /\ Rotated(w, b - 1, C) /\ Target(w, b - 1, A)
    BY <1>3, <1>12 DEF uint16
  <2>2. /\ Alive(state') /\ Kept(state, state') /\ state'.pc = \h0223 /\ state'.sp = state.sp
        /\ state'.reg = Put(state.reg, "B", uint8(B - 1)) /\ ("Zero" \in state'.flags <=> B = 1)
    <3> DEFINE x == "B"
    <3> DEFINE o == \h05
    <3>1. x \in Reg8 /\ Finds(state.pc, o, state) /\ instructions[o] = Ins("Dec", <<x>>, 4)
      BY <1>1, <1>2, <1>12, ScaleRows
    <3> HIDE DEF x, o
    <3>2. /\ Alive(state') /\ Kept(state, state')
          /\ state'.pc = uint16(state.pc + 1) /\ state'.sp = state.sp
          /\ state'.reg = Put(state.reg, x, uint8(state.reg[x] - 1))
          /\ "Zero" \in state'.flags <=> state.reg[x] = 1
      BY <3>1, RunCount
    <3> QED BY <2>1, <3>2 DEF x
  <2>3. uint8(B - 1) = b - 1
    <3>1. (b - 1) % 256 = b - 1
      OBVIOUS
    <3> QED BY <2>1, <3>1 DEF uint8
  <2> DEFINE x == "B"
  <2>4. x \in {"A", "B", "C"} /\ Straight(1) /\ state'.reg = Put(state.reg, x, b - 1)
    BY <2>1, <2>2, <2>3 DEF Straight
  <2> HIDE DEF x
  <2>5. /\ Beside /\ state'.reg[x] = b - 1 /\ \A y \in Reg8 \ {x} : state'.reg[y] = state.reg[y]
    BY <2>4, OneRegister
  <2>6. state'.reg["A"] = A /\ state'.reg["B"] = b - 1 /\ state'.reg["C"] = C
    BY <1>1, <2>5 DEF x
  <2> QED BY <2>1, <2>2, <2>5, <2>6 DEF Turn
<1>13. CASE state.pc = \h0223
  <2>1. /\ uint16(state.pc + 1) = \h0224 /\ uint16(state.pc + 2) = \h0225 /\ state.sp = Top(1)
        /\ B = b - 1 /\ Rotated(w, b - 1, C) /\ Target(w, b - 1, A)
        /\ "Zero" \in state.flags <=> b = 1
    BY <1>3, <1>13 DEF uint16
  <2>2. \hF3 \in Byte /\ int8(\hF3) = -13 /\ uint16(state.pc + (2 + -13)) = \h0218
    BY <1>13 DEF Byte, MaxByte, int8, uint16
  <2>3. /\ Alive(state') /\ Kept(state, state') /\ SameFile(state, state') /\ state'.sp = state.sp
        /\ is_true("NZ", state) => state'.pc = uint16(state.pc + (2 + int8(\hF3)))
        /\ ~is_true("NZ", state) => state'.pc = \h0225
    <3> DEFINE c == "NZ"
    <3> DEFINE o == \h20
    <3> DEFINE v == \hF3
    <3>1. /\ v \in Byte /\ Finds(state.pc, o, state) /\ Finds(uint16(state.pc + 1), v, state)
          /\ instructions[o] = Ins("JumpRelative", <<c, "D8">>, 8) /\ c # "Always"
      BY <1>2, <1>13, <2>1, <2>2, ScaleRows
    <3> HIDE DEF c, o, v
    <3>2. /\ Alive(state') /\ Kept(state, state') /\ SameFile(state, state')
          /\ state'.sp = state.sp
          /\ is_true(c, state) => state'.pc = uint16(state.pc + (2 + int8(v)))
          /\ ~is_true(c, state) => state'.pc = uint16(state.pc + 2)
      BY <3>1, RunJumpRelative
    <3> QED BY <2>1, <3>2 DEF c, v
  <2>4. state'.reg = state.reg /\ state'.pc = IF b = 1 THEN \h0225 ELSE \h0218
    BY <2>1, <2>2, <2>3 DEF SameFile, is_true
  <2>5. Beside
    BY <2>3, <2>4, KeptBytes DEF Beside, Pair, WordAt, Kept
  <2>6. CASE b = 1
    <3>1. b - 1 = 0 /\ A % 256 = A
      BY <1>1, <2>6 DEF Byte, MaxByte
    <3>2. A = Gone(w, 0)
      BY <1>1, <2>1, <3>1, TurnsTarget
    <3> QED BY <2>1, <2>3, <2>4, <2>5, <2>6, <3>1, <3>2
  <2>7. CASE b # 1
    <3>1. b - 1 \in 1..4
      BY <2>7
    <3> QED BY <2>1, <2>3, <2>4, <2>5, <2>7, <3>1 DEF Turn
  <2> QED BY <2>6, <2>7
<1> QED
  BY <1>3, <1>6, <1>7, <1>8, <1>9, <1>10, <1>11, <1>12, <1>13

-----------------------------------------------------------------------------
(* The picture *)

\* The nibbles of a byte of the logo, in the file and where the CPU reads it.
LEMMA Nibbles ==
  ASSUME Alive(state), LogoPresent, NEW m \in 0..47
  PROVE  /\ Nibble(2 * m) = Logo(m) \div 16 /\ Nibble(2 * m + 0) = Logo(m) \div 16
         /\ Nibble(2 * m + 1) = Logo(m) % 16
         /\ Logo(m) \in Byte /\ Finds(\h0104 + m, Logo(m), state)
<1>1. /\ (2 * m) % 2 = 0 /\ (2 * m) \div 2 = m /\ 2 * m + 0 = 2 * m
      /\ (2 * m + 1) % 2 = 1 /\ (2 * m + 1) \div 2 = m
  OBVIOUS
<1>2. Nibble(2 * m) = Logo(m) \div 16 /\ Nibble(2 * m + 1) = Logo(m) % 16
  <2> DEFINE k == 2 * m
  <2> DEFINE n == 2 * m + 1
  <2>1. k % 2 = 0 /\ k \div 2 = m /\ n % 2 = 1 /\ n \div 2 = m
    BY <1>1
  <2> HIDE DEF k, n
  <2>2. Nibble(k) = Logo(m) \div 16 /\ Nibble(n) = Logo(m) % 16
    BY <2>1 DEF Nibble
  <2> QED BY <2>2 DEF k, n
<1>3. Logo(m) \in Byte
  BY AtByte DEF Logo, Alive, StateOK
<1>4. Finds(\h0104 + m, Logo(m), state)
  <2> DEFINE i == 4 + m
  <2>1. i \in Nat /\ i < 52 /\ i + \h100 = \h0104 + m
    OBVIOUS
  <2>2. i \in DOMAIN state.rom /\ Logo(m) = state.rom[i]
    BY DEF Logo, LogoPresent, At
  <2> HIDE DEF i
  <2>3. Finds(i + \h100, state.rom[i], state)
    <3>1. RomSize \in Nat /\ RomSize > 52
      BY DEF RomSize
    <3>2. i \in 0..(RomSize - 1)
      BY <2>1, <3>1
    <3> QED BY <2>2, <3>2, RomReads
  <2> QED BY <2>1, <2>2, <2>3
<1> QED
  BY <1>1, <1>2, <1>3, <1>4

\* What has been drawn stays,
LEMMA SceneKept ==
  ASSUME state'.video = state.video, state'.rom = state.rom, NEW k, NEW m, NEW a, Scene(k, m, a),
         NEW n, Pair("DE", state') = \h0104 + n, NEW c, Pair("HL", state') = \h8010 + c
  PROVE  Scene(k, n, c)'
BY DEF Scene, Drawn, Row, Nibble, Logo

\* and so do the words of the calls.
LEMMA CalledKept ==
  ASSUME state'.rom = state.rom, WordAt(1, state') = WordAt(1, state),
         NEW m, NEW h, NEW w, Called(m, h, w)
  PROVE  Called(m, h, w)'
BY DEF Called, Nibble, Logo

\* The video memory under its addresses.
LEMMA VideoByte ==
  ASSUME NEW a \in Int, \h8000 <= a, a < \hA000, NEW s
  PROVE  /\ a \in VideoRam /\ a \in Writable /\ a \in Word
         /\ ByteAt(a, s) = At(s.video, a - \h8000)
<1>1. /\ a \in VideoRam /\ a # InterruptEnable /\ a \notin HighRam /\ a \notin IoPorts
      /\ ~InRam(a) /\ a \notin CartridgeRom /\ a \notin BootArea
  BY Areas
<1>2. a \in Word
  BY InWord
<1>3. ByteAt(a, s) = At(s.video, a - \h8000)
  BY <1>1 DEF ByteAt
<1> QED
  BY <1>1, <1>2, <1>3 DEF Writable

\* The offsets of the video memory.
Offsets == 0..(VideoSize - 1)

\* They are compared as numbers.
LEMMA InOffsets ==
  ASSUME NEW i
  PROVE  i \in Offsets <=> i \in Int /\ 0 <= i /\ i < \h2000
<1>1. VideoSize \in Int
  BY DEF VideoSize
<1>2. i \in Offsets <=> i \in Int /\ 0 <= i /\ i < VideoSize
  BY <1>1 DEF Offsets
<1>3. VideoSize = \h2000
  BY DEF VideoSize
<1> QED
  BY <1>2, <1>3

\* v has been stored at offset i of the video memory, and nothing else there changed.
Plotted(i, v, s, t) ==
  /\ At(t.video, i) = v
  /\ \A j \in Offsets : j # i => At(t.video, j) = At(s.video, j)
  /\ DOMAIN t.video \subseteq DOMAIN s.video \cup {i}

\* One byte of the memory has changed.
LEMMA PlotByte ==
  ASSUME NEW i \in Offsets, NEW v, NEW s, NEW t, StateOK(t),
         \A c \in Word : ByteAt(c, t) = IF c = \h8000 + i THEN v ELSE ByteAt(c, s),
         \A j \in DOMAIN t.video : j \in DOMAIN s.video \/ \h8000 + j = \h8000 + i
  PROVE  Plotted(i, v, s, t)
<1>1. ASSUME NEW j \in Offsets
      PROVE  /\ j = i => At(t.video, j) = v
             /\ j # i => At(t.video, j) = At(s.video, j)
  <2> DEFINE c == \h8000 + j
  <2>1. c \in Int /\ \h8000 <= c /\ c < \hA000 /\ c - \h8000 = j /\ (c = \h8000 + i <=> j = i)
    BY InOffsets
  <2> HIDE DEF c
  <2>2. c \in Word
    BY <2>1, VideoByte
  <2>3. ByteAt(c, s) = At(s.video, j) /\ ByteAt(c, t) = At(t.video, j)
    <3>1. ByteAt(c, s) = At(s.video, c - \h8000)
      BY <2>1, VideoByte
    <3>2. ByteAt(c, t) = At(t.video, c - \h8000)
      BY <2>1, VideoByte
    <3> QED BY <2>1, <3>1, <3>2
  <2> QED BY <2>1, <2>2, <2>3
<1>2. DOMAIN t.video \subseteq DOMAIN s.video \cup {i}
  <2> SUFFICES ASSUME NEW j \in DOMAIN t.video, \h8000 + j = \h8000 + i PROVE j = i
    OBVIOUS
  <2>1. j \in Offsets
    BY DEF StateOK, IsArray, Offsets
  <2> QED BY <2>1, InOffsets
<1> QED
  BY <1>1, <1>2 DEF Plotted

\* LD (HL+),A there.
LEMMA StoreVideo ==
  ASSUME Alive(state), process, NEW b, Finds(state.pc, b, state),
         instructions[b] = Ins("Load", <<"PtrHLIncr", "A">>, 8),
         NEW i \in Offsets, i + 1 \in Offsets, Pair("HL", state) = \h8000 + i
  PROVE  /\ Alive(state') /\ state'.rom = state.rom /\ state'.sp = state.sp
         /\ state'.pc = uint16(state.pc + 1)
         /\ Pair("HL", state') = \h8000 + (i + 1) /\ Pair("DE", state') = Pair("DE", state)
         /\ state'.reg["A"] = state.reg["A"] /\ state'.reg["C"] = state.reg["C"]
         /\ Plotted(i, state.reg["A"], state, state')
         /\ WordAt(1, state') = WordAt(1, state)
<1>1. /\ i \in Int /\ 0 <= i /\ i < \h2000 /\ i + 1 < \h2000
      /\ (\h8000 + i) + 1 = \h8000 + (i + 1)
  BY InOffsets
<1> DEFINE hl == \h8000 + i
<1> DEFINE up == \h8000 + (i + 1)
<1>2. /\ hl \in Int /\ \h8000 <= hl /\ hl < \hA000
      /\ up \in Int /\ \h8000 <= up /\ up < \hA000
      /\ hl + 1 = up /\ Pair("HL", state) = hl
  BY <1>1
<1> HIDE DEF hl, up
<1>20. hl \in Writable /\ up \in Word
  BY <1>2, VideoByte
<1>4. /\ Alive(state') /\ state'.sp = state.sp /\ state'.rom = state.rom
      /\ state'.pc = uint16(state.pc + 1)
      /\ state'.reg = PutWord(state.reg, "HL", uint16(up))
      /\ \A c \in Word : ByteAt(c, state') = IF c = hl THEN state.reg["A"] ELSE ByteAt(c, state)
      /\ \A j \in DOMAIN state'.video : j \in DOMAIN state.video \/ \h8000 + j = hl
  BY <1>2, <1>20, RunStoreIncr
<1>5. /\ Pair("HL", state') = up
      /\ \A x \in Reg8 \ {"H", "L"} : state'.reg[x] = state.reg[x]
  <2> DEFINE v == uint16(up)
  <2> DEFINE p == "HL"
  <2>1. v = up /\ v \in Word /\ p \in Pairs
    <3>1. up \in Int
      BY <1>2
    <3> QED BY <1>20, <3>1, Conversions DEF Pairs
  <2> HIDE DEF v, p
  <2>2. state'.reg = PutWord(state.reg, p, v) /\ StateOK(state)
    BY <1>4 DEF Alive, v, p
  <2>3. /\ Pair(p, state') = v
        /\ \A x \in Reg8 \ {High[p], Low[p]} : state'.reg[x] = state.reg[x]
    BY <2>1, <2>2, WordPut
  <2> QED BY <2>1, <2>3 DEF p, High, Low
<1>6. Plotted(i, state.reg["A"], state, state')
  <2>1. /\ StateOK(state')
        /\ \A c \in Word : ByteAt(c, state') = IF c = \h8000 + i THEN state.reg["A"] ELSE ByteAt(c, state)
        /\ \A j \in DOMAIN state'.video : j \in DOMAIN state.video \/ \h8000 + j = \h8000 + i
    BY <1>4 DEF Alive, hl
  <2> QED BY <2>1, PlotByte
<1>8. WordAt(1, state') = WordAt(1, state)
  <2> DEFINE n == 0
  <2>1. n \in 0..62 /\ \hFFFE - 2 * (1 - 1) = Top(n)
    BY DEF Top
  <2> HIDE DEF n
  <2>2. /\ Top(n) \in Word /\ Top(n) - 1 \in Word
        /\ Top(n) \in HighRam /\ Top(n) - 1 \in HighRam /\ Top(n) \in Int /\ Top(n) - 1 \in Int
    BY <2>1, Slots, WordIsInt
  <2>3. hl \in Int /\ hl < \hA000
    BY <1>2
  <2>4. Top(n) # hl /\ Top(n) - 1 # hl
    BY <2>2, <2>3, Areas
  <2>5. /\ ByteAt(Top(n), state') = ByteAt(Top(n), state)
        /\ ByteAt(Top(n) - 1, state') = ByteAt(Top(n) - 1, state)
    BY <1>4, <2>2, <2>4
  <2> QED BY <2>1, <2>5 DEF WordAt
<1>9. /\ Pair("DE", state') = Pair("DE", state)
      /\ state'.reg["A"] = state.reg["A"] /\ state'.reg["C"] = state.reg["C"]
  BY <1>5 DEF Pair, High, Low, Reg8
<1>10. Pair("HL", state') = \h8000 + (i + 1)
  BY <1>5 DEF up
<1> HIDE DEF up
<1>11. /\ Alive(state') /\ state'.rom = state.rom /\ state'.sp = state.sp
       /\ state'.pc = uint16(state.pc + 1)
  BY <1>4
<1> QED
  BY <1>6, <1>8, <1>9, <1>10, <1>11

\* The places of the picture.
LEMMA Places ==
  ASSUME NEW i \in 0..95, NEW e \in {0, 2}
  PROVE  /\ \h10 + (4 * i + e) \in Offsets /\ \h10 + (4 * i + e) + 1 \in Offsets
         /\ \h10 + (4 * i + e) \in {\h10 + 2 * j : j \in 0..191}
<1>1. \h10 + (4 * i + e) \in Offsets /\ \h10 + (4 * i + e) + 1 \in Offsets
  <2> DEFINE o == \h10 + (4 * i + e)
  <2>1. o \in Int /\ 0 <= o /\ o + 1 < \h2000 /\ o < \h2000 /\ o + 1 \in Int /\ 0 <= o + 1
    OBVIOUS
  <2> HIDE DEF o
  <2>2. o \in Offsets /\ o + 1 \in Offsets
    BY <2>1, InOffsets
  <2> QED BY <2>2 DEF o
<1>2. \h10 + (4 * i + e) \in {\h10 + 2 * j : j \in 0..191}
  <2>1. CASE e = 0
    <3>1. 2 * i \in 0..191 /\ \h10 + (4 * i + e) = \h10 + 2 * (2 * i)
      BY <2>1
    <3> QED BY <3>1
  <2>2. CASE e = 2
    <3>1. 2 * i + 1 \in 0..191 /\ \h10 + (4 * i + e) = \h10 + 2 * (2 * i + 1)
      BY <2>2
    <3> QED BY <3>1
  <2> QED BY <2>1, <2>2
<1> QED
  BY <1>1, <1>2

\* A byte of the picture stored: the others stay.
LEMMA RowKept ==
  ASSUME state'.rom = state.rom, NEW k \in 0..95, NEW d \in {0, 2}, NEW v,
         Plotted(\h10 + (4 * k + d), v, state, state'),
         NEW i \in 0..95, NEW e \in {0, 2}, Row(4 * i + e, i),
         (i = k /\ e = d) => v = Doubled(Nibble(k))
  PROVE  Row(4 * i + e, i)'
<1> DEFINE o == \h10 + (4 * i + e)
<1> DEFINE p == \h10 + (4 * k + d)
<1>1. o = p <=> i = k /\ e = d
  OBVIOUS
<1>2. o \in Offsets /\ p \in Offsets
  BY Places
<1>3. At(state.video, o) = Doubled(Nibble(i)) /\ Nibble(i)' = Nibble(i)
  BY DEF Row, Nibble, Logo
<1> HIDE DEF o, p
<1>4. /\ At(state'.video, p) = v
      /\ \A j \in Offsets : j # p => At(state'.video, j) = At(state.video, j)
  BY DEF Plotted, p
<1>5. At(state'.video, o) = Doubled(Nibble(i))
  BY <1>1, <1>2, <1>3, <1>4
<1> QED
  BY <1>3, <1>5 DEF Row, o

\* What is drawn stays drawn, and the next nibble is drawn with its second byte.
LEMMA DrawnKept ==
  ASSUME state'.rom = state.rom, NEW k \in 0..95, NEW d \in {0, 2}, NEW v, v = Doubled(Nibble(k)),
         Plotted(\h10 + (4 * k + d), v, state, state'), Drawn(k)
  PROVE  /\ Drawn(k)' /\ Row(4 * k + d, k)'
         /\ d = 2 /\ Row(4 * k, k) => Drawn(k + 1)'
<1>1. ASSUME NEW i \in 0..95, NEW e \in {0, 2}, Row(4 * i + e, i) PROVE Row(4 * i + e, i)'
  BY <1>1, RowKept
<1>2. ASSUME NEW i \in 0..95, Row(4 * i, i) PROVE Row(4 * i, i)'
  <2> DEFINE e == 0
  <2>1. e \in {0, 2} /\ 4 * i = 4 * i + e
    OBVIOUS
  <2> HIDE DEF e
  <2>2. Row(4 * i + e, i)
    BY <1>2, <2>1
  <2>3. Row(4 * i + e, i)'
    BY <1>1, <2>1, <2>2
  <2> QED BY <2>1, <2>3
<1>3. ASSUME NEW i \in 0..95, Row(4 * i + 2, i) PROVE Row(4 * i + 2, i)'
  <2> DEFINE e == 2
  <2>1. e \in {0, 2}
    OBVIOUS
  <2> HIDE DEF e
  <2>2. Row(4 * i + e, i)
    BY <1>3 DEF e
  <2>3. Row(4 * i + e, i)'
    BY <1>1, <2>1, <2>2
  <2> QED BY <2>3 DEF e
<1>4. Row(4 * k + d, k)'
  <2> DEFINE o == \h10 + (4 * k + d)
  <2>1. At(state'.video, o) = v /\ Nibble(k)' = Nibble(k)
    BY DEF Plotted, Nibble, Logo
  <2> HIDE DEF o
  <2>2. At(state'.video, o) = Doubled(Nibble(k)')
    BY <2>1
  <2> QED BY <2>2 DEF o, Row
<1>5. DOMAIN state'.video \subseteq {\h10 + 2 * j : j \in 0..191}
  <2> DEFINE o == \h10 + (4 * k + d)
  <2> DEFINE Spots == {\h10 + 2 * j : j \in 0..191}
  <2>1. o \in Spots
    BY Places
  <2>2. DOMAIN state.video \subseteq Spots
    BY DEF Drawn
  <2>3. DOMAIN state'.video \subseteq DOMAIN state.video \cup {o}
    BY DEF Plotted
  <2> HIDE DEF o, Spots
  <2>4. DOMAIN state'.video \subseteq Spots
    BY <2>1, <2>2, <2>3
  <2> QED BY <2>4 DEF Spots
<1>6. ASSUME NEW i \in 0..95, i < k PROVE (Row(4 * i, i) /\ Row(4 * i + 2, i))'
  <2>1. Row(4 * i, i) /\ Row(4 * i + 2, i)
    BY <1>6 DEF Drawn
  <2> QED BY <1>2, <1>3, <2>1
<1>7. Drawn(k)'
  BY <1>5, <1>6 DEF Drawn
<1>8. ASSUME d = 2, Row(4 * k, k) PROVE Drawn(k + 1)'
  <2>1. Row(4 * k, k)' /\ Row(4 * k + 2, k)'
    BY <1>2, <1>4, <1>8
  <2>2. ASSUME NEW i \in 0..95, i < k + 1 PROVE (Row(4 * i, i) /\ Row(4 * i + 2, i))'
    <3>1. i = k \/ i < k
      BY <2>2
    <3> QED BY <1>6, <2>1, <3>1
  <2> QED BY <1>5, <2>2 DEF Drawn
<1> QED
  BY <1>4, <1>7, <1>8

\* A byte of the k-th nibble's rows stored.
LEMMA StoreRow ==
  ASSUME Alive(state), process, Finds(state.pc, \h22, state),
         NEW k \in 0..95, NEW d \in {0, 2}, Drawn(k),
         Pair("HL", state) = \h8010 + (4 * k + d), state.reg["A"] = Doubled(Nibble(k))
  PROVE  /\ Alive(state') /\ state'.rom = state.rom /\ state'.sp = state.sp
         /\ state'.pc = uint16(state.pc + 1)
         /\ Pair("HL", state') = \h8010 + (4 * k + d + 1) /\ Pair("DE", state') = Pair("DE", state)
         /\ state'.reg["A"] = state.reg["A"] /\ state'.reg["C"] = state.reg["C"]
         /\ WordAt(1, state') = WordAt(1, state)
         /\ Drawn(k)' /\ Row(4 * k + d, k)'
         /\ d = 2 /\ Row(4 * k, k) => Drawn(k + 1)'
<1> DEFINE i == \h10 + (4 * k + d)
<1> DEFINE b == \h22
<1>1. /\ \h8010 + (4 * k + d) = \h8000 + i /\ \h8010 + (4 * k + d + 1) = \h8000 + (i + 1)
  OBVIOUS
<1>2. i \in Offsets /\ i + 1 \in Offsets
  BY Places
<1>3. Finds(state.pc, b, state) /\ instructions[b] = Ins("Load", <<"PtrHLIncr", "A">>, 8)
  BY ScaleRows
<1> HIDE DEF i, b
<1>4. /\ Alive(state') /\ state'.rom = state.rom /\ state'.sp = state.sp
      /\ state'.pc = uint16(state.pc + 1)
      /\ Pair("HL", state') = \h8000 + (i + 1) /\ Pair("DE", state') = Pair("DE", state)
      /\ state'.reg["A"] = state.reg["A"] /\ state'.reg["C"] = state.reg["C"]
      /\ Plotted(i, state.reg["A"], state, state')
      /\ WordAt(1, state') = WordAt(1, state)
  BY <1>1, <1>2, <1>3, StoreVideo
<1>5. /\ Drawn(k)' /\ Row(4 * k + d, k)'
      /\ d = 2 /\ Row(4 * k, k) => Drawn(k + 1)'
  <2> DEFINE v == state.reg["A"]
  <2>1. v = Doubled(Nibble(k)) /\ Plotted(\h10 + (4 * k + d), v, state, state')
    BY <1>4 DEF i
  <2> HIDE DEF v
  <2> QED BY <1>4, <2>1, DrawnKept
<1> QED
  BY <1>1, <1>4, <1>5

\* INC of a pair that does not wrap.
LEMMA OneFurther ==
  ASSUME Alive(state), process, NEW b, Finds(state.pc, b, state), NEW p \in Pairs,
         instructions[b] = Ins("Inc", <<p>>, 8),
         NEW v \in Int, Pair(p, state) = v, v + 1 \in Word
  PROVE  /\ Straight(1) /\ Pair(p, state') = v + 1
         /\ \A x \in Reg8 \ {High[p], Low[p]} : state'.reg[x] = state.reg[x]
         /\ state'.video = state.video /\ state'.rom = state.rom
         /\ WordAt(1, state') = WordAt(1, state)
<1>1. Straight(1) /\ state'.reg = PutWord(state.reg, p, uint16(v + 1))
  BY RunIncPair
<1>2. uint16(v + 1) = v + 1
  BY Conversions
<1> DEFINE n == v + 1
<1>3. n \in Word /\ state'.reg = PutWord(state.reg, p, n) /\ StateOK(state)
  BY <1>1, <1>2 DEF Alive
<1> HIDE DEF n
<1>4. Pair(p, state') = n /\ \A x \in Reg8 \ {High[p], Low[p]} : state'.reg[x] = state.reg[x]
  BY <1>3, WordPut
<1>5. Kept(state, state') /\ state'.video = state.video /\ state'.rom = state.rom
  BY <1>1 DEF Straight, Kept
<1>6. WordAt(1, state') = WordAt(1, state)
  BY <1>5, KeptBytes DEF WordAt
<1> QED
  BY <1>1, <1>4, <1>5, <1>6 DEF n

\* An instruction that does not write.
LEMMA PictureKept ==
  ASSUME state'.video = state.video, state'.rom = state.rom, NEW k
  PROVE  (Drawn(k) => Drawn(k)') /\ \A a : Row(a, k) => Row(a, k)'
BY DEF Drawn, Row, Nibble, Logo

\* The two nibbles of a byte: where they go and what the call for them has been given.
LEMMA WhichNibble ==
  ASSUME Alive(state), NEW m \in 0..47, NEW h \in 0..1, NEW w \in Byte, Called(m, h, w)
  PROVE  /\ 2 * m + h \in 0..95 /\ 8 * m + 4 * h = 4 * (2 * m + h)
         /\ Gone(w, 0) = Doubled(Nibble(2 * m + h))
         /\ h = 0 => w = Logo(m) /\ WordAt(1, state) = \h020A
         /\ h = 1 => WordAt(1, state) = \h020D
<1>1. 2 * m + h \in 0..95 /\ 8 * m + 4 * h = 4 * (2 * m + h)
  OBVIOUS
<1>2. /\ w \div 16 = Nibble(2 * m + h)
      /\ h = 0 => w = Logo(m) /\ WordAt(1, state) = \h020A
      /\ h = 1 => WordAt(1, state) = \h020D
  BY DEF Called
<1>3. Gone(w, 0) = Doubled(w \div 16)
  BY Powers DEF Gone
<1> QED
  BY <1>1, <1>2, <1>3

\* A nibble drawn: the byte stored twice and the return.
LEMMA RowSteps ==
  ASSUME Alive(state), CodeAt(state.rom, \h0200, ScaleCode), process, ~CopyFails,
         NEW m \in 0..47, NEW h \in 0..1, NEW w \in Byte, Called(m, h, w),
         NEW k, k = 2 * m + h, NEW a, a = 8 * m + 4 * h,
         state.sp = Top(1), state.reg["A"] = Gone(w, 0), Rotated(w, 0, state.reg["C"]),
         \/ state.pc = \h0225 /\ Scene(k, m, a)
         \/ state.pc = \h0226 /\ Scene(k, m, a + 1) /\ Row(a, k)
         \/ state.pc = \h0227 /\ Scene(k, m, a + 2) /\ Row(a, k)
         \/ state.pc = \h0228 /\ Scene(k + 1, m, a + 3)
         \/ state.pc = \h0229 /\ Scene(k + 1, m, a + 4)
  PROVE  /\ Alive(state') /\ state'.rom = state.rom
         /\ (Called(m, h, w) /\ Drawing(m, h, w))' \/ Outer(m)'
<1>1. /\ Finds(\h0225, \h22, state) /\ Finds(\h0226, \h23, state) /\ Finds(\h0227, \h22, state)
      /\ Finds(\h0228, \h23, state) /\ Finds(\h0229, \hC9, state)
  BY ScaleCodeAt
<1>2. /\ k \in 0..95 /\ a = 4 * k /\ a \in Int /\ Gone(w, 0) = Doubled(Nibble(k))
      /\ h = 0 => w = Logo(m) /\ WordAt(1, state) = \h020A
      /\ h = 1 => WordAt(1, state) = \h020D
  BY WhichNibble
<1>3. CASE state.pc = \h0225
  <2> DEFINE d == 0
  <2>1. /\ uint16(state.pc + 1) = \h0226 /\ Drawn(k) /\ d \in {0, 2}
        /\ Pair("DE", state) = \h0104 + m /\ Pair("HL", state) = \h8010 + (4 * k + d)
    BY <1>2, <1>3 DEF uint16, Scene
  <2>2. \h8010 + (4 * k + d + 1) = \h8010 + (a + 1) /\ 4 * k + d = a
    BY <1>2
  <2> HIDE DEF d
  <2>3. /\ Alive(state') /\ state'.rom = state.rom /\ state'.sp = state.sp
        /\ state'.pc = uint16(state.pc + 1)
        /\ Pair("HL", state') = \h8010 + (4 * k + d + 1) /\ Pair("DE", state') = Pair("DE", state)
        /\ state'.reg["A"] = state.reg["A"] /\ state'.reg["C"] = state.reg["C"]
        /\ WordAt(1, state') = WordAt(1, state)
        /\ Drawn(k)' /\ Row(4 * k + d, k)'
    <3>1. /\ Finds(state.pc, \h22, state) /\ k \in 0..95
          /\ state.reg["A"] = Doubled(Nibble(k))
      BY <1>1, <1>2, <1>3
    <3> QED BY <2>1, <3>1, StoreRow, SMTT(20)
  <2>4. Called(m, h, w)'
    BY <2>3, CalledKept
  <2>5. Scene(k, m, a + 1)' /\ Row(a, k)'
    BY <2>1, <2>2, <2>3 DEF Scene
  <2>6. /\ state'.sp = Top(1) /\ state'.reg["A"] = Gone(w, 0)
        /\ Rotated(w, 0, state'.reg["C"]) /\ state'.pc = \h0226
    BY <2>1, <2>3
  <2>7. Drawing(m, h, w)'
    BY <2>5, <2>6 DEF Drawing
  <2> QED BY <2>3, <2>4, <2>7
<1>4. CASE state.pc = \h0226
  <2> DEFINE b == \h23
  <2> DEFINE p == "HL"
  <2> DEFINE v == \h8010 + (a + 1)
  <2>1. /\ uint16(state.pc + 1) = \h0227 /\ Drawn(k) /\ Row(a, k)
        /\ Pair("DE", state) = \h0104 + m /\ Pair("HL", state) = v
    BY <1>4 DEF uint16, Scene
  <2>2. v \in Int /\ v + 1 = \h8010 + (a + 2) /\ 0 <= v + 1 /\ v + 1 < \h10000
    BY <1>2
  <2>3. /\ Finds(state.pc, b, state) /\ p \in Pairs /\ instructions[b] = Ins("Inc", <<p>>, 8)
        /\ Pair(p, state) = v
    BY <1>1, <1>4, <2>1, ScaleRows DEF Pairs
  <2> HIDE DEF b, p, v
  <2>4. v + 1 \in Word
    BY <2>2, InWord
  <2>5. /\ Straight(1) /\ Pair(p, state') = v + 1
        /\ \A x \in Reg8 \ {High[p], Low[p]} : state'.reg[x] = state.reg[x]
        /\ state'.video = state.video /\ state'.rom = state.rom
        /\ WordAt(1, state') = WordAt(1, state)
    BY <2>2, <2>3, <2>4, OneFurther
  <2>6. /\ Pair("HL", state') = \h8010 + (a + 2) /\ Pair("DE", state') = Pair("DE", state)
        /\ state'.reg["A"] = state.reg["A"] /\ state'.reg["C"] = state.reg["C"]
    <3>1. \A x \in Reg8 \ {"H", "L"} : state'.reg[x] = state.reg[x]
      BY <2>5 DEF p, High, Low
    <3> QED BY <2>2, <2>5, <3>1 DEF Pair, p, High, Low, Reg8
  <2>7. Called(m, h, w)'
    BY <2>5, CalledKept
  <2>8. Scene(k, m, a + 2)' /\ Row(a, k)'
    <3>1. Drawn(k)' /\ Row(a, k)'
      BY <2>1, <2>5, PictureKept
    <3> QED BY <2>1, <2>6, <3>1 DEF Scene
  <2>9. /\ state'.sp = Top(1) /\ state'.reg["A"] = Gone(w, 0)
        /\ Rotated(w, 0, state'.reg["C"]) /\ state'.pc = \h0227 /\ Alive(state')
    BY <2>1, <2>5, <2>6 DEF Straight
  <2>10. Drawing(m, h, w)'
    BY <2>8, <2>9 DEF Drawing
  <2> QED BY <2>5, <2>7, <2>9, <2>10
<1>5. CASE state.pc = \h0227
  <2> DEFINE d == 2
  <2>1. /\ uint16(state.pc + 1) = \h0228 /\ Drawn(k) /\ d \in {0, 2} /\ Row(4 * k, k)
        /\ Pair("DE", state) = \h0104 + m /\ Pair("HL", state) = \h8010 + (4 * k + d)
    BY <1>2, <1>5 DEF uint16, Scene
  <2>2. \h8010 + (4 * k + d + 1) = \h8010 + (a + 3) /\ d = 2
    BY <1>2
  <2> HIDE DEF d
  <2>3. /\ Alive(state') /\ state'.rom = state.rom /\ state'.sp = state.sp
        /\ state'.pc = uint16(state.pc + 1)
        /\ Pair("HL", state') = \h8010 + (4 * k + d + 1) /\ Pair("DE", state') = Pair("DE", state)
        /\ state'.reg["A"] = state.reg["A"] /\ state'.reg["C"] = state.reg["C"]
        /\ WordAt(1, state') = WordAt(1, state)
        /\ d = 2 /\ Row(4 * k, k) => Drawn(k + 1)'
    <3>1. /\ Finds(state.pc, \h22, state) /\ k \in 0..95
          /\ state.reg["A"] = Doubled(Nibble(k))
      BY <1>1, <1>2, <1>5
    <3> QED BY <2>1, <3>1, StoreRow, SMTT(20)
  <2>4. Called(m, h, w)'
    BY <2>3, CalledKept
  <2>5. Scene(k + 1, m, a + 3)'
    BY <2>1, <2>2, <2>3 DEF Scene
  <2>6. /\ state'.sp = Top(1) /\ state'.reg["A"] = Gone(w, 0)
        /\ Rotated(w, 0, state'.reg["C"]) /\ state'.pc = \h0228
    BY <2>1, <2>3
  <2>7. Drawing(m, h, w)'
    BY <2>5, <2>6 DEF Drawing
  <2> QED BY <2>3, <2>4, <2>7
<1>6. CASE state.pc = \h0228
  <2> DEFINE b == \h23
  <2> DEFINE p == "HL"
  <2> DEFINE v == \h8010 + (a + 3)
  <2>1. /\ uint16(state.pc + 1) = \h0229 /\ Drawn(k + 1)
        /\ Pair("DE", state) = \h0104 + m /\ Pair("HL", state) = v
    BY <1>6 DEF uint16, Scene
  <2>2. v \in Int /\ v + 1 = \h8010 + (a + 4) /\ 0 <= v + 1 /\ v + 1 < \h10000
    BY <1>2
  <2>3. /\ Finds(state.pc, b, state) /\ p \in Pairs /\ instructions[b] = Ins("Inc", <<p>>, 8)
        /\ Pair(p, state) = v
    BY <1>1, <1>6, <2>1, ScaleRows DEF Pairs
  <2> HIDE DEF b, p, v
  <2>4. v + 1 \in Word
    BY <2>2, InWord
  <2>5. /\ Straight(1) /\ Pair(p, state') = v + 1
        /\ \A x \in Reg8 \ {High[p], Low[p]} : state'.reg[x] = state.reg[x]
        /\ state'.video = state.video /\ state'.rom = state.rom
        /\ WordAt(1, state') = WordAt(1, state)
    BY <2>2, <2>3, <2>4, OneFurther
  <2>6. /\ Pair("HL", state') = \h8010 + (a + 4) /\ Pair("DE", state') = Pair("DE", state)
        /\ state'.reg["A"] = state.reg["A"] /\ state'.reg["C"] = state.reg["C"]
    <3>1. \A x \in Reg8 \ {"H", "L"} : state'.reg[x] = state.reg[x]
      BY <2>5 DEF p, High, Low
    <3> QED BY <2>2, <2>5, <3>1 DEF Pair, p, High, Low, Reg8
  <2>7. Called(m, h, w)'
    BY <2>5, CalledKept
  <2>8. Scene(k + 1, m, a + 4)'
    <3> DEFINE n == k + 1
    <3>1. Drawn(n)'
      <4> HIDE DEF n
      <4> SUFFICES Drawn(n)
        BY <2>5, PictureKept
      <4> QED BY <2>1 DEF n
    <3> QED BY <2>1, <2>6, <3>1 DEF Scene
  <2>9. /\ state'.sp = Top(1) /\ state'.reg["A"] = Gone(w, 0)
        /\ Rotated(w, 0, state'.reg["C"]) /\ state'.pc = \h0229 /\ Alive(state')
    BY <2>1, <2>5, <2>6 DEF Straight
  <2>10. Drawing(m, h, w)'
    BY <2>8, <2>9 DEF Drawing
  <2> QED BY <2>5, <2>7, <2>9, <2>10
<1>7. CASE state.pc = \h0229
  <2> DEFINE b == \hC9
  <2> DEFINE n == 1
  <2> DEFINE c == "Always"
  <2> DEFINE cycles == 4
  <2>1. /\ Drawn(k + 1) /\ Pair("DE", state) = \h0104 + m /\ Pair("HL", state) = \h8010 + (a + 4)
    BY <1>7 DEF Scene
  <2>2. /\ Finds(state.pc, b, state) /\ instructions[b] = Ins("Ret", <<c>>, cycles)
        /\ cycles \in Int /\ n \in 1..63 /\ state.sp = Top(n) /\ is_true(c, state) /\ n - 1 = 0
    BY <1>1, <1>7, ScaleRows DEF is_true
  <2> HIDE DEF b, n, c, cycles
  <2>3. /\ Alive(state') /\ Kept(state, state') /\ SameFile(state, state')
        /\ state'.pc = WordAt(n, state) /\ state'.sp = Top(n - 1)
    BY <2>2, RunRet
  <2>4. /\ state'.video = state.video /\ state'.rom = state.rom
        /\ Pair("DE", state') = \h0104 + m /\ Pair("HL", state') = \h8010 + (a + 4)
        /\ state'.reg["C"] = state.reg["C"]
    BY <2>1, <2>3 DEF Kept, SameFile, Pair
  <2>5. state'.sp = Top(0) /\ state'.pc = WordAt(1, state)
    BY <2>2, <2>3 DEF n
  <2>6. Drawn(k + 1)'
    <3> DEFINE z == k + 1
    <3> HIDE DEF z
    <3> SUFFICES Drawn(z)'
      BY DEF z
    <3>1. Drawn(z)
      BY <2>1 DEF z
    <3> QED BY <2>4, <3>1, PictureKept
  <2>7. CASE h = 0
    <3>1. k + 1 = 2 * m + 1 /\ a + 4 = 8 * m + 4 /\ m < 48
      BY <2>7
    <3>2. Scene(2 * m + 1, m, 8 * m + 4)'
      BY <2>4, <2>6, <3>1 DEF Scene
    <3>3. state'.reg["C"] \div 16 = Logo(m)' % 16
      <4>1. w = Logo(m)'
        BY <1>2, <2>4, <2>7 DEF Logo
      <4>2. state.reg["C"] \div 16 = w % 16
        <5>1. Power[5 - 0] = 16 /\ 16 * Power[0 + 1] = 16
          BY Powers
        <5> QED BY <5>1 DEF Rotated
      <4> QED BY <2>4, <4>1, <4>2
    <3> QED BY <1>2, <2>3, <2>4, <2>5, <2>7, <3>1, <3>2, <3>3 DEF Outer
  <2>8. CASE h = 1
    <3>1. k + 1 = 2 * m + 2 /\ a + 4 = 8 * m + 8 /\ m < 48
      BY <2>8
    <3>2. Scene(2 * m + 2, m, 8 * m + 8)'
      BY <2>4, <2>6, <3>1 DEF Scene
    <3> QED BY <1>2, <2>3, <2>4, <2>5, <2>8, <3>1, <3>2 DEF Outer
  <2> QED BY <2>3, <2>4, <2>7, <2>8
<1> QED
  BY <1>3, <1>4, <1>5, <1>6, <1>7

\* A nibble scaled: the call up to the first store.
LEMMA CallSteps ==
  ASSUME Alive(state), CodeAt(state.rom, \h0200, ScaleCode), process,
         NEW m \in 0..47, NEW h \in 0..1, NEW w \in Byte, Called(m, h, w),
         NEW k, k = 2 * m + h, NEW a, a = 8 * m + 4 * h, Scene(k, m, a),
         \/ state.pc = \h0215 /\ state.sp = Top(1) /\ h = 0 /\ state.reg["A"] = w
         \/ state.pc = \h0216 /\ state.sp = Top(1) /\ state.reg["C"] = w
         \/ \E b \in 1..4 : Turn(w, b)
  PROVE  /\ Alive(state') /\ state'.rom = state.rom
         /\ (Called(m, h, w) /\ Drawing(m, h, w))'
<1>1. /\ Drawn(k) /\ Pair("DE", state) = \h0104 + m /\ Pair("HL", state) = \h8010 + a
      /\ state.reg["A"] \in Byte /\ {"A", "B", "C"} \subseteq Reg8 /\ Scene(k, m, a)
  BY Members DEF Scene, Alive, Reg8
<1>2. ASSUME Beside PROVE Called(m, h, w)' /\ Scene(k, m, a)'
  <2>1. Drawn(k)'
    BY <1>1, <1>2, PictureKept DEF Beside
  <2>2. Called(m, h, w)'
    BY <1>2, CalledKept DEF Beside
  <2> QED BY <1>1, <1>2, <2>1, <2>2 DEF Beside, Scene
<1>3. CASE state.pc = \h0215 /\ state.sp = Top(1) /\ h = 0 /\ state.reg["A"] = w
  <2> DEFINE b == \h4F
  <2> DEFINE x == "C"
  <2> DEFINE y == "A"
  <2>1. /\ uint16(state.pc + 1) = \h0216 /\ Finds(state.pc, b, state) /\ x \in Reg8 /\ y \in Reg8
        /\ instructions[b] = Ins("Load", <<x, y>>, 4) /\ x \in {"A", "B", "C"} /\ state.reg[y] = w
    BY <1>3, ScaleCodeAt, ScaleRows DEF uint16, Reg8
  <2> HIDE DEF b, x, y
  <2>2. Straight(1) /\ state'.reg = Put(state.reg, x, w)
    BY <2>1, RunLoad
  <2>3. Beside /\ state'.reg[x] = w
    BY <2>1, <2>2, OneRegister
  <2>4. state'.pc = \h0216 /\ state'.sp = Top(1) /\ state'.reg["C"] = w
    BY <1>3, <2>1, <2>2, <2>3 DEF Straight, x
  <2>5. Drawing(m, h, w)'
    BY <1>2, <2>3, <2>4 DEF Drawing
  <2> QED BY <1>2, <2>3, <2>5 DEF Beside
<1>4. CASE state.pc = \h0216 /\ state.sp = Top(1) /\ state.reg["C"] = w
  <2> DEFINE b == \h06
  <2> DEFINE x == "B"
  <2> DEFINE v == 4
  <2>1. /\ uint16(state.pc + 1) = \h0217 /\ uint16(state.pc + 2) = \h0218
        /\ Finds(state.pc, b, state) /\ Finds(uint16(state.pc + 1), v, state) /\ x \in Reg8
        /\ v \in Byte
        /\ instructions[b] = Ins("Load", <<x, "D8">>, 8) /\ x \in {"A", "B", "C"}
    BY <1>4, ScaleCodeAt, ScaleRows DEF uint16, Reg8, Byte, MaxByte
  <2> HIDE DEF b, x, v
  <2>2. Straight(2) /\ state'.reg = Put(state.reg, x, v)
    BY <2>1, RunLoadByte
  <2>3. Beside /\ state'.reg[x] = v /\ \A y \in Reg8 \ {x} : state'.reg[y] = state.reg[y]
    BY <2>1, <2>2, OneRegister
  <2>4. /\ state'.pc = \h0218 /\ state'.sp = Top(1) /\ state'.reg["B"] = 4
        /\ state'.reg["C"] = w /\ state'.reg["A"] = state.reg["A"]
    BY <1>1, <1>4, <2>1, <2>2, <2>3 DEF Straight, x, v
  <2>5. Rotated(w, 4, w) /\ Target(w, 4, state.reg["A"])
    <3>1. state.reg["A"] % 1 = 0
      BY <1>1 DEF Byte, MaxByte
    <3>2. Gone(w, 4) = 0
      <4>1. Gone(w, 4) = Doubled(w \div 256) /\ w \div 256 = 0
        BY OneBitMore, Powers DEF Gone
      <4>2. Doubled(0) = 0
        BY DEF Doubled, BitOf
      <4> QED BY <4>1, <4>2
    <3> QED BY <1>1, <3>1, <3>2, TurnByTurn, TurnsTarget
  <2>6. Turn(w, 4)'
    BY <2>4, <2>5 DEF Turn
  <2>7. Drawing(m, h, w)'
    BY <1>2, <2>3, <2>6 DEF Drawing
  <2> QED BY <1>2, <2>3, <2>7 DEF Beside
<1>5. CASE \E b \in 1..4 : Turn(w, b)
  <2>1. PICK b \in 1..4 : Turn(w, b)
    BY <1>5
  <2>2. /\ Beside
        /\ \/ Turn(w, b)'
           \/ b - 1 \in 1..4 /\ Turn(w, b - 1)'
           \/ /\ state'.pc = \h0225 /\ state'.sp = Top(1)
              /\ state'.reg["A"] = Gone(w, 0) /\ Rotated(w, 0, state'.reg["C"])
    BY <2>1, TurnSteps
  <2>3. ASSUME Turn(w, b)' PROVE Drawing(m, h, w)'
    BY <1>2, <2>2, <2>3 DEF Drawing
  <2>4. ASSUME b - 1 \in 1..4, Turn(w, b - 1)' PROVE Drawing(m, h, w)'
    BY <1>2, <2>2, <2>4 DEF Drawing
  <2>5. ASSUME state'.pc = \h0225, state'.sp = Top(1),
               state'.reg["A"] = Gone(w, 0), Rotated(w, 0, state'.reg["C"])
        PROVE  Drawing(m, h, w)'
    BY <1>2, <2>2, <2>5 DEF Drawing
  <2>6. Drawing(m, h, w)'
    BY <2>2, <2>3, <2>4, <2>5
  <2> QED BY <1>2, <2>2, <2>6 DEF Beside
<1> QED
  BY <1>3, <1>4, <1>5

\* A call of the program's own.
LEMMA RunsCall ==
  ASSUME Alive(state), process, ~CopyFails, state.sp = Top(0), Finds(state.pc, \hCD, state),
         NEW lo \in Byte, Finds(uint16(state.pc + 1), lo, state),
         Finds(uint16(state.pc + 2), \h02, state)
  PROVE  /\ Alive(state') /\ Outside(state, state') /\ SameFile(state, state')
         /\ state'.pc = Join(\h02, lo) /\ state'.sp = Top(1)
         /\ WordAt(1, state') = uint16(state.pc + 3)
<1> DEFINE b == \hCD
<1> DEFINE hi == \h02
<1> DEFINE n == 0
<1>1. /\ Finds(state.pc, b, state) /\ hi \in Byte /\ Finds(uint16(state.pc + 2), hi, state)
      /\ instructions[b] = Ins("Call", <<"Always", "D16">>, 12)
      /\ n \in 0..62 /\ state.sp = Top(n) /\ n + 1 = 1
  BY ScaleRows DEF Byte, MaxByte
<1> HIDE DEF b, hi, n
<1>2. /\ Alive(state') /\ Outside(state, state') /\ SameFile(state, state')
      /\ state'.pc = Join(hi, lo)
      /\ Pushed(n, uint16(state.pc + 3), state, state')
  BY <1>1, RunCall
<1>3. state'.sp = Top(1) /\ WordAt(1, state') = uint16(state.pc + 3)
  BY <1>1, <1>2 DEF Pushed
<1> QED
  BY <1>2, <1>3 DEF hi

\* The bytes of the counter.
LEMMA LowOfDE ==
  ASSUME Alive(state), NEW m \in 0..48, Pair("DE", state) = \h0104 + m
  PROVE  state.reg["E"] = 4 + m
<1>1. state.reg["D"] \in Byte /\ state.reg["E"] \in Byte
  BY Members DEF Alive, Reg8
<1>2. Lo(Pair("DE", state)) = state.reg["E"]
  BY <1>1, Halves DEF Pair, High, Low
<1>3. Lo(\h0104 + m) = 4 + m
  BY DEF Lo, uint8
<1> QED
  BY <1>2, <1>3

\* The upper nibble is asked for,
LEMMA FirstCall ==
  ASSUME Alive(state), CodeAt(state.rom, \h0200, ScaleCode), process, ~CopyFails,
         LogoPresent, NEW m \in 0..47,
         state.pc = \h0207, state.sp = Top(0), Scene(2 * m, m, 8 * m), state.reg["A"] = Logo(m)
  PROVE  /\ Alive(state') /\ state'.rom = state.rom
         /\ \E h \in 0..1, w \in Byte : (Called(m, h, w) /\ Drawing(m, h, w))'
<1> DEFINE w == Logo(m)
<1> DEFINE lo == \h15
<1>1. /\ uint16(state.pc + 1) = \h0208 /\ uint16(state.pc + 2) = \h0209
      /\ uint16(state.pc + 3) = \h020A
  BY DEF uint16
<1>2. /\ lo \in Byte /\ Finds(state.pc, \hCD, state) /\ Finds(uint16(state.pc + 1), lo, state)
      /\ Finds(uint16(state.pc + 2), \h02, state) /\ Join(\h02, lo) = \h0215
  BY <1>1, ScaleCodeAt DEF Byte, MaxByte, Join
<1> HIDE DEF lo
<1>3. /\ Alive(state') /\ Outside(state, state') /\ SameFile(state, state')
      /\ state'.pc = \h0215 /\ state'.sp = Top(1) /\ WordAt(1, state') = \h020A
  BY <1>1, <1>2, RunsCall
<1>4. /\ w \in Byte /\ w \div 16 = Nibble(2 * m + 0) /\ 2 * m + 0 = 2 * m /\ 8 * m + 4 * 0 = 8 * m
  BY Nibbles
<1>5. /\ state'.rom = state.rom /\ state'.video = state.video /\ state'.reg["A"] = w
      /\ Pair("DE", state') = \h0104 + m /\ Pair("HL", state') = \h8010 + 8 * m
  BY <1>3 DEF Outside, SameFile, Pair, Scene
<1>6. Nibble(2 * m + 0)' = Nibble(2 * m + 0) /\ Logo(m)' = w
  BY <1>5 DEF Nibble, Logo
<1>8. Drawn(2 * m)'
  <2> DEFINE k == 2 * m
  <2> HIDE DEF k
  <2>1. Drawn(k)
    BY DEF k, Scene
  <2>2. Drawn(k)'
    BY <1>5, <2>1, PictureKept
  <2> QED BY <2>2 DEF k
<1>9. Scene(2 * m + 0, m, 8 * m + 4 * 0)'
  BY <1>4, <1>5, <1>8 DEF Scene
<1>10. \A u \in Byte : u = w => Called(m, 0, u)' /\ Drawing(m, 0, u)'
  <2> SUFFICES ASSUME NEW u \in Byte, u = w PROVE Called(m, 0, u)' /\ Drawing(m, 0, u)'
    OBVIOUS
  <2>0. u \div 16 = Nibble(2 * m + 0)' /\ u = Logo(m)' /\ state'.reg["A"] = u
    BY <1>4, <1>5, <1>6
  <2> HIDE DEF w
  <2>1. Called(m, 0, u)'
    BY <1>3, <2>0 DEF Called
  <2>2. Drawing(m, 0, u)'
    BY <1>3, <1>9, <2>0 DEF Drawing
  <2> QED BY <2>1, <2>2
<1> HIDE DEF w
<1> QED
  BY <1>3, <1>4, <1>5, <1>10

\* and the lower one, which the first call has left on top of C.
LEMMA SecondCall ==
  ASSUME Alive(state), CodeAt(state.rom, \h0200, ScaleCode), process, ~CopyFails,
         LogoPresent, NEW m \in 0..47,
         state.pc = \h020A, state.sp = Top(0), Scene(2 * m + 1, m, 8 * m + 4),
         state.reg["C"] \div 16 = Logo(m) % 16
  PROVE  /\ Alive(state') /\ state'.rom = state.rom
         /\ \E h \in 0..1, w \in Byte : (Called(m, h, w) /\ Drawing(m, h, w))'
<1> DEFINE w == state.reg["C"]
<1> DEFINE lo == \h16
<1>1. /\ uint16(state.pc + 1) = \h020B /\ uint16(state.pc + 2) = \h020C
      /\ uint16(state.pc + 3) = \h020D
  BY DEF uint16
<1>2. /\ lo \in Byte /\ Finds(state.pc, \hCD, state) /\ Finds(uint16(state.pc + 1), lo, state)
      /\ Finds(uint16(state.pc + 2), \h02, state) /\ Join(\h02, lo) = \h0216
  BY <1>1, ScaleCodeAt DEF Byte, MaxByte, Join
<1> HIDE DEF lo
<1>3. /\ Alive(state') /\ Outside(state, state') /\ SameFile(state, state')
      /\ state'.pc = \h0216 /\ state'.sp = Top(1) /\ WordAt(1, state') = \h020D
  BY <1>1, <1>2, RunsCall
<1>4. w \in Byte /\ w \div 16 = Nibble(2 * m + 1) /\ 8 * m + 4 * 1 = 8 * m + 4
  BY Nibbles, Members DEF Alive, Reg8
<1>5. /\ state'.rom = state.rom /\ state'.video = state.video /\ state'.reg["C"] = w
      /\ Pair("DE", state') = \h0104 + m /\ Pair("HL", state') = \h8010 + (8 * m + 4)
  BY <1>3 DEF Outside, SameFile, Pair, Scene
<1> HIDE DEF w
<1>6. Nibble(2 * m + 1)' = Nibble(2 * m + 1)
  BY <1>5 DEF Nibble, Logo
<1>7. w \div 16 = Nibble(2 * m + 1)' /\ WordAt(1, state') = \h020D
  BY <1>3, <1>4, <1>6
<1>8. Drawn(2 * m + 1)'
  <2> DEFINE k == 2 * m + 1
  <2> HIDE DEF k
  <2>1. Drawn(k)
    BY DEF k, Scene
  <2>2. Drawn(k)'
    BY <1>5, <2>1, PictureKept
  <2> QED BY <2>2 DEF k
<1>9. Scene(2 * m + 1, m, 8 * m + 4 * 1)'
  BY <1>4, <1>5, <1>8 DEF Scene
<1>10. \A u \in Byte : u = w => Called(m, 1, u)' /\ Drawing(m, 1, u)'
  <2> SUFFICES ASSUME NEW u \in Byte, u = w PROVE Called(m, 1, u)' /\ Drawing(m, 1, u)'
    OBVIOUS
  <2>1. Called(m, 1, u)'
    BY <1>7 DEF Called
  <2>2. Drawing(m, 1, u)'
    BY <1>3, <1>5, <1>9 DEF Drawing
  <2> QED BY <2>1, <2>2
<1> QED
  BY <1>3, <1>4, <1>5, <1>10

\* The steps between the calls.
LEMMA OuterSteps ==
  ASSUME Alive(state), CodeAt(state.rom, \h0200, ScaleCode), process, ~CopyFails,
         LogoPresent, NEW m \in 0..48, Outer(m)
  PROVE  /\ state'.rom = state.rom
         /\ \/ state'.status # "running"
            \/ \E n \in 0..48 : Outer(n)'
            \/ m \in 0..47 /\ \E h \in 0..1, w \in Byte : (Called(m, h, w) /\ Drawing(m, h, w))'
<1>1. /\ state.sp = Top(0) /\ state.reg["A"] \in Byte /\ {"A", "C", "E"} \subseteq Reg8
  BY Members DEF Outer, Alive, Reg8
<1>2. ASSUME NEW k, Drawn(k), state'.video = state.video, state'.rom = state.rom PROVE Drawn(k)'
  BY <1>2, PictureKept
<1>3. CASE state.pc = \h0206
  <2> DEFINE v == Logo(m)
  <2> DEFINE b == \h1A
  <2>1. /\ uint16(state.pc + 1) = \h0207 /\ m \in 0..47 /\ m < 48 /\ Scene(2 * m, m, 8 * m)
        /\ Pair("DE", state) = \h0104 + m
    BY <1>3 DEF Outer, uint16, Scene
  <2>2. /\ Finds(state.pc, b, state) /\ v \in Byte /\ Finds(Pair("DE", state), v, state)
        /\ instructions[b] = Ins("Load", <<"A", "PtrDE">>, 8)
    <3>1. Logo(m) \in Byte /\ Finds(\h0104 + m, Logo(m), state)
      BY <2>1, Nibbles
    <3>2. Finds(\h0206, \h1A, state) /\ instructions[\h1A] = Ins("Load", <<"A", "PtrDE">>, 8)
      BY ScaleCodeAt, ScaleRows
    <3> QED BY <1>3, <2>1, <3>1, <3>2
  <2> HIDE DEF b, v
  <2>3. Straight(1) /\ state'.reg = Put(state.reg, "A", v)
    BY <2>2, RunLoadFrom
  <2> DEFINE x == "A"
  <2>4. x \in {"A", "B", "C"} /\ state'.reg = Put(state.reg, x, v)
    BY <2>3
  <2> HIDE DEF x
  <2>5. Beside /\ state'.reg[x] = v
    BY <2>3, <2>4, OneRegister
  <2>6. state'.reg["A"] = Logo(m)' /\ state'.pc = \h0207 /\ state'.sp = Top(0)
    BY <1>1, <2>1, <2>3, <2>5 DEF x, v, Logo, Straight, Beside
  <2> DEFINE k == 2 * m
  <2> HIDE DEF k
  <2>7. Drawn(k)'
    BY <1>2, <2>1, <2>5 DEF Scene, Beside, k
  <2>8. Scene(2 * m, m, 8 * m)'
    BY <2>1, <2>5, <2>7 DEF Scene, Beside, k
  <2>9. Outer(m)'
    BY <2>1, <2>6, <2>8 DEF Outer
  <2> QED BY <2>5, <2>9 DEF Beside
<1>4. CASE state.pc = \h0207
  <2>1. m \in 0..47 /\ Scene(2 * m, m, 8 * m) /\ state.reg["A"] = Logo(m)
    BY <1>4 DEF Outer
  <2> QED BY <1>1, <1>4, <2>1, FirstCall
<1>5. CASE state.pc = \h020A
  <2>1. m \in 0..47 /\ Scene(2 * m + 1, m, 8 * m + 4) /\ state.reg["C"] \div 16 = Logo(m) % 16
    BY <1>5 DEF Outer
  <2> QED BY <1>1, <1>5, <2>1, SecondCall
<1>6. CASE state.pc = \h020D
  <2> DEFINE b == \h13
  <2> DEFINE p == "DE"
  <2> DEFINE v == \h0104 + m
  <2>1. /\ uint16(state.pc + 1) = \h020E /\ m < 48 /\ Drawn(2 * m + 2)
        /\ Pair("DE", state) = v /\ Pair("HL", state) = \h8010 + (8 * m + 8)
    BY <1>6 DEF uint16, Scene, Outer
  <2>2. v \in Int /\ v + 1 = \h0104 + (m + 1) /\ 0 <= v + 1 /\ v + 1 < \h10000
    OBVIOUS
  <2>3. /\ Finds(state.pc, b, state) /\ p \in Pairs /\ instructions[b] = Ins("Inc", <<p>>, 8)
        /\ Pair(p, state) = v
    BY <1>6, <2>1, ScaleCodeAt, ScaleRows DEF Pairs
  <2> HIDE DEF b, p, v
  <2>4. v + 1 \in Word
    BY <2>2, InWord
  <2>5. /\ Straight(1) /\ Pair(p, state') = v + 1
        /\ \A x \in Reg8 \ {High[p], Low[p]} : state'.reg[x] = state.reg[x]
        /\ state'.video = state.video /\ state'.rom = state.rom
    BY <2>2, <2>3, <2>4, OneFurther
  <2>6. Pair("DE", state') = \h0104 + (m + 1) /\ Pair("HL", state') = Pair("HL", state)
    <3>1. \A x \in Reg8 \ {"D", "E"} : state'.reg[x] = state.reg[x]
      BY <2>5 DEF p, High, Low
    <3> QED BY <2>2, <2>5, <3>1 DEF Pair, p, High, Low, Reg8
  <2> DEFINE n == m + 1
  <2>7. /\ n \in 0..48 /\ n > 0 /\ 2 * m + 2 = 2 * n /\ 8 * m + 8 = 8 * n
    BY <2>1
  <2>8. Drawn(2 * n)'
    <3> DEFINE k == 2 * n
    <3> HIDE DEF k
    <3>1. Drawn(k)
      BY <2>1, <2>7 DEF k
    <3>2. Drawn(k)'
      BY <1>2, <2>5, <3>1
    <3> QED BY <3>2 DEF k
  <2>9. Pair("DE", state') = \h0104 + n /\ Pair("HL", state') = \h8010 + 8 * n
    BY <2>1, <2>6, <2>7
  <2>10. state'.pc = \h020E /\ state'.sp = Top(0)
    BY <1>1, <2>1, <2>5 DEF Straight
  <2> HIDE DEF n
  <2>11. Scene(2 * n, n, 8 * n)'
    BY <2>8, <2>9 DEF Scene
  <2>12. Outer(n)'
    BY <2>7, <2>10, <2>11 DEF Outer
  <2> QED BY <2>5, <2>7, <2>12
<1>7. CASE state.pc \in {\h020E, \h020F, \h0211, \h0213}
  <2>1. /\ m > 0 /\ m \in Int /\ Drawn(2 * m)
        /\ Pair("DE", state) = \h0104 + m /\ Pair("HL", state) = \h8010 + 8 * m
        /\ \/ state.pc = \h020E
           \/ state.pc = \h020F /\ state.reg["A"] = 4 + m
           \/ state.pc = \h0211 /\ ("Zero" \in state.flags <=> m = 48)
           \/ state.pc = \h0213 /\ m = 48
    BY <1>7 DEF Outer, Scene
  <2>2. ASSUME Pair("DE", state') = Pair("DE", state), Pair("HL", state') = Pair("HL", state),
               state'.video = state.video, state'.rom = state.rom
        PROVE  Scene(2 * m, m, 8 * m)'
    <3> DEFINE k == 2 * m
    <3> HIDE DEF k
    <3>1. Drawn(k)
      BY <2>1 DEF k
    <3>2. Drawn(k)'
      BY <1>2, <2>2, <3>1
    <3> QED BY <2>1, <2>2, <3>2 DEF k, Scene
  <2>3. CASE state.pc = \h020E
    <3> DEFINE b == \h7B
    <3> DEFINE x == "A"
    <3> DEFINE y == "E"
    <3>1. /\ uint16(state.pc + 1) = \h020F /\ Finds(state.pc, b, state) /\ x \in Reg8 /\ y \in Reg8
          /\ instructions[b] = Ins("Load", <<x, y>>, 4) /\ x \in {"A", "B", "C"}
          /\ state.reg[y] = 4 + m
      <4>1. state.reg["E"] = 4 + m
        BY <2>1, LowOfDE
      <4>2. Finds(\h020E, \h7B, state) /\ instructions[\h7B] = Ins("Load", <<"A", "E">>, 4)
        BY ScaleCodeAt, ScaleRows
      <4> QED BY <1>1, <2>3, <4>1, <4>2 DEF uint16
    <3> HIDE DEF b, x, y
    <3> DEFINE v == 4 + m
    <3>2. Straight(1) /\ state'.reg = Put(state.reg, x, v)
      <4>1. Straight(1) /\ state'.reg = Put(state.reg, x, state.reg[y])
        BY <3>1, RunLoad, SMTT(20)
      <4> QED BY <3>1, <4>1
    <3> HIDE DEF v
    <3>3. Beside /\ state'.reg[x] = v
      BY <3>1, <3>2, OneRegister
    <3>4. /\ state'.pc = \h020F /\ state'.sp = Top(0) /\ state'.reg["A"] = 4 + m
          /\ Scene(2 * m, m, 8 * m)'
      BY <1>1, <2>2, <3>1, <3>2, <3>3 DEF Straight, Beside, v, x
    <3>5. Outer(m)'
      BY <2>1, <3>4 DEF Outer
    <3> QED BY <3>3, <3>5 DEF Beside
  <2>4. CASE state.pc = \h020F
    <3> DEFINE b == \hFE
    <3> DEFINE v == \h34
    <3>1. /\ uint16(state.pc + 1) = \h0210 /\ uint16(state.pc + 2) = \h0211
          /\ Finds(state.pc, b, state) /\ Finds(uint16(state.pc + 1), v, state) /\ v \in Byte
          /\ instructions[b] = Ins("Compare", <<"D8">>, 8) /\ (state.reg["A"] = v <=> m = 48)
      <4>1. state.reg["A"] = 4 + m
        BY <2>1, <2>4
      <4>2. /\ Finds(\h020F, \hFE, state) /\ Finds(\h0210, \h34, state)
            /\ instructions[\hFE] = Ins("Compare", <<"D8">>, 8)
        BY ScaleCodeAt, ScaleRows
      <4>3. uint16(state.pc + 1) = \h0210 /\ uint16(state.pc + 2) = \h0211 /\ v \in Byte
        BY <2>4 DEF uint16, Byte, MaxByte
      <4>4. 4 + m = \h34 <=> m = 48
        OBVIOUS
      <4> QED BY <2>4, <4>1, <4>2, <4>3, <4>4
    <3> HIDE DEF b, v
    <3>2. Straight(2) /\ state'.reg = state.reg /\ ("Zero" \in state'.flags <=> m = 48)
      BY <3>1, RunCompareByte
    <3>3. state'.video = state.video /\ state'.rom = state.rom
      BY <3>2 DEF Straight, Kept
    <3>4. /\ state'.pc = \h0211 /\ state'.sp = Top(0) /\ Scene(2 * m, m, 8 * m)'
      BY <1>1, <2>2, <3>1, <3>2, <3>3 DEF Straight, Pair
    <3>5. Outer(m)'
      BY <2>1, <3>2, <3>4 DEF Outer
    <3> QED BY <3>3, <3>5
  <2>5. CASE state.pc = \h0211
    <3> DEFINE c == "NZ"
    <3> DEFINE o == \h20
    <3> DEFINE v == \hF3
    <3>1. /\ uint16(state.pc + 1) = \h0212 /\ uint16(state.pc + 2) = \h0213
          /\ v \in Byte /\ int8(v) = -13 /\ uint16(state.pc + (2 + -13)) = \h0206
      BY <2>5 DEF Byte, MaxByte, int8, uint16
    <3>2. /\ Finds(state.pc, o, state) /\ Finds(uint16(state.pc + 1), v, state)
          /\ instructions[o] = Ins("JumpRelative", <<c, "D8">>, 8)
      BY <2>5, <3>1, ScaleCodeAt, ScaleRows
    <3>3. (is_true(c, state) <=> "Zero" \notin state.flags) /\ c # "Always"
      BY DEF is_true
    <3> HIDE DEF c, o, v
    <3>4. /\ Alive(state') /\ Kept(state, state') /\ SameFile(state, state')
          /\ state'.sp = state.sp
          /\ is_true(c, state) => state'.pc = uint16(state.pc + (2 + int8(v)))
          /\ ~is_true(c, state) => state'.pc = uint16(state.pc + 2)
      BY <3>1, <3>2, <3>3, RunJumpRelative
    <3>5. /\ state'.pc = IF m = 48 THEN \h0213 ELSE \h0206
          /\ state'.video = state.video /\ state'.rom = state.rom /\ state'.sp = Top(0)
          /\ Scene(2 * m, m, 8 * m)'
      BY <1>1, <2>1, <2>2, <2>5, <3>1, <3>3, <3>4 DEF Kept, SameFile, Pair
    <3>6. Outer(m)'
      <4>1. m = 48 \/ m < 48
        OBVIOUS
      <4> QED BY <2>1, <3>5, <4>1 DEF Outer
    <3> QED BY <3>5, <3>6
  <2>6. CASE state.pc = \h0213
    <3> DEFINE b == \hFF
    <3>1. Finds(state.pc, b, state) /\ instructions[b] = Null
      BY <2>6, ScaleCodeAt, ScaleRows
    <3> HIDE DEF b
    <3>2. state'.status = "panicked" /\ Kept(state, state')
      BY <3>1, RunNull
    <3> QED BY <3>2 DEF Kept
  <2> QED BY <2>1, <2>3, <2>4, <2>5, <2>6
<1> QED
  <2>1. \/ state.pc = \h0206 \/ state.pc = \h0207 \/ state.pc = \h020A \/ state.pc = \h020D
        \/ /\ m > 0 /\ Scene(2 * m, m, 8 * m)
           /\ \/ state.pc = \h020E
              \/ state.pc = \h020F /\ state.reg["A"] = 4 + m
              \/ state.pc = \h0211 /\ ("Zero" \in state.flags <=> m = 48)
              \/ state.pc = \h0213 /\ m = 48
    BY DEF Outer
  <2> QED BY <1>3, <1>4, <1>5, <1>6, <1>7, <2>1

\* LD of a pair.
LEMMA PairLoaded ==
  ASSUME Alive(state), process, NEW b, Finds(state.pc, b, state), NEW p \in Pairs,
         NEW lo \in Byte, Finds(uint16(state.pc + 1), lo, state),
         NEW hi \in Byte, Finds(uint16(state.pc + 2), hi, state),
         instructions[b] = Ins("Load", <<p, "D16">>, 12)
  PROVE  /\ Straight(3) /\ Pair(p, state') = Join(hi, lo)
         /\ \A x \in Reg8 \ {High[p], Low[p]} : state'.reg[x] = state.reg[x]
         /\ state'.video = state.video /\ state'.rom = state.rom
<1>1. Straight(3) /\ state'.reg = PutWord(state.reg, p, Join(hi, lo)) /\ StateOK(state)
  BY RunLoadWord DEF Alive
<1>2. Join(hi, lo) \in Word
  <2>1. Join(hi, lo) \in Int /\ 0 <= Join(hi, lo) /\ Join(hi, lo) < \h10000
    BY DEF Join, Byte, MaxByte
  <2> QED BY <2>1, InWord
<1> DEFINE w == Join(hi, lo)
<1>3. w \in Word /\ state'.reg = PutWord(state.reg, p, w)
  BY <1>1, <1>2
<1> HIDE DEF w
<1>4. Pair(p, state') = w /\ \A x \in Reg8 \ {High[p], Low[p]} : state'.reg[x] = state.reg[x]
  BY <1>1, <1>3, WordPut
<1> QED
  BY <1>1, <1>4 DEF w, Straight, Kept

\* The picture is empty when the outer loop is entered.
LEMMA ScaleBegin ==
  ASSUME Alive(state), CodeAt(state.rom, \h0200, ScaleCode), process,
         state.sp = Top(0), state.video = Zeros,
         \/ state.pc = \h0200
         \/ state.pc = \h0203 /\ Pair("DE", state) = \h0104
  PROVE  /\ state'.rom = state.rom
         /\ \/ /\ state'.pc = \h0203 /\ state'.sp = Top(0) /\ state'.video = Zeros
               /\ Pair("DE", state') = \h0104
            \/ Outer(0)'
<1>1. CASE state.pc = \h0200
  <2> DEFINE b == \h11
  <2> DEFINE p == "DE"
  <2> DEFINE lo == \h04
  <2> DEFINE hi == \h01
  <2>1. /\ uint16(state.pc + 1) = \h0201 /\ uint16(state.pc + 2) = \h0202
        /\ uint16(state.pc + 3) = \h0203 /\ Join(hi, lo) = \h0104
    BY <1>1 DEF uint16, Join
  <2>2. /\ Finds(state.pc, b, state) /\ p \in Pairs /\ lo \in Byte /\ hi \in Byte
        /\ Finds(uint16(state.pc + 1), lo, state) /\ Finds(uint16(state.pc + 2), hi, state)
        /\ instructions[b] = Ins("Load", <<p, "D16">>, 12)
    BY <1>1, <2>1, ScaleCodeAt, ScaleRows DEF Byte, MaxByte, Pairs
  <2> HIDE DEF b, p, lo, hi
  <2>3. Straight(3) /\ Pair(p, state') = Join(hi, lo) /\ state'.video = state.video /\ state'.rom = state.rom
    BY <2>2, PairLoaded
  <2> QED BY <2>1, <2>3 DEF p, Straight
<1>2. CASE state.pc = \h0203 /\ Pair("DE", state) = \h0104
  <2> DEFINE b == \h21
  <2> DEFINE p == "HL"
  <2> DEFINE lo == \h10
  <2> DEFINE hi == \h80
  <2>1. /\ uint16(state.pc + 1) = \h0204 /\ uint16(state.pc + 2) = \h0205
        /\ uint16(state.pc + 3) = \h0206 /\ Join(hi, lo) = \h8010
    BY <1>2 DEF uint16, Join
  <2>2. /\ Finds(state.pc, b, state) /\ p \in Pairs /\ lo \in Byte /\ hi \in Byte
        /\ Finds(uint16(state.pc + 1), lo, state) /\ Finds(uint16(state.pc + 2), hi, state)
        /\ instructions[b] = Ins("Load", <<p, "D16">>, 12)
    BY <1>2, <2>1, ScaleCodeAt, ScaleRows DEF Byte, MaxByte, Pairs
  <2> HIDE DEF b, p, lo, hi
  <2>3. /\ Straight(3) /\ Pair(p, state') = Join(hi, lo)
        /\ \A x \in Reg8 \ {High[p], Low[p]} : state'.reg[x] = state.reg[x]
        /\ state'.video = state.video /\ state'.rom = state.rom
    BY <2>2, PairLoaded
  <2>4. Pair("HL", state') = \h8010 /\ Pair("DE", state') = \h0104
    <3>1. \A x \in Reg8 \ {"H", "L"} : state'.reg[x] = state.reg[x]
      BY <2>3 DEF p, High, Low
    <3>2. Pair("DE", state') = Pair("DE", state)
      BY <3>1 DEF Pair, High, Low, Reg8
    <3>3. Pair("HL", state') = \h8010
      BY <2>1, <2>3 DEF p
    <3> QED BY <1>2, <3>2, <3>3
  <2>5. 2 * 0 = 0 /\ 8 * 0 = 0 /\ \h0104 + 0 = \h0104 /\ \h8010 + 0 = \h8010
    OBVIOUS
  <2>6. Drawn(0)'
    BY <2>3 DEF Drawn, Zeros
  <2>7. Scene(2 * 0, 0, 8 * 0)'
    BY <2>4, <2>5, <2>6 DEF Scene
  <2>8. Outer(0)'
    BY <2>1, <2>3, <2>7 DEF Outer, Straight
  <2> QED BY <2>3, <2>8
<1> QED
  BY <1>1, <1>2

\* Every instruction of the program.
LEMMA ScaleSteps ==
  ASSUME Alive(state), ScaleInv, process, ~CopyFails
  PROVE  ScaleInv'
<1>1. /\ CodeAt(state.rom, \h0200, ScaleCode) /\ LogoPresent
      /\ \/ /\ state.sp = Top(0) /\ state.video = Zeros
            /\ state.pc = \h0200 \/ (state.pc = \h0203 /\ Pair("DE", state) = \h0104)
         \/ \E m \in 0..48 : Outer(m)
         \/ \E m \in 0..47, h \in 0..1, w \in Byte : Called(m, h, w) /\ Drawing(m, h, w)
  BY DEF ScaleInv, Running, Alive
<1>2. ASSUME state'.rom = state.rom,
             \/ state'.status # "running"
             \/ /\ state'.pc = \h0203 /\ state'.sp = Top(0) /\ state'.video = Zeros
                /\ Pair("DE", state') = \h0104
             \/ \E m \in 0..48 : Outer(m)'
             \/ \E m \in 0..47, h \in 0..1, w \in Byte : (Called(m, h, w) /\ Drawing(m, h, w))'
      PROVE  ScaleInv'
  <2>1. CodeAt(state'.rom, \h0200, ScaleCode) /\ LogoPresent'
    BY <1>1, <1>2 DEF LogoPresent
  <2> QED BY <1>2, <2>1 DEF ScaleInv, Running
<1>3. CASE /\ state.sp = Top(0) /\ state.video = Zeros
           /\ state.pc = \h0200 \/ (state.pc = \h0203 /\ Pair("DE", state) = \h0104)
  <2>1. 0 \in 0..48
    OBVIOUS
  <2> QED BY <1>1, <1>2, <1>3, <2>1, ScaleBegin
<1>4. CASE \E m \in 0..48 : Outer(m)
  <2>1. PICK m \in 0..48 : Outer(m)
    BY <1>4
  <2> QED BY <1>1, <1>2, <2>1, OuterSteps
<1>5. CASE \E m \in 0..47, h \in 0..1, w \in Byte : Called(m, h, w) /\ Drawing(m, h, w)
  <2>1. PICK m \in 0..47, h \in 0..1, w \in Byte : Called(m, h, w) /\ Drawing(m, h, w)
    BY <1>5
  <2> DEFINE k == 2 * m + h
  <2> DEFINE a == 8 * m + 4 * h
  <2>2. \/ /\ Scene(k, m, a)
           /\ \/ state.pc = \h0215 /\ state.sp = Top(1) /\ h = 0 /\ state.reg["A"] = w
              \/ state.pc = \h0216 /\ state.sp = Top(1) /\ state.reg["C"] = w
              \/ \E b \in 1..4 : Turn(w, b)
        \/ /\ state.sp = Top(1) /\ state.reg["A"] = Gone(w, 0) /\ Rotated(w, 0, state.reg["C"])
           /\ \/ state.pc = \h0225 /\ Scene(k, m, a)
              \/ state.pc = \h0226 /\ Scene(k, m, a + 1) /\ Row(a, k)
              \/ state.pc = \h0227 /\ Scene(k, m, a + 2) /\ Row(a, k)
              \/ state.pc = \h0228 /\ Scene(k + 1, m, a + 3)
              \/ state.pc = \h0229 /\ Scene(k + 1, m, a + 4)
    BY <2>1 DEF Drawing
  <2>3. k = 2 * m + h /\ a = 8 * m + 4 * h
    OBVIOUS
  <2> HIDE DEF k, a
  <2>4. /\ state'.rom = state.rom
        /\ (Called(m, h, w) /\ Drawing(m, h, w))' \/ Outer(m)'
    <3>1. CASE /\ Scene(k, m, a)
               /\ \/ state.pc = \h0215 /\ state.sp = Top(1) /\ h = 0 /\ state.reg["A"] = w
                  \/ state.pc = \h0216 /\ state.sp = Top(1) /\ state.reg["C"] = w
                  \/ \E b \in 1..4 : Turn(w, b)
      <4> QED BY <1>1, <2>1, <2>3, <3>1, CallSteps
    <3>2. CASE /\ state.sp = Top(1) /\ state.reg["A"] = Gone(w, 0)
               /\ Rotated(w, 0, state.reg["C"])
               /\ \/ state.pc = \h0225 /\ Scene(k, m, a)
                  \/ state.pc = \h0226 /\ Scene(k, m, a + 1) /\ Row(a, k)
                  \/ state.pc = \h0227 /\ Scene(k, m, a + 2) /\ Row(a, k)
                  \/ state.pc = \h0228 /\ Scene(k + 1, m, a + 3)
                  \/ state.pc = \h0229 /\ Scene(k + 1, m, a + 4)
      <4> QED BY <1>1, <2>1, <2>3, <3>2, RowSteps, SMTT(30)
    <3> QED BY <2>2, <3>1, <3>2
  <2>5. m \in 0..48
    OBVIOUS
  <2> QED BY <1>2, <2>1, <2>4, <2>5
<1> QED
  BY <1>1, <1>3, <1>4, <1>5

\* Where the picture is read.
LEMMA RowRead ==
  ASSUME NEW i \in 0..95, NEW e \in {0, 2}, NEW s
  PROVE  ByteAt(\h8010 + (4 * i + e), s) = At(s.video, \h10 + (4 * i + e))
<1> DEFINE a == \h8010 + (4 * i + e)
<1>1. a \in Int /\ \h8000 <= a /\ a < \hA000 /\ a - \h8000 = \h10 + (4 * i + e)
  OBVIOUS
<1> HIDE DEF a
<1>2. ByteAt(a, s) = At(s.video, a - \h8000)
  BY <1>1, VideoByte
<1> QED
  BY <1>1, <1>2 DEF a

\* The picture at the end.
LEMMA ScaleShows ==
  ASSUME TypeOK, ScaleInv
  PROVE  LogoScaled
<1> SUFFICES ASSUME Running, state.pc = \h0213
             PROVE  /\ \A i \in 0..95 :
                         LET byte == ByteAt(\h0104 + i \div 2, state)
                             want == Doubled(IF i % 2 = 0 THEN byte \div 16 ELSE byte % 16)
                         IN  /\ ByteAt(\h8010 + 4 * i, state) = want
                             /\ ByteAt(\h8012 + 4 * i, state) = want
                    /\ DOMAIN state.video \subseteq {\h10 + 2 * i : i \in 0..191}
                    /\ state.sp = \hFFFE /\ Pair("HL", state) = \h8190
  BY DEF LogoScaled, AtPc
<1>1. Alive(state) /\ LogoPresent
  BY DEF Alive, TypeOK, Running, ScaleInv
<1>2. /\ state.sp = Top(0) /\ Drawn(96) /\ Pair("HL", state) = \h8010 + 8 * 48
  <2>1. \/ \E m \in 0..48 : Outer(m)
        \/ \E m \in 0..47, h \in 0..1, w \in Byte : Called(m, h, w) /\ Drawing(m, h, w)
    BY DEF ScaleInv
  <2>2. ASSUME NEW m \in 0..47, NEW h \in 0..1, NEW w \in Byte, Drawing(m, h, w) PROVE FALSE
    BY <2>2 DEF Drawing, Turn
  <2>3. PICK m \in 0..48 : Outer(m)
    BY <2>1, <2>2
  <2>4. m = 48 /\ state.sp = Top(0) /\ Scene(2 * m, m, 8 * m)
    BY <2>3 DEF Outer
  <2>5. 2 * m = 96
    BY <2>4
  <2> QED BY <2>4, <2>5 DEF Scene
<1>3. state.sp = \hFFFE /\ Pair("HL", state) = \h8190
  BY <1>2 DEF Top
<1>4. DOMAIN state.video \subseteq {\h10 + 2 * i : i \in 0..191}
  BY <1>2 DEF Drawn
<1>5. ASSUME NEW i \in 0..95
      PROVE  LET byte == ByteAt(\h0104 + i \div 2, state)
                 want == Doubled(IF i % 2 = 0 THEN byte \div 16 ELSE byte % 16)
             IN  /\ ByteAt(\h8010 + 4 * i, state) = want
                 /\ ByteAt(\h8012 + 4 * i, state) = want
  <2> DEFINE m == i \div 2
  <2>1. m \in 0..47
    OBVIOUS
  <2> HIDE DEF m
  <2>2. ByteAt(\h0104 + m, state) = Logo(m)
    BY <1>1, <2>1, Nibbles DEF Finds
  <2>3. Nibble(i) = IF i % 2 = 0 THEN Logo(m) \div 16 ELSE Logo(m) % 16
    BY DEF Nibble, m
  <2>4. Row(4 * i, i) /\ Row(4 * i + 2, i)
    BY <1>2 DEF Drawn
  <2>5. At(state.video, \h10 + 4 * i) = Doubled(Nibble(i))
    BY <2>4 DEF Row
  <2>6. At(state.video, \h10 + (4 * i + 2)) = Doubled(Nibble(i))
    BY <2>4 DEF Row
  <2>7. ByteAt(\h8010 + 4 * i, state) = At(state.video, \h10 + 4 * i)
    <3> DEFINE e == 0
    <3>1. e \in {0, 2} /\ 4 * i + e = 4 * i
      OBVIOUS
    <3> HIDE DEF e
    <3>2. ByteAt(\h8010 + (4 * i + e), state) = At(state.video, \h10 + (4 * i + e))
      BY <3>1, RowRead
    <3> QED BY <3>1, <3>2
  <2>8. ByteAt(\h8012 + 4 * i, state) = At(state.video, \h10 + (4 * i + 2))
    <3> DEFINE e == 2
    <3>1. e \in {0, 2} /\ \h8010 + (4 * i + e) = \h8012 + 4 * i
      OBVIOUS
    <3> HIDE DEF e
    <3>2. ByteAt(\h8010 + (4 * i + e), state) = At(state.video, \h10 + (4 * i + e))
      BY <3>1, RowRead
    <3> QED BY <3>1, <3>2 DEF e
  <2> QED BY <2>2, <2>3, <2>5, <2>6, <2>7, <2>8 DEF m
<1> QED
  BY <1>3, <1>4, <1>5

\* A stutter.
LEMMA ScaleStays ==
  ASSUME ScaleInv, UNCHANGED state
  PROVE  ScaleInv'
<1>1. ASSUME NEW k, NEW m, NEW a, Scene(k, m, a) PROVE Scene(k, m, a)'
  BY <1>1 DEF Scene, Drawn, Row, Nibble, Logo, Pair
<1>2. ASSUME NEW a, NEW k, Row(a, k) PROVE Row(a, k)'
  BY <1>2 DEF Row, Nibble, Logo
<1>3. ASSUME NEW m, Outer(m) PROVE Outer(m)'
  BY <1>1, <1>3 DEF Outer, Logo
<1>4. ASSUME NEW w, NEW b, Turn(w, b) PROVE Turn(w, b)'
  BY <1>4 DEF Turn, Saved, Carries1, WordAt
<1>5. ASSUME NEW m, NEW h, NEW w, Called(m, h, w), Drawing(m, h, w)
      PROVE  (Called(m, h, w) /\ Drawing(m, h, w))'
  <2>1. Called(m, h, w)'
    BY <1>5 DEF Called, WordAt, Nibble, Logo
  <2>2. Drawing(m, h, w)'
    BY <1>1, <1>2, <1>4, <1>5 DEF Drawing
  <2> QED BY <2>1, <2>2
<1>6. CodeAt(state.rom, \h0200, ScaleCode)' /\ LogoPresent'
  BY DEF ScaleInv, CodeAt, LogoPresent
<1>7. Running' => Running
  BY DEF Running
<1>8. CASE Running
  <2>1. \/ state.pc = \h0200 /\ state.sp = Top(0) /\ state.video = Zeros
        \/ /\ state.pc = \h0203 /\ state.sp = Top(0) /\ state.video = Zeros
           /\ Pair("DE", state) = \h0104
        \/ \E m \in 0..48 : Outer(m)
        \/ \E m \in 0..47, h \in 0..1, w \in Byte : Called(m, h, w) /\ Drawing(m, h, w)
    BY <1>8 DEF ScaleInv
  <2>2. ASSUME state.pc = \h0200 \/ (state.pc = \h0203 /\ Pair("DE", state) = \h0104),
               state.sp = Top(0), state.video = Zeros
        PROVE  ScaleInv'
    BY <1>6, <2>2 DEF ScaleInv, Pair
  <2>3. ASSUME NEW m \in 0..48, Outer(m) PROVE ScaleInv'
    BY <1>3, <1>6, <2>3 DEF ScaleInv
  <2>4. ASSUME NEW m \in 0..47, NEW h \in 0..1, NEW w \in Byte, Called(m, h, w), Drawing(m, h, w)
        PROVE  ScaleInv'
    BY <1>5, <1>6, <2>4 DEF ScaleInv
  <2> QED BY <2>1, <2>2, <2>3, <2>4
<1> QED
  BY <1>6, <1>7, <1>8 DEF ScaleInv

\* The picture, for every cartridge with the program and whatever logo it carries.
THEOREM LogoDrawn == Spec /\ ScaleStarts => []LogoScaled
<1>1. Init /\ ScaleStarts => ScaleInv
  <2> SUFFICES ASSUME Init, ScaleStarts PROVE ScaleInv
    OBVIOUS
  <2>1. state.video = Zeros
    BY DEF Init, Loaded
  <2> QED BY <2>1 DEF ScaleStarts, Enters, ScaleInv
<1>2. TypeOK /\ ScaleInv /\ [Next]_state => ScaleInv'
  <2> SUFFICES ASSUME TypeOK, ScaleInv, [Next]_state PROVE ScaleInv'
    OBVIOUS
  <2>1. CASE UNCHANGED state
    BY <2>1, ScaleStays
  <2>2. CASE process /\ state.status = "running" /\ ~CopyFails
    BY <2>2, ScaleSteps DEF Alive, TypeOK
  <2>3. CASE CopyFails
    <3>1. state'.status = "crashed" /\ state'.rom = state.rom
      BY <2>3, CopyFailsEffect DEF Kept
    <3> QED BY <3>1 DEF ScaleInv, Running, LogoPresent
  <2> QED BY <2>1, <2>2, <2>3, RunningSteps
<1>3. TypeOK /\ ScaleInv => LogoScaled
  BY ScaleShows
<1> QED
  BY <1>1, <1>2, <1>3, TypeCorrect, PTL DEF Spec
=============================================================================
