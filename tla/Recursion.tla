----------------------------- MODULE Recursion ------------------------------
(***************************************************************************)
(* A recursive function on the CPU's stack, with sp at the top of the      *)
(* internal memory, where the boot ROM puts it.  From B the function calls *)
(* itself B - 1 times, saving BC around each call, and counts in E the     *)
(* levels it returns through; D keeps the first B.                         *)
(*                                                                         *)
(*   0100        CALL 0110                                                 *)
(*   0103        (no instruction)                                          *)
(*   0110  fun:  DEC B                                                     *)
(*   0111        RET Z                                                     *)
(*   0112        PUSH BC                                                   *)
(*   0113        CALL fun                                                  *)
(*   0116        POP BC                                                    *)
(*   0117        INC E                                                     *)
(*   0118        RET                                                       *)
(***************************************************************************)
EXTENDS Machine, Sequences

Function == <<\h05, \hC8, \hC5, \hCD, \h10, \h01, \hC1, \h1C, \hC9>>

\* The program by offsets into the file.
Code == [i \in (0..3) \cup (\h10..\h18) |->
           IF i <= 3 THEN <<\hCD, \h10, \h01, \hFF>>[i + 1] ELSE Function[i - \h0F]]

\* A file with the program, and the registers it starts from.
Carries(rom) == \A i \in DOMAIN Code : i \in DOMAIN rom /\ rom[i] = Code[i]
Starts(cpu) ==
  cpu.sp = \hFFFE /\ cpu.pc = \h0100 /\ cpu.reg["B"] = cpu.reg["D"] /\ cpu.reg["E"] = 0

-----------------------------------------------------------------------------
(* The stack in memory *)

\* The i-th word below FFFE, and all words from there to sp, oldest first.
WordAt(i, s) ==
  LET top == \hFFFE - 2 * (i - 1)
  IN  Join(ByteAt(top - 1, s), ByteAt(top, s))

WordsIn(s) == [i \in 1..((\hFFFE - s.sp) \div 2) |-> WordAt(i, s)]

Words == WordsIn(state)

Capacity == 63     \* whole words in FF81..FFFE

Stack == INSTANCE CallStack WITH
  stack <- Words,
  pc    <- state.pc,
  up    <- state.status = "running"

\* Push, Pop, Call and Ret keep a last-in first-out list in memory: every return
\* resumes after its own call whatever was pushed, called and returned in between,
\* and a push without room stops the machine before it can overwrite a word in use.
CallStackSpec == Stack!Spec

\* When the first call has come back the stack is empty, the saved B of the
\* outermost level is restored, and every level was returned through once; this
\* happens only for a depth whose 2n - 1 words fit.
ReturnsBalanced ==
  (state.status = "running" /\ state.pc = \h0103 /\ state.reg["D"] # 0) =>
     /\ state.sp = \hFFFE
     /\ state.reg["B"] = state.reg["D"] - 1
     /\ state.reg["E"] = state.reg["D"] - 1
     /\ 2 * state.reg["D"] - 1 <= Capacity

\* A recursion too deep for the internal memory is stopped at the first write below
\* it, FF7F, with the stack full: no byte of the video memory, no I/O register, neither
\* FFFF nor FF50 was written.
OverflowStops ==
  (state.status = "panicked" /\ state.pc # \h0104) =>
     /\ Len(Words) = Capacity
     /\ state.io = ResetIo /\ state.video = Zeros /\ state.boot_rom_enabled
     /\ state.interrupt_enabled = 0

-----------------------------------------------------------------------------
(* Every state of the program: the calls under way and the words they left *)

\* Calls of the function, of which the stack has room for 32; B = 0 counts through 255.
Depth == IF state.reg["D"] = 0 THEN 256 ELSE state.reg["D"]

\* sp with n words on the stack.
Top(n) == \hFFFE - 2 * n

\* The first call left 0103, the j-th level saved its B with C and called from 0113.
Frames ==
  /\ state.sp <= Top(1) => WordAt(1, state) = \h0103
  /\ \A j \in 1..31 :
       /\ state.sp <= Top(2 * j) => WordAt(2 * j, state) = Join(Depth - j, state.reg["C"])
       /\ state.sp <= Top(2 * j + 1) => WordAt(2 * j + 1, state) = \h0116

\* The j-th call is on its way down,
Descending(j) ==
  /\ state.reg["E"] = 0 /\ j <= Depth
  /\ \/ state.pc = \h0110 /\ state.sp = Top(2 * j - 1) /\ state.reg["B"] = uint8(Depth - j + 1)
     \/ /\ state.pc = \h0111 /\ state.sp = Top(2 * j - 1) /\ state.reg["B"] = Depth - j
        /\ "Zero" \in state.flags <=> j = Depth
     \/ /\ state.pc = \h0112 /\ state.sp = Top(2 * j - 1) /\ state.reg["B"] = Depth - j
        /\ j < Depth
     \/ /\ state.pc = \h0113 /\ state.sp = Top(2 * j) /\ state.reg["B"] = Depth - j
        /\ j < Depth /\ j <= 31

\* or on its way back.
Returning(j) ==
  /\ j < Depth /\ Depth <= 32
  /\ \/ /\ state.pc = \h0116 /\ state.sp = Top(2 * j) /\ state.reg["E"] = Depth - 1 - j
        /\ state.reg["B"] = Depth - 1 - j
     \/ /\ state.pc = \h0117 /\ state.sp = Top(2 * j - 1) /\ state.reg["E"] = Depth - 1 - j
        /\ state.reg["B"] = Depth - j
     \/ /\ state.pc = \h0118 /\ state.sp = Top(2 * j - 1) /\ state.reg["E"] = Depth - j
        /\ state.reg["B"] = Depth - j

Finished ==
  /\ state.sp = Top(0) /\ Depth <= 32
  /\ state.reg["E"] = Depth - 1 /\ state.reg["B"] = Depth - 1

Untouched ==
  /\ Carries(state.rom) /\ state.io = ResetIo /\ state.video = Zeros
  /\ state.interrupt_enabled = 0 /\ state.boot_rom_enabled

Control ==
  IF state.status = "running"
  THEN \/ /\ state.pc = \h0100 /\ state.sp = Top(0)
          /\ state.reg["B"] = state.reg["D"] /\ state.reg["E"] = 0
       \/ \E j \in 1..32 : Descending(j) \/ Returning(j)
       \/ state.pc = \h0103 /\ Finished
  ELSE \/ state.status = "crashed"
       \/ /\ state.status = "panicked"
          /\ \/ state.pc = \h0104 /\ Finished
             \/ state.pc = \h0113 /\ state.sp = Top(Capacity) /\ Depth > 32

RecursionInv == StateOK(state) /\ Untouched /\ Frames /\ Control
=============================================================================
