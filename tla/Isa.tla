-------------------------------- MODULE Isa ---------------------------------
(***************************************************************************)
(* What one instruction may do to the machine, told from the opcode and    *)
(* its operand bytes alone: the memory it may write, where the program     *)
(* continues, the flags and the stack pointer it may move, and what is     *)
(* left when it stops the machine.                                         *)
(***************************************************************************)
EXTENDS Machine

-----------------------------------------------------------------------------
(* The opcode *)

\* The addresses whose byte differs between s and t.
Differ(s, t) ==
  {a \in {\hFFFF} : s.interrupt_enabled # t.interrupt_enabled}
    \cup {\hFF00 + f : f \in {g \in IoFields : s.io[g] # t.io[g]}}
    \cup {\h8000 + i : i \in {j \in DOMAIN s.video \cup DOMAIN t.video :
                                At(s.video, j) # At(t.video, j)}}
    \cup {\hFF80 + i : i \in {j \in DOMAIN s.internal_memory \cup DOMAIN t.internal_memory :
                                At(s.internal_memory, j) # At(t.internal_memory, j)}}

Opcode   == ByteAt(state.pc, state)
Operand1 == ByteAt(uint16(state.pc + 1), state)
Operand2 == ByteAt(uint16(state.pc + 2), state)
Field(w) == (Opcode \div w) % 8

\* The addresses an instruction may write, from its opcode alone.
MayWrite ==
  CASE Opcode \in {\h02} -> {Pair("BC", state)}
    [] Opcode \in {\h12} -> {Pair("DE", state)}
    [] Opcode \in {\h22, \h32, \h34, \h35, \h36} \cup \h70..\h77 -> {Pair("HL", state)}
    [] Opcode = \hE2 -> {\hFF00 + state.reg["C"]}
    [] Opcode = \hEA -> {Join(Operand2, Operand1)}
    [] Opcode \in {\hC4, \hCC, \hD4, \hDC, \hCD, \hC5, \hD5, \hE5, \hF5}
         -> {state.sp, uint16(state.sp - 1)}
    [] Opcode = \hCB -> IF Operand1 = \h16 THEN {Pair("HL", state)} ELSE {}
    [] OTHER -> {}

\* The bytes of an instruction, from its opcode alone.
Length ==
  CASE Opcode \in {\h01, \h11, \h21, \h31, \hEA, \hFA, \hC3, \hCD,
                   \hC2, \hCA, \hD2, \hDA, \hC4, \hCC, \hD4, \hDC} -> 3
    [] Opcode \in {\h06, \h0E, \h16, \h1E, \h26, \h2E, \h36, \h3E, \h18, \h20, \h28, \h30, \h38,
                   \hC6, \hD6, \hEE, \hFE, \hE8, \hF8, \hCB} -> 2
    [] OTHER -> 1

RelativeJumps == {\h18, \h20, \h28, \h30, \h38}
Jumps         == {\hC3, \hC2, \hCA, \hD2, \hDA, \hE9}
Calls         == {\hCD, \hC4, \hCC, \hD4, \hDC}
Returns       == {\hC9, \hC0, \hC8, \hD0, \hD8}

\* A branch is taken when it has no condition or the flag named by two bits of the
\* opcode has the value named by the lower of them.
Branches ==
  /\ Opcode \in RelativeJumps \cup Jumps \cup Calls \cup Returns
  /\ \/ Opcode \in {\h18, \hC3, \hE9, \hCD, \hC9}
     \/ ((IF BitOf(Opcode, 16) = 0 THEN "Zero" ELSE "Carry") \in state.flags)
          = (BitOf(Opcode, 8) = 1)

\* Where the program continues after any instruction but a jump that is taken.
ResumesAt ==
  CASE ~Branches                            -> uint16(state.pc + Length)
    [] Branches /\ Opcode \in RelativeJumps -> uint16(state.pc + 2 + int8(Operand1))
    [] Branches /\ Opcode \in Calls         -> Join(Operand2, Operand1)
    [] Branches /\ Opcode \in Returns       -> Join(ByteAt(uint16(state.sp + 1), state),
                                                    ByteAt(uint16(state.sp + 2), state))

\* Opcodes that may set or clear the carry: ADD, SUB, XOR, CP and RL.
MayCarry ==
  \/ Opcode \in {\h09, \h19, \h29, \h39, \hE8, \hC6, \hD6, \hEE, \hFE}
  \/ Opcode \in \h80..\hBF /\ Field(8) \in {0, 2, 5, 7}
  \/ Opcode = \hCB /\ Operand1 \in \h10..\h17
\* and those that change the other flags with it or without.
MayFlag ==
  \/ MayCarry
  \/ Opcode \in \h00..\h3F /\ (Opcode % 8 \in {4, 5} \/ Opcode % 8 = 3)
  \/ Opcode = \hCB /\ Operand1 \in \h40..\h7F

Returned == state'.status = "running"

-----------------------------------------------------------------------------

\* No instruction writes memory other than at the addresses its operands name, and
\* only the write to FF50 touches the boot ROM switch.
WritesNamed ==
  /\ Differ(state, state') \subseteq MayWrite
  /\ state'.boot_rom_enabled # state.boot_rom_enabled => \hFF50 \in MayWrite
  /\ state'.rom = state.rom /\ state'.memory = state.memory

NoStrayWrite == [][WritesNamed]_state

\* The program continues after the last byte of an instruction, taken or untaken
\* branches included, or at the target its operand or the stack holds: operand
\* bytes are consumed before the condition is looked at, and displacements count
\* from the next instruction.  (A jump that is taken: see JumpGoesToOperand.)
Continues == (Returned /\ ~(Opcode \in Jumps /\ Branches)) => state'.pc = ResumesAt

ControlFlow == [][Continues]_state

\* The carry survives everything but ADD, SUB, XOR, CP and RL -- the counting, bit
\* tests, loads, stack operations and jumps of a loop keep it for a later branch --
\* and loads, stack operations and jumps keep all flags.
FlagsKept ==
  /\ ("Carry" \in state'.flags) # ("Carry" \in state.flags) => MayCarry
  /\ state'.flags # state.flags => MayFlag

FlagsSurvive == [][FlagsKept]_state

\* The machine stopped at a call that is taken, for want of room: not at one of its own
\* bytes, and not at the copy of the State before an unconditional one.
NoRoom ==
  /\ ~Returned /\ Opcode \in Calls /\ Branches
  /\ \A n \in 0..2 : ReadStatus(uint16(state.pc + n), state) = "running"
  /\ Opcode = \hCD => state'.status = "panicked"

\* An instruction that stops the machine stops it precisely: no register, no stack
\* pointer and no cycle counter has moved, and of a two-byte store at most the first
\* byte has been written.  Only pc moves: a call has left for its target by then.
StopsClean ==
  ~Returned =>
    /\ state'.reg = state.reg /\ state'.sp = state.sp /\ state'.cycles = state.cycles
    /\ Differ(state, state') \subseteq {state.sp}
    /\ NoRoom => state'.pc = Join(Operand2, Operand1)

PreciseStop == [][StopsClean]_state

\* sp moves by one word in the direction of the stack operation, and only when the
\* words were moved: what Push and Call store, Pop and Ret would read back.
StackStep ==
  Returned =>
    \/ state'.sp = state.sp
    \/ Opcode \in {\h31, \h33, \h3B, \hE8, \hF9}
    \/ state'.sp = uint16(state.sp - 2) /\ MayWrite = {state.sp, uint16(state.sp - 1)}
    \/ state'.sp = uint16(state.sp + 2)
         /\ Opcode \in {\hC1, \hD1, \hE1, \hF1, \hC9, \hC0, \hC8, \hD0, \hD8}

StackMoves == [][StackStep]_state
=============================================================================
