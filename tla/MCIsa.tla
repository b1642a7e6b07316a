------------------------------- MODULE MCIsa --------------------------------
(***************************************************************************)
(* Every opcode and every prefixed opcode, executed from registers that    *)
(* point into each kind of memory.  The instruction under test is at 0100; *)
(* behind it the cartridge holds FF, which has no function, to the end of  *)
(* the header, with which the shortest file that is accepted ends.         *)
(***************************************************************************)
EXTENDS Isa, BootImage

\* The operand bytes: with the opcode they name C0B0 and FF81 as 16-bit operands,
\* -80 and a small step as displacements.
Operands == {<<\h81, \hFF>>, <<\hB0, \hC0>>, <<\h05, \h80>>}

File(bytes) == [i \in 0..\h149 |-> IF i < Len(bytes) THEN bytes[i + 1] ELSE \hFF]

MCCartridges ==
  {File(<<op, operand[1], operand[2]>>) : op \in Byte, operand \in Operands}
    \cup {File(<<\hCB, op>>) : op \in Byte}

Registers(a, bc, de, hl) ==
  [A |-> a, F |-> \h0F, B |-> Hi(bc), C |-> Lo(bc), D |-> Hi(de), E |-> Lo(de),
   H |-> Hi(hl), L |-> Lo(hl)]

\* Pointers to the video memory, the internal memory, an I/O register, the
\* interrupt register, the last byte of the file and behind it, the boot ROM, and to
\* addresses that stop the machine; stacks with room for no byte, one byte, one word and more.
Pointing ==
  {[reg |-> r, sp |-> sp, pc |-> \h0100, flags |-> f] :
     r  \in {Registers(\h01, \h8000, \hFF90, \h9FFF), Registers(\hFF, \hFF80, \h00FF, \hFF81),
             Registers(\h80, \h0249, \hFF11, \hFF11), Registers(\h00, \h024A, \hA000, \hFFFF),
             Registers(\h7F, \hC100, \h9000, \h0010), Registers(\h10, \hFEA0, \h8000, \hC000)},
     sp \in {\hFFFE, \hFF80, \hFF7F, \h8001},
     f  \in {{}, FlagNames}}

\* Programs elsewhere: at addresses that stop the machine when it fetches, in an I/O
\* register, across the end of an area and of memory, where pc wraps.
Elsewhere ==
  {[reg |-> ResetCpu.reg, sp |-> \hFFFE, pc |-> pc, flags |-> {}] :
     pc \in {\h00FF, \h0249, \h7FFF, \h9FFF, \hA000, \hC000, \hFDFF, \hFE00, \hFEFF,
             \hFF44, \hFF4B, \hFF7F, \hFFFE, \hFFFF}}

MCCpus == Pointing \cup Elsewhere

\* One instruction is executed from the initial state, and the steps after it only
\* while less than this many cycles have passed.
CycleBound == 8

FewCycles == state.cycles < CycleBound

-----------------------------------------------------------------------------
(* What the source says and the code does not do *)

\* "JP A16", the name of opcode C3: the program continues at the 16-bit operand.
JumpGoesToOperand ==
  [][(Opcode = \hC3 /\ Returned) => state'.pc = Join(Operand2, Operand1)]_state

\* "0xE9 JP (HL) instruction, that should be 4 cycles anyway".
JumpHlIsFourCycles ==
  [][(Opcode = \hE9 /\ Returned) => state'.cycles = state.cycles + 4]_state

\* "Add SP, r8", the name of opcode E8: the operand is the signed byte that r8 is in
\* "JR NZ, R8" and "LD HL, SP + R8".
AddSpIsSigned ==
  [][(Opcode = \hE8 /\ Returned) => state'.sp = uint16(state.sp + int8(Operand1))]_state
=============================================================================
