-------------------------------- MODULE Boot --------------------------------
(***************************************************************************)
(* What the program in the boot ROM built into the emulator does: it       *)
(* clears the video RAM, sets up the sound and stops at its first LDH.     *)
(***************************************************************************)
EXTENDS Machine, BootImage

(* Boot offsets: 0x07 is the loop that clears the video RAM, 0x1F the      *)
(* first LDH.                                                              *)

Cleared == \h9FFF - Pair("HL", state)    \* bytes the loop has written

\* Each turn of the clear loop (LD (HL-),A; BIT 7,H; JR NZ) costs the same 32
\* cycles, after 28 for the three loads before it, so at the head of the loop the
\* cycle counter and HL tell the same number of turns: no turn is lost or
\* charged twice, the taken branch included.
ClearLoopTiming ==
  (state.status = "running" /\ state.pc = \h07) => state.cycles = 28 + 32 * Cleared

\* The loop leaves through BIT 7,H exactly when HL has stepped from 8000 to 7FFF:
\* every byte of the video RAM has been written, none below it, and the carry and
\* stack pointer are as the code before the loop left them.
ClearLoopExit ==
  (state.status = "running" /\ state.pc = \h0C) =>
     /\ Pair("HL", state) = \h7FFF
     /\ state.cycles = 28 + 32 * VideoSize - 4
     /\ state.sp = \hFFFE /\ "Carry" \notin state.flags

\* The boot code touches no address the machine has no memory for: it never
\* faults on the empty internal RAM, and panics at one place only, the LDH at
\* 0x1F whose row has no function, with the sound registers set up to there.
StopsAtFirstLdh ==
  state.status # "running" =>
     /\ state.status = "panicked"
     /\ state.pc = \h20 /\ state.boot_rom_enabled
     /\ state.io = [ResetIo EXCEPT ![\h26] = \h80, ![\h11] = \h80, ![\h12] = \hF3,
                                   ![\h25] = \hF3, ![\h24] = \h77]
     /\ state.video = Zeros /\ state.internal_memory = Zeros

-----------------------------------------------------------------------------
(* Every state of the program, by the offset of its next instruction *)

\* The sound registers once the code before offset p has run: each is set by the
\* store behind which p lies.
SoundIo(p) ==
  [f \in IoFields |-> CASE f = \h26 /\ p > \h13 -> \h80
                       [] f = \h11 /\ p > \h14 -> \h80
                       [] f = \h12 /\ p > \h18 -> \hF3
                       [] f = \h25 /\ p > \h19 -> \hF3
                       [] f = \h24 /\ p > \h1C -> \h77
                       [] OTHER -> ResetIo[f]]

BeforeLoop ==
  \/ state.pc = \h00 /\ state.cycles = 0
  \/ state.pc = \h03 /\ state.cycles = 12 /\ state.sp = \hFFFE
  \/ state.pc = \h04 /\ state.cycles = 16 /\ state.sp = \hFFFE /\ state.reg["A"] = 0

\* The loop has three instructions: HL is counted down by the first, Zero set by the second.
InLoop ==
  /\ state.sp = \hFFFE /\ state.reg["A"] = 0
  /\ LET hl == Pair("HL", state)
     IN  \/ state.pc = \h07 /\ hl \in VideoRam /\ state.cycles = 28 + 32 * (\h9FFF - hl)
         \/ state.pc = \h08 /\ hl + 1 \in VideoRam /\ state.cycles = 36 + 32 * (\h9FFE - hl)
         \/ /\ state.pc = \h0A /\ hl + 1 \in VideoRam
            /\ state.cycles = 48 + 32 * (\h9FFE - hl)
            /\ "Zero" \in state.flags <=> hl < \h8000
         \/ state.pc = \h0C /\ hl = \h7FFF /\ state.cycles = 24 + 32 * VideoSize

\* The values of A and C from which the sound registers are set.
AfterLoop ==
  /\ state.pc \in {\h0F, \h11, \h13, \h14, \h15, \h16, \h18, \h19, \h1A, \h1C, \h1D, \h1F}
  /\ Pair("HL", state) = (IF state.pc <= \h13 THEN \hFF26
                          ELSE IF state.pc <= \h19 THEN \hFF25 ELSE \hFF24)
  /\ state.pc > \h0F => state.reg["C"] = (IF state.pc <= \h15 THEN \h11 ELSE \h12)
  /\ state.pc \in {\h13, \h14} => state.reg["A"] = \h80
  /\ state.pc \in {\h18, \h19} => state.reg["A"] = \hF3
  /\ state.pc = \h1C => state.reg["A"] = \h77

\* Where the program is tells what it has done.
BootInv ==
  /\ StateOK(state) /\ state.boot_rom_enabled
  /\ state.video = Zeros /\ state.internal_memory = Zeros
  /\ state.io = SoundIo(state.pc)
  /\ IF state.status = "running"
     THEN \/ (BeforeLoop \/ InLoop) /\ "Carry" \notin state.flags
          \/ AfterLoop
     ELSE state.status = "panicked" /\ state.pc = \h20
=============================================================================
