------------------------------- MODULE MCBoot -------------------------------
(***************************************************************************)
(* The program main() runs: the machine after reset, with the real boot    *)
(* ROM.  The boot code reads nothing of the cartridge before it stops, so  *)
(* one cartridge stands for all.                                           *)
(***************************************************************************)
EXTENDS Boot

MCCartridges == {Zeros}
MCCpus       == {ResetCpu}

-----------------------------------------------------------------------------

\* Under main()'s loop the machine always reaches the panic: it neither hangs in
\* the clear loop nor runs forever.
BootStops == <>[](state.status = "panicked")
=============================================================================
