---------------------------- MODULE MCCallStack -----------------------------
(***************************************************************************)
(* The recursive function of Recursion for TLC, at depths around the       *)
(* capacity of the stack.                                                  *)
(***************************************************************************)
EXTENDS Recursion, BootImage

\* The shortest file that is accepted.
MCCartridges == {[i \in 0..\h149 |-> IF i \in DOMAIN Code THEN Code[i] ELSE 0]}

\* Below, at and beyond the deepest recursion that fits, and the count 0, which
\* DEC B takes to 255.
Levels == 0..40

MCCpus == {[reg   |-> [ResetCpu.reg EXCEPT !["B"] = n, !["D"] = n],
            sp    |-> \hFFFE, pc |-> \h0100, flags |-> {}] : n \in Levels}

-----------------------------------------------------------------------------

\* Every recursion ends: by coming back to the first caller when it fits, by the
\* panic of a full stack when it does not, or by an allocation that fails.
RecursionEnds ==
  \A n \in Levels :
    (state.reg["D"] = n) ~>
      \/ state.status = "crashed"
      \/ IF n \in 1..32 THEN state.pc = \h0104 /\ state.sp = \hFFFE
                         ELSE state.status = "panicked" /\ state.sp = \hFF80
=============================================================================
