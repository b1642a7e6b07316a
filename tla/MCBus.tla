------------------------------- MODULE MCBus --------------------------------
(***************************************************************************)
(* The memory interface at the first and the last address of every area    *)
(* the code tells apart, and at I/O ports with and without a field.        *)
(***************************************************************************)
EXTENDS Bus, BootImage, TLC

MCValues     == {\h00, \hA5}

\* The shortest file that is accepted, with nothing behind it or with memory that the
\* last address of the cartridge's area reaches.
File == [i \in 0..\h149 |-> IF i = 0 THEN \h3C ELSE \hFF]

MCCartridges == {File, (\h7EFF :> \h7E) @@ File}

-----------------------------------------------------------------------------
(* Memory that keeps what is written, ports without a field, ROM, the switch of *)
(* the boot ROM, and addresses with nothing behind them.                        *)

MCAddresses ==
  {\h8000, \h9FFF, \hFF11, \hFF44, \hFF80, \hFFFE, \hFFFF}
    \cup {\hFF00, \hFF4B}
    \cup {\h0000, \h00FF, \h0100, \h0249, \h024A, \h7FFF}
    \cup {\hFF50}
    \cup {\hA000, \hBFFF, \hC000, \hDFFF, \hE000, \hFDFF,
          \hFE00, \hFE9F, \hFEA0, \hFEFF, \hFF4C, \hFF7F}

-----------------------------------------------------------------------------
(* What the source says and the code does not do *)

=============================================================================
