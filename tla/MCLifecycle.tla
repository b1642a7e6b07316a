----------------------------- MODULE MCLifecycle -----------------------------
(***************************************************************************)
(* The emulator from start to end, with the real boot ROM, one window and  *)
(* every way of failing, for files that are whole, wrong in one byte, cut  *)
(* off within the logo or empty.                                           *)
(***************************************************************************)
EXTENDS Lifecycle, BootImage, TLC

\* A file of n bytes with a valid header, and then byte by byte what `patch' says.
Dump(n, patch) ==
  [i \in 0..(n - 1) |->
     CASE i \in DOMAIN patch          -> patch[i]
       [] i \in (LogoAt..(LogoEnd - 1)) \ DOMAIN patch -> expected[i - LogoAt + 1]
       [] OTHER                       -> 0]

Plain   == Dump(Whole, << >>)
Odd     == Dump(Whole, TypeAt :> \h13 @@ RomSizeAt :> 5 @@ RamSizeAt :> 5)   \* no such RAM
BadLogo == Dump(Whole, (LogoEnd - 1) :> 0)
BadType == Dump(Whole, TypeAt :> 4)
BadSize == Dump(Whole, RomSizeAt :> 7)
Cut     == Dump(LogoAt + 4, << >>)
Empty   == Dump(0, << >>)

MCFiles     == {Plain, Odd, BadLogo, BadType, BadSize, Cut, Empty}
MCGarbage   == {\h05, \hAA}

\* Between the two halves of the logo, and before the ROM size.
MCBlockEnds == {\h11C, RomSizeAt}

\* Nothing behind it that the CPU could read.
MCHeap      == {Zeros}

-----------------------------------------------------------------------------

\* The loader's message "Nintento graphic check: Ok": the logo it has checked is the
\* one the boot ROM finds, from address 0104 on.
LogoVisible ==
  at = "loop" /\ Size(rom.buffer) >= Whole =>
    \A i \in DOMAIN expected : ByteAt(LogoAt + i - 1, state) = expected[i]
=============================================================================
