----------------------------- MODULE MCPrograms -----------------------------
(***************************************************************************)
(* The programs of GuestPrograms for TLC, with the boot ROM's own routine  *)
(* that checks the cartridge's header.                                     *)
(***************************************************************************)
EXTENDS GuestPrograms, BootImage, SequencesExt

Sum(f, S) == FoldSet(LAMBDA i, acc : f[i] + acc, 0, S)

\* The boot ROM's comparison of the logo and sum over the header, from 00E0.
Header == 2

Programs == Scale..Wrap

\* The code at its CPU address, and data for the header.
Image == <<<<\h0104, [i \in 1..48 |-> bootDMG[\hA7 + i]]>>,
           <<\h0134, [i \in 1..26 |-> (37 * i + 5) % \h100]>>,
           <<\h0200, ScaleCode>>, <<\h0240, CopyCode>>, <<\h0260, MultiplyCode>>,
           <<\h0270, CountUpCode>>, <<\h0280, SaveAFCode>>, <<\h0290, WrapCode>>>>

Placed(part) == [i \in (part[1] - \h100)..(part[1] - \h101 + Len(part[2])) |->
                   part[2][i - part[1] + \h101]]

\* A file that ends with the last program.
Blank == [i \in 0..(\h0190 + Len(WrapCode) - 1) |-> 0]

MCCartridges == {FoldSeq(LAMBDA part, rom : Placed(part) @@ rom, Blank, Image)}

Start(program, pc, a, bc, de, hl, sp) ==
  [reg |-> [A |-> a, F |-> program, B |-> Hi(bc), C |-> Lo(bc), D |-> Hi(de), E |-> Lo(de),
            H |-> Hi(hl), L |-> Lo(hl)],
   sp |-> sp, pc |-> pc, flags |-> {}]

\* Copies off the end of the file, of the video memory and of the address space, from
\* the header and from what was just copied; multiplications that wrap; all outcomes of two comparisons.
MCCpus ==
       {Start(Scale, \h0200, 0, 0, 0, 0, \hFFFE), Start(Header, \h00E0, 0, 0, 0, 0, \hFFFE)}
  \cup {Start(Copy, \h0240, 0, Join(n, n), de, hl, de) :
          n \in {0, 1, 5}, de \in {\h8000, \h9FFD, \hFF80, \hFFFC}, hl \in {\h0104, \h0298}}
  \cup {Start(Copy, \h0240, 0, Join(n, n), de, de - 2, de) :
          n \in {0, 1, 5}, de \in {\h8000, \h8002, \h9FFD, \hFF80, \hFFFC}}
  \cup {Start(Multiply, \h0260, 0, Join(n, n), de, 0, \hFFFE) :
          n \in {0, 1, 3, 255}, de \in {0, 1, \h1234, \hFFFF}}
  \cup {Start(CountUp, \h0270, 0, 0, 0, 0, \hFFFE)}
  \cup {Start(SaveAF, \h0280, 5, Join(b, c), 0, 0, \hFFFE) : b \in {4, 5, 6}, c \in {4, 5, 6}}
  \cup {Start(Wrap, \h0290, 0, 0, 0, 0, \hFFFE)}

-----------------------------------------------------------------------------

\* The boot ROM's own routine, to the panic of its last LDH: the sum of the 26 header
\* bytes the CPU reads at 0134..014D and 19, and no byte of memory changed.
HeaderSummed ==
  (Program(Header) /\ state.pc = \h00FA) =>
     /\ state.reg["A"]
          = (\h19 + Sum([a \in \h0134..\h014D |-> ByteAt(a, state)], \h0134..\h014D)) % \h100
     /\ Pair("HL", state) = \h014D /\ state.video = Zeros /\ state.internal_memory = Zeros

\* Every loop that counts down ends, also from 0, and its program with it.  The loop
\* that counts up never does: Inc compares an int that cannot be 0.
ProgramsEnd ==
  /\ \A p \in Programs \ {CountUp} : Program(p) ~> ~Running
  /\ [](Program(CountUp) => Running)
=============================================================================
