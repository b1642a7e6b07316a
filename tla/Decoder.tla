------------------------------ MODULE Decoder -------------------------------
(***************************************************************************)
(* The two instruction tables.  A row names the operation template, its    *)
(* template arguments and its cycles; a row without a function has the op  *)
(* "null".  The tables are written by the fields of the opcode, xxyyyzzz,  *)
(* with the rows that break the pattern set out.                           *)
(***************************************************************************)
EXTENDS Integers, Sequences

Ins(op, args, cycles) == [op |-> op, args |-> args, cycles |-> cycles]

\* A row without a function: process() panics before it would charge its cycles.
Null == Ins("null", <<>>, 0)

\* Operands and conditions in the order their field counts them (from 0).
Operand8    == <<"B", "C", "D", "E", "H", "L", "PtrHL", "A">>
Operand16   == <<"BC", "DE", "HL", "SP">>
StackPair   == <<"BC", "DE", "HL", "AF">>
PtrOperand  == <<"PtrBC", "PtrDE", "PtrHLIncr", "PtrHLDecr">>
Condition   == <<"NZ", "Z", "NC", "C">>

\* The templates of the arithmetic block that are given their operand only
\* and those that are also given A.
Arithmetic == <<"Add", "AddCarry", "Sub", "SubCarry", "And", "Xor", "Or", "Compare">>
ArithmeticRow(y, operand, cycles) ==
  Ins(Arithmetic[y + 1],
      IF y \in {0, 1} THEN <<"A", operand>> ELSE <<operand>>, cycles)

MemoryOr(x, y, inMemory, inRegister) == IF "PtrHL" \in {x, y} THEN inMemory ELSE inRegister

\* 00 yyy zzz
Rows00(y, z) ==
  LET pair == Operand16[(y \div 2) + 1]
      ptr  == PtrOperand[(y \div 2) + 1]
      r    == Operand8[y + 1]
      even == y % 2 = 0
  IN CASE z = 0 /\ y = 0 -> Ins("Nop", <<>>, 4)
       [] z = 0 /\ y \in {1, 2} -> Null
       [] z = 0 /\ y = 3 -> Ins("JumpRelative", <<"Always", "D8">>, 8)
       [] z = 0 /\ y > 3 -> Ins("JumpRelative", <<Condition[y - 3], "D8">>, 8)
       [] z = 1 -> IF even THEN Ins("Load", <<pair, "D16">>, 12)
                           ELSE Ins("Add", <<"HL", pair>>, 8)
       [] z = 2 -> Ins("Load", IF even THEN <<ptr, "A">> ELSE <<"A", ptr>>, 8)
       [] z = 3 -> Ins(IF even THEN "Inc" ELSE "Dec", <<pair>>, 8)
       [] z = 4 -> Ins("Inc", <<r>>, MemoryOr(r, r, 12, 4))
       \* 0x15 is DEC E, as 0x1D is: no row decrements D.
       [] z = 5 -> Ins("Dec", <<IF y = 2 THEN "E" ELSE r>>, MemoryOr(r, r, 12, 4))
       [] z = 6 -> Ins("Load", <<r, "D8">>, MemoryOr(r, r, 12, 8))
       [] OTHER -> Null

\* 01 yyy zzz
Rows01(y, z) ==
  IF y = 6 /\ z = 6 THEN Null
  ELSE LET to == Operand8[y + 1]  from == Operand8[z + 1]
       IN  Ins("Load", <<to, from>>, MemoryOr(to, from, 8, 4))

\* 10 yyy zzz
Rows10(y, z) ==
  LET from == Operand8[z + 1] IN ArithmeticRow(y, from, MemoryOr(from, from, 8, 4))

\* 11 yyy zzz
Rows11(y, z) ==
  CASE z = 0 /\ y < 4 -> Ins("Ret", <<Condition[y + 1]>>, 8)
    [] z = 0 /\ y = 5 -> Ins("Add", <<"SP", "D8">>, 16)
    [] z = 0 /\ y = 7 -> Ins("Load", <<"HL", "SPR8">>, 12)
    [] z = 1 /\ y % 2 = 0 -> Ins("Pop", <<StackPair[(y \div 2) + 1]>>, 12)
    [] z = 1 /\ y = 1 -> Ins("Ret", <<"Always">>, 4)
    [] z = 1 /\ y = 5 -> Ins("Jump", <<"Always", "PtrHL">>, 4)
    [] z = 1 /\ y = 7 -> Ins("Load", <<"SP", "HL">>, 4)
    [] z = 2 /\ y < 4 -> Ins("Jump", <<Condition[y + 1], "D16">>, 12)
    [] z = 2 /\ y = 4 -> Ins("Load", <<"PtrC", "A">>, 8)
    [] z = 2 /\ y = 5 -> Ins("Load", <<"PtrD16", "A">>, 16)
    [] z = 2 /\ y = 6 -> Ins("Load", <<"A", "PtrC">>, 8)
    [] z = 2 /\ y = 7 -> Ins("Load", <<"A", "PtrD16">>, 16)
    [] z = 3 /\ y = 0 -> Ins("Jump", <<"Always", "D16">>, 12)
    [] z = 3 /\ y = 1 -> Ins("PrefixCB", <<>>, 4)
    [] z = 4 /\ y < 4 -> Ins("Call", <<Condition[y + 1], "D16">>, 12)
    [] z = 5 /\ y % 2 = 0 -> Ins("Push", <<StackPair[(y \div 2) + 1]>>, 16)
    [] z = 5 /\ y = 1 -> Ins("Call", <<"Always", "D16">>, 12)
    [] z = 6 -> ArithmeticRow(y, "D8", 8)
    [] OTHER -> Null

instructions ==
  [op \in 0..\hFF |->
     LET y == (op \div 8) % 8  z == op % 8
     IN  CASE op \in \h00..\h3F -> Rows00(y, z)
           [] op \in \h40..\h7F -> Rows01(y, z)
           [] op \in \h80..\hBF -> Rows10(y, z)
           [] op \in \hC0..\hFF -> Rows11(y, z)]

-----------------------------------------------------------------------------
(* The table behind the prefix 0xCB *)

Rotation == <<"RotateLeftCarry", "RotateRightCarry", "RotateLeft", "RotateRight",
              "ShiftLeft", "ShiftRight", "Swap", "ShiftRightClear">>

\* On (HL) the cycles alternate between 16 and 12 with the bit y.
ExtendedCycles(y, r) == IF r # "PtrHL" THEN 8 ELSE IF y % 2 = 0 THEN 16 ELSE 12

ExtRows00(y, r) == Ins(Rotation[y + 1], <<r>>, ExtendedCycles(y, r))
ExtRows01(y, r) == Ins("Bit", <<y, r>>, ExtendedCycles(y, r))
ExtRows10(y, r) == Ins("ClearBit", <<y, r>>, ExtendedCycles(y, r))
ExtRows11(y, r) == Ins("SetBit", <<y, r>>, ExtendedCycles(y, r))

extended_instructions ==
  [op \in 0..\hFF |->
     LET y == (op \div 8) % 8  r == Operand8[(op % 8) + 1]
     IN  CASE op \in \h00..\h3F -> ExtRows00(y, r)
           [] op \in \h40..\h7F -> ExtRows01(y, r)
           [] op \in \h80..\hBF -> ExtRows10(y, r)
           [] op \in \hC0..\hFF -> ExtRows11(y, r)]

\* Rows whose function only panics, or that have none.
Unimplemented ==
  {"null", "AddCarry", "SubCarry", "And", "Or", "ClearBit", "SetBit", "RotateLeftCarry",
   "RotateRightCarry", "RotateRight", "ShiftLeft", "ShiftRight", "Swap", "ShiftRightClear"}
=============================================================================
