-------------------------------- MODULE Alu ---------------------------------
(***************************************************************************)
(* The arithmetic of the operation templates: what each one computes from  *)
(* its operands and the flag set, before the result is stored.  `result'   *)
(* is the C++ int of the expression; storing it truncates it to the width  *)
(* of the destination.                                                     *)
(***************************************************************************)
EXTENDS Bytes

FlagIf(f, condition) == IF condition THEN {f} ELSE {}

\* Bit w of from ^ to ^ result: a carry or a borrow crossed into it.
CarryBit(from, to, result, w) ==
  (BitOf(from, w) + BitOf(to, w) + BitOf(result, w)) % 2 = 1

CarryFlagsSlip(from, to, result) ==     \* the masks one bit to the right
       FlagIf("Zero", result = 0)
  \cup FlagIf("Carry", CarryBit(from, to, result, \h80))
  \cup FlagIf("HalfCarry", CarryBit(from, to, result, \h08))

CarryFlags(from, to, result) ==
       FlagIf("Zero", result = 0)
  \cup FlagIf("Carry", CarryBit(from, to, result, \h100))
  \cup FlagIf("HalfCarry", CarryBit(from, to, result, \h10))

AluAddSlip(to, from) ==     \* saturating
  [result |-> IF from + to > \hFF THEN \hFF ELSE from + to,
   flags  |-> CarryFlags(from, to, from + to)]

AluAdd(to, from) ==
  [result |-> from + to, flags |-> CarryFlags(from, to, from + to)]

AluSubSlip(A, from) ==     \* operands swapped
  [result |-> from - A, flags |-> {"Subtract"} \cup CarryFlags(from, A, from - A)]

AluSub(A, from) ==
  [result |-> A - from, flags |-> {"Subtract"} \cup CarryFlags(from, A, A - from)]

AluXorSlip(A, value) ==     \* Zero from the operand
  [result |-> XorByte(A, value), flags |-> FlagIf("Zero", value = 0)]

AluXor(A, value) ==
  [result |-> XorByte(A, value), flags |-> FlagIf("Zero", XorByte(A, value) = 0)]

AluCompareSlip(A, val) ==     \* "<=" for "<"
  {"Subtract"} \cup FlagIf("Zero", A = val)
               \cup FlagIf("HalfCarry", (A % \h10) - (val * \hF) < 0)
               \cup FlagIf("Carry", A <= val)

\* Compare stores no result.
AluCompare(A, val) ==
  {"Subtract"} \cup FlagIf("Zero", A = val)
               \cup FlagIf("HalfCarry", (A % \h10) - (val * \hF) < 0)
               \cup FlagIf("Carry", A < val)

AluIncSlip(val, flags) ==     \* the carry forgotten
  [result |-> val + 1,
   flags  |-> FlagIf("Zero", val + 1 = 0) \cup FlagIf("HalfCarry", val % 8 = 7)]

\* val is a byte or, for a register pair, a word; as an int val + 1 is never 0.
AluInc(val, flags) ==
  [result |-> val + 1,
   flags  |-> (flags \cap {"Carry"}) \cup FlagIf("Zero", val + 1 = 0)
                \cup FlagIf("HalfCarry", val % 8 = 7)]

AluDecSlip(val, flags) ==     \* the carry forgotten
  [result |-> val - 1,
   flags  |-> {"Subtract"} \cup FlagIf("Zero", val - 1 = 0)
                \cup FlagIf("HalfCarry", BitOf(val, 8) = 1)]

AluDecSlip2(val, flags) ==     \* no step below 0
  [result |-> IF val = 0 THEN 0 ELSE val - 1,
   flags  |-> (flags \cap {"Carry"}) \cup {"Subtract"} \cup FlagIf("Zero", val - 1 = 0)]

AluDec(val, flags) ==
  [result |-> val - 1,
   flags  |-> (flags \cap {"Carry"}) \cup {"Subtract"} \cup FlagIf("Zero", val - 1 = 0)
                \cup FlagIf("HalfCarry", BitOf(val, 8) = 1)]

AluBitSlip(N, value, flags) ==     \* Zero when the bit is set
  (flags \cap {"Carry"}) \cup {"HalfCarry"} \cup FlagIf("Zero", BitOf(value, 2^N) = 1)

AluBit(N, value, flags) ==
  (flags \cap {"Carry"}) \cup {"HalfCarry"} \cup FlagIf("Zero", BitOf(value, 2^N) = 0)

AluRotateLeftSlip(value, flags) ==     \* bit 7 enters at the right, not the carry
  LET shifted == uint8(2 * value) + BitOf(value, \h80)
  IN  [result |-> shifted,
       flags  |-> FlagIf("Carry", BitOf(value, \h80) = 1) \cup FlagIf("Zero", shifted = 0)]

\* A rotation through the carry: nine bits, the old carry enters at the right.
AluRotateLeft(value, flags) ==
  LET shifted == uint8(2 * value) + (IF "Carry" \in flags THEN 1 ELSE 0)
  IN  [result |-> shifted,
       flags  |-> FlagIf("Carry", BitOf(value, \h80) = 1) \cup FlagIf("Zero", shifted = 0)]
=============================================================================
