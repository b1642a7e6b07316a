------------------------------- MODULE MCAlu --------------------------------
(***************************************************************************)
(* The arithmetic of the operation templates for every pair of bytes and   *)
(* both values of the carry, against definitions by plain arithmetic.      *)
(***************************************************************************)
EXTENDS Alu, FiniteSets

VARIABLES to, from, carry

vars == <<to, from, carry>>

Init == to \in Byte /\ from \in Byte /\ carry \in BOOLEAN
Next == UNCHANGED vars
Spec == Init /\ [][Next]_vars

Flags == FlagIf("Carry", carry)

Holds(f, alu) == IF f \in alu.flags THEN 1 ELSE 0

-----------------------------------------------------------------------------

\* Add: the stored byte and the carry are the two digits of the sum, the half carry
\* is that of the low nibbles, and Zero is never set over a sum that is not zero.
AddExact ==
  LET sum == AluAdd(to, from)
  IN  /\ uint8(sum.result) + \h100 * Holds("Carry", sum) = to + from
      /\ Holds("HalfCarry", sum) = ((to % 16) + (from % 16)) \div 16
      /\ "Zero" \in sum.flags => uint8(to + from) = 0

\* Sub: the stored byte less 256 for the borrow is the difference, the half borrow
\* is that of the low nibbles, and Zero tells equality.
SubExact ==
  LET difference == AluSub(to, from)
  IN  /\ uint8(difference.result) - \h100 * Holds("Carry", difference) = to - from
      /\ "HalfCarry" \in difference.flags <=> to % 16 < from % 16
      /\ "Zero" \in difference.flags <=> to = from

\* Compare promises the flags of a Sub whose result is dropped: a branch on Zero or
\* Carry after either takes the same way.  (HalfCarry differs: the code multiplies
\* by 0xF where Sub's nibble is masked; no branch reads it.)
CompareAgreesWithSub ==
  AluCompare(to, from) \ {"HalfCarry"} = AluSub(to, from).flags \ {"HalfCarry"}

\* Adding and then subtracting the same byte gives the first byte back, and the
\* borrow of the second operation is the carry of the first.
SubUndoesAdd ==
  LET sum == AluAdd(to, from)
      difference == AluSub(uint8(sum.result), from)
  IN  /\ uint8(difference.result) = to
      /\ Holds("Carry", difference) = Holds("Carry", sum)

\* Inc and Dec undo each other through the wrap between 255 and 0, both leave the
\* carry of an earlier Add or Sub for a later branch, and Dec sets Zero exactly
\* when the stored byte is zero, which the countdown loops rely on.
IncDecInverse ==
  LET up == AluInc(to, Flags)  down == AluDec(to, Flags)
  IN  /\ uint8(AluDec(uint8(up.result), {}).result) = to
      /\ uint8(AluInc(uint8(down.result), {}).result) = to
      /\ up.flags \cap {"Carry"} = Flags /\ down.flags \cap {"Carry"} = Flags
      /\ "Zero" \in down.flags <=> uint8(down.result) = 0

\* RotateLeft is a rotation of nine bits: it loses none (the pair of byte and carry
\* doubles modulo 511), and Zero looks at the byte with the carry shifted in.
RotateNineBits ==
  LET nine == to + \h100 * Holds("Carry", [flags |-> Flags])
      r    == AluRotateLeft(to, Flags)
      rotated == r.result + \h100 * Holds("Carry", r)
  IN  /\ rotated % 511 = (2 * nine) % 511
      /\ rotated = 0 <=> nine = 0
      /\ "Zero" \in r.flags <=> r.result = 0

\* Xor with the same byte twice restores A, and a byte xored with itself clears A
\* and sets Zero, the idiom the boot code clears A with.
XorInvolution ==
  /\ XorByte(XorByte(to, from), from) = to
  /\ "Zero" \in AluXor(to, from).flags <=> to = from
  /\ XorByte(to, from) \in Byte
=============================================================================
