----------------------------- MODULE AluProofs ------------------------------
(***************************************************************************)
(* The laws of the arithmetic, for every pair of bytes and both values of  *)
(* the carry.                                                              *)
(***************************************************************************)
EXTENDS MCAlu, TLAPS

\* A byte is a number below 256.
LEMMA ByteRange ==
  ASSUME NEW n
  PROVE  n \in Byte <=> n \in Int /\ 0 <= n /\ n < \h100
<1>1. MaxByte \in Int
  BY DEF MaxByte
<1>2. n \in Byte <=> n \in Int /\ 0 <= n /\ n <= MaxByte
  BY <1>1 DEF Byte
<1>3. MaxByte = \h100 - 1
  BY DEF MaxByte
<1> QED
  BY <1>2, <1>3

\* The flags a sum or a difference computes, one by one.
LEMMA CarryFlagsMembers ==
  ASSUME NEW b, NEW a, NEW result
  PROVE  /\ "Zero" \in CarryFlags(b, a, result) <=> result = 0
         /\ "Carry" \in CarryFlags(b, a, result) <=> CarryBit(b, a, result, \h100)
         /\ "HalfCarry" \in CarryFlags(b, a, result) <=> CarryBit(b, a, result, \h10)
BY DEF CarryFlags, FlagIf

\* Bit 8 of the exclusive or is the carry of a sum of bytes, bit 4 that of the low nibbles.
LEMMA SumCarries ==
  ASSUME NEW a \in Byte, NEW b \in Byte
  PROVE  /\ CarryBit(a, b, a + b, \h100) <=> a + b >= \h100
         /\ CarryBit(a, b, a + b, \h10) <=> (a % 16) + (b % 16) >= 16
<1>1. a \in Int /\ 0 <= a /\ a < \h100 /\ b \in Int /\ 0 <= b /\ b < \h100
  BY ByteRange
<1>2. CarryBit(a, b, a + b, \h100) <=> a + b >= \h100
  BY <1>1 DEF CarryBit, BitOf
<1>3. CarryBit(a, b, a + b, \h10) <=> (a % 16) + (b % 16) >= 16
  BY <1>1 DEF CarryBit, BitOf
<1> QED
  BY <1>2, <1>3

\* The same bits are the borrows of a difference, whose quotient rounds down.
LEMMA DifferenceBorrows ==
  ASSUME NEW a \in Byte, NEW b \in Byte
  PROVE  /\ CarryBit(b, a, a - b, \h100) <=> a < b
         /\ CarryBit(b, a, a - b, \h10) <=> a % 16 < b % 16
<1>1. a \in Int /\ 0 <= a /\ a < \h100 /\ b \in Int /\ 0 <= b /\ b < \h100
  BY ByteRange
<1>2. CarryBit(b, a, a - b, \h100) <=> a < b
  BY <1>1 DEF CarryBit, BitOf
<1>3. CarryBit(b, a, a - b, \h10) <=> a % 16 < b % 16
  BY <1>1 DEF CarryBit, BitOf
<1> QED
  BY <1>2, <1>3

\* 1 for a flag that is set.
LEMMA HoldsIs ==
  ASSUME NEW f, NEW alu
  PROVE  /\ f \in alu.flags => Holds(f, alu) = 1
         /\ f \notin alu.flags => Holds(f, alu) = 0
BY DEF Holds

-----------------------------------------------------------------------------
(* Addition and subtraction *)

\* The stored byte and the carry of a sum.
LEMMA SumDigits ==
  ASSUME NEW a \in Byte, NEW b \in Byte
  PROVE  /\ uint8(a + b) \in Byte
         /\ a + b >= \h100 => uint8(a + b) = a + b - \h100
         /\ a + b < \h100 => uint8(a + b) = a + b
<1>1. a \in Int /\ 0 <= a /\ a < \h100 /\ b \in Int /\ 0 <= b /\ b < \h100
  BY ByteRange
<1>2. /\ a + b >= \h100 => uint8(a + b) = a + b - \h100
      /\ a + b < \h100 => uint8(a + b) = a + b
  BY <1>1 DEF uint8
<1> QED
  BY <1>1, <1>2, ByteRange

\* The stored byte and the borrow of a difference.
LEMMA DifferenceDigits ==
  ASSUME NEW a \in Byte, NEW b \in Byte
  PROVE  /\ uint8(a - b) \in Byte
         /\ a < b => uint8(a - b) = a - b + \h100
         /\ ~(a < b) => uint8(a - b) = a - b
<1>1. a \in Int /\ 0 <= a /\ a < \h100 /\ b \in Int /\ 0 <= b /\ b < \h100
  BY ByteRange
<1>2. /\ a < b => uint8(a - b) = a - b + \h100
      /\ ~(a < b) => uint8(a - b) = a - b
  BY <1>1 DEF uint8
<1> QED
  BY <1>1, <1>2, ByteRange

\* What AluAdd's flags say.
LEMMA AddFlags ==
  ASSUME NEW a \in Byte, NEW b \in Byte
  PROVE  /\ "Carry" \in AluAdd(a, b).flags <=> a + b >= \h100
         /\ "HalfCarry" \in AluAdd(a, b).flags <=> (a % 16) + (b % 16) >= 16
         /\ "Zero" \in AluAdd(a, b).flags <=> a + b = 0
         /\ AluAdd(a, b).result = a + b
<1>1. a \in Int /\ b \in Int
  BY ByteRange
<1>2. b + a = a + b /\ (b % 16) + (a % 16) = (a % 16) + (b % 16)
  BY <1>1
<1>3. AluAdd(a, b).flags = CarryFlags(b, a, b + a) /\ AluAdd(a, b).result = b + a
  BY DEF AluAdd
<1> QED
  BY <1>2, <1>3, CarryFlagsMembers, SumCarries

\* What AluSub's flags say.
LEMMA SubFlags ==
  ASSUME NEW a \in Byte, NEW b \in Byte
  PROVE  /\ "Carry" \in AluSub(a, b).flags <=> a < b
         /\ "HalfCarry" \in AluSub(a, b).flags <=> a % 16 < b % 16
         /\ "Zero" \in AluSub(a, b).flags <=> a = b
         /\ "Subtract" \in AluSub(a, b).flags
         /\ AluSub(a, b).result = a - b
<1>1. a \in Int /\ b \in Int
  BY ByteRange
<1>2. a - b = 0 <=> a = b
  BY <1>1
<1>3. /\ AluSub(a, b).flags = {"Subtract"} \cup CarryFlags(b, a, a - b)
      /\ AluSub(a, b).result = a - b
  BY DEF AluSub
<1>4. /\ "Carry" \in AluSub(a, b).flags <=> "Carry" \in CarryFlags(b, a, a - b)
      /\ "HalfCarry" \in AluSub(a, b).flags <=> "HalfCarry" \in CarryFlags(b, a, a - b)
      /\ "Zero" \in AluSub(a, b).flags <=> "Zero" \in CarryFlags(b, a, a - b)
      /\ "Subtract" \in AluSub(a, b).flags
  BY <1>3
<1> QED
  BY <1>2, <1>3, <1>4, CarryFlagsMembers, DifferenceBorrows

\* The operands stay what they are.
LEMMA OperandsStay == Spec => [](to \in Byte /\ from \in Byte /\ carry \in BOOLEAN)
<1>1. Init => to \in Byte /\ from \in Byte /\ carry \in BOOLEAN
  BY DEF Init
<1>2. (to \in Byte /\ from \in Byte /\ carry \in BOOLEAN) /\ [Next]_vars
        => (to \in Byte /\ from \in Byte /\ carry \in BOOLEAN)'
  BY DEF Next, vars
<1> QED
  BY <1>1, <1>2, PTL DEF Spec

\* Add: the stored byte and the carry are the two digits of the sum, the half carry is
\* that of the low nibbles, and Zero is never set over a sum that is not zero.
THEOREM SumsAreExact == Spec => []AddExact
<1>1. ASSUME to \in Byte, from \in Byte
      PROVE  AddExact
  <2>1. /\ to \in Int /\ 0 <= to /\ to < \h100 /\ from \in Int /\ 0 <= from /\ from < \h100
    BY <1>1, ByteRange
  <2> DEFINE sum == AluAdd(to, from)
  <2>2. /\ "Carry" \in sum.flags <=> to + from >= \h100
        /\ "HalfCarry" \in sum.flags <=> (to % 16) + (from % 16) >= 16
        /\ "Zero" \in sum.flags <=> to + from = 0
        /\ sum.result = to + from
    BY <1>1, AddFlags
  <2> HIDE DEF sum
  <2>3. uint8(sum.result) + \h100 * Holds("Carry", sum) = to + from
    BY <1>1, <2>1, <2>2, SumDigits, HoldsIs
  <2>4. Holds("HalfCarry", sum) = ((to % 16) + (from % 16)) \div 16
    <3> DEFINE nibbles == (to % 16) + (from % 16)
    <3>1. nibbles \in Int /\ 0 <= nibbles /\ nibbles < 32
      BY <2>1
    <3>2. "HalfCarry" \in sum.flags <=> nibbles >= 16
      BY <2>2
    <3> HIDE DEF nibbles
    <3>3. /\ nibbles >= 16 => nibbles \div 16 = 1
          /\ nibbles < 16 => nibbles \div 16 = 0
      BY <3>1
    <3>4. /\ nibbles >= 16 => Holds("HalfCarry", sum) = 1
          /\ ~(nibbles >= 16) => Holds("HalfCarry", sum) = 0
      BY <3>2, HoldsIs
    <3>5. Holds("HalfCarry", sum) = nibbles \div 16
      BY <3>1, <3>3, <3>4
    <3> QED BY <3>5 DEF nibbles
  <2>5. "Zero" \in sum.flags => uint8(to + from) = 0
    BY <2>1, <2>2 DEF uint8
  <2> QED BY <2>3, <2>4, <2>5 DEF AddExact, sum
<1> QED
  BY <1>1, OperandsStay, PTL

\* Sub: the stored byte less 256 for the borrow is the difference, the half borrow is
\* that of the low nibbles, and Zero tells equality.
THEOREM DifferencesAreExact == Spec => []SubExact
<1>1. ASSUME to \in Byte, from \in Byte
      PROVE  SubExact
  <2>1. /\ to \in Int /\ 0 <= to /\ to < \h100 /\ from \in Int /\ 0 <= from /\ from < \h100
    BY <1>1, ByteRange
  <2> DEFINE difference == AluSub(to, from)
  <2>2. /\ "Carry" \in difference.flags <=> to < from
        /\ "HalfCarry" \in difference.flags <=> to % 16 < from % 16
        /\ "Zero" \in difference.flags <=> to = from
        /\ difference.result = to - from
    BY <1>1, SubFlags
  <2> HIDE DEF difference
  <2>3. uint8(difference.result) - \h100 * Holds("Carry", difference) = to - from
    <3>1. /\ to < from => Holds("Carry", difference) = 1
          /\ ~(to < from) => Holds("Carry", difference) = 0
      BY <2>2, HoldsIs
    <3>2. /\ to < from => uint8(difference.result) = to - from + \h100
          /\ ~(to < from) => uint8(difference.result) = to - from
      BY <1>1, <2>2, DifferenceDigits
    <3> QED BY <2>1, <3>1, <3>2
  <2> QED BY <2>2, <2>3 DEF SubExact, difference
<1> QED
  BY <1>1, OperandsStay, PTL

\* Compare leaves the flags of a Sub whose result is dropped, the half carry aside.
THEOREM ComparesLikeSub == Spec => []CompareAgreesWithSub
<1>1. ASSUME to \in Byte, from \in Byte
      PROVE  CompareAgreesWithSub
  <2>1. to \in Int /\ from \in Int
    BY <1>1, ByteRange
  <2>2. AluCompare(to, from) \ {"HalfCarry"} =
          {"Subtract"} \cup FlagIf("Zero", to = from) \cup FlagIf("Carry", to < from)
    BY DEF AluCompare, FlagIf
  <2>3. to - from = 0 <=> to = from
    BY <2>1
  <2>4. CarryBit(from, to, to - from, \h100) <=> to < from
    BY <1>1, DifferenceBorrows
  <2>5. AluSub(to, from).flags \ {"HalfCarry"} =
          {"Subtract"} \cup FlagIf("Zero", to - from = 0)
                       \cup FlagIf("Carry", CarryBit(from, to, to - from, \h100))
    BY DEF AluSub, CarryFlags, FlagIf
  <2> QED BY <2>2, <2>3, <2>4, <2>5 DEF CompareAgreesWithSub, FlagIf
<1> QED
  BY <1>1, OperandsStay, PTL

\* Subtracting what was added gives the first byte back, and the borrow of the second
\* operation is the carry of the first.
THEOREM SubIsInverse == Spec => []SubUndoesAdd
<1>1. ASSUME to \in Byte, from \in Byte
      PROVE  SubUndoesAdd
  <2>1. /\ to \in Int /\ 0 <= to /\ to < \h100 /\ from \in Int /\ 0 <= from /\ from < \h100
    BY <1>1, ByteRange
  <2> DEFINE sum == AluAdd(to, from)
  <2> DEFINE mid == uint8(sum.result)
  <2> DEFINE difference == AluSub(mid, from)
  <2>2. sum.result = to + from /\ ("Carry" \in sum.flags <=> to + from >= \h100)
    BY <1>1, AddFlags
  <2>3. /\ mid \in Byte
        /\ to + from >= \h100 => mid = to + from - \h100
        /\ to + from < \h100 => mid = to + from
    BY <1>1, <2>2, SumDigits
  <2> HIDE DEF sum, mid
  <2>4. difference.result = mid - from /\ ("Carry" \in difference.flags <=> mid < from)
    BY <1>1, <2>3, SubFlags
  <2>5. /\ mid < from => uint8(mid - from) = mid - from + \h100
        /\ ~(mid < from) => uint8(mid - from) = mid - from
    BY <1>1, <2>3, DifferenceDigits
  <2> HIDE DEF difference
  <2>6. mid < from <=> to + from >= \h100
    BY <2>1, <2>3
  <2>7. uint8(difference.result) = to
    BY <2>1, <2>3, <2>4, <2>5, <2>6
  <2>8. Holds("Carry", difference) = Holds("Carry", sum)
    BY <2>2, <2>4, <2>6, HoldsIs
  <2> QED BY <2>7, <2>8 DEF SubUndoesAdd, difference, mid, sum
<1> QED
  BY <1>1, OperandsStay, PTL

-----------------------------------------------------------------------------
(* Counting, rotating and exclusive or *)

\* One up and one down.
LEMMA Wraps ==
  ASSUME NEW n \in Byte
  PROVE  /\ n < \hFF => uint8(n + 1) = n + 1
         /\ n = \hFF => uint8(n + 1) = 0
         /\ 0 < n => uint8(n - 1) = n - 1
         /\ n = 0 => uint8(n - 1) = \hFF
<1>1. n \in Int /\ 0 <= n /\ n < \h100
  BY ByteRange
<1> QED
  BY <1>1 DEF uint8

\* One up and down again, and the other way, through the wrap.
LEMMA Neighbours ==
  ASSUME NEW n \in Byte
  PROVE  /\ uint8(uint8(n + 1) - 1) = n
         /\ uint8(uint8(n - 1) + 1) = n
         /\ uint8(n - 1) = 0 <=> n - 1 = 0
<1>1. n \in Int /\ 0 <= n /\ n < \h100
  BY ByteRange
<1>2. uint8(n + 1) \in Byte /\ uint8(n - 1) \in Byte
  BY <1>1, Wraps, ByteRange
<1> DEFINE up == uint8(n + 1)
<1> DEFINE down == uint8(n - 1)
<1>3. /\ 0 < up => uint8(up - 1) = up - 1
      /\ up = 0 => uint8(up - 1) = \hFF
      /\ down < \hFF => uint8(down + 1) = down + 1
      /\ down = \hFF => uint8(down + 1) = 0
  BY <1>2, Wraps
<1>4. /\ n < \hFF => up = n + 1
      /\ n = \hFF => up = 0
      /\ 0 < n => down = n - 1
      /\ n = 0 => down = \hFF
  BY Wraps
<1> HIDE DEF up, down
<1>5. uint8(up - 1) = n /\ uint8(down + 1) = n /\ (down = 0 <=> n - 1 = 0)
  BY <1>1, <1>3, <1>4
<1> QED
  BY <1>5 DEF up, down

\* Inc and Dec undo each other through the wrap, both keep the carry, and Dec sets Zero
\* exactly when the stored byte is zero.
THEOREM CountsUndo == Spec => []IncDecInverse
<1>1. ASSUME to \in Byte, carry \in BOOLEAN
      PROVE  IncDecInverse
  <2>1. Flags \in SUBSET {"Carry"} 
    BY DEF Flags, FlagIf
  <2>2. \A n, f : AluInc(n, f).result = n + 1 /\ AluDec(n, f).result = n - 1
    BY DEF AluInc, AluDec
  <2>3. /\ AluInc(to, Flags).flags \cap {"Carry"} = Flags
        /\ AluDec(to, Flags).flags \cap {"Carry"} = Flags
    BY <2>1 DEF AluInc, AluDec, FlagIf
  <2>4. "Zero" \in AluDec(to, Flags).flags <=> to - 1 = 0
    BY <2>1 DEF AluDec, FlagIf
  <2>5. /\ uint8(AluDec(uint8(AluInc(to, Flags).result), {}).result) = to
        /\ uint8(AluInc(uint8(AluDec(to, Flags).result), {}).result) = to
        /\ uint8(AluDec(to, Flags).result) = 0 <=> to - 1 = 0
    BY <1>1, <2>2, Neighbours
  <2> QED BY <2>3, <2>4, <2>5 DEF IncDecInverse
<1> QED
  BY <1>1, OperandsStay, PTL

\* Doubling a byte: the byte that stays and the bit that leaves at the left.
LEMMA Doubled ==
  ASSUME NEW n \in Byte
  PROVE  /\ uint8(2 * n) \in Int /\ BitOf(n, \h80) \in {0, 1}
         /\ 2 * n = uint8(2 * n) + \h100 * BitOf(n, \h80)
         /\ 0 <= uint8(2 * n) /\ uint8(2 * n) <= 254
<1>1. n \in Int /\ 0 <= n /\ n < \h100
  BY ByteRange
<1>2. CASE n < \h80
  BY <1>1, <1>2 DEF uint8, BitOf
<1>3. CASE n >= \h80
  BY <1>1, <1>3 DEF uint8, BitOf
<1> QED
  BY <1>1, <1>2, <1>3

\* RotateLeft is a rotation of nine bits: it loses none, and Zero looks at the byte with
\* the carry shifted in.
THEOREM RotationIsNineBits == Spec => []RotateNineBits
<1>1. ASSUME to \in Byte, carry \in BOOLEAN
      PROVE  RotateNineBits
  <2> DEFINE c == IF carry THEN 1 ELSE 0
  <2> DEFINE shifted == uint8(2 * to) + c
  <2> DEFINE top == BitOf(to, \h80)
  <2>1. to \in Int /\ 0 <= to /\ to < \h100
    BY <1>1, ByteRange
  <2>2. c \in {0, 1}
    OBVIOUS
  <2>3. /\ top \in {0, 1} /\ uint8(2 * to) \in Int
        /\ 2 * to = uint8(2 * to) + \h100 * top
        /\ 0 <= uint8(2 * to)
    BY <1>1, Doubled
  <2>4. "Carry" \in Flags <=> carry
    BY <1>1 DEF Flags, FlagIf
  <2>5. Holds("Carry", [flags |-> Flags]) = c
    BY <2>4 DEF Holds
  <2>6. AluRotateLeft(to, Flags).result = shifted
    BY <2>4 DEF AluRotateLeft
  <2>7. /\ "Carry" \in AluRotateLeft(to, Flags).flags <=> top = 1
        /\ "Zero" \in AluRotateLeft(to, Flags).flags <=> shifted = 0
    BY <2>4 DEF AluRotateLeft, FlagIf
  <2> HIDE DEF c, top
  <2>8. shifted \in Int /\ 0 <= shifted
    BY <2>2, <2>3
  <2>9. shifted + \h100 * top = 2 * to + c
    BY <2>2, <2>3
  <2> HIDE DEF shifted
  <2> DEFINE nine == to + \h100 * c
  <2> DEFINE rotated == shifted + \h100 * top
  <2>10. (2 * nine) % 511 = rotated % 511
    <3>1. 2 * nine = rotated + 511 * c
      BY <2>1, <2>2, <2>9
    <3>2. rotated \in Int /\ c \in Int
      BY <2>2, <2>3, <2>8
    <3> HIDE DEF rotated, nine
    <3>3. c = 0 \/ c = 1
      BY <2>2
    <3>4. CASE c = 0
      BY <3>1, <3>2, <3>4
    <3>5. CASE c = 1
      BY <3>1, <3>2, <3>5
    <3> QED BY <3>3, <3>4, <3>5
  <2>11. rotated = 0 <=> nine = 0
    BY <2>1, <2>2, <2>9
  <2>12. Holds("Carry", AluRotateLeft(to, Flags)) = top
    BY <2>3, <2>7, HoldsIs
  <2> HIDE DEF nine, rotated
  <2>13. RotateNineBits <=>
           /\ rotated % 511 = (2 * nine) % 511
           /\ rotated = 0 <=> nine = 0
           /\ "Zero" \in AluRotateLeft(to, Flags).flags <=> shifted = 0
    BY <2>5, <2>6, <2>12 DEF RotateNineBits, nine, rotated
  <2> QED BY <2>7, <2>10, <2>11, <2>13
<1> QED
  BY <1>1, OperandsStay, PTL

\* The exclusive or of two bits of weight w, and of the result with the second again.
LEMMA XorOfBits ==
  ASSUME NEW a \in {0, 1}, NEW b \in {0, 1}
  PROVE  /\ (a + b) % 2 \in {0, 1}
         /\ (((a + b) % 2) + b) % 2 = a
         /\ (a + b) % 2 = 0 <=> a = b
OBVIOUS

\* A byte as the sum of its bits, and the bits of such a sum.
Bits(n) == 1 * BitOf(n, 1) + 2 * BitOf(n, 2) + 4 * BitOf(n, 4) + 8 * BitOf(n, 8)
         + 16 * BitOf(n, 16) + 32 * BitOf(n, 32) + 64 * BitOf(n, 64) + 128 * BitOf(n, 128)

\* A byte is the sum of its eight bits.
LEMMA ByteIsItsBits ==
  ASSUME NEW n \in Byte
  PROVE  /\ n = Bits(n)
         /\ BitOf(n, 1) \in {0, 1} /\ BitOf(n, 2) \in {0, 1} /\ BitOf(n, 4) \in {0, 1}
         /\ BitOf(n, 8) \in {0, 1} /\ BitOf(n, 16) \in {0, 1} /\ BitOf(n, 32) \in {0, 1}
         /\ BitOf(n, 64) \in {0, 1} /\ BitOf(n, 128) \in {0, 1}
<1>1. n \in Int /\ 0 <= n /\ n < \h100
  BY ByteRange
<1>2. /\ BitOf(n, 1) \in {0, 1} /\ BitOf(n, 2) \in {0, 1} /\ BitOf(n, 4) \in {0, 1}
      /\ BitOf(n, 8) \in {0, 1} /\ BitOf(n, 16) \in {0, 1} /\ BitOf(n, 32) \in {0, 1}
      /\ BitOf(n, 64) \in {0, 1} /\ BitOf(n, 128) \in {0, 1}
  BY <1>1 DEF BitOf
<1>3. n = Bits(n)
  BY <1>1 DEF Bits, BitOf
<1> QED
  BY <1>2, <1>3

\* The bits of a sum of eight weighted bits are those bits.
LEMMA BitsOfASum ==
  ASSUME NEW a \in {0, 1}, NEW b \in {0, 1}, NEW c \in {0, 1}, NEW d \in {0, 1},
         NEW e \in {0, 1}, NEW f \in {0, 1}, NEW g \in {0, 1}, NEW h \in {0, 1},
         NEW n, n = 1 * a + 2 * b + 4 * c + 8 * d + 16 * e + 32 * f + 64 * g + 128 * h
  PROVE  /\ n \in Byte
         /\ BitOf(n, 1) = a /\ BitOf(n, 2) = b /\ BitOf(n, 4) = c /\ BitOf(n, 8) = d
         /\ BitOf(n, 16) = e /\ BitOf(n, 32) = f /\ BitOf(n, 64) = g /\ BitOf(n, 128) = h
<1>1. n \in Int /\ 0 <= n /\ n < \h100
  OBVIOUS
<1>2. BitOf(n, 1) = a /\ BitOf(n, 2) = b /\ BitOf(n, 4) = c /\ BitOf(n, 8) = d
  BY DEF BitOf
<1>3. BitOf(n, 16) = e /\ BitOf(n, 32) = f /\ BitOf(n, 64) = g /\ BitOf(n, 128) = h
  BY DEF BitOf
<1> QED
  BY <1>1, <1>2, <1>3, ByteRange

\* The weighted bits of an exclusive or, one at a time.
LEMMA XorBitIs ==
  ASSUME NEW a, NEW b, NEW w
  PROVE  XorBit(a, b, w) = w * ((BitOf(a, w) + BitOf(b, w)) % 2)
BY DEF XorBit

\* An exclusive or is a byte whose bits are the exclusive ors of the bits.
LEMMA XorByteBits ==
  ASSUME NEW a \in Byte, NEW b \in Byte
  PROVE  /\ XorByte(a, b) \in Byte
         /\ \A w \in {1, 2, 4, 8, 16, 32, 64, 128} :
              BitOf(XorByte(a, b), w) = (BitOf(a, w) + BitOf(b, w)) % 2
<1> DEFINE X(w) == (BitOf(a, w) + BitOf(b, w)) % 2
<1>1. /\ BitOf(a, 1) \in {0, 1} /\ BitOf(a, 2) \in {0, 1} /\ BitOf(a, 4) \in {0, 1}
      /\ BitOf(a, 8) \in {0, 1} /\ BitOf(a, 16) \in {0, 1} /\ BitOf(a, 32) \in {0, 1}
      /\ BitOf(a, 64) \in {0, 1} /\ BitOf(a, 128) \in {0, 1}
  BY ByteIsItsBits
<1>2. /\ BitOf(b, 1) \in {0, 1} /\ BitOf(b, 2) \in {0, 1} /\ BitOf(b, 4) \in {0, 1}
      /\ BitOf(b, 8) \in {0, 1} /\ BitOf(b, 16) \in {0, 1} /\ BitOf(b, 32) \in {0, 1}
      /\ BitOf(b, 64) \in {0, 1} /\ BitOf(b, 128) \in {0, 1}
  BY ByteIsItsBits
<1>3. /\ X(1) \in {0, 1} /\ X(2) \in {0, 1} /\ X(4) \in {0, 1} /\ X(8) \in {0, 1}
      /\ X(16) \in {0, 1} /\ X(32) \in {0, 1} /\ X(64) \in {0, 1} /\ X(128) \in {0, 1}
  BY <1>1, <1>2, XorOfBits
<1>4. XorByte(a, b) = 1 * X(1) + 2 * X(2) + 4 * X(4) + 8 * X(8)
                    + 16 * X(16) + 32 * X(32) + 64 * X(64) + 128 * X(128)
  BY DEF XorByte, XorBit
<1> HIDE DEF X
<1>5. /\ XorByte(a, b) \in Byte
      /\ BitOf(XorByte(a, b), 1) = X(1) /\ BitOf(XorByte(a, b), 2) = X(2)
      /\ BitOf(XorByte(a, b), 4) = X(4) /\ BitOf(XorByte(a, b), 8) = X(8)
      /\ BitOf(XorByte(a, b), 16) = X(16) /\ BitOf(XorByte(a, b), 32) = X(32)
      /\ BitOf(XorByte(a, b), 64) = X(64) /\ BitOf(XorByte(a, b), 128) = X(128)
  BY <1>3, <1>4, BitsOfASum
<1>6. \A w \in {1, 2, 4, 8, 16, 32, 64, 128} : BitOf(XorByte(a, b), w) = X(w)
  BY <1>5
<1> QED
  BY <1>5, <1>6 DEF X

\* Bytes with the same bits are the same byte.
LEMMA SameBits ==
  ASSUME NEW a \in Byte, NEW b \in Byte,
         \A w \in {1, 2, 4, 8, 16, 32, 64, 128} : BitOf(a, w) = BitOf(b, w)
  PROVE  a = b
<1>1. Bits(a) = Bits(b)
  BY DEF Bits
<1> QED
  BY <1>1, ByteIsItsBits

\* Xor with the same byte twice restores A, and a byte xored with itself, and no other,
\* clears A and sets Zero.
THEOREM XorIsInvolution == Spec => []XorInvolution
<1>1. ASSUME to \in Byte, from \in Byte
      PROVE  XorInvolution
  <2> DEFINE W == {1, 2, 4, 8, 16, 32, 64, 128}
  <2> DEFINE x == XorByte(to, from)
  <2>1. /\ x \in Byte
        /\ \A w \in W : BitOf(x, w) = (BitOf(to, w) + BitOf(from, w)) % 2
    BY <1>1, XorByteBits
  <2>2. /\ XorByte(x, from) \in Byte
        /\ \A w \in W : BitOf(XorByte(x, from), w) = (BitOf(x, w) + BitOf(from, w)) % 2
    <3> HIDE DEF x
    <3> QED BY <1>1, <2>1, XorByteBits
  <2>3. \A n \in Byte : \A w \in W : BitOf(n, w) \in {0, 1}
    BY ByteIsItsBits
  <2>4. 0 \in Byte /\ \A w \in W : BitOf(0, w) = 0
    BY ByteRange DEF BitOf
  <2> HIDE DEF x, W
  <2>5. XorByte(x, from) = to
    <3>1. \A w \in W : BitOf(XorByte(x, from), w) = BitOf(to, w)
      BY <1>1, <2>1, <2>2, <2>3, XorOfBits
    <3> QED BY <1>1, <2>2, <3>1, SameBits DEF W
  <2>6. x = 0 => to = from
    <3> SUFFICES ASSUME x = 0 PROVE to = from
      OBVIOUS
    <3>1. \A w \in W : BitOf(to, w) = BitOf(from, w)
      BY <1>1, <2>1, <2>3, <2>4, XorOfBits
    <3> QED BY <1>1, <3>1, SameBits DEF W
  <2>7. to = from => x = 0
    <3> SUFFICES ASSUME to = from PROVE x = 0
      OBVIOUS
    <3>1. \A w \in W : BitOf(x, w) = BitOf(0, w)
      BY <1>1, <2>1, <2>3, <2>4, XorOfBits
    <3> QED BY <2>1, <2>4, <3>1, SameBits DEF W
  <2>8. "Zero" \in AluXor(to, from).flags <=> x = 0
    BY DEF AluXor, FlagIf, x
  <2> QED BY <2>1, <2>5, <2>6, <2>7, <2>8 DEF XorInvolution, x
<1> QED
  BY <1>1, OperandsStay, PTL
=============================================================================
