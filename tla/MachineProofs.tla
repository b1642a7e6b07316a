---------------------------- MODULE MachineProofs ---------------------------
(***************************************************************************)
(* Type correctness of the machine, for every boot image, every set of     *)
(* cartridges and every registers it may start from.                       *)
(***************************************************************************)
EXTENDS Machine, MemoryMapProofs

-----------------------------------------------------------------------------
(* The arithmetic: an integer to store and flags of the CPU *)

\* A flag set or cleared on a condition.
LEMMA FlagIfType ==
  ASSUME NEW condition
  PROVE  /\ FlagIf("Zero", condition) \subseteq FlagNames
         /\ FlagIf("Carry", condition) \subseteq FlagNames
         /\ FlagIf("HalfCarry", condition) \subseteq FlagNames
         /\ {"Subtract"} \subseteq FlagNames /\ {"HalfCarry"} \subseteq FlagNames
BY DEF FlagIf, FlagNames

\* The flags computed from a sum or a difference are flags of the CPU.
LEMMA CarryFlagsType ==
  ASSUME NEW from, NEW to, NEW result
  PROVE  CarryFlags(from, to, result) \subseteq FlagNames
BY FlagIfType DEF CarryFlags

\* A sum is an integer with flags of the CPU.
LEMMA AluAddType ==
  ASSUME NEW to \in Word, NEW from \in Word
  PROVE  AluAdd(to, from).result \in Int /\ AluAdd(to, from).flags \subseteq FlagNames
<1>1. from + to \in Int
  BY WordIsInt
<1> QED
  BY <1>1, CarryFlagsType DEF AluAdd

\* A difference is an integer with flags of the CPU.
LEMMA AluSubType ==
  ASSUME NEW A \in Byte, NEW from \in Word
  PROVE  AluSub(A, from).result \in Int /\ AluSub(A, from).flags \subseteq FlagNames
<1>1. A - from \in Int
  BY WordIsInt, InByte
<1>2. {"Subtract"} \cup CarryFlags(from, A, A - from) \subseteq FlagNames
  BY CarryFlagsType, FlagIfType
<1> QED
  BY <1>1, <1>2 DEF AluSub

\* One bit of an exclusive or is an integer.
LEMMA XorBitType ==
  ASSUME NEW a \in Int, NEW b \in Int, NEW w \in Nat \ {0}
  PROVE  XorBit(a, b, w) \in Int
<1>1. (a \div w) \in Int /\ (b \div w) \in Int
  OBVIOUS
<1> QED
  BY <1>1 DEF XorBit, BitOf

\* An exclusive or is an integer with flags of the CPU.
LEMMA AluXorType ==
  ASSUME NEW A \in Byte, NEW value \in Word
  PROVE  AluXor(A, value).result \in Int /\ AluXor(A, value).flags \subseteq FlagNames
<1>1. A \in Int /\ value \in Int
  BY InByte, WordIsInt
<1>2. \A w \in Nat \ {0} : XorBit(A, value, w) \in Int
  BY <1>1, XorBitType
<1>3. XorByte(A, value) \in Int
  BY <1>2 DEF XorByte
<1> QED
  BY <1>3, FlagIfType DEF AluXor

\* A comparison leaves flags of the CPU.
LEMMA AluCompareType ==
  ASSUME NEW A, NEW val
  PROVE  AluCompare(A, val) \subseteq FlagNames
BY FlagIfType DEF AluCompare

\* An increment is an integer with flags of the CPU.
LEMMA AluIncType ==
  ASSUME NEW val \in Word, NEW flags \in SUBSET FlagNames
  PROVE  AluInc(val, flags).result \in Int /\ AluInc(val, flags).flags \subseteq FlagNames
<1>1. val + 1 \in Int
  BY WordIsInt
<1>2. AluInc(val, flags).flags \subseteq FlagNames
  BY FlagIfType DEF AluInc
<1> QED
  BY <1>1, <1>2 DEF AluInc

\* A decrement is an integer with flags of the CPU.
LEMMA AluDecType ==
  ASSUME NEW val \in Word, NEW flags \in SUBSET FlagNames
  PROVE  AluDec(val, flags).result \in Int /\ AluDec(val, flags).flags \subseteq FlagNames
<1>1. val - 1 \in Int
  BY WordIsInt
<1>2. AluDec(val, flags).flags \subseteq FlagNames
  BY FlagIfType DEF AluDec
<1> QED
  BY <1>1, <1>2 DEF AluDec

\* A bit test leaves flags of the CPU.
LEMMA AluBitType ==
  ASSUME NEW N, NEW value, NEW flags \in SUBSET FlagNames
  PROVE  AluBit(N, value, flags) \subseteq FlagNames
BY FlagIfType DEF AluBit

\* A rotation is an integer with flags of the CPU.
LEMMA AluRotateLeftType ==
  ASSUME NEW value \in Word, NEW flags \in SUBSET FlagNames
  PROVE  /\ AluRotateLeft(value, flags).result \in Int
         /\ AluRotateLeft(value, flags).flags \subseteq FlagNames
<1>1. uint8(2 * value) \in Int
  BY WordIsInt DEF uint8
<1> QED
  BY <1>1, FlagIfType DEF AluRotateLeft

-----------------------------------------------------------------------------
(* Registers *)

\* Assigning any integer to pc stores 16 bits of it.
LEMMA SetPcType ==
  ASSUME NEW s, StateOK(s), NEW v \in Int
  PROVE  StateOK(SetPc(v, s))
BY Conversions DEF SetPc, Then, StateOK

\* Assigning any integer to sp stores 16 bits of it.
LEMMA SetSpType ==
  ASSUME NEW s, StateOK(s), NEW v \in Int
  PROVE  StateOK(SetSp(v, s))
BY Conversions DEF SetSp, Then, StateOK

\* Replacing the flags keeps the object well-formed.
LEMMA SetFlagsType ==
  ASSUME NEW s, StateOK(s), NEW f \in SUBSET FlagNames
  PROVE  StateOK(SetFlags(f, s))
BY DEF SetFlags, Then, StateOK

\* The cycle counter wraps at its width.
LEMMA ChargeType ==
  ASSUME NEW s, StateOK(s), NEW n \in Int
  PROVE  StateOK(Charge(n, s))
<1>1. s.cycles \in Int /\ (s.cycles + n) % CycleMod \in 0..(CycleMod - 1)
  BY CycleModAssumption DEF StateOK
<1>2. StateOK([s EXCEPT !.cycles = (s.cycles + n) % CycleMod])
  BY <1>1 DEF StateOK
<1> QED
  BY <1>2 DEF Charge, Then

\* The members a lemma needs of a well-formed object.
LEMMA Members ==
  ASSUME NEW s, StateOK(s)
  PROVE  /\ s.pc \in Word /\ s.sp \in Word
         /\ s.reg \in [Reg8 -> Byte] /\ s.flags \in SUBSET FlagNames
BY DEF StateOK

\* A pair of registers is a word.
LEMMA PairType ==
  ASSUME NEW s, StateOK(s), NEW p \in Pairs
  PROVE  Pair(p, s) \in Word
<1>1. High[p] \in Reg8 /\ Low[p] \in Reg8
  BY DEF High, Low, Pairs, Reg8
<1> QED
  BY <1>1, Members, JoinBytes DEF Pair

\* Storing any integer in a pair stores a byte in each half.
LEMMA SetPairType ==
  ASSUME NEW s, StateOK(s), NEW p \in Pairs, NEW v \in Int
  PROVE  StateOK(SetPair(p, v, s))
<1>1. High[p] \in Reg8 /\ Low[p] \in Reg8
  BY DEF High, Low, Pairs, Reg8
<1>2. Hi(uint16(v)) \in Byte
  BY Conversions, WordBytes
<1>3. Lo(v) \in Byte
  BY InByte DEF Lo
<1>4. [s.reg EXCEPT ![High[p]] = Hi(uint16(v)), ![Low[p]] = Lo(v)] \in [Reg8 -> Byte]
  BY <1>1, <1>2, <1>3, Members
<1>5. StateOK([s EXCEPT !.reg = [s.reg EXCEPT ![High[p]] = Hi(uint16(v)), ![Low[p]] = Lo(v)]])
  BY <1>4 DEF StateOK
<1> QED
  BY <1>5 DEF SetPair, Then

\* Storing any integer in a register stores 8 bits of it.
LEMMA SetReg8Type ==
  ASSUME NEW s, StateOK(s), NEW r \in Reg8, NEW v \in Int
  PROVE  StateOK(Then(s, [s EXCEPT !.reg[r] = uint8(v)]))
<1>1. [s.reg EXCEPT ![r] = uint8(v)] \in [Reg8 -> Byte]
  BY Members, Conversions
<1> QED
  BY <1>1 DEF Then, StateOK

-----------------------------------------------------------------------------
(* Operands: the value read is at most a word, the object stays well-formed *)

\* Sums and differences of bytes and words.
LEMMA ByteIsWord ==
  ASSUME NEW b \in Byte
  PROVE  b \in Word
BY InByte, InWord

\* The address of an I/O port is a word.
LEMMA PageFF ==
  ASSUME NEW b \in Byte
  PROVE  \hFF00 + b \in Word
<1>1. \hFF00 + b \in Int /\ 0 <= \hFF00 + b /\ \hFF00 + b < \h10000
  BY InByte
<1> QED
  BY <1>1, InWord

\* A displacement is an integer.
LEMMA SignedType ==
  ASSUME NEW w \in Word
  PROVE  int8(w) \in Int
BY WordIsInt DEF int8

\* A word and its neighbours are integers.
LEMMA WordSteps ==
  ASSUME NEW w \in Word
  PROVE  /\ w \in Int /\ w + 1 \in Int /\ w + 2 \in Int
         /\ w - 1 \in Int /\ w - 2 \in Int
BY WordIsInt

\* A word and a displacement add up to an integer.
LEMMA WordPlus ==
  ASSUME NEW w \in Word, NEW n \in Int
  PROVE  w + n \in Int
BY WordIsInt

\* What a lemma says of a value and the object after reading it.
ValueOK(read) == read.val \in Word /\ StateOK(read.st)

\* An immediate byte is a byte, and reading it advances pc within 16 bits.
LEMMA D8Type ==
  ASSUME NEW s, StateOK(s)
  PROVE  D8(s).val \in Byte /\ StateOK(D8(s).st)
<1> DEFINE read == get_memory_byte(s.pc, s)
<1>1. read.val \in Byte /\ StateOK(read.st)
  BY Members, GetMemoryByteType
<1>2. s.pc + 1 \in Int
  BY Members, WordSteps
<1>3. StateOK(SetPc(s.pc + 1, read.st))
  BY <1>1, <1>2, SetPcType
<1> QED
  BY <1>1, <1>3 DEF D8, Value

\* An immediate word is a word.
LEMMA D16Type ==
  ASSUME NEW s, StateOK(s)
  PROVE  ValueOK(D16(s))
<1> DEFINE first == D8(s)
<1> DEFINE second == D8(first.st)
<1>1. first.val \in Byte /\ StateOK(first.st)
  BY D8Type
<1>2. second.val \in Byte /\ StateOK(second.st)
  BY <1>1, D8Type
<1>3. Join(second.val, first.val) \in Word
  BY <1>1, <1>2, JoinBytes
<1> QED
  BY <1>2, <1>3 DEF D16, Value, ValueOK

\* Every pointer operand points to a 16-bit address.
LEMMA AddressType ==
  ASSUME NEW s, StateOK(s), NEW x
  PROVE  Address(x, s) \in Word
<1>1. \A p \in Pairs : Pair(p, s) \in Word
  BY PairType
<1>2. \hFF00 + s.reg["C"] \in Word
  <2>1. s.reg["C"] \in Byte
    BY Members DEF Reg8
  <2> QED BY <2>1, PageFF
<1> QED
  BY <1>1, <1>2 DEF Address, Pairs

\* (HL+) and (HL-) wrap HL within 16 bits.
LEMMA AfterAccessType ==
  ASSUME NEW s, StateOK(s), NEW x
  PROVE  StateOK(AfterAccess(x, s))
<1>1. "HL" \in Pairs
  BY DEF Pairs
<1>2. Pair("HL", s) + 1 \in Int /\ Pair("HL", s) - 1 \in Int
  BY <1>1, PairType, WordSteps
<1>3. StateOK(SetPair("HL", Pair("HL", s) + 1, s))
  BY <1>1, <1>2, SetPairType
<1>4. StateOK(SetPair("HL", Pair("HL", s) - 1, s))
  BY <1>1, <1>2, SetPairType
<1> QED
  BY <1>3, <1>4 DEF AfterAccess

\* Reading any operand.
LEMMA GetType ==
  ASSUME NEW s, StateOK(s), NEW x
  PROVE  ValueOK(Get(x, s))
<1>1. x \in Reg8 => ValueOK(Value(s.reg[x], s))
  BY Members, ByteIsWord DEF Value, ValueOK
<1>2. x \in Pairs => ValueOK(Value(Pair(x, s), s))
  BY PairType DEF Value, ValueOK
<1>3. ValueOK(Value(s.sp, s))
  BY Members DEF Value, ValueOK
<1>4. ValueOK(D8(s))
  BY D8Type, ByteIsWord DEF ValueOK
<1>5. ValueOK(D16(s))
  BY D16Type
<1>6. ValueOK(Value(uint16(s.sp + int8(D8(s).val)), D8(s).st))
  <2>1. D8(s).val \in Byte /\ StateOK(D8(s).st)
    BY D8Type
  <2>2. s.sp + int8(D8(s).val) \in Int
    BY <2>1, Members, ByteIsWord, SignedType, WordPlus
  <2>3. uint16(s.sp + int8(D8(s).val)) \in Word
    BY <2>2, Conversions
  <2> QED BY <2>1, <2>3 DEF Value, ValueOK
<1>7. ValueOK(get_memory_byte(D16(s).val, D16(s).st))
  <2>1. D16(s).val \in Word /\ StateOK(D16(s).st)
    BY D16Type DEF ValueOK
  <2>2. /\ get_memory_byte(D16(s).val, D16(s).st).val \in Byte
        /\ StateOK(get_memory_byte(D16(s).val, D16(s).st).st)
    BY <2>1, GetMemoryByteType
  <2> QED BY <2>2, ByteIsWord DEF ValueOK
<1>8. ASSUME NEW read, read = get_memory_byte(Address(x, s), s)
      PROVE  ValueOK(Value(read.val, AfterAccess(x, read.st)))
  <2>1. read.val \in Byte /\ StateOK(read.st)
    BY <1>8, AddressType, GetMemoryByteType
  <2>2. StateOK(AfterAccess(x, read.st))
    BY <2>1, AfterAccessType
  <2> QED BY <2>1, <2>2, ByteIsWord DEF Value, ValueOK
<1>9. ValueOK(Value(0, Then(s, panic(s))))
  BY PanicType, ByteLiterals, ByteIsWord DEF Value, ValueOK, Then
<1> QED
  BY <1>1, <1>2, <1>3, <1>4, <1>5, <1>6, <1>7, <1>8, <1>9 DEF Get

\* Writing any integer to any operand.
LEMMA SetType ==
  ASSUME NEW s, StateOK(s), NEW x, NEW v \in Int
  PROVE  StateOK(Set(x, v, s))
<1>1. uint8(v) \in Byte
  BY Conversions
<1>2. x \in Reg8 => StateOK(Then(s, [s EXCEPT !.reg[x] = uint8(v)]))
  BY SetReg8Type
<1>3. x \in Pairs => StateOK(SetPair(x, v, s))
  BY SetPairType
<1>4. StateOK(SetSp(v, s))
  BY SetSpType
<1>5. StateOK(set_memory_byte(D16(s).val, uint8(v), D16(s).st))
  BY <1>1, D16Type, SetMemoryByteType DEF ValueOK
<1>6. StateOK(AfterAccess(x, set_memory_byte(Address(x, s), uint8(v), s)))
  <2>1. StateOK(set_memory_byte(Address(x, s), uint8(v), s))
    BY <1>1, AddressType, SetMemoryByteType
  <2> QED BY <2>1, AfterAccessType
<1>7. StateOK(Then(s, panic(s)))
  BY PanicType DEF Then
<1> QED
  BY <1>2, <1>3, <1>4, <1>5, <1>6, <1>7 DEF Set

-----------------------------------------------------------------------------
(* Operations: each returns a well-formed object *)

\* The operand an operation reads first.
LEMMA Operand ==
  ASSUME NEW s, StateOK(s), NEW x
  PROVE  /\ Get(x, s).val \in Word
         /\ StateOK(Get(x, s).st)
         /\ Get(x, s).st.pc \in Word
         /\ Get(x, s).st.reg["A"] \in Byte
         /\ Get(x, s).st.flags \in SUBSET FlagNames
<1>1. Get(x, s).val \in Word /\ StateOK(Get(x, s).st)
  BY GetType DEF ValueOK
<1> QED
  BY <1>1, Members DEF Reg8

\* Storing a result with its flags.
LEMMA StoreResult ==
  ASSUME NEW s, StateOK(s), NEW x, NEW alu,
         alu.result \in Int, alu.flags \subseteq FlagNames
  PROVE  StateOK(Set(x, alu.result, SetFlags(alu.flags, s)))
<1>1. StateOK(SetFlags(alu.flags, s))
  BY SetFlagsType
<1> QED
  BY <1>1, SetType

\* ADD.
LEMMA AddType ==
  ASSUME NEW s, StateOK(s), NEW to, NEW from
  PROVE  StateOK(Add(to, from, s))
<1> DEFINE f == Get(from, s)
<1> DEFINE t == Get(to, f.st)
<1>1. f.val \in Word /\ StateOK(f.st)
  BY Operand
<1>2. t.val \in Word /\ StateOK(t.st)
  BY <1>1, Operand
<1>3. AluAdd(t.val, f.val).result \in Int /\ AluAdd(t.val, f.val).flags \subseteq FlagNames
  BY <1>1, <1>2, AluAddType
<1> HIDE DEF f, t
<1>4. StateOK(Set(to, AluAdd(t.val, f.val).result, SetFlags(AluAdd(t.val, f.val).flags, t.st)))
  BY <1>2, <1>3, StoreResult
<1> QED
  BY <1>4 DEF Add, f, t

\* SUB.
LEMMA SubType ==
  ASSUME NEW s, StateOK(s), NEW from
  PROVE  StateOK(Sub(from, s))
<1> DEFINE f == Get(from, s)
<1>1. f.val \in Word /\ StateOK(f.st) /\ f.st.reg["A"] \in Byte
  BY Operand
<1> HIDE DEF f
<1> DEFINE alu == AluSub(f.st.reg["A"], f.val)
<1>2. alu.result \in Int /\ alu.flags \subseteq FlagNames
  BY <1>1, AluSubType
<1> HIDE DEF alu
<1>3. StateOK(Set("A", alu.result, SetFlags(alu.flags, f.st)))
  BY <1>1, <1>2, StoreResult
<1> QED
  BY <1>3 DEF Sub, f, alu

\* XOR.
LEMMA XorType ==
  ASSUME NEW s, StateOK(s), NEW field
  PROVE  StateOK(Xor(field, s))
<1> DEFINE f == Get(field, s)
<1>1. f.val \in Word /\ StateOK(f.st) /\ f.st.reg["A"] \in Byte
  BY Operand
<1> HIDE DEF f
<1> DEFINE alu == AluXor(f.st.reg["A"], f.val)
<1>2. alu.result \in Int /\ alu.flags \subseteq FlagNames
  BY <1>1, AluXorType
<1> HIDE DEF alu
<1>3. StateOK(Set("A", alu.result, SetFlags(alu.flags, f.st)))
  BY <1>1, <1>2, StoreResult
<1> QED
  BY <1>3 DEF Xor, f, alu

\* CP.
LEMMA CompareType ==
  ASSUME NEW s, StateOK(s), NEW field
  PROVE  StateOK(Compare(field, s))
<1>1. StateOK(Get(field, s).st)
  BY Operand
<1> QED
  BY <1>1, AluCompareType, SetFlagsType DEF Compare

\* INC.
LEMMA IncType ==
  ASSUME NEW s, StateOK(s), NEW field
  PROVE  StateOK(Inc(field, s))
<1> DEFINE f == Get(field, s)
<1>1. f.val \in Word /\ StateOK(f.st) /\ f.st.flags \in SUBSET FlagNames
  BY Operand
<1> HIDE DEF f
<1> DEFINE alu == AluInc(f.val, f.st.flags)
<1>2. alu.result \in Int /\ alu.flags \subseteq FlagNames
  BY <1>1, AluIncType
<1> HIDE DEF alu
<1>3. StateOK(Set(field, alu.result, SetFlags(alu.flags, f.st)))
  BY <1>1, <1>2, StoreResult
<1> QED
  BY <1>3 DEF Inc, f, alu

\* DEC.
LEMMA DecType ==
  ASSUME NEW s, StateOK(s), NEW field
  PROVE  StateOK(Dec(field, s))
<1> DEFINE f == Get(field, s)
<1>1. f.val \in Word /\ StateOK(f.st) /\ f.st.flags \in SUBSET FlagNames
  BY Operand
<1> HIDE DEF f
<1> DEFINE alu == AluDec(f.val, f.st.flags)
<1>2. alu.result \in Int /\ alu.flags \subseteq FlagNames
  BY <1>1, AluDecType
<1> HIDE DEF alu
<1>3. StateOK(Set(field, alu.result, SetFlags(alu.flags, f.st)))
  BY <1>1, <1>2, StoreResult
<1> QED
  BY <1>3 DEF Dec, f, alu

\* RL.
LEMMA RotateLeftType ==
  ASSUME NEW s, StateOK(s), NEW field
  PROVE  StateOK(RotateLeft(field, s))
<1> DEFINE f == Get(field, s)
<1>1. f.val \in Word /\ StateOK(f.st) /\ f.st.flags \in SUBSET FlagNames
  BY Operand
<1> HIDE DEF f
<1> DEFINE alu == AluRotateLeft(f.val, f.st.flags)
<1>2. alu.result \in Int /\ alu.flags \subseteq FlagNames
  BY <1>1, AluRotateLeftType
<1> HIDE DEF alu
<1>3. StateOK(Set(field, alu.result, SetFlags(alu.flags, f.st)))
  BY <1>1, <1>2, StoreResult
<1> QED
  BY <1>3 DEF RotateLeft, f, alu

\* BIT.
LEMMA BitType ==
  ASSUME NEW s, StateOK(s), NEW N, NEW field
  PROVE  StateOK(Bit(N, field, s))
<1>1. StateOK(Get(field, s).st) /\ Get(field, s).st.flags \in SUBSET FlagNames
  BY Operand
<1>2. AluBit(N, Get(field, s).val, Get(field, s).st.flags) \subseteq FlagNames
  BY <1>1, AluBitType
<1> QED
  BY <1>1, <1>2, SetFlagsType DEF Bit

\* LD.
LEMMA LoadType ==
  ASSUME NEW s, StateOK(s), NEW to, NEW from
  PROVE  StateOK(Load(to, from, s))
<1>1. StateOK(Get(from, s).st) /\ Get(from, s).val \in Int
  BY Operand, WordSteps
<1> QED
  BY <1>1, SetType DEF Load

-----------------------------------------------------------------------------
(* Control flow and the stack *)

\* JR.
LEMMA JumpRelativeType ==
  ASSUME NEW s, StateOK(s), NEW condition, NEW field
  PROVE  StateOK(JumpRelative(condition, field, s))
<1> DEFINE f == Get(field, s)
<1>1. f.val \in Word /\ StateOK(f.st) /\ f.st.pc \in Word
  BY Operand
<1> HIDE DEF f
<1>2. f.st.pc + int8(f.val) \in Int
  BY <1>1, SignedType, WordPlus
<1>3. StateOK(SetPc(f.st.pc + int8(f.val), Charge(4, f.st)))
  <2>1. StateOK(Charge(4, f.st))
    BY <1>1, ChargeType
  <2> QED BY <1>2, <2>1, SetPcType
<1> QED
  BY <1>1, <1>3 DEF JumpRelative, f

\* JP.
LEMMA JumpType ==
  ASSUME NEW s, StateOK(s), NEW condition, NEW field
  PROVE  StateOK(Jump(condition, field, s))
<1> DEFINE f == Get(field, s)
<1>1. f.val \in Word /\ StateOK(f.st) /\ f.st.pc \in Word
  BY Operand
<1> HIDE DEF f
<1>2. f.st.pc + f.val \in Int
  BY <1>1, WordSteps, WordPlus
<1>3. StateOK(SetPc(f.st.pc + f.val, Charge(4, f.st)))
  <2>1. StateOK(Charge(4, f.st))
    BY <1>1, ChargeType
  <2> QED BY <1>2, <2>1, SetPcType
<1> QED
  BY <1>1, <1>3 DEF Jump, f

\* Storing a word on the stack.
LEMMA PushWordType ==
  ASSUME NEW s, StateOK(s), NEW w \in Word
  PROVE  StateOK(PushWord(w, s))
<1> DEFINE low == set_memory_byte(s.sp, Lo(w), s)
<1> DEFINE high == set_memory_byte(uint16(s.sp - 1), Hi(w), low)
<1>1. Lo(w) \in Byte /\ Hi(w) \in Byte
  BY WordBytes
<1>2. s.sp \in Word /\ s.sp - 2 \in Int /\ uint16(s.sp - 1) \in Word
  BY Members, WordSteps, Conversions
<1>3. StateOK(low)
  BY <1>1, <1>2, SetMemoryByteType
<1> HIDE DEF low
<1>4. StateOK(high)
  BY <1>1, <1>2, <1>3, SetMemoryByteType
<1> HIDE DEF high
<1>5. StateOK(SetSp(s.sp - 2, high))
  BY <1>2, <1>4, SetSpType
<1> QED
  BY <1>5 DEF PushWord, high, low

\* Reading a word from the stack.
LEMMA PopWordType ==
  ASSUME NEW s, StateOK(s)
  PROVE  PopWord(s).val \in Word /\ StateOK(PopWord(s).st)
<1> DEFINE high == get_memory_byte(uint16(s.sp + 1), s)
<1> DEFINE low == get_memory_byte(uint16(s.sp + 2), high.st)
<1>1. s.sp + 2 \in Int /\ uint16(s.sp + 1) \in Word /\ uint16(s.sp + 2) \in Word
  BY Members, WordSteps, Conversions
<1>2. high.val \in Byte /\ StateOK(high.st)
  BY <1>1, GetMemoryByteType
<1> HIDE DEF high
<1>3. low.val \in Byte /\ StateOK(low.st)
  BY <1>1, <1>2, GetMemoryByteType
<1> HIDE DEF low
<1>4. Join(high.val, low.val) \in Word
  BY <1>2, <1>3, JoinBytes
<1>5. StateOK(SetSp(s.sp + 2, low.st))
  BY <1>1, <1>3, SetSpType
<1> QED
  BY <1>4, <1>5 DEF PopWord, Value, high, low

\* PUSH.
LEMMA PushType ==
  ASSUME NEW s, StateOK(s), NEW field
  PROVE  StateOK(Push(field, s))
BY Operand, PushWordType DEF Push

\* POP.
LEMMA PopType ==
  ASSUME NEW s, StateOK(s), NEW field
  PROVE  StateOK(Pop(field, s))
<1>1. StateOK(PopWord(s).st) /\ PopWord(s).val \in Int
  BY PopWordType, WordSteps
<1> QED
  BY <1>1, SetType DEF Pop

\* CALL.
LEMMA CallType ==
  ASSUME NEW s, StateOK(s), NEW condition, NEW field
  PROVE  StateOK(Call(condition, field, s))
<1> DEFINE f == Get(field, s)
<1>1. f.val \in Int /\ StateOK(f.st) /\ f.st.pc \in Word
  BY Operand, WordSteps
<1> HIDE DEF f
<1>2. StateOK(SetPc(f.val, f.st))
  BY <1>1, SetPcType
<1>3. StateOK(PushWord(f.st.pc, SetPc(f.val, f.st)))
  BY <1>1, <1>2, PushWordType
<1>4. StateOK(Charge(12, PushWord(f.st.pc, SetPc(f.val, f.st))))
  BY <1>3, ChargeType
<1> QED
  BY <1>1, <1>4 DEF Call, f

\* RET.
LEMMA RetType ==
  ASSUME NEW s, StateOK(s), NEW condition
  PROVE  StateOK(Ret(condition, s))
<1>1. StateOK(PopWord(s).st) /\ PopWord(s).val \in Int
  BY PopWordType, WordSteps
<1>2. StateOK(SetPc(PopWord(s).val, PopWord(s).st))
  BY <1>1, SetPcType
<1>3. StateOK(Charge(12, SetPc(PopWord(s).val, PopWord(s).st)))
  BY <1>2, ChargeType
<1> QED
  BY <1>3 DEF Ret

\* The stack addresses of a word wrap with the 16 bits of sp.
LEMMA StackAddresses ==
  ASSUME NEW sp \in Word
  PROVE  /\ uint16(uint16(sp - 2) + 1) = uint16(sp - 1)
         /\ uint16(uint16(sp - 2) + 2) = sp
         /\ uint16(sp - 1) # sp
<1>1. sp \in Int /\ 0 <= sp /\ sp < \h10000
  BY InWord
<1> QED
  BY <1>1 DEF uint16

\* An address and the one below it are never the same byte of the RAM.
LEMMA NeighboursDiffer ==
  ASSUME NEW sp \in Word, SameCell(sp, uint16(sp - 1))
  PROVE  FALSE
<1>1. uint16(sp - 1) \in Word /\ uint16(sp - 1) # sp
  BY StackAddresses, WordSteps, Conversions
<1>2. InRam(sp) /\ InRam(uint16(sp - 1)) /\ RamIndex(sp) = RamIndex(uint16(sp - 1))
  BY <1>1 DEF SameCell
<1>3. \hC000 <= sp /\ sp < \hFE00
  BY <1>2, Bounds
<1>4. uint16(sp - 1) = sp - 1
  BY <1>3, WordSteps DEF uint16
<1>5. \A a \in Word : RamIndex(a) = a - \hE000 \/ RamIndex(a) = a - \hC000
  BY DEF RamIndex
<1>6. sp \in Int
  BY WordSteps
<1> QED
  BY <1>1, <1>2, <1>4, <1>5, <1>6

\* A word pushed can be popped: when both bytes below sp keep what is written to
\* them and the push returns, the pop that follows returns the word, leaves sp where
\* it was and does not stop the machine.  The push stores the word in the order the
\* pop reads it, wherever sp points and however it wraps.
THEOREM PushThenPop ==
  ASSUME NEW s, StateOK(s), NEW w \in Word,
         Held(s.sp), Held(uint16(s.sp - 1)),
         PushWord(w, s).status = "running"
  PROVE  LET popped == PopWord(PushWord(w, s))
         IN  popped.val = w /\ popped.st.sp = s.sp /\ popped.st.status = "running"
<1> DEFINE below == uint16(s.sp - 1)
<1> DEFINE low == set_memory_byte(s.sp, Lo(w), s)
<1> DEFINE high == set_memory_byte(below, Hi(w), low)
<1> DEFINE p == SetSp(s.sp - 2, high)
<1>1. /\ s.sp \in Word /\ below \in Word /\ s.sp - 2 \in Int
      /\ Lo(w) \in Byte /\ Hi(w) \in Byte /\ Join(Hi(w), Lo(w)) = w
  BY Members, WordSteps, Conversions, WordBytes
<1>2. PushWord(w, s) = p
  BY DEF PushWord
<1>3. below # s.sp /\ ~SameCell(s.sp, below) /\ ~SameCell(below, s.sp)
  BY <1>1, StackAddresses, NeighboursDiffer DEF SameCell
<1>4. /\ uint16(uint16(s.sp - 2) + 1) = below
      /\ uint16(uint16(s.sp - 2) + 2) = s.sp
  BY <1>1, StackAddresses
<1>5. uint16(s.sp - 2) \in Word
  BY <1>1, Conversions
<1> HIDE DEF below
<1>6. StateOK(low)
  BY <1>1, SetMemoryByteType
<1>7. StateOK(high)
  BY <1>1, <1>6, SetMemoryByteType
<1>8. high.status = "running"
  BY <1>2 DEF SetSp, Then
<1>9. low.status = "running" /\ s.status = "running"
  <2> HIDE DEF low, high
  <2>1. low.status = "running"
    BY <1>1, <1>6, <1>8, WriteKeepsCpu DEF high
  <2> QED BY <1>1, <2>1, WriteKeepsCpu DEF low
<1>10. ByteAt(below, high) = Hi(w) /\ ByteAt(s.sp, high) = Lo(w)
  <2>1. ByteAt(s.sp, low) = Lo(w)
    <3>1. SameCell(s.sp, s.sp) /\ Held(s.sp)
      BY DEF SameCell
    <3> HIDE DEF low
    <3> QED BY <1>1, <1>9, <3>1, WriteThenRead DEF low
  <2>2. Held(below) /\ SameCell(below, below)
    BY DEF SameCell, below
  <2> HIDE DEF low, high
  <2> QED BY <1>1, <1>3, <1>6, <1>8, <1>9, <2>1, <2>2, WriteThenRead DEF high
<1> HIDE DEF low, high
<1>11. /\ StateOK(p) /\ p.status = "running" /\ p.sp = uint16(s.sp - 2)
       /\ \A a : ByteAt(a, p) = ByteAt(a, high)
  <2>1. p = [high EXCEPT !.sp = uint16(s.sp - 2)]
    BY <1>8 DEF SetSp, Then
  <2>2. StateOK(p)
    BY <1>1, <1>7, SetSpType
  <2> HIDE DEF p
  <2>3. /\ p.status = high.status /\ p.sp = uint16(s.sp - 2)
        /\ p.interrupt_enabled = high.interrupt_enabled /\ p.rom = high.rom
        /\ p.internal_memory = high.internal_memory /\ p.io = high.io
        /\ p.memory = high.memory /\ p.video = high.video
    BY <1>7, <2>1 DEF StateOK
  <2>4. \A a : ByteAt(a, p) = ByteAt(a, high)
    BY <2>3, ByteAtMembers
  <2> QED BY <1>8, <2>2, <2>3, <2>4
<1> HIDE DEF p
<1> DEFINE first == get_memory_byte(uint16(p.sp + 1), p)
<1> DEFINE second == get_memory_byte(uint16(p.sp + 2), first.st)
<1>12. first.val = Hi(w) /\ first.st = [p EXCEPT !.status = "running"]
  <2>1. ReadStatus(below, p) = "running"
    BY <1>1, HeldIsReadable DEF below
  <2> QED BY <1>4, <1>10, <1>11, <2>1 DEF get_memory_byte, Then
<1>13. first.st = p
  BY <1>11, <1>12 DEF StateOK
<1> HIDE DEF first
<1>14. second.val = Lo(w) /\ second.st = [p EXCEPT !.status = "running"]
  <2>1. ReadStatus(s.sp, p) = "running"
    BY <1>1, HeldIsReadable
  <2> QED BY <1>4, <1>10, <1>11, <1>13, <2>1 DEF get_memory_byte, Then
<1>15. second.st = p
  BY <1>11, <1>14 DEF StateOK
<1> HIDE DEF second
<1>16. PopWord(p) = Value(Join(first.val, second.val), SetSp(p.sp + 2, second.st))
  BY DEF PopWord, first, second
<1> DEFINE q == SetSp(p.sp + 2, p)
<1>17. q = [p EXCEPT !.sp = s.sp]
  BY <1>4, <1>11 DEF SetSp, Then
<1>18. q.sp = s.sp /\ q.status = "running"
  BY <1>11, <1>17 DEF StateOK
<1> HIDE DEF q
<1>19. PopWord(p).val = w /\ PopWord(p).st = q
  BY <1>1, <1>12, <1>14, <1>15, <1>16 DEF Value, q
<1> QED
  BY <1>2, <1>18, <1>19

-----------------------------------------------------------------------------
(* The tables: what a row charges *)

\* A row charges between 4 and 16 cycles, in fours, unless it has no function; at most
\* 12 if it may charge for a branch on top, and 4 if it starts a second row.
Charges(row) ==
  /\ row.cycles \in Nat
  /\ row.op # "null" => row.cycles \in {4, 8, 12, 16}
  /\ row.op \in {"JumpRelative", "Jump", "Call", "Ret"} => row.cycles <= 12
  /\ row.op = "PrefixCB" => row.cycles = 4

\* Opcodes 00 to 3F.
LEMMA Rows00Cycles ==
  ASSUME NEW y, NEW z
  PROVE  Charges(Rows00(y, z))
BY DEF Charges, Rows00, Null, Ins, MemoryOr

\* Opcodes 40 to 7F.
LEMMA Rows01Cycles ==
  ASSUME NEW y, NEW z
  PROVE  Charges(Rows01(y, z))
BY DEF Charges, Rows01, Null, Ins, MemoryOr

\* The rows of the arithmetic templates.
LEMMA ArithmeticCycles ==
  ASSUME NEW y \in 0..7, NEW operand, NEW cycles \in {4, 8}
  PROVE  Charges(ArithmeticRow(y, operand, cycles))
<1>1. Arithmetic[y + 1] \in {"Add", "AddCarry", "Sub", "SubCarry", "And", "Xor", "Or", "Compare"}
  BY DEF Arithmetic
<1> QED
  BY <1>1 DEF Charges, ArithmeticRow, Ins

\* Opcodes 80 to BF.
LEMMA Rows10Cycles ==
  ASSUME NEW y \in 0..7, NEW z
  PROVE  Charges(Rows10(y, z))
BY ArithmeticCycles DEF Rows10, MemoryOr

\* Opcodes C0 to FF.
LEMMA Rows11Cycles ==
  ASSUME NEW y \in 0..7, NEW z
  PROVE  Charges(Rows11(y, z))
<1>1. Charges(ArithmeticRow(y, "D8", 8))
  BY ArithmeticCycles
<1> QED
  BY <1>1 DEF Charges, Rows11, Null, Ins

\* Every opcode.
LEMMA InstructionCycles ==
  ASSUME NEW op \in Byte
  PROVE  Charges(instructions[op])
<1> DEFINE y == (op \div 8) % 8
<1> DEFINE z == op % 8
<1>1. op \in 0..\hFF
  BY InByte
<1>2. \/ op \in \h00..\h3F \/ op \in \h40..\h7F \/ op \in \h80..\hBF \/ op \in \hC0..\hFF
  BY InByte
<1>3. instructions[op] = CASE op \in \h00..\h3F -> Rows00(y, z)
                           [] op \in \h40..\h7F -> Rows01(y, z)
                           [] op \in \h80..\hBF -> Rows10(y, z)
                           [] op \in \hC0..\hFF -> Rows11(y, z)
  BY <1>1 DEF instructions
<1>5. y \in 0..7
  BY <1>1
<1> HIDE DEF y, z
<1>4. instructions[op] \in {Rows00(y, z), Rows01(y, z), Rows10(y, z), Rows11(y, z)}
  BY <1>2, <1>3
<1> QED
  BY <1>4, <1>5, Rows00Cycles, Rows01Cycles, Rows10Cycles, Rows11Cycles

\* The four quarters of the table behind the prefix.
LEMMA ExtendedRowCycles ==
  ASSUME NEW y, NEW r
  PROVE  /\ ExtRows00(y, r).cycles \in {8, 12, 16} /\ ExtRows01(y, r).cycles \in {8, 12, 16}
         /\ ExtRows10(y, r).cycles \in {8, 12, 16} /\ ExtRows11(y, r).cycles \in {8, 12, 16}
BY DEF ExtRows00, ExtRows01, ExtRows10, ExtRows11, ExtendedCycles, Ins

\* Every opcode behind the prefix.
LEMMA ExtendedInstructionCycles ==
  ASSUME NEW op \in Byte
  PROVE  extended_instructions[op].cycles \in {8, 12, 16}
<1> DEFINE y == (op \div 8) % 8
<1> DEFINE r == Operand8[(op % 8) + 1]
<1>1. op \in 0..\hFF
  BY InByte
<1>2. \/ op \in \h00..\h3F \/ op \in \h40..\h7F \/ op \in \h80..\hBF \/ op \in \hC0..\hFF
  BY InByte
<1>3. extended_instructions[op] = CASE op \in \h00..\h3F -> ExtRows00(y, r)
                                    [] op \in \h40..\h7F -> ExtRows01(y, r)
                                    [] op \in \h80..\hBF -> ExtRows10(y, r)
                                    [] op \in \hC0..\hFF -> ExtRows11(y, r)
  BY <1>1 DEF extended_instructions
<1> HIDE DEF y, r
<1>4. extended_instructions[op] \in
        {ExtRows00(y, r), ExtRows01(y, r), ExtRows10(y, r), ExtRows11(y, r)}
  BY <1>2, <1>3
<1> QED
  BY <1>4, ExtendedRowCycles

-----------------------------------------------------------------------------
(* process() *)

\* The opcode read is a byte.
LEMMA FetchType ==
  ASSUME NEW s, StateOK(s)
  PROVE  Fetch(s).val \in Byte /\ StateOK(Fetch(s).st)
<1>1. s.pc \in Word /\ StateOK(SetPc(s.pc + 1, s))
  BY Members, WordSteps, SetPcType
<1> QED
  BY <1>1, GetMemoryByteType DEF Fetch

\* A prefixed instruction.
LEMMA ProcessCbType ==
  ASSUME NEW s, StateOK(s)
  PROVE  StateOK(process_cb(s))
<1> DEFINE fetched == Fetch(s)
<1>1. fetched.val \in Byte /\ StateOK(fetched.st)
  BY FetchType
<1> HIDE DEF fetched
<1> DEFINE row == extended_instructions[fetched.val]
<1>2. row.cycles \in Int
  BY <1>1, ExtendedInstructionCycles
<1> HIDE DEF row
<1>3. StateOK(Bit(row.args[1], row.args[2], fetched.st))
  BY <1>1, BitType
<1>4. StateOK(RotateLeft(row.args[1], fetched.st))
  BY <1>1, RotateLeftType
<1>5. StateOK(Then(fetched.st, panic(fetched.st)))
  BY <1>1, PanicType DEF Then
<1> DEFINE done == CASE row.op = "Bit"        -> Bit(row.args[1], row.args[2], fetched.st)
                     [] row.op = "RotateLeft" -> RotateLeft(row.args[1], fetched.st)
                     [] OTHER                 -> Then(fetched.st, panic(fetched.st))
<1>6. StateOK(done)
  BY <1>3, <1>4, <1>5
<1> HIDE DEF done
<1>7. StateOK(Charge(row.cycles, done))
  BY <1>2, <1>6, ChargeType
<1> QED
  BY <1>7 DEF process_cb, done, row, fetched

\* The object an unconditional branch copies has its members in their ranges.
LEMMA BeforeCopyType ==
  ASSUME TypeOK
  PROVE  StateOK(BeforeCopy) /\ StateOK(crash(BeforeCopy))
<1>1. StateOK(Fetched.st)
  BY FetchType DEF Fetched, TypeOK
<1>2. StateOK(Get(Arg2, Fetched.st).st)
  BY <1>1, GetType DEF ValueOK
<1>3. StateOK(BeforeCopy)
  BY <1>1, <1>2 DEF BeforeCopy
<1> QED
  BY <1>3, PanicType

\* Every step of the machine keeps the members in the ranges of their types.
LEMMA StepType ==
  ASSUME TypeOK, [Next]_state
  PROVE  TypeOK'
<1> USE DEF TypeOK
<1>1. StateOK(Fetched.st) /\ Fetched.val \in Byte
  BY FetchType DEF Fetched
<1>2. ASSUME NEW s, StateOK(s), Retire(s)
      PROVE  StateOK(state')
  <2>1. Current.cycles \in Int
    BY <1>1, InstructionCycles DEF Current, Charges
  <2>2. StateOK(Charge(Current.cycles, s))
    BY <1>2, <2>1, ChargeType
  <2> QED BY <1>2, <2>2 DEF Retire
<1>3. CASE ExecNop
  BY <1>1, <1>2, <1>3 DEF ExecNop
<1>4. CASE ExecAdd
  BY <1>1, <1>2, <1>4, AddType DEF ExecAdd
<1>5. CASE ExecSub
  BY <1>1, <1>2, <1>5, SubType DEF ExecSub
<1>6. CASE ExecXor
  BY <1>1, <1>2, <1>6, XorType DEF ExecXor
<1>7. CASE ExecCompare
  BY <1>1, <1>2, <1>7, CompareType DEF ExecCompare
<1>8. CASE ExecInc
  BY <1>1, <1>2, <1>8, IncType DEF ExecInc
<1>9. CASE ExecDec
  BY <1>1, <1>2, <1>9, DecType DEF ExecDec
<1>10. CASE ExecLoad
  BY <1>1, <1>2, <1>10, LoadType DEF ExecLoad
<1>11. CASE ExecJumpRelative
  BY <1>1, <1>2, <1>11, JumpRelativeType DEF ExecJumpRelative
<1>12. CASE ExecJump
  BY <1>1, <1>2, <1>12, JumpType DEF ExecJump
<1>13. CASE ExecPush
  BY <1>1, <1>2, <1>13, PushType DEF ExecPush
<1>14. CASE ExecPop
  BY <1>1, <1>2, <1>14, PopType DEF ExecPop
<1>15. CASE ExecCall
  BY <1>1, <1>2, <1>15, CallType DEF ExecCall
<1>16. CASE ExecRet
  BY <1>1, <1>2, <1>16, RetType DEF ExecRet
<1>17. CASE ExecPrefixCB
  BY <1>1, <1>2, <1>17, ProcessCbType DEF ExecPrefixCB
<1>18. CASE ExecUnimplemented
  BY <1>1, <1>18, PanicType DEF ExecUnimplemented
<1>19. CASE FetchFails
  BY <1>1, <1>19 DEF FetchFails
<1>20. CASE Exited
  BY <1>20 DEF Exited
<1>21. CASE UNCHANGED state
  BY <1>21
<1>22. CASE CopyFails
  BY <1>22, BeforeCopyType DEF CopyFails
<1> QED
  BY <1>3, <1>4, <1>5, <1>6, <1>7, <1>8, <1>9, <1>10, <1>11, <1>12, <1>13, <1>14, <1>15,
     <1>16, <1>17, <1>18, <1>19, <1>20, <1>21, <1>22 DEF Next, process

\* The members of the object keep the ranges of their C++ types, nothing is stored past
\* the end of an array, and the machine is running or has exited in one of two known
\* ways, whatever the cartridge, the boot image, the registers it starts from, the size
\* of the internal RAM and the width of the cycle counter.  The theorem does not say
\* that every read is in range: the cartridge's vector is indexed unchecked, and a read
\* that reaches nothing there is the fault "crashed".
THEOREM TypeCorrect == Spec => []TypeOK
<1>1. Init => TypeOK
  BY LoadedType, CartridgesAssumption, CpusAssumption DEF Init, TypeOK
<1>2. TypeOK /\ [Next]_state => TypeOK'
  BY StepType
<1> QED
  BY <1>1, <1>2, PTL DEF Spec

-----------------------------------------------------------------------------
(* The cycle counter *)

\* Registers, flags and memory are written without it.
LEMMA ClockKept ==
  ASSUME NEW s, StateOK(s)
  PROVE  /\ \A v : SetPc(v, s).cycles = s.cycles
         /\ \A v : SetSp(v, s).cycles = s.cycles
         /\ \A f : SetFlags(f, s).cycles = s.cycles
         /\ \A p, v : SetPair(p, v, s).cycles = s.cycles
         /\ \A x : AfterAccess(x, s).cycles = s.cycles
         /\ \A a : get_memory_byte(a, s).st.cycles = s.cycles
         /\ panic(s).cycles = s.cycles /\ crash(s).cycles = s.cycles
<1>1. \A v : SetPc(v, s).cycles = s.cycles /\ SetSp(v, s).cycles = s.cycles
  BY DEF SetPc, SetSp, Then, StateOK
<1>2. \A f : SetFlags(f, s).cycles = s.cycles
  BY DEF SetFlags, Then, StateOK
<1>3. \A p, v : SetPair(p, v, s).cycles = s.cycles
  BY DEF SetPair, Then, StateOK
<1>4. \A x : AfterAccess(x, s).cycles = s.cycles
  BY <1>3 DEF AfterAccess
<1>5. \A a : get_memory_byte(a, s).st.cycles = s.cycles
  BY DEF get_memory_byte, Then, StateOK
<1>6. panic(s).cycles = s.cycles /\ crash(s).cycles = s.cycles
  BY DEF panic, crash, StateOK
<1> QED
  BY <1>1, <1>2, <1>3, <1>4, <1>5, <1>6

\* Operand bytes are read without it,
LEMMA ImmediateClock ==
  ASSUME NEW s, StateOK(s)
  PROVE  D8(s).st.cycles = s.cycles /\ D16(s).st.cycles = s.cycles
<1>1. ASSUME NEW t, StateOK(t) PROVE D8(t).st.cycles = t.cycles
  <2>1. t.pc \in Word
    BY <1>1, Members
  <2>2. StateOK(get_memory_byte(t.pc, t).st) /\ get_memory_byte(t.pc, t).st.cycles = t.cycles
    BY <1>1, <2>1, GetMemoryByteType, ClockKept
  <2>3. SetPc(t.pc + 1, get_memory_byte(t.pc, t).st).cycles = t.cycles
    BY <2>2, ClockKept
  <2> QED BY <2>3 DEF D8, Value
<1>2. StateOK(D8(s).st)
  BY D8Type
<1>3. D8(s).st.cycles = s.cycles /\ D8(D8(s).st).st.cycles = s.cycles
  BY <1>1, <1>2
<1> QED
  BY <1>3 DEF D16, Value

\* and so is every operand.
LEMMA GetClock ==
  ASSUME NEW s, StateOK(s), NEW x
  PROVE  Get(x, s).st.cycles = s.cycles
<1>1. D8(s).st.cycles = s.cycles /\ D16(s).st.cycles = s.cycles /\ StateOK(D16(s).st)
  BY ImmediateClock, D16Type DEF ValueOK
<1>2. get_memory_byte(D16(s).val, D16(s).st).st.cycles = s.cycles
  BY <1>1, ClockKept
<1>3. ASSUME NEW read, read = get_memory_byte(Address(x, s), s)
      PROVE  AfterAccess(x, read.st).cycles = s.cycles
  <2>1. StateOK(read.st) /\ read.st.cycles = s.cycles
    BY <1>3, AddressType, GetMemoryByteType, ClockKept
  <2> QED BY <2>1, ClockKept
<1>4. Then(s, panic(s)).cycles = s.cycles
  BY ClockKept DEF Then
<1> QED
  BY <1>1, <1>2, <1>3, <1>4 DEF Get, Value

\* Results are stored without it.
LEMMA SetClock ==
  ASSUME NEW s, StateOK(s), NEW x, NEW v \in Int
  PROVE  Set(x, v, s).cycles = s.cycles
<1>1. uint8(v) \in Byte
  BY Conversions
<1>2. Then(s, [s EXCEPT !.reg[x] = uint8(v)]).cycles = s.cycles
  BY DEF Then, StateOK
<1>3. SetPair(x, v, s).cycles = s.cycles /\ SetSp(v, s).cycles = s.cycles
  BY ClockKept
<1>4. set_memory_byte(D16(s).val, uint8(v), D16(s).st).cycles = s.cycles
  <2>1. D16(s).val \in Word /\ StateOK(D16(s).st) /\ D16(s).st.cycles = s.cycles
    BY D16Type, ImmediateClock DEF ValueOK
  <2> QED BY <1>1, <2>1, WriteKeepsCpu
<1>5. AfterAccess(x, set_memory_byte(Address(x, s), uint8(v), s)).cycles = s.cycles
  <2> DEFINE u == set_memory_byte(Address(x, s), uint8(v), s)
  <2>1. StateOK(u) /\ u.cycles = s.cycles
    BY <1>1, AddressType, SetMemoryByteType, WriteKeepsCpu
  <2> HIDE DEF u
  <2> QED BY <2>1, ClockKept DEF u
<1>6. Then(s, panic(s)).cycles = s.cycles
  BY ClockKept DEF Then
<1> QED
  BY <1>2, <1>3, <1>4, <1>5, <1>6 DEF Set

\* The operations that store a result or the flags.
LEMMA ResultClock ==
  ASSUME NEW s, StateOK(s), NEW x, NEW result \in Int, NEW flags \in SUBSET FlagNames
  PROVE  Set(x, result, SetFlags(flags, s)).cycles = s.cycles
<1>1. StateOK(SetFlags(flags, s)) /\ SetFlags(flags, s).cycles = s.cycles
  BY SetFlagsType, ClockKept
<1> QED
  BY <1>1, SetClock

\* Each of them.
LEMMA OperationClock ==
  ASSUME NEW s, StateOK(s), NEW to, NEW x, NEW N
  PROVE  /\ Add(to, x, s).cycles = s.cycles
         /\ Sub(x, s).cycles = s.cycles /\ Xor(x, s).cycles = s.cycles
         /\ Compare(x, s).cycles = s.cycles
         /\ Inc(x, s).cycles = s.cycles /\ Dec(x, s).cycles = s.cycles
         /\ Load(to, x, s).cycles = s.cycles
         /\ Bit(N, x, s).cycles = s.cycles /\ RotateLeft(x, s).cycles = s.cycles
<1> DEFINE f == Get(x, s)
<1>1. /\ f.val \in Word /\ f.val \in Int /\ StateOK(f.st) /\ f.st.cycles = s.cycles
      /\ f.st.reg["A"] \in Byte /\ f.st.flags \in SUBSET FlagNames
  BY Operand, WordSteps, GetClock
<1> HIDE DEF f
<1>2. Add(to, x, s).cycles = s.cycles
  <2> DEFINE t == Get(to, f.st)
  <2>1. t.val \in Word /\ StateOK(t.st) /\ t.st.cycles = s.cycles
    BY <1>1, Operand, GetClock
  <2>2. AluAdd(t.val, f.val).result \in Int /\ AluAdd(t.val, f.val).flags \in SUBSET FlagNames
    BY <1>1, <2>1, AluAddType
  <2> HIDE DEF t
  <2>3. Set(to, AluAdd(t.val, f.val).result, SetFlags(AluAdd(t.val, f.val).flags, t.st)).cycles
          = s.cycles
    BY <2>1, <2>2, ResultClock
  <2> QED BY <2>3 DEF Add, f, t
<1>3. Sub(x, s).cycles = s.cycles
  <2> DEFINE alu == AluSub(f.st.reg["A"], f.val)
  <2>1. alu.result \in Int /\ alu.flags \in SUBSET FlagNames
    BY <1>1, AluSubType
  <2> HIDE DEF alu
  <2>2. Set("A", alu.result, SetFlags(alu.flags, f.st)).cycles = s.cycles
    BY <1>1, <2>1, ResultClock
  <2> QED BY <2>2 DEF Sub, f, alu
<1>4. Xor(x, s).cycles = s.cycles
  <2> DEFINE alu == AluXor(f.st.reg["A"], f.val)
  <2>1. alu.result \in Int /\ alu.flags \in SUBSET FlagNames
    BY <1>1, AluXorType
  <2> HIDE DEF alu
  <2>2. Set("A", alu.result, SetFlags(alu.flags, f.st)).cycles = s.cycles
    BY <1>1, <2>1, ResultClock
  <2> QED BY <2>2 DEF Xor, f, alu
<1>5. Compare(x, s).cycles = s.cycles
  BY <1>1, ClockKept DEF Compare, f
<1>6. Inc(x, s).cycles = s.cycles
  <2> DEFINE alu == AluInc(f.val, f.st.flags)
  <2>1. alu.result \in Int /\ alu.flags \in SUBSET FlagNames
    BY <1>1, AluIncType
  <2> HIDE DEF alu
  <2>2. Set(x, alu.result, SetFlags(alu.flags, f.st)).cycles = s.cycles
    BY <1>1, <2>1, ResultClock
  <2> QED BY <2>2 DEF Inc, f, alu
<1>7. Dec(x, s).cycles = s.cycles
  <2> DEFINE alu == AluDec(f.val, f.st.flags)
  <2>1. alu.result \in Int /\ alu.flags \in SUBSET FlagNames
    BY <1>1, AluDecType
  <2> HIDE DEF alu
  <2>2. Set(x, alu.result, SetFlags(alu.flags, f.st)).cycles = s.cycles
    BY <1>1, <2>1, ResultClock
  <2> QED BY <2>2 DEF Dec, f, alu
<1>8. Load(to, x, s).cycles = s.cycles
  BY <1>1, SetClock DEF Load, f
<1>9. Bit(N, x, s).cycles = s.cycles
  BY <1>1, ClockKept DEF Bit, f
<1>10. RotateLeft(x, s).cycles = s.cycles
  <2> DEFINE alu == AluRotateLeft(f.val, f.st.flags)
  <2>1. alu.result \in Int /\ alu.flags \in SUBSET FlagNames
    BY <1>1, AluRotateLeftType
  <2> HIDE DEF alu
  <2>2. Set(x, alu.result, SetFlags(alu.flags, f.st)).cycles = s.cycles
    BY <1>1, <2>1, ResultClock
  <2> QED BY <2>2 DEF RotateLeft, f, alu
<1> QED
  BY <1>2, <1>3, <1>4, <1>5, <1>6, <1>7, <1>8, <1>9, <1>10

\* Words go to the stack and come from it without it.
LEMMA StackClock ==
  ASSUME NEW s, StateOK(s)
  PROVE  /\ \A w \in Word : PushWord(w, s).cycles = s.cycles
         /\ PopWord(s).st.cycles = s.cycles
<1>1. /\ s.sp \in Word /\ s.sp \in Int
      /\ uint16(s.sp - 1) \in Word /\ uint16(s.sp + 1) \in Word /\ uint16(s.sp + 2) \in Word
  BY Members, WordSteps, Conversions
<1>2. ASSUME NEW w \in Word
      PROVE  PushWord(w, s).cycles = s.cycles
  <2> DEFINE low == set_memory_byte(s.sp, Lo(w), s)
  <2> DEFINE high == set_memory_byte(uint16(s.sp - 1), Hi(w), low)
  <2>1. Lo(w) \in Byte /\ Hi(w) \in Byte
    BY WordBytes
  <2>2. StateOK(low) /\ low.cycles = s.cycles
    <3>1. StateOK(low)
      BY <1>1, <2>1, SetMemoryByteType
    <3> QED BY <1>1, <2>1, <3>1, WriteKeepsCpu
  <2> HIDE DEF low
  <2>3. StateOK(high) /\ high.cycles = s.cycles
    <3>1. StateOK(high)
      BY <1>1, <2>1, <2>2, SetMemoryByteType
    <3>2. high.cycles = low.cycles
      BY <1>1, <2>1, <2>2, WriteKeepsCpu
    <3> QED BY <2>2, <3>1, <3>2
  <2> HIDE DEF high
  <2>4. SetSp(s.sp - 2, high).cycles = s.cycles
    BY <2>3, ClockKept
  <2> QED BY <2>4 DEF PushWord, high, low
<1>3. PopWord(s).st.cycles = s.cycles
  <2> DEFINE high == get_memory_byte(uint16(s.sp + 1), s)
  <2> DEFINE low == get_memory_byte(uint16(s.sp + 2), high.st)
  <2>1. StateOK(high.st) /\ high.st.cycles = s.cycles
    BY <1>1, GetMemoryByteType, ClockKept
  <2> HIDE DEF high
  <2>2. StateOK(low.st) /\ low.st.cycles = s.cycles
    BY <1>1, <2>1, GetMemoryByteType, ClockKept
  <2> HIDE DEF low
  <2>3. SetSp(s.sp + 2, low.st).cycles = s.cycles
    BY <2>2, ClockKept
  <2> QED BY <2>3 DEF PopWord, Value, high, low
<1> QED
  BY <1>2, <1>3

\* t has n cycles more than s if it still runs: the counter wraps at most once in an
\* instruction.
Spent(n, s, t) ==
  t.status = "running" => t.cycles \in {s.cycles + n, s.cycles + n - CycleMod}

\* A sum modulo N,
LEMMA Wraps ==
  ASSUME NEW N \in Nat \ {0}, NEW r \in Int, 0 <= r, r < 2 * N
  PROVE  r % N \in {r, r - N}
<1>1. CASE r < N
  BY <1>1
<1>2. CASE N <= r
  BY <1>2
<1> QED
  BY <1>1, <1>2

\* and the difference of two that wrapped.
LEMMA Unwraps ==
  ASSUME NEW N \in Nat \ {0}, NEW n \in 0..(N - 1), NEW d \in {n, n - N}
  PROVE  d % N = n
<1>1. CASE d = n
  BY <1>1
<1>2. CASE d = n - N
  <2>1. d \in Int /\ 0 - N <= d /\ d < 0 /\ N \in Nat \ {0}
    BY <1>2
  <2>2. d % N = d + N
    BY <2>1
  <2> QED BY <1>2, <2>2
<1> QED
  BY <1>1, <1>2

\* Charging adds.
LEMMA ChargeSpends ==
  ASSUME CycleMod > 24, NEW s, StateOK(s), NEW m \in 0..24, NEW n \in 0..24, m + n <= 24,
         NEW t, StateOK(t), Spent(m, s, t)
  PROVE  Spent(m + n, s, Charge(n, t))
<1>1. /\ s.cycles \in 0..(CycleMod - 1) /\ t.cycles \in 0..(CycleMod - 1)
      /\ CycleMod \in Nat \ {0}
  BY CycleModAssumption DEF StateOK
<1>2. CASE t.status # "running"
  BY <1>2 DEF Charge, Then, Spent
<1>3. CASE t.status = "running"
  <2>1. Charge(n, t).cycles = (t.cycles + n) % CycleMod
    BY <1>3 DEF Charge, Then, StateOK
  <2>2. (t.cycles + n) % CycleMod \in {t.cycles + n, t.cycles + n - CycleMod}
    BY <1>1, Wraps
  <2>3. (t.cycles + n) % CycleMod \in 0..(CycleMod - 1)
    BY <1>1
  <2>4. t.cycles \in {s.cycles + m, s.cycles + m - CycleMod}
    BY <1>3 DEF Spent
  <2>5. ASSUME NEW a \in Int, NEW b \in Int, NEW c \in Int, 0 <= a, 0 <= c, c < CycleMod,
               a < CycleMod, b \in {a + m, a + m - CycleMod}, c \in {b + n, b + n - CycleMod}
        PROVE  c \in {a + (m + n), a + (m + n) - CycleMod}
    <3>1. c = a + (m + n) \/ c = a + (m + n) - CycleMod \/ c = a + (m + n) - 2 * CycleMod
      BY <1>1, <2>5
    <3> QED BY <1>1, <2>5, <3>1
  <2>6. (t.cycles + n) % CycleMod \in {s.cycles + (m + n), s.cycles + (m + n) - CycleMod}
    BY <1>1, <2>2, <2>3, <2>4, <2>5
  <2> QED BY <2>1, <2>6 DEF Spent
<1> QED
  BY <1>2, <1>3

\* An object with the same counter has spent nothing.
LEMMA SpentNothing ==
  ASSUME NEW s, StateOK(s), NEW t, t.cycles = s.cycles
  PROVE  Spent(0, s, t)
BY DEF Spent, StateOK

\* A branch spends more when it is taken.
LEMMA BranchSpends ==
  ASSUME CycleMod > 24, NEW s, StateOK(s), NEW condition, NEW field
  PROVE  /\ \E n \in {0, 4} : Spent(n, s, JumpRelative(condition, field, s))
         /\ \E n \in {0, 4} : Spent(n, s, Jump(condition, field, s))
         /\ \E n \in {0, 12} : Spent(n, s, Call(condition, field, s))
         /\ \E n \in {0, 12} : Spent(n, s, Ret(condition, s))
<1> DEFINE f == Get(field, s)
<1>1. /\ f.val \in Word /\ f.val \in Int /\ f.st.pc \in Word /\ StateOK(f.st)
      /\ Spent(0, s, f.st) /\ f.st.cycles = s.cycles
  BY Operand, WordSteps, GetClock, SpentNothing
<1> HIDE DEF f
<1>2. ASSUME NEW t, StateOK(t), t.cycles = s.cycles, NEW n \in {4, 12}
      PROVE  StateOK(Charge(n, t)) /\ Spent(n, s, Charge(n, t))
  <2>1. Spent(0, s, t) /\ 0 + n = n /\ n \in 0..24 /\ n \in Int
    BY <1>2, SpentNothing
  <2>2. Spent(0 + n, s, Charge(n, t))
    BY <1>2, <2>1, ChargeSpends
  <2> QED BY <1>2, <2>1, <2>2, ChargeType
<1>3. ASSUME NEW t, StateOK(t), Spent(4, s, t), NEW v
      PROVE  Spent(4, s, SetPc(v, t))
  BY <1>3, ClockKept DEF Spent, SetPc, Then, StateOK
<1>4. \A v : Spent(4, s, SetPc(v, Charge(4, f.st)))
  BY <1>1, <1>2, <1>3
<1>5. \E n \in {0, 4} : Spent(n, s, JumpRelative(condition, field, s))
  BY <1>1, <1>4 DEF JumpRelative, f
<1>6. \E n \in {0, 4} : Spent(n, s, Jump(condition, field, s))
  BY <1>1, <1>4 DEF Jump, f
<1>7. \E n \in {0, 12} : Spent(n, s, Call(condition, field, s))
  <2> DEFINE jumped == SetPc(f.val, f.st)
  <2> DEFINE pushed == PushWord(f.st.pc, jumped)
  <2>1. StateOK(jumped) /\ jumped.cycles = s.cycles
    BY <1>1, SetPcType, ClockKept
  <2> HIDE DEF jumped
  <2>2. StateOK(pushed) /\ pushed.cycles = s.cycles
    BY <1>1, <2>1, PushWordType, StackClock
  <2> HIDE DEF pushed
  <2>3. Spent(12, s, Charge(12, pushed))
    BY <1>2, <2>2
  <2> QED BY <1>1, <2>3 DEF Call, f, jumped, pushed
<1>8. \E n \in {0, 12} : Spent(n, s, Ret(condition, s))
  <2> DEFINE p == PopWord(s)
  <2>1. p.val \in Int /\ StateOK(p.st) /\ p.st.cycles = s.cycles
    BY PopWordType, WordSteps, StackClock
  <2> HIDE DEF p
  <2>2. StateOK(SetPc(p.val, p.st)) /\ SetPc(p.val, p.st).cycles = s.cycles
    BY <2>1, SetPcType, ClockKept
  <2>3. Spent(12, s, Charge(12, SetPc(p.val, p.st)))
    BY <1>2, <2>2
  <2>4. Spent(0, s, s)
    BY SpentNothing
  <2> QED BY <2>3, <2>4 DEF Ret, p
<1> QED
  BY <1>5, <1>6, <1>7, <1>8

\* A row behind the prefix spends what it says.
LEMMA PrefixSpends ==
  ASSUME CycleMod > 24, NEW s, StateOK(s)
  PROVE  \E n \in {8, 12, 16} : Spent(n, s, process_cb(s))
<1> DEFINE fetched == Fetch(s)
<1>1. fetched.val \in Byte /\ StateOK(fetched.st) /\ fetched.st.cycles = s.cycles
  <2>1. s.pc \in Word /\ StateOK(SetPc(s.pc + 1, s)) /\ SetPc(s.pc + 1, s).cycles = s.cycles
    BY Members, WordSteps, SetPcType, ClockKept
  <2>2. get_memory_byte(s.pc, SetPc(s.pc + 1, s)).st.cycles = s.cycles
    BY <2>1, ClockKept
  <2> QED BY <2>2, FetchType DEF Fetch
<1> HIDE DEF fetched
<1> DEFINE row == extended_instructions[fetched.val]
<1>2. row.cycles \in {8, 12, 16}
  BY <1>1, ExtendedInstructionCycles
<1> HIDE DEF row
<1> DEFINE done == CASE row.op = "Bit"        -> Bit(row.args[1], row.args[2], fetched.st)
                     [] row.op = "RotateLeft" -> RotateLeft(row.args[1], fetched.st)
                     [] OTHER                 -> Then(fetched.st, panic(fetched.st))
<1>3. /\ StateOK(Bit(row.args[1], row.args[2], fetched.st))
      /\ Bit(row.args[1], row.args[2], fetched.st).cycles = s.cycles
  BY <1>1, BitType, OperationClock
<1>4. /\ StateOK(RotateLeft(row.args[1], fetched.st))
      /\ RotateLeft(row.args[1], fetched.st).cycles = s.cycles
  BY <1>1, RotateLeftType, OperationClock
<1>5. /\ StateOK(Then(fetched.st, panic(fetched.st)))
      /\ Then(fetched.st, panic(fetched.st)).cycles = s.cycles
  BY <1>1, PanicType, ClockKept DEF Then
<1>6. StateOK(done) /\ done.cycles = s.cycles
  BY <1>3, <1>4, <1>5
<1> HIDE DEF done
<1>7. Spent(0 + row.cycles, s, Charge(row.cycles, done))
  BY <1>2, <1>6, SpentNothing, ChargeSpends
<1>8. 0 + row.cycles = row.cycles
  BY <1>2
<1> QED
  BY <1>2, <1>7, <1>8 DEF process_cb, done, row, fetched

\* The fetch leaves the counter alone.
LEMMA FetchedClock ==
  ASSUME TypeOK
  PROVE  /\ StateOK(Fetched.st) /\ Fetched.st.cycles = state.cycles
         /\ Charges(Current)
<1>1. state.pc \in Word /\ StateOK(SetPc(state.pc + 1, state))
      /\ SetPc(state.pc + 1, state).cycles = state.cycles
  BY Members, WordSteps, SetPcType, ClockKept DEF TypeOK
<1>2. get_memory_byte(state.pc, SetPc(state.pc + 1, state)).st.cycles = state.cycles
  BY <1>1, ClockKept
<1>3. Fetched.val \in Byte /\ StateOK(Fetched.st)
  BY FetchType DEF Fetched, TypeOK
<1> QED
  BY <1>2, <1>3, InstructionCycles DEF Fetched, Fetch, Current

\* A step of process() that returns has charged its row and, of a taken branch or the
\* prefix, the rest.
LEMMA StepSpends ==
  ASSUME CycleMod > 24, TypeOK, process, state'.status = "running"
  PROVE  \E n \in {4, 8, 12, 16, 20, 24} : Spent(n, state, state')
<1> DEFINE s == Fetched.st
<1>1. StateOK(s) /\ s.cycles = state.cycles /\ Charges(Current) /\ StateOK(state)
  BY FetchedClock DEF TypeOK
<1> HIDE DEF s
<1>2. ASSUME NEW t, StateOK(t), NEW m \in {0, 4, 8, 12, 16}, Spent(m, s, t), Retire(t),
             Current.op # "null",
             \/ m = 0
             \/ m <= 12 /\ Current.op \in {"JumpRelative", "Jump", "Call", "Ret"}
             \/ Current.op = "PrefixCB"
      PROVE  \E n \in {4, 8, 12, 16, 20, 24} : Spent(n, state, state')
  <2> DEFINE c == Current.cycles
  <2>1. c \in {4, 8, 12, 16} /\ (m # 0 => c <= 12) /\ (m = 16 => c = 4)
    BY <1>1, <1>2 DEF Charges
  <2> HIDE DEF c
  <2>2. m + c \in {4, 8, 12, 16, 20, 24} /\ m \in 0..24 /\ c \in 0..24 /\ m + c <= 24
    BY <1>2, <2>1
  <2>3. Spent(m, state, t)
    BY <1>1, <1>2 DEF Spent
  <2>4. Spent(m + c, state, Charge(c, t))
    BY <1>1, <1>2, <2>2, <2>3, ChargeSpends
  <2> QED BY <1>2, <2>2, <2>4 DEF Retire, c
\* Operations that charge nothing themselves.
<1>3. ASSUME NEW t, StateOK(t), t.cycles = s.cycles, Retire(t), Current.op # "null"
      PROVE  \E n \in {4, 8, 12, 16, 20, 24} : Spent(n, state, state')
  BY <1>1, <1>2, <1>3, SpentNothing
<1>4. CASE ExecNop
  BY <1>1, <1>3, <1>4 DEF ExecNop, Ready, s
<1>5. CASE ExecAdd
  BY <1>1, <1>3, <1>5, AddType, OperationClock DEF ExecAdd, Ready, s
<1>6. CASE ExecSub
  BY <1>1, <1>3, <1>6, SubType, OperationClock DEF ExecSub, Ready, s
<1>7. CASE ExecXor
  BY <1>1, <1>3, <1>7, XorType, OperationClock DEF ExecXor, Ready, s
<1>8. CASE ExecCompare
  BY <1>1, <1>3, <1>8, CompareType, OperationClock DEF ExecCompare, Ready, s
<1>9. CASE ExecInc
  BY <1>1, <1>3, <1>9, IncType, OperationClock DEF ExecInc, Ready, s
<1>10. CASE ExecDec
  BY <1>1, <1>3, <1>10, DecType, OperationClock DEF ExecDec, Ready, s
<1>11. CASE ExecLoad
  BY <1>1, <1>3, <1>11, LoadType, OperationClock DEF ExecLoad, Ready, s
<1>12. CASE ExecPush
  BY <1>1, <1>3, <1>12, PushType, Operand, StackClock DEF ExecPush, Push, Ready, s
<1>13. CASE ExecPop
  <2>1. StateOK(PopWord(s).st) /\ PopWord(s).val \in Int /\ PopWord(s).st.cycles = s.cycles
    BY <1>1, PopWordType, WordSteps, StackClock
  <2>2. StateOK(Pop(Arg1, s)) /\ Pop(Arg1, s).cycles = s.cycles
    BY <1>1, <2>1, PopType, SetClock DEF Pop
  <2> QED BY <1>3, <1>13, <2>2 DEF ExecPop, Ready, s
<1>14. CASE ExecJumpRelative
  <2>1. PICK n \in {0, 4} : Spent(n, s, JumpRelative(Arg1, Arg2, s))
    BY <1>1, BranchSpends
  <2> QED BY <1>1, <1>2, <1>14, <2>1, JumpRelativeType DEF ExecJumpRelative, Ready, s
<1>15. CASE ExecJump
  <2>1. PICK n \in {0, 4} : Spent(n, s, Jump(Arg1, Arg2, s))
    BY <1>1, BranchSpends
  <2> QED BY <1>1, <1>2, <1>15, <2>1, JumpType DEF ExecJump, Ready, s
<1>16. CASE ExecCall
  <2>1. PICK n \in {0, 12} : Spent(n, s, Call(Arg1, Arg2, s))
    BY <1>1, BranchSpends
  <2> QED BY <1>1, <1>2, <1>16, <2>1, CallType DEF ExecCall, Ready, s
<1>17. CASE ExecRet
  <2>1. PICK n \in {0, 12} : Spent(n, s, Ret(Arg1, s))
    BY <1>1, BranchSpends
  <2> QED BY <1>1, <1>2, <1>17, <2>1, RetType DEF ExecRet, Ready, s
<1>18. CASE ExecPrefixCB
  <2>1. PICK n \in {8, 12, 16} : Spent(n, s, process_cb(s))
    BY <1>1, PrefixSpends
  <2> QED BY <1>1, <1>2, <1>18, <2>1, ProcessCbType DEF ExecPrefixCB, Ready, s
<1>19. CASE ExecUnimplemented
  BY <1>1, <1>19 DEF ExecUnimplemented, panic, StateOK, s
<1>20. CASE FetchFails
  BY <1>20 DEF FetchFails
<1>21. CASE CopyFails
  BY <1>21, BeforeCopyType DEF CopyFails, crash, StateOK
<1> QED
  BY <1>4, <1>5, <1>6, <1>7, <1>8, <1>9, <1>10, <1>11, <1>12, <1>13, <1>14, <1>15, <1>16,
     <1>17, <1>18, <1>19, <1>20, <1>21 DEF process

\* A process() that returns has taken between 4 and 24 cycles, in fours, whatever the
\* program and wherever the counter wraps.
THEOREM ClockAdvances ==
  ASSUME CycleMod > 24
  PROVE  Spec => CyclesAdvance
<1>1. ASSUME TypeOK, [Next]_state, state'.status = "running", state' # state
      PROVE  (state'.cycles - state.cycles) % CycleMod \in {4, 8, 12, 16, 20, 24}
  <2>1. process /\ TypeOK'
    BY <1>1, StepType DEF Next, Exited
  <2>2. PICK n \in {4, 8, 12, 16, 20, 24} : Spent(n, state, state')
    BY <1>1, <2>1, StepSpends
  <2>3. state'.cycles - state.cycles \in {n, n - CycleMod} /\ n \in 0..(CycleMod - 1)
    BY <1>1, <2>1, <2>2, CycleModAssumption DEF Spent, TypeOK, StateOK
  <2>4. (state'.cycles - state.cycles) % CycleMod = n
    BY <2>3, Unwraps, CycleModAssumption
  <2> QED BY <2>2, <2>4
<1>2. TypeOK /\ [Next]_state
        => [state'.status = "running" =>
              (state'.cycles - state.cycles) % CycleMod \in {4, 8, 12, 16, 20, 24}]_state
  BY <1>1
<1> QED
  BY <1>2, TypeCorrect, PTL DEF Spec, CyclesAdvance
=============================================================================
