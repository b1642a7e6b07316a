------------------------------ MODULE Machine -------------------------------
(***************************************************************************)
(* The CPU: the operands and operations the instruction tables name, and   *)
(* State::process(), which main() calls in a loop.  One step of this       *)
(* specification is one call of process().                                 *)
(*                                                                         *)
(* Operands (Get, Set) and operations are operators on the record of       *)
(* MemoryMap, composed in the order the code evaluates them; there is one  *)
(* action for each operation template the main table uses.                 *)
(***************************************************************************)
EXTENDS MemoryMap, Alu, Decoder

CONSTANTS Cartridges,  \* what can be reached of the ROM file's vector
          Cpus         \* the registers the machine may start from

ASSUME CartridgesAssumption == \A rom \in Cartridges : IsArray(rom, RomSize)
ASSUME CpusAssumption       == Cpus \subseteq CpuType

VARIABLE state

-----------------------------------------------------------------------------
(* Registers *)

SetPcSlip(v, s) == Then(s, [s EXCEPT !.pc = v])     \* no wrap
SetPc(v, s)    == Then(s, [s EXCEPT !.pc = uint16(v)])
SetSpSlip(v, s) == Then(s, [s EXCEPT !.sp = v])     \* no wrap
SetSp(v, s)    == Then(s, [s EXCEPT !.sp = uint16(v)])
SetFlags(f, s) == Then(s, [s EXCEPT !.flags = f])
ChargeSlip(n, s) == Then(s, [s EXCEPT !.cycles = (@ + n) % \h100])     \* too narrow
Charge(n, s)   == Then(s, [s EXCEPT !.cycles = (@ + n) % CycleMod])

Pairs  == {"AF", "BC", "DE", "HL"}
High   == [AF |-> "A", BC |-> "B", DE |-> "D", HL |-> "H"]
Low    == [AF |-> "F", BC |-> "C", DE |-> "E", HL |-> "L"]

Pair(p, s) == Join(s.reg[High[p]], s.reg[Low[p]])
SetPairSlip(p, v, s) ==     \* the high byte lost
  Then(s, [s EXCEPT !.reg[Low[p]] = Lo(v)])

SetPair(p, v, s) ==
  Then(s, [s EXCEPT !.reg = [@ EXCEPT ![High[p]] = Hi(uint16(v)),
                                      ![Low[p]]  = Lo(v)]])

-----------------------------------------------------------------------------
(* Operands: the value read and the object after reading it *)

Value(v, s) == [val |-> v, st |-> s]

D8(s) == LET read == get_memory_byte(s.pc, s)
         IN  Value(read.val, SetPc(s.pc + 1, read.st))

D16(s) == LET first == D8(s)  second == D8(first.st)
          IN  Value(Join(second.val, first.val), second.st)

Pointers == {"PtrBC", "PtrDE", "PtrHL", "PtrC", "PtrHLIncr", "PtrHLDecr"}

AddressSlip1(x, s) == CASE x = "PtrBC" -> Pair("BC", s)     \* page FF forgotten
                        [] x = "PtrDE" -> Pair("DE", s)
                        [] x = "PtrC"  -> s.reg["C"]
                        [] OTHER       -> Pair("HL", s)

AddressSlip2(x, s) == CASE x = "PtrBC" -> Pair("DE", s)     \* BC and DE swapped
                        [] x = "PtrDE" -> Pair("BC", s)
                        [] x = "PtrC"  -> \hFF00 + s.reg["C"]
                        [] OTHER       -> Pair("HL", s)

Address(x, s) == CASE x = "PtrBC" -> Pair("BC", s)
                   [] x = "PtrDE" -> Pair("DE", s)
                   [] x = "PtrC"  -> \hFF00 + s.reg["C"]
                   [] OTHER       -> Pair("HL", s)

AfterAccessSlip(x, s) == IF x = "PtrHLIncr" THEN SetPair("HL", Pair("HL", s) + 1, s)
                         ELSE s     \* no decrement

\* The side effect of (HL+) and (HL-), after the access.
AfterAccess(x, s) == CASE x = "PtrHLIncr" -> SetPair("HL", Pair("HL", s) + 1, s)
                       [] x = "PtrHLDecr" -> SetPair("HL", Pair("HL", s) - 1, s)
                       [] OTHER           -> s

Get(x, s) ==
  CASE x \in Reg8     -> Value(s.reg[x], s)
    [] x \in Pairs    -> Value(Pair(x, s), s)
    [] x = "SP"       -> Value(s.sp, s)
    [] x = "D8"       -> D8(s)
    [] x = "D16"      -> D16(s)
    [] x = "SPR8"     -> Value(uint16(s.sp + int8(D8(s).val)), D8(s).st)
    [] x = "PtrD16"   -> get_memory_byte(D16(s).val, D16(s).st)
    [] x \in Pointers -> LET read == get_memory_byte(Address(x, s), s)
                         IN  Value(read.val, AfterAccess(x, read.st))
    [] OTHER          -> Value(0, Then(s, panic(s)))

Set(x, v, s) ==
  CASE x \in Reg8     -> Then(s, [s EXCEPT !.reg[x] = uint8(v)])
    [] x \in Pairs    -> SetPair(x, v, s)
    [] x = "SP"       -> SetSp(v, s)
    [] x = "PtrD16"   -> set_memory_byte(D16(s).val, uint8(v), D16(s).st)
    [] x \in Pointers -> AfterAccess(x, set_memory_byte(Address(x, s), uint8(v), s))
    [] OTHER          -> Then(s, panic(s))    \* D8, D16 and SPR8 are not written

is_true(condition, s) ==
  CASE condition = "NZ" -> "Zero"  \notin s.flags
    [] condition = "Z"  -> "Zero"  \in s.flags
    [] condition = "NC" -> "Carry" \notin s.flags
    [] condition = "C"  -> "Carry" \in s.flags
    [] OTHER            -> TRUE               \* Always

-----------------------------------------------------------------------------
(* Operations *)

Add(to, from, s) ==
  LET f == Get(from, s)  t == Get(to, f.st)  sum == AluAdd(t.val, f.val)
  IN  Set(to, sum.result, SetFlags(sum.flags, t.st))

Sub(from, s) ==
  LET f == Get(from, s)  difference == AluSub(f.st.reg["A"], f.val)
  IN  Set("A", difference.result, SetFlags(difference.flags, f.st))

Xor(field, s) ==
  LET f == Get(field, s)  xor == AluXor(f.st.reg["A"], f.val)
  IN  Set("A", xor.result, SetFlags(xor.flags, f.st))

Compare(field, s) ==
  LET f == Get(field, s) IN SetFlags(AluCompare(f.st.reg["A"], f.val), f.st)

Inc(field, s) ==
  LET f == Get(field, s)  sum == AluInc(f.val, f.st.flags)
  IN  Set(field, sum.result, SetFlags(sum.flags, f.st))

Dec(field, s) ==
  LET f == Get(field, s)  difference == AluDec(f.val, f.st.flags)
  IN  Set(field, difference.result, SetFlags(difference.flags, f.st))

Load(to, from, s) == LET f == Get(from, s) IN Set(to, f.val, f.st)

JumpRelativeSlip1(condition, field, s) ==     \* the taken branch not charged
  LET f == Get(field, s)
  IN  IF is_true(condition, f.st) THEN SetPc(f.st.pc + int8(f.val), f.st) ELSE f.st

JumpRelativeSlip2(condition, field, s) ==     \* operand read only when taken
  LET f == Get(field, s)
  IN  IF is_true(condition, s) THEN SetPc(f.st.pc + int8(f.val), Charge(4, f.st)) ELSE s

JumpRelative(condition, field, s) ==
  LET f == Get(field, s)
  IN  IF is_true(condition, f.st) THEN SetPc(f.st.pc + int8(f.val), Charge(4, f.st)) ELSE f.st

\* The operand is added to pc, not assigned.
Jump(condition, field, s) ==
  LET f == Get(field, s)
  IN  IF is_true(condition, f.st) THEN SetPc(f.st.pc + f.val, Charge(4, f.st)) ELSE f.st

PushWordSlip(w, s) ==     \* sp moved first
  LET moved == SetSp(s.sp - 2, s)
  IN  set_memory_byte(uint16(s.sp - 1), Hi(w), set_memory_byte(s.sp, Lo(w), moved))

\* Push and Call store the low byte at sp and the high byte below it.
PushWord(w, s) ==
  LET low  == set_memory_byte(s.sp, Lo(w), s)
      high == set_memory_byte(uint16(s.sp - 1), Hi(w), low)
  IN  SetSp(s.sp - 2, high)

PopWordSlip1(s) ==     \* one byte too low
  LET high == get_memory_byte(s.sp, s)
      low  == get_memory_byte(uint16(s.sp + 1), high.st)
  IN  Value(Join(high.val, low.val), SetSp(s.sp + 2, low.st))

PopWordSlip2(s) ==     \* sp moved by one
  LET high == get_memory_byte(uint16(s.sp + 1), s)
      low  == get_memory_byte(uint16(s.sp + 2), high.st)
  IN  Value(Join(high.val, low.val), SetSp(s.sp + 1, low.st))

PopWord(s) ==
  LET high == get_memory_byte(uint16(s.sp + 1), s)
      low  == get_memory_byte(uint16(s.sp + 2), high.st)
  IN  Value(Join(high.val, low.val), SetSp(s.sp + 2, low.st))

Push(field, s) == PushWord(Get(field, s).val, s)

PopSlip(field, s) ==     \* Zero from bit 7 of F
  LET done == Set(field, PopWord(s).val, PopWord(s).st)
  IN  SetFlags(IF field = "AF" THEN FlagIf("Zero", done.reg["F"] >= \h80) ELSE done.flags, done)

Pop(field, s) == Set(field, PopWord(s).val, PopWord(s).st)

CallSlip(condition, field, s) ==     \* pc assigned after the return address is stored
  LET f == Get(field, s)
  IN  IF is_true(condition, f.st) THEN Charge(12, SetPc(f.val, PushWord(f.st.pc, f.st))) ELSE f.st

Call(condition, field, s) ==
  LET f == Get(field, s)
  IN  IF is_true(condition, f.st) THEN Charge(12, PushWord(f.st.pc, SetPc(f.val, f.st))) ELSE f.st

RetSlip1(condition, s) ==     \* the word left on the stack
  IF is_true(condition, s) THEN Charge(12, SetPc(PopWord(s).val, s)) ELSE s

RetSlip2(condition, s) == Charge(12, SetPc(PopWord(s).val, PopWord(s).st))     \* always

Ret(condition, s) ==
  IF is_true(condition, s) THEN Charge(12, SetPc(PopWord(s).val, PopWord(s).st)) ELSE s

Bit(N, field, s) ==
  LET f == Get(field, s) IN SetFlags(AluBit(N, f.val, f.st.flags), f.st)

RotateLeft(field, s) ==
  LET f == Get(field, s)  rotated == AluRotateLeft(f.val, f.st.flags)
  IN  Set(field, rotated.result, SetFlags(rotated.flags, f.st))

-----------------------------------------------------------------------------
(* process() *)

\* pc is incremented before the opcode is read through the old value.
Fetch(s) == get_memory_byte(s.pc, SetPc(s.pc + 1, s))

process_cb(s) ==
  LET fetched == Fetch(s)
      row     == extended_instructions[fetched.val]
      done    == CASE row.op = "Bit"        -> Bit(row.args[1], row.args[2], fetched.st)
                   [] row.op = "RotateLeft" -> RotateLeft(row.args[1], fetched.st)
                   [] OTHER                 -> Then(fetched.st, panic(fetched.st))
  IN  Charge(row.cycles, done)

Fetched == Fetch(state)
Current == instructions[Fetched.val]

Ready(op) ==
  /\ state.status = "running"
  /\ Fetched.st.status = "running"
  /\ Current.op = op

\* Return from the operation: its cycles are charged last.
Retire(s) == state' = Charge(Current.cycles, s)

Arg1 == Current.args[1]
Arg2 == Current.args[2]

ExecNop          == Ready("Nop")          /\ Retire(Fetched.st)
ExecAdd          == Ready("Add")          /\ Retire(Add(Arg1, Arg2, Fetched.st))
ExecSub          == Ready("Sub")          /\ Retire(Sub(Arg1, Fetched.st))
ExecXor          == Ready("Xor")          /\ Retire(Xor(Arg1, Fetched.st))
ExecCompare      == Ready("Compare")      /\ Retire(Compare(Arg1, Fetched.st))
ExecInc          == Ready("Inc")          /\ Retire(Inc(Arg1, Fetched.st))
ExecDec          == Ready("Dec")          /\ Retire(Dec(Arg1, Fetched.st))
ExecLoad         == Ready("Load")         /\ Retire(Load(Arg1, Arg2, Fetched.st))
ExecJumpRelative == Ready("JumpRelative") /\ Retire(JumpRelative(Arg1, Arg2, Fetched.st))
ExecJump         == Ready("Jump")         /\ Retire(Jump(Arg1, Arg2, Fetched.st))
ExecPush         == Ready("Push")         /\ Retire(Push(Arg1, Fetched.st))
ExecPop          == Ready("Pop")          /\ Retire(Pop(Arg1, Fetched.st))
ExecCall         == Ready("Call")         /\ Retire(Call(Arg1, Arg2, Fetched.st))
ExecRet          == Ready("Ret")          /\ Retire(Ret(Arg1, Fetched.st))
ExecPrefixCB     == Ready("PrefixCB")     /\ Retire(process_cb(Fetched.st))

ExecUnimplemented ==
  /\ \E op \in Unimplemented : Ready(op)
  /\ state' = panic(Fetched.st)

\* Always::is_true takes the State by value: before an unconditional branch the
\* allocation of the copy can fail, and nothing catches that.  Ret has read no operand.
BeforeCopy == IF Current.op = "Ret" THEN Fetched.st ELSE Get(Arg2, Fetched.st).st

CopyFails ==
  /\ \E op \in {"JumpRelative", "Jump", "Call", "Ret"} : Ready(op)
  /\ Arg1 = "Always" /\ BeforeCopy.status = "running"
  /\ state' = crash(BeforeCopy)

\* The read of the opcode itself ends the process.
FetchFails ==
  /\ state.status = "running"
  /\ Fetched.st.status # "running"
  /\ state' = Fetched.st

process ==
  \/ ExecNop \/ ExecAdd \/ ExecSub \/ ExecXor \/ ExecCompare \/ ExecInc \/ ExecDec
  \/ ExecLoad \/ ExecJumpRelative \/ ExecJump
  \/ ExecPush \/ ExecPop \/ ExecCall \/ ExecRet
  \/ ExecPrefixCB \/ ExecUnimplemented \/ CopyFails \/ FetchFails

\* The process has exited.
Exited == state.status # "running" /\ UNCHANGED state

-----------------------------------------------------------------------------

Init == \E rom \in Cartridges, cpu \in Cpus : state = Loaded(rom, cpu)

Next == process \/ Exited

Spec == Init /\ [][Next]_state

\* main() calls process() again as soon as it returns.  This is WF_state(process)
\* with its enabling condition written out: process() can be called whenever the
\* process has not exited.
Fairness == []<>(state.status # "running") \/ []<><<process>>_state

FairSpec == Spec /\ Fairness

\* The members keep the ranges of their C++ types, and nothing is stored past the end
\* of an array.
TypeOK == StateOK(state)

\* No instruction gives cycles back: a step of process() that does not end the
\* process charges between 4 and 24 cycles, in fours.
CyclesAdvance ==
  [][state'.status = "running" =>
       (state'.cycles - state.cycles) % CycleMod \in {4, 8, 12, 16, 20, 24}]_state
=============================================================================
