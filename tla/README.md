# A TLA+ model of the GameBoy emulator

This directory holds a TLA+ specification of the emulator in `src/src`, the TLC
configurations that check it and the proofs of its main results. File and line
references are to `src/src` unless they say otherwise.

The emulator is a single-threaded C++ program. `main()` opens a window, loads a ROM file and
then calls `State::process()` for ever; each call executes one instruction of the emulated
CPU. It has one thread, persists nothing and passes no messages. Three things around it can
fail or interfere: SDL, the memory allocator, and another program that writes to the ROM
file. What is hard in the rest is the long sequence: tens of thousands of steps over a
shared register file and a 64 kB address space, on fixed-width integers, where an
instruction that is a little wrong shows much later, and where every unimplemented operation
or address ends the process.

## The parts of the system

| component | state | operations | talks to |
|---|---|---|---|
| CPU registers (`Cpu.hpp`, `Cpu.cpp`) | eight byte registers, four pairs that overlay them (unions), `sp`, `pc`, `flags` (a member of its own, apart from `F`) | read and assigned as public members | operands and operations |
| Memory map (`State.cpp` 77-191) | `memory` (internal RAM), `video`, `internal_memory`, `interrupt_enabled`, `boot_rom_enabled` | `get_memory_byte`, `set_memory_byte` | `IO`, `Rom`, `bootDMG`; calls `panic` |
| I/O registers (`IO.*`) | nine bytes | `get`, `set` through `get_field` | memory map |
| Operands (`OperationArguments.*`) | none | `get`, `set` of each operand class; conditions | registers, memory map |
| Operations (`Operations.hpp`) | none | `execute` of each template | operands, `state.cpu`, `state.cycles`, memory map |
| Instruction tables (`State.cpp` 213-758) | constant | lookup by opcode | operations |
| Instruction cycle (`State.cpp` 760-792) | `pc`, `cycles` | `process`, `process_cb`, `panic` | tables, memory map |
| Boot ROM (`State.cpp` 9-26) | constant | read below 0100 | memory map |
| ROM loader (`Rom.*`, `load_rom`) | the vector with the file, `_cartridge`, `_rom_size`, `_ram_size`, `banks` | `load`, `validate_rom`, `get`, `get_cartridge_info` | file system, `State` |
| Program life cycle (`main.cpp`) | the local objects | `main` | window, `State` |
| Window (`Window.*`) | two SDL handles | `init`, `cleanup`; `update` and `draw_frame` are empty | SDL |
| Diagnostics | none | `log_op` (returns at once), `operator<<` | standard output |
| SDL2 (`src/SDL2-2.0.8`, vendored) | subsystem counts, the video device, live windows and surfaces | the functions `Window` and `main` call | the video driver |

Behaviours that are hard to get right, and what would make each component correct:

- **Memory map.** Two chains of comparisons, one for reads and one for writes, decide
  what an address means; FF50 is in one and not in the other. Correct: the whole is a
  flat array. No two areas share a byte (but the echo), a read returns the last byte
  written and changes nothing, the boot ROM goes away once, and every address without
  anything behind it stops the process.
- **Operations on the stack.** `Push` and `Call` store the low byte *above* the high
  byte; `Pop` and `Ret` must undo exactly this through any nesting, up to the point
  where the stack runs into addresses that are not memory. Correct: a last-in first-out
  list of bounded capacity.
- **Arithmetic and flags.** Flags come from the bits of an `int` before truncation, in
  six different ways. Correct: agreement with plain arithmetic, and the laws that guest
  code relies on (Sub undoes Add, Compare branches like Sub, loops keep the carry).
- **Control flow.** Operand bytes are consumed by `get`, before the condition is looked
  at. Correct: every instruction continues after its own last byte or at its target.
- **Failure in the middle of an instruction.** `panic` never returns, so an instruction
  stops half way. Correct: what it leaves is what it had before, up to one stored byte.
- **The boot program.** Correct: it clears the video RAM, in the right time, and gets as
  far as the implemented instructions go.
- **ROM loader.** The length is measured first and the bytes are read afterwards; the
  header is read without a look at the length; one of three checks does not reject; the
  CPU's reads index the vector with no bound. Correct: a file nobody writes to meanwhile
  arrives whole or not at all, a vector that holds the header is accepted only if that is
  valid, and what the CPU reads of it is what was validated. A file that *is* written to
  meanwhile can arrive as a mixture of versions, block by block; the code cannot tell.
- **Window and life cycle.** Two handles of which one owns the other, six places to turn
  back from, two ways out that skip the destructors. Correct: no call gets a dead handle,
  every return leaves nothing behind, and the exit code says what went wrong.

`PROJECT.json` lists each hazard at its line with the properties that cover it.

## The modules

| module | models | state and actions |
|---|---|---|
| `Bytes` | the C++ integer types, arrays of bytes | operators only |
| `MemoryMap` | class `State`'s members, `get_memory_byte`, `set_memory_byte`, class `IO`, `Rom::get`, `panic` | operators on one record |
| `Bus` | the memory interface under any caller, and its mapping to `FlatMemory` | `state`, `call`; `Read`, `Write`, `Exited` |
| `Alu` | what each arithmetic template computes | operators only |
| `Decoder` | both instruction tables, row by row | operators only |
| `Machine` | operands, operations, `process`, `process_cb`, main's loop | `state`; one `Exec...` action per template, `ExecUnimplemented`, `CopyFails`, `FetchFails`, `Exited` |
| `Isa` | what one instruction may do, told from its opcode (no code of its own) | action properties of `Machine` |
| `BootImage` | the table `bootDMG` | a constant function |
| `Boot` | the program in that table: its timing, its exit, its end, and every state it passes through (`BootInv`) | properties of `Machine` |
| `Sdl` | the SDL functions the emulator calls, and subsystem counting, window and surface ownership behind them | operators on one record, or sets of outcomes |
| `Window` | class `Window` | `sdl`, `handles`, `opening`; `StartSdl`, `OpenWindow`, `PaintWindow`, `Destroy` |
| `RomLoader` | class `Rom`: `load`, `validate_rom`; `get_cartridge_info` | `file`, `fsize`, `got`, `rom`, `loading`; one action per step of the load (`ReadBlock` per block of the read), `FaultPastEnd`, `FileChanges` |
| `Lifecycle` | `main`, `State::load_rom`: `Machine`, `Window` and `RomLoader` composed | `at`, `code`, `is_error`, `banks`; `InitWindow`, `LoadRom`, `Loop`, `Unwind`, `Environment` |
| `FlatMemory` | *abstract*: what the memory interface promises | `Read`, `Write`, `Ignore`, `SwitchOff`, `Stop` |
| `CallStack` | *abstract*: what the stack operations promise a program | `Call`, `Return`, `Push`, `Pop`, `Local` |
| `Recursion` | a recursive function on the CPU's stack: its code, its mapping to `CallStack`, and every state it passes through (`RecursionInv`) | properties of `Machine` |
| `GuestPrograms` | the code of six guest programs, what each computes, and every state it passes through (`MultiplyInv`, `CountUpInv`, `SaveAFInv`, `WrapInv`, `CopyInv`, `ScaleInv`) | properties of `Machine` |
| `MC...` | instances for TLC, their properties, reference definitions; `MCPrograms` adds the boot ROM's header routine, run in place | |
| `MemoryMapProofs`, `MachineProofs`, `BusProofs`, `AluProofs`, `IsaProofs`, `BootProofs`, `LifecycleProofs`, `GuestProofs` | theorems | |

`Machine` and `Bus` both extend `MemoryMap`: the CPU is one caller of the interface,
`Bus` is all of them. `Lifecycle` extends `Machine`, `Window` and `RomLoader`, which share
no variable: `load_rom` hands the vector over to the `rom` of the machine's state, and
`main` decides by their results and by the machine's status where to go. It also holds
the properties of the whole and its inductive invariant.

**Correspondence.** The `State` object is one record, `state`, whose fields have the
names of the members (`reg` holds the eight byte registers). A member function is an
operator from records to records; a function that also returns a value gives a pair
`[val, st]`. Operators are composed in the order in which the code makes the calls, and
each `Exec` action is a whole call of `process()`: fetch, the operation with all the
memory accesses it makes, and the cycles charged at the end.

**Leaving the process.** `panic()` prints and calls `exit(-1)`; the record's `status`
becomes `"panicked"` and no later operator changes anything (`Then`), so a record whose
status is not `"running"` shows exactly what had been assigned when the process ended.
`FetchFails`, `ExecUnimplemented` and `CopyFails` are the ends that come from `process()`
itself, `Exited` is the process being gone. `CopyFails` is in the condition `Always`, which
takes the whole `State` by value (`OperationArguments.hpp` 188): the copy allocates, so any
unconditional branch can end the process (`"crashed"`) with its operand consumed and
nothing else done. `Ret` has no operand.

**The internal RAM.** `load_rom` resizes the vector `memory` to the `memory_size` of
`get_cartridge_info`, which is 0 for every cartridge type. An access to C000..FDFF then
indexes an empty vector. This is undefined, but the outcomes it can have in a build are
one: the data pointer is null and the index is below 2000 (hex), so a release build
touches the unmapped first pages of the address space, and a debug build of the project
(MSVC, checked containers) aborts on the index. The model calls this `"crashed"`. The
size is the constant `MemorySize`, 0 in every run. Most theorems hold for every size;
those of `IsaProofs` and `BusIsFlat` say `MemorySize = 0` (see "What is proved").

**Data representation.** An array of bytes is a function on the indices that hold a
non-zero byte, so that states stay small and equal contents are equal values. The
field `rom` is what an index into the file's vector reaches: its bytes, and whatever the
process can read behind them. `Rom::get` compares the index with nothing, so an index
outside `rom` is a fault (`"crashed"`) and one inside is whatever is there. A constant of
`Machine` and `Bus`, `Cartridges`, gives these arrays; none need have the full length.
`Lifecycle` makes one out of the vector and `Heap`, what may lie behind it (`Image`). Cycles are
counted modulo `CycleMod` in place of 2^32, a number TLC cannot represent.

**Failures outside.** A function of SDL that can fail is the set of its outcomes, each a
result with the library's state after it: what the code of the library decides (counts,
ownership, the order of shutting down) is modelled, what a driver or the allocator
decides is a choice. A window or surface pointer is live while it is in the domain of
`windows` or `surfaces`; a function that follows any other pointer sets `fault`.
`SDL_Init` that fails in `SDL_VideoInit` leaves the events subsystem counted, as the code
does. A seek, a read or the close that fails throws
what `load()` catches; an allocation that fails throws what nothing catches and ends the
process (`"crashed"`, as a fault does), and so does one of the length -1. That length
exists: a `tellg` that fails returns -1 and throws nothing, and the length is the
difference of two of them (`Measured`). `f.read` takes the file in blocks; where one access
of the stream ends and the next begins is the constant `BlockEnds`, any set of places.
Another program may rewrite the file at any time while the stream has it open, between
two blocks too, so that the vector can hold what no version of the file held. The allocations that
printing and formatting a message make are not modelled.

**Reading past the vector.** `validate_rom` indexes `buffer` up to 0149 whatever the
file's length. An index past the end finds some byte of `Garbage` or faults; where the
vector is empty it has no storage at all and always faults (`FaultPastEnd`). Members that
the constructor does not initialise are `"unset"` until a step assigns them. So a short file
can be accepted, on bytes behind it; `AcceptedHeader` speaks of vectors that hold the
whole header (`Whole`, 014A bytes) and claims nothing of others.

**Slips.** A definition called `...Slip` stands before the definition it differs from by
one plausible mistake: `>` for `>=`, a dropped condition, two steps in the other order.
No specification uses one. Each shows, when it takes the place of the correct one, that
some property notices: `PROJECT.json` pairs every property with one.

## The runs

Seven runs pass. Between them they take every action of `Machine`, `Bus` and `Lifecycle`.

| run | question | size |
|---|---|---|
| `boot` (`MCBoot`) | Does the program `main()` runs do what it should, from reset? | 24,593 states, the one behaviour there is |
| `bus` (`MCBus`) | Is the memory interface a flat memory? | 44,290 states |
| `callstack` (`MCCallStack`) | Are the stack operations a stack? | 6,105 states |
| `alu` (`MCAlu`) | Does the arithmetic agree with arithmetic? | 131,072 states, all operand pairs |
| `isa` (`MCIsa`) | Does each instruction change only what it should? | 116,953 states |
| `programs` (`MCPrograms`) | Do instructions compose to programs that compute what they should? | 15,221 states |
| `lifecycle` (`MCLifecycle`) | Does `main()` start, fail and end as it should, whatever fails? | 172,500 states |

- **boot.** No abstraction: the real boot ROM, all of memory. `ClearLoopTiming` relates
  the cycle counter to the progress of the loop; `ClearLoopExit` says that it leaves at
  the right address; `StopsAtFirstLdh` says where the program ends. It ends at offset
  1F, whose opcode E0 (`LDH`) has no function in the table: this version of the emulator
  never gets beyond its 24,593rd state. `BootStops` says that it always gets there.
  `CycleMod` is 2^19, above the 262,000-odd cycles of the run, so that nothing wraps: that
  `CyclesAdvance` holds across a wrap of the counter is shown by the theorem `ClockAdvances` only.
- **bus.** The addresses are the first and the last of each area, two I/O registers with
  a field and two ports without, and FF50. Between two boundaries all addresses of an
  area take the same branch, and `WriteThenRead` below is proved for all of them. Two
  values, one zero and one not, tell a written cell from a fresh one. `FlatMemorySpec`
  is refinement: the mapping, in `Bus`, gives `mem` as what `ByteAt` reads, `image` as
  what the two ROMs hold, as far as the cartridge reaches, and a port without a field, and `overlay` and `up` from the record; `call` names
  each access, so that an access which stops the machine must be one that the abstract
  memory has nothing for. The file is the shortest that is accepted, read on both sides of
  its end, with and without something behind it that 7FFF reaches.
- **callstack.** The function of `Recursion`, which saves a register around its recursive call,
  so that saved registers and return addresses alternate on the stack. Depths 0..40: the
  stack has room for 63 words (FF81..FFFE), 2n - 1 words are needed, so 1..32 fit, 33..40
  do not, and 0 counts through 255. `ReturnsBalanced` is about sp, the B that the outermost level
  saved, and the levels counted. The mapping reads the stack out of memory between
  `sp` and its top. `RecursionEnds` is liveness for every depth.
- **alu.** Exhaustive: 256 x 256 operands x carry. References use `+`, `-`, `\div` and `%`.
- **isa.** Each of the 256 opcodes with three pairs of operand bytes, and each of the 256
  prefixed opcodes, from 48 register settings: pointers into video RAM, internal memory,
  I/O, the interrupt register, cartridge, boot ROM, RAM and unusable addresses, stacks
  with room for no byte, one byte, one word and more, flags all clear and all set. Further
  programs start where a fetch stops the machine, inside an I/O register, and at the last
  address of an area and of memory, from where `pc` runs on or wraps. The
  properties, in `Isa`, are stated from the opcode alone (`MayWrite`, `Length`,
  `Branches`, `ResumesAt`), independently of `Decoder`. `CycleBound` cuts behaviours off after the
  instruction under test and the few short ones that may follow it. The file ends with
  the header, at 0249 of the CPU's addresses, and one pointer and one pc lie at its end and
  behind it. `PreciseStop` says also where pc is when a taken call finds no room for its
  return address: at the target, because `Call` assigns it first.

- **programs.** Seven guest programs, tagged by register F. The boot ROM's drawing routine
  (with RL A for RLA, which has no function) must scale the logo the CPU reads, bit by bit
  through 384 saves and restores of BC; its header routine, run in place from 00E0, must sum
  the header. A copy loop runs over the edges of areas and over itself, a counted
  multiplication wraps, a branch follows POP AF, a CALL lies across the wrap of `pc`.
  `ProgramsEnd` says which loops end: those that count down do, also from 0; the one that
  counts up to Zero never does. Lengths 0 (that is 256), 1 and 5 and the starting points
  before, at and behind the edge of an area make copies that end inside, at the edge and in
  the panic behind it. `CycleMod` is 2^8: none of these properties looks at the counter.
  `CopyExact` is about every byte of the video and internal memory, FFFF, the I/O registers
  and the boot ROM switch; `MultiplyExact` covers the count 0, which takes 256 turns. The
  file ends with the last program, and one copy runs off its end into the fault.
- **lifecycle.** The real boot ROM after every way of getting there: each SDL call fails or
  not, there is a file or not, each allocation fails or not, each `tellg` tells the
  position or -1.
  The files are two that are accepted (the second with a RAM size nobody knows), three that
  are wrong in one byte, one that ends within the logo and an empty one; any of them may
  take the place of any other between opening, measuring and reading, and between two blocks
  of the read, which end within the logo and before the ROM size or not at all. `WholeImage`
  says that a file left alone from its measurement on is what a successful load gives;
  `Genuine`, a part of `MainInv`, says of the rest that each block is of one version.
  `Garbage` has one byte that passes a check and one that fails it. One window and one
  surface address suffice, because `main()` makes at most one of each at a time; NULL is the
  only other pointer. `MainInv` is the inductive invariant from which the proofs derive the
  other properties. `Ends` is liveness of the whole program.

Apart from `boot` and `lifecycle`, the runs start `Machine` from register settings other
than reset, and with cartridges whose code the shipped program does not reach, because the
boot code stops first. They are runs of the `State` class: its registers and arrays are
public, its constructor and `load_rom` leave the object that `Loaded` describes, and
`process()` is called on it.

Five runs expect a violation; each states a sentence of the source that the code
contradicts, and TLC shows a short behaviour, of one or two steps but for `logo`, which
starts in `main()`.

| run | what the source says | what the code does |
|---|---|---|
| `logo` | "Nintento graphic check: Ok" (`Rom.cpp` 84) of the bytes at 0104 of the file (`Rom.cpp` 75) | the CPU reads its address 0104 from the file's byte 4 (`State.cpp` 126) |
| `ram` | "Internal RAM", "Echo of 8kB internal ram" (`State.cpp` 108, 112) | the vector is empty; the access faults |
| `jump` | opcode C3 is "JP A16" (`State.cpp` 421) | `Jump` adds the operand to `pc` (`Operations.hpp` 212) |
| `jump_hl` | E9 "should be 4 cycles anyway" (`Operations.hpp` 207) | 8 cycles |
| `add_sp` | opcode E8 is "Add SP, r8" (`State.cpp` 460) | the operand is not sign-extended as other r8 are |

Other departures from the real CPU contradict no sentence of this repository. They are
modelled as they are and no run calls them violations: row 15 decrements E (and is
named so), `Inc` never sets Zero, `Compare` computes the half carry with `* 0xF`, `Add`
sets Zero from the untruncated sum, the flags are not part of AF, the rows behind CB are
charged on top of the 4 cycles of the prefix, `Jump` takes (HL) as a memory operand, the
ROM sizes 52 to 54 are decimal. `SDL.h` (119-123) advises to call `SDL_Quit` "upon all exit
conditions"; the program never does, and the process's end takes the subsystems with it.
The message for a wrong logo byte adds the octal literal 0104 (`Rom.cpp` 77).

## Fairness

The program is one thread that waits for nobody, so the only assumption is that it goes
on. For the loop of `main()`, which calls `process()` again as soon as it returns,
`Fairness` says that the process has exited again and again (that is, it has exited) or
that `process` steps are taken for ever. This is weak fairness of `process` with its
enabling condition, "the process has not exited", written out: `process` is enabled exactly
then, and TLC takes minutes to find that out by itself, state by state. It is used by
`BootStops`, `RecursionEnds` and `ProgramsEnd`.

`MainFairness` is the same for all of `main()`: weak fairness of `InitWindow`, `LoadRom` and
`Unwind`, and the loop as above. Each of the three is enabled until it is taken. The
environment is under no fairness: the file may change at every opportunity or never, and
no call has to succeed. `Ends` is checked under it.

## What is proved

TLAPS checks every proof to its last leaf. The theorems rest on the assumptions the modules
name: the boot ROM has 256 bytes, a cartridge is an array of bytes, the RAM size is a
natural number, the counter's modulus is positive, starting registers are of their types, a
file is a sequence of bytes, what lies behind the vector is an array of bytes, `NULL` is no
window and no surface, no cartridge type asks for RAM other than `MemorySize`. Within them
the constants are arbitrary: any boot ROM, any cartridge, any set of files, any addresses.
Three further hypotheses are stated in the theorems that need them, and the code satisfies
each:

- `MemorySize = 0`: `get_cartridge_info` says 0 for every cartridge type. With another size
  the echo gives one byte two names, and `Isa`'s `MayWrite` and `FlatMemory`, which are
  stated of the code as it is, would not describe it.
- `CycleMod > 24`: the code's is 2^32. Below that two instructions of different length
  would be the same difference.
- `Shipped`: the boot ROM is `bootDMG`, and the counter holds the time of the clear loop
  (262,172 cycles).

**The machine** (`MachineProofs`, `MemoryMapProofs`)

- **`TypeCorrect`**: `Spec => []TypeOK`. `StateOK` is inductive as it stands. It is more
  than a typing of variables: it bounds the domain of every array, so nothing is stored past the
  end of one, and every index the memory map computes into an array of fixed length is inside
  it. It does not say this of reads of the two vectors: an index into `memory` or into the
  file's that reaches nothing is the end `"crashed"`.
  One lemma per operand and operation says that it takes a good record to a good record
  (and its value to the operand's width), one lemma per block of the tables what a row
  charges, and the step follows by cases on the action.
- **`ClockAdvances`**: a `process()` that returns has taken 4, 8, ... or 24 cycles. The
  counter may wrap in between, so the sum is never taken modulo anything until the end:
  `Spent(n, s, t)` says that t's counter is n more than s's, or n - CycleMod more. One
  lemma says that charging adds (`ChargeSpends`), one group that every operand and
  operation leaves the counter alone, one that a branch adds 0 or its surcharge, one that a
  prefixed row adds 8, 12 or 16; `Charges` bounds what the rows of the main table add.
- **`WriteThenRead`**: a write that returns changes what is read at its own address (and
  at the address that repeats it, for the internal RAM and its echo) and at no other.
  `Disjoint` shows that the areas do not overlap, then one case per area.
- **`PushThenPop`**: if the two bytes below the stack pointer are memory and the push
  returns, the next pop yields the word pushed and the old `sp`. It uses `WriteThenRead`
  twice and `NeighboursDiffer`: neighbouring addresses are never two names of one byte.

**The memory interface** (`BusProofs`)

- **`BusTypeCorrect`**: the same types under any caller, and a read that returns yields a
  byte. A read of the cartridge that reaches nothing does not return.
- **`BusIsFlat`**: `Bus` implements `FlatMemory` for any caller, the whole of
  `FlatMemorySpec`. The initial states map to initial states; a `Read` maps to the
  abstract `Read` or `Stop`, and a `Write` to `Write`, `Ignore`, `SwitchOff` or `Stop`,
  by the area of the address. That a write moves no other byte of `mem` is `WriteThenRead`.

**Arithmetic** (`AluProofs`): the seven laws of the `alu` run as theorems about all
operands of a byte: `SumsAreExact`, `DifferencesAreExact`, `ComparesLikeSub`,
`SubIsInverse`, `CountsUndo`, `RotationIsNineBits`, `XorIsInvolution`. The bit operators
are sums of eight terms; a law on bits is proved bit by bit.

**Single instructions** (`IsaProofs`): the five action properties of `Isa`, for every
program and every state, where the run samples 48 register settings:
`WritesWhereNamed`, `ContinuesWhereNamed`, `FlagsAreKept`, `StopsArePrecise`,
`StackMovesByWords`. Three layers:
one *effect* lemma per member function says which members it moves and which it keeps
(`Kept`, `Wrote`, `Registers`, and `Result` for a whole operation, its two exits
included); `TableOK` says of each of the 512 rows which shape its operation and operands
have for its opcode (`RowOK`); and one `...Lawful` lemma per action joins them. The
invariant used is `TypeOK`. Proving `ControlFlow` showed that the cases of `ResumesAt`
overlapped (TLC takes the first that holds); they are now exclusive.

**The boot program** (`BootProofs`): `BootInv` says, for each of the offsets the program
passes through, what it has done by then: `BeforeLoop` has the cycles and what the loads
have set; `InLoop` ties HL to the cycle counter at each of the loop's three instructions,
and the Zero flag to HL behind the bit test; `AfterLoop` gives HL, C and A at each store;
`SoundIo(p)` the I/O registers at offset p; the video RAM and the internal memory are zero
throughout, and the end is the panic at the first LDH. `ClearLoopTiming` alone is not
inductive: a step from 0A to 07 needs the time at 0A and that Zero tells whether HL has
left the video RAM. The lemmas `Program` and `Rows` evaluate the image and the table rows
it uses, a lemma per instruction gives its effect, and `SetupStep`, `ClearStep` and
`SoundStep` lead from offset to offset. From `BootInv` follow **`LoopTiming`**,
**`LoopExit`** and **`FirstLdh`** for every cartridge and RAM size. They show where the
program may be, not that it gets there (`BootStops` is TLC's).

**The life cycle** (`LifecycleProofs`): **`MainInvariant`** is
`MainSpec => []MainInv`, for any set of files, garbage, addresses and boot ROM. Its parts:

- `WindowInv`: which handles and counts each stage of `init()` leaves, what SDL owns is
  what the handles name, and no call has been given anything dead. Without the ownership
  part a `cleanup()` could be given a dead handle, and `NoDangling` is not inductive.
- `LoaderInv`: how much of the file the vector holds at each stage of `load()`, that each
  block of it is what one version of the file held at its place, and what each passed check
  has established of the bytes and the members, where the vector holds the whole header.
- `PlaceInv`: where `main()` is, how `init()` and `load()` ended, the exit code, the banks
  and the machine's status go together. It is what carries the result of the one to the
  place where another needs it.

From it follow `HandlesAreLive`, `ReturnsClean`, `CountsAreRight`, `ExitCodesTell`, and
`HeaderAccepted` (where the vector holds the whole header) and **`WholeImageArrives`**: a
file nobody writes to from its measurement to its last block arrives whole, wherever the
blocks end and whatever else fails. It needs an invariant of its own under the hypothesis,
that the part read so far is the file's. `ReturnsClean` is about windows, surfaces and
handles; SDL's subsystems stay counted, as nothing calls `SDL_Quit`. **`StartupFaults`**,
that `main()` faults in the four listed cases only, needs more: that the CPU does not fault
in the loop, by an address without memory or by a copy that cannot be allocated: the boot
program uses neither. It follows from `MainInv` and `BootInv` together (`BootInMain`): what
the window and the loader do leaves the machine alone, but for the ROM `load_rom` puts in
place, and `BootSeesNoRom` shows that `BootInv` does not depend on that.

**Guest programs** (`GuestProofs`): what instructions compose to. Each theorem is about
any cartridge that carries the program at its address and any start of the stated form
(`Carries` and `Starts` for the recursion, `...Starts` for the others); everything else in
the cartridge, the registers and the flags is arbitrary, where a run has a few values of
each. The proofs are layered: `Took` says that a program's bytes have been read, one `Run...`
lemma per instruction used says what `process()` does with it, from the effect lemmas of
`IsaProofs`; the `...Rows` lemmas look the programs' opcodes up in the tables; and one
case per offset of a program leads from its disjunct of the invariant to the next.

- **`RecursionInvariant`**: `Spec => []RecursionInv`, for every depth from 1 to 256 (B = 0
  counts through 255). `ReturnsBalanced` is not inductive: that a `RET` goes to 0116 and that
  a `POP` gets back the B of its own level is known only from the words between. `Frames`
  gives each word from FFFE down to `sp`: the first call's return address, then by turns
  the B of a level and the return address of the next. `Control` ties `sp`, B and E to the
  level at each offset, on the way down and on the way back, and the panic at 0113 to a
  full stack. From it follow **`RecursionBalances`** and **`DeepRecursionStops`**.
- **`MemoryIsAStack`**: the recursion implements `CallStack`, step by step: `CALL` maps to
  `Call`, `RET` to `Return`, `PUSH` and `POP` to theirs, every other instruction to `Local` or
  a stutter. `WordAt` reads the list out of memory. A push keeps every word above `sp`,
  because two addresses in the internal memory never name one byte, and appends its own.
- **`LoopMultiplies`**: at each turn HL is DE times the turns taken, modulo 2^16, for all
  B and DE. `Turns` makes the count 0 the 256 turns it stands for, at the start and at the end.
- **`CountsForever`**: a loop that waits for `INC` to make a register zero never ends and
  never panics, because `Inc` compares an `int` that is never 0. It is the safety half
  of what `ProgramsEnd` says of this program: it is always running.
- **`FlagsNotSaved`**: the branch after `POP AF` follows the comparison made since `PUSH AF`.
- **`CallsWrap`**: a `CALL` at FFFF takes its operand from 0000 and 0001 and returns to
  0002, unless the copy of the `State` for its condition fails. It assumes that these two
  bytes send it where nothing can be fetched (`Entry \in SpriteTable`); in the shipped boot
  ROM they are 31 FE, and FE31 is in the sprite table.
- **`CopiesBytes`**: the copy is exact for every length from 1 to 256, to the video RAM or
  to the end of the address space, from anywhere, overlapping or not, as long as no byte is
  overwritten before it is read (`CopyStarts`), and writes no other byte of the video or
  internal memory, no I/O register and not the boot ROM switch; where the source ends in
  addresses that cannot be read, the loop stops there. `CopyInv` has, next to `Copied`, what
  may have been written (`CopyWrites`), and the three places where the program may stop.
- **`LogoDrawn`**: the picture in the video RAM is the logo the CPU reads, for any 48 bytes
  (`LogoPresent`: the file reaches that far).
  `ScaleInv` has three levels: `Outer` is the loop over the bytes, with what is drawn by then;
  `Called` and `Drawing` a call, with its return address; `Turn` one of its four turns, of which
  `Rotated` says what has left C, `Target` and `Half` what has entered A, `Carries1` what is
  between them, and `Saved` what BC is on the stack. The carry must survive from one `RL` to
  the next only, but both rotate the *same* bit, the second out of the restored C.

`RecursionInv` and the six loop invariants were checked with TLC over the starts of the runs.

Only model-checked:

- liveness, which is out of the prover's reach: `BootStops`, `RecursionEnds`, `Ends`, and
  of `ProgramsEnd` that the other loops end;
- `HeaderSummed`: the sum is a fold over the header, and what a fold computes needs
  induction over data;
- the five runs that expect a violation, which need none.

## Plan

1. *Done*: `Bytes`, `MemoryMap`, `Bus` and `FlatMemory`; `Alu`, `Decoder`, `Machine`,
   `BootImage`, `CallStack`; the first theorems.
2. *Done*: `Sdl`, `Window`, `RomLoader` and `Lifecycle`, with the failures of SDL, the
   allocator and the file; guest programs.
3. *Done*: the refinement of `FlatMemory`, the laws of the arithmetic and of single
   instructions, the cycle counter, the boot program, and `main()` with all its
   safety properties.
4. *Done*: the recursive function on the stack, with the refinement of `CallStack`, and the
   guest programs, each from an invariant that gives all its states.
5. Left: the header routine (`HeaderSummed`), whose specification would have to be
   stated without a fold.

## Not modelled

- The rest of SDL2, by far the largest part of the repository's lines: renderers,
  audio, drivers, tables of pixel formats, OpenGL headers. It is third-party code that
  the emulator does not call; a model of it would say nothing of the emulator. What a
  driver does behind the functions in `Sdl` is a choice among their results.
- `Window::update` and `draw_frame`: empty. `current_bank`, `consume_byte`, `PtrD8`,
  `LoadIntoMemory`, `rom_size()`, `ram_size()`: nothing uses them. Of `banks` there is the
  number only, nothing looks into them.
- Output (`log_op`, `operator<<`, messages) and the enum helpers: no state. `getchar()`
  stands behind a loop that has no normal end.

## Running it

    tlc -workers 2 -config MCBoot.cfg MCBoot     (and so on for the other runs)
    tlapm MachineProofs.tla                      (and so on for the other proof modules)
