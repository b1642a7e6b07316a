------------------------------ MODULE RomLoader ------------------------------
(***************************************************************************)
(* Rom::load and validate_rom, one step for each thing that can fail or    *)
(* that another program can come between.                                  *)
(*                                                                         *)
(* A file, and the vector it is read into, is a function from 0..n-1 to    *)
(* bytes.  A read past the end of the vector finds any byte of `Garbage'   *)
(* or faults.  Members of class Rom that no step has assigned are "unset": *)
(* the constructor leaves them as the memory was.                          *)
(***************************************************************************)
EXTENDS Bytes, Sequences, FiniteSets, Functions

CONSTANTS Files,      \* what the file may hold, at one time or another
          NoFile,     \* no stream is open
          BlockEnds,  \* where one access of the stream to the file may end and the next begin
          Garbage     \* what may lie behind the vector

Size(buffer) == Cardinality(DOMAIN buffer)

ASSUME FilesAssumption ==
  \A f \in Files : f # NoFile /\ Size(f) \in Nat /\ f \in [0..(Size(f) - 1) -> Byte]
ASSUME BlockEndsAssumption == BlockEnds \subseteq Nat
ASSUME GarbageAssumption   == Garbage \subseteq Byte

VARIABLES file,     \* what the open stream reads
          fsize,    \* the length load() has measured
          got,      \* how many bytes f.read has put into the vector
          rom,      \* the members of class Rom
          loading   \* how far load() has come: what it does next, or its result

loaderVars == <<file, fsize, got, rom, loading>>

-----------------------------------------------------------------------------
(* The header *)

NameAt        == \h134
NameEnd       == NameAt + 8
LogoAt        == \h104
TypeAt        == \h147
RomSizeAt     == \h148
RamSizeAtSlip == \h14A     \* one byte on
RamSizeAt     == \h149

expected ==
  << \hCE, \hED, \h66, \h66, \hCC, \h0D, \h00, \h0B, \h03, \h73, \h00, \h83, \h00, \h0C, \h00, \h0D,
     \h00, \h08, \h11, \h1F, \h88, \h89, \h00, \h0E, \hDC, \hCC, \h6E, \hE6, \hDD, \hDD, \hD9, \h99,
     \hBB, \hBB, \h67, \h63, \h6E, \h0E, \hEC, \hCC, \hDD, \hDC, \h99, \h9F, \hBB, \hB9, \h33, \h3E >>

LogoEnd == LogoAt + Len(expected)

CartridgeTypes ==
  [c \in \h00..\h03 \cup {\h05, \h06, \h08, \h09} \cup \h0B..\h0D \cup \h0F..\h13
           \cup \h19..\h1F \cup \hFD..\hFF |->
     CASE c = \h00 -> "RomOnly"             [] c = \h01 -> "RomMBC1"
       [] c = \h02 -> "RomMBC1Ram"          [] c = \h03 -> "RomMBC1RamBatt"
       [] c = \h05 -> "RomMBC2"             [] c = \h06 -> "RomMBC2Batt"
       [] c = \h08 -> "RomRam"              [] c = \h09 -> "RomRamBatt"
       [] c = \h0B -> "RomMMM01"            [] c = \h0C -> "RomMMM01SRam"
       [] c = \h0D -> "RomMMM01SRamBatt"    [] c = \h0F -> "RomMBC3TimerBatt"
       [] c = \h10 -> "RomMBC3TimerRamBatt" [] c = \h11 -> "RomMBC3"
       [] c = \h12 -> "RomMBC3Ram"          [] c = \h13 -> "RomMBC3RamBatt"
       [] c = \h19 -> "RomMBC5"             [] c = \h1A -> "RomMBC5Ram"
       [] c = \h1B -> "RomMBC5RamBatt"      [] c = \h1C -> "RomMBC5Rumble"
       [] c = \h1D -> "RomMBC5RumbleSRam"   [] c = \h1E -> "RomMBC5RumbleSRamBatt"
       [] c = \h1F -> "PocketCamera"        [] c = \hFD -> "BandaiTAMA5"
       [] c = \hFE -> "HudsonHuC3"          [] c = \hFF -> "HudsonHuC1"]

\* The last three codes are decimal in the code.
RomSizes ==
  [c \in 0..6 \cup 52..54 |->
     CASE c = 0  -> "_32kbyte"  [] c = 1  -> "_64kbyte"  [] c = 2  -> "_128kbyte"
       [] c = 3  -> "_256kbyte" [] c = 4  -> "_512kbyte" [] c = 5  -> "_1mbyte"
       [] c = 6  -> "_2mbyte"   [] c = 52 -> "_1_1mbyte" [] c = 53 -> "_1_2mbyte"
       [] c = 54 -> "_1_5mbyte"]

RamSizes ==
  [c \in 0..4 |-> CASE c = 0 -> "none" [] c = 1 -> "_2kb" [] c = 2 -> "_8kb"
                    [] c = 3 -> "_32kb" [] c = 4 -> "_128kb"]

get_cartridge_info(cartridge) ==
  [memory_size |-> 0, bank_count |-> IF cartridge = "RomOnly" THEN 128 ELSE 0]

-----------------------------------------------------------------------------

Reading    == {"tellg", "read"}
Validating == {"name", "logo", "type", "rom_size", "ram_size"}

LoaderTypeOK ==
  /\ file \in Files \cup {NoFile}
  /\ fsize \in Nat \cup {-1} /\ got \in Nat
  /\ rom \in [buffer     : [0..(Size(rom.buffer) - 1) -> Byte],
             _cartridge : Range(CartridgeTypes) \cup {"unset"},
             _rom_size  : Range(RomSizes) \cup {"unset"},
             _ram_size  : Range(RamSizes) \cup {"unset"}]
  /\ Size(rom.buffer) \in Nat
  /\ loading \in {"open", "true", "false", "crashed"} \cup Reading \cup Validating

LoaderInit ==
  /\ file = NoFile /\ fsize = 0 /\ got = 0 /\ loading = "open"
  /\ rom = [buffer |-> Zeros, _cartridge |-> "unset", _rom_size |-> "unset", _ram_size |-> "unset"]

-----------------------------------------------------------------------------
(* load() *)

FailSlip == file' = NoFile /\ loading' = "open"     \* tried again

\* A std::ios_base::failure is caught; the stream closes as it goes out of scope.
Fail == file' = NoFile /\ loading' = "false"

Open ==
  /\ loading = "open"
  /\ UNCHANGED <<fsize, got, rom>>
  /\ \/ Fail     \* there is no file to open
     \/ file' \in Files /\ loading' = "tellg"

\* The difference of the two positions.  A tellg that fails returns -1 and throws nothing.
Measured == {end - start : start \in {0, -1}, end \in {Size(file), -1}}

\* An allocation that fails, or one of -1 bytes, throws what load() does not catch.
Measure ==
  /\ loading = "tellg"
  /\ UNCHANGED got
  /\ \/ Fail /\ UNCHANGED <<fsize, rom>>     \* the seek fails
     \/ /\ fsize' \in Measured
        /\ \/ /\ fsize' >= 0
              /\ rom' = [rom EXCEPT !.buffer = [i \in 0..(fsize' - 1) |-> 0]]
              /\ loading' = "read" /\ UNCHANGED file
           \/ /\ fsize' # 0 /\ loading' = "crashed"
              /\ UNCHANGED <<file, rom>>

\* The vector with what the file holds now from the place reached up to e.
Filled(e) == [i \in DOMAIN rom.buffer |->
                IF i \in got..(e - 1) /\ i \in DOMAIN file THEN file[i] ELSE rom.buffer[i]]

ReadBlockSlip ==     \* a short read accepted
  /\ loading = "read"
  /\ \E e \in BlockEnds \cup {fsize} :
       /\ e <= fsize /\ (got < e \/ e = fsize)
       /\ rom' = [rom EXCEPT !.buffer = Filled(e)] /\ got' = e
       /\ IF e = fsize THEN file' = NoFile /\ loading' = "name" ELSE UNCHANGED <<file, loading>>
  /\ UNCHANGED fsize

\* f.read takes the file block by block and fails at its end; the last block is followed
\* by the close.  The seek, a read and the close can fail at any of them.
ReadBlock ==
  /\ loading = "read"
  /\ \/ Fail /\ UNCHANGED <<got, rom>>
     \/ \E e \in BlockEnds \cup {fsize} :
          /\ e <= fsize /\ (got < e \/ e = fsize)
          /\ rom' = [rom EXCEPT !.buffer = Filled(e)] /\ got' = e
          /\ IF Size(file) < e THEN Fail
             ELSE IF e = fsize THEN file' = NoFile /\ loading' = "name"
             ELSE UNCHANGED <<file, loading>>
  /\ UNCHANGED fsize

\* Another program can write to the file while load() has it open, between two blocks too.
FileChanges ==
  /\ loading \in Reading
  /\ file' \in Files \ {file}
  /\ UNCHANGED <<fsize, got, rom, loading>>

-----------------------------------------------------------------------------
(* validate_rom() *)

PastEnd(addr) == addr >= Size(rom.buffer)

\* What an index may find.  An empty vector has no memory behind it at all.
BytesAt(addr) == CASE ~PastEnd(addr)    -> {rom.buffer[addr]}
                   [] rom.buffer = Zeros -> {}
                   [] OTHER             -> Garbage

LastRead == CASE loading = "name"     -> NameEnd - 1
              [] loading = "logo"     -> LogoEnd - 1
              [] loading = "type"     -> TypeAt
              [] loading = "rom_size" -> RomSizeAt
              [] loading = "ram_size" -> RamSizeAt

\* The part of the logo inside the vector.  It is compared first.
LogoRead    == {i \in DOMAIN expected : ~PastEnd(LogoAt + i - 1)}
LogoDiffers == \E i \in LogoRead : rom.buffer[LogoAt + i - 1] # expected[i]

FaultPastEnd ==
  /\ loading \in Validating /\ PastEnd(LastRead)
  /\ ~(loading = "logo" /\ LogoDiffers)
  /\ loading' = "crashed" /\ UNCHANGED <<file, fsize, got, rom>>

PrintName ==
  /\ loading = "name" /\ BytesAt(NameEnd - 1) # {}
  /\ loading' = "logo" /\ UNCHANGED <<file, fsize, got, rom>>

CheckLogo ==
  /\ loading = "logo"
  /\ IF LogoDiffers THEN loading' = "false"
     ELSE IF PastEnd(LogoEnd - 1) THEN loading' \in {"type", "false"}
     ELSE loading' = "type"
  /\ UNCHANGED <<file, fsize, got, rom>>

CheckTypeSlip ==     \* without the `return false'
  /\ loading = "type"
  /\ \E b \in BytesAt(TypeAt) :
       rom' = IF b \in DOMAIN CartridgeTypes THEN [rom EXCEPT !._cartridge = CartridgeTypes[b]] ELSE rom
  /\ loading' = "rom_size" /\ UNCHANGED <<file, fsize, got>>

CheckType ==
  /\ loading = "type"
  /\ \E b \in BytesAt(TypeAt) :
       IF b \in DOMAIN CartridgeTypes
       THEN rom' = [rom EXCEPT !._cartridge = CartridgeTypes[b]] /\ loading' = "rom_size"
       ELSE rom' = rom /\ loading' = "false"
  /\ UNCHANGED <<file, fsize, got>>

CheckRomSize ==
  /\ loading = "rom_size"
  /\ \E b \in BytesAt(RomSizeAt) :
       IF b \in DOMAIN RomSizes
       THEN rom' = [rom EXCEPT !._rom_size = RomSizes[b]] /\ loading' = "ram_size"
       ELSE rom' = rom /\ loading' = "false"
  /\ UNCHANGED <<file, fsize, got>>

CheckRamSizeSlip ==     \* the ROM sizes used again
  /\ loading = "ram_size"
  /\ \E b \in BytesAt(RamSizeAt) :
       rom' = IF b \in DOMAIN RomSizes THEN [rom EXCEPT !._ram_size = RomSizes[b]] ELSE rom
  /\ loading' = "true" /\ UNCHANGED <<file, fsize, got>>

\* An unknown code has no `return false'.
CheckRamSize ==
  /\ loading = "ram_size"
  /\ \E b \in BytesAt(RamSizeAt) :
       rom' = IF b \in DOMAIN RamSizes THEN [rom EXCEPT !._ram_size = RamSizes[b]] ELSE rom
  /\ loading' = "true" /\ UNCHANGED <<file, fsize, got>>

load == \/ Open \/ Measure \/ ReadBlock
        \/ FaultPastEnd \/ PrintName \/ CheckLogo \/ CheckType \/ CheckRomSize \/ CheckRamSize

-----------------------------------------------------------------------------

\* The length of a file that holds the whole header, up to 0149.
Whole == \h14A

\* The members of class Rom that validate_rom has assigned before each step.
TypeChecked    == {"rom_size", "ram_size", "true"}
RomSizeChecked == {"ram_size", "true"}

\* The block that begins at a, as far as it has been read.
Block(a) == {i \in a..(got - 1) : \A e \in BlockEnds : a < e => i < e}

\* Every block that was read holds what one version of the file held at its place.
Genuine == \A a \in BlockEnds \cup {0} : \E f \in Files : \A i \in Block(a) :
             i \in DOMAIN f /\ rom.buffer[i] = f[i]

LogoMatches    == \A i \in DOMAIN expected : rom.buffer[LogoAt + i - 1] = expected[i]
TypeMatches    == /\ rom.buffer[TypeAt] \in DOMAIN CartridgeTypes
                  /\ rom._cartridge = CartridgeTypes[rom.buffer[TypeAt]]
RomSizeMatches == /\ rom.buffer[RomSizeAt] \in DOMAIN RomSizes
                  /\ rom._rom_size = RomSizes[rom.buffer[RomSizeAt]]
RamSizeMatches == LET b == rom.buffer[RamSizeAt]
                  IN  rom._ram_size = (IF b \in DOMAIN RamSizes THEN RamSizes[b] ELSE "unset")

\* How far load() has come tells what the vector holds, which checks the header in
\* it has passed and, of a load that faulted, why it did.
LoaderInv ==
  /\ file # NoFile <=> loading \in Reading \/ (loading = "crashed" /\ fsize # Size(rom.buffer))
  /\ loading \in {"open", "tellg"} => rom.buffer = Zeros /\ got = 0
  /\ loading \in {"read", "true"} \cup Validating => fsize = Size(rom.buffer) /\ Genuine
  /\ loading = "read" => got \in BlockEnds \cup {0} /\ got <= fsize
  /\ loading \in {"true"} \cup Validating => got = fsize
  /\ loading = "crashed" => \/ fsize # 0 /\ rom.buffer = Zeros
                            \/ fsize = Size(rom.buffer) /\ fsize < Whole
  /\ loading \in TypeChecked => rom._cartridge # "unset"
  /\ loading \notin {"true"} => rom._ram_size = "unset"
  /\ Size(rom.buffer) >= Whole =>
       /\ loading \in {"type"} \cup TypeChecked => LogoMatches
       /\ loading \in TypeChecked => TypeMatches
       /\ loading \in RomSizeChecked => RomSizeMatches
       /\ loading = "true" => RamSizeMatches
=============================================================================
