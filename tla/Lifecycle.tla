------------------------------ MODULE Lifecycle ------------------------------
(***************************************************************************)
(* main(): the window is opened, the ROM is loaded, and process() is       *)
(* called until the process ends.  The Window, the Rom and the rest of     *)
(* class State meet only here.                                             *)
(*                                                                         *)
(* A return runs the destructors of main()'s objects; a panic, which calls *)
(* exit(-1), and a fault do not.                                           *)
(***************************************************************************)
EXTENDS Machine, Window, RomLoader

\* What may lie behind the vector where the CPU's addresses still reach.
CONSTANT Heap

ASSUME HeapAssumption == \A h \in Heap : IsArray(h, RomSize)

ASSUME CartridgeInfoAssumption ==
  \A c \in Range(CartridgeTypes) : get_cartridge_info(c).memory_size = MemorySize

VARIABLES at,        \* where main() is
          code,      \* the exit code, once there is one
          is_error,  \* the members of State that only load_rom assigns
          banks

mainVars == <<windowVars, loaderVars, state, at, code, is_error, banks>>

MainTypeOK ==
  /\ WindowTypeOK /\ LoaderTypeOK /\ StateOK(state)
  /\ at \in {"init", "load", "loop", "return", "exited", "crashed"}
  /\ code \in {0, -1, -2}
  /\ is_error \in BOOLEAN /\ banks \in Nat

MainInit ==
  /\ \E ready \in BOOLEAN : sdl = SDL_SetMainReady(Unloaded(ready))
  /\ WindowInit /\ LoaderInit
  /\ state = Loaded(Zeros, ResetCpu)
  /\ at = "init" /\ code = 0 /\ is_error = FALSE /\ banks = 0

Goto(place) == at' = place /\ UNCHANGED code
Return(c)   == at' = "return" /\ code' = c

-----------------------------------------------------------------------------

InitWindow ==
  /\ at = "init"
  /\ init
  /\ CASE opening' = "true"    -> Goto("load")
       [] opening' = "false"   -> Return(-1)
       [] opening' = "crashed" -> Goto("crashed")
       [] OTHER                -> Goto("init")
  /\ UNCHANGED <<loaderVars, state, is_error, banks>>

\* What get_memory_byte can reach of the vector, and what it finds behind it.
Image(buffer, behind) ==
  [i \in {j \in DOMAIN buffer : j < RomSize} \cup DOMAIN behind |->
     IF i \in DOMAIN buffer THEN buffer[i] ELSE behind[i]]

\* The rest of load_rom after a successful load: the banks' allocation can fail, and
\* nothing catches that.
Accept ==
  LET count == get_cartridge_info(rom'._cartridge).bank_count
  IN  /\ \E behind \in Heap : state' = [state EXCEPT !.rom = Image(rom'.buffer, behind)]
      /\ \/ banks' = count /\ Goto("loop")
         \/ count > 0 /\ UNCHANGED banks /\ Goto("crashed")
      /\ UNCHANGED is_error

RejectSlip ==     \* not a word to main() of the failure
  is_error' = TRUE /\ Goto("loop") /\ UNCHANGED <<state, banks>>

\* main() returns as soon as load_rom has failed.
Reject == is_error' = TRUE /\ Return(-2) /\ UNCHANGED <<state, banks>>

LoadRom ==
  /\ at = "load"
  /\ load
  /\ CASE loading' = "true"  -> Accept
       [] loading' = "false" -> Reject
       [] OTHER -> /\ Goto(IF loading' = "crashed" THEN "crashed" ELSE "load")
                   /\ UNCHANGED <<state, is_error, banks>>
  /\ UNCHANGED windowVars

Loop ==
  /\ at = "loop"
  /\ IF is_error THEN Return(0) /\ UNCHANGED state
     ELSE /\ process
          /\ CASE state'.status = "running"  -> Goto("loop")
               [] state'.status = "panicked" -> at' = "exited" /\ code' = -1
               [] state'.status = "crashed"  -> Goto("crashed")
  /\ UNCHANGED <<windowVars, loaderVars, is_error, banks>>

\* ~State() and ~Window()
Unwind ==
  /\ at = "return"
  /\ Destroy
  /\ Goto("exited")
  /\ UNCHANGED <<loaderVars, state, is_error, banks>>

Environment ==
  /\ at = "load"
  /\ FileChanges
  /\ UNCHANGED <<windowVars, state, at, code, is_error, banks>>

Ended == at \in {"exited", "crashed"} /\ UNCHANGED mainVars

main == InitWindow \/ LoadRom \/ Loop \/ Unwind

MainNext == main \/ Environment \/ Ended

\* main() is one thread and waits for nobody.  For the loop the condition for a
\* step is written out: process() can always be called.
MainFairness ==
  /\ WF_mainVars(InitWindow)
  /\ WF_mainVars(LoadRom)
  /\ WF_mainVars(Unwind)
  /\ []<>(at # "loop") \/ []<><<Loop>>_mainVars

MainSpec == MainInit /\ [][MainNext]_mainVars /\ MainFairness

-----------------------------------------------------------------------------
(* Objects and what they own *)

\* Whichever call fails, no function of SDL is given a window or surface that is
\* gone: cleanup() gives the surface back before the window that owns it, and the
\* Window's handles are live whenever main() is outside it.
NoDangling ==
  /\ ~sdl.fault
  /\ handles.window # NULL => handles.window \in DOMAIN sdl.windows
  /\ handles.screenSurface # NULL =>
       sdl.windows[handles.window] = handles.screenSurface
         /\ handles.screenSurface \in DOMAIN sdl.surfaces

\* A main() that returns leaves no window and no surface behind, from wherever in
\* init() or load_rom it turned back.  One that panics leaves both to the system.
CleanReturn ==
  at = "exited" =>
    IF state.status = "panicked"
    THEN handles.window \in DOMAIN sdl.windows /\ handles.screenSurface \in DOMAIN sdl.surfaces
    ELSE DOMAIN sdl.windows = {} /\ DOMAIN sdl.surfaces = {} /\ handles = NoHandles

\* SDL's subsystem counts tell what is running: there is a video device exactly
\* when video is counted, video holds events twice (once for itself), and a start
\* that failed leaves no device, although it may leave events counted once or twice.
SubsystemsCounted ==
  /\ sdl.device <=> sdl.video = 1
  /\ sdl.device => sdl.events = 2
  /\ at \in {"load", "loop"} => sdl.device

-----------------------------------------------------------------------------
(* The file *)

Entered == at = "load" /\ at' = "loop"

HeaderMatches ==
  /\ LogoMatches /\ TypeMatches /\ RomSizeMatches /\ RamSizeMatches
  /\ banks = (IF rom.buffer[TypeAt] = 0 THEN 128 ELSE 0)

\* The loop is entered, when the vector holds the whole header, only with a header
\* validate_rom accepts and with the members it says; only a RAM size nobody knows
\* leaves its member as it was.  The banks follow from the cartridge type.
AcceptedHeader == [][Entered /\ Size(rom'.buffer) >= Whole => HeaderMatches']_mainVars

\* While load() reads, the file holds f.
Undisturbed(f) == loading = "read" => file = f

\* A file that nobody writes to between the measurement and the last block arrives whole
\* and unchanged: whatever fails or is measured wrongly, load() does not return true with
\* a part of it, with bytes that resize() put there, or with more than it has.  (Of one
\* that is written to, MainInv says that each block is genuine.)
WholeImage == \A f \in Files : []Undisturbed(f) => [](loading = "true" => rom.buffer = f)

\* main() faults before the loop in four cases only: SDL gave no surface for the
\* window it made, the vector (of the length measured) or the banks could not be
\* allocated, or the vector ended before the header did.  In the loop it does not fault
\* (the boot ROM panics first).
StartupCrashes ==
  at = "crashed" =>
    \/ handles.window # NULL /\ handles.screenSurface = NULL /\ loading = "open"
    \/ loading = "crashed" /\ fsize # 0 /\ rom.buffer = Zeros
    \/ loading = "true" /\ banks < get_cartridge_info(rom._cartridge).bank_count
    \/ loading = "crashed" /\ fsize = Size(rom.buffer) /\ fsize < Whole

-----------------------------------------------------------------------------
(* The end *)

\* The exit code tells a bad ROM from everything else: -2 exactly when the window
\* was opened and load_rom failed.  -1 is a window that did not open or a panic.
\* main() never returns 0: its loop has no other way out than a panic.
ExitCodes ==
  at = "exited" =>
    /\ code = -2 <=> opening = "true" /\ loading = "false"
    /\ code = -1 <=> opening = "false" \/ state.status = "panicked"
    /\ code # 0

\* The emulator always comes to an end, however SDL, the file and another program
\* that writes to it behave: with the boot ROM it has, at the latest by the panic.
Ends == <>(at \in {"exited", "crashed"})

-----------------------------------------------------------------------------

\* Where main() is tells how init() and load_rom ended, whether the handles are set,
\* what the exit code is and whether the machine runs.
PlaceInv ==
  /\ at = "init" => opening \in {"SDL_Init", "SDL_CreateWindow", "SDL_GetWindowSurface"}
  /\ at \in {"load", "loop"} => opening = "true"
  /\ at = "load" => loading \in {"open"} \cup Reading \cup Validating
  /\ at = "loop" => loading = "true" /\ state.status = "running"
  /\ loading # "open" => opening = "true"
  /\ at \in {"return", "exited"} /\ code = -1 /\ state.status = "running" =>
       opening = "false" /\ loading = "open"
  /\ at \in {"return", "exited"} /\ code # -1 => code = -2 /\ opening = "true" /\ loading = "false"
  /\ at = "exited" /\ state.status = "running" => handles = NoHandles
  /\ opening = "true" /\ (at # "exited" \/ code = -1) => handles.screenSurface # NULL
  /\ at = "return" => state.status = "running"
  /\ at = "crashed" => \/ opening = "crashed" /\ loading = "open"
                       \/ loading = "crashed"
                       \/ loading = "true" /\ state.status = "crashed"
                       \/ loading = "true" /\ banks < get_cartridge_info(rom._cartridge).bank_count
  /\ state.status # "running" => /\ loading = "true"
                                 /\ at = (IF state.status = "panicked" THEN "exited" ELSE "crashed")
  /\ loading = "true" /\ at # "crashed" => banks = get_cartridge_info(rom._cartridge).bank_count
  /\ loading # "true" => banks = 0
  /\ is_error => loading = "false"

\* What is true wherever main() is; every property above follows from it.
MainInv == MainTypeOK /\ WindowInv /\ LoaderInv /\ PlaceInv
=============================================================================
