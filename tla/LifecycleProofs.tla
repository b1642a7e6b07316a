-------------------------- MODULE LifecycleProofs ---------------------------
(***************************************************************************)
(* The life of the process for any files, any garbage behind the vector,   *)
(* any addresses of windows and surfaces, any boot image and any width of  *)
(* the cycle counter: MainInv is inductive, and what the Lifecycle module  *)
(* promises follows from it.                                               *)
(***************************************************************************)
EXTENDS Lifecycle, BootProofs, FiniteSetTheorems

-----------------------------------------------------------------------------
(* What class Window owns of SDL: its handles are live from the call that  *)
(* sets them to the one that gives them back, whichever call of init()     *)
(* fails, for any number of addresses the allocator can choose from        *)

\* SDL_VideoQuit finds no window left to destroy.
LEMMA NoWindowToDestroy ==
  ASSUME NEW s
  PROVE  FoldSet(SDL_DestroyWindow, s, {}) = s
<1> DEFINE Body(f, x) == IF x = {} THEN s
                         ELSE LET w == CHOOSE w \in x : TRUE
                              IN  SDL_DestroyWindow(w, f[x \ {w}])
           iter == CHOOSE f : f = [x \in SUBSET {} |-> Body(f, x)]
           none == [x \in SUBSET {} |-> s]
<1>1. none = [x \in SUBSET {} |-> Body(none, x)]
  OBVIOUS
<1> HIDE DEF Body
<1>2. iter = [x \in SUBSET {} |-> Body(iter, x)]
  <2> HIDE DEF none
  <2> QED BY <1>1
<1>3. iter[{}] = s
  <2> HIDE DEF iter
  <2> QED BY <1>2 DEF Body
<1>4. FoldSet(SDL_DestroyWindow, s, {}) = iter[{}]
  BY DEF FoldSet, MapThenFoldSet, Body
<1> QED
  BY <1>3, <1>4

\* The library without a window or a surface, and with it the counts of SDL.
Clear(s) == SdlOK(s) /\ ~s.fault /\ DOMAIN s.windows = {} /\ DOMAIN s.surfaces = {}
Stopped(s) == Clear(s) /\ ~s.device /\ s.video = 0 /\ s.events \in 0..2
Playing(s) == Clear(s) /\ s.device /\ s.video = 1 /\ s.events = 2

\* The counts and the device of SDL's record can be set one by one.
LEMMA CountsType ==
  ASSUME NEW s, Clear(s), NEW n \in RefCount
  PROVE  Clear([s EXCEPT !.events = n]) /\ Clear([s EXCEPT !.video = n])
BY DEF Clear, SdlOK

\* The same of the device.
LEMMA DeviceType ==
  ASSUME NEW s, Clear(s), NEW b \in BOOLEAN
  PROVE  Clear([s EXCEPT !.device = b])
BY DEF Clear, SdlOK

\* Starting SDL counts video once and events twice or leaves no device, and
\* touches no window.
LEMMA SdlInitOutcomes ==
  ASSUME NEW s, Stopped(s), s.events = 0, NEW o \in SDL_Init(s)
  PROVE  IF o.ret < 0 THEN Stopped(o.st) ELSE Playing(o.st)
<1> DEFINE once   == [s EXCEPT !.events = 1]
           twice  == [once EXCEPT !.events = 2]
           chosen == [twice EXCEPT !.device = TRUE]
           back   == [chosen EXCEPT !.events = 1]
           quit   == [back EXCEPT !.device = FALSE]
           video  == [chosen EXCEPT !.video = 1]
<1>1. 1 \in RefCount /\ 2 \in RefCount /\ Clear(s)
  BY DEF RefCount, Stopped
<1>2. Clear(once)
  BY <1>1, CountsType
<1>3. Clear(twice)
  BY <1>1, <1>2, CountsType
<1>4. Clear(chosen)
  BY <1>3, DeviceType
<1>5. Clear(back)
  BY <1>1, <1>4, CountsType
<1>6. Clear(quit)
  BY <1>5, DeviceType
<1>7. Clear(video)
  BY <1>1, <1>4, CountsType
<1>8. Stopped(s) /\ Stopped(once) /\ Stopped(twice) /\ Stopped(quit) /\ Playing(video)
  BY <1>2, <1>3, <1>6, <1>7 DEF Stopped, Playing, Clear, SdlOK
<1>9. \A e \in InitEvents(s) : e = Outcome(-1, s) \/ e = Outcome(0, once)
  BY DEF InitEvents
<1>10. SDL_VideoQuit(once) = once
  BY DEF SDL_VideoQuit, Stopped, Clear, SdlOK
<1>11. \A e \in InitEvents(once) : e = Outcome(-1, once) \/ e = Outcome(0, twice)
  BY <1>2 DEF InitEvents, Clear, SdlOK
<1>12. SDL_VideoQuit(chosen) = quit
  <2>1. QuitEvents(chosen) = back
    BY <1>3 DEF QuitEvents, Clear, SdlOK
  <2>2. chosen.device /\ DOMAIN chosen.windows = {}
    BY <1>3, <1>4 DEF Clear, SdlOK
  <2> HIDE DEF chosen, back
  <2> QED
    BY <2>1, <2>2, NoWindowToDestroy DEF SDL_VideoQuit
<1>13. \A v \in SDL_VideoInit(once) :
         v \in {Outcome(-1, once), Outcome(-1, twice), Outcome(-1, quit), Outcome(0, chosen)}
  <2> HIDE DEF once, twice, quit
  <2> TAKE v \in SDL_VideoInit(once)
  <2>1. PICK e \in InitEvents(once) :
          v \in (IF e.ret < 0 THEN {e}
                 ELSE LET on == [e.st EXCEPT !.device = TRUE]
                      IN  {Outcome(-1, e.st), Outcome(-1, SDL_VideoQuit(on)), Outcome(0, on)})
    BY <1>10 DEF SDL_VideoInit
  <2>2. CASE e = Outcome(-1, once)
    BY <2>1, <2>2 DEF Outcome
  <2>3. CASE e = Outcome(0, twice)
    <3>1. e.ret = 0 /\ e.st = twice
      BY <2>3 DEF Outcome
    <3> QED BY <2>1, <3>1, <1>12
  <2> QED
    BY <1>11, <2>2, <2>3
<1>14. CountVideo(chosen) = video /\ ~(once.video > 0)
  <2>1. once.video = 0 /\ twice.video = 0
    BY <1>8 DEF Stopped
  <2>2. chosen.video = 0
    BY <1>3, <2>1 DEF Clear, SdlOK
  <2> HIDE DEF once, chosen
  <2> QED
    BY <2>1, <2>2 DEF CountVideo
<1>15. o \in {Outcome(-1, s), Outcome(-1, once), Outcome(-1, twice), Outcome(-1, quit),
             Outcome(0, video)}
  <2> HIDE DEF once, twice, quit, chosen, video
  <2> QED
    BY <1>9, <1>13, <1>14 DEF SDL_Init, Outcome
<1> HIDE DEF once, twice, quit, chosen, video
<1> QED
  BY <1>8, <1>15 DEF Outcome

-----------------------------------------------------------------------------
(* The window and its surface *)

\* SDL plays and has one window w, without a surface or with the surface f.
Framed(w, s) ==
  /\ SdlOK(s) /\ ~s.fault /\ s.device /\ s.video = 1 /\ s.events = 2
  /\ DOMAIN s.windows = {w} /\ s.windows[w] = NULL /\ DOMAIN s.surfaces = {}
Painted(w, f, s) ==
  /\ SdlOK(s) /\ ~s.fault /\ s.device /\ s.video = 1 /\ s.events = 2
  /\ DOMAIN s.windows = {w} /\ s.windows[w] = f /\ f # NULL
  /\ DOMAIN s.surfaces = {f} /\ s.surfaces[f] = [refcount |-> 1, dontfree |-> TRUE]

\* A window the driver refuses is given back before the call returns.
LEMMA CreateWindowOutcomes ==
  ASSUME NEW s, Playing(s), NEW o \in SDL_CreateWindow(s)
  PROVE  IF o.ret = NULL THEN Playing(o.st)
         ELSE o.ret \in WindowAddresses /\ Framed(o.ret, o.st)
<1> DEFINE linked(w) == [s EXCEPT !.windows = With(@, w, NULL)]
<1>1. \/ o = Outcome(NULL, s)
      \/ \E w \in WindowAddresses :
           o = Outcome(NULL, SDL_DestroyWindow(w, linked(w))) \/ o = Outcome(w, linked(w))
  BY DEF SDL_CreateWindow, CreateOn, Playing
<1>2. ASSUME NEW w \in WindowAddresses
      PROVE  Framed(w, linked(w)) /\ w # NULL
  BY NullAssumption DEF Playing, Clear, SdlOK, Framed, With
<1>3. ASSUME NEW w \in WindowAddresses
      PROVE  Playing(SDL_DestroyWindow(w, linked(w)))
  <2> DEFINE l == linked(w)
  <2>1. Framed(w, l) /\ w # NULL
    BY <1>2
  <2> HIDE DEF linked
  <2>2. SDL_FreeSurface(NULL, l) = l
    BY DEF SDL_FreeSurface
  <2>3. SDL_DestroyWindow(w, l) = [l EXCEPT !.windows = Without(@, w)]
    BY <2>1, <2>2 DEF SDL_DestroyWindow, Dangling, Valid, Framed
  <2> QED
    BY <2>1, <2>3 DEF Framed, Playing, Clear, SdlOK, Without, Restrict
<1> HIDE DEF linked
<1> QED
  BY <1>1, <1>2, <1>3 DEF Outcome

\* The surface of a new window is the window's.
LEMMA GetSurfaceOutcomes ==
  ASSUME NEW w \in WindowAddresses, NEW s, Framed(w, s), NEW o \in SDL_GetWindowSurface(w, s)
  PROVE  IF o.ret = NULL THEN o.st = s
         ELSE o.ret \in SurfaceAddresses /\ Painted(w, o.ret, o.st)
<1> DEFINE made(f) == [s EXCEPT !.windows[w] = f,
                                !.surfaces = With(@, f, [refcount |-> 1, dontfree |-> TRUE])]
<1>1. \/ o = Outcome(NULL, s)
      \/ \E f \in SurfaceAddresses : o = Outcome(f, made(f))
  BY DEF SDL_GetWindowSurface, Dangling, Valid, Framed
<1>2. ASSUME NEW f \in SurfaceAddresses
      PROVE  Painted(w, f, made(f)) /\ f # NULL
  BY NullAssumption DEF Framed, Painted, SdlOK, With, Surface
<1> HIDE DEF made
<1> QED
  BY <1>1, <1>2 DEF Outcome

\* Drawing on live handles keeps SDL as it is.
LEMMA DrawingKeeps ==
  ASSUME NEW w, NEW f, NEW s, Painted(w, f, s)
  PROVE  SDL_UpdateWindowSurface(w, SDL_FillRect(f, s)) = s
BY DEF Painted, SDL_UpdateWindowSurface, SDL_FillRect, Dangling, Valid

\* cleanup() gives back the surface and then the window that owns it.
LEMMA CleanupOfBoth ==
  ASSUME handles.window \in WindowAddresses, handles.screenSurface \in SurfaceAddresses,
         Painted(handles.window, handles.screenSurface, sdl)
  PROVE  Playing(cleanup(sdl))
<1> DEFINE w == handles.window
           f == handles.screenSurface
           owned == [sdl EXCEPT !.surfaces[f].dontfree = FALSE]
           freed == [owned EXCEPT !.surfaces = Without(@, f)]
<1>1. w # NULL /\ f # NULL
  BY NullAssumption
<1>2. SDL_FreeSurface(f, sdl) = sdl
  BY <1>1 DEF SDL_FreeSurface, Painted
<1>3. SDL_FreeSurface(f, owned) = freed
  BY <1>1 DEF SDL_FreeSurface, Painted, SdlOK, Surface
<1>4. SDL_DestroyWindow(w, sdl) = [freed EXCEPT !.windows = Without(@, w)]
  BY <1>1, <1>3 DEF SDL_DestroyWindow, Painted, Dangling, Valid
<1>5. Playing(SDL_DestroyWindow(w, sdl))
  <2> DEFINE none == [a \in {} |-> NULL]
  <2>1. Without(sdl.windows, w) = none
    BY DEF Painted, Without, Restrict
  <2>2. Without(owned.surfaces, f) = none
    BY DEF Painted, SdlOK, Without, Restrict
  <2>3. [freed EXCEPT !.windows = Without(@, w)] = [sdl EXCEPT !.windows = none, !.surfaces = none]
    BY <2>1, <2>2 DEF Painted, SdlOK
  <2>4. /\ DOMAIN none = {} /\ none \in [{} -> SurfaceAddresses \cup {NULL}]
        /\ none \in [{} -> Surface]
    OBVIOUS
  <2> HIDE DEF none, freed
  <2>5. Playing([sdl EXCEPT !.windows = none, !.surfaces = none])
    BY <2>4 DEF Painted, Playing, Clear, SdlOK
  <2> QED
    BY <1>4, <2>3, <2>5
<1> QED
  BY <1>1, <1>2, <1>5 DEF cleanup

-----------------------------------------------------------------------------
(* Class Window *)

\* The program starts without a device, a window or a surface.
LEMMA WindowStarts ==
  ASSUME NEW ready \in BOOLEAN, sdl = SDL_SetMainReady(Unloaded(ready)), WindowInit
  PROVE  WindowTypeOK /\ WindowInv
<1> DEFINE s == [ready |-> TRUE, events |-> 0, video |-> 0, device |-> FALSE,
                 windows |-> Nothing, surfaces |-> Nothing, fault |-> FALSE]
<1>1. sdl = s
  BY DEF SDL_SetMainReady, Unloaded
<1>2. /\ DOMAIN Nothing = {}
      /\ Nothing \in [{} -> SurfaceAddresses \cup {NULL}]
      /\ Nothing \in [{} -> Surface]
  BY DEF Nothing
<1>3. SdlOK(sdl)
  <2>1. 0 \in RefCount
    BY DEF RefCount
  <2> QED BY <1>1, <1>2, <2>1 DEF SdlOK
<1>4. handles = NoHandles /\ opening = "SDL_Init"
  BY DEF WindowInit
<1> QED
  BY <1>1, <1>2, <1>3, <1>4 DEF WindowTypeOK, WindowInv, NoHandles

\* Every call of init() keeps the invariant, and a true result comes with both
\* handles set.
LEMMA InitKeeps ==
  ASSUME WindowTypeOK, WindowInv, init
  PROVE  /\ WindowTypeOK' /\ WindowInv'
         /\ opening' = "true" => handles'.screenSurface # NULL
         /\ opening' # "SDL_Init"
<1>1. ASSUME NEW s, NEW h, sdl' = s, handles' = NoHandles,
             \/ opening' = "false" /\ (Stopped(s) \/ Playing(s))
             \/ opening' = "SDL_CreateWindow" /\ Playing(s)
      PROVE  WindowTypeOK' /\ WindowInv'
  BY <1>1 DEF WindowTypeOK, WindowInv, NoHandles, Stopped, Playing, Clear
<1>2. CASE StartSdl
  <2>1. handles = NoHandles
    BY <1>2 DEF StartSdl, WindowTypeOK, WindowInv, NoHandles
  <2>2. cleanup(sdl) = sdl
    BY <2>1 DEF cleanup, NoHandles, SDL_FreeSurface
  <2>3. Stopped(sdl) /\ sdl.events = 0
    BY <1>2, <2>1 DEF StartSdl, WindowTypeOK, WindowInv, NoHandles, Stopped, Clear
  <2>4. PICK o \in SDL_Init(sdl) :
          /\ sdl' = o.st
          /\ opening' = IF o.ret < 0 THEN "false" ELSE "SDL_CreateWindow"
    BY <1>2, <2>2 DEF StartSdl
  <2>5. IF o.ret < 0 THEN Stopped(o.st) ELSE Playing(o.st)
    BY <2>3, SdlInitOutcomes
  <2>6. handles' = NoHandles
    BY <1>2 DEF StartSdl
  <2> QED BY <1>1, <2>4, <2>5, <2>6
<1>3. CASE OpenWindow
  <2>1. handles = NoHandles
    BY <1>3 DEF OpenWindow, WindowTypeOK, WindowInv, NoHandles
  <2>2. Playing(sdl)
    BY <1>3, <2>1 DEF OpenWindow, WindowTypeOK, WindowInv, NoHandles, Playing, Clear
  <2>3. PICK o \in SDL_CreateWindow(sdl) :
          /\ sdl' = o.st
          /\ handles' = [handles EXCEPT !.window = o.ret]
          /\ opening' = IF o.ret = NULL THEN "false" ELSE "SDL_GetWindowSurface"
    BY <1>3 DEF OpenWindow
  <2>4. IF o.ret = NULL THEN Playing(o.st)
        ELSE o.ret \in WindowAddresses /\ Framed(o.ret, o.st)
    BY <2>2, CreateWindowOutcomes
  <2>5. CASE o.ret = NULL
    <3>1. handles' = NoHandles
      BY <2>1, <2>3, <2>5 DEF NoHandles
    <3> QED BY <1>1, <2>3, <2>4, <2>5, <3>1
  <2>6. CASE o.ret # NULL
    <3>1. handles' = [window |-> o.ret, screenSurface |-> NULL]
      BY <2>1, <2>3 DEF NoHandles
    <3> QED BY <2>3, <2>4, <2>6, <3>1 DEF WindowTypeOK, WindowInv, Framed
  <2> QED BY <2>5, <2>6
<1>4. CASE PaintWindow
  <2> DEFINE w == handles.window
  <2>1. /\ w \in WindowAddresses /\ Framed(w, sdl) /\ handles.screenSurface = NULL
        /\ handles = [window |-> w, screenSurface |-> NULL]
    BY <1>4 DEF PaintWindow, WindowTypeOK, WindowInv, Framed
  <2>2. PICK o \in SDL_GetWindowSurface(w, sdl) :
          /\ handles' = [handles EXCEPT !.screenSurface = o.ret]
          /\ IF o.ret = NULL
             THEN opening' = "crashed" /\ sdl' = o.st
             ELSE /\ opening' = "true"
                  /\ sdl' = SDL_UpdateWindowSurface(w, SDL_FillRect(o.ret, o.st))
    BY <1>4 DEF PaintWindow
  <2>3. IF o.ret = NULL THEN o.st = sdl
        ELSE o.ret \in SurfaceAddresses /\ Painted(w, o.ret, o.st)
    BY <2>1, GetSurfaceOutcomes
  <2>4. handles' = [window |-> w, screenSurface |-> o.ret]
    BY <2>1, <2>2
  <2>5. w # NULL
    BY <2>1, NullAssumption
  <2>6. CASE o.ret = NULL
    BY <2>1, <2>2, <2>3, <2>4, <2>5, <2>6 DEF WindowTypeOK, WindowInv, Framed
  <2>7. CASE o.ret # NULL
    <3>1. sdl' = o.st /\ Painted(w, o.ret, o.st)
      BY <2>2, <2>3, <2>7, DrawingKeeps
    <3> QED
      BY <2>1, <2>2, <2>3, <2>4, <2>5, <2>7, <3>1 DEF WindowTypeOK, WindowInv, Painted
  <2> QED BY <2>6, <2>7
<1> QED
  BY <1>2, <1>3, <1>4 DEF init

\* The destructor gives back what init() left, whether it failed or not.
LEMMA DestroyKeeps ==
  ASSUME WindowTypeOK, WindowInv, Destroy, opening \in {"true", "false"},
         opening = "true" => handles.screenSurface # NULL
  PROVE  /\ WindowTypeOK' /\ WindowInv'
         /\ handles' = NoHandles /\ opening' = opening
<1>1. (opening = "false" /\ Stopped(sdl')) \/ Playing(sdl')
  <2>1. CASE opening = "false"
    <3>1. handles = NoHandles
      BY <2>1 DEF WindowTypeOK, WindowInv, NoHandles
    <3>2. cleanup(sdl) = sdl
      BY <3>1 DEF cleanup, NoHandles, SDL_FreeSurface
    <3> QED
      BY <3>1, <3>2 DEF Destroy, WindowTypeOK, WindowInv, NoHandles, Stopped, Playing, Clear
  <2>2. CASE opening = "true"
    <3>1. handles.window \in WindowAddresses /\ handles.screenSurface \in SurfaceAddresses
      BY <2>2 DEF WindowTypeOK, WindowInv
    <3>2. Painted(handles.window, handles.screenSurface, sdl)
      BY <2>2, <3>1, NullAssumption DEF WindowTypeOK, WindowInv, Painted
    <3> QED BY <3>1, <3>2, CleanupOfBoth DEF Destroy
  <2> QED BY <2>1, <2>2
<1> QED
  BY <1>1 DEF Destroy, WindowTypeOK, WindowInv, NoHandles, Stopped, Playing, Clear

-----------------------------------------------------------------------------
(* The loader's operators *)

\* The size of a vector of n bytes is n.
LEMMA SizeOfVector ==
  ASSUME NEW n \in Nat, NEW buffer, DOMAIN buffer = 0..(n - 1)
  PROVE  Size(buffer) = n
BY FS_Interval DEF Size

\* An empty vector.
LEMMA SizeOfZeros == Size(Zeros) = 0 /\ Zeros \in [0..(0 - 1) -> Byte]
<1>1. DOMAIN Zeros = 0..(0 - 1) /\ Zeros \in [0..(0 - 1) -> Byte]
  BY DEF Zeros
<1> QED
  BY <1>1, SizeOfVector

\* The logo lies between the name and the bytes that describe the cartridge.
LEMMA HeaderLayout ==
  /\ DOMAIN expected = 1..48 /\ LogoEnd = 308
  /\ LogoAt = 260 /\ NameEnd = 316 /\ TypeAt = 327 /\ RomSizeAt = 328 /\ RamSizeAt = 329
  /\ Whole = 330
BY DEF expected, LogoEnd, LogoAt, NameAt, NameEnd, TypeAt, RomSizeAt, RamSizeAt, Whole

\* Every code names a cartridge, and 0 is the one with banks.
LEMMA CartridgeNames ==
  \A c \in DOMAIN CartridgeTypes :
    /\ CartridgeTypes[c] # "unset"
    /\ CartridgeTypes[c] = "RomOnly" <=> c = 0
BY DEF CartridgeTypes

\* A file is longer than any index into it.
LEMMA FileType ==
  ASSUME NEW f \in Files
  PROVE  f # NoFile /\ Size(f) \in Nat /\ f \in [0..(Size(f) - 1) -> Byte]
BY FilesAssumption

-----------------------------------------------------------------------------
(* Rom::load and validate_rom *)

\* The members of class Rom before the first load.
LEMMA LoaderStarts ==
  ASSUME LoaderInit
  PROVE  LoaderTypeOK /\ LoaderInv
BY SizeOfZeros, HeaderLayout
   DEF LoaderInit, LoaderTypeOK, LoaderInv, Reading, Validating, TypeChecked, RomSizeChecked

\* Opening the file.
LEMMA OpenKeeps ==
  ASSUME LoaderTypeOK, LoaderInv, Open
  PROVE  LoaderTypeOK' /\ LoaderInv'
BY FileType, SizeOfZeros, HeaderLayout
   DEF Open, Fail, LoaderTypeOK, LoaderInv, Reading, Validating, TypeChecked, RomSizeChecked

\* What the two positions can differ by.
LEMMA MeasuredLengths ==
  ASSUME file \in Files, NEW n \in Measured
  PROVE  n \in {Size(file), Size(file) + 1, 0, -1} /\ n \in Nat \cup {-1}
<1>1. Size(file) \in Nat
  BY FileType
<1> QED
  BY <1>1 DEF Measured

\* Measuring the file.
LEMMA MeasureKeeps ==
  ASSUME LoaderTypeOK, LoaderInv, Measure
  PROVE  LoaderTypeOK' /\ LoaderInv'
<1>1. file \in Files /\ rom.buffer = Zeros /\ loading = "tellg" /\ got = 0 /\ got' = 0
  BY DEF Measure, LoaderTypeOK, LoaderInv, Reading
<1>2. CASE Fail /\ UNCHANGED <<fsize, rom>>
  BY <1>1, <1>2, SizeOfZeros, HeaderLayout
     DEF Fail, LoaderTypeOK, LoaderInv, Reading, Validating, TypeChecked, RomSizeChecked
<1>3. CASE /\ fsize' \in Measured /\ fsize' >= 0
           /\ rom' = [rom EXCEPT !.buffer = [i \in 0..(fsize' - 1) |-> 0]]
           /\ loading' = "read" /\ UNCHANGED file
  <2> DEFINE zero == [i \in 0..(fsize' - 1) |-> 0]
  <2>1. Size(zero) = fsize' /\ fsize' \in Nat
    <3>1. fsize' \in Nat
      BY <1>1, <1>3, MeasuredLengths
    <3> QED BY <3>1, SizeOfVector
  <2>2. zero \in [0..(fsize' - 1) -> Byte]
    BY DEF Byte, MaxByte
  <2> HIDE DEF zero
  <2>3. rom' = [rom EXCEPT !.buffer = zero] /\ rom'.buffer = zero
    BY <1>3 DEF LoaderTypeOK, zero
  <2>4. Genuine'
    <3>1. \A e \in BlockEnds \cup {0} : Block(e)' = {}
      BY <1>1, BlockEndsAssumption DEF Block
    <3> QED BY <1>1, <3>1 DEF Genuine
  <2> QED
    BY <1>1, <1>3, <2>1, <2>2, <2>3, <2>4, FileType
       DEF LoaderTypeOK, LoaderInv, Measure, Reading, Validating, TypeChecked, RomSizeChecked
<1>4. CASE /\ fsize' \in Measured /\ fsize' # 0
           /\ loading' = "crashed" /\ UNCHANGED <<file, rom>>
  <2>1. fsize' \in Nat \cup {-1}
    BY <1>1, <1>4, MeasuredLengths
  <2> QED
    BY <1>1, <1>4, <2>1, SizeOfZeros, HeaderLayout, FileType
       DEF LoaderTypeOK, LoaderInv, Measure, Reading, Validating, TypeChecked, RomSizeChecked
<1> QED
  BY <1>2, <1>3, <1>4 DEF Measure

\* What a step that reads up to e leaves.
ReadUpTo(e) ==
  /\ loading = "read" /\ e \in BlockEnds \cup {fsize} /\ e <= fsize /\ (got < e \/ e = fsize)
  /\ rom' = [rom EXCEPT !.buffer = Filled(e)] /\ got' = e /\ fsize' = fsize

\* The vector keeps its length, and the members of class Rom their values.
LEMMA FilledType ==
  ASSUME LoaderTypeOK, LoaderInv, NEW e, ReadUpTo(e)
  PROVE  /\ file \in Files /\ Size(file) \in Nat /\ file \in [0..(Size(file) - 1) -> Byte]
         /\ fsize \in Nat /\ got \in Nat /\ e \in Nat /\ got <= e /\ e <= fsize
         /\ got \in BlockEnds \cup {0}
         /\ rom.buffer \in [0..(fsize - 1) -> Byte]
         /\ Size(rom'.buffer) = fsize /\ rom'.buffer \in [0..(fsize - 1) -> Byte]
         /\ rom'.buffer = Filled(e)
         /\ rom' = [rom EXCEPT !.buffer = rom'.buffer]
         /\ rom'._cartridge = rom._cartridge /\ rom'._rom_size = rom._rom_size
         /\ rom'._ram_size = rom._ram_size
<1>1. loading = "read" /\ file \in Files /\ fsize = Size(rom.buffer) /\ Size(rom.buffer) \in Nat
  BY DEF ReadUpTo, LoaderTypeOK, LoaderInv, Reading
<1>2. Size(file) \in Nat /\ file \in [0..(Size(file) - 1) -> Byte]
  BY <1>1, FileType
<1>3. /\ fsize \in Nat /\ got \in Nat /\ e \in Nat /\ got <= e /\ e <= fsize
      /\ got \in BlockEnds \cup {0}
  BY <1>1, BlockEndsAssumption DEF ReadUpTo, LoaderTypeOK, LoaderInv
<1>4. rom.buffer \in [0..(fsize - 1) -> Byte]
  BY <1>1 DEF LoaderTypeOK
<1>5. Filled(e) \in [0..(fsize - 1) -> Byte]
  BY <1>2, <1>4 DEF Filled
<1>6. Size(Filled(e)) = fsize
  BY <1>3, <1>5, SizeOfVector
<1>7. rom' = [rom EXCEPT !.buffer = Filled(e)] /\ rom'.buffer = Filled(e)
  BY DEF ReadUpTo, LoaderTypeOK
<1> HIDE DEF Filled
<1> QED
  BY <1>1, <1>2, <1>3, <1>4, <1>5, <1>6, <1>7 DEF LoaderTypeOK

\* A block that was not cut short is the file's, and those before it are as they were.
LEMMA BlockIsGenuine ==
  ASSUME LoaderTypeOK, LoaderInv, NEW e, ReadUpTo(e), ~(Size(file) < e)
  PROVE  Genuine'
<1> USE FilledType
<1>1. Genuine
  BY DEF LoaderInv, ReadUpTo
<1>2. SUFFICES ASSUME NEW a \in BlockEnds \cup {0}
               PROVE  \E f \in Files : \A i \in Block(a)' : i \in DOMAIN f /\ rom'.buffer[i] = f[i]
  BY DEF Genuine
<1>3. a \in Nat /\ got' = e
  BY BlockEndsAssumption DEF ReadUpTo
<1>4. CASE a < got
  <2>1. Block(a)' \subseteq Block(a)
    <3> SUFFICES ASSUME NEW i \in Block(a)' PROVE i \in Block(a)
      OBVIOUS
    <3>1. i \in a..(e - 1) /\ \A x \in BlockEnds : a < x => i < x
      BY <1>3 DEF Block
    <3>2. got \in BlockEnds
      BY <1>3, <1>4
    <3> QED
      BY <1>3, <1>4, <3>1, <3>2 DEF Block
  <2>2. PICK f \in Files : \A i \in Block(a) : i \in DOMAIN f /\ rom.buffer[i] = f[i]
    BY <1>1 DEF Genuine
  <2>3. ASSUME NEW i \in Block(a)
        PROVE  rom'.buffer[i] = rom.buffer[i]
    <3>1. i \in 0..(got - 1) /\ i \in 0..(fsize - 1)
      BY <1>3 DEF Block
    <3>2. i \notin got..(e - 1) /\ i \in DOMAIN rom.buffer
      BY <3>1
    <3>3. rom'.buffer = Filled(e)
      OBVIOUS
    <3> QED
      BY <3>2, <3>3 DEF Filled
  <2> QED
    BY <2>1, <2>2, <2>3
<1>5. CASE ~(a < got)
  <2>1. ASSUME NEW i \in Block(a)'
        PROVE  i \in DOMAIN file /\ rom'.buffer[i] = file[i]
    <3>1. i \in got..(e - 1) /\ i \in 0..(fsize - 1)
      BY <1>3, <1>5 DEF Block
    <3>2. i \in DOMAIN file
      BY <3>1
    <3> QED
      BY <3>1, <3>2 DEF Filled
  <2> QED
    BY <2>1
<1> QED
  BY <1>4, <1>5

\* Reading it, block by block.
LEMMA ReadBlockKeeps ==
  ASSUME LoaderTypeOK, LoaderInv, ReadBlock
  PROVE  LoaderTypeOK' /\ LoaderInv'
<1>1. CASE Fail /\ UNCHANGED <<got, rom>>
  BY <1>1, HeaderLayout
     DEF ReadBlock, Fail, LoaderTypeOK, LoaderInv, Reading, Validating, TypeChecked, RomSizeChecked
<1>2. ASSUME NEW e, ReadUpTo(e),
             IF Size(file) < e THEN Fail
             ELSE IF e = fsize THEN file' = NoFile /\ loading' = "name"
             ELSE UNCHANGED <<file, loading>>
      PROVE  LoaderTypeOK' /\ LoaderInv'
  <2>1. /\ fsize \in Nat /\ e \in Nat /\ file \in Files /\ file # NoFile /\ e <= fsize
        /\ Size(rom'.buffer) = fsize /\ rom'.buffer \in [0..(fsize - 1) -> Byte]
        /\ rom' = [rom EXCEPT !.buffer = rom'.buffer] /\ rom'._ram_size = rom._ram_size
    BY <1>2, FilledType, FileType
  <2>2. /\ loading = "read" /\ got' = e /\ fsize' = fsize /\ e \in BlockEnds \cup {fsize}
        /\ rom._ram_size = "unset"
    BY <1>2 DEF ReadUpTo, LoaderInv
  <2>3. \/ file' = NoFile /\ loading' = "false"
        \/ file' = NoFile /\ loading' = "name" /\ e = fsize /\ Genuine'
        \/ file' = file /\ loading' = "read" /\ e \in BlockEnds /\ Genuine'
    BY <1>2, <2>2, BlockIsGenuine DEF Fail
  <2>4. LoaderTypeOK'
    BY <2>1, <2>2, <2>3 DEF LoaderTypeOK, Reading, Validating
  <2> QED
    BY <2>1, <2>2, <2>3, <2>4
       DEF LoaderInv, Reading, Validating, TypeChecked, RomSizeChecked
<1> QED
  BY <1>1, <1>2 DEF ReadBlock, ReadUpTo

\* Another program's write to it.
LEMMA FileChangesKeeps ==
  ASSUME LoaderTypeOK, LoaderInv, FileChanges
  PROVE  LoaderTypeOK' /\ LoaderInv'
<1>1. /\ file' \in Files /\ file' # NoFile
      /\ fsize' = fsize /\ got' = got /\ rom' = rom /\ loading' = loading
  BY FileType DEF FileChanges
<1>2. Genuine' <=> Genuine
  BY <1>1 DEF Genuine, Block
<1>3. /\ LogoMatches' <=> LogoMatches
      /\ TypeMatches' <=> TypeMatches
      /\ RomSizeMatches' <=> RomSizeMatches
      /\ RamSizeMatches' <=> RamSizeMatches
  BY <1>1 DEF LogoMatches, TypeMatches, RomSizeMatches, RamSizeMatches
<1> QED
  BY <1>1, <1>2, <1>3 DEF FileChanges, LoaderTypeOK, LoaderInv

\* A step of validate_rom changes neither the vector nor the stream.
LEMMA VectorKept ==
  ASSUME rom'.buffer = rom.buffer, got' = got
  PROVE  /\ Size(rom'.buffer) = Size(rom.buffer)
         /\ Genuine => Genuine'
         /\ LogoMatches => LogoMatches'
         /\ rom'._cartridge = rom._cartridge /\ TypeMatches => TypeMatches'
         /\ rom'._rom_size = rom._rom_size /\ RomSizeMatches => RomSizeMatches'
BY DEF Genuine, Block, LogoMatches, TypeMatches, RomSizeMatches

\* A byte of the header that lies in the vector is read from there.
LEMMA ReadInside ==
  ASSUME LoaderTypeOK, Size(rom.buffer) >= Whole, NEW addr \in Nat, addr < Whole,
         NEW b \in BytesAt(addr)
  PROVE  b = rom.buffer[addr]
BY HeaderLayout DEF BytesAt, PastEnd, LoaderTypeOK

\* An index past the end faults only when the file is shorter than the header.
LEMMA FaultKeeps ==
  ASSUME LoaderTypeOK, LoaderInv, FaultPastEnd
  PROVE  LoaderTypeOK' /\ LoaderInv'
<1>1. LastRead < Whole /\ LastRead \in Nat
  BY HeaderLayout DEF FaultPastEnd, LastRead, Validating
<1>2. Size(rom.buffer) < Whole /\ Size(rom.buffer) \in Nat
  BY <1>1, HeaderLayout DEF FaultPastEnd, PastEnd, LoaderTypeOK
<1>3. /\ loading \in Validating /\ loading' = "crashed"
      /\ file' = file /\ fsize' = fsize /\ got' = got /\ rom' = rom
  BY DEF FaultPastEnd
<1> QED
  BY <1>2, <1>3, HeaderLayout
     DEF LoaderTypeOK, LoaderInv, Reading, Validating, TypeChecked, RomSizeChecked

\* The name is only printed.
LEMMA PrintNameKeeps ==
  ASSUME LoaderTypeOK, LoaderInv, PrintName
  PROVE  LoaderTypeOK' /\ LoaderInv'
<1>1. /\ loading = "name" /\ loading' = "logo"
      /\ file' = file /\ fsize' = fsize /\ got' = got /\ rom' = rom
  BY DEF PrintName
<1> QED
  BY <1>1, VectorKept
     DEF LoaderTypeOK, LoaderInv, Reading, Validating, TypeChecked, RomSizeChecked

\* The logo is checked in full when the vector holds it.
LEMMA CheckLogoKeeps ==
  ASSUME LoaderTypeOK, LoaderInv, CheckLogo
  PROVE  LoaderTypeOK' /\ LoaderInv'
<1>1. /\ loading = "logo" /\ loading' \in {"type", "false"}
      /\ file' = file /\ fsize' = fsize /\ got' = got /\ rom' = rom
  BY DEF CheckLogo
<1>2. ASSUME loading' = "type", Size(rom.buffer) >= Whole
      PROVE  LogoMatches
  <2>1. \A i \in DOMAIN expected : ~PastEnd(LogoAt + i - 1)
    <3>1. Size(rom.buffer) \in Nat /\ Size(rom.buffer) >= 330
      BY <1>2, HeaderLayout DEF LoaderTypeOK
    <3>2. \A i \in 1..48 : ~(260 + i - 1 >= Size(rom.buffer))
      BY <3>1
    <3> QED BY <3>2, HeaderLayout DEF PastEnd
  <2>2. ~LogoDiffers
    BY <1>2 DEF CheckLogo
  <2> QED BY <2>1, <2>2 DEF LogoDiffers, LogoRead, LogoMatches
<1>3. rom'.buffer = rom.buffer
  BY <1>1
<1> QED
  BY <1>1, <1>2, <1>3, VectorKept
     DEF LoaderTypeOK, LoaderInv, Reading, Validating, TypeChecked, RomSizeChecked

\* The cartridge type.
LEMMA CheckTypeKeeps ==
  ASSUME LoaderTypeOK, LoaderInv, CheckType
  PROVE  LoaderTypeOK' /\ LoaderInv'
<1>1. loading = "type" /\ file' = file /\ fsize' = fsize /\ got' = got
  BY DEF CheckType
<1>2. PICK b \in BytesAt(TypeAt) :
        IF b \in DOMAIN CartridgeTypes
        THEN rom' = [rom EXCEPT !._cartridge = CartridgeTypes[b]] /\ loading' = "rom_size"
        ELSE rom' = rom /\ loading' = "false"
  BY DEF CheckType
<1>3. CASE b \in DOMAIN CartridgeTypes
  <2>1. CartridgeTypes[b] \in Range(CartridgeTypes) /\ CartridgeTypes[b] # "unset"
    BY <1>3, CartridgeNames DEF Range
  <2>2. /\ loading' = "rom_size" /\ rom' = [rom EXCEPT !._cartridge = CartridgeTypes[b]]
        /\ rom'.buffer = rom.buffer /\ rom'._cartridge = CartridgeTypes[b]
        /\ rom'._rom_size = rom._rom_size /\ rom'._ram_size = rom._ram_size
    BY <1>2, <1>3 DEF LoaderTypeOK
  <2>3. ASSUME Size(rom.buffer) >= Whole
        PROVE  TypeMatches'
    <3>1. b = rom.buffer[TypeAt]
      BY <2>3, ReadInside, HeaderLayout
    <3> QED BY <1>3, <2>2, <3>1 DEF TypeMatches
  <2>4. LoaderTypeOK'
    BY <1>1, <2>1, <2>2, VectorKept DEF LoaderTypeOK, Validating
  <2> QED
    BY <1>1, <2>1, <2>2, <2>3, <2>4, VectorKept
       DEF LoaderInv, Reading, Validating, TypeChecked, RomSizeChecked
<1>4. CASE b \notin DOMAIN CartridgeTypes
  <2>1. rom' = rom /\ loading' = "false"
    BY <1>2, <1>4
  <2> QED
    BY <1>1, <2>1, VectorKept
       DEF LoaderTypeOK, LoaderInv, Reading, Validating, TypeChecked, RomSizeChecked
<1> QED
  BY <1>3, <1>4

\* The ROM size.
LEMMA CheckRomSizeKeeps ==
  ASSUME LoaderTypeOK, LoaderInv, CheckRomSize
  PROVE  LoaderTypeOK' /\ LoaderInv'
<1>1. loading = "rom_size" /\ file' = file /\ fsize' = fsize /\ got' = got
  BY DEF CheckRomSize
<1>2. PICK b \in BytesAt(RomSizeAt) :
        IF b \in DOMAIN RomSizes
        THEN rom' = [rom EXCEPT !._rom_size = RomSizes[b]] /\ loading' = "ram_size"
        ELSE rom' = rom /\ loading' = "false"
  BY DEF CheckRomSize
<1>3. CASE b \in DOMAIN RomSizes
  <2>1. RomSizes[b] \in Range(RomSizes)
    BY <1>3 DEF Range
  <2>2. /\ loading' = "ram_size" /\ rom' = [rom EXCEPT !._rom_size = RomSizes[b]]
        /\ rom'.buffer = rom.buffer /\ rom'._rom_size = RomSizes[b]
        /\ rom'._cartridge = rom._cartridge /\ rom'._ram_size = rom._ram_size
    BY <1>2, <1>3 DEF LoaderTypeOK
  <2>3. ASSUME Size(rom.buffer) >= Whole
        PROVE  RomSizeMatches'
    <3>1. b = rom.buffer[RomSizeAt]
      BY <2>3, ReadInside, HeaderLayout
    <3> QED BY <1>3, <2>2, <3>1 DEF RomSizeMatches
  <2>4. LoaderTypeOK'
    BY <1>1, <2>1, <2>2, VectorKept DEF LoaderTypeOK, Validating
  <2> QED
    BY <1>1, <2>1, <2>2, <2>3, <2>4, VectorKept
       DEF LoaderInv, Reading, Validating, TypeChecked, RomSizeChecked
<1>4. CASE b \notin DOMAIN RomSizes
  <2>1. rom' = rom /\ loading' = "false"
    BY <1>2, <1>4
  <2> QED
    BY <1>1, <2>1, VectorKept
       DEF LoaderTypeOK, LoaderInv, Reading, Validating, TypeChecked, RomSizeChecked
<1> QED
  BY <1>3, <1>4

\* The RAM size, which nothing rejects.
LEMMA CheckRamSizeKeeps ==
  ASSUME LoaderTypeOK, LoaderInv, CheckRamSize
  PROVE  LoaderTypeOK' /\ LoaderInv'
<1>1. /\ loading = "ram_size" /\ loading' = "true" /\ file' = file /\ fsize' = fsize /\ got' = got
      /\ rom._ram_size = "unset"
  BY DEF CheckRamSize, LoaderInv
<1>2. PICK b \in BytesAt(RamSizeAt) :
        rom' = IF b \in DOMAIN RamSizes THEN [rom EXCEPT !._ram_size = RamSizes[b]] ELSE rom
  BY DEF CheckRamSize
<1>3. /\ rom'.buffer = rom.buffer
      /\ rom'._cartridge = rom._cartridge /\ rom'._rom_size = rom._rom_size
      /\ rom'._ram_size = (IF b \in DOMAIN RamSizes THEN RamSizes[b] ELSE "unset")
  BY <1>1, <1>2 DEF LoaderTypeOK
<1>4. LoaderTypeOK'
  <2>1. b \in DOMAIN RamSizes => RamSizes[b] \in Range(RamSizes)
    BY DEF Range
  <2> QED BY <1>1, <1>2, <1>3, <2>1, VectorKept DEF LoaderTypeOK
<1>5. ASSUME Size(rom.buffer) >= Whole
      PROVE  RamSizeMatches'
  <2>1. b = rom.buffer[RamSizeAt]
    BY <1>5, ReadInside, HeaderLayout
  <2> QED BY <1>3, <2>1 DEF RamSizeMatches
<1> QED
  BY <1>1, <1>3, <1>4, <1>5, VectorKept
     DEF LoaderInv, Reading, Validating, TypeChecked, RomSizeChecked

\* Every step of load() keeps what the loader's invariant says of it.
LEMMA LoadKeeps ==
  ASSUME LoaderTypeOK, LoaderInv, load
  PROVE  LoaderTypeOK' /\ LoaderInv'
BY OpenKeeps, MeasureKeeps, ReadBlockKeeps, FaultKeeps, PrintNameKeeps, CheckLogoKeeps,
   CheckTypeKeeps, CheckRomSizeKeeps, CheckRamSizeKeeps DEF load

-----------------------------------------------------------------------------
(* main() *)

\* Steps that are not the loader's, or not the Window's, keep what is said of them.
LEMMA LoaderKept ==
  ASSUME LoaderTypeOK, LoaderInv, UNCHANGED loaderVars
  PROVE  LoaderTypeOK' /\ LoaderInv'
<1>1. /\ file' = file /\ fsize' = fsize /\ got' = got
      /\ rom' = rom /\ loading' = loading
  BY DEF loaderVars
<1> QED
  BY <1>1, VectorKept DEF LoaderTypeOK, LoaderInv, RamSizeMatches

\* The same of the Window.
LEMMA WindowKept ==
  ASSUME WindowTypeOK, WindowInv, UNCHANGED windowVars
  PROVE  WindowTypeOK' /\ WindowInv'
BY DEF windowVars, WindowTypeOK, WindowInv

\* What the machine can see of a vector, and of the memory behind it, is a ROM.
LEMMA ImageType ==
  ASSUME NEW n \in Nat, NEW buffer \in [0..(n - 1) -> Byte], NEW behind \in Heap
  PROVE  IsArray(Image(buffer, behind), RomSize)
<1> DEFINE seen == {i \in 0..(n - 1) : i < RomSize} \cup DOMAIN behind
<1>1. Image(buffer, behind) = [i \in seen |-> IF i \in 0..(n - 1) THEN buffer[i] ELSE behind[i]]
  BY DEF Image
<1>2. IsArray(behind, RomSize)
  BY HeapAssumption
<1>3. seen \subseteq 0..(RomSize - 1)
  <2>1. RomSize \in Int
    BY DEF RomSize
  <2> QED BY <1>2, <2>1 DEF IsArray
<1>4. \A i \in seen : (IF i \in 0..(n - 1) THEN buffer[i] ELSE behind[i]) \in Byte
  BY <1>2 DEF IsArray
<1> HIDE DEF seen
<1> QED
  BY <1>1, <1>3, <1>4 DEF IsArray

\* main() starts with the invariant.
LEMMA MainStarts == MainInit => MainInv
<1> SUFFICES ASSUME MainInit PROVE MainInv
  OBVIOUS
<1>1. WindowTypeOK /\ WindowInv
  <2>1. PICK ready \in BOOLEAN : sdl = SDL_SetMainReady(Unloaded(ready))
    BY DEF MainInit
  <2> QED BY <2>1, WindowStarts DEF MainInit
<1>2. LoaderTypeOK /\ LoaderInv
  BY LoaderStarts DEF MainInit
<1>3. StateOK(state) /\ state.status = "running"
  <2>1. IsArray(Zeros, RomSize)
    <3>1. RomSize \in Nat
      BY DEF RomSize
    <3> QED BY <3>1, ZerosIsArray
  <2> QED BY <2>1, LoadedType, ResetCpuType DEF MainInit, Loaded
<1>4. PlaceInv
  BY <1>3 DEF MainInit, WindowInit, LoaderInit, PlaceInv
<1> QED
  BY <1>1, <1>2, <1>3, <1>4 DEF MainInv, MainTypeOK, MainInit

\* A call of init() and what main() does with its result.
LEMMA InitWindowStep ==
  ASSUME MainInv, InitWindow
  PROVE  MainInv'
<1>1. /\ at = "init" /\ loading = "open" /\ state.status = "running" /\ ~is_error /\ banks = 0
      /\ opening # "true"
  BY DEF InitWindow, MainInv, MainTypeOK, PlaceInv
<1>2. /\ WindowTypeOK' /\ WindowInv' /\ opening' # "SDL_Init"
      /\ opening' = "true" => handles'.screenSurface # NULL
  BY InitKeeps DEF InitWindow, MainInv, MainTypeOK
<1>3. /\ LoaderTypeOK' /\ LoaderInv'
      /\ loading' = loading /\ state' = state /\ is_error' = is_error /\ banks' = banks
  BY LoaderKept DEF InitWindow, MainInv, MainTypeOK, loaderVars
<1>4. \/ opening' = "true" /\ at' = "load" /\ code' = code
      \/ opening' = "false" /\ at' = "return" /\ code' = -1
      \/ opening' = "crashed" /\ at' = "crashed" /\ code' = code
      \/ /\ opening' \in {"SDL_CreateWindow", "SDL_GetWindowSurface"}
         /\ at' = "init" /\ code' = code
  BY <1>2 DEF InitWindow, Goto, Return, WindowTypeOK
<1>5. PlaceInv'
  BY <1>1, <1>2, <1>3, <1>4 DEF PlaceInv
<1> QED
  BY <1>1, <1>2, <1>3, <1>4, <1>5 DEF MainInv, MainTypeOK

\* A step of load() and the rest of load_rom after the last.
LEMMA LoadRomStep ==
  ASSUME MainInv, LoadRom
  PROVE  MainInv'
<1>1. /\ at = "load" /\ opening = "true" /\ state.status = "running" /\ ~is_error
      /\ banks = 0 /\ handles.screenSurface # NULL /\ loading # "true"
  BY DEF LoadRom, MainInv, MainTypeOK, PlaceInv, Reading, Validating
<1>2. LoaderTypeOK' /\ LoaderInv'
  BY LoadKeeps DEF LoadRom, MainInv, MainTypeOK
<1>3. WindowTypeOK' /\ WindowInv' /\ opening' = opening /\ handles' = handles
  BY WindowKept DEF LoadRom, MainInv, MainTypeOK, windowVars
<1> DEFINE count == get_cartridge_info(rom'._cartridge).bank_count
<1>4. count \in Nat
  BY DEF get_cartridge_info
<1> HIDE DEF count
<1>5. CASE /\ loading' = "true"
           /\ \E behind \in Heap : state' = [state EXCEPT !.rom = Image(rom'.buffer, behind)]
           /\ is_error' = is_error
           /\ \/ banks' = count /\ at' = "loop" /\ code' = code
              \/ count > 0 /\ banks' = banks /\ at' = "crashed" /\ code' = code
  <2>1. StateOK(state') /\ state'.status = "running"
    <3>1. PICK behind \in Heap : state' = [state EXCEPT !.rom = Image(rom'.buffer, behind)]
      BY <1>5
    <3>2. IsArray(Image(rom'.buffer, behind), RomSize)
      BY <1>2, ImageType DEF LoaderTypeOK
    <3> HIDE DEF Image
    <3> QED BY <1>1, <3>1, <3>2 DEF MainInv, MainTypeOK, StateOK, IsArray
  <2>2. PlaceInv'
    BY <1>1, <1>3, <1>4, <1>5, <2>1 DEF PlaceInv, count
  <2> QED
    BY <1>1, <1>2, <1>3, <1>4, <1>5, <2>1, <2>2 DEF MainInv, MainTypeOK
<1>6. CASE /\ loading' = "false" /\ is_error' = TRUE /\ at' = "return" /\ code' = -2
           /\ state' = state /\ banks' = banks
  <2>1. PlaceInv'
    BY <1>1, <1>3, <1>6 DEF PlaceInv
  <2> QED
    BY <1>1, <1>2, <1>3, <1>6, <2>1 DEF MainInv, MainTypeOK
<1>7. CASE /\ loading' \notin {"true", "false"}
           /\ at' = (IF loading' = "crashed" THEN "crashed" ELSE "load") /\ code' = code
           /\ state' = state /\ is_error' = is_error /\ banks' = banks
  <2>1. loading' \in {"open", "crashed"} \cup Reading \cup Validating
    BY <1>2, <1>7 DEF LoaderTypeOK
  <2>2. PlaceInv'
    BY <1>1, <1>3, <1>7, <2>1 DEF PlaceInv
  <2> QED
    BY <1>1, <1>2, <1>3, <1>7, <2>2 DEF MainInv, MainTypeOK
<1> QED
  BY <1>5, <1>6, <1>7 DEF LoadRom, Accept, Reject, Goto, Return, count

\* A call of process() in main()'s loop.
LEMMA LoopStep ==
  ASSUME MainInv, Loop
  PROVE  MainInv'
<1>1. /\ at = "loop" /\ opening = "true" /\ loading = "true" /\ ~is_error
      /\ handles.screenSurface # NULL
      /\ banks = get_cartridge_info(rom._cartridge).bank_count
  BY DEF Loop, MainInv, MainTypeOK, PlaceInv
<1>2. /\ LoaderTypeOK' /\ LoaderInv' /\ loading' = loading /\ rom' = rom
      /\ is_error' = is_error /\ banks' = banks
  BY LoaderKept DEF Loop, MainInv, MainTypeOK, loaderVars
<1>3. WindowTypeOK' /\ WindowInv' /\ opening' = opening /\ handles' = handles
  BY WindowKept DEF Loop, MainInv, MainTypeOK, windowVars
<1>4. StateOK(state')
  <2>1. TypeOK /\ [Next]_state
    BY <1>1 DEF Loop, MainInv, MainTypeOK, TypeOK, Next
  <2> QED BY <2>1, StepType DEF TypeOK
<1>5. state'.status \in {"running", "panicked", "crashed"}
  BY <1>4 DEF StateOK, Statuses
<1>6. \/ state'.status = "running" /\ at' = "loop" /\ code' = code
      \/ state'.status = "panicked" /\ at' = "exited" /\ code' = -1
      \/ state'.status = "crashed" /\ at' = "crashed" /\ code' = code
  BY <1>1, <1>5 DEF Loop, Goto
<1>7. PlaceInv'
  BY <1>1, <1>2, <1>3, <1>6 DEF PlaceInv
<1> QED
  BY <1>1, <1>2, <1>3, <1>4, <1>6, <1>7 DEF MainInv, MainTypeOK

\* The destructors.
LEMMA UnwindStep ==
  ASSUME MainInv, Unwind
  PROVE  MainInv'
<1>1. /\ at = "return" /\ at' = "exited" /\ code' = code /\ state.status = "running"
      /\ loading' = loading /\ rom' = rom
      /\ state' = state /\ is_error' = is_error /\ banks' = banks
  BY DEF Unwind, Goto, loaderVars, MainInv, PlaceInv
<1>2. \/ code = -1 /\ opening = "false" /\ loading = "open"
      \/ code = -2 /\ opening = "true" /\ loading = "false"
  BY <1>1 DEF MainInv, PlaceInv
<1>3. /\ WindowTypeOK' /\ WindowInv' /\ handles' = NoHandles /\ opening' = opening
  <2>1. opening = "true" => handles.screenSurface # NULL
    BY <1>1, <1>2 DEF MainInv, PlaceInv
  <2> QED BY <1>2, <2>1, DestroyKeeps DEF Unwind, MainInv, MainTypeOK
<1>4. LoaderTypeOK' /\ LoaderInv'
  BY LoaderKept DEF Unwind, MainInv, MainTypeOK
<1>5. PlaceInv'
  BY <1>1, <1>2, <1>3 DEF MainInv, PlaceInv
<1> QED
  BY <1>1, <1>3, <1>4, <1>5 DEF MainInv, MainTypeOK

\* A write to the file from outside.
LEMMA EnvironmentStep ==
  ASSUME MainInv, Environment
  PROVE  MainInv'
<1>1. LoaderTypeOK' /\ LoaderInv' /\ loading' = loading /\ rom' = rom
  BY FileChangesKeeps DEF Environment, FileChanges, MainInv, MainTypeOK
<1>2. WindowTypeOK' /\ WindowInv' /\ opening' = opening /\ handles' = handles
  BY WindowKept DEF Environment, MainInv, MainTypeOK, windowVars
<1>3. at' = at /\ code' = code /\ state' = state /\ is_error' = is_error /\ banks' = banks
  BY DEF Environment
<1>4. PlaceInv'
  BY <1>1, <1>2, <1>3 DEF MainInv, PlaceInv
<1> QED
  BY <1>1, <1>2, <1>3, <1>4 DEF MainInv, MainTypeOK

\* Nothing happens.
LEMMA StutterStep ==
  ASSUME MainInv, UNCHANGED mainVars
  PROVE  MainInv'
<1>1. LoaderTypeOK' /\ LoaderInv' /\ loading' = loading /\ rom' = rom
  BY LoaderKept DEF mainVars, MainInv, MainTypeOK, loaderVars
<1>2. WindowTypeOK' /\ WindowInv' /\ opening' = opening /\ handles' = handles
  BY WindowKept DEF mainVars, MainInv, MainTypeOK, windowVars
<1>3. at' = at /\ code' = code /\ state' = state /\ is_error' = is_error /\ banks' = banks
  BY DEF mainVars
<1>4. PlaceInv'
  BY <1>1, <1>2, <1>3 DEF MainInv, PlaceInv
<1> QED
  BY <1>1, <1>2, <1>3, <1>4 DEF MainInv, MainTypeOK

\* Every step of the process keeps the invariant.
LEMMA MainStep ==
  ASSUME MainInv, [MainNext]_mainVars
  PROVE  MainInv'
BY InitWindowStep, LoadRomStep, LoopStep, UnwindStep, EnvironmentStep, StutterStep
   DEF MainNext, main, Ended

\* main(), the Window, the loader and the machine stay in step: where main() is, how
\* init() and load() ended, which handles are set, what SDL holds, what the vector
\* holds and whether the machine runs fit together in every state.  Each block of the
\* vector is of one version of the file; two blocks may be of two.
THEOREM MainInvariant == MainSpec => []MainInv
<1>1. MainInit => MainInv
  BY MainStarts
<1>2. MainInv /\ [MainNext]_mainVars => MainInv'
  BY MainStep
<1> QED
  BY <1>1, <1>2, PTL DEF MainSpec

-----------------------------------------------------------------------------
(* What follows from it *)

\* Every member keeps the range of its type.
THEOREM MainTypeCorrect == MainSpec => []MainTypeOK
<1>1. MainInv => MainTypeOK
  BY DEF MainInv
<1> QED
  BY <1>1, MainInvariant, PTL

\* No function of SDL is ever given a window or a surface that is gone.
THEOREM HandlesAreLive == MainSpec => []NoDangling
<1>1. MainInv => NoDangling
  BY NullAssumption DEF MainInv, WindowInv, NoDangling
<1> QED
  BY <1>1, MainInvariant, PTL

\* A main() that returns leaves no window and no surface alive and its handles null; one
\* that panics leaves both.  (SDL's subsystems stay counted: nothing calls SDL_Quit.)
THEOREM ReturnsClean == MainSpec => []CleanReturn
<1>1. MainInv => CleanReturn
  <2> SUFFICES ASSUME MainInv, at = "exited" PROVE CleanReturn
    BY DEF CleanReturn
  <2> USE DEF MainInv, MainTypeOK, WindowInv, PlaceInv
  <2>1. CASE state.status = "panicked"
    <3>1. code = -1 /\ opening = "true"
      BY <2>1
    <3>2. handles.screenSurface # NULL /\ handles.window # NULL
      BY <3>1
    <3> QED BY <2>1, <3>2 DEF CleanReturn
  <2>2. CASE state.status = "running"
    <3>1. handles = NoHandles
      BY <2>2
    <3> QED BY <2>2, <3>1 DEF CleanReturn, NoHandles
  <2> QED
    BY <2>1, <2>2 DEF StateOK, Statuses
<1> QED
  BY <1>1, MainInvariant, PTL

\* SDL's counts tell what runs, whichever of its starts fails.
THEOREM CountsAreRight == MainSpec => []SubsystemsCounted
<1>1. MainInv => SubsystemsCounted
  BY DEF MainInv, WindowInv, PlaceInv, SubsystemsCounted
<1> QED
  BY <1>1, MainInvariant, PTL

\* The exit code tells a bad ROM from everything else.
THEOREM ExitCodesTell == MainSpec => []ExitCodes
<1>1. MainInv => ExitCodes
  BY DEF MainInv, MainTypeOK, PlaceInv, StateOK, Statuses, ExitCodes
<1> QED
  BY <1>1, MainInvariant, PTL

\* The program in the boot ROM sees nothing of the ROM load_rom puts in place.
LEMMA BootSeesNoRom ==
  ASSUME BootInv, StateOK(state'), NEW image, state' = [state EXCEPT !.rom = image]
  PROVE  BootInv'
<1>1. /\ state'.reg = state.reg /\ state'.sp = state.sp /\ state'.pc = state.pc
      /\ state'.flags = state.flags /\ state'.cycles = state.cycles
      /\ state'.status = state.status /\ state'.boot_rom_enabled = state.boot_rom_enabled
      /\ state'.video = state.video /\ state'.internal_memory = state.internal_memory
      /\ state'.io = state.io
  BY DEF BootInv, StateOK
<1>2. \A p : Pair(p, state') = Pair(p, state)
  BY <1>1 DEF Pair, High, Low
<1>3. /\ BeforeLoop => BeforeLoop'
      /\ InLoop => InLoop'
      /\ AfterLoop => AfterLoop'
  BY <1>1, <1>2 DEF BeforeLoop, InLoop, AfterLoop
<1> QED
  BY <1>1, <1>3 DEF BootInv

\* main() runs the boot program and disturbs it nowhere.
LEMMA BootInMain ==
  ASSUME Shipped
  PROVE  MainSpec => []BootInv
<1>1. MainInit => BootInv
  <2> SUFFICES ASSUME MainInit PROVE BootInv
    OBVIOUS
  <2>1. state = Loaded(Zeros, ResetCpu) /\ StateOK(state)
    BY MainStarts DEF MainInit, MainInv, MainTypeOK
  <2>2. state.rom = Zeros
    BY <2>1 DEF Loaded
  <2> QED BY <2>1, <2>2, BootStarts
<1>2. MainInv /\ BootInv /\ [MainNext]_mainVars => BootInv'
  <2> SUFFICES ASSUME MainInv, BootInv, [MainNext]_mainVars PROVE BootInv'
    OBVIOUS
  <2>1. CASE UNCHANGED state
    BY <2>1, BootStutters
  <2>2. CASE LoadRom
    <3>1. StateOK(state')
      BY <2>2, LoadRomStep DEF MainInv, MainTypeOK
    <3>2. \/ \E image : state' = [state EXCEPT !.rom = image]
          \/ state' = state
      BY <2>2 DEF LoadRom, Accept, Reject
    <3> QED BY <2>1, <3>1, <3>2, BootSeesNoRom
  <2>3. CASE Loop
    <3>1. process \/ UNCHANGED state
      BY <2>3 DEF Loop
    <3> QED BY <2>1, <3>1, BootProcess
  <2> QED
    BY <2>1, <2>2, <2>3
       DEF MainNext, main, InitWindow, Unwind, Environment, Ended, mainVars
<1> QED
  BY <1>1, <1>2, MainInvariant, PTL DEF MainSpec

\* main() faults before its loop in the four listed cases only, and never in it: the
\* boot program panics before it can touch memory that is not there, and takes no
\* unconditional branch, whose copy of the State might not be allocated.
THEOREM StartupFaults ==
  ASSUME Shipped
  PROVE  MainSpec => []StartupCrashes
<1>1. MainInv /\ BootInv => StartupCrashes
  BY DEF MainInv, WindowInv, LoaderInv, PlaceInv, StartupCrashes, BootInv
<1> QED
  BY <1>1, MainInvariant, BootInMain, PTL

\* Where the vector holds the whole header, the loop is entered only with a header that
\* validate_rom accepts and with the members of class Rom and the banks that it says.  Of
\* a shorter file, whose header is read behind the vector, nothing is claimed.
THEOREM HeaderAccepted == MainSpec => AcceptedHeader
<1>1. MainInv' => (Entered /\ Size(rom'.buffer) >= Whole => HeaderMatches')
  <2> SUFFICES ASSUME MainInv', Entered, Size(rom'.buffer) >= Whole PROVE HeaderMatches'
    OBVIOUS
  <2>1. loading' = "true" /\ banks' = get_cartridge_info(rom'._cartridge).bank_count
    BY DEF Entered, MainInv, PlaceInv
  <2>2. LogoMatches' /\ TypeMatches' /\ RomSizeMatches' /\ RamSizeMatches'
    BY <2>1 DEF MainInv, LoaderInv, TypeChecked, RomSizeChecked
  <2>3. banks' = (IF rom'.buffer[TypeAt] = 0 THEN 128 ELSE 0)
    BY <2>1, <2>2, CartridgeNames DEF TypeMatches, get_cartridge_info
  <2> QED
    BY <2>2, <2>3 DEF HeaderMatches
<1> QED
  BY <1>1, MainInvariant, PTL DEF AcceptedHeader

-----------------------------------------------------------------------------
(* One version of the file *)

\* While a file that holds f when load() reads it is under way: the measurement is f's
\* length or off by the -1 of a failed tellg, and what has been read is f's.
Arriving(f) ==
  /\ loading = "read" =>
       /\ fsize \in {Size(f), Size(f) + 1, 0}
       /\ \A i \in DOMAIN rom.buffer : i < got => i \in DOMAIN f /\ rom.buffer[i] = f[i]
  /\ loading \in Validating \cup {"true"} =>
       rom.buffer = f \/ (rom.buffer = Zeros /\ loading = "name")

\* The measurement.
LEMMA ArrivesMeasured ==
  ASSUME LoaderTypeOK, LoaderInv, Measure, NEW f \in Files, Undisturbed(f)'
  PROVE  Arriving(f)'
<1>1. file \in Files /\ got' = 0
  BY DEF Measure, LoaderTypeOK, LoaderInv, Reading
<1>2. \/ loading' \notin {"read", "true"} \cup Validating
      \/ /\ loading' = "read" /\ file' = file /\ fsize' \in Measured /\ fsize' >= 0
         /\ rom' = [rom EXCEPT !.buffer = [i \in 0..(fsize' - 1) |-> 0]]
  BY DEF Measure, Fail, Validating
<1>3. ASSUME loading' = "read", file' = file, fsize' \in Measured, fsize' >= 0,
             rom' = [rom EXCEPT !.buffer = [i \in 0..(fsize' - 1) |-> 0]]
      PROVE  Arriving(f)'
  <2>1. file = f
    BY <1>3 DEF Undisturbed
  <2>2. fsize' \in {Size(f), Size(f) + 1, 0}
    BY <1>1, <1>3, <2>1, MeasuredLengths
  <2>3. DOMAIN rom'.buffer \subseteq Int
    BY <1>3 DEF LoaderTypeOK
  <2> QED
    BY <1>1, <1>3, <2>2, <2>3 DEF Arriving, Validating
<1> QED
  BY <1>2, <1>3 DEF Arriving

\* One block, and with the last one the whole vector.
LEMMA ArrivesRead ==
  ASSUME LoaderTypeOK, LoaderInv, ReadBlock, NEW f \in Files, Undisturbed(f), Arriving(f)
  PROVE  Arriving(f)'
<1>1. file = f /\ loading = "read"
  BY DEF Undisturbed, ReadBlock
<1>2. CASE Fail
  BY <1>2 DEF Fail, Arriving, Validating
<1>3. ASSUME NEW e, ReadUpTo(e), ~(Size(f) < e),
             IF e = fsize THEN file' = NoFile /\ loading' = "name"
             ELSE UNCHANGED <<file, loading>>
      PROVE  Arriving(f)'
  <2>1. /\ Size(f) \in Nat /\ f \in [0..(Size(f) - 1) -> Byte]
        /\ fsize \in Nat /\ got \in Nat /\ e \in Nat /\ got <= e /\ e <= fsize
        /\ rom.buffer \in [0..(fsize - 1) -> Byte]
        /\ rom'.buffer \in [0..(fsize - 1) -> Byte] /\ rom'.buffer = Filled(e)
    BY <1>1, <1>3, FilledType
  <2>2. got' = e /\ fsize' = fsize
    BY <1>3 DEF ReadUpTo
  <2>3. fsize \in {Size(f), Size(f) + 1, 0}
    BY <1>1 DEF Arriving
  <2>4. ASSUME NEW i \in 0..(fsize - 1), i < e
        PROVE  i \in DOMAIN f /\ rom'.buffer[i] = f[i]
    <3>1. i \in DOMAIN f
      BY <1>3, <2>1, <2>4
    <3>2. CASE i < got
      <4>1. rom.buffer[i] = f[i]
        BY <1>1, <2>1, <3>2 DEF Arriving
      <4>2. rom'.buffer[i] = rom.buffer[i]
        <5>1. i \notin got..(e - 1) /\ i \in DOMAIN rom.buffer
          BY <2>1, <2>4, <3>2
        <5> QED BY <2>1, <5>1 DEF Filled
      <4> QED BY <3>1, <4>1, <4>2
    <3>3. CASE ~(i < got)
      <4>1. i \in got..(e - 1)
        BY <2>1, <2>4, <3>3
      <4> QED
        BY <1>1, <2>1, <3>1, <4>1 DEF Filled
    <3> QED BY <3>2, <3>3
  <2>5. CASE e = fsize
    <3>1. loading' = "name"
      BY <1>3, <2>5
    <3>2. CASE fsize = 0
      <4>1. rom'.buffer = Zeros
        BY <2>1, <3>2 DEF Zeros
      <4> QED BY <3>1, <4>1 DEF Arriving
    <3>3. CASE fsize # 0
      <4>1. fsize = Size(f)
        BY <1>3, <2>1, <2>3, <2>5, <3>3
      <4>2. rom'.buffer = f
        BY <2>1, <2>4, <2>5, <4>1
      <4> QED BY <3>1, <4>2 DEF Arriving
    <3> QED BY <3>2, <3>3
  <2>6. CASE e # fsize
    BY <1>1, <1>3, <2>1, <2>2, <2>3, <2>4, <2>6 DEF Arriving, Validating
  <2> QED BY <2>5, <2>6
<1> QED
  BY <1>1, <1>2, <1>3 DEF ReadBlock, ReadUpTo

\* validate_rom leaves the vector as it is and does not get past an empty one.
LEMMA ArrivesChecked ==
  ASSUME LoaderTypeOK, LoaderInv, NEW f \in Files, Arriving(f),
         \/ FaultPastEnd \/ PrintName \/ CheckLogo \/ CheckType \/ CheckRomSize \/ CheckRamSize
  PROVE  Arriving(f)'
<1>1. rom'.buffer = rom.buffer /\ loading \in Validating
  BY DEF FaultPastEnd, PrintName, CheckLogo, CheckType, CheckRomSize, CheckRamSize,
         LoaderTypeOK, Validating
<1>2. loading' \in {"crashed", "logo", "type", "rom_size", "ram_size", "false", "true"}
  BY DEF FaultPastEnd, PrintName, CheckLogo, CheckType, CheckRomSize, CheckRamSize
<1>3. loading = "name" /\ rom.buffer = Zeros => loading' = "crashed"
  <2> SUFFICES ASSUME loading = "name", rom.buffer = Zeros, PrintName
               PROVE  FALSE
    BY DEF FaultPastEnd, CheckLogo, CheckType, CheckRomSize, CheckRamSize
  <2>1. BytesAt(NameEnd - 1) = {}
    BY SizeOfZeros, HeaderLayout DEF BytesAt, PastEnd
  <2> QED
    BY <2>1 DEF PrintName
<1> QED
  BY <1>1, <1>2, <1>3 DEF Arriving, Validating

\* Every step of the process keeps it while the file holds f.
LEMMA ArrivesStep ==
  ASSUME MainInv, [MainNext]_mainVars, NEW f \in Files,
         Arriving(f), Undisturbed(f), Undisturbed(f)'
  PROVE  Arriving(f)'
<1>1. LoaderTypeOK /\ LoaderInv
  BY DEF MainInv, MainTypeOK
<1>2. CASE LoadRom
  <2>1. CASE Open
    BY <2>1 DEF Open, Fail, Arriving, Validating
  <2> QED
    BY <1>1, <1>2, <2>1, ArrivesMeasured, ArrivesRead, ArrivesChecked DEF LoadRom, load
<1>3. CASE Environment
  BY <1>3 DEF Environment, FileChanges, Arriving
<1>4. CASE UNCHANGED loaderVars
  BY <1>4 DEF loaderVars, Arriving
<1> QED
  BY <1>2, <1>3, <1>4 DEF MainNext, main, InitWindow, Loop, Unwind, Ended, mainVars, loaderVars

\* A file that holds f while load() reads it arrives as f.
LEMMA OneFileArrives ==
  ASSUME NEW f \in Files
  PROVE  MainSpec => ([]Undisturbed(f) => [](loading = "true" => rom.buffer = f))
<1>1. MainInit => Arriving(f)
  BY DEF MainInit, LoaderInit, Arriving, Validating
<1>2. /\ MainInv /\ MainInv' /\ [MainNext]_mainVars
      /\ Arriving(f) /\ Undisturbed(f) /\ Undisturbed(f)'
      => Arriving(f)'
  BY ArrivesStep
<1>3. Arriving(f) => (loading = "true" => rom.buffer = f)
  BY DEF Arriving
<1> QED
  BY <1>1, <1>2, <1>3, MainInvariant, PTL DEF MainSpec

\* A ROM that load() has accepted is the whole file and no more of it, for every file
\* that no other program writes to between its measurement and its last block.
THEOREM WholeImageArrives == MainSpec => WholeImage
<1>1. MainSpec => \A f \in Files : ([]Undisturbed(f) => [](loading = "true" => rom.buffer = f))
  BY OneFileArrives
<1> QED
  BY <1>1 DEF WholeImage
=============================================================================
