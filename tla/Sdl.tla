-------------------------------- MODULE Sdl ---------------------------------
(***************************************************************************)
(* The SDL functions the emulator calls, and those they call to count      *)
(* subsystems and to free windows and surfaces.                            *)
(*                                                                         *)
(* The library's state is one record.  A function that can fail, in the    *)
(* operating system or in a video driver, is an operator that gives the    *)
(* set of its outcomes [ret, st]; one that cannot gives the new record.    *)
(* A dangling pointer is one outside the domain of `windows' or            *)
(* `surfaces': a function that follows one sets `fault'.                   *)
(***************************************************************************)
EXTENDS Integers, FiniteSets, FiniteSetsExt

CONSTANTS WindowAddresses, SurfaceAddresses,  \* where the allocator can place them
          NULL

ASSUME NullAssumption == NULL \notin WindowAddresses \cup SurfaceAddresses

RefCount == 0..255

Surface == [refcount : Nat, dontfree : BOOLEAN]

SdlOK(s) ==
  /\ s \in [ready : BOOLEAN,           \* SDL_MainIsReady
            events : RefCount, video : RefCount,     \* SDL_SubsystemRefCount
            device : BOOLEAN,          \* _this is not NULL
            windows : [DOMAIN s.windows -> SurfaceAddresses \cup {NULL}],
            surfaces : [DOMAIN s.surfaces -> Surface],
            fault : BOOLEAN]
  /\ DOMAIN s.windows \subseteq WindowAddresses
  /\ DOMAIN s.surfaces \subseteq SurfaceAddresses

Nothing == [a \in {} |-> NULL]

\* SDL as it is loaded; some builds ask main() to say that it is SDL's.
Unloaded(ready) == [ready |-> ready, events |-> 0, video |-> 0, device |-> FALSE,
                    windows |-> Nothing, surfaces |-> Nothing, fault |-> FALSE]

Outcome(ret, st) == [ret |-> ret, st |-> st]
Fault(s) == [s EXCEPT !.fault = TRUE]

Without(f, a) == Restrict(f, DOMAIN f \ {a})
With(f, a, v) == [b \in DOMAIN f \cup {a} |-> IF b = a THEN v ELSE f[b]]

-----------------------------------------------------------------------------
(* Surfaces and windows *)

\* A surface a window owns is marked and stays.
SDL_FreeSurface(f, s) ==
  CASE f = NULL -> s
    [] f # NULL /\ f \notin DOMAIN s.surfaces -> Fault(s)
    [] f \in DOMAIN s.surfaces /\ s.surfaces[f].dontfree -> s
    [] OTHER -> IF s.surfaces[f].refcount > 1
                THEN [s EXCEPT !.surfaces[f].refcount = @ - 1]
                ELSE [s EXCEPT !.surfaces = Without(@, f)]

\* CHECK_WINDOW_MAGIC lets only live windows pass; to look, it follows the pointer.
Valid(w, s)    == s.device /\ w \in DOMAIN s.windows
Dangling(w, s) == s.device /\ w # NULL /\ w \notin DOMAIN s.windows

SDL_DestroyWindowSlip(w, s) ==     \* the surface not unmarked
  CASE Dangling(w, s) -> Fault(s)
    [] Valid(w, s)    -> LET freed == SDL_FreeSurface(s.windows[w], s)
                         IN  [freed EXCEPT !.windows = Without(@, w)]
    [] OTHER -> s

SDL_DestroyWindow(w, s) ==
  CASE Dangling(w, s) -> Fault(s)
    [] Valid(w, s)    ->
         LET f     == s.windows[w]
             owned == IF f \in DOMAIN s.surfaces
                      THEN [s EXCEPT !.surfaces[f].dontfree = FALSE] ELSE s
             freed == SDL_FreeSurface(f, owned)
         IN  [freed EXCEPT !.windows = Without(@, w)]
    [] OTHER -> s

-----------------------------------------------------------------------------
(* Subsystems *)

\* SDL_InitSubSystem(SDL_INIT_EVENTS): the first call can fail to make its locks.
InitEvents(s) ==
  IF ~s.ready THEN {Outcome(-1, s)}
  ELSE {Outcome(0, [s EXCEPT !.events = @ + 1])}
         \cup (IF s.events = 0 THEN {Outcome(-1, s)} ELSE {})

\* SDL_QuitSubSystem(SDL_INIT_EVENTS)
QuitEvents(s) == [s EXCEPT !.events = IF @ > 0 THEN @ - 1 ELSE 0]

SDL_VideoQuitSlip(s) ==     \* the device kept
  IF s.device THEN FoldSet(SDL_DestroyWindow, QuitEvents(s), DOMAIN s.windows) ELSE s

SDL_VideoQuit(s) ==
  IF s.device
  THEN [FoldSet(SDL_DestroyWindow, QuitEvents(s), DOMAIN s.windows) EXCEPT !.device = FALSE]
  ELSE s

\* Input devices or the choice of a driver fail without giving the events back; a
\* driver that does not start, or finds no display, is shut down.
SDL_VideoInit(s) ==
  UNION {IF e.ret < 0 THEN {e}
         ELSE LET chosen == [e.st EXCEPT !.device = TRUE]
              IN  {Outcome(-1, e.st), Outcome(-1, SDL_VideoQuit(chosen)), Outcome(0, chosen)} :
         e \in InitEvents(SDL_VideoQuit(s))}

CountVideo(s) == [s EXCEPT !.video = @ + 1]

\* SDL_Init(SDL_INIT_VIDEO): video implies events.
SDL_Init(s) ==
  UNION {CASE e.ret < 0 -> {e}
           [] e.ret >= 0 /\ e.st.video > 0 -> {Outcome(0, CountVideo(e.st))}
           [] OTHER -> {IF v.ret < 0 THEN v ELSE Outcome(0, CountVideo(v.st)) :
                          v \in SDL_VideoInit(e.st)} :
         e \in InitEvents(s)}

SDL_SetMainReady(s) == [s EXCEPT !.ready = TRUE]

-----------------------------------------------------------------------------
(* Windows and their surfaces *)

\* Without memory there is no window; a window the driver refuses is destroyed.
CreateOn(s) ==
  {Outcome(NULL, s)} \cup
  UNION {LET linked == [s EXCEPT !.windows = With(@, w, NULL)]
         IN  {Outcome(NULL, SDL_DestroyWindow(w, linked)), Outcome(w, linked)} :
         w \in WindowAddresses \ DOMAIN s.windows}

SDL_CreateWindow(s) ==
  IF s.device THEN CreateOn(s)
  ELSE UNION {IF v.ret < 0 THEN {Outcome(NULL, v.st)} ELSE CreateOn(v.st) : v \in SDL_VideoInit(s)}

\* A surface is made once for a window and marked as the window's.  (Only a resize
\* event would make it invalid, and the program takes no events.)
SDL_GetWindowSurface(w, s) ==
  CASE Dangling(w, s) -> {Outcome(NULL, Fault(s))}
    [] Valid(w, s) /\ s.windows[w] # NULL -> {Outcome(s.windows[w], s)}
    [] Valid(w, s) /\ s.windows[w] = NULL ->
         {Outcome(NULL, s)} \cup
         {Outcome(f, [s EXCEPT !.windows[w] = f,
                               !.surfaces = With(@, f, [refcount |-> 1, dontfree |-> TRUE])]) :
            f \in SurfaceAddresses \ DOMAIN s.surfaces}
    [] OTHER -> {Outcome(NULL, s)}

\* They draw; neither keeps nor frees anything.
SDL_FillRect(f, s) == IF f = NULL \/ f \in DOMAIN s.surfaces THEN s ELSE Fault(s)
SDL_UpdateWindowSurface(w, s) ==
  IF Dangling(w, s) \/ (Valid(w, s) /\ s.windows[w] \notin DOMAIN s.surfaces \cup {NULL})
  THEN Fault(s) ELSE s
=============================================================================
