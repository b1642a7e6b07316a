------------------------------- MODULE Window -------------------------------
(***************************************************************************)
(* Class Window: the two handles it owns, init() call by call, and its     *)
(* destructor.                                                             *)
(***************************************************************************)
EXTENDS Sdl

VARIABLES sdl,      \* the library
          handles,  \* the unique_ptrs: window and screenSurface
          opening   \* how far init() has come: the SDL call it makes next, or its result

windowVars == <<sdl, handles, opening>>

WindowTypeOK ==
  /\ SdlOK(sdl)
  /\ handles \in [window : WindowAddresses \cup {NULL},
                  screenSurface : SurfaceAddresses \cup {NULL}]
  /\ opening \in {"SDL_Init", "SDL_CreateWindow", "SDL_GetWindowSurface",
                  "true", "false", "crashed"}

NoHandles == [window |-> NULL, screenSurface |-> NULL]

WindowInit == handles = NoHandles /\ opening = "SDL_Init"

cleanupSlip(s) ==     \* in the order of the members
  LET destroyed == IF handles.window = NULL THEN s ELSE SDL_DestroyWindow(handles.window, s)
  IN  SDL_FreeSurface(handles.screenSurface, destroyed)

\* unique_ptr::reset calls the deleter of a handle that is not null.
cleanup(s) ==
  LET freed == SDL_FreeSurface(handles.screenSurface, s)
  IN  IF handles.window = NULL THEN freed ELSE SDL_DestroyWindow(handles.window, freed)

StartSdl ==
  /\ opening = "SDL_Init"
  /\ \E o \in SDL_Init(cleanup(sdl)) :
       /\ sdl' = o.st
       /\ opening' = IF o.ret < 0 THEN "false" ELSE "SDL_CreateWindow"
  /\ handles' = NoHandles

OpenWindow ==
  /\ opening = "SDL_CreateWindow"
  /\ \E o \in SDL_CreateWindow(sdl) :
       /\ sdl' = o.st
       /\ handles' = [handles EXCEPT !.window = o.ret]
       /\ opening' = IF o.ret = NULL THEN "false" ELSE "SDL_GetWindowSurface"

\* screenSurface->format is read before anything has looked at screenSurface.
PaintWindow ==
  /\ opening = "SDL_GetWindowSurface"
  /\ \E o \in SDL_GetWindowSurface(handles.window, sdl) :
       /\ handles' = [handles EXCEPT !.screenSurface = o.ret]
       /\ IF o.ret = NULL
          THEN opening' = "crashed" /\ sdl' = o.st
          ELSE /\ opening' = "true"
               /\ sdl' = SDL_UpdateWindowSurface(handles.window, SDL_FillRect(o.ret, o.st))

init == StartSdl \/ OpenWindow \/ PaintWindow

\* ~Window()
Destroy ==
  /\ sdl' = cleanup(sdl)
  /\ handles' = NoHandles
  /\ UNCHANGED opening

-----------------------------------------------------------------------------

\* The handles say all there is: no window or surface lives that they do not own,
\* and a surface is its window's, counted once and marked.  A handle is set in the
\* order init() sets it, and while video runs it is counted once and events twice.
WindowInv ==
  /\ ~sdl.fault
  /\ IF sdl.device THEN sdl.video = 1 /\ sdl.events = 2 ELSE sdl.video = 0 /\ sdl.events \in 0..2
  /\ DOMAIN sdl.windows = {handles.window} \ {NULL}
  /\ DOMAIN sdl.surfaces = {handles.screenSurface} \ {NULL}
  /\ handles.window = NULL => handles.screenSurface = NULL
  /\ handles.window # NULL => sdl.windows[handles.window] = handles.screenSurface
  /\ handles.screenSurface # NULL =>
       sdl.surfaces[handles.screenSurface] = [refcount |-> 1, dontfree |-> TRUE]
  /\ opening = "SDL_Init" => ~sdl.device /\ sdl.events = 0
  /\ opening \in {"SDL_CreateWindow", "SDL_GetWindowSurface", "true", "crashed"} => sdl.device
  /\ opening \in {"SDL_Init", "SDL_CreateWindow", "false"} => handles.window = NULL
  /\ opening \in {"SDL_GetWindowSurface", "crashed"} =>
       handles.window # NULL /\ handles.screenSurface = NULL
=============================================================================
