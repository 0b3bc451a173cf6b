------------------------------ MODULE Console ------------------------------
(***************************************************************************)
(* The screen, GX and the controllers, from main() to the end (main.cpp,   *)
(* video.cpp, input.cpp, menu.cpp).  The GUI thread draws the frames under *)
(* the GUI lock; the menu thread takes the lock for a screenshot, but not  *)
(* to stop the motors.  Controllers come and go at any moment, and the     *)
(* retrace shows a framebuffer set before the last VIDEO_Flush.            *)
(***************************************************************************)
EXTENDS Naturals, FiniteSets

CONSTANTS
  Pads,        \* Wii remotes
  RumbleOn,    \* frames a motor is on for a request: 3
  RumbleRest,  \* frames a motor then takes no request: 12
  MaxRequests  \* bound: requests for rumble

\* A motor runs for a while, and rests for a while.
RumbleAssumption == RumbleOn \in Nat \ {0} /\ RumbleRest \in Nat \ {0}

VARIABLES
  main, gui,             \* what the two threads do next
  lock,                  \* "none", "main" or "gui"
  guiReady, guiStop,
  vmode, xfb, gxReady,   \* a mode was chosen, the framebuffers exist, GX is initialised
  whichfb, next, pending, shown, copying,   \* framebuffers: drawn to, set, flushed, on the screen
  plugged, motor,        \* external: the remotes there, their motors
  wpad,                  \* remotes whose data UpdatePads gave this frame
  todo,                  \* remotes DoRumble has still to do this frame
  rumbleRequest, rumbleCount, muted,
  quiet, requests        \* frames since the last request or ShutoffRumble; requests so far

threadVars == <<main, gui, lock, guiReady, guiStop>>
screenVars == <<vmode, xfb, gxReady, whichfb, next, pending, shown, copying>>
padVars == <<plugged, motor, wpad, todo, rumbleRequest, rumbleCount, muted, quiet, requests>>
vars == <<threadVars, screenVars, padVars>>

NoBuffer == 2

Init ==
  /\ main = "video" /\ gui = "none" /\ lock = "none"
  /\ guiReady = FALSE /\ guiStop = FALSE
  /\ vmode = FALSE /\ xfb = FALSE /\ gxReady = FALSE
  /\ whichfb = 0 /\ next = NoBuffer /\ pending = NoBuffer /\ shown = NoBuffer /\ copying = FALSE
  /\ plugged \in SUBSET Pads /\ motor = [p \in Pads |-> FALSE]
  /\ wpad = {} /\ todo = [p \in Pads |-> "done"]
  /\ rumbleRequest = {} /\ rumbleCount = [p \in Pads |-> 0] /\ muted = FALSE
  /\ quiet = [p \in Pads |-> 0] /\ requests = 0

Main(step) == main' = step /\ UNCHANGED <<gui, lock, guiReady, guiStop>>
Gui(step) == gui' = step /\ UNCHANGED <<main, lock, guiReady, guiStop>>

-----------------------------------------------------------------------------
(* The start: main().                                                      *)

InitVideo ==
  /\ main = "video"
  /\ vmode' = TRUE
  /\ Main("framebuffers")
  /\ UNCHANGED <<xfb, gxReady, whichfb, next, pending, shown, copying, padVars>>

\* The first half of InitVideo2: both framebuffers or neither.
AllocateFramebuffers ==
  /\ main = "framebuffers" /\ vmode
  /\ \/ xfb' = TRUE /\ next' = 0 /\ pending' = NoBuffer /\ shown' = 0 /\ Main("gx")
     \/ UNCHANGED <<xfb, next, pending, shown>> /\ Main("off")
  /\ UNCHANGED <<vmode, gxReady, whichfb, copying, padVars>>

\* The second: GX_Init, unless there is no memory for its FIFO.
InitGX ==
  /\ main = "gx"
  /\ \/ gxReady' = TRUE /\ Main("threads")
     \/ UNCHANGED gxReady /\ Main("off")
  /\ UNCHANGED <<vmode, xfb, whichfb, next, pending, shown, copying, padVars>>

InitGUIThreads ==
  /\ main = "threads"
  /\ \/ gui' = "top" /\ main' = "reset"
     \/ gui' \in {"none", "top"} /\ main' = "stop"
  /\ UNCHANGED <<lock, guiReady, guiStop, screenVars, padVars>>

\* Uses GX without the lock, before the first frame.
ResetVideo_Menu ==
  /\ main = "reset"
  /\ main' = "menu" /\ guiReady' = TRUE
  /\ UNCHANGED <<gui, lock, guiStop, screenVars, padVars>>

-----------------------------------------------------------------------------
(* The menu thread while the menus are shown.                              *)

HaltGui ==
  /\ main = "menu" /\ lock = "none"
  /\ lock' = "main" /\ main' = "draw"
  /\ UNCHANGED <<gui, guiReady, guiStop, screenVars, padVars>>

\* DoMPlayerGuiDraw, then TakeScreenshot, whose GX_DrawDone flushes.
TakeScreenshot ==
  /\ main = "draw"
  /\ pending' = next
  /\ lock' = "none" /\ main' = "menu"
  /\ UNCHANGED <<gui, guiReady, guiStop, vmode, xfb, gxReady, whichfb, next, shown, copying, padVars>>

\* Only remotes that answer are told; the requests stay.
Shutoff ==
  /\ motor' = [p \in Pads |-> motor[p] /\ p \notin plugged]
  /\ rumbleCount' = [p \in Pads |-> 0]
  /\ quiet' = [p \in Pads |-> 0]
  /\ UNCHANGED <<plugged, wpad, todo, rumbleRequest, muted, requests>>

\* Where a menu opens, without the lock.
ShutoffRumble ==
  /\ main = "menu"
  /\ Shutoff
  /\ UNCHANGED <<threadVars, screenVars>>

MuteSound ==
  /\ main = "menu" /\ ~muted
  /\ muted' = TRUE
  /\ UNCHANGED <<threadVars, screenVars, plugged, motor, wpad, todo, rumbleRequest, rumbleCount, quiet, requests>>

-----------------------------------------------------------------------------
(* A frame: UpdateGUI.                                                     *)

BeginFrame ==
  /\ gui = "top"
  /\ IF guiStop THEN gui' = "done" /\ UNCHANGED lock
     ELSE guiReady /\ lock = "none" /\ lock' = "gui" /\ gui' = "pads"
  /\ UNCHANGED <<main, guiReady, guiStop, screenVars, padVars>>

UpdatePads ==
  /\ gui = "pads"
  /\ wpad' = plugged
  /\ rumbleRequest' = rumbleRequest \cap plugged
  /\ rumbleCount' = [p \in Pads |-> IF p \in plugged THEN rumbleCount[p] ELSE 0]
  /\ quiet' = [p \in Pads |-> IF motor[p] THEN quiet[p] + 1 ELSE 0]
  /\ Gui("draw")
  /\ UNCHANGED <<screenVars, plugged, motor, todo, muted, requests>>

\* The widgets and the pointers.
Draw ==
  /\ gui = "draw"
  /\ todo' = [p \in Pads |-> "begin"]
  /\ Gui("rumble")
  /\ UNCHANGED <<screenVars, plugged, motor, wpad, rumbleRequest, rumbleCount, muted, quiet, requests>>

\* DoRumble of a remote that does not answer, or while the sound is off.
SkipRumble(p) ==
  /\ gui = "rumble" /\ todo[p] = "begin"
  /\ \/ p \notin plugged /\ UNCHANGED motor
     \/ p \in plugged /\ muted /\ motor' = [motor EXCEPT ![p] = FALSE]
  /\ todo' = [todo EXCEPT ![p] = "done"]
  /\ UNCHANGED <<threadVars, screenVars, plugged, wpad, rumbleRequest, rumbleCount, muted, quiet, requests>>

\* Otherwise it looks at the request and the count,
TestRumble(p) ==
  /\ gui = "rumble" /\ todo[p] = "begin" /\ p \in plugged /\ ~muted
  /\ IF p \in rumbleRequest /\ rumbleCount[p] >= RumbleOn
     THEN /\ rumbleCount' = [rumbleCount EXCEPT ![p] = RumbleRest]
          /\ rumbleRequest' = rumbleRequest \ {p}
          /\ todo' = [todo EXCEPT ![p] = "done"]
     ELSE /\ rumbleCount' = IF p \in rumbleRequest \/ rumbleCount[p] = 0 THEN rumbleCount
                            ELSE [rumbleCount EXCEPT ![p] = @ - 1]
          /\ todo' = [todo EXCEPT ![p] = IF p \in rumbleRequest THEN "on" ELSE "off"]
          /\ UNCHANGED rumbleRequest
  /\ UNCHANGED <<threadVars, screenVars, plugged, motor, wpad, muted, quiet, requests>>

\* switches the motor, if it is there by then,
WPAD_Rumble(p) ==
  /\ gui = "rumble" /\ todo[p] \in {"on", "off"}
  /\ motor' = [motor EXCEPT ![p] = (todo[p] = "on" /\ p \in plugged)]
  /\ todo' = [todo EXCEPT ![p] = IF @ = "on" THEN "count" ELSE "done"]
  /\ UNCHANGED <<threadVars, screenVars, plugged, wpad, rumbleRequest, rumbleCount, muted, quiet, requests>>

\* and counts a frame with the motor on.
CountRumble(p) ==
  /\ gui = "rumble" /\ todo[p] = "count"
  /\ rumbleCount' = [rumbleCount EXCEPT ![p] = @ + 1]
  /\ todo' = [todo EXCEPT ![p] = "done"]
  /\ UNCHANGED <<threadVars, screenVars, plugged, motor, wpad, rumbleRequest, muted, quiet, requests>>

\* mainWindow->Update: a pointer that comes upon a button asks for rumble.
Update ==
  /\ gui = "rumble" /\ \A p \in Pads : todo[p] = "done"
  /\ \E asking \in SUBSET wpad :
       /\ requests + Cardinality(asking) <= MaxRequests
       /\ requests' = requests + Cardinality(asking)
       /\ rumbleRequest' = rumbleRequest \cup asking
       /\ quiet' = [p \in Pads |-> IF p \in asking THEN 0 ELSE quiet[p]]
  /\ Gui("render")
  /\ UNCHANGED <<screenVars, plugged, motor, wpad, todo, rumbleCount, muted>>

\* Menu_Render: the copy begins, and the other framebuffer is set;
Menu_Render ==
  /\ gui = "render"
  /\ whichfb' = 1 - whichfb
  /\ copying' = TRUE
  /\ next' = whichfb'
  /\ Gui("copy")
  /\ UNCHANGED <<vmode, xfb, gxReady, pending, shown, padVars>>

\* Mutant: the frame that was copied is not the one to show.
Draw_VIDEO_Untold ==
  /\ gui = "copy"
  /\ copying' = FALSE
  /\ Gui("wait")
  /\ UNCHANGED <<vmode, xfb, gxReady, whichfb, next, pending, shown, padVars>>

\* GX_DrawDone: the copy is made, and its callback flushes;
Draw_VIDEO ==
  /\ gui = "copy"
  /\ copying' = FALSE
  /\ pending' = next
  /\ Gui("wait")
  /\ UNCHANGED <<vmode, xfb, gxReady, whichfb, next, shown, padVars>>

\* and the frame ends with the retrace.
WaitVSync ==
  /\ gui = "wait"
  /\ shown' = pending
  /\ gui' = "top" /\ lock' = "none"
  /\ UNCHANGED <<main, guiReady, guiStop, vmode, xfb, gxReady, whichfb, next, pending, copying, padVars>>

-----------------------------------------------------------------------------
(* The end: ExitApp.                                                       *)

ExitApp ==
  /\ main = "menu" /\ main' = "stop"
  /\ UNCHANGED <<gui, lock, guiReady, guiStop, screenVars, padVars>>

StopGUIThreads ==
  /\ main = "stop"
  /\ guiStop' = TRUE /\ main' = "join"
  /\ UNCHANGED <<gui, lock, guiReady, screenVars, padVars>>

JoinGUI ==
  /\ main = "join" /\ gui \in {"none", "done"}
  /\ Main("motors")
  /\ UNCHANGED <<screenVars, padVars>>

LastShutoff ==
  /\ main = "motors"
  /\ Shutoff
  /\ Main("gx off")
  /\ UNCHANGED screenVars

\* Then WPAD_Shutdown.
StopGX ==
  /\ main = "gx off"
  /\ gxReady' = FALSE
  /\ Main("off")
  /\ UNCHANGED <<vmode, xfb, whichfb, next, pending, shown, copying, padVars>>

-----------------------------------------------------------------------------
(* External: a remote is found or lost, and its motor stops with it; the   *)
(* screen shows what was flushed last.                                     *)

Plug(p) ==
  /\ main # "off"
  /\ plugged' = IF p \in plugged THEN plugged \ {p} ELSE plugged \cup {p}
  /\ motor' = [motor EXCEPT ![p] = FALSE]
  /\ UNCHANGED <<threadVars, screenVars, wpad, todo, rumbleRequest, rumbleCount, muted, quiet, requests>>

Retrace ==
  /\ pending # shown /\ pending # NoBuffer
  /\ shown' = pending
  /\ UNCHANGED <<threadVars, vmode, xfb, gxReady, whichfb, next, pending, copying, padVars>>

DoRumble == \E p \in Pads : SkipRumble(p) \/ TestRumble(p) \/ WPAD_Rumble(p) \/ CountRumble(p)

Next ==
  \/ InitVideo \/ AllocateFramebuffers \/ InitGX \/ InitGUIThreads \/ ResetVideo_Menu
  \/ HaltGui \/ TakeScreenshot \/ ShutoffRumble \/ MuteSound
  \/ BeginFrame \/ UpdatePads \/ Draw \/ DoRumble \/ Update \/ Menu_Render \/ Draw_VIDEO \/ WaitVSync
  \/ ExitApp \/ StopGUIThreads \/ JoinGUI \/ LastShutoff \/ StopGX
  \/ Retrace \/ \E p \in Pads : Plug(p)

Spec == Init /\ [][Next]_vars

-----------------------------------------------------------------------------
\* GX is only used between GX_Init and StopGX, and no copy is made into the
\* framebuffer on the screen, whoever flushes between two frames; a motor is
\* not on more than RumbleOn + 1 frames after the last request for it, and
\* none is when the program ends (video.cpp:54, 169-175, input.cpp:205-220).
ConsoleAtRest ==
  /\ (gui \in {"draw", "rumble", "render", "copy"} \/ main \in {"reset", "draw"}) => gxReady /\ xfb
  /\ copying => whichfb # shown
  /\ \A p \in Pads : motor[p] => quiet[p] <= RumbleOn + 1
  /\ main \in {"gx off", "off"} => \A p \in Pads : ~motor[p]
=============================================================================
