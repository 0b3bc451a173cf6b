-------------------------- MODULE Shutdown_proofs --------------------------
(***************************************************************************)
(* The GUI lock for any number of threads and any depth, and Shutdown at   *)
(* every nesting depth of it: no thread uses what a stage of ExitApp has   *)
(* taken away.  Then the menus that run between the start and the exit,    *)
(* an instance of Menus with variables of the same names.                  *)
(***************************************************************************)
EXTENDS Shutdown, TLAPS

\* LockConsistent is inductive as it stands: every instruction of HaltGui and
\* ResumeGui keeps owner, depth and mutex in agreement.
LEMMA LockStep == LockConsistent /\ [LockNext]_lockVars => LockConsistent'
<1> SUFFICES ASSUME LockConsistent, [LockNext]_lockVars PROVE LockConsistent'
  OBVIOUS
<1> USE ThreadsAssumption DEF LockConsistent, LockTypeOK, OnlyHolder, DepthCounts, Calls
<1>1. ASSUME NEW t \in Threads, Lock(t) PROVE LockConsistent'
  BY <1>1 DEF Lock
<1>2. ASSUME NEW t \in Threads, ResumeGui(t) PROVE LockConsistent'
  BY <1>2 DEF ResumeGui
<1>3. ASSUME NEW t \in Threads, SetOwner(t) PROVE LockConsistent'
  BY <1>3 DEF SetOwner
<1>4. ASSUME NEW t \in Threads, Deepen(t) PROVE LockConsistent'
  BY <1>4 DEF Deepen
<1>5. ASSUME NEW t \in Threads, Shrink(t) PROVE LockConsistent'
  BY <1>5 DEF Shrink
<1>6. ASSUME NEW t \in Threads, Unlock(t) PROVE LockConsistent'
  BY <1>6 DEF Unlock
<1>7. CASE UNCHANGED lockVars
  BY <1>7 DEF lockVars
<1> QED
  BY <1>1, <1>2, <1>3, <1>4, <1>5, <1>6, <1>7 DEF LockNext, InCall

\* Whatever the threads call, in any order, owner and depth agree with the
\* mutex, and so a stray ResumeGui frees nobody's lock.
THEOREM LockIsConsistent == LockSpec => []LockConsistent
<1>1. LockInit => LockConsistent
  BY ThreadsAssumption DEF LockInit, LockConsistent, LockTypeOK, OnlyHolder, DepthCounts, Calls
<1> QED
  BY <1>1, LockStep, PTL DEF LockSpec

-----------------------------------------------------------------------------
(* The program.                                                            *)

\* The threads of the program use the lock by its calls only.
LEMMA LockSteps == [Next]_vars => [LockNext]_lockVars
<1> SUFFICES ASSUME [Next]_vars PROVE [LockNext]_lockVars
  OBVIOUS
<1>1. CASE HaltGui \/ EndSection \/ MenuEnds
  BY <1>1, LockUsersAssumption DEF HaltGui, EndSection, MenuEnds, LockNext
<1>2. CASE GuiLeave \/ GuiEnter
  BY <1>2, LockUsersAssumption DEF GuiLeave, GuiEnter, LockNext
<1>3. CASE BarLeave \/ BarEnter \/ LastEnter
  BY <1>3, LockUsersAssumption DEF BarLeave, BarEnter, LastEnter, LockNext
<1>4. CASE Calling
  BY <1>4 DEF Calling, LockNext
<1>5. CASE MenuThread
  BY <1>5 DEF MenuThread, Boot, InitGUIThreads, InitMenu, InitNetwork, StopDownload,
     StopLoading, StopGui, MediaCheck, SaveSettings, DumpList, Cleanup, StopNetwork,
     NetworkDown, Unmount
<1>6. CASE \/ BeginLoad \/ NetWaited \/ RequestEnds \/ GuiEnds \/ GuiFrame
           \/ LoadingEnds \/ DownloadBegins \/ DownloadEnds \/ Worker
           \/ PressButton \/ MoveCard \/ Relaunch
  BY <1>6 DEF BeginLoad, NetWaited, RequestEnds, GuiEnds, GuiFrame, LoadingEnds,
     DownloadBegins, DownloadEnds, Worker, TakeRequest, AttemptEnds, WorkerEnds,
     PressButton, MoveCard, Relaunch
<1>7. CASE UNCHANGED vars
  BY <1>7 DEF vars
<1> QED
  BY <1>1, <1>2, <1>3, <1>4, <1>5, <1>6, <1>7 DEF Next, GuiThread, OtherThreads

\* The lock of the whole program is consistent at every instruction, MainMenu's
\* stray ResumeGui included.
THEOREM LockOfTheProgram == Spec => []LockConsistent
<1>1. Init => LockConsistent
  BY ThreadsAssumption
  DEF Init, LockInit, LockConsistent, LockTypeOK, OnlyHolder, DepthCounts, Calls
<1>2. LockConsistent /\ [Next]_vars => LockConsistent'
  BY LockSteps, LockStep
<1> QED
  BY <1>1, <1>2, PTL DEF Spec

\* One case per action; each leaf needs the action, the invariant, and the
\* lock's own invariant after the step.
LEMMA StagesStep ==
  ASSUME IndInv, LockConsistent', Next
  PROVE  (TypeOK /\ Sections /\ Widgets /\ Stages)'
<1> USE LockUsersAssumption, ThreadsAssumption
    DEF IndInv, LockConsistent, LockTypeOK, OnlyHolder, DepthCounts, Calls,
        TypeOK, Sections, Outside, Leaving, Inside, Widgets, Stages, InMenus,
        BeforeThreads, AfterGui, AfterLoading, AfterDownload, Ended,
        lockVars, exitVars, startVars, guiVars, downloadVars, netVars, mediaVars
<1>1. CASE MenuThread
  <2>1. CASE Boot
    BY <2>1 DEF Boot
  <2>2. CASE InitGUIThreads
    BY <2>2 DEF InitGUIThreads
  <2>3. CASE InitMenu
    BY <2>3 DEF InitMenu
  <2>4. CASE InitNetwork
    BY <2>4 DEF InitNetwork
  <2>5. CASE StopDownload
    BY <2>5 DEF StopDownload
  <2>6. CASE StopLoading
    BY <2>6 DEF StopLoading
  <2>7. CASE StopGui
    BY <2>7 DEF StopGui
  <2>8. CASE MediaCheck
    BY <2>8 DEF MediaCheck, IsInserted
  <2>9. CASE SaveSettings
    BY <2>9 DEF SaveSettings, IsInserted
  <2>10. CASE DumpList
    BY <2>10 DEF DumpList
  <2>11. CASE Cleanup
    BY <2>11 DEF Cleanup
  <2>12. CASE StopNetwork
    BY <2>12 DEF StopNetwork
  <2>13. CASE NetworkDown
    BY <2>13 DEF NetworkDown
  <2>14. CASE Unmount
    BY <2>14 DEF Unmount
  <2> QED
    BY <1>1, <2>1, <2>2, <2>3, <2>4, <2>5, <2>6, <2>7, <2>8, <2>9, <2>10,
       <2>11, <2>12, <2>13, <2>14 DEF MenuThread
<1>2. CASE HaltGui \/ EndSection \/ MenuEnds
  <2>1. CASE HaltGui
    BY <2>1 DEF HaltGui, Lock
  <2>2. CASE EndSection
    BY <2>2 DEF EndSection, ResumeGui
  <2>3. CASE MenuEnds
    BY <2>3 DEF MenuEnds, ResumeGui
  <2> QED
    BY <1>2, <2>1, <2>2, <2>3
<1>3. CASE BeginLoad \/ NetWaited \/ RequestEnds
  <2>1. CASE BeginLoad
    BY <2>1 DEF BeginLoad
  <2>2. CASE NetWaited
    BY <2>2 DEF NetWaited
  <2>3. CASE RequestEnds
    BY <2>3 DEF RequestEnds
  <2> QED
    BY <1>3, <2>1, <2>2, <2>3
<1>4. CASE GuiThread \/ GuiEnter
  <2>1. CASE GuiEnds
    BY <2>1 DEF GuiEnds
  <2>2. CASE GuiFrame
    BY <2>2 DEF GuiFrame
  <2>3. CASE GuiLeave
    BY <2>3 DEF GuiLeave, ResumeGui
  <2>4. CASE GuiEnter
    BY <2>4 DEF GuiEnter, Lock
  <2> QED
    BY <1>4, <2>1, <2>2, <2>3, <2>4 DEF GuiThread
<1>5. CASE OtherThreads \/ BarEnter \/ LastEnter
  <2>1. CASE LoadingEnds
    BY <2>1 DEF LoadingEnds
  <2>2. CASE DownloadBegins
    BY <2>2 DEF DownloadBegins
  <2>3. CASE BarLeave
    BY <2>3 DEF BarLeave, ResumeGui
  <2>4. CASE DownloadEnds
    BY <2>4 DEF DownloadEnds
  <2>5. CASE BarEnter
    BY <2>5 DEF BarEnter, Lock
  <2>6. CASE LastEnter
    BY <2>6 DEF LastEnter, Lock
  <2> QED
    BY <1>5, <2>1, <2>2, <2>3, <2>4, <2>5, <2>6 DEF OtherThreads
<1>6. CASE Worker
  <2>1. CASE TakeRequest
    BY <2>1 DEF TakeRequest
  <2>2. CASE AttemptEnds
    BY <2>2 DEF AttemptEnds
  <2>3. CASE WorkerEnds
    BY <2>3 DEF WorkerEnds
  <2> QED
    BY <1>6, <2>1, <2>2, <2>3 DEF Worker
<1>7. CASE Calling
  BY <1>7 DEF Calling, InCall, SetOwner, Deepen, Shrink, Unlock
<1>8. CASE PressButton \/ MoveCard \/ Relaunch
  <2>1. CASE PressButton
    BY <2>1 DEF PressButton
  <2>2. CASE MoveCard
    BY <2>2 DEF MoveCard
  <2>3. CASE Relaunch
    BY <2>3 DEF Relaunch
  <2> QED
    BY <1>8, <2>1, <2>2, <2>3
<1> QED
  BY <1>1, <1>2, <1>3, <1>4, <1>5, <1>6, <1>7, <1>8 DEF Next

LEMMA IndInvStep == IndInv /\ [Next]_vars => IndInv'
<1> SUFFICES ASSUME IndInv, [Next]_vars PROVE IndInv'
  OBVIOUS
<1>1. LockConsistent'
  BY LockSteps, LockStep DEF IndInv
<1>2. CASE Next
  BY <1>1, <1>2, StagesStep DEF IndInv
<1>3. CASE UNCHANGED vars
  BY <1>1, <1>3 DEF vars, lockVars, guiVars, startVars, downloadVars, netVars, IndInv,
     TypeOK, Sections, Outside, Leaving, Inside, Widgets, Stages, InMenus, Ended
<1> QED
  BY <1>2, <1>3

\* What a stage takes away is used by no thread any more: the invariant says
\* which threads are gone at each stage, and that a thread which is not gone
\* and may touch widgets still has them.
THEOREM NothingUsed == Spec => []NothingUsedAfterFreed
<1>1. Init => IndInv
  BY ThreadsAssumption, LockUsersAssumption
  DEF Init, LockInit, IndInv, LockConsistent, LockTypeOK, OnlyHolder, DepthCounts, Calls,
      TypeOK, Sections, Outside, Leaving, Inside, Widgets, Stages, InMenus, Ended,
      BeforeThreads, AfterGui, AfterLoading, AfterDownload
<1>2. IndInv => NothingUsedAfterFreed
  BY LockUsersAssumption
  DEF NothingUsedAfterFreed, IndInv, LockConsistent, LockTypeOK, Sections, Outside,
      Widgets, Stages, InMenus, Ended, AfterGui, AfterLoading, AfterDownload, BeforeThreads
<1> QED
  BY <1>1, <1>2, IndInvStep, PTL DEF Spec

-----------------------------------------------------------------------------
(* The menus: each finds the window with its own widgets.                  *)

CONSTANTS MaxClicks
VARIABLES menu, phase, choice, modal, question, shown, off, clicked, mode, saveOff, editing, moving, hidden, unsaved,
          exiting

Screen == INSTANCE Menus

Mains == {"Splash", "Home", "TopSites", "Favorites", "Settings", "Developer"}
Prompts == {"prompt", "keyboard", "manager"}
WithPage == {"page", "bar leaves", "page ends"}
Browsing == {"load", "slide", "form"} \cup WithPage

\* What a menu's function returns.
Returns(m) ==
  CASE m = "Splash" -> {"Splash", "Home", "Browse"}
    [] m = "Home" -> {"Browse", "TopSites", "Settings", "Exit", "none"}
    [] m = "TopSites" -> {"Home", "Favorites", "none"}
    [] m = "Favorites" -> {"Home", "none"}
    [] m = "Settings" -> {"Home", "Developer"}
    [] m = "Developer" -> {"Home", "none"}
    [] OTHER -> {"Home"}

\* What is in mainWindow at a place of a function, but for what it asks.
Bar(h) == IF h THEN {} ELSE {"Toolbar"}
OnScreen(m, p, c, h) ==
  CASE p = "entering" -> {"Favorites", "Right"}
    [] p \in {"loop", "fade"} -> Screen!Layout(m)
    [] p = "fade again" -> Screen!Layout(m) \ Screen!FirstOut(m)
    [] p = "enter" -> (Screen!Layout(m) \ Screen!FirstOut(m)) \ Screen!SecondOut(m, c)
    [] p \in {"load", "slide"} -> {"promptWindow"}
    [] p \in WithPage -> {"childWindow"} \cup Bar(h)
    [] p = "form" -> {"Form"} \cup Bar(h)
    [] OTHER -> {}

\* Where the functions are.
PlaceInv ==
  /\ menu \in Mains \cup {"Browse", "Done"}
  /\ phase \in {"enter", "entering", "loop", "fade", "fade again", "next"} \cup Browsing
  /\ phase = "entering" => menu = "Favorites" /\ choice = "none"
  /\ phase \in {"loop", "fade", "fade again"} => menu \in Mains
  /\ phase \in Browsing \cup {"next"} => menu = "Browse" /\ choice = "Home"
  /\ phase = "loop" => choice = "none" \/ (menu = "Home" /\ choice \in {"Exit", "Settings"})
  /\ phase \in {"fade", "fade again", "enter"} => menu = "Done" \/ choice \in Returns(menu)
  /\ menu = "Done" => phase = "enter" /\ exiting
  /\ ~hidden => phase \in WithPage \cup {"form"}
  /\ hidden \in BOOLEAN

\* What blocks them.
ModalInv ==
  /\ modal \in {"none", "closing"} \cup Prompts
  /\ question = "exit" => menu = "Home" /\ phase = "loop" /\ modal # "none"
  /\ menu \in {"Done", "TopSites"} => modal = "none"
  /\ modal # "none" => off
  /\ off => modal # "none" \/ phase \in Browsing

ShownInv ==
  IF menu = "Done" THEN shown \subseteq {"App", "Left", "Right"}
  ELSE LET drawn == OnScreen(menu, phase, choice, hidden)
       IN  IF modal = "none" THEN shown = drawn ELSE \E k \in Prompts : shown = drawn \cup {k}

\* The Save button in Top Sites.
SaveInv ==
  /\ menu = "Home" => mode = "HOMEPAGE"
  /\ menu = "TopSites" /\ phase = "loop" =>
       /\ editing \in BOOLEAN /\ mode = (IF editing THEN "EDITING" ELSE "FAVORITES")
       /\ saveOff = ~editing /\ ("btnSave" \in clicked => editing)

UnsavedInv == unsaved => exiting \/ (menu \in {"Settings", "Developer"} /\ phase = "loop")

MenusInv == PlaceInv /\ ModalInv /\ ShownInv /\ SaveInv /\ UnsavedInv

LEMMA Drawings ==
  ASSUME NEW m, NEW c, NEW h
  PROVE  /\ OnScreen(m, "loop", c, h) = Screen!Layout(m) /\ OnScreen(m, "fade", c, h) = Screen!Layout(m)
         /\ OnScreen(m, "fade again", c, h) = Screen!Layout(m) \ Screen!FirstOut(m)
         /\ OnScreen(m, "enter", c, h) = (Screen!Layout(m) \ Screen!FirstOut(m)) \ Screen!SecondOut(m, c)
         /\ OnScreen(m, "load", c, h) = {"promptWindow"} /\ OnScreen(m, "slide", c, h) = {"promptWindow"}
         /\ \A p \in WithPage : OnScreen(m, p, c, h) = {"childWindow"} \cup Bar(h)
         /\ OnScreen(m, "form", c, h) = {"Form"} \cup Bar(h)
         /\ OnScreen(m, "next", c, h) = {}
BY DEF OnScreen, WithPage

\* The widgets of each menu.
LEMMA Layouts ==
  /\ Screen!Layout("Splash") = {"Init"} /\ Screen!FirstOut("Splash") = {"Init"}
  /\ Screen!Layout("Home") = {"InsertURL", "btnGo", "btnExit", "App", "Right", "Splash"}
  /\ Screen!FirstOut("Home") = {"InsertURL", "btnGo", "btnExit", "Splash"}
  /\ Screen!Layout("TopSites") = {"Blocks", "App", "Left", "Right"} /\ Screen!FirstOut("TopSites") = {"Blocks"}
  /\ Screen!Layout("Favorites") = {"Favorites", "Left"} /\ Screen!FirstOut("Favorites") = {"Favorites"}
  /\ Screen!Layout("Settings") = {"SettingsWindow"} /\ Screen!FirstOut("Settings") = {"SettingsWindow"}
  /\ Screen!Layout("Developer") = {"AdvancedWindow"} /\ Screen!FirstOut("Developer") = {"AdvancedWindow"}
  /\ Screen!Layout("Browse") = {"promptWindow", "childWindow", "Form"}
  /\ Screen!FirstOut("Browse") = {"promptWindow", "childWindow", "Form"}
BY DEF Screen!Layout, Screen!FirstOut, Screen!StackOf

LEMMA Rests ==
  ASSUME NEW c
  PROVE  /\ Screen!SecondOut("Splash", c) = {} /\ Screen!SecondOut("Settings", c) = {}
         /\ Screen!SecondOut("Developer", c) = {} /\ Screen!SecondOut("Browse", c) = {}
         /\ Screen!SecondOut("Home", c) = (IF c = "TopSites" THEN {} ELSE {"App", "Right"})
         /\ Screen!SecondOut("TopSites", c) = (IF c = "Home" THEN {} ELSE {"App", "Left"})
         /\ Screen!SecondOut("Favorites", c) = (IF c = "Home" THEN {} ELSE {"Left"})
BY DEF Screen!SecondOut

LEMMA MenusRest ==
  ASSUME MenusInv, UNCHANGED <<menu, phase, choice, modal, question, shown, off, clicked, mode, saveOff,
                               editing, hidden, unsaved, exiting>>
  PROVE  MenusInv'
<1>1. PlaceInv'
  BY DEF MenusInv, PlaceInv
<1>2. ModalInv'
  BY DEF MenusInv, ModalInv
<1>3. ShownInv'
  BY DEF MenusInv, ShownInv
<1>4. SaveInv'
  BY DEF MenusInv, SaveInv
<1>5. UnsavedInv'
  BY DEF MenusInv, UnsavedInv
<1> QED BY <1>1, <1>2, <1>3, <1>4, <1>5 DEF MenusInv

LEMMA FrameDrawn == ASSUME MenusInv, Screen!Frame PROVE MenusInv'
BY MenusRest DEF Screen!Frame, Screen!screen

LEMMA ExitRequested == ASSUME MenusInv, Screen!RequestExit PROVE MenusInv'
<1>1. UNCHANGED <<menu, phase, choice, modal, question, shown, off, clicked, mode, saveOff, editing, hidden, unsaved>>
      /\ exiting'
  BY DEF Screen!RequestExit, Screen!screen
<1> QED BY <1>1 DEF MenusInv, PlaceInv, ModalInv, ShownInv, SaveInv, UnsavedInv

LEMMA ButtonClicked == ASSUME MenusInv, NEW b, Screen!Click(b) PROVE MenusInv'
<1>1. UNCHANGED <<menu, phase, choice, modal, question, shown, off, mode, saveOff, editing, hidden, unsaved, exiting>>
      /\ clicked' = clicked \cup {b} /\ (b = "btnSave" => ~saveOff)
  BY DEF Screen!Click
<1>2. SaveInv'
  BY <1>1 DEF MenusInv, SaveInv
<1> QED BY <1>1, <1>2 DEF MenusInv, PlaceInv, ModalInv, ShownInv, UnsavedInv

\* A question is shown above what is there, and the menu stays where it is.
LEMMA Asked ==
  ASSUME MenusInv, modal = "none", menu \notin {"Done", "TopSites"}, NEW k \in Prompts, NEW q, Screen!Ask(k, q),
         menu' = menu, OnScreen(menu', phase', choice', hidden') = OnScreen(menu, phase, choice, hidden),
         q = "exit" => menu = "Home" /\ phase' = "loop"
  PROVE  ModalInv' /\ ShownInv' /\ mode' = mode
<1>1. /\ modal' = k /\ question' = q /\ shown' = shown \cup {k} /\ off' = TRUE /\ mode' = mode
      /\ k # "none"
  BY DEF Screen!Ask, Screen!Disable, Prompts
<1>2. shown' = OnScreen(menu', phase', choice', hidden') \cup {k}
  BY <1>1 DEF MenusInv, ShownInv
<1>3. ModalInv'
  BY <1>1 DEF ModalInv
<1>4. ShownInv'
  BY <1>1, <1>2 DEF ShownInv
<1> QED BY <1>1, <1>3, <1>4

LEMMA QuestionAnswered == ASSUME MenusInv, Screen!Answer PROVE MenusInv'
<1>1. /\ UNCHANGED <<menu, phase, question, shown, off, clicked, mode, saveOff, editing, hidden, unsaved, exiting>>
      /\ modal \in Prompts /\ modal' = "closing"
      /\ choice' = choice \/ (choice' = "Exit" /\ question = "exit")
  BY DEF Screen!Answer, Screen!screen, Prompts
<1>2. PlaceInv'
  BY <1>1 DEF MenusInv, PlaceInv, ModalInv, Browsing, WithPage
<1>3. ModalInv'
  BY <1>1 DEF MenusInv, ModalInv, Prompts
<1>4. ShownInv'
  <2>1. OnScreen(menu', phase', choice', hidden') = OnScreen(menu, phase, choice, hidden)
    <3>1. CASE choice' = choice
      BY <1>1, <3>1
    <3>2. CASE question = "exit"
      <4>1. phase = "loop" /\ phase' = "loop" /\ menu' = menu
        BY <1>1, <3>2 DEF MenusInv, ModalInv
      <4>2. \A m, c, h : OnScreen(m, "loop", c, h) = Screen!Layout(m)
        BY DEF OnScreen, WithPage
      <4> QED BY <4>1, <4>2
    <3> QED BY <1>1, <3>1, <3>2
  <2> QED BY <1>1, <2>1 DEF MenusInv, ShownInv, Prompts
<1>5. SaveInv' /\ UnsavedInv'
  BY <1>1 DEF MenusInv, SaveInv, UnsavedInv
<1> QED BY <1>2, <1>3, <1>4, <1>5 DEF MenusInv

LEMMA Placing == \A m, c, h : OnScreen(m, "entering", c, h) = {"Favorites", "Right"}
BY DEF OnScreen, WithPage

\* No place has a question of its own.
LEMMA NoPrompts ==
  ASSUME NEW m \in Mains \cup {"Browse"}, NEW p, NEW c, NEW h
  PROVE  OnScreen(m, p, c, h) \cap Prompts = {}
<1>1. Screen!Layout(m) \cap Prompts = {}
  BY Layouts DEF Mains, Prompts
<1>2. Bar(h) \cap Prompts = {}
  BY DEF Bar, Prompts
<1>3. CASE p \in {"loop", "fade", "fade again", "enter"}
  <2>1. OnScreen(m, p, c, h) \subseteq Screen!Layout(m)
    BY <1>3 DEF OnScreen, WithPage
  <2> QED BY <1>1, <2>1
<1>4. CASE p \in WithPage \cup {"form"}
  <2>1. OnScreen(m, p, c, h) \subseteq {"childWindow", "Form"} \cup Bar(h)
    BY <1>4 DEF OnScreen, WithPage
  <2> QED BY <1>2, <2>1 DEF Prompts
<1>5. CASE p \in {"load", "slide"}
  <2>1. OnScreen(m, p, c, h) = {"promptWindow"}
    BY <1>5 DEF OnScreen, WithPage
  <2> QED BY <2>1 DEF Prompts
<1>6. CASE p = "entering"
  BY <1>6, Placing DEF Prompts
<1>7. CASE p \notin {"loop", "fade", "fade again", "enter", "entering", "load", "slide", "form"} \cup WithPage
  BY <1>7 DEF OnScreen, WithPage
<1> QED BY <1>3, <1>4, <1>5, <1>6, <1>7

LEMMA ModalClosed == ASSUME MenusInv, Screen!CloseModal PROVE MenusInv'
<1>1. /\ UNCHANGED <<menu, phase, choice, mode, editing, hidden, unsaved, exiting>>
      /\ modal = "closing" /\ modal' = "none" /\ question' = "other" /\ shown' = shown \ Prompts /\ off' = FALSE
  BY DEF Screen!CloseModal, Screen!Enable, Prompts
<1>2. PlaceInv' /\ ModalInv' /\ UnsavedInv'
  BY <1>1 DEF MenusInv, PlaceInv, ModalInv, UnsavedInv
<1>3. ShownInv'
  <2>1. menu \in Mains \cup {"Browse"}
    BY <1>1 DEF MenusInv, PlaceInv, ModalInv
  <2>2. PICK k \in Prompts : shown = OnScreen(menu, phase, choice, hidden) \cup {k}
    BY <1>1, <2>1 DEF MenusInv, ShownInv, Mains
  <2>3. OnScreen(menu, phase, choice, hidden) \cap Prompts = {}
    BY <2>1, NoPrompts
  <2>4. shown' = OnScreen(menu, phase, choice, hidden)
    BY <1>1, <2>2, <2>3
  <2> QED BY <1>1, <2>1, <2>4 DEF ShownInv, Mains
<1>4. SaveInv'
  BY <1>1 DEF MenusInv, SaveInv, ModalInv
<1> QED BY <1>2, <1>3, <1>4 DEF MenusInv

\* What the menu before left for the next one.
Remains(c) ==
  CASE c = "Home" -> {{"App", "Right"}, {"App", "Left", "Right"}, {"Left"}, {}}
    [] c = "TopSites" -> {{"App", "Right"}}
    [] c = "Favorites" -> {{"Right"}}
    [] OTHER -> {{}}

LEMMA LeftBehind ==
  ASSUME NEW m \in Mains \cup {"Browse"}, NEW c \in Returns(m) \ {"none", "Exit"}, NEW h
  PROVE  OnScreen(m, "enter", c, h) \in Remains(c)
<1>1. OnScreen(m, "enter", c, h) = (Screen!Layout(m) \ Screen!FirstOut(m)) \ Screen!SecondOut(m, c)
  BY DEF OnScreen, WithPage
<1>2. CASE m = "Home"
  <2>1. OnScreen(m, "enter", c, h) = IF c = "TopSites" THEN {"App", "Right"} ELSE {}
    BY <1>1, <1>2, Layouts, Rests
  <2> QED BY <2>1, <1>2 DEF Returns, Remains
<1>3. CASE m = "TopSites"
  <2>1. OnScreen(m, "enter", c, h) = IF c = "Home" THEN {"App", "Left", "Right"} ELSE {"Right"}
    BY <1>1, <1>3, Layouts, Rests
  <2> QED BY <2>1, <1>3 DEF Returns, Remains
<1>4. CASE m = "Favorites"
  <2>1. OnScreen(m, "enter", c, h) = IF c = "Home" THEN {"Left"} ELSE {}
    BY <1>1, <1>4, Layouts, Rests
  <2> QED BY <2>1, <1>4 DEF Returns, Remains
<1>5. CASE m \in {"Splash", "Settings", "Developer", "Browse"}
  <2>1. OnScreen(m, "enter", c, h) = {}
    BY <1>1, <1>5, Layouts, Rests
  <2>2. c \in {"Splash", "Home", "Browse", "Developer"}
    BY <1>5 DEF Returns
  <2> QED BY <2>1, <2>2 DEF Remains
<1> QED BY <1>2, <1>3, <1>4, <1>5 DEF Mains

LEMMA Entering ==
  ASSUME MenusInv, modal = "none", NEW m \in Mains, NEW p \in {"loop", "entering"}, Screen!Begin(m, p),
         p = "entering" => m = "Favorites"
  PROVE  /\ PlaceInv' /\ ModalInv' /\ UnsavedInv' /\ menu' = m /\ phase' = p /\ modal' = "none" /\ editing' = FALSE
         /\ shown \in Remains(m) /\ m \in Returns(menu) /\ menu \in Mains \cup {"Browse"}
<1>1. /\ phase = "enter" /\ choice = m /\ ~exiting /\ menu' = m /\ phase' = p /\ choice' = "none" /\ editing' = FALSE
      /\ UNCHANGED <<modal, question, off, hidden, unsaved, exiting>>
  BY DEF Screen!Begin
<1>2. menu \in Mains \cup {"Browse"} /\ m \in Returns(menu)
  BY <1>1 DEF MenusInv, PlaceInv
<1>3. PlaceInv'
  BY <1>1 DEF MenusInv, PlaceInv, Browsing, WithPage, Mains
<1>4. ModalInv'
  BY <1>1 DEF MenusInv, ModalInv, Browsing, WithPage
<1>5. UnsavedInv'
  BY <1>1 DEF MenusInv, UnsavedInv
<1>6. shown = OnScreen(menu, "enter", m, hidden)
  BY <1>1, <1>2 DEF MenusInv, ShownInv, Mains
<1>7. shown \in Remains(m)
  BY <1>2, <1>6, LeftBehind DEF Mains
<1> QED BY <1>1, <1>2, <1>3, <1>4, <1>5, <1>7

\* A menu that shows its own widgets is as it should be.
LEMMA Entered ==
  ASSUME PlaceInv', ModalInv', UnsavedInv', SaveInv', modal' = "none", phase' = "loop", menu' \in Mains,
         shown' = Screen!Layout(menu')
  PROVE  MenusInv'
<1>1. OnScreen(menu', phase', choice', hidden') = Screen!Layout(menu')
  BY DEF OnScreen, WithPage
<1>2. ShownInv'
  BY <1>1 DEF ShownInv, Mains
<1> QED BY <1>2 DEF MenusInv

LEMMA SplashEntered == ASSUME MenusInv, modal = "none", Screen!EnterSplash PROVE MenusInv'
<1>1. Screen!Enter("Splash") /\ shown' = shown \cup {"Init"}
  BY DEF Screen!EnterSplash
<1>2. /\ PlaceInv' /\ ModalInv' /\ UnsavedInv' /\ menu' = "Splash" /\ phase' = "loop" /\ modal' = "none"
      /\ shown \in Remains("Splash")
  BY <1>1, Entering DEF Mains, Screen!Enter
<1>3. shown' = Screen!Layout("Splash")
  BY <1>1, <1>2, Layouts DEF Remains
<1>4. SaveInv'
  BY <1>2 DEF SaveInv
<1> QED BY <1>2, <1>3, <1>4, Entered DEF Mains

LEMMA HomeEntered == ASSUME MenusInv, modal = "none", Screen!EnterHome PROVE MenusInv'
<1>1. /\ Screen!Enter("Home") /\ Screen!ChangeButtons("HOMEPAGE")
      /\ shown' = (shown \ {"Left"}) \cup {"Splash", "App", "Right"} \cup Screen!StackOf("Home")
  BY DEF Screen!EnterHome
<1>2. /\ PlaceInv' /\ ModalInv' /\ UnsavedInv' /\ menu' = "Home" /\ phase' = "loop" /\ modal' = "none"
      /\ shown \in Remains("Home")
  BY <1>1, Entering DEF Mains, Screen!Enter
<1>3. shown' = Screen!Layout("Home")
  <2>1. shown \subseteq {"App", "Left", "Right"}
    BY <1>2 DEF Remains
  <2>2. Screen!StackOf("Home") = {"InsertURL", "btnGo", "btnExit"}
    BY DEF Screen!StackOf
  <2> QED BY <1>1, <2>1, <2>2, Layouts
<1>4. SaveInv'
  BY <1>1, <1>2 DEF SaveInv, Screen!ChangeButtons
<1> QED BY <1>2, <1>3, <1>4, Entered DEF Mains

\* Only MenuHome opens them, with its own buttons shown.
LEMMA TopSitesEntered == ASSUME MenusInv, modal = "none", Screen!EnterTopSites PROVE MenusInv'
<1>1. /\ Screen!Enter("TopSites") /\ Screen!ChangeButtons("FAVORITES")
      /\ shown' = shown \cup {"Blocks", "App", "Left", "Right"}
      /\ clicked' = clicked \ ({"Right", "btnBack", "btnForward"} \cup IF mode = "FAVORITES" THEN {} ELSE {"btnSave"})
  BY DEF Screen!EnterTopSites
<1>2. /\ PlaceInv' /\ ModalInv' /\ UnsavedInv' /\ menu' = "TopSites" /\ phase' = "loop" /\ modal' = "none"
      /\ editing' = FALSE /\ shown \in Remains("TopSites") /\ "TopSites" \in Returns(menu) /\ menu \in Mains \cup {"Browse"}
  BY <1>1, Entering DEF Mains, Screen!Enter
<1>3. shown' = Screen!Layout("TopSites")
  BY <1>1, <1>2, Layouts DEF Remains
<1>4. menu = "Home"
  BY <1>2 DEF Returns, Mains
<1>5. SaveInv'
  BY <1>1, <1>2, <1>4 DEF MenusInv, SaveInv, Screen!ChangeButtons
<1> QED BY <1>2, <1>3, <1>5, Entered DEF Mains

LEMMA FavoritesEntered == ASSUME MenusInv, modal = "none", Screen!EnterFavorites PROVE MenusInv'
<1>1. Screen!Begin("Favorites", "entering") /\ shown' = shown \cup {"Favorites"}
  BY DEF Screen!EnterFavorites
<1>2. /\ PlaceInv' /\ ModalInv' /\ UnsavedInv' /\ menu' = "Favorites" /\ phase' = "entering" /\ modal' = "none"
      /\ shown \in Remains("Favorites")
  BY <1>1, Entering DEF Mains
<1>3. shown' = OnScreen(menu', phase', choice', hidden')
  BY <1>1, <1>2, Placing DEF Remains
<1>4. ShownInv' /\ SaveInv'
  BY <1>2, <1>3 DEF ShownInv, SaveInv
<1> QED BY <1>2, <1>4 DEF MenusInv

LEMMA FavoritesPlaced == ASSUME MenusInv, modal = "none", Screen!FavoritesInPlace PROVE MenusInv'
<1>1. /\ menu = "Favorites" /\ phase = "entering" /\ phase' = "loop" /\ shown' = (shown \ {"Right"}) \cup {"Left"}
      /\ UNCHANGED <<menu, choice, modal, question, off, mode, hidden, unsaved, exiting>>
  BY DEF Screen!FavoritesInPlace, Screen!At
<1>2. PlaceInv' /\ ModalInv' /\ SaveInv' /\ UnsavedInv'
  BY <1>1 DEF MenusInv, PlaceInv, ModalInv, SaveInv, UnsavedInv, Browsing, WithPage, Mains
<1>3. shown = {"Favorites", "Right"}
  BY <1>1, Placing DEF MenusInv, ShownInv
<1>4. shown' = Screen!Layout("Favorites")
  BY <1>1, <1>3, Layouts
<1> QED BY <1>1, <1>2, <1>4, Entered DEF Mains

LEMMA SettingsEntered == ASSUME MenusInv, modal = "none", Screen!EnterSettings \/ Screen!EnterAdvanced PROVE MenusInv'
<1>1. PICK m \in {"Settings", "Developer"} :
        /\ Screen!Enter(m)
        /\ shown' = shown \cup {IF m = "Settings" THEN "SettingsWindow" ELSE "AdvancedWindow"}
  BY DEF Screen!EnterSettings, Screen!EnterAdvanced
<1>2. PlaceInv' /\ ModalInv' /\ UnsavedInv' /\ menu' = m /\ phase' = "loop" /\ modal' = "none" /\ shown \in Remains(m)
  BY <1>1, Entering DEF Mains, Screen!Enter
<1>3. shown' = Screen!Layout(m)
  BY <1>1, <1>2, Layouts DEF Remains
<1>4. SaveInv'
  BY <1>2 DEF SaveInv
<1> QED BY <1>2, <1>3, <1>4, Entered DEF Mains

LEMMA MenusDone == ASSUME MenusInv, modal = "none", Screen!Done PROVE MenusInv'
<1>1. /\ phase = "enter" /\ menu # "Done" /\ (exiting \/ choice = "Exit") /\ menu' = "Done" /\ exiting' = TRUE
      /\ UNCHANGED <<phase, choice, modal, question, shown, off, clicked, mode, saveOff, editing, hidden, unsaved>>
  BY DEF Screen!Done, Screen!screen
<1>2. PlaceInv' /\ ModalInv' /\ SaveInv' /\ UnsavedInv'
  BY <1>1 DEF MenusInv, PlaceInv, ModalInv, SaveInv, UnsavedInv, Browsing, WithPage
<1>3. shown \subseteq {"App", "Left", "Right"}
  <2>1. shown = OnScreen(menu, "enter", choice, hidden) /\ menu \in Mains \cup {"Browse"}
    BY <1>1 DEF MenusInv, ShownInv, PlaceInv
  <2>2. OnScreen(menu, "enter", choice, hidden) \subseteq Screen!Layout(menu) \ Screen!FirstOut(menu)
    BY DEF OnScreen, WithPage
  <2>3. Screen!Layout(menu) \ Screen!FirstOut(menu) \subseteq {"App", "Left", "Right"}
    BY <2>1, Layouts DEF Mains
  <2> QED BY <2>1, <2>2, <2>3
<1> QED BY <1>1, <1>2, <1>3 DEF MenusInv, ShownInv

-----------------------------------------------------------------------------
\* The loop of a menu ends with a choice.
LEMMA Leaves ==
  ASSUME MenusInv, modal = "none", phase = "loop", NEW c \in Returns(menu), Screen!Leave(c), unsaved' => exiting',
         UNCHANGED <<menu, modal, question, shown, off, mode, hidden, exiting>>
  PROVE  MenusInv'
<1>1. phase' = "fade" /\ choice' = c /\ menu' \in Mains /\ menu' # "Done"
  BY DEF Screen!Leave, MenusInv, PlaceInv, Mains
<1>2. PlaceInv'
  BY <1>1 DEF MenusInv, PlaceInv, Browsing, WithPage
<1>3. ModalInv'
  BY <1>1 DEF MenusInv, ModalInv, Browsing, WithPage
<1>4. ShownInv'
  <2>1. OnScreen(menu', phase', choice', hidden') = OnScreen(menu, phase, choice, hidden)
    BY <1>1 DEF OnScreen, WithPage
  <2> QED BY <1>1, <2>1 DEF MenusInv, ShownInv
<1>5. SaveInv' /\ UnsavedInv'
  BY <1>1 DEF MenusInv, SaveInv, UnsavedInv
<1> QED BY <1>2, <1>3, <1>4, <1>5 DEF MenusInv

\* Only what is clicked changes, or what a menu but Top Sites knows of it.
LEMMA Stays ==
  ASSUME MenusInv, menu # "TopSites",
         UNCHANGED <<menu, phase, choice, modal, question, shown, off, mode, hidden, exiting>>,
         unsaved' => unsaved \/ (menu \in {"Settings", "Developer"} /\ phase = "loop")
  PROVE  MenusInv'
BY DEF MenusInv, PlaceInv, ModalInv, ShownInv, SaveInv, UnsavedInv

\* It asks something and stays where it is.
LEMMA Asks ==
  ASSUME MenusInv, modal = "none", menu \notin {"Done", "TopSites"}, NEW k \in Prompts, NEW q, Screen!Ask(k, q),
         UNCHANGED <<menu, phase, hidden, exiting>>, q = "exit" => menu = "Home" /\ phase = "loop",
         choice' = choice \/ (menu = "Home" /\ phase = "loop" /\ choice' \in {"none", "Settings"}),
         unsaved' => unsaved \/ (menu \in {"Settings", "Developer"} /\ phase = "loop")
  PROVE  MenusInv'
<1>1. OnScreen(menu', phase', choice', hidden') = OnScreen(menu, phase, choice, hidden)
  <2>1. CASE choice' = choice
    BY <2>1
  <2>2. CASE phase = "loop"
    BY <2>2 DEF OnScreen, WithPage
  <2> QED BY <2>1, <2>2
<1>2. ModalInv' /\ ShownInv' /\ mode' = mode
  BY <1>1, Asked
<1>3. PlaceInv'
  BY DEF MenusInv, PlaceInv, Browsing, WithPage
<1>4. SaveInv' /\ UnsavedInv'
  BY <1>2 DEF MenusInv, SaveInv, UnsavedInv
<1> QED BY <1>2, <1>3, <1>4 DEF MenusInv

LEMMA LoopExited == ASSUME MenusInv, modal = "none", Screen!ExitLoop PROVE MenusInv'
<1>1. /\ phase = "loop" /\ exiting /\ menu \notin {"Splash", "Settings"} /\ Screen!Leave(choice)
      /\ UNCHANGED <<menu, modal, question, shown, off, mode, hidden, unsaved, exiting>>
  BY DEF Screen!ExitLoop, Screen!screen
<1>2. choice \in Returns(menu)
  BY <1>1 DEF MenusInv, PlaceInv, Returns, Mains
<1> QED BY <1>1, <1>2, Leaves

LEMMA SplashOver == ASSUME MenusInv, modal = "none", Screen!SplashEnds PROVE MenusInv'
<1>1. /\ phase = "loop" /\ menu = "Splash" /\ (Screen!Leave("Home") \/ Screen!Leave("Browse"))
      /\ UNCHANGED <<menu, modal, question, shown, off, mode, hidden, unsaved, exiting>>
  BY DEF Screen!SplashEnds, Screen!screen, Screen!At
<1>2. "Home" \in Returns(menu) /\ "Browse" \in Returns(menu) /\ (unsaved' => exiting')
  BY <1>1 DEF Returns, MenusInv, UnsavedInv
<1> QED BY <1>1, <1>2, Leaves

LEMMA HomeLoops == ASSUME MenusInv, modal = "none", Screen!HomeIteration PROVE MenusInv'
<1> DEFINE bar == Screen!First(<<"InsertURL", "btnWWW", "btnSett", "btnSave", "btnHome">>, clicked)
           rest == Screen!First(<<"btnForward", "btnGo", "Right", "btnExit">>, clicked)
           ends == IF rest = "btnGo" THEN "Browse" ELSE IF rest = "Right" THEN "TopSites"
                   ELSE IF bar = "btnSett" THEN "Settings" ELSE "none"
<1>1. /\ menu = "Home" /\ phase = "loop" /\ UNCHANGED <<menu, editing, hidden, unsaved, exiting>>
      /\ \/ Screen!OnScreenKeyboard /\ UNCHANGED <<phase, choice, moving>>
         \/ Screen!ShowDownloads /\ UNCHANGED <<phase, choice, moving>>
         \/ rest = "btnExit" /\ Screen!WindowPrompt("exit") /\ choice' = ends /\ UNCHANGED <<phase, moving>>
         \/ Screen!Leave(ends) /\ UNCHANGED <<modal, question, shown, off, mode, saveOff>>
         \/ UNCHANGED <<phase, choice, modal, question, moving, shown, off, mode, saveOff>>
  BY DEF Screen!HomeIteration, Screen!At
<1> HIDE DEF bar, rest
<1>2. ends \in Returns(menu) /\ (rest = "btnExit" => ends \in {"none", "Settings"}) /\ (unsaved' => exiting')
  BY <1>1 DEF Returns, MenusInv, UnsavedInv
<1> HIDE DEF ends
<1>3. CASE Screen!OnScreenKeyboard /\ UNCHANGED <<phase, choice, moving>>
  BY <1>1, <1>3, Asks DEF Screen!OnScreenKeyboard, Prompts
<1>4. CASE Screen!ShowDownloads /\ UNCHANGED <<phase, choice, moving>>
  BY <1>1, <1>4, Asks DEF Screen!ShowDownloads, Prompts
<1>5. CASE rest = "btnExit" /\ Screen!WindowPrompt("exit") /\ choice' = ends /\ UNCHANGED <<phase, moving>>
  BY <1>1, <1>2, <1>5, Asks DEF Screen!WindowPrompt, Prompts
<1>6. CASE Screen!Leave(ends) /\ UNCHANGED <<modal, question, shown, off, mode, saveOff>>
  BY <1>1, <1>2, <1>6, Leaves
<1>7. CASE UNCHANGED <<phase, choice, modal, question, moving, shown, off, mode, saveOff>>
  BY <1>1, <1>7, Stays
<1> QED BY <1>1, <1>3, <1>4, <1>5, <1>6, <1>7

LEMMA HomeLeft == ASSUME MenusInv, modal = "none", Screen!HomeExits PROVE MenusInv'
<1>1. /\ phase = "loop" /\ menu = "Home" /\ Screen!Leave(choice)
      /\ UNCHANGED <<menu, modal, question, shown, off, mode, hidden, unsaved, exiting>>
  BY DEF Screen!HomeExits, Screen!screen, Screen!At
<1>2. choice \in Returns(menu) /\ (unsaved' => exiting')
  BY <1>1 DEF Returns, MenusInv, UnsavedInv, PlaceInv
<1> QED BY <1>1, <1>2, Leaves

LEMMA TopSitesLoops == ASSUME MenusInv, modal = "none", Screen!TopSitesIteration PROVE MenusInv'
<1> DEFINE bar == Screen!First(<<"btnSett", "btnHome", "btnSave", "Left", "btnWWW", "Right">>, clicked)
<1>1. /\ menu = "TopSites" /\ phase = "loop" /\ UNCHANGED <<menu, modal, question, shown, off, hidden, unsaved, exiting>>
      /\ clicked' \subseteq clicked /\ (bar = "btnSett" => "btnSave" \notin clicked')
      /\ \/ /\ bar = "btnSett" /\ editing' = ~editing /\ UNCHANGED <<phase, choice, moving>>
            /\ mode' = (IF editing THEN "FAVORITES" ELSE "EDITING") /\ saveOff' = editing
         \/ UNCHANGED <<editing, phase, choice, moving, mode, saveOff>>
         \/ Screen!Leave("Home") /\ UNCHANGED <<editing, mode, saveOff>>
         \/ Screen!Leave("Favorites") /\ UNCHANGED <<editing, mode, saveOff>>
  BY DEF Screen!TopSitesIteration, Screen!At
<1> HIDE DEF bar
<1>2. "Home" \in Returns(menu) /\ "Favorites" \in Returns(menu) /\ (unsaved' => exiting')
  BY <1>1 DEF Returns, MenusInv, UnsavedInv
<1>3. CASE UNCHANGED <<phase, choice>>
  <2>1. UNCHANGED <<menu, phase, choice, modal, question, shown, off, hidden, unsaved, exiting>>
    BY <1>1, <1>3
  <2>2. PlaceInv' /\ ModalInv' /\ ShownInv' /\ UnsavedInv'
    BY <2>1 DEF MenusInv, PlaceInv, ModalInv, ShownInv, UnsavedInv
  <2>3. /\ editing \in BOOLEAN /\ mode = (IF editing THEN "EDITING" ELSE "FAVORITES")
        /\ saveOff = ~editing /\ ("btnSave" \in clicked => editing)
    BY <1>1 DEF MenusInv, SaveInv
  <2>4. SaveInv'
    <3>1. CASE /\ bar = "btnSett" /\ editing' = ~editing
               /\ mode' = (IF editing THEN "FAVORITES" ELSE "EDITING") /\ saveOff' = editing
      BY <1>1, <2>1, <2>3, <3>1 DEF SaveInv
    <3>2. CASE UNCHANGED <<editing, mode, saveOff>>
      BY <1>1, <2>1, <2>3, <3>2 DEF SaveInv
    <3> QED BY <1>1, <3>1, <3>2
  <2> QED BY <2>2, <2>4 DEF MenusInv
<1>4. CASE \E c \in {"Home", "Favorites"} : Screen!Leave(c) /\ UNCHANGED <<editing, mode, saveOff>>
  BY <1>1, <1>2, <1>4, Leaves
<1> QED BY <1>1, <1>3, <1>4

LEMMA FavoritesLoops == ASSUME MenusInv, modal = "none", Screen!FavoritesIteration PROVE MenusInv'
<1>1. /\ menu = "Favorites" /\ phase = "loop" /\ (Screen!Leave("Home") \/ UNCHANGED <<phase, choice>>)
      /\ UNCHANGED <<menu, modal, question, shown, off, mode, saveOff, editing, hidden, unsaved, exiting>>
  BY DEF Screen!FavoritesIteration, Screen!At
<1>2. "Home" \in Returns(menu) /\ (unsaved' => exiting')
  BY <1>1 DEF Returns, MenusInv, UnsavedInv
<1>3. CASE Screen!Leave("Home")
  BY <1>1, <1>2, <1>3, Leaves
<1>4. CASE UNCHANGED <<phase, choice>>
  BY <1>1, <1>4, Stays
<1> QED BY <1>1, <1>3, <1>4

LEMMA OptionChanged ==
  ASSUME MenusInv, modal = "none", NEW m \in {"Settings", "Developer"}, Screen!Option(m)
  PROVE  MenusInv'
<1>1. /\ menu = m /\ phase = "loop" /\ UNCHANGED <<menu, phase, choice, editing, moving, hidden, exiting>>
      /\ UNCHANGED <<modal, question, shown, off, mode, saveOff>> \/ Screen!OnScreenKeyboard
  BY DEF Screen!Option, Screen!At
<1>2. CASE UNCHANGED <<modal, question, shown, off, mode, saveOff>>
  BY <1>1, <1>2, Stays
<1>3. CASE Screen!OnScreenKeyboard
  BY <1>1, <1>3, Asks DEF Screen!OnScreenKeyboard, Prompts
<1> QED BY <1>1, <1>2, <1>3

LEMMA TextAsked == ASSUME MenusInv, modal = "none", Screen!AdvancedText PROVE MenusInv'
<1>1. /\ menu = "Developer" /\ phase = "loop" /\ UNCHANGED <<menu, phase, choice, editing, moving, hidden, unsaved, exiting>>
      /\ Screen!WindowPrompt("other") \/ Screen!OnScreenKeyboard
  BY DEF Screen!AdvancedText, Screen!At
<1> QED BY <1>1, Asks DEF Screen!WindowPrompt, Screen!OnScreenKeyboard, Prompts

\* The settings are saved: nothing is unsaved, or the user is told.
LEMMA SettingsOver == ASSUME MenusInv, modal = "none", Screen!SettingsEnds \/ Screen!AdvancedEnds PROVE MenusInv'
<1>1. PICK c \in {"Home", "Developer"} :
        /\ menu \in {"Settings", "Developer"} /\ (menu = "Developer" => c = "Home") /\ phase = "loop"
        /\ Screen!Leave(c) /\ Screen!SaveChanges /\ UNCHANGED <<menu, editing, hidden, exiting>>
  BY DEF Screen!SettingsEnds, Screen!AdvancedEnds, Screen!At
<1>2. c \in Returns(menu) /\ phase' = "fade" /\ choice' = c /\ unsaved' = FALSE
  BY <1>1 DEF Returns, Screen!Leave, Screen!SaveChanges
<1>3. CASE UNCHANGED <<modal, question, shown, off, mode>>
  BY <1>1, <1>2, <1>3, Leaves
<1>4. CASE Screen!WindowPrompt("other")
  <2>1. OnScreen(menu', phase', choice', hidden') = OnScreen(menu, phase, choice, hidden)
    BY <1>1, <1>2 DEF OnScreen, WithPage
  <2>2. ModalInv' /\ ShownInv' /\ mode' = mode
    BY <1>1, <1>4, <2>1, Asked DEF Screen!WindowPrompt, Prompts
  <2>3. PlaceInv'
    BY <1>1, <1>2 DEF MenusInv, PlaceInv, Browsing, WithPage, Mains
  <2>4. SaveInv' /\ UnsavedInv'
    BY <1>1, <1>2, <2>2 DEF SaveInv, UnsavedInv
  <2> QED BY <2>2, <2>3, <2>4 DEF MenusInv
<1> QED BY <1>1, <1>3, <1>4 DEF Screen!SaveChanges, Screen!screen

-----------------------------------------------------------------------------
LEMMA FadeEnded == ASSUME MenusInv, modal = "none", Screen!FadeEnds PROVE MenusInv'
<1> DEFINE rest == Screen!SecondOut(menu, choice)
<1>1. /\ phase = "fade" /\ UNCHANGED <<menu, choice, editing, hidden, unsaved, exiting>>
      /\ IF rest = {} THEN phase' = "enter" ELSE phase' = "fade again"
      /\ \/ Screen!TakeOut(Screen!FirstOut(menu)) /\ UNCHANGED <<modal, question>>
         \/ /\ menu = "Splash" /\ modal' = "prompt" /\ question' = "other"
            /\ shown' = (shown \ Screen!FirstOut(menu)) \cup {"prompt"} /\ Screen!Disable /\ UNCHANGED <<mode, saveOff>>
  BY DEF Screen!FadeEnds
<1>2. menu \in Mains /\ shown = Screen!Layout(menu)
  <2>1. menu \in Mains
    BY <1>1 DEF MenusInv, PlaceInv
  <2>2. OnScreen(menu, "fade", choice, hidden) = Screen!Layout(menu)
    BY DEF OnScreen, WithPage
  <2> QED BY <2>1, <2>2, <1>1 DEF MenusInv, ShownInv, Mains
<1>3. OnScreen(menu', phase', choice', hidden') = Screen!Layout(menu) \ Screen!FirstOut(menu)
  BY <1>1 DEF OnScreen, WithPage
<1>4. PlaceInv'
  BY <1>1, <1>2 DEF MenusInv, PlaceInv, Browsing, WithPage, Mains
<1>5. UnsavedInv'
  BY <1>1 DEF MenusInv, UnsavedInv
<1>6. CASE Screen!TakeOut(Screen!FirstOut(menu)) /\ UNCHANGED <<modal, question>>
  <2>1. shown' = shown \ Screen!FirstOut(menu) /\ UNCHANGED <<off, mode, saveOff>>
    BY <1>6 DEF Screen!TakeOut
  <2>2. ModalInv' /\ SaveInv'
    BY <1>1, <1>6, <2>1 DEF MenusInv, ModalInv, SaveInv, Browsing, WithPage
  <2>3. ShownInv'
    BY <1>1, <1>2, <1>3, <1>6, <2>1 DEF ShownInv, Mains
  <2> QED BY <1>4, <1>5, <2>2, <2>3 DEF MenusInv
<1>7. CASE /\ menu = "Splash" /\ modal' = "prompt" /\ question' = "other"
           /\ shown' = (shown \ Screen!FirstOut(menu)) \cup {"prompt"} /\ Screen!Disable
  <2>1. off' = TRUE
    BY <1>7 DEF Screen!Disable
  <2>2. ModalInv' /\ SaveInv'
    BY <1>1, <1>7, <2>1 DEF ModalInv, SaveInv, Prompts
  <2>3. ShownInv'
    BY <1>1, <1>2, <1>3, <1>7 DEF ShownInv, Mains, Prompts
  <2> QED BY <1>4, <1>5, <2>2, <2>3 DEF MenusInv
<1> QED BY <1>1, <1>6, <1>7

LEMMA SecondFadeEnded == ASSUME MenusInv, modal = "none", Screen!SecondFadeEnds PROVE MenusInv'
<1>1. /\ phase = "fade again" /\ phase' = "enter" /\ shown' = shown \ Screen!SecondOut(menu, choice)
      /\ UNCHANGED <<menu, choice, modal, question, off, mode, saveOff, editing, hidden, unsaved, exiting>>
  BY DEF Screen!SecondFadeEnds, Screen!TakeOut
<1>2. PlaceInv' /\ ModalInv' /\ SaveInv' /\ UnsavedInv'
  BY <1>1 DEF MenusInv, PlaceInv, ModalInv, SaveInv, UnsavedInv, Browsing, WithPage
<1>3. OnScreen(menu', phase', choice', hidden') = OnScreen(menu, phase, choice, hidden) \ Screen!SecondOut(menu, choice)
  BY <1>1 DEF OnScreen, WithPage
<1>4. ShownInv'
  BY <1>1, <1>3 DEF MenusInv, PlaceInv, ShownInv, Mains
<1> QED BY <1>2, <1>4 DEF MenusInv

-----------------------------------------------------------------------------
\* A step inside MenuBrowse.
LEMMA Browses ==
  ASSUME MenusInv, menu' = "Browse", choice' = "Home", phase' \in Browsing \cup {"next", "enter"}, modal' = "none",
         question' = "other" \/ (menu = "Browse" /\ modal = "none" /\ question' = question), hidden' \in BOOLEAN,
         ~hidden' => phase' \in WithPage \cup {"form"}, off' => phase' \in Browsing,
         shown' = OnScreen("Browse", phase', "Home", hidden'), unsaved' => exiting'
  PROVE  MenusInv'
<1>1. PlaceInv'
  BY DEF PlaceInv, Browsing, WithPage, Mains, Returns
<1>2. ModalInv'
  BY DEF MenusInv, ModalInv
<1>3. ShownInv' /\ SaveInv' /\ UnsavedInv'
  BY DEF ShownInv, SaveInv, UnsavedInv
<1> QED BY <1>1, <1>2, <1>3 DEF MenusInv

\* What MenuBrowse finds.
LEMMA InBrowse ==
  ASSUME MenusInv, menu = "Browse"
  PROVE  /\ choice = "Home" /\ (unsaved => exiting) /\ hidden \in BOOLEAN /\ question # "exit"
         /\ modal = "none" => shown = OnScreen("Browse", phase, "Home", hidden)
         /\ phase \in Browsing \cup {"next", "enter"}
         /\ ~hidden => phase \in WithPage \cup {"form"}
         /\ off => modal # "none" \/ phase \in Browsing
BY DEF MenusInv, PlaceInv, ModalInv, ShownInv, UnsavedInv, Mains, Returns

LEMMA LoadBegun == ASSUME MenusInv, modal = "none", Screen!BeginLoad PROVE MenusInv'
<1>1. /\ phase' = "load" /\ choice' = "Home" /\ shown' = shown \cup {"promptWindow"} /\ menu' = "Browse" /\ ~exiting
      /\ UNCHANGED <<modal, question, hidden, unsaved, exiting>>
      /\ (phase = "enter" /\ choice = "Browse") \/ (menu = "Browse" /\ phase = "next")
  BY DEF Screen!BeginLoad, Screen!At
<1>2. menu \in Mains \cup {"Browse"} /\ phase \in {"enter", "next"}
  BY <1>1 DEF MenusInv, PlaceInv
<1>3. hidden = TRUE /\ ~unsaved /\ question # "exit"
  BY <1>1, <1>2 DEF MenusInv, PlaceInv, UnsavedInv, ModalInv, WithPage
<1>4. shown = {}
  <2>1. shown = OnScreen(menu, phase, choice, hidden)
    BY <1>2 DEF MenusInv, ShownInv, Mains
  <2>2. CASE phase = "enter" /\ choice = "Browse"
    <3>1. "Browse" \in Returns(menu)
      BY <1>2, <2>2 DEF MenusInv, PlaceInv, Mains
    <3>2. OnScreen(menu, "enter", "Browse", hidden) \in Remains("Browse")
      BY <1>2, <3>1, LeftBehind
    <3> QED BY <2>1, <2>2, <3>2 DEF Remains
  <2>3. CASE phase = "next"
    BY <2>1, <2>3 DEF OnScreen, WithPage
  <2> QED BY <1>1, <2>2, <2>3
<1>5. OnScreen("Browse", "load", "Home", hidden') = {"promptWindow"}
  BY DEF OnScreen, WithPage
<1>6. ShownInv'
  BY <1>1, <1>4, <1>5 DEF ShownInv
<1>7. PlaceInv'
  BY <1>1, <1>3 DEF PlaceInv, Browsing, WithPage, Mains
<1>8. ModalInv'
  BY <1>1, <1>3 DEF ModalInv, Browsing
<1>9. SaveInv' /\ UnsavedInv'
  BY <1>1, <1>3 DEF SaveInv, UnsavedInv
<1> QED BY <1>6, <1>7, <1>8, <1>9 DEF MenusInv

LEMMA LoadEnded == ASSUME MenusInv, modal = "none", Screen!LoadEnds \/ Screen!Abandon PROVE MenusInv'
<1>1. /\ menu = "Browse"
      /\ (phase = "load" /\ phase' = "slide") \/ (phase = "next" /\ phase' = "enter")
      /\ UNCHANGED <<menu, choice, modal, question, shown, off, hidden, unsaved, exiting>>
  BY DEF Screen!LoadEnds, Screen!Abandon, Screen!At, Screen!screen
<1>2. hidden = TRUE
  BY <1>1 DEF MenusInv, PlaceInv, WithPage
<1>3. OnScreen("Browse", phase', "Home", hidden') = OnScreen("Browse", phase, "Home", hidden)
  <2>1. OnScreen("Browse", "load", "Home", hidden) = OnScreen("Browse", "slide", "Home", hidden)
    BY DEF OnScreen, WithPage
  <2>2. OnScreen("Browse", "next", "Home", hidden) = {} /\ OnScreen("Browse", "enter", "Home", hidden) = {}
    BY Layouts, Rests DEF OnScreen, WithPage
  <2> QED BY <1>1, <2>1, <2>2
<1>4. off' => phase' \in Browsing
  BY <1>1 DEF MenusInv, ModalInv, Browsing, WithPage
<1>5. choice = "Home" /\ (unsaved => exiting) /\ shown = OnScreen("Browse", phase, "Home", hidden)
  BY <1>1, InBrowse
<1>6. phase' \in Browsing \cup {"next", "enter"}
  BY <1>1 DEF Browsing
<1> QED BY <1>1, <1>2, <1>3, <1>4, <1>5, <1>6, Browses

LEMMA LoadOver == ASSUME MenusInv, modal = "none", Screen!LoadResult PROVE MenusInv'
<1>1. /\ menu = "Browse" /\ phase = "slide"
      /\ UNCHANGED <<menu, choice, editing, moving, hidden, unsaved, exiting>>
      /\ \/ /\ shown' = shown \ {"promptWindow"} /\ off' = FALSE /\ phase' \in {"enter", "next"}
            /\ UNCHANGED <<modal, question>>
         \/ /\ shown' = (shown \ {"promptWindow"}) \cup {"prompt"} /\ off' = TRUE /\ phase' = "enter"
            /\ modal' = "prompt" /\ question' = "other"
         \/ /\ shown' = (shown \ {"promptWindow"}) \cup {"childWindow"} /\ phase' = "page"
            /\ UNCHANGED <<modal, question>>
  BY DEF Screen!LoadResult, Screen!At, Screen!Enable, Screen!Disable
<1>2. choice = "Home" /\ hidden = TRUE /\ shown = {"promptWindow"} /\ (unsaved => exiting)
  <2>1. hidden = TRUE
    BY <1>1 DEF MenusInv, PlaceInv, WithPage
  <2>2. OnScreen("Browse", "slide", "Home", hidden) = {"promptWindow"}
    BY DEF OnScreen, WithPage
  <2> QED BY <1>1, <2>1, <2>2, InBrowse
<1>3. /\ OnScreen("Browse", "next", "Home", TRUE) = {} /\ OnScreen("Browse", "enter", "Home", TRUE) = {}
      /\ OnScreen("Browse", "page", "Home", TRUE) = {"childWindow"}
  BY Layouts, Rests DEF OnScreen, WithPage, Bar
<1>4. CASE shown' = shown \ {"promptWindow"} /\ off' = FALSE /\ phase' \in {"enter", "next"} /\ UNCHANGED <<modal, question>>
  <2>1. shown' = {}
    BY <1>2, <1>4
  <2>2. shown' = OnScreen("Browse", phase', "Home", hidden')
    BY <1>1, <1>2, <1>3, <1>4, <2>1
  <2> QED BY <1>1, <1>2, <1>4, <2>2, Browses
<1>5. CASE /\ shown' = (shown \ {"promptWindow"}) \cup {"prompt"} /\ off' = TRUE /\ phase' = "enter"
           /\ modal' = "prompt" /\ question' = "other"
  <2>1. shown' = OnScreen("Browse", "enter", "Home", TRUE) \cup {"prompt"}
    BY <1>2, <1>3, <1>5
  <2>2. ShownInv'
    BY <1>1, <1>2, <1>5, <2>1 DEF ShownInv, Prompts
  <2>3. PlaceInv'
    BY <1>1, <1>2, <1>5 DEF PlaceInv, Browsing, WithPage, Mains, Returns
  <2>4. ModalInv' /\ SaveInv' /\ UnsavedInv'
    BY <1>1, <1>2, <1>5 DEF ModalInv, SaveInv, UnsavedInv, Prompts
  <2> QED BY <2>2, <2>3, <2>4 DEF MenusInv
<1>6. CASE shown' = (shown \ {"promptWindow"}) \cup {"childWindow"} /\ phase' = "page" /\ UNCHANGED <<modal, question>>
  <2>1. shown' = {"childWindow"}
    BY <1>2, <1>6
  <2>2. shown' = OnScreen("Browse", phase', "Home", hidden')
    BY <1>1, <1>2, <1>3, <1>6, <2>1
  <2>3. phase' \in Browsing
    BY <1>6 DEF Browsing, WithPage
  <2> QED BY <1>1, <1>2, <1>6, <2>2, <2>3, Browses
<1> QED BY <1>1, <1>4, <1>5, <1>6

\* The bar of a page comes and goes.
LEMMA BarMoves ==
  ASSUME MenusInv, modal = "none", Screen!ShowBar \/ Screen!BarHides \/ Screen!BarGone \/ Screen!PageEnds
  PROVE  MenusInv'
<1>1. /\ menu = "Browse" /\ phase \in WithPage /\ phase' \in WithPage
      /\ UNCHANGED <<menu, choice, modal, question, off, unsaved, exiting>>
      /\ \/ hidden /\ hidden' = FALSE /\ shown' = shown \cup {"Toolbar"}
         \/ UNCHANGED <<hidden, shown>>
         \/ ~hidden /\ hidden' = TRUE /\ shown' = shown \ {"Toolbar"}
  <2>1. CASE Screen!ShowBar
    BY <2>1 DEF Screen!ShowBar, Screen!At, WithPage
  <2>2. CASE Screen!BarHides \/ Screen!PageEnds
    BY <2>2 DEF Screen!BarHides, Screen!PageEnds, Screen!HideBar, Screen!At, Screen!screen, WithPage
  <2>3. CASE Screen!BarGone
    <3>1. menu = "Browse"
      BY <2>3 DEF Screen!BarGone, MenusInv, PlaceInv, Browsing, WithPage
    <3> QED BY <2>3, <3>1 DEF Screen!BarGone, WithPage
  <2> QED BY <2>1, <2>2, <2>3
<1>2. \A p \in WithPage : \A h : OnScreen("Browse", p, "Home", h) = {"childWindow"} \cup Bar(h)
  BY DEF OnScreen, WithPage
<1>3. shown = {"childWindow"} \cup Bar(hidden) /\ hidden \in BOOLEAN
  BY <1>1, <1>2, InBrowse
<1>4. shown' = {"childWindow"} \cup Bar(hidden') /\ hidden' \in BOOLEAN
  <2>1. CASE hidden /\ hidden' = FALSE /\ shown' = shown \cup {"Toolbar"}
    BY <1>3, <2>1 DEF Bar
  <2>2. CASE UNCHANGED <<hidden, shown>>
    BY <1>3, <2>2
  <2>3. CASE ~hidden /\ hidden' = TRUE /\ shown' = shown \ {"Toolbar"}
    BY <1>3, <2>3 DEF Bar
  <2> QED BY <1>1, <2>1, <2>2, <2>3
<1>5. shown' = OnScreen("Browse", phase', "Home", hidden') /\ phase' \in Browsing
  BY <1>1, <1>2, <1>4 DEF Browsing
<1> QED BY <1>1, <1>4, <1>5, InBrowse, Browses

LEMMA PageAsked == ASSUME MenusInv, modal = "none", Screen!PageAsks PROVE MenusInv'
<1>1. /\ menu = "Browse" /\ UNCHANGED <<menu, phase, choice, editing, moving, hidden, unsaved, exiting>>
      /\ Screen!WindowPrompt("other") \/ Screen!OnScreenKeyboard
  BY DEF Screen!PageAsks
<1> QED BY <1>1, Asks DEF Screen!WindowPrompt, Screen!OnScreenKeyboard, Prompts

\* A form takes the place of the page, and the page that of the form.
LEMMA FormComesGoes == ASSUME MenusInv, modal = "none", Screen!OpenForm \/ Screen!FormEnds PROVE MenusInv'
<1>1. /\ menu = "Browse" /\ UNCHANGED <<menu, choice, modal, question, off, hidden, unsaved, exiting>>
      /\ \/ phase = "page" /\ phase' = "form" /\ shown' = (shown \ {"childWindow"}) \cup {"Form"}
         \/ phase = "form" /\ phase' = "page" /\ shown' = (shown \ {"Form"}) \cup {"childWindow"}
  BY DEF Screen!OpenForm, Screen!FormEnds, Screen!At
<1>2. \A h : /\ OnScreen("Browse", "page", "Home", h) = {"childWindow"} \cup Bar(h)
             /\ OnScreen("Browse", "form", "Home", h) = {"Form"} \cup Bar(h)
  BY DEF OnScreen, WithPage
<1>3. hidden \in BOOLEAN /\ shown = OnScreen("Browse", phase, "Home", hidden)
  BY <1>1, InBrowse
<1>4. Bar(hidden) \subseteq {"Toolbar"}
  BY DEF Bar
<1>5. shown' = OnScreen("Browse", phase', "Home", hidden')
  BY <1>1, <1>2, <1>3, <1>4
<1>6. phase' \in Browsing /\ phase' \in WithPage \cup {"form"}
  BY <1>1 DEF Browsing, WithPage
<1> QED BY <1>1, <1>3, <1>5, <1>6, InBrowse, Browses

LEMMA PageLeftBehind == ASSUME MenusInv, modal = "none", Screen!LeavePage PROVE MenusInv'
<1>1. /\ menu = "Browse" /\ phase = "page ends" /\ hidden /\ shown' = shown \ {"childWindow"} /\ off' = FALSE
      /\ phase' \in {"enter", "next"} /\ UNCHANGED <<menu, choice, modal, question, hidden, unsaved, exiting>>
  BY DEF Screen!LeavePage, Screen!At, Screen!Enable
<1>2. hidden = TRUE
  BY <1>1 DEF MenusInv, PlaceInv
<1>3. /\ OnScreen("Browse", "page ends", "Home", TRUE) = {"childWindow"}
      /\ OnScreen("Browse", "next", "Home", TRUE) = {} /\ OnScreen("Browse", "enter", "Home", TRUE) = {}
  BY Layouts, Rests DEF OnScreen, WithPage, Bar
<1>4. shown' = {}
  BY <1>1, <1>2, <1>3, InBrowse
<1>5. shown' = OnScreen("Browse", phase', "Home", hidden')
  BY <1>1, <1>2, <1>3, <1>4
<1> QED BY <1>1, <1>2, <1>5, InBrowse, Browses

-----------------------------------------------------------------------------
LEMMA MenusStart == ASSUME Screen!Init PROVE MenusInv
<1>1. /\ menu = "Splash" /\ phase = "enter" /\ choice = "Splash" /\ question = "other" /\ hidden = TRUE /\ unsaved = FALSE
      /\ (modal = "none" /\ shown = {} /\ off = FALSE) \/ (modal = "prompt" /\ shown = {"prompt"} /\ off = TRUE)
  BY DEF Screen!Init
<1>2. OnScreen("Splash", "enter", "Splash", hidden) = {}
  BY Layouts, Rests DEF OnScreen, WithPage
<1>3. ShownInv
  BY <1>1, <1>2 DEF ShownInv, Prompts
<1>4. PlaceInv
  BY <1>1 DEF PlaceInv, Browsing, WithPage, Mains, Returns
<1>5. ModalInv /\ SaveInv /\ UnsavedInv
  BY <1>1 DEF ModalInv, SaveInv, UnsavedInv, Prompts
<1> QED BY <1>3, <1>4, <1>5 DEF MenusInv

LEMMA MenusFit == ASSUME MenusInv PROVE Screen!ScreenFitsMenu
<1> DEFINE drawn == OnScreen(menu, phase, choice, hidden)
<1>1. ASSUME menu # "Done"
      PROVE  /\ menu \in Mains \cup {"Browse"} /\ drawn \subseteq shown /\ shown \subseteq drawn \cup Prompts
             /\ (modal = "none" => shown = drawn)
  BY <1>1 DEF MenusInv, ShownInv, PlaceInv
<1>2. ASSUME phase = "loop" PROVE drawn = Screen!Layout(menu) /\ menu # "Done"
  BY <1>2 DEF OnScreen, WithPage, MenusInv, PlaceInv
<1>3. ASSUME phase = "loop", modal = "none" PROVE shown = Screen!Layout(menu) /\ ~off
  <2>1. ~off
    BY <1>3 DEF MenusInv, ModalInv, Browsing, WithPage
  <2> QED BY <1>1, <1>2, <1>3, <2>1
<1>4. ASSUME phase = "loop", modal # "none" PROVE Screen!Layout(menu) \subseteq shown /\ off
  <2>1. off
    BY <1>4 DEF MenusInv, ModalInv
  <2> QED BY <1>1, <1>2, <1>4, <2>1
<1>5. ASSUME NEW m \in Mains \cup {"Browse"}, shown \cap Screen!StackOf(m) # {}
      PROVE  menu = m /\ phase \notin {"enter", "fade again"}
  <2>1. /\ Screen!StackOf(m) \cap ({"App", "Left", "Right", "Toolbar", "Splash"} \cup Prompts) = {}
    BY DEF Screen!StackOf, Mains, Prompts
  <2>2. menu # "Done"
    BY <1>5, <2>1 DEF MenusInv, ShownInv
  <2>3. drawn \cap Screen!StackOf(m) # {}
    BY <1>1, <1>5, <2>1, <2>2
  <2>4. \A x \in Mains \cup {"Browse"} : /\ x # m => Screen!Layout(x) \cap Screen!StackOf(m) = {}
                                         /\ Screen!StackOf(x) \subseteq Screen!FirstOut(x)
    BY Layouts DEF Screen!StackOf, Screen!FirstOut, Mains
  <2>5. phase \notin {"enter", "fade again"}
    <3>1. ASSUME phase \in {"enter", "fade again"} PROVE drawn \subseteq Screen!Layout(menu) \ Screen!FirstOut(menu)
      BY <3>1 DEF OnScreen, WithPage
    <3> QED BY <3>1, <1>1, <2>2, <2>3, <2>4
  <2>6. menu = m
    <3>1. CASE phase \in {"loop", "fade"}
      <4>1. drawn = Screen!Layout(menu)
        BY <3>1 DEF OnScreen, WithPage
      <4> QED BY <4>1, <1>1, <2>2, <2>3, <2>4
    <3>2. CASE phase \in Browsing \cup {"next"}
      <4>1. menu = "Browse"
        BY <3>2 DEF MenusInv, PlaceInv
      <4>2. Bar(hidden) \subseteq {"Toolbar"}
        BY DEF Bar
      <4>3. drawn \subseteq {"promptWindow", "childWindow", "Form", "Toolbar"}
        BY <3>2, <4>2 DEF OnScreen, WithPage, Browsing
      <4>4. {"promptWindow", "childWindow", "Form"} \cap Screen!StackOf(m) # {}
        BY <2>1, <2>3, <4>3
      <4> QED BY <4>1, <4>4, Layouts, <2>4
    <3>3. CASE phase = "entering"
      <4>1. menu = "Favorites" /\ drawn = {"Favorites", "Right"}
        BY <3>3, Placing DEF MenusInv, PlaceInv
      <4> QED BY <4>1, <2>1, <2>3, <2>4, Layouts DEF Mains
    <3> QED BY <3>1, <3>2, <3>3, <2>5 DEF MenusInv, PlaceInv
  <2> QED BY <2>5, <2>6
<1>6. ASSUME shown \cap {"prompt", "keyboard"} # {} PROVE modal # "none"
  <2>1. menu # "Done"
    BY <1>6 DEF MenusInv, ShownInv
  <2>2. drawn \cap Prompts = {}
    BY <1>1, <2>1, NoPrompts
  <2> QED BY <1>1, <1>6, <2>1, <2>2 DEF Prompts
<1>7. Screen!At("TopSites", "loop") /\ "btnSave" \in clicked => editing
  BY DEF Screen!At, MenusInv, SaveInv
<1> HIDE DEF drawn
<1> QED BY <1>3, <1>4, <1>5, <1>6, <1>7 DEF Screen!ScreenFitsMenu, Mains

\* However many clicks are waiting, each menu finds the window enabled and with
\* its own widgets, whichever menu, prompt or exit came before it
\* (menu.cpp:1826-1950, 2240-2410, 2463-2715); and a changed setting is saved,
\* or the user is told that it was not, before another menu opens
\* (menu.cpp:1443-1449, 1644-1645).
THEOREM MenusFitScreen == Screen!Spec => [](Screen!ScreenFitsMenu /\ Screen!ChangesSavedOrTold)
<1>1. Screen!Init => MenusInv
  BY MenusStart
<1>2. MenusInv /\ [Screen!Next]_(Screen!vars) => MenusInv'
  <2> SUFFICES ASSUME MenusInv, [Screen!Next]_(Screen!vars) PROVE MenusInv'
    OBVIOUS
  <2>1. CASE UNCHANGED Screen!vars
    BY <2>1, MenusRest DEF Screen!vars, Screen!screen
  <2>2. CASE Screen!User
    <3>1. modal = "none" \/ Screen!RequestExit \/ Screen!Answer \/ \E b : Screen!Click(b)
      BY <2>2 DEF Screen!User, Screen!PageAsks, Screen!ShowBar, Screen!BarHides, Screen!OpenForm, Screen!FormEnds,
                  Screen!PageEnds, Screen!At
    <3> QED BY <2>2, <3>1, ExitRequested, ButtonClicked, QuestionAnswered, PageAsked, BarMoves, FormComesGoes
            DEF Screen!User
  <2>3. CASE Screen!Frame
    BY <2>3, FrameDrawn
  <2>4. CASE Screen!CloseModal
    BY <2>4, ModalClosed
  <2>5. CASE /\ modal = "none"
             /\ Screen!EnterSplash \/ Screen!EnterHome \/ Screen!EnterTopSites \/ Screen!EnterFavorites
                \/ Screen!EnterSettings \/ Screen!EnterAdvanced \/ Screen!Done
    BY <2>5, SplashEntered, HomeEntered, TopSitesEntered, FavoritesEntered, SettingsEntered, MenusDone
  <2>6. CASE /\ modal = "none"
             /\ Screen!ExitLoop \/ Screen!SplashEnds \/ Screen!HomeIteration \/ Screen!HomeExits
                \/ Screen!TopSitesIteration \/ Screen!FavoritesInPlace \/ Screen!FavoritesIteration
    BY <2>6, LoopExited, SplashOver, HomeLoops, HomeLeft, TopSitesLoops, FavoritesPlaced, FavoritesLoops
  <2>7. CASE /\ modal = "none"
             /\ Screen!Option("Settings") \/ Screen!Option("Developer") \/ Screen!AdvancedText
                \/ Screen!SettingsEnds \/ Screen!AdvancedEnds \/ Screen!FadeEnds \/ Screen!SecondFadeEnds
    BY <2>7, OptionChanged, TextAsked, SettingsOver, FadeEnded, SecondFadeEnded
  <2>8. CASE /\ modal = "none"
             /\ Screen!BeginLoad \/ Screen!LoadEnds \/ Screen!LoadResult \/ Screen!BarGone \/ Screen!LeavePage
                \/ Screen!Abandon
    BY <2>8, LoadBegun, LoadEnded, LoadOver, BarMoves, PageLeftBehind
  <2> QED BY <2>1, <2>2, <2>3, <2>4, <2>5, <2>6, <2>7, <2>8 DEF Screen!Next, Screen!MenuThread
<1>3. MenusInv => Screen!ScreenFitsMenu /\ Screen!ChangesSavedOrTold
  <2>1. MenusInv => Screen!ChangesSavedOrTold
    BY DEF MenusInv, UnsavedInv, Screen!ChangesSavedOrTold
  <2> QED BY <2>1, MenusFit
<1> QED BY <1>1, <1>2, <1>3, PTL DEF Screen!Spec
=============================================================================
