------------------------------ MODULE Shutdown ------------------------------
(***************************************************************************)
(* The life of the program's threads from main() to power-off: the menu    *)
(* thread (src/core/main.cpp, src/ui/menu.cpp), the GUI, loading and       *)
(* download threads, the network worker (src/network/networkop.cpp) and    *)
(* the storage device (src/filesystem/devmount.cpp), all on the GUI lock   *)
(* of GuiLock.  Transfers, Session and Browse look inside the stages that  *)
(* are one step here.                                                      *)
(***************************************************************************)
EXTENDS GuiLock

CONSTANTS Main, Gui, Download   \* the threads that take the GUI lock

ASSUME LockUsersAssumption ==
  /\ Threads = {Main, Gui, Download}
  /\ Main # Gui /\ Main # Download /\ Gui # Download

VARIABLES
  main,            \* what the menu thread does next
  exitRequested, exitAccepted, hwButton,
  settingsLoaded, session,
  widgets,         \* mainWindow, App and the rest exist
  gui,             \* UpdateGUI: "none" (no such thread), "top", "frame", "leave", "done"
  guiReady, guiStop,
  loading,         \* LoadingThread: "none", "suspended", "awake", "done"
  download,        \* DownloadThread: "none", "wait", "run", "bar", "last", "freed", "done"
  ready, stop,     \* the flags of transfer.cpp
  worker,          \* networkWorker: "none", "loop", "attempt", "done"
  requested, netStop, networkinit,
  card,            \* external: the boot device is in its slot
  mounted, mediaLost

exitVars == <<exitRequested, exitAccepted, hwButton>>
startVars == <<settingsLoaded, session, widgets>>
guiVars == <<gui, guiReady, guiStop>>
downloadVars == <<download, ready, stop>>
netVars == <<worker, requested, netStop, networkinit>>
mediaVars == <<card, mounted, mediaLost>>
vars == <<lockVars, main, exitVars, startVars, guiVars, loading, downloadVars,
          netVars, mediaVars>>

AppExiting == exitRequested \/ exitAccepted \/ hwButton

Ended(thread) == thread \in {"none", "done"}

Init ==
  /\ LockInit
  /\ main = "boot"
  /\ exitRequested = FALSE /\ exitAccepted = FALSE /\ hwButton = FALSE
  /\ settingsLoaded = FALSE /\ session = FALSE /\ widgets = FALSE
  /\ gui = "none" /\ guiReady = FALSE /\ guiStop = FALSE
  /\ loading = "none"
  /\ download = "none" /\ ready = FALSE /\ stop = FALSE
  /\ worker = "none" /\ requested = FALSE /\ netStop = FALSE /\ networkinit = FALSE
  /\ card \in BOOLEAN
  /\ mounted = FALSE /\ mediaLost = FALSE

-----------------------------------------------------------------------------
(* The start.                                                              *)

\* main: the device is mounted; without video the program returns at once.
Boot ==
  /\ main = "boot"
  /\ \/ mounted' = card /\ main' = "threads"
     \/ mounted' = FALSE /\ main' = "off"
  /\ UNCHANGED <<lockVars, exitVars, startVars, guiVars, loading, downloadVars,
                 netVars, card, mediaLost>>

\* InitGUIThreads: the mutex and three threads, any of which may be refused.
InitGUIThreads ==
  /\ main = "threads"
  /\ gui' \in {"none", "top"}
  /\ loading' \in {"none", "suspended"}
  /\ download' \in {"none", "wait"}
  /\ exitAccepted' = (exitAccepted \/ "none" \in {gui', loading', download'})
  /\ main' = IF exitAccepted' THEN "stopDownload" ELSE "init"
  /\ settingsLoaded' = ~exitAccepted'
  /\ UNCHANGED <<lockVars, exitRequested, hwButton, session, widgets, guiReady,
                 guiStop, ready, stop, netVars, mediaVars>>

\* Init fails before the session, or in SetupGui, or opens the first menu.
InitMenu ==
  /\ main = "init"
  /\ \/ /\ exitAccepted' = TRUE /\ main' = "stopDownload"
        /\ session' \in BOOLEAN
        /\ widgets' = session'
        /\ UNCHANGED <<guiReady, ready>>
     \/ /\ session' = TRUE /\ widgets' = TRUE
        /\ ready' = TRUE /\ guiReady' = TRUE
        /\ main' = "menu"
        /\ UNCHANGED exitAccepted
  /\ UNCHANGED <<lockVars, exitRequested, hwButton, settingsLoaded, gui, guiStop,
                 loading, download, stop, netVars, mediaVars>>

-----------------------------------------------------------------------------
(* The menus: critical sections, nested where a widget takes the lock of   *)
(* its own accord, and page loads, which show the user what they wait for. *)

InMenus == main \in {"menu", "netwait", "request"}

HaltGui ==
  /\ InMenus
  /\ Lock(Main)
  /\ UNCHANGED <<main, exitVars, startVars, guiVars, loading, downloadVars,
                 netVars, mediaVars>>

EndSection ==
  /\ InMenus /\ holder = Main
  /\ ResumeGui(Main)
  /\ UNCHANGED <<main, exitVars, startVars, guiVars, loading, downloadVars,
                 netVars, mediaVars>>

\* MenuBrowse: CheckConnection, with whatever address net_gethostip gives.
BeginLoad ==
  /\ main = "menu" /\ holder # Main /\ at[Main] = "out" /\ ~AppExiting
  /\ \E ip \in BOOLEAN : main' = IF networkinit /\ ip THEN "netwait" ELSE "connect"
  /\ UNCHANGED <<lockVars, exitVars, startVars, guiVars, loading, downloadVars,
                 netVars, mediaVars>>

\* InitNetwork asks once more before it sets the request and, for the first
\* one, makes the worker.
InitNetwork ==
  /\ main = "connect"
  /\ \/ (networkinit \/ AppExiting) /\ UNCHANGED <<worker, requested, netStop>>
     \/ /\ ~AppExiting
        /\ netStop' = FALSE
        /\ worker' \in IF worker = "none" THEN {"none", "loop"} ELSE {worker}
        /\ requested' = (worker' # "none")
  /\ main' = "netwait"
  /\ UNCHANGED <<lockVars, exitVars, startVars, guiVars, loading, downloadVars,
                 networkinit, mediaVars>>

\* The wait ends with a connection, with the exit, or after its last turn.
NetWaited ==
  /\ main = "netwait" /\ holder # Main /\ at[Main] = "out"
  /\ main' = IF networkinit /\ ~AppExiting THEN "request" ELSE "menu"
  /\ UNCHANGED <<lockVars, exitVars, startVars, guiVars, loading, downloadVars,
                 netVars, mediaVars>>

\* curl answers, fails, or is aborted by progress().
RequestEnds ==
  /\ main = "request" /\ holder # Main /\ at[Main] = "out"
  /\ main' = "menu"
  /\ UNCHANGED <<lockVars, exitVars, startVars, guiVars, loading, downloadVars,
                 netVars, mediaVars>>

\* Mutant: a menu is left in the middle of a critical section.
MenuEnds_Inside ==
  /\ main = "menu" /\ AppExiting
  /\ at[Main] = "out"
  /\ exitAccepted' = TRUE
  /\ main' = "stopDownload"
  /\ UNCHANGED <<lockVars, exitRequested, hwButton, startVars, guiVars, loading,
                 downloadVars, netVars, mediaVars>>

\* MainMenu leaves its loop and calls ResumeGui, which it does not own.
MenuEnds ==
  /\ main = "menu" /\ AppExiting
  /\ holder # Main
  /\ exitAccepted' = TRUE
  /\ ResumeGui(Main)
  /\ main' = "stopDownload"
  /\ UNCHANGED <<exitRequested, hwButton, startVars, guiVars, loading,
                 downloadVars, netVars, mediaVars>>

-----------------------------------------------------------------------------
(* ExitApp, the joins as steps of their own.                               *)

StopDownload ==
  /\ main = "stopDownload" /\ at[Main] = "out"
  /\ exitAccepted' = TRUE
  /\ stop' = (stop \/ download # "none")
  /\ main' = "joinDownload"
  /\ UNCHANGED <<lockVars, exitRequested, hwButton, startVars, guiVars, loading,
                 download, ready, netVars, mediaVars>>

StopLoading ==
  /\ main = "joinDownload" /\ Ended(download)
  /\ loading' = IF loading = "none" THEN "none" ELSE "awake"
  /\ main' = "joinLoading"
  /\ UNCHANGED <<lockVars, exitVars, startVars, guiVars, downloadVars, netVars, mediaVars>>

StopGui ==
  /\ main = "joinLoading" /\ Ended(loading)
  /\ guiStop' = (guiStop \/ gui # "none")
  /\ main' = "joinGui"
  /\ UNCHANGED <<lockVars, exitVars, startVars, gui, guiReady, loading,
                 downloadVars, netVars, mediaVars>>

\* MountManager_IsInserted: a device that is missing stays lost.
IsInserted(yes, no) ==
  /\ main' = IF mounted /\ ~mediaLost /\ card THEN yes ELSE no
  /\ mediaLost' = (mediaLost \/ (mounted /\ ~card))
  /\ exitRequested' = (exitRequested \/ mediaLost')

\* Mutant: the GUI thread is told to stop but not waited for.
MediaCheck_NoJoin ==
  /\ main = "joinGui"
  /\ IF settingsLoaded THEN IsInserted("save", "cleanup")
     ELSE main' = "cleanup" /\ UNCHANGED <<mediaLost, exitRequested>>
  /\ UNCHANGED <<lockVars, exitAccepted, hwButton, startVars, guiVars, loading,
                 downloadVars, netVars, card, mounted>>

MediaCheck ==
  /\ main = "joinGui" /\ Ended(gui)
  /\ IF settingsLoaded THEN IsInserted("save", "cleanup")
     ELSE main' = "cleanup" /\ UNCHANGED <<mediaLost, exitRequested>>
  /\ UNCHANGED <<lockVars, exitAccepted, hwButton, startVars, guiVars, loading,
                 downloadVars, netVars, card, mounted>>

\* Settings::Save asks the device again; DumpList follows in any case.
SaveSettings ==
  /\ main = "save"
  /\ LET next == IF session THEN "dump" ELSE "cleanup" IN IsInserted(next, next)
  /\ UNCHANGED <<lockVars, exitAccepted, hwButton, startVars, guiVars, loading,
                 downloadVars, netVars, card, mounted>>

DumpList ==
  /\ main = "dump"
  /\ main' = "cleanup"
  /\ UNCHANGED <<lockVars, exitVars, startVars, guiVars, loading, downloadVars,
                 netVars, mediaVars>>

Cleanup ==
  /\ main = "cleanup"
  /\ widgets' = FALSE
  /\ main' = "stopNetwork"
  /\ UNCHANGED <<lockVars, exitVars, settingsLoaded, session, guiVars, loading,
                 downloadVars, netVars, mediaVars>>

StopNetwork ==
  /\ main = "stopNetwork"
  /\ netStop' = TRUE
  /\ main' = "joinNetwork"
  /\ UNCHANGED <<lockVars, exitVars, startVars, guiVars, loading, downloadVars,
                 worker, requested, networkinit, mediaVars>>

NetworkDown ==
  /\ main = "joinNetwork" /\ Ended(worker)
  /\ worker' = "none" /\ networkinit' = FALSE
  /\ main' = "unmount"
  /\ UNCHANGED <<lockVars, exitVars, startVars, guiVars, loading, downloadVars,
                 requested, netStop, mediaVars>>

\* MountManager_Deinit, and power-off or the way back to the menu.
Unmount ==
  /\ main = "unmount"
  /\ mounted' = FALSE
  /\ hwButton' = FALSE
  /\ main' = "off"
  /\ UNCHANGED <<lockVars, exitRequested, exitAccepted, startVars, guiVars, loading,
                 downloadVars, netVars, card, mediaLost>>

\* The user starts the program again.
Relaunch ==
  /\ main = "off"
  /\ main' = "boot"
  /\ exitRequested' = FALSE /\ exitAccepted' = FALSE
  /\ settingsLoaded' = FALSE /\ session' = FALSE
  /\ gui' = "none" /\ guiReady' = FALSE /\ guiStop' = FALSE
  /\ loading' = "none"
  /\ download' = "none" /\ ready' = FALSE /\ stop' = FALSE
  /\ requested' = FALSE /\ netStop' = FALSE
  /\ mediaLost' = FALSE
  /\ UNCHANGED <<lockVars, hwButton, widgets, worker, networkinit, card, mounted>>

-----------------------------------------------------------------------------
(* The GUI thread.                                                         *)

GuiEnds ==
  /\ gui = "top" /\ at[Gui] = "out" /\ guiStop
  /\ gui' = "done"
  /\ UNCHANGED <<lockVars, main, exitVars, startVars, guiReady, guiStop, loading,
                 downloadVars, netVars, mediaVars>>

GuiEnter ==
  /\ gui = "top" /\ ~guiStop /\ guiReady
  /\ Lock(Gui)
  /\ gui' = "frame"
  /\ UNCHANGED <<main, exitVars, startVars, guiReady, guiStop, loading,
                 downloadVars, netVars, mediaVars>>

\* A frame: every thirtieth polls the device; HOME may be pressed.
GuiFrame ==
  /\ gui = "frame" /\ at[Gui] = "out"
  /\ \E poll, home \in BOOLEAN :
       /\ mediaLost' = (mediaLost \/ (poll /\ mounted /\ ~card))
       /\ exitRequested' = (exitRequested \/ home \/ hwButton \/ mediaLost')
  /\ exitAccepted' = (exitAccepted \/ exitRequested')
  /\ gui' = "leave"
  /\ UNCHANGED <<lockVars, main, hwButton, startVars, guiReady, guiStop, loading,
                 downloadVars, netVars, card, mounted>>

GuiLeave ==
  /\ gui = "leave"
  /\ ResumeGui(Gui)
  /\ gui' = "top"
  /\ UNCHANGED <<main, exitVars, startVars, guiReady, guiStop, loading,
                 downloadVars, netVars, mediaVars>>

-----------------------------------------------------------------------------
(* The loading thread, which nothing wakes but the exit, the download      *)
(* thread as far as it takes the lock, and the network worker.             *)

LoadingEnds ==
  /\ loading = "awake"
  /\ loading' = "done"
  /\ UNCHANGED <<lockVars, main, exitVars, startVars, guiVars, downloadVars,
                 netVars, mediaVars>>

DownloadBegins ==
  /\ download = "wait" /\ (ready \/ stop)
  /\ download' = IF ready THEN "run" ELSE "done"
  /\ UNCHANGED <<lockVars, main, exitVars, startVars, guiVars, loading, ready,
                 stop, netVars, mediaVars>>

\* A bar is made, moved or removed, or a job refused with a notice.
BarEnter ==
  /\ download = "run"
  /\ Lock(Download)
  /\ download' = "bar"
  /\ UNCHANGED <<main, exitVars, startVars, guiVars, loading, ready, stop,
                 netVars, mediaVars>>

\* Once stopped, and with every job released, the manager is deleted.
LastEnter ==
  /\ download = "run" /\ stop
  /\ Lock(Download)
  /\ download' = "last"
  /\ UNCHANGED <<main, exitVars, startVars, guiVars, loading, ready, stop,
                 netVars, mediaVars>>

BarLeave ==
  /\ download \in {"bar", "last"}
  /\ ResumeGui(Download)
  /\ download' = IF download = "bar" THEN "run" ELSE "freed"
  /\ UNCHANGED <<main, exitVars, startVars, guiVars, loading, ready, stop,
                 netVars, mediaVars>>

DownloadEnds ==
  /\ download = "freed" /\ at[Download] = "out"
  /\ ready' = FALSE
  /\ download' = "done"
  /\ UNCHANGED <<lockVars, main, exitVars, startVars, guiVars, loading, stop,
                 netVars, mediaVars>>

TakeRequest ==
  /\ worker = "loop" /\ ~netStop /\ requested
  /\ requested' = FALSE
  /\ networkinit' = FALSE
  /\ worker' = "attempt"
  /\ UNCHANGED <<lockVars, main, exitVars, startVars, guiVars, loading,
                 downloadVars, netStop, mediaVars>>

\* At most 500 turns, ten seconds; the last one may still succeed.
AttemptEnds ==
  /\ worker = "attempt"
  /\ networkinit' \in BOOLEAN
  /\ worker' = "loop"
  /\ UNCHANGED <<lockVars, main, exitVars, startVars, guiVars, loading,
                 downloadVars, requested, netStop, mediaVars>>

WorkerEnds ==
  /\ worker = "loop" /\ netStop
  /\ worker' = "done"
  /\ UNCHANGED <<lockVars, main, exitVars, startVars, guiVars, loading,
                 downloadVars, requested, netStop, networkinit, mediaVars>>

-----------------------------------------------------------------------------
(* The user and the hardware.                                              *)

PressButton ==
  /\ main # "off"
  /\ hwButton' = TRUE
  /\ UNCHANGED <<lockVars, main, exitRequested, exitAccepted, startVars, guiVars,
                 loading, downloadVars, netVars, mediaVars>>

MoveCard ==
  /\ card' = ~card
  /\ UNCHANGED <<lockVars, main, exitVars, startVars, guiVars, loading,
                 downloadVars, netVars, mounted, mediaLost>>

-----------------------------------------------------------------------------
Calling ==
  /\ \E t \in Threads : InCall(t)
  /\ UNCHANGED <<main, exitVars, startVars, guiVars, loading, downloadVars,
                 netVars, mediaVars>>

MenuThread ==
  \/ Boot \/ InitGUIThreads \/ InitMenu \/ InitNetwork \/ StopDownload \/ StopLoading
  \/ StopGui \/ MediaCheck \/ SaveSettings \/ DumpList \/ Cleanup \/ StopNetwork \/ NetworkDown \/ Unmount

GuiThread == GuiEnds \/ GuiFrame \/ GuiLeave

OtherThreads ==
  \/ LoadingEnds \/ DownloadBegins \/ BarLeave \/ DownloadEnds

Worker == TakeRequest \/ AttemptEnds \/ WorkerEnds

Next ==
  \/ MenuThread \/ HaltGui \/ EndSection \/ MenuEnds
  \/ BeginLoad \/ NetWaited \/ RequestEnds
  \/ GuiThread \/ GuiEnter
  \/ OtherThreads \/ BarEnter \/ LastEnter
  \/ Worker \/ Calling
  \/ PressButton \/ MoveCard \/ Relaunch

\* Every thread runs: each sleeps or waits between two rounds.  The mutex is
\* handed to who waits for it.  Every loop of a menu and every wait tests
\* App_Exiting or counts its turns, every critical section ends, and a stopped
\* download thread has finitely many jobs.
Fairness ==
  /\ WF_vars(MenuThread) /\ WF_vars(Calling) /\ WF_vars(Worker)
  /\ WF_vars(GuiThread) /\ WF_vars(OtherThreads)
  /\ \A d \in 1..MaxDepth : SF_vars(EndSection /\ guiDepth = d)
  /\ SF_vars(NetWaited) /\ SF_vars(RequestEnds) /\ SF_vars(MenuEnds)
  /\ SF_vars(GuiEnter) /\ SF_vars(LastEnter)

Spec == Init /\ [][Next]_vars /\ Fairness

-----------------------------------------------------------------------------
\* Each stage of ExitApp finds the threads it takes things away from gone:
\* widgets are used only while they exist, the saves at exit have the volume
\* for themselves, and the network goes down under no worker.  Nobody holds
\* the GUI lock by then, whatever was being drawn when the exit began.
NothingUsedAfterFreed ==
  /\ gui = "frame" \/ download \in {"bar", "last"} => widgets
  /\ main \in {"save", "dump", "cleanup", "stopNetwork", "joinNetwork", "unmount", "off"}
       => Ended(gui) /\ Ended(download) /\ Ended(loading) /\ holder = NoThread
  /\ main \in {"unmount", "off"} => Ended(worker) /\ ~networkinit

\* HOME, RESET, POWER, a lost device and a failed start all end the program:
\* no join waits for a thread that waits for the lock, at any depth, nor for
\* one that was never created or never made ready.
ExitEnds == AppExiting ~> (main = "off")

-----------------------------------------------------------------------------
(* The inductive invariant behind NothingUsedAfterFreed.                   *)

BeforeThreads == {"boot", "threads"}
AfterGui == {"save", "dump", "cleanup", "stopNetwork", "joinNetwork", "unmount", "off"}
AfterLoading == AfterGui \cup {"joinGui"}
AfterDownload == AfterLoading \cup {"joinLoading"}

TypeOK ==
  /\ main \in BeforeThreads \cup AfterDownload \cup
       {"init", "menu", "connect", "netwait", "request", "stopDownload", "joinDownload"}
  /\ gui \in {"none", "top", "frame", "leave", "done"}
  /\ loading \in {"none", "suspended", "awake", "done"}
  /\ download \in {"none", "wait", "run", "bar", "last", "freed", "done"}
  /\ worker \in {"none", "loop", "attempt", "done"}

\* A thread outside every section holds no lock, one inside holds it once.
Outside(t) == at[t] = "out" /\ holder # t
Leaving(t) == Outside(t) \/ (at[t] \in {"leaving", "unlock"} /\ count = 1)
Inside(t) == holder = t /\ count = 1 /\ at[t] \in {"locked", "owned", "out"}

Sections ==
  /\ InMenus \/ Outside(Main)
  /\ Ended(gui) => Outside(Gui)
  /\ gui = "top" => Leaving(Gui)
  /\ gui \in {"frame", "leave"} => Inside(Gui)
  /\ gui = "leave" => at[Gui] = "out"
  /\ Ended(download) \/ download = "wait" => Outside(Download)
  /\ download \in {"run", "freed"} => Leaving(Download)
  /\ download \in {"bar", "last"} => Inside(Download)

\* The two flags that let a thread touch widgets are set once they exist.
Widgets ==
  /\ gui \in {"frame", "leave"} => guiReady
  /\ download \in {"run", "bar", "last", "freed"} => ready
  /\ guiReady /\ ~Ended(gui) => widgets
  /\ ready /\ ~Ended(download) => widgets
  /\ main \in BeforeThreads \cup {"init"} => ~guiReady /\ ~ready

\* What each stage of the menu thread may rely on.
Stages ==
  /\ main \in BeforeThreads => gui = "none" /\ loading = "none" /\ download = "none"
  /\ main \in AfterDownload => Ended(download)
  /\ main \in AfterLoading => Ended(loading)
  /\ main \in AfterGui => Ended(gui)
  /\ main \in BeforeThreads \cup {"init", "unmount", "off"} =>
       worker = "none" /\ ~networkinit

IndInv == LockConsistent /\ TypeOK /\ Sections /\ Widgets /\ Stages
=============================================================================
