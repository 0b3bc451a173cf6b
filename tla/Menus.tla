------------------------------- MODULE Menus -------------------------------
(***************************************************************************)
(* The menus of src/ui/menu.cpp and the bar of a page (src/core/handle.cpp)*)
(* as functions that call one another, beside the GUI thread that draws    *)
(* what is in mainWindow and turns presses into clicks, and an exit that   *)
(* may be asked for at any instruction.  Every menu appends its widgets,   *)
(* most of them on its own stack, loops over the clicks it finds, waits    *)
(* for its animations and takes its widgets out again.                     *)
(***************************************************************************)
EXTENDS Naturals, FiniteSets

CONSTANTS MaxClicks   \* clicks not yet answered at any time

VARIABLES
  menu,     \* the function that runs: "Splash", "Home", ... or "Done"
  phase,    \* where: "enter", "entering", "loop", "fade", "fade again";
            \* Browse: "load", "slide", "page", "form"
  choice,   \* what it will return
  modal,    \* the window that blocks it, "none" if there is none
  question, \* what the prompt asks: "exit" or "other"
  shown,    \* children of mainWindow
  off,      \* mainWindow is DISABLED
  clicked,  \* buttons in STATE_CLICKED
  mode,     \* App->buttons: what the toolbar was last changed to
  saveOff,  \* App->btnSave is DISABLED
  editing,  \* MenuTopSites
  moving,   \* an animation has not ended
  hidden,   \* the bar of a page is hidden
  unsaved,  \* settings changed since the last save the user knows of
  exiting   \* App_Exiting()

screen == <<shown, off, clicked, mode, saveOff>>
vars == <<menu, phase, choice, modal, question, screen, editing, moving, hidden, unsaved, exiting>>

AppButtons == {"btnBack", "btnForward", "btnWWW", "btnSave", "btnSett", "btnHome"}
Buttons(w) ==
  CASE w = "App" -> AppButtons
    [] w = "Blocks" -> {"block", "remove"}
    [] w = "Favorites" -> {"entry", "btnNext"}
    [] w = "SettingsWindow" -> {"option", "typed option", "backBtn", "devBtn"}
    [] w = "AdvancedWindow" -> {"option", "typed option", "sendBtn", "postComment", "backBtn"}
    [] w \in {"Left", "Right", "InsertURL", "btnGo", "btnExit", "Toolbar"} -> {w}
    [] OTHER -> {}

\* What the stack of a function holds; App, Left, Right, Splash, manager and
\* the bar of a page live until Cleanup.
StackOf(m) ==
  CASE m = "Splash" -> {"Init"}
    [] m = "Home" -> {"InsertURL", "btnGo", "btnExit"}
    [] m = "TopSites" -> {"Blocks"}
    [] m = "Favorites" -> {"Favorites"}
    [] m = "Settings" -> {"SettingsWindow"}
    [] m = "Developer" -> {"AdvancedWindow"}
    [] m = "Browse" -> {"promptWindow", "childWindow", "Form"}
    [] OTHER -> {}

Init ==
  /\ menu = "Splash" /\ phase = "enter" /\ choice = "Splash"
  /\ \/ modal = "none" /\ shown = {} /\ off = FALSE
     \/ modal = "prompt" /\ shown = {"prompt"} /\ off = TRUE   \* the last end was not clean
  /\ question = "other" /\ clicked = {}
  /\ mode = "HOMEPAGE" /\ saveOff = FALSE
  /\ editing = FALSE /\ moving = FALSE /\ hidden = TRUE
  /\ unsaved = FALSE /\ exiting = FALSE

At(m, p) == menu = m /\ phase = p /\ modal = "none"

-----------------------------------------------------------------------------
(* The GUI thread, and the user.                                           *)

Frame ==
  /\ moving /\ moving' = FALSE
  /\ UNCHANGED <<menu, phase, choice, modal, question, screen, editing, hidden, unsaved, exiting>>

\* A button takes a click if its window and it are enabled and it is not
\* clicked yet.
Click(b) ==
  /\ ~off /\ \E w \in shown : b \in Buttons(w)
  /\ b = "btnSave" => ~saveOff
  /\ b \in {"remove"} => editing
  /\ Cardinality(clicked) < MaxClicks
  /\ clicked' = clicked \cup {b}
  /\ UNCHANGED <<menu, phase, choice, modal, question, shown, off, mode, saveOff, editing, moving, hidden, unsaved, exiting>>

\* Home button, reset, power.
RequestExit ==
  /\ ~exiting /\ exiting' = TRUE
  /\ UNCHANGED <<menu, phase, choice, modal, question, screen, editing, moving, hidden, unsaved>>

-----------------------------------------------------------------------------
(* WindowPrompt, OnScreenKeyboard, ShowDownloads.  SetState of a window is *)
(* SetState of all its children: what is clicked is forgotten, and what    *)
(* was disabled is enabled at the end.                                     *)

ForgetClicks == clicked' = clicked \ UNION {Buttons(w) : w \in shown}
Disable == off' = TRUE /\ ForgetClicks
Enable == off' = FALSE /\ ForgetClicks /\ saveOff' = (saveOff /\ "App" \notin shown)

Ask(kind, q) ==
  /\ modal' = kind /\ question' = q
  /\ shown' = shown \cup {kind} /\ Disable
  /\ UNCHANGED <<mode, saveOff>>

WindowPrompt(q) == Ask("prompt", q)
OnScreenKeyboard == Ask("keyboard", "other")
ShowDownloads == Ask("manager", "other")

\* The answer, or an exit in its place, starts the animation that ends it.
Answer ==
  /\ modal \in {"prompt", "keyboard", "manager"}
  /\ \E ok \in BOOLEAN :
       /\ ok => ~exiting
       /\ choice' = IF question = "exit" /\ ok THEN "Exit" ELSE choice
  /\ modal' = "closing" /\ moving' = TRUE
  /\ UNCHANGED <<menu, phase, question, screen, editing, hidden, unsaved, exiting>>

CloseModal ==
  /\ modal = "closing" /\ (~moving \/ exiting)
  /\ modal' = "none" /\ question' = "other"
  /\ shown' = shown \ {"prompt", "keyboard", "manager"} /\ Enable
  /\ UNCHANGED <<menu, phase, choice, mode, editing, moving, hidden, unsaved, exiting>>

-----------------------------------------------------------------------------
(* Entering: ChangeButtons and what is appended and removed.               *)

\* Nothing happens if the toolbar is in that mode already.
ChangeButtons(set) ==
  /\ mode' = set
  /\ saveOff' = IF set = mode THEN saveOff ELSE set = "FAVORITES"

Begin(m, p) ==
  /\ phase = "enter" /\ choice = m /\ ~exiting
  /\ menu' = m /\ phase' = p /\ choice' = "none"
  /\ moving' = TRUE /\ editing' = FALSE
  /\ UNCHANGED <<modal, question, off, hidden, unsaved, exiting>>

Enter(m) == Begin(m, "loop")

EnterSplash ==
  /\ Enter("Splash") /\ shown' = shown \cup {"Init"}
  /\ UNCHANGED <<clicked, mode, saveOff>>

\* Mutant: the button of the menu that was left stays in the window.
EnterHome_KeepsLeft ==
  /\ Enter("Home") /\ ChangeButtons("HOMEPAGE")
  /\ shown' = shown \cup {"Splash", "App", "Right"} \cup StackOf("Home")
  /\ clicked' = clicked \ (IF mode = "HOMEPAGE" THEN {"Left"} ELSE {"Left", "btnSave"})

EnterHome ==
  /\ Enter("Home") /\ ChangeButtons("HOMEPAGE")
  /\ shown' = (shown \ {"Left"}) \cup {"Splash", "App", "Right"} \cup StackOf("Home")
  /\ clicked' = clicked \ (IF mode = "HOMEPAGE" THEN {"Left"} ELSE {"Left", "btnSave"})

EnterTopSites ==
  /\ Enter("TopSites") /\ ChangeButtons("FAVORITES")
  /\ shown' = shown \cup {"Blocks", "App", "Left", "Right"}
  /\ clicked' = clicked \ ({"Right", "btnBack", "btnForward"}
                           \cup IF mode = "FAVORITES" THEN {} ELSE {"btnSave"})

\* Its lists slide in beside the button of the menu before, which goes when
\* they are in place, or an exit was asked for, with a click it took or not.
EnterFavorites ==
  /\ Begin("Favorites", "entering")
  /\ shown' = shown \cup {"Favorites"}
  /\ clicked' = clicked \ {"Right"} /\ UNCHANGED <<mode, saveOff>>

FavoritesInPlace ==
  /\ At("Favorites", "entering") /\ (~moving \/ exiting)
  /\ phase' = "loop" /\ shown' = (shown \ {"Right"}) \cup {"Left"}
  /\ UNCHANGED <<menu, choice, modal, question, off, clicked, mode, saveOff, editing, moving, hidden, unsaved, exiting>>

EnterSettings ==
  /\ Enter("Settings") /\ shown' = shown \cup {"SettingsWindow"}
  /\ UNCHANGED <<clicked, mode, saveOff>>

EnterAdvanced ==
  /\ Enter("Developer") /\ shown' = shown \cup {"AdvancedWindow"}
  /\ UNCHANGED <<clicked, mode, saveOff>>

\* MainMenu's loop ends; what is left in mainWindow belongs to Cleanup.
Done ==
  /\ phase = "enter" /\ menu # "Done" /\ (exiting \/ choice = "Exit")
  /\ menu' = "Done" /\ exiting' = TRUE
  /\ UNCHANGED <<phase, choice, modal, question, screen, editing, moving, hidden, unsaved>>

-----------------------------------------------------------------------------
(* One iteration of a menu's loop.  Leave starts the animations.           *)

Leave(c) == phase' = "fade" /\ choice' = c /\ moving' = TRUE

\* The while condition fails with nothing chosen.
ExitLoop ==
  /\ phase = "loop" /\ modal = "none" /\ exiting /\ menu \notin {"Splash", "Settings"}
  /\ Leave(choice)
  /\ UNCHANGED <<menu, modal, question, screen, editing, hidden, unsaved, exiting>>

\* MenuSplash: the network is there, or the wait is over.
SplashEnds ==
  /\ At("Splash", "loop")
  /\ Leave("Home") \/ Leave("Browse")
  /\ UNCHANGED <<menu, modal, question, screen, editing, hidden, unsaved, exiting>>

First(order, set) ==
  IF \E i \in DOMAIN order : order[i] \in set
  THEN order[CHOOSE i \in DOMAIN order : order[i] \in set /\ \A j \in 1..i - 1 : order[j] \notin set]
  ELSE "nothing"

\* MenuHome: one of the toolbar or the text field, then Back, then one of
\* the rest.  What remains clicked of Go, Back and Forward is overwritten at
\* the top of the next iteration.
HomeIteration ==
  LET bar == First(<<"InsertURL", "btnWWW", "btnSett", "btnSave", "btnHome">>, clicked)
      rest == First(<<"btnForward", "btnGo", "Right", "btnExit">>, clicked)
      ends == IF rest = "btnGo" THEN "Browse" ELSE IF rest = "Right" THEN "TopSites"
              ELSE IF bar = "btnSett" THEN "Settings" ELSE "none"
  IN /\ At("Home", "loop") /\ ~exiting /\ choice = "none" /\ clicked # {}
     /\ \/ /\ bar \in {"InsertURL", "btnWWW"} /\ OnScreenKeyboard
           /\ UNCHANGED <<phase, choice, moving>>
        \/ /\ bar = "btnSave" /\ ShowDownloads
           /\ UNCHANGED <<phase, choice, moving>>
        \/ /\ bar \in {"btnSett", "btnHome", "nothing"} /\ rest = "btnExit"
           /\ WindowPrompt("exit") /\ choice' = ends
           /\ UNCHANGED <<phase, moving>>
        \/ /\ bar \in {"btnSett", "btnHome", "nothing"} /\ ends # "none" /\ rest # "btnExit"
           /\ Leave(ends) /\ clicked' = clicked \ {bar, "btnBack", "btnForward"}
           /\ UNCHANGED <<modal, question, shown, off, mode, saveOff>>
        \/ /\ bar \in {"btnSett", "btnHome", "nothing"} /\ ends = "none" /\ rest # "btnExit"
           /\ clicked' = clicked \ {bar, "btnGo", "btnBack", "btnForward"}
           /\ UNCHANGED <<phase, choice, modal, question, moving, shown, off, mode, saveOff>>
     /\ UNCHANGED <<menu, editing, hidden, unsaved, exiting>>

\* After the prompt of btnExit.
HomeExits ==
  /\ At("Home", "loop") /\ choice # "none"
  /\ Leave(choice)
  /\ UNCHANGED <<menu, modal, question, screen, editing, hidden, unsaved, exiting>>

TopSitesIteration ==
  LET bar == First(<<"btnSett", "btnHome", "btnSave", "Left", "btnWWW", "Right">>, clicked)
      opens == editing = (bar = "btnSett") /\ "Left" \notin clicked
  IN /\ At("TopSites", "loop") /\ ~exiting /\ clicked # {}
     /\ clicked' = clicked \ ({bar, "remove"} \cup (IF bar = "btnSett" THEN {"btnSave"} ELSE {})
                               \cup IF opens THEN {"block"} ELSE {})
     /\ \/ bar = "btnSett" /\ editing' = ~editing /\ UNCHANGED <<phase, choice, moving>>
           /\ mode' = (IF editing THEN "FAVORITES" ELSE "EDITING") /\ saveOff' = editing
        \/ /\ bar \in {"btnHome", "btnSave", "nothing"}
           /\ UNCHANGED <<editing, phase, choice, moving, mode, saveOff>>
        \/ /\ bar \in {"Left", "btnWWW"} /\ Leave("Home") /\ UNCHANGED <<editing, mode, saveOff>>
        \/ /\ bar = "Right" /\ Leave("Favorites") /\ UNCHANGED <<editing, mode, saveOff>>
     /\ UNCHANGED <<menu, modal, question, shown, off, hidden, unsaved, exiting>>

FavoritesIteration ==
  /\ At("Favorites", "loop") /\ ~exiting /\ clicked # {}
  /\ IF "Left" \in clicked THEN Leave("Home") ELSE UNCHANGED <<phase, choice, moving>>
  /\ clicked' = clicked \ ({"btnNext"} \cup IF "Left" \in clicked THEN {} ELSE {"entry"})
  /\ UNCHANGED <<menu, modal, question, shown, off, mode, saveOff, editing, hidden, unsaved, exiting>>

\* MenuSettings and MenuAdvanced: an option may ask for text.
Option(m) ==
  /\ At(m, "loop") /\ ~exiting
  /\ \/ /\ "option" \in clicked /\ clicked' = clicked \ {"option"}
        /\ UNCHANGED <<modal, question, shown, off, mode, saveOff>>
     \/ /\ "typed option" \in clicked /\ OnScreenKeyboard
  /\ unsaved' = TRUE
  /\ UNCHANGED <<menu, phase, choice, editing, moving, hidden, exiting>>

AdvancedText ==
  /\ At("Developer", "loop") /\ ~exiting
  /\ \/ "sendBtn" \in clicked /\ WindowPrompt("other")
     \/ "postComment" \in clicked /\ OnScreenKeyboard
  /\ UNCHANGED <<menu, phase, choice, editing, moving, hidden, unsaved, exiting>>

\* Settings.Save(0) if something changed; the user is told of a failure.
SaveChanges ==
  \/ UNCHANGED <<modal, question, screen>> /\ unsaved' = FALSE
  \/ unsaved /\ WindowPrompt("other") /\ unsaved' = FALSE

SettingsEnds ==
  /\ At("Settings", "loop") /\ choice = "none"
  /\ \/ "backBtn" \in clicked /\ "devBtn" \notin clicked /\ Leave("Home")
     \/ "devBtn" \in clicked /\ Leave("Developer")
     \/ exiting /\ Leave("Home")
  /\ SaveChanges
  /\ UNCHANGED <<menu, editing, hidden, exiting>>

AdvancedEnds ==
  /\ At("Developer", "loop") /\ ~exiting /\ "backBtn" \in clicked /\ Leave("Home")
  /\ SaveChanges
  /\ UNCHANGED <<menu, editing, hidden, exiting>>

-----------------------------------------------------------------------------
(* Leaving.                                                                *)

\* What goes first, and what goes after a second animation unless the next
\* menu shows it too.
FirstOut(m) == StackOf(m) \cup IF m = "Home" THEN {"Splash"} ELSE {}
SecondOut(m, c) ==
  CASE m = "Home" /\ c # "TopSites" -> {"App", "Right"}
    [] m = "TopSites" /\ c # "Home" -> {"App", "Left"}
    [] m = "Favorites" /\ c # "Home" -> {"Left"}
    [] OTHER -> {}

\* Widgets of the stack lose their clicks with their lives.
TakeOut(gone) ==
  /\ shown' = shown \ gone
  /\ clicked' = clicked \ UNION {Buttons(w) : w \in gone \ {"App", "Left", "Right"}}
  /\ UNCHANGED <<off, mode, saveOff>>

FadeEnds ==
  /\ phase = "fade" /\ modal = "none" /\ (~moving \/ exiting)
  /\ \/ TakeOut(FirstOut(menu)) /\ UNCHANGED <<modal, question>>
     \/ /\ menu = "Splash" /\ choice = "Home"   \* the network is unavailable
        /\ modal' = "prompt" /\ question' = "other"
        /\ shown' = (shown \ FirstOut(menu)) \cup {"prompt"} /\ Disable
        /\ UNCHANGED <<mode, saveOff>>
  /\ IF SecondOut(menu, choice) = {} THEN phase' = "enter" /\ UNCHANGED moving
     ELSE phase' = "fade again" /\ moving' = TRUE
  /\ UNCHANGED <<menu, choice, editing, hidden, unsaved, exiting>>

SecondFadeEnds ==
  /\ phase = "fade again" /\ (~moving \/ exiting)
  /\ TakeOut(SecondOut(menu, choice)) /\ phase' = "enter"
  /\ UNCHANGED <<menu, choice, modal, question, editing, moving, hidden, unsaved, exiting>>

-----------------------------------------------------------------------------
(* MenuBrowse.                                                             *)

\* `jump`: the first load, the search for a word, a link that was followed.
BeginLoad ==
  /\ \/ phase = "enter" /\ choice = "Browse" /\ ~exiting /\ menu' = "Browse"
     \/ At("Browse", "next") /\ ~exiting /\ UNCHANGED menu
  /\ phase' = "load" /\ choice' = "Home"
  /\ shown' = shown \cup {"promptWindow"} /\ Disable
  /\ UNCHANGED <<modal, question, mode, saveOff, editing, moving, hidden, unsaved, exiting>>

\* The wait for the network is bounded, the request has its own end (Browse).
LoadEnds ==
  /\ At("Browse", "load")
  /\ phase' = "slide" /\ moving' = TRUE
  /\ UNCHANGED <<menu, choice, modal, question, screen, editing, hidden, unsaved, exiting>>

\* Cancelled or exiting; a file to download, with its prompts; a failure,
\* searched for once and then told; a page.
LoadResult ==
  /\ At("Browse", "slide") /\ (~moving \/ exiting)
  /\ \/ /\ shown' = shown \ {"promptWindow"} /\ Enable
        /\ phase' \in {"enter"} \cup IF exiting THEN {} ELSE {"next"}
        /\ UNCHANGED <<modal, question, mode>>
     \/ /\ ~exiting
        /\ shown' = (shown \ {"promptWindow"}) \cup {"prompt"}
        /\ modal' = "prompt" /\ question' = "other" /\ Disable
        /\ phase' = "enter" /\ UNCHANGED <<mode, saveOff>>
     \/ /\ ~exiting
        /\ shown' = (shown \ {"promptWindow"}) \cup {"childWindow"}
        /\ Disable /\ UNCHANGED saveOff
        /\ phase' = "page" /\ UNCHANGED <<modal, question, mode>>
  /\ UNCHANGED <<menu, choice, editing, moving, hidden, unsaved, exiting>>

\* DisplayHTML and its handlers: the bar comes and goes, a form takes the
\* place of the page, and any of them may ask something.
ShowBar ==
  /\ At("Browse", "page") /\ hidden /\ ~exiting
  /\ hidden' = FALSE /\ shown' = shown \cup {"Toolbar"}
  /\ UNCHANGED <<menu, phase, choice, modal, question, off, clicked, mode, saveOff, editing, moving, unsaved, exiting>>

\* hideBar waits for the animation whether an exit was asked for or not.
HideBar(p) ==
  /\ phase' = p /\ moving' = TRUE
  /\ UNCHANGED <<menu, choice, modal, question, screen, editing, hidden, unsaved, exiting>>

BarHides == At("Browse", "page") /\ ~hidden /\ ~exiting /\ HideBar("bar leaves")

BarGone ==
  /\ phase \in {"bar leaves", "page ends"} /\ ~hidden /\ ~moving
  /\ hidden' = TRUE /\ shown' = shown \ {"Toolbar"}
  /\ phase' = IF phase = "bar leaves" THEN "page" ELSE phase
  /\ UNCHANGED <<menu, choice, modal, question, off, clicked, mode, saveOff, editing, moving, unsaved, exiting>>

PageAsks ==
  /\ menu = "Browse" /\ phase \in {"page", "form"} /\ modal = "none" /\ ~exiting
  /\ \/ WindowPrompt("other")
     \/ phase = "form" /\ OnScreenKeyboard
  /\ UNCHANGED <<menu, phase, choice, editing, moving, hidden, unsaved, exiting>>

OpenForm ==
  /\ At("Browse", "page") /\ ~exiting /\ phase' = "form"
  /\ shown' = (shown \ {"childWindow"}) \cup {"Form"}
  /\ UNCHANGED <<menu, choice, modal, question, off, clicked, mode, saveOff, editing, moving, hidden, unsaved, exiting>>

\* Sent, left with B, or an exit.
FormEnds ==
  /\ At("Browse", "form") /\ phase' = "page"
  /\ shown' = (shown \ {"Form"}) \cup {"childWindow"}
  /\ UNCHANGED <<menu, choice, modal, question, off, clicked, mode, saveOff, editing, moving, hidden, unsaved, exiting>>

\* A link, the bar or an exit; the bar that is still out goes first.
PageEnds == At("Browse", "page") /\ HideBar("page ends")

LeavePage ==
  /\ At("Browse", "page ends") /\ hidden
  /\ shown' = shown \ {"childWindow"} /\ Enable
  /\ phase' \in {"enter", "next"}
  /\ UNCHANGED <<menu, choice, modal, question, mode, editing, moving, hidden, unsaved, exiting>>

\* A link to follow, and an exit: App_Exiting() at jump.
Abandon ==
  /\ At("Browse", "next") /\ exiting /\ phase' = "enter"
  /\ UNCHANGED <<menu, choice, modal, question, screen, editing, moving, hidden, unsaved, exiting>>

-----------------------------------------------------------------------------
User ==
  \/ RequestExit
  \/ \E b \in UNION {Buttons(w) : w \in shown} : Click(b)
  \/ Answer
  \/ PageAsks \/ ShowBar \/ BarHides
  \/ OpenForm \/ FormEnds
  \/ PageEnds

MenuThread ==
  \/ CloseModal
  \/ /\ modal = "none"
     /\ \/ EnterSplash \/ EnterHome \/ EnterTopSites \/ EnterFavorites \/ EnterSettings \/ EnterAdvanced
        \/ Done
        \/ ExitLoop
        \/ SplashEnds
        \/ HomeIteration \/ HomeExits
        \/ TopSitesIteration
        \/ FavoritesInPlace \/ FavoritesIteration
        \/ Option("Settings") \/ Option("Developer")
        \/ AdvancedText
        \/ SettingsEnds
        \/ AdvancedEnds
        \/ FadeEnds
        \/ SecondFadeEnds
        \/ BeginLoad
        \/ LoadEnds
        \/ LoadResult
        \/ BarGone
        \/ LeavePage
        \/ Abandon

Next == User \/ Frame \/ MenuThread

AnsweredAtExit == exiting /\ (Answer \/ FormEnds \/ PageEnds)

\* The GUI thread draws until it is stopped, after the menus (Shutdown); the
\* menu thread runs on.  The user need not do anything: what waits for an
\* answer goes on by itself only once an exit was asked for.
Fairness ==
  /\ WF_vars(Frame)
  /\ WF_vars(MenuThread)
  /\ WF_vars(AnsweredAtExit)

Spec == Init /\ [][Next]_vars /\ Fairness

-----------------------------------------------------------------------------
(* Properties.                                                             *)

\* Whichever way a menu was reached, it finds mainWindow enabled and shows
\* its own widgets and no others; no widget outlives the function that holds
\* it; and the Save button is clicked in Top Sites only to add a site, which
\* editing allows (menu.cpp:1826-1950, 2240-2410, 2463-2715).
Layout(m) ==
  StackOf(m) \cup
  CASE m = "Home" -> {"App", "Right", "Splash"}
    [] m = "TopSites" -> {"App", "Left", "Right"}
    [] m = "Favorites" -> {"Left"}
    [] OTHER -> {}

ScreenFitsMenu ==
  /\ phase = "loop" /\ modal = "none" => shown = Layout(menu) /\ ~off
  /\ phase = "loop" /\ modal # "none" => Layout(menu) \subseteq shown /\ off
  /\ \A m \in {"Splash", "Home", "TopSites", "Favorites", "Settings", "Developer", "Browse"} :
       shown \cap StackOf(m) # {} => menu = m /\ phase \notin {"enter", "fade again"}
  /\ shown \cap {"prompt", "keyboard"} # {} => modal # "none"
  /\ At("TopSites", "loop") /\ "btnSave" \in clicked => editing

\* A changed setting is saved, or the user is told that it was not, before
\* another menu opens; an exit saves them all (menu.cpp:1443-1449, 1644-1645).
ChangesSavedOrTold == unsaved => menu \in {"Settings", "Developer"} \/ exiting

\* An exit asked for at any instruction, in any menu, prompt, keyboard,
\* animation, load, form or bar, ends the menus; and no animation holds the
\* next menu up (menu.cpp:2833-2870, handle.cpp:615-628).
Leaving == exiting
Left == menu = "Done"
Fading == phase \in {"entering", "fade", "fade again", "slide"}
Faded == phase \in {"loop", "load", "page"} \/ modal # "none" \/ Left
MenusEnd == (Leaving ~> Left) /\ (Fading ~> Faded)
=============================================================================
