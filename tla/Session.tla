------------------------------ MODULE Session ------------------------------
(***************************************************************************)
(* What one run of the browser leaves for the next: the settings file with *)
(* its RestoreSession and CleanExit lines, and the history file            *)
(* (src/core/main.cpp, settings.cpp, liste.cpp, src/ui/menu.cpp).  A save  *)
(* of either file is writeRecoverable, taken from RecoverableFile as one   *)
(* step with its possible outcomes.                                        *)
(***************************************************************************)
EXTENDS Naturals, Sequences, SequencesExt

CONSTANTS
  Urls,     \* pages the user visits
  MaxList,  \* entries InsUrl keeps: 128
  Faults    \* whether a save may fail

ASSUME ListAssumption == MaxList \in Nat \ {0} /\ Faults \in BOOLEAN

\* A file on the volume, by what its next reader and its next writer find:
\* no file, the live file, a stale .new that blocks every later save beside
\* it, or no live file because a save stopped before its last rename.
States == {"absent", "live", "blocked", "interrupted"}
Lists == UNION {[1..n -> Urls] : n \in 0..MaxList}
Values == [restore : BOOLEAN, clean : BOOLEAN]
Default == [restore |-> TRUE, clean |-> TRUE]

VARIABLES
  config,   \* wiibrowser.cfg
  past,     \* appdata/history.txt
  pc,       \* "off", "loaded" (settings), "ready" (session), "menu",
            \* "dump" (page visited), "exiting" (settings saved)
  settings, configWritable,      \* the Settings object
  history, at, historyWritable,  \* the list, its current entry, may it be dumped
  private,  \* whether the session began without the old history
  lastEnd,  \* how the last run ended: "none", "clean", "crash", or "visit"
            \* for a crash before a visited page was dumped
  previous, \* the history when the last session ended
  kept,     \* whether that history had been dumped
  failed    \* whether a save of the settings failed in the current or last run

files == <<config, past>>
memory == <<settings, configWritable, history, at, historyWritable>>
ghosts == <<private, lastEnd, previous, kept, failed>>
vars == <<files, pc, memory, ghosts>>

TypeOK ==
  /\ config \in [state : States, value : Values]
  /\ past \in [state : States, value : Lists]
  /\ pc \in {"off", "loaded", "ready", "menu", "dump", "exiting"}
  /\ settings \in Values
  /\ history \in Lists /\ at \in 0..Len(history)
  /\ (history # <<>> => at > 0)
  /\ configWritable \in BOOLEAN /\ historyWritable \in BOOLEAN
  /\ lastEnd \in {"none", "clean", "crash", "visit"}
  /\ previous \in Lists
  /\ private \in BOOLEAN /\ kept \in BOOLEAN /\ failed \in BOOLEAN

-----------------------------------------------------------------------------
(* Files.                                                                  *)

\* writeRecoverable(file, v) leaves g and returns ok.
Write(file, v, g, ok) ==
  \/ /\ file.state \in {"absent", "live"}
     /\ \/ ok /\ g = [state |-> "live", value |-> v]
        \/ /\ Faults /\ ~ok
           /\ g \in {file, [file EXCEPT !.state = "blocked"],
                     [state |-> "interrupted", value |-> v]}
  \/ file.state \in {"blocked", "interrupted"} /\ ~ok /\ g = file

\* SSettings::Save of s; before: a save had failed already.
Save(s, before) ==
  \/ /\ configWritable
     /\ \E ok \in BOOLEAN, g \in [state : States, value : Values] :
          /\ Write(config, s, g, ok)
          /\ config' = g
          /\ failed' = (before \/ ~ok)
  \/ ~configWritable /\ failed' = TRUE /\ UNCHANGED config

DumpTo(list) ==
  \E ok \in BOOLEAN, g \in [state : States, value : Lists] :
    /\ Write(past, list, g, ok)
    /\ past' = g
    /\ kept' = ok

\* Mutant: the history is dumped without asking who loaded it.
DumpList_Unasked ==
  \/ configWritable /\ DumpTo(history)
  \/ ~configWritable /\ UNCHANGED <<past, kept>>

\* Mutant: the list is written up to its current entry only.
DumpList_UpToCurrent ==
  \/ configWritable /\ historyWritable /\ DumpTo(SubSeq(history, 1, at))
  \/ ~(configWritable /\ historyWritable) /\ UNCHANGED <<past, kept>>

\* DumpList: the whole list, whatever its current entry.
DumpList ==
  \/ configWritable /\ historyWritable /\ DumpTo(history)
  \/ ~(configWritable /\ historyWritable) /\ UNCHANGED <<past, kept>>

-----------------------------------------------------------------------------
Init ==
  /\ config = [state |-> "absent", value |-> Default]
  /\ past = [state |-> "absent", value |-> <<>>]
  /\ pc = "off"
  /\ settings = Default /\ configWritable = FALSE
  /\ history = <<>> /\ at = 0 /\ historyWritable = FALSE
  /\ private = FALSE
  /\ lastEnd = "none" /\ previous = <<>> /\ kept = TRUE /\ failed = FALSE

\* main: Settings.Load.  A recovered file is read-only.
Load ==
  /\ pc = "off"
  /\ settings' = config.value
  /\ configWritable' = (config.state # "interrupted")
  /\ pc' = "loaded"
  /\ UNCHANGED <<files, history, at, historyWritable, ghosts>>

\* The memory of a program that ends.
Forget ==
  /\ settings' = Default /\ configWritable' = FALSE
  /\ history' = <<>> /\ at' = 0 /\ historyWritable' = FALSE
  /\ pc' = "off"

\* ExitApp before Init reached the session: the settings are saved, the
\* history is not.
AbortStart ==
  /\ pc = "loaded"
  /\ Save([settings EXCEPT !.clean = TRUE], FALSE)
  /\ Forget
  /\ lastEnd' = "clean"
  /\ UNCHANGED <<past, private, previous, kept>>

\* Mutant: the flag in the file is not cleared while the session runs.
NewSession_KeepsFlag ==
  /\ pc = "loaded" /\ ~settings.restore /\ settings.clean
  /\ private' = TRUE /\ kept' = FALSE /\ failed' = FALSE
  /\ pc' = "ready"
  /\ UNCHANGED <<files, memory, lastEnd, previous>>

\* Init: Save(0) and DeleteSession after a clean exit, when the user wants
\* no restoring.  LoadList was never called: the history is not writable.
NewSession ==
  /\ pc = "loaded" /\ ~settings.restore /\ settings.clean
  /\ Save([settings EXCEPT !.clean = FALSE], FALSE)
  /\ private' = TRUE /\ kept' = FALSE
  /\ pc' = "ready"
  /\ UNCHANGED <<past, memory, lastEnd, previous>>

\* Init: LoadSession.  LoadList looks at the live file alone; with none it
\* starts an empty list it may write.
LoadSession ==
  /\ pc = "loaded" /\ (settings.restore \/ ~settings.clean)
  /\ history' = IF past.state = "interrupted" THEN <<>> ELSE past.value
  /\ at' = Len(history')
  /\ historyWritable' = TRUE
  /\ private' = FALSE /\ kept' = TRUE /\ failed' = FALSE
  /\ pc' = "ready"
  /\ UNCHANGED <<files, settings, configWritable, lastEnd, previous>>

\* MenuBrowse: InsUrl drops what lay ahead and, beyond MaxList, the oldest.
Visit(u) ==
  /\ pc \in {"ready", "menu"}
  /\ IF history # <<>> /\ history[at] = u
       THEN pc' = "menu" /\ UNCHANGED <<history, at, kept>>
       ELSE LET longer == Append(SubSeq(history, 1, at), u) IN
            /\ history' = IF Len(longer) > MaxList THEN Tail(longer) ELSE longer
            /\ at' = Len(history')
            /\ kept' = FALSE
            /\ pc' = "dump"
  /\ UNCHANGED <<files, settings, configWritable, historyWritable, private, lastEnd,
                 previous, failed>>

Dump ==
  /\ pc = "dump"
  /\ DumpList
  /\ pc' = "menu"
  /\ UNCHANGED <<config, memory, private, lastEnd, previous, failed>>

\* The back and forward buttons.
Walk ==
  /\ pc \in {"ready", "menu"}
  /\ at' \in {at - 1, at + 1} \cap 1..Len(history)
  /\ pc' = "menu"
  /\ UNCHANGED <<files, settings, configWritable, history, historyWritable, ghosts>>

\* MenuSettings: "Restore Session" is toggled and the settings are saved.
ToggleRestore ==
  /\ pc \in {"ready", "menu"}
  /\ settings' = [settings EXCEPT !.restore = ~@]
  /\ Save([restore |-> ~settings.restore, clean |-> FALSE], failed)
  /\ pc' = "menu"
  /\ UNCHANGED <<past, configWritable, history, at, historyWritable, private, lastEnd,
                 previous, kept>>

\* ExitApp: the settings, then the history, then the memory.
ExitSave ==
  /\ pc \in {"ready", "menu"}
  /\ Save([settings EXCEPT !.clean = TRUE], failed)
  /\ pc' = "exiting"
  /\ UNCHANGED <<past, memory, private, lastEnd, previous, kept>>

ExitDump ==
  /\ pc = "exiting"
  /\ DumpList
  /\ Forget
  /\ lastEnd' = "clean" /\ previous' = history
  /\ UNCHANGED <<config, private, failed>>

\* Power is lost.  A run that had not reached its session leaves the last
\* one as it was.
Crash ==
  /\ pc # "off"
  /\ Forget
  /\ lastEnd' = CASE pc = "loaded"  -> lastEnd
                  [] pc = "exiting" -> "clean"
                  [] pc = "dump"    -> "visit"
                  [] OTHER          -> "crash"
  /\ previous' = IF pc = "loaded" THEN previous ELSE history
  /\ UNCHANGED <<files, private, kept, failed>>

Next ==
  \/ Load \/ AbortStart \/ NewSession \/ LoadSession
  \/ (\E u \in Urls : Visit(u)) \/ Dump \/ Walk \/ ToggleRestore
  \/ ExitSave \/ ExitDump \/ Crash

Spec == Init /\ [][Next]_vars

-----------------------------------------------------------------------------
Begins == pc = "loaded" /\ pc' = "ready"

\* A history is only thrown away after a run that ended well, and "The app
\* didn't close correctly" is only said after one that did not: whatever the
\* user toggled and wherever a session crashed, Init's Save(0) and the one
\* of the settings menu have told the next start, unless a save failed.
CleanExitTellsTruth ==
  [][Begins => /\ private' => lastEnd \notin {"crash", "visit"} \/ failed
               /\ ~settings.clean => lastEnd \in {"crash", "visit"} \/ failed]_vars

\* A session that began without the old history never writes the file: the
\* history of the last restored session stays as it is.
NewSessionLeavesNoTrace == [][private /\ pc \notin {"off", "loaded"} => UNCHANGED past]_vars

\* A start that restores finds the whole list of the last session, with what
\* lay ahead of its current entry, if that session had dumped it.
RestoredIsPrevious == [][Begins /\ ~private' /\ kept => history' = previous]_vars

\* What MainMenu tells the user: "The app didn't close correctly, the
\* previous session has been automatically restored".
PromptTellsTruth ==
  [][Begins /\ ~settings.clean /\ lastEnd = "crash" => history' = previous]_vars
=============================================================================
