--------------------------- MODULE Session_proofs ---------------------------
(***************************************************************************)
(* What a start finds of the last session, for any addresses, any length   *)
(* of the history and with or without failing saves.  Each step says what  *)
(* two starts owe each other; the invariants carry it through the run that *)
(* lies between.                                                           *)
(***************************************************************************)
EXTENDS Session, TLAPS

\* How the last run ended, if not well.
Badly == lastEnd \in {"crash", "visit"}

\* What LoadList makes of the file.
Found == IF past.state = "interrupted" THEN <<>> ELSE past.value

Running == pc \in {"ready", "menu", "dump", "exiting"}

\* The settings file and the history file, between starts and within a run.
\* The file of a running session says that it did not end, unless its user
\* restores always, and says so again before its end is final.
FlagInv ==
  /\ settings \in Values /\ config.value \in Values
  /\ config = [state |-> config.state, value |-> config.value]
  /\ failed \in BOOLEAN
  /\ pc \in {"off", "loaded"} \/ Running
  /\ pc = "loaded" => settings = config.value
  /\ ~failed =>
       /\ pc \in {"off", "loaded"} =>
            /\ config.value.clean /\ ~config.value.restore => ~Badly
            /\ ~config.value.clean => Badly
       /\ pc \in {"ready", "menu", "dump"} => config.value.restore \/ ~config.value.clean
       /\ pc = "exiting" => config.value.clean

\* Only LoadList makes the history writable.
TraceInv ==
  /\ pc \in {"off", "loaded"} \/ Running
  /\ pc \in {"off", "loaded"} => ~historyWritable
  /\ Running /\ private => ~historyWritable

\* A history that was dumped is the one the next LoadList finds.
KeptInv ==
  /\ pc \in {"off", "loaded"} \/ Running
  /\ kept \in BOOLEAN
  /\ pc = "dump" => ~kept
  /\ kept => Found = IF Running THEN history ELSE previous

-----------------------------------------------------------------------------
LEMMA TraceStep == TraceInv /\ [Next]_vars => TraceInv'
<1> SUFFICES ASSUME TraceInv, [Next]_vars PROVE TraceInv'
  OBVIOUS
<1> USE DEF TraceInv, Running
<1>1. CASE Load
  BY <1>1 DEF Load, ghosts
<1>6. CASE NewSession
  BY <1>6 DEF NewSession, memory
<1>7. CASE LoadSession
  BY <1>7 DEF LoadSession
<1>2. CASE AbortStart \/ ExitDump \/ Crash
  BY <1>2 DEF AbortStart, ExitDump, Crash, Forget
<1>3. ASSUME NEW u \in Urls, Visit(u) PROVE TraceInv'
  BY <1>3 DEF Visit
<1>4. CASE Dump \/ Walk \/ ToggleRestore \/ ExitSave
  BY <1>4 DEF Dump, Walk, ToggleRestore, ExitSave, memory, ghosts
<1>5. CASE UNCHANGED vars
  BY <1>5 DEF vars, memory, ghosts
<1> QED BY <1>1, <1>2, <1>3, <1>4, <1>5, <1>6, <1>7 DEF Next

\* A session that began without the old history never writes its file.
THEOREM PrivateStaysPrivate == Spec => NewSessionLeavesNoTrace
<1>1. Init => TraceInv
  BY DEF Init, TraceInv, Running
<1>2. TraceInv /\ [Next]_vars => (private /\ pc \notin {"off", "loaded"} => UNCHANGED past)
  <2> SUFFICES ASSUME TraceInv, [Next]_vars, private, Running PROVE UNCHANGED past
    BY DEF TraceInv
  <2> USE DEF TraceInv, Running
  <2>1. CASE Load \/ NewSession \/ LoadSession \/ AbortStart
    BY <2>1 DEF Load, NewSession, LoadSession, AbortStart
  <2>2. ASSUME NEW u \in Urls, Visit(u) PROVE UNCHANGED past
    BY <2>2 DEF Visit, files
  <2>3. CASE Dump \/ ExitDump
    BY <2>3 DEF Dump, ExitDump, DumpList
  <2>4. CASE Walk \/ ToggleRestore \/ ExitSave \/ Crash
    BY <2>4 DEF Walk, ToggleRestore, ExitSave, Crash, files
  <2>5. CASE UNCHANGED vars
    BY <2>5 DEF vars, files
  <2> QED BY <2>1, <2>2, <2>3, <2>4, <2>5 DEF Next
<1> QED BY <1>1, <1>2, TraceStep, PTL DEF Spec, NewSessionLeavesNoTrace

-----------------------------------------------------------------------------
\* A dump that answers "true" left the list it was given.
LEMMA Dumped ==
  ASSUME KeptInv, DumpList
  PROVE  /\ kept' \in BOOLEAN
         /\ kept' => \/ past' = [state |-> "live", value |-> history]
                     \/ kept /\ past' = past
  BY DEF KeptInv, DumpList, DumpTo, Write

LEMMA KeptStep == KeptInv /\ [Next]_vars => KeptInv'
<1> SUFFICES ASSUME KeptInv, [Next]_vars PROVE KeptInv'
  OBVIOUS
<1> USE DEF KeptInv, Running, Found
<1>1. CASE Load
  BY <1>1 DEF Load, files, ghosts
<1>11. CASE AbortStart
  BY <1>11 DEF AbortStart, Forget
<1>2. CASE NewSession
  BY <1>2 DEF NewSession
<1>3. CASE LoadSession
  BY <1>3 DEF LoadSession, files
<1>4. ASSUME NEW u \in Urls, Visit(u) PROVE KeptInv'
  BY <1>4 DEF Visit, files
<1>5. CASE Dump
  BY <1>5, Dumped DEF Dump, memory
<1>6. CASE Walk
  BY <1>6 DEF Walk, files, ghosts
<1>7. CASE ToggleRestore \/ ExitSave
  BY <1>7 DEF ToggleRestore, ExitSave, memory
<1>8. CASE ExitDump
  BY <1>8, Dumped DEF ExitDump, Forget
<1>9. CASE Crash
  BY <1>9 DEF Crash, Forget, files
<1>10. CASE UNCHANGED vars
  BY <1>10 DEF vars, files, memory, ghosts
<1> QED BY <1>1, <1>2, <1>3, <1>4, <1>5, <1>6, <1>7, <1>8, <1>9, <1>10, <1>11 DEF Next

\* A start that restores finds the whole list of the last session, if that
\* session had dumped it.
THEOREM RestoresTheLast == Spec => RestoredIsPrevious
<1>1. Init => KeptInv
  BY DEF Init, KeptInv, Running, Found
<1>2. KeptInv /\ [Next]_vars => (Begins /\ ~private' /\ kept => history' = previous)
  <2> SUFFICES ASSUME KeptInv, [Next]_vars, Begins, ~private', kept PROVE history' = previous
    OBVIOUS
  <2>1. LoadSession
    BY DEF Next, Begins, Load, AbortStart, NewSession, Visit, Dump, Walk, ToggleRestore, ExitSave,
           ExitDump, Crash, Forget, vars
  <2> QED BY <2>1 DEF LoadSession, KeptInv, Found, Running, Begins
<1> QED BY <1>1, <1>2, KeptStep, PTL DEF Spec, RestoredIsPrevious

-----------------------------------------------------------------------------
\* What a save of the settings leaves, and what it remembers of its failure.
LEMMA Saved ==
  ASSUME FlagInv, NEW s \in Values, NEW before \in BOOLEAN, Save(s, before)
  PROVE  /\ config'.value \in Values
         /\ config' = [state |-> config'.state, value |-> config'.value]
         /\ failed' \in BOOLEAN
         /\ before => failed'
         /\ ~failed' => config'.value = s
<1>1. CASE ~configWritable
  BY <1>1 DEF Save, FlagInv
<1>2. ASSUME NEW ok \in BOOLEAN, NEW g \in [state : States, value : Values],
             Write(config, s, g, ok), config' = g, failed' = (before \/ ~ok)
      PROVE  /\ config'.value \in Values
             /\ config' = [state |-> config'.state, value |-> config'.value]
             /\ failed' \in BOOLEAN
             /\ before => failed'
             /\ ~failed' => config'.value = s
  <2>1. g.value \in Values /\ g = [state |-> g.state, value |-> g.value]
    OBVIOUS
  <2>2. ok => g.value = s
    BY <1>2 DEF Write
  <2> QED BY <1>2, <2>1, <2>2
<1> QED BY <1>1, <1>2 DEF Save

LEMMA FlagStep == FlagInv /\ [Next]_vars => FlagInv'
<1> SUFFICES ASSUME FlagInv, [Next]_vars PROVE FlagInv'
  OBVIOUS
<1> USE DEF FlagInv, Running, Badly
<1>d. Default \in Values /\ settings \in Values
  BY DEF Default, Values
<1>s. /\ [settings EXCEPT !.clean = TRUE] \in Values
      /\ [settings EXCEPT !.clean = TRUE].clean
      /\ [settings EXCEPT !.clean = FALSE] \in Values
      /\ ~[settings EXCEPT !.clean = FALSE].clean
      /\ [settings EXCEPT !.restore = ~@] \in Values
      /\ [restore |-> ~settings.restore, clean |-> FALSE] \in Values
  BY <1>d DEF Values
<1>1. CASE Load
  BY <1>1 DEF Load, files, ghosts
<1>2. CASE AbortStart
  <2> /\ Save([settings EXCEPT !.clean = TRUE], FALSE) /\ Forget
      /\ pc' = "off" /\ lastEnd' = "clean"
    BY <1>2 DEF AbortStart, Forget
  <2> QED BY <1>d, <1>s, Saved DEF Forget
<1>3. CASE NewSession
  <2> Save([settings EXCEPT !.clean = FALSE], FALSE) /\ pc' = "ready" /\ settings' = settings
    BY <1>3 DEF NewSession, memory
  <2> QED BY <1>d, <1>s, Saved
<1>4. CASE LoadSession
  BY <1>4 DEF LoadSession, files
<1>5. ASSUME NEW u \in Urls, Visit(u) PROVE FlagInv'
  BY <1>5 DEF Visit, files
<1>6. CASE Dump \/ Walk
  BY <1>6 DEF Dump, Walk, memory, files, ghosts
<1>7. CASE ToggleRestore
  <2> /\ Save([restore |-> ~settings.restore, clean |-> FALSE], failed)
      /\ settings' = [settings EXCEPT !.restore = ~@] /\ pc' = "menu"
    BY <1>7 DEF ToggleRestore
  <2> QED BY <1>d, <1>s, Saved
<1>8. CASE ExitSave
  <2> /\ Save([settings EXCEPT !.clean = TRUE], failed)
      /\ settings' = settings /\ pc' = "exiting"
    BY <1>8 DEF ExitSave, memory
  <2> QED BY <1>d, <1>s, Saved
<1>9. CASE ExitDump \/ Crash
  BY <1>9, <1>d DEF ExitDump, Crash, Forget, files
<1>10. CASE UNCHANGED vars
  BY <1>10 DEF vars, files, memory, ghosts
<1> QED BY <1>1, <1>2, <1>3, <1>4, <1>5, <1>6, <1>7, <1>8, <1>9, <1>10 DEF Next

\* What a start does with the last history and what it says of the last exit
\* fit how the last run ended, unless a save of the settings failed.
THEOREM TruthOfTheFlag == Spec => CleanExitTellsTruth
<1>1. Init => FlagInv
  <2>1. Default \in Values /\ Default.clean
    BY DEF Default, Values
  <2> SUFFICES ASSUME Init PROVE FlagInv
    OBVIOUS
  <2>2. config = [state |-> config.state, value |-> config.value] /\ config.value = Default
    BY DEF Init
  <2> QED BY <2>1, <2>2 DEF Init, FlagInv, Badly
<1>2. FlagInv /\ [Next]_vars =>
        (Begins => /\ private' => lastEnd \notin {"crash", "visit"} \/ failed
                   /\ ~settings.clean => lastEnd \in {"crash", "visit"} \/ failed)
  <2> SUFFICES ASSUME FlagInv, [Next]_vars, Begins
               PROVE  /\ private' => lastEnd \notin {"crash", "visit"} \/ failed
                      /\ ~settings.clean => lastEnd \in {"crash", "visit"} \/ failed
    OBVIOUS
  <2>1. NewSession \/ LoadSession
    BY DEF Next, Begins, Load, AbortStart, Visit, Dump, Walk, ToggleRestore, ExitSave,
           ExitDump, Crash, Forget, vars
  <2> QED BY <2>1 DEF NewSession, LoadSession, FlagInv, Badly, Begins
<1> QED BY <1>1, <1>2, FlagStep, PTL DEF Spec, CleanExitTellsTruth

-----------------------------------------------------------------------------
(* What a save and a start are to the generations of a file: Write, Load   *)
(* and LoadList against RecoverableFile, whose calls they stand for.       *)

CONSTANTS
  Loader, MaxGen,
  Content          \* generation -> what it says; 0 is what there is without a file
VARIABLES disk, call, staged, acked, running, view, writable, before

Volume == INSTANCE RecoverableFile_proofs WITH pc <- call

\* The file that three names make.  A part of a first file is taken for the
\* generation it is of.
FileOf(d) ==
  LET none == d["live"] = Volume!None
      recovers == none /\ d["new"].kind \in {"torn", "whole"}
      pending == d["new"] # Volume!None IN
  [state |-> IF recovers THEN "interrupted" ELSE IF pending THEN "blocked" ELSE IF none THEN "absent" ELSE "live",
   value |-> Content[IF recovers THEN d["new"].gen ELSE d["live"].gen]]

\* Each way of a save to end is one that Write allows, with its answer.
LEMMA LeavesIsWrite ==
  ASSUME Faults = TRUE, NEW d, NEW e, NEW v \in Nat, NEW ok \in BOOLEAN, Volume!Leaves(d, v, e, ok)
  PROVE  Write(FileOf(d), Content[v], FileOf(e), ok)
<1>1. d["new"] = Volume!None
  BY DEF Volume!Leaves
<1>2. FileOf(d) = [state |-> IF d["live"] = Volume!None THEN "absent" ELSE "live", value |-> Content[d["live"].gen]]
  BY <1>1 DEF FileOf, Volume!None
<1>3. FileOf(d).state \in {"absent", "live"}
  BY <1>2
<1>4. CASE ok /\ e["live"] = Volume!Whole(v) /\ e["new"] = Volume!None
  <2>1. FileOf(e) = [state |-> "live", value |-> Content[v]]
    BY <1>4 DEF FileOf, Volume!None, Volume!Whole
  <2> QED BY <1>3, <1>4, <2>1 DEF Write
<1>5. CASE ~ok /\ e = d
  BY <1>3, <1>5 DEF Write
<1>6. CASE ~ok /\ e["live"] = d["live"] /\ e["new"] \in {Volume!Stub(v), Volume!Torn(v), Volume!Whole(v)}
  <2>1. e["new"] # Volume!None /\ e["new"].gen = v
        /\ (e["new"].kind \in {"torn", "whole"} <=> e["new"] # Volume!Stub(v))
    BY <1>6 DEF Volume!None, Volume!Stub, Volume!Torn, Volume!Whole
  <2>2. CASE d["live"] = Volume!None /\ e["new"] # Volume!Stub(v)
    <3>1. FileOf(e) = [state |-> "interrupted", value |-> Content[v]]
      BY <1>6, <2>1, <2>2 DEF FileOf
    <3> QED BY <1>3, <1>6, <3>1 DEF Write
  <2>3. CASE d["live"] # Volume!None \/ e["new"] = Volume!Stub(v)
    <3>1. FileOf(e) = [FileOf(d) EXCEPT !.state = "blocked"]
      BY <1>2, <1>6, <2>1, <2>3 DEF FileOf
    <3> QED BY <1>3, <1>6, <3>1 DEF Write
  <2> QED BY <2>2, <2>3
<1>7. CASE ~ok /\ Volume!IsWhole(d["live"]) /\ e["new"] = Volume!Whole(v) /\ e["live"] = Volume!None
  <2>1. FileOf(e) = [state |-> "interrupted", value |-> Content[v]]
    BY <1>7 DEF FileOf, Volume!None, Volume!Whole
  <2> QED BY <1>3, <1>7, <2>1 DEF Write
<1> QED BY <1>4, <1>5, <1>6, <1>7, Zenon DEF Volume!Leaves

\* A save of a file, call by call and with whatever fails, is the one step
\* that Session takes for it (file_io.cpp:63-89).
THEOREM SaveIsWrite ==
  ASSUME Loader \in {"settings", "bookmarks", "history"}, MaxGen \in Nat \ {0}, Faults = TRUE
  PROVE  Volume!WatchedSpec
           => [][Volume!SaveEnds => Write(FileOf(before), Content[staged], FileOf(disk'), acked' # acked)]_<<Volume!vars, before>>
<1>1. Volume!WatchedSpec => [][Volume!SaveEnds => Volume!Leaves(before, staged, disk', acked' # acked)]_<<Volume!vars, before>>
  BY Volume!SavesAreOneStep
<1>2. Volume!WatchedSpec => []Volume!IndInv
  BY Volume!Watching
<1>3. Volume!IndInv => staged \in Nat
  BY DEF Volume!IndInv, Volume!TypeOK
<1>4. staged \in Nat /\ [Volume!SaveEnds => Volume!Leaves(before, staged, disk', acked' # acked)]_<<Volume!vars, before>>
        => [Volume!SaveEnds => Write(FileOf(before), Content[staged], FileOf(disk'), acked' # acked)]_<<Volume!vars, before>>
  BY LeavesIsWrite
<1> QED BY <1>1, <1>2, <1>3, <1>4, PTL

\* What a start reads that can read the whole volume.
StartReads ==
  LET f == FileOf(disk)
      read == Content[Volume!Loaded(disk, {}).gen] IN
  disk["live"] # Volume!Folder =>
    /\ Loader = "settings" => read = f.value /\ (Volume!MayWrite(disk, {}) <=> f.state # "interrupted")
    /\ Loader = "history" =>
         /\ read = IF f.state = "interrupted" THEN Content[0] ELSE f.value
         /\ Volume!MayWrite(disk, {})

\* The generation a start finds, if the live name is no folder.
LEMMA FoundByStart ==
  ASSUME Volume!IndInv, disk["live"] # Volume!Folder, NEW recovers, recovers = (FileOf(disk).state = "interrupted")
  PROVE  /\ Volume!FoundSettings(disk, {}) =
              IF disk["live"] # Volume!None THEN {"live"} ELSE IF recovers THEN {"new"} ELSE {}
         /\ Volume!FoundList(disk, {}) = IF disk["live"] # Volume!None THEN {"live"} ELSE {}
         /\ disk["live"] = Volume!None \/ Volume!IsWhole(disk["live"])
         /\ recovers => disk["live"] = Volume!None
         /\ FileOf(disk).value = Content[IF recovers THEN disk["new"].gen ELSE disk["live"].gen]
<1>1. disk["live"] = Volume!None \/ Volume!IsWhole(disk["live"])
  BY DEF Volume!IndInv, Volume!LiveShape, Volume!Whole, Volume!IsWhole
<1>2. recovers <=> disk["live"] = Volume!None /\ disk["new"].kind \in {"torn", "whole"}
  BY DEF FileOf
<1>3. FileOf(disk).value = Content[IF recovers THEN disk["new"].gen ELSE disk["live"].gen]
  BY <1>2 DEF FileOf
<1>4. disk["bak"].kind \in {"torn", "whole"} => disk["live"] # Volume!None \/ recovers
  <2> SUFFICES ASSUME disk["bak"].kind \in {"torn", "whole"}, disk["live"] = Volume!None PROVE recovers
    OBVIOUS
  <2>1. Volume!IsWhole(disk["bak"]) /\ disk["bak"].gen \in 1..acked /\ acked \in Nat
    BY DEF Volume!IndInv, Volume!TypeOK, Volume!BackupShape, Volume!None, Volume!Folder
  <2>2. acked # 0 /\ ~Volume!IsWhole(disk["live"])
    BY <2>1 DEF Volume!IsWhole, Volume!None
  <2> QED BY <1>2, <2>2 DEF Volume!IndInv, Volume!LiveMissing, Volume!IsWhole
<1>5. Volume!FoundSettings(disk, {}) = IF disk["live"] # Volume!None THEN {"live"} ELSE IF recovers THEN {"new"} ELSE {}
  <2> DEFINE accepted == {n \in {"live", "new", "bak"} \ {} : disk[n].kind \in {"torn", "whole"}}
  <2>1. "live" \in accepted <=> disk["live"] # Volume!None
    BY <1>1 DEF Volume!None, Volume!IsWhole
  <2>2. disk["live"] = Volume!None => ("new" \in accepted <=> recovers)
    BY <1>2
  <2>3. "bak" \in accepted => disk["live"] # Volume!None \/ recovers
    BY <1>4
  <2>4. accepted \subseteq {"live", "new", "bak"}
    OBVIOUS
  <2>5. Volume!FoundSettings(disk, {}) = {n \in accepted : (n = "new" => "live" \notin accepted) /\ (n = "bak" => accepted = {"bak"})}
    BY DEF Volume!FoundSettings, Volume!FirstOf, Volume!Names
  <2> HIDE DEF accepted
  <2>6. CASE disk["live"] # Volume!None
    BY <2>1, <2>4, <2>5, <2>6
  <2>7. CASE disk["live"] = Volume!None
    BY <2>1, <2>2, <2>3, <2>4, <2>5, <2>7
  <2> QED BY <2>6, <2>7
<1>6. Volume!FoundList(disk, {}) = IF disk["live"] # Volume!None THEN {"live"} ELSE {}
  BY <1>1 DEF Volume!FoundList, Volume!IsRegular, Volume!IsWhole, Volume!None
<1> QED BY <1>1, <1>2, <1>3, <1>5, <1>6

\* A start reads of a volume without folders what Session's file holds, and
\* may save the settings unless they were recovered; the history is read from
\* its live name alone and may always be written (settings.cpp:160-190,
\* liste.cpp:205-226).
THEOREM LoadIsTheStart ==
  ASSUME Loader \in {"settings", "bookmarks", "history"}, MaxGen \in Nat \ {0}
  PROVE  Volume!Spec => []StartReads
<1> DEFINE f == FileOf(disk)
           recovers == f.state = "interrupted"
<1>1. ASSUME Volume!IndInv, disk["live"] # Volume!Folder, Loader = "settings"
      PROVE  Content[Volume!Loaded(disk, {}).gen] = f.value /\ (Volume!MayWrite(disk, {}) <=> f.state # "interrupted")
  <2>1. /\ Volume!Found(disk, {}) = IF disk["live"] # Volume!None THEN {"live"} ELSE IF recovers THEN {"new"} ELSE {}
        /\ disk["live"] = Volume!None \/ Volume!IsWhole(disk["live"])
        /\ recovers => disk["live"] = Volume!None
        /\ f.value = Content[IF recovers THEN disk["new"].gen ELSE disk["live"].gen]
    BY <1>1, FoundByStart DEF Volume!Found
  <2> HIDE DEF f, recovers
  <2>2. Volume!Loaded(disk, {}) = IF disk["live"] # Volume!None THEN disk["live"] ELSE IF recovers THEN disk["new"] ELSE Volume!None
    BY <2>1 DEF Volume!Loaded
  <2>3. Volume!MayWrite(disk, {}) <=> ~recovers
    BY <1>1, <2>1 DEF Volume!MayWrite, Volume!MayWriteSettings, Volume!Found, Volume!Exists, Volume!None
  <2> QED BY <2>1, <2>2, <2>3 DEF recovers
<1>2. ASSUME Volume!IndInv, disk["live"] # Volume!Folder, Loader = "history"
      PROVE  /\ Content[Volume!Loaded(disk, {}).gen] = IF f.state = "interrupted" THEN Content[0] ELSE f.value
             /\ Volume!MayWrite(disk, {})
  <2>1. /\ Volume!Found(disk, {}) = IF disk["live"] # Volume!None THEN {"live"} ELSE {}
        /\ disk["live"] = Volume!None \/ Volume!IsWhole(disk["live"])
        /\ recovers => disk["live"] = Volume!None
        /\ f.value = Content[IF recovers THEN disk["new"].gen ELSE disk["live"].gen]
    BY <1>2, FoundByStart DEF Volume!Found
  <2> HIDE DEF f, recovers
  <2>2. Volume!Loaded(disk, {}) = disk["live"] /\ Volume!None.gen = 0
    BY <2>1 DEF Volume!Loaded, Volume!None
  <2>3. Volume!MayWrite(disk, {})
    BY <1>2, <2>1 DEF Volume!MayWrite, Volume!MayWriteList, Volume!Found, Volume!Exists, Volume!None
  <2> QED BY <2>1, <2>2, <2>3 DEF recovers
<1>3. Volume!IndInv => StartReads
  BY <1>1, <1>2 DEF StartReads
<1>4. Volume!Spec => []Volume!IndInv
  BY Volume!Invariance
<1> QED BY <1>3, <1>4, PTL
=============================================================================
