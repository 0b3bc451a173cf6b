-------------------------- MODULE RecoverableFile --------------------------
(***************************************************************************)
(* A file kept in generations by writeRecoverable (src/utils/file_io.cpp): *)
(* the settings file, the bookmarks and the session history.  One action   *)
(* per system call of writeRecoverable, each of which may fail; power can  *)
(* go at any point; a restart runs the loader of the file; between runs    *)
(* the user may repair the volume as the README tells him to.              *)
(***************************************************************************)
EXTENDS FatFile

CONSTANTS
  Loader,      \* which file this is, and so which loader reads it back
  MaxGen       \* bound: generations a behaviour may stage

ASSUME LoaderAssumption == Loader \in {"settings", "bookmarks", "history"}
ASSUME MaxGenAssumption == MaxGen \in Nat \ {0}

VARIABLES
  disk,        \* the three names of the file
  pc,          \* next system call of the running writeRecoverable, or "idle"
  staged,      \* the last generation any save began to write
  acked,       \* the last generation whose save returned true
  running,     \* the program runs
  view,        \* the generation the running program loaded or saved last
  writable     \* configWritable, bookmarksWritable or historyWritable

vars == <<disk, pc, staged, acked, running, view, writable>>

Steps == {"idle", "write", "stat", "dropBackup", "moveLive", "publish"}

TypeOK ==
  /\ disk \in [Names -> Entries]
  /\ pc \in Steps
  /\ staged \in Nat
  /\ \A n \in Names : disk[n].gen <= staged
  /\ acked \in 0..staged
  /\ running \in BOOLEAN
  /\ view \in 0..staged
  /\ writable \in BOOLEAN

-----------------------------------------------------------------------------
(* Loading: the entry a loader hands to the program (None for defaults)    *)
(* and whether later saves are allowed.  Reading the names in bad fails    *)
(* with an I/O error; stat still finds them.                               *)

\* Mutant: .new is tried before the live name.
FirstOf_NewFirst(accepted) ==
  {n \in accepted : /\ n = "live" => "new" \notin accepted
                    /\ n = "bak" => accepted = {"bak"}}

\* The first of the live name, .new and .bak among the accepted ones.
FirstOf(accepted) ==
  {n \in accepted : /\ n = "new" => "live" \notin accepted
                    /\ n = "bak" => accepted = {"bak"}}

\* CheckIntegrity: bounded, the header is there, no NUL byte.
FoundSettings(d, bad) ==
  FirstOf({n \in Names \ bad : d[n].kind \in {"torn", "whole"}})

\* A bookmarks file is accepted only when its closing </dl> was written.  The
\* empty list has none and is the subject of Bookmarks; here a list has entries.
FoundFavorites(d, bad) == FirstOf({n \in Names \ bad : IsWhole(d[n])})

\* Only the live history is read, as far as its lines go.
FoundList(d, bad) == {n \in {"live"} \ bad : IsRegular(d[n])}

Found(d, bad) ==
  CASE Loader = "settings"  -> FoundSettings(d, bad)
    [] Loader = "bookmarks" -> FoundFavorites(d, bad)
    [] Loader = "history"   -> FoundList(d, bad)

Loaded(d, bad) ==
  IF Found(d, bad) = {} THEN None ELSE d[CHOOSE n \in Found(d, bad) : TRUE]

\* Mutant: a recovered generation does not make the settings read-only.
MayWriteSettings_Recovered(d, bad) == FoundSettings(d, bad) # {} \/ ~Exists(d["live"])

\* configWritable: the live file was read, or there is none and nothing else
\* was recovered.
MayWriteSettings(d, bad) ==
  \/ FoundSettings(d, bad) = {"live"}
  \/ FoundSettings(d, bad) = {} /\ ~Exists(d["live"])

\* bookmarksWritable: the live file was read, or no generation exists.
MayWriteFavorites(d, bad) ==
  \/ FoundFavorites(d, bad) = {"live"}
  \/ FoundFavorites(d, bad) = {} /\ \A n \in Names : ~Exists(d[n])

\* historyWritable: the live file was read to its last line, or is absent.
MayWriteList(d, bad) ==
  \/ FoundList(d, bad) = {"live"} /\ IsWhole(d["live"])
  \/ FoundList(d, bad) = {} /\ ~Exists(d["live"])

MayWrite(d, bad) ==
  \/ Loader = "settings"  /\ MayWriteSettings(d, bad)
  \/ Loader = "bookmarks" /\ MayWriteFavorites(d, bad)
  \/ Loader = "history"   /\ MayWriteList(d, bad)

-----------------------------------------------------------------------------
Init ==
  /\ \E live \in {None, Folder, Whole(1)}, bak \in {None, Folder} :
        /\ disk = [n \in Names |-> CASE n = "live" -> live
                                     [] n = "new"  -> None
                                     [] n = "bak"  -> bak]
        /\ staged = live.gen
        /\ acked = live.gen
  /\ pc = "idle"
  /\ running = FALSE
  /\ view = 0
  /\ writable = FALSE

Start ==
  /\ ~running
  /\ running' = TRUE
  /\ \E bad \in SUBSET Names :
        /\ view' = Loaded(disk, bad).gen
        /\ writable' = MayWrite(disk, bad)
  /\ UNCHANGED <<disk, pc, staged, acked>>

\* The program ends: power loss, RESET, a fault, or a normal exit at "idle".
Stop ==
  /\ running
  /\ running' = FALSE
  /\ pc' = "idle"
  /\ view' = 0
  /\ writable' = FALSE
  /\ UNCHANGED <<disk, staged, acked>>

\* writeRecoverable returns false wherever it stands, removing nothing.
Fail ==
  /\ pc \in {"stat", "dropBackup", "moveLive", "publish"}
  /\ pc' = "idle"
  /\ UNCHANGED <<disk, staged, acked, running, view, writable>>

\* Settings::Save, SaveFavorites or DumpList calls writeRecoverable: the
\* pending generation is created exclusively, so an old one blocks the save.
OpenPending ==
  /\ running /\ writable /\ pc = "idle"
  /\ ~Exists(disk["new"])
  /\ staged < MaxGen
  /\ staged' = staged + 1
  /\ disk' = [disk EXCEPT !["new"] = Stub(staged + 1)]
  /\ pc' = "write"
  /\ UNCHANGED <<acked, running, view, writable>>

\* Part of the bytes reach the volume.
WriteSome ==
  /\ pc = "write"
  /\ disk' = [disk EXCEPT !["new"] = Torn(staged)]
  /\ UNCHANGED <<pc, staged, acked, running, view, writable>>

\* Mutant: the result of fflush and fclose is ignored.
WriteDone_Unchecked ==
  /\ pc = "write"
  /\ disk' \in {disk, [disk EXCEPT !["new"] = Whole(staged)]}
  /\ pc' = "stat"
  /\ UNCHANGED <<staged, acked, running, view, writable>>

\* fwrite, fflush and fclose all succeeded.
WriteDone ==
  /\ pc = "write"
  /\ disk' = [disk EXCEPT !["new"] = Whole(staged)]
  /\ pc' = "stat"
  /\ UNCHANGED <<staged, acked, running, view, writable>>

\* fdopen or a write failed: the pending file is removed, and the result of
\* that remove is not looked at.
WriteFailed ==
  /\ pc = "write"
  /\ disk' \in {disk, [disk EXCEPT !["new"] = None]}
  /\ pc' = "idle"
  /\ UNCHANGED <<staged, acked, running, view, writable>>

\* stat of the live name and of the backup; both must be regular files.
StatLive ==
  /\ pc = "stat"
  /\ \/ /\ IsRegular(disk["live"])
        /\ IsRegular(disk["bak"]) \/ ~Exists(disk["bak"])
        /\ pc' = "dropBackup"
     \/ /\ ~Exists(disk["live"])
        /\ pc' = "publish"
  /\ UNCHANGED <<disk, staged, acked, running, view, writable>>

DropBackup ==
  /\ pc = "dropBackup"
  /\ disk' = [disk EXCEPT !["bak"] = None]
  /\ pc' = "moveLive"
  /\ UNCHANGED <<staged, acked, running, view, writable>>

\* Mutant: the live file is removed instead of kept as the backup.
MoveLive_Removes ==
  /\ pc = "moveLive"
  /\ disk' = [disk EXCEPT !["live"] = None]
  /\ pc' = "publish"
  /\ UNCHANGED <<staged, acked, running, view, writable>>

MoveLive ==
  /\ pc = "moveLive"
  /\ disk' = Rename(disk, "live", "bak")
  /\ pc' = "publish"
  /\ UNCHANGED <<staged, acked, running, view, writable>>

\* Mutant: the result of the last rename is ignored.
Publish_Unchecked ==
  /\ pc = "publish"
  /\ disk' \in {disk, Rename(disk, "new", "live")}
  /\ acked' = staged
  /\ view' = staged
  /\ pc' = "idle"
  /\ UNCHANGED <<staged, running, writable>>

Publish ==
  /\ pc = "publish"
  /\ disk' = Rename(disk, "new", "live")
  /\ acked' = staged
  /\ view' = staged
  /\ pc' = "idle"
  /\ UNCHANGED <<staged, running, writable>>

-----------------------------------------------------------------------------
(* The user, with the program closed (README.md, "Storage, recovery").     *)

\* "restore the desired valid generation to the live name"
UserRestores(n) ==
  /\ ~running
  /\ ~Exists(disk["live"]) /\ IsWhole(disk[n])
  /\ disk' = Rename(disk, n, "live")
  /\ acked' = disk[n].gen
  /\ UNCHANGED <<pc, staged, running, view, writable>>

\* "Remove stale .new only after [...] confirming a valid live copy", or when
\* no generation was ever saved.
UserRemovesNew ==
  /\ ~running
  /\ Exists(disk["new"])
  /\ IsWhole(disk["live"]) \/ (acked = 0 /\ ~IsWhole(disk["new"]))
  /\ disk' = [disk EXCEPT !["new"] = None]
  /\ UNCHANGED <<pc, staged, acked, running, view, writable>>

\* Whatever stands in the way of a backup or of the live file is moved off.
UserRemovesFolder(n) ==
  /\ ~running
  /\ disk[n] = Folder
  /\ disk' = [disk EXCEPT ![n] = None]
  /\ UNCHANGED <<pc, staged, acked, running, view, writable>>

-----------------------------------------------------------------------------
Save == \/ OpenPending \/ WriteSome \/ WriteDone \/ WriteFailed
        \/ StatLive \/ DropBackup \/ MoveLive \/ Publish \/ Fail

User == \/ \E n \in {"new", "bak"} : UserRestores(n)
        \/ UserRemovesNew
        \/ \E n \in {"live", "bak"} : UserRemovesFolder(n)

Next == Start \/ Stop \/ Save \/ User

Spec == Init /\ [][Next]_vars

-----------------------------------------------------------------------------
(* What the generations are for.                                           *)

\* At every point where power can go, the generation of the last save that
\* returned true is on the volume, whole, at the live name or as the backup
\* (file_io.h: "it never removes the only verified generation").
AckedGenerationSurvives ==
  acked # 0 => \E n \in {"live", "bak"} : disk[n] = Whole(acked)

\* Bytes of an unfinished write never stand at the live name or the backup,
\* where later starts would take them for a saved generation.
OnlyWholeGenerationsPublished ==
  \A n \in {"live", "bak"} : disk[n].kind \notin {"stub", "torn"}

\* Wherever the last run stopped, a start now (with a readable volume) loads
\* a whole generation, the last acknowledged one or one that was being saved
\* after it: no crash point between the two renames makes a restart fall
\* back to older or half-written state.
RestartLoadsAcked ==
  LET e == Loaded(disk, {}) IN
  acked # 0 => IsWhole(e) /\ e.gen >= acked

\* A program that could not load the acknowledged generation must not write
\* (README.md: "recovered state is read-only rather than silently resetting
\* files"), whichever reads failed when it started.
NoSilentReset == running /\ view < acked => ~writable

\* While a session works from a generation that is not the one at the live
\* name (it was recovered from .new or .bak, or the last rename of a save
\* failed), no call touches any of the three names.
RecoveredStateReadOnly ==
  [][running /\ pc = "idle" /\ view # 0 /\ view # disk["live"].gen /\ running'
       => UNCHANGED disk]_vars

\* A saved generation leaves the volume only when the live file is the
\* acknowledged one and its successor stands complete in .new.
RetiredOnlyAfterSuccessor ==
  [][\A n \in {"live", "bak"} :
        running /\ IsWhole(disk[n]) /\ (\A m \in Names : disk'[m] # disk[n])
          => /\ disk["live"] = Whole(acked)
             /\ disk["new"] = Whole(staged)
             /\ disk[n].gen < acked]_vars

\* The inductive invariant behind all of these: what each name may hold, and
\* what the next system call relies on.
LiveShape ==
  \/ disk["live"] \in {None, Folder}
  \/ acked # 0 /\ disk["live"] = Whole(acked)

BackupShape ==
  \/ disk["bak"] \in {None, Folder}
  \/ /\ IsWhole(disk["bak"])
     /\ disk["bak"].gen \in 1..acked
     /\ IsWhole(disk["live"]) => disk["bak"].gen < acked

NewShape ==
  \/ disk["new"] = None
  \/ disk["new"] \in {Stub(staged), Torn(staged), Whole(staged)} /\ acked < staged

\* Without a live file the backup is the acknowledged generation and .new its
\* complete successor.
LiveMissing ==
  acked # 0 /\ ~IsWhole(disk["live"])
    => disk["bak"] = Whole(acked) /\ IsWhole(disk["new"])

AtCall ==
  /\ pc # "idle" => running
  /\ pc = "write" => disk["new"] \in {Stub(staged), Torn(staged)}
  /\ pc \in {"stat", "dropBackup", "moveLive", "publish"} => IsWhole(disk["new"])
  /\ pc \in {"dropBackup", "moveLive"} => IsWhole(disk["live"])
  /\ pc = "dropBackup" => disk["bak"] # Folder
  /\ pc = "moveLive" => disk["bak"] = None
  /\ pc = "publish" => disk["live"] = None

IndInv ==
  /\ TypeOK
  /\ LiveShape
  /\ BackupShape
  /\ NewShape
  /\ LiveMissing
  /\ AtCall

-----------------------------------------------------------------------------
(* The file implements one value that survives crashes.  The value jumps   *)
(* when the live name is moved to .bak: from then on .new is what a start  *)
(* loads.  Without a live file it jumps when .new is complete.             *)

Latest(d) ==
  CASE IsWhole(d["live"])                        -> d["live"].gen
    [] ~IsWhole(d["live"]) /\ IsWhole(d["new"])  -> d["new"].gen
    [] ~IsWhole(d["live"]) /\ ~IsWhole(d["new"]) -> d["bak"].gen

Register == INSTANCE DurableRegister WITH
  value    <- Latest(disk),
  offered  <- IF pc = "idle" THEN 0 ELSE staged,
  newest   <- staged,
  promised <- acked,
  up       <- running

\* writeRecoverable with its loader and the README's repair steps is an
\* atomic, durable register: no crash point shows a restart anything but the
\* old value or the one being saved.
ImplementsRegister == Register!Spec
=============================================================================
