----------------------------- MODULE Transfers -----------------------------
(***************************************************************************)
(* Downloads (src/network/transfer.cpp): the menu thread queues jobs, the  *)
(* download thread starts at most MaxActive of them, receives them into    *)
(* "<name>.part" and commits each to its destination, and the GUI thread   *)
(* shows one bar per running job (external/libwiigui/gui_download.cpp).    *)
(* The threads interleave between critical sections and system calls.      *)
(***************************************************************************)
EXTENDS Naturals, Sequences, FiniteSets, SequencesExt, FiniteSetsExt

CONSTANTS
  Jobs, NoJob,
  Files,        \* destinations, each with its .part and .download.bak
  Dest,         \* the destination each job was given
  MaxActive,    \* MAXD
  MaxBars,      \* MAXB
  MaxQueue      \* capacity of the queue

ASSUME JobsAssumption == NoJob \notin Jobs /\ Dest \in [Jobs -> Files]
ASSUME LimitsAssumption ==
  /\ MaxActive \in Nat \ {0} /\ MaxQueue \in Nat \ {0}
  /\ MaxBars \in Nat /\ MaxActive <= MaxBars

\* A value of Dest: every job has the same destination.
OneFile == [j \in Jobs |-> CHOOSE f \in Files : TRUE]

Bars == 1..MaxBars
NoBar == 0

\* A file's bytes: none, a file the user had, a part or the whole of a job.
Contents == [kind : {"none", "user", "part", "full"}, job : Jobs \cup {NoJob}]
Nothing == [kind |-> "none", job |-> NoJob]
UserFile == [kind |-> "user", job |-> NoJob]
Part(j) == [kind |-> "part", job |-> j]
Full(j) == [kind |-> "full", job |-> j]

VARIABLES
  fs,        \* destination, .part and .download.bak of every file
  menu,      \* menu thread: "boot", "menu", "add" (after its prompts), "exit"
  asked,     \* the job the menu thread is asking about
  overwrite, \* job->save.overwrite
  agreed,    \* what stood at the destination when the user was asked
  fresh,     \* jobs the user has not asked for yet
  heap,      \* allocated jobs
  queue, active, current,  \* where the jobs are; current: in start or complete
  result,    \* outcome of each running transfer: "none", "ok", "error"
  bar, shown, clicked,     \* bar of a job, visible bars, pressed cancel buttons
  stop, ready, manager,    \* the two flags, and whether manager exists
  pc, loop   \* download thread: next step, and the loop complete() returns to

fileVars == <<fs>>
menuVars == <<menu, asked, overwrite, agreed, fresh>>
jobVars == <<heap, queue, active, current, result>>
barVars == <<bar, shown, clicked>>
lifeVars == <<stop, ready, manager>>
vars == <<fileVars, menuVars, jobVars, barVars, lifeVars, pc, loop>>

TypeOK ==
  /\ fs \in [Files -> [dest : Contents, part : Contents, bak : Contents]]
  /\ menu \in {"boot", "menu", "add", "exit"}
  /\ asked \in Jobs \cup {NoJob}
  /\ overwrite \in [Jobs -> BOOLEAN]
  /\ agreed \in [Jobs -> Contents]
  /\ fresh \subseteq Jobs
  /\ heap \subseteq Jobs
  /\ queue \in Seq(Jobs) /\ Len(queue) <= MaxQueue
  /\ active \subseteq Jobs /\ Cardinality(active) <= MaxActive
  /\ current \in Jobs \cup {NoJob}
  /\ result \in [Jobs -> {"none", "ok", "error"}]
  /\ bar \in [Jobs -> Bars \cup {NoBar}]
  /\ shown \subseteq Bars
  /\ clicked \subseteq Bars
  /\ stop \in BOOLEAN /\ ready \in BOOLEAN /\ manager \in BOOLEAN
  /\ pc \in {"wait", "top", "fill", "open", "bar", "add", "refuse", "perform",
             "complete", "close", "stat", "displace", "publish", "unbar",
             "drain", "free", "done"}
  /\ loop \in {"collect", "failall", "shutdown"}

-----------------------------------------------------------------------------
\* The memory of a program that has just started.
Boot ==
  /\ menu = "boot"
  /\ asked = NoJob
  /\ overwrite = [j \in Jobs |-> FALSE]
  /\ agreed = [j \in Jobs |-> Nothing]
  /\ heap = {} /\ queue = <<>> /\ active = {} /\ current = NoJob
  /\ result = [j \in Jobs |-> "none"]
  /\ bar = [j \in Jobs |-> NoBar] /\ shown = {} /\ clicked = {}
  /\ stop = FALSE /\ ready = FALSE /\ manager = FALSE
  /\ pc = "wait" /\ loop = "collect"

Init ==
  /\ \E old \in SUBSET Files :
        fs = [f \in Files |-> [dest |-> IF f \in old THEN UserFile ELSE Nothing,
                               part |-> Nothing, bak |-> Nothing]]
  /\ fresh = Jobs
  /\ Boot

-----------------------------------------------------------------------------
(* The menu thread.                                                        *)

\* SetupGui: the manager and curl's multi handle, or the program exits.
InitTransfers ==
  /\ menu = "boot"
  /\ \/ ready' = TRUE /\ manager' = TRUE /\ menu' = "menu" /\ UNCHANGED stop
     \/ stop' = TRUE /\ menu' = "exit" /\ UNCHANGED <<ready, manager>>
  /\ UNCHANGED <<fs, asked, overwrite, agreed, fresh, jobVars, barVars, pc, loop>>

\* performDownload: the user names a destination and, if it exists, agrees to
\* replace it.  Declining leaves the menu, as no job at all.
Ask(j) ==
  /\ menu = "menu" /\ j \in fresh
  /\ fresh' = fresh \ {j}
  /\ asked' = j
  /\ menu' = "add"
  /\ overwrite' = [overwrite EXCEPT ![j] = fs[Dest[j]].dest # Nothing]
  /\ agreed' = [agreed EXCEPT ![j] = fs[Dest[j]].dest]
  /\ UNCHANGED <<fs, jobVars, barVars, lifeVars, pc, loop>>

\* The queue is full, the transfers are stopped, or memory is short.
AddRefused ==
  /\ menu = "add"
  /\ menu' = "menu" /\ asked' = NoJob
  /\ UNCHANGED <<fs, overwrite, agreed, fresh, jobVars, barVars, lifeVars, pc, loop>>

AddDownload ==
  /\ menu = "add"
  /\ ready /\ ~stop
  /\ Len(queue) < MaxQueue
  /\ queue' = Append(queue, asked)
  /\ heap' = heap \cup {asked}
  /\ menu' = "menu" /\ asked' = NoJob
  /\ UNCHANGED <<fs, overwrite, agreed, fresh, active, current, result, barVars,
                 lifeVars, pc, loop>>

\* ExitApp on the menu thread: StopGUIThreads stops and joins the downloads.
StopDownload ==
  /\ menu = "menu"
  /\ stop' = TRUE
  /\ menu' = "exit"
  /\ UNCHANGED <<fs, asked, overwrite, agreed, fresh, jobVars, barVars, ready,
                 manager, pc, loop>>

\* The GUI thread: a cancel button is pressed, or lets go of the pointer.
ClickCancel(b) ==
  /\ b \in shown /\ manager
  /\ clicked' = IF b \in clicked THEN clicked \ {b} ELSE clicked \cup {b}
  /\ UNCHANGED <<fs, menuVars, jobVars, bar, shown, lifeVars, pc, loop>>

-----------------------------------------------------------------------------
(* The download thread.                                                    *)

\* Mutant: the thread waits for ready alone.
Begin_WaitsForReady ==
  /\ pc = "wait" /\ ready
  /\ pc' = "top"
  /\ UNCHANGED <<fs, menuVars, jobVars, barVars, lifeVars, loop>>

Begin ==
  /\ pc = "wait" /\ (ready \/ stop)
  /\ pc' = IF ready THEN "top" ELSE "done"
  /\ UNCHANGED <<fs, menuVars, jobVars, barVars, lifeVars, loop>>

Top ==
  /\ pc = "top"
  /\ IF stop THEN pc' = "complete" /\ loop' = "shutdown"
             ELSE pc' = "fill" /\ UNCHANGED loop
  /\ UNCHANGED <<fs, menuVars, jobVars, barVars, lifeVars>>

Pop ==
  /\ pc = "fill" /\ Cardinality(active) < MaxActive /\ queue # <<>>
  /\ current' = Head(queue)
  /\ queue' = Tail(queue)
  /\ pc' = "open"
  /\ UNCHANGED <<fs, menuVars, heap, active, result, barVars, lifeVars, loop>>

FillDone ==
  /\ pc = "fill" /\ (Cardinality(active) = MaxActive \/ queue = <<>>)
  /\ pc' = "perform"
  /\ UNCHANGED <<fs, menuVars, jobVars, barVars, lifeVars, loop>>

\* start: "<name>.part" is created exclusively; an fdopen that fails removes
\* it again.
OpenPart ==
  /\ pc = "open"
  /\ \/ /\ fs[Dest[current]].part = Nothing
        /\ fs' = [fs EXCEPT ![Dest[current]].part = Part(current)]
        /\ pc' = "bar"
     \/ pc' = "refuse" /\ UNCHANGED fs
  /\ UNCHANGED <<menuVars, jobVars, barVars, lifeVars, loop>>

\* CreateBar under the GUI lock: the first hidden slot, its button released.
\* Without a slot or memory the job is refused and its .part stays.
CreateBar ==
  /\ pc = "bar"
  /\ \/ \E b \in Bars \ shown :
          /\ \A c \in Bars \ shown : b <= c
          /\ bar' = [bar EXCEPT ![current] = b]
          /\ shown' = shown \cup {b}
          /\ clicked' = clicked \ {b}
          /\ pc' = "add"
     \/ pc' = "refuse" /\ UNCHANGED barVars
  /\ UNCHANGED <<fs, menuVars, jobVars, lifeVars, loop>>

\* RemoveBar hides the slot of a job and frees its number.
RemoveBar(j) ==
  /\ bar' = [bar EXCEPT ![j] = NoBar]
  /\ shown' = shown \ {bar[j]}
  /\ UNCHANGED clicked

\* Mutant: the bar of a job that did not start stays.
AddHandle_KeepsBar ==
  /\ pc = "add"
  /\ \/ /\ active' = active \cup {current}
        /\ result' = [result EXCEPT ![current] = "none"]
        /\ current' = NoJob
        /\ pc' = "fill"
     \/ pc' = "refuse" /\ UNCHANGED <<active, result, current>>
  /\ UNCHANGED <<fs, menuVars, heap, queue, barVars, lifeVars, loop>>

AddHandle ==
  /\ pc = "add"
  /\ \/ /\ active' = active \cup {current}
        /\ result' = [result EXCEPT ![current] = "none"]
        /\ current' = NoJob
        /\ pc' = "fill"
        /\ UNCHANGED barVars
     \/ RemoveBar(current) /\ pc' = "refuse" /\ UNCHANGED <<active, result, current>>
  /\ UNCHANGED <<fs, menuVars, heap, queue, lifeVars, loop>>

\* releaseJob after a start that failed.
Refuse ==
  /\ pc = "refuse"
  /\ heap' = heap \ {current}
  /\ current' = NoJob
  /\ pc' = "fill"
  /\ UNCHANGED <<fs, menuVars, queue, active, result, barVars, lifeVars, loop>>

\* curl ends a transfer: complete, with an error, or aborted by progress()
\* because its cancel button was down or the program stops.  A click after
\* the last call of progress() comes too late.
Finish(j) ==
  /\ pc = "perform" /\ j \in active /\ result[j] = "none"
  /\ \E r \in {"ok", "error"} : result' = [result EXCEPT ![j] = r]
  /\ UNCHANGED <<fs, menuVars, heap, queue, active, current, barVars, lifeVars, pc, loop>>

\* curl_multi_perform returns; an error of the whole stack fails every job.
Performed ==
  /\ pc = "perform"
  /\ loop' \in {"collect", "failall"}
  /\ pc' = "complete"
  /\ UNCHANGED <<fs, menuVars, jobVars, barVars, lifeVars>>

\* The jobs the loop at hand completes next.
ToComplete == IF loop = "collect" THEN {j \in active : result[j] # "none"} ELSE active

\* Mutant: the job stays in the map of running transfers.
Complete_NotErased(j) ==
  /\ pc = "complete" /\ j \in ToComplete
  /\ current' = j
  /\ result' = [result EXCEPT ![j] = IF loop = "collect" THEN result[j] ELSE "error"]
  /\ pc' = "close"
  /\ UNCHANGED <<fs, menuVars, heap, queue, active, barVars, lifeVars, loop>>

\* complete: the handle goes, and any outcome but curl's own is an error.
Complete(j) ==
  /\ pc = "complete" /\ j \in ToComplete
  /\ active' = active \ {j}
  /\ current' = j
  /\ result' = [result EXCEPT ![j] = IF loop = "collect" THEN result[j] ELSE "error"]
  /\ pc' = "close"
  /\ UNCHANGED <<fs, menuVars, heap, queue, barVars, lifeVars, loop>>

LoopDone ==
  /\ pc = "complete" /\ ToComplete = {}
  /\ CASE loop = "collect"  -> pc' = "top" /\ UNCHANGED loop
       [] loop = "failall"  -> pc' = "complete" /\ loop' = "collect"
       [] loop = "shutdown" -> pc' = "drain" /\ UNCHANGED loop
  /\ UNCHANGED <<fs, menuVars, jobVars, barVars, lifeVars>>

\* Mutant: a failed transfer is committed like any other.
Close_IgnoresErrors ==
  /\ pc = "close"
  /\ fs' = [fs EXCEPT ![Dest[current]].part =
               IF result[current] = "ok" THEN Full(current) ELSE @]
  /\ pc' = "stat"
  /\ UNCHANGED <<menuVars, jobVars, barVars, lifeVars, loop>>

\* fflush and fclose; only a 2xx answer written without error is committed.
Close ==
  /\ pc = "close"
  /\ \/ /\ result[current] = "ok"
        /\ fs' = [fs EXCEPT ![Dest[current]].part = Full(current)]
        /\ pc' = "stat"
     \/ pc' = "unbar" /\ UNCHANGED fs
  /\ UNCHANGED <<menuVars, jobVars, barVars, lifeVars, loop>>

\* commit: any failing call ends it with the .part where it is.
CommitFails ==
  /\ pc \in {"stat", "displace", "publish"}
  /\ pc' = "unbar"
  /\ UNCHANGED <<fs, menuVars, jobVars, barVars, lifeVars, loop>>

\* Mutant: an earlier backup is overwritten.
StatDest_NoBackupCheck ==
  /\ pc = "stat"
  /\ LET f == fs[Dest[current]] IN
     \/ f.dest = Nothing /\ pc' = "publish"
     \/ f.dest # Nothing /\ overwrite[current] /\ pc' = "displace"
  /\ UNCHANGED <<fs, menuVars, jobVars, barVars, lifeVars, loop>>

StatDest ==
  /\ pc = "stat"
  /\ LET f == fs[Dest[current]] IN
     \/ f.dest = Nothing /\ pc' = "publish"
     \/ f.dest # Nothing /\ overwrite[current] /\ f.bak = Nothing /\ pc' = "displace"
  /\ UNCHANGED <<fs, menuVars, jobVars, barVars, lifeVars, loop>>

\* rename to "<name>.download.bak"
Displace ==
  /\ pc = "displace"
  /\ LET f == fs[Dest[current]] IN
     fs' = [fs EXCEPT ![Dest[current]].bak = f.dest, ![Dest[current]].dest = Nothing]
  /\ pc' = "publish"
  /\ UNCHANGED <<menuVars, jobVars, barVars, lifeVars, loop>>

\* rename of .part to the destination
Publish ==
  /\ pc = "publish"
  /\ LET f == fs[Dest[current]] IN
     fs' = [fs EXCEPT ![Dest[current]].dest = f.part, ![Dest[current]].part = Nothing]
  /\ pc' = "unbar"
  /\ UNCHANGED <<menuVars, jobVars, barVars, lifeVars, loop>>

\* The bar goes, then the job.
Release ==
  /\ pc = "unbar"
  /\ RemoveBar(current)
  /\ heap' = heap \ {current}
  /\ current' = NoJob
  /\ pc' = "complete"
  /\ UNCHANGED <<fs, menuVars, queue, active, result, lifeVars, loop>>

Drain ==
  /\ pc = "drain"
  /\ heap' = heap \ ToSet(queue)
  /\ queue' = <<>>
  /\ pc' = "free"
  /\ UNCHANGED <<fs, menuVars, active, current, result, barVars, lifeVars, loop>>

\* The multi handle, the manager (under the GUI lock) and the queue's mutex.
Free ==
  /\ pc = "free"
  /\ manager' = FALSE
  /\ ready' = FALSE
  /\ pc' = "done"
  /\ UNCHANGED <<fs, menuVars, jobVars, barVars, stop, loop>>

-----------------------------------------------------------------------------
\* Power is lost, or the program exits and is started again: memory is new,
\* the volume is what it was.
Restart ==
  /\ menu' = "boot"
  /\ asked' = NoJob
  /\ overwrite' = [j \in Jobs |-> FALSE]
  /\ agreed' = [j \in Jobs |-> Nothing]
  /\ heap' = {} /\ queue' = <<>> /\ active' = {} /\ current' = NoJob
  /\ result' = [j \in Jobs |-> "none"]
  /\ bar' = [j \in Jobs |-> NoBar] /\ shown' = {} /\ clicked' = {}
  /\ stop' = FALSE /\ ready' = FALSE /\ manager' = FALSE
  /\ pc' = "wait" /\ loop' = "collect"
  /\ UNCHANGED <<fs, fresh>>

Menu == \/ InitTransfers \/ (\E j \in Jobs : Ask(j)) \/ AddRefused \/ AddDownload
        \/ StopDownload

Download ==
  \/ Begin \/ Top \/ Pop \/ FillDone \/ OpenPart \/ CreateBar \/ AddHandle
  \/ Refuse \/ Performed \/ LoopDone \/ Close \/ CommitFails \/ StatDest
  \/ Displace \/ Publish \/ Release \/ Drain \/ Free
  \/ \E j \in Jobs : Finish(j) \/ Complete(j)

Gui == \E b \in Bars : ClickCancel(b)

Next == Menu \/ Download \/ Gui \/ Restart

Spec == Init /\ [][Next]_vars

-----------------------------------------------------------------------------
(* Ownership.                                                              *)

\* Every allocated job is in exactly one place: the queue, the active map or
\* the hands of the download thread.  A job in two would be freed twice, one
\* in none would leak.  And a thread that is done has left none behind, nor
\* its manager: whoever joins it may forget them.
OwnedOnce ==
  /\ TypeOK
  /\ pc = "done" => heap = {} /\ ~manager /\ ~ready /\ active = {}
  /\ heap = ToSet(queue) \cup active \cup ({current} \ {NoJob})
  /\ Cardinality(heap) =
       Len(queue) + Cardinality(active) + (IF current = NoJob THEN 0 ELSE 1)

\* The visible bars are those of the running jobs, each with one of its own:
\* progress() and the cancel button of a bar always speak of the same job.
\* And a job taken from the queue finds a hidden bar, although the bar of a
\* completed job stays while its file is committed: MAXD and MAXB agree.
BarsMatchJobs ==
  LET running == active \cup IF pc \in {"add", "close", "stat", "displace",
                                        "publish", "unbar"} THEN {current} ELSE {}
  IN /\ shown = {bar[j] : j \in running}
     /\ Cardinality(shown) = Cardinality(running)
     /\ \A j \in Jobs \ running : bar[j] = NoBar
     /\ pc = "bar" => shown # Bars

-----------------------------------------------------------------------------
(* The files.                                                              *)

\* The destination and the backup only ever hold whole files.
OnlyWholeFilesPublished ==
  \A f \in Files : fs[f].dest.kind # "part" /\ fs[f].bak.kind # "part"

\* No step takes a file from the volume: what a destination or a backup held
\* is still at the destination or at the backup, and a partial stays until
\* it is published.  And what is moved aside for a download is the very file
\* its user agreed to replace, however long ago he was asked and whatever was
\* committed since.
OnlyAgreedFilesDisplaced ==
  [][/\ \A f \in Files : fs'[f].bak # fs[f].bak
          => fs[f].dest = agreed[current] /\ overwrite[current]
     /\ \A f \in Files :
        LET after == {fs'[f].dest, fs'[f].part, fs'[f].bak} \ {Nothing} IN
        /\ fs[f].dest \in after \cup {Nothing}
        /\ fs[f].bak \in after \cup {Nothing}
        /\ fs[f].part.kind = "full" => fs[f].part \in after
        /\ fs[f].part.kind = "part" =>
             after \cap {fs[f].part, Full(fs[f].part.job)} # {}]_vars

-----------------------------------------------------------------------------
(* The end.                                                                *)

\* The download thread is scheduled, and a transfer ends: connecting is
\* bounded and ConfigureHttp aborts one below the low-speed limit.
Fairness ==
  /\ WF_vars(Download)
  /\ \A j \in Jobs : SF_vars(Finish(j))

FairSpec == Spec /\ Fairness

\* Every accepted download is released: committed, failed or aborted.  And
\* joining the download thread returns, unless the power goes first: also when
\* the program gives up before the thread was ever ready.
DownloadsEnd ==
  /\ \A j \in Jobs : (j \in heap ~> j \notin heap)
  /\ stop ~> (pc = "done" \/ ~stop)
=============================================================================
