------------------------------ MODULE UserFiles ------------------------------
(***************************************************************************)
(* Saving the page, the image, another document or a screenshot under a    *)
(* name the user gives (html.cpp, handle.cpp, video.cpp, file_io.cpp).     *)
(* While the menu thread works through the steps the download thread may   *)
(* publish a file of its own under the name, and the power may go.  The    *)
(* next time the user finds the files as the volume was left.              *)
(***************************************************************************)
EXTENDS FatFile, Sequences

CONSTANTS
  Typed,     \* what the user leaves after the folder's last slash
  Types,     \* content types of what is shown
  MaxSaves   \* bound: contents made, by saves and downloads

VARIABLES
  pc, path,  \* the menu thread, and the name it saves under
  f,         \* the entries FatFile describes, of that name
  shot,      \* it saves a screenshot
  mine,      \* the generation it saves
  told,      \* what the user was last told: "", "saved", "failed"
  last       \* generations made so far

vars == <<pc, path, f, shot, mine, told, last>>

-----------------------------------------------------------------------------
(* The name.  Of a typed one: the text, whether it has a dot, and whether  *)
(* it is a safe name.  The page itself suggests none.                      *)

mime2ext == [t \in {"text/html", "image/png"} |-> IF t = "text/html" THEN ".html" ELSE ".png"]
extension(type) == IF type \in DOMAIN mime2ext THEN mime2ext[type] ELSE ""

placeholders == {"page", "image", "screenshot", "download"}
\* "" stands for a name that is refused.
correctPath(typed, type, placeholder) ==
  IF ~typed.safe THEN ""
  ELSE IF typed.text = "" THEN placeholder \o extension(type)
  ELSE IF typed.dot THEN typed.text
  ELSE typed.text \o extension(type)

-----------------------------------------------------------------------------
Init ==
  /\ \E l \in {None, Folder, Whole(1)}, b \in {None, Whole(2)} : f = [live |-> l, new |-> None, bak |-> b]
  /\ pc = "shown" /\ path = "" /\ shot = FALSE /\ mine = 0 /\ told = "" /\ last = 2

Put(entries) == f' = entries
GoTo(step) == pc' = step /\ UNCHANGED told
Tell(what) == pc' = "shown" /\ told' = what

\* GuiBrowser gave a path; a refused one ends it without a word.  One name is
\* followed through all its saves.
Choose ==
  /\ pc = "shown"
  /\ last < MaxSaves
  /\ \E which \in placeholders, typed \in Typed, type \in Types :
       LET kind == IF which = "screenshot" THEN "image/png" ELSE type
           name == correctPath(typed, kind, which) IN
       /\ name # "" /\ path \in {"", name}
       /\ path' = name
       /\ shot' = (which = "screenshot")
  /\ pc' = "check" /\ told' = "" /\ UNCHANGED <<f, mine, last>>

\* Anything under the name counts, a folder too.
CheckFile ==
  /\ pc = "check"
  /\ GoTo(IF Exists(f.live) THEN "ask" ELSE "begin")
  /\ UNCHANGED <<f, path, shot, mine, last>>

WindowPrompt ==
  /\ pc = "ask"
  /\ \E replace \in BOOLEAN : GoTo(IF replace THEN "begin" ELSE "shown")
  /\ UNCHANGED <<f, path, shot, mine, last>>

\* A screenshot is taken first: GX may not be ready, or memory be short.
TakeScreenshot ==
  /\ pc = "begin"
  /\ \/ GoTo("open") /\ mine' = last + 1 /\ last' = last + 1
     \/ shot /\ Tell("failed") /\ UNCHANGED <<mine, last>>
  /\ UNCHANGED <<f, path, shot>>

\* O_EXCL: a pending file left behind is never written over.
Open ==
  /\ pc = "open"
  /\ \/ ~Exists(f.new) /\ Put([f EXCEPT !.new = Stub(mine)]) /\ GoTo("write")
     \/ UNCHANGED f /\ Tell("failed")
  /\ UNCHANGED <<path, shot, mine, last>>

\* WritePNG or fwrite, then fflush and fclose: all of it, or an error.
writeStreamAndClose ==
  /\ pc = "write"
  /\ \/ Put([f EXCEPT !.new = Whole(mine)]) /\ GoTo("stat")
     \/ Put([f EXCEPT !.new = Torn(mine)]) /\ GoTo("remove")
  /\ UNCHANGED <<path, shot, mine, last>>

Remove ==
  /\ pc = "remove"
  /\ \/ Put([f EXCEPT !.new = None])
     \/ UNCHANGED f
  /\ Tell("failed")
  /\ UNCHANGED <<path, shot, mine, last>>

\* commitStagedFile with replaceExisting: what it looks at first.
Stat ==
  /\ pc = "stat"
  /\ \/ Exists(f.live) /\ IsRegular(f.live) /\ GoTo("statBackup")
     \/ ~Exists(f.live) /\ GoTo("publish")
     \/ Tell("failed")
  /\ UNCHANGED <<f, path, shot, mine, last>>

StatBackup ==
  /\ pc = "statBackup"
  /\ \/ ~Exists(f.bak) /\ GoTo("backup")
     \/ Tell("failed")
  /\ UNCHANGED <<f, path, shot, mine, last>>

Backup ==
  /\ pc = "backup"
  /\ \/ Exists(f.live) /\ ~Exists(f.bak) /\ Put(Rename(f, "live", "bak")) /\ GoTo("publish")
     \/ UNCHANGED f /\ Tell("failed")
  /\ UNCHANGED <<path, shot, mine, last>>

Publish ==
  /\ pc = "publish"
  /\ \/ ~Exists(f.live) /\ Put(Rename(f, "new", "live")) /\ Tell("saved")
     \/ UNCHANGED f /\ Tell("failed")
  /\ UNCHANGED <<path, shot, mine, last>>

Save ==
  \/ Choose \/ CheckFile \/ WindowPrompt \/ TakeScreenshot \/ Open
  \/ writeStreamAndClose \/ Remove \/ Stat \/ StatBackup \/ Backup \/ Publish

-----------------------------------------------------------------------------
(* The download thread: an agreed download moves the file away, and any    *)
(* one lands where nothing is.                                             *)

DownloadDisplaces ==
  /\ path # "" /\ IsRegular(f.live) /\ ~Exists(f.bak)
  /\ Put(Rename(f, "live", "bak"))
  /\ UNCHANGED <<pc, path, shot, mine, told, last>>

DownloadLands ==
  /\ path # "" /\ ~Exists(f.live) /\ last < MaxSaves
  /\ Put([f EXCEPT !.live = Whole(last + 1)])
  /\ last' = last + 1
  /\ UNCHANGED <<pc, path, shot, mine, told>>

PowerOff ==
  /\ pc # "shown"
  /\ pc' = "shown" /\ told' = "" /\ UNCHANGED <<f, path, shot, mine, last>>

\* With the card in a computer the user does away with a .new or .bak file.
Tidy ==
  /\ pc = "shown" /\ path # ""
  /\ \E n \in {"new", "bak"} : Exists(f[n]) /\ Put([f EXCEPT ![n] = None])
  /\ told' = "" /\ UNCHANGED <<pc, path, shot, mine, last>>

Next == Save \/ DownloadDisplaces \/ DownloadLands \/ PowerOff \/ Tidy

Spec == Init /\ [][Next]_vars

-----------------------------------------------------------------------------
\* Whatever step fails, whatever a download does to the name meanwhile and
\* wherever the power goes, a whole file the user had stays whole under its
\* name or as its backup, the name never holds less than a whole file, and
\* "saved" is only said of a file that is there (file_io.cpp:14-19).
Held(e) == {x \in {e.live, e.bak} : IsWhole(x)}
FilesKept ==
  /\ Held(f) \ {f.bak} \subseteq Held(f')
  /\ pc # "shown" => Held(f) \subseteq Held(f')
  /\ f'.live.kind \notin {"stub", "torn"}
  /\ told' = "saved" /\ told # "saved" => f'.live = Whole(mine)
SavesKeepFiles == [][FilesKept]_vars
=============================================================================
