---------------------------- MODULE FileBrowser ----------------------------
(***************************************************************************)
(* Choosing where to save: GuiBrowser of src/filesystem/fileop.cpp over the*)
(* listing of src/ui/filebrowser.cpp.  The listing is shared: the GUI      *)
(* thread moves browser.selIndex with the pointer, under the GUI lock; the *)
(* loop of GuiBrowser reads it without.  A folder is the sequence of its   *)
(* names, <<>> the root.                                                   *)
(***************************************************************************)
EXTENDS Naturals, Sequences, FiniteSets, SequencesExt

CONSTANTS
  Folders,       \* folders there are at first: records [dev, dir]
  Files,         \* [dev, dir, name]
  Typed,         \* [dir, name] that may be typed in place of the path
  UserFolder,    \* [dev, dir]: Settings.UserFolder
  Order,         \* of names, strcasecmp(a, b) < 0
  FILE_PAGESIZE, \* lines on display: 8
  MaxEntries,    \* entries that are read: 1024
  MaxPath        \* longest path: path[260] for temp[512]

Names == UNION {ToSet(f.dir) : f \in Folders \cup Files \cup Typed \cup {UserFolder}} \cup {f.name : f \in Files}

\* strcasecmp puts any two of the names in an order, and ".." is none of them.
BrowserAssumption ==
  /\ IsFiniteSet(Folders) /\ IsFiniteSet(Files)
  /\ Folders \cup {UserFolder} \subseteq [dev : {"sd", "usb"}, dir : Seq(Names)]
  /\ Files \subseteq [dev : {"sd", "usb"}, dir : Seq(Names), name : Names]
  /\ \A t \in Typed : t.dir \in Seq(Names)
  /\ ".." \notin Names
  /\ \A m, n \in Names : m # n => (<<m, n>> \in Order <=> <<n, m>> \notin Order)
  /\ \A m, n, p \in Names : <<m, n>> \in Order /\ <<n, p>> \in Order => <<m, p>> \in Order
  /\ \A n \in Names : <<n, n>> \notin Order
  /\ FILE_PAGESIZE \in Nat \ {0} /\ MaxEntries \in Nat

VARIABLES
  folders,   \* folders there are; the root of a device that was taken out is not
  swapped,   \* devices exchanged for empty ones
  rootdir, dir, browserList, selIndex, pageIndex,   \* browser
  lines, clicked,   \* the list on display, and its lines in STATE_CLICKED
  phase,     \* "closed", "loop", "read": isdir has been read and is `wasDir`
  wasDir,
  temp,      \* the path on display: [dev, dir, name]; no name after a '/'
  chosen     \* what GuiBrowser leaves in path, or NoPath

browser == <<rootdir, dir, browserList, selIndex, pageIndex>>
vars == <<folders, swapped, browser, lines, clicked, phase, wasDir, temp, chosen>>

NoPath == [dev |-> "", dir |-> <<>>, name |-> ""]
Path(d, f, n) == [dev |-> d, dir |-> f, name |-> n]
Exists(d, f) == [dev |-> d, dir |-> f] \in folders
Held == {g \in Files : g.dev \notin swapped}
Present == {d \in {"sd", "usb"} : Exists(d, <<>>)}

-----------------------------------------------------------------------------
(* The listing.                                                            *)

\* FileSortCallback: "..", then folders, then files, each by name.
Before(a, b) ==
  \/ a.name = ".." /\ b.name # ".."
  \/ b.name # ".." /\ a.isdir /\ ~b.isdir
  \/ b.name # ".." /\ a.isdir = b.isdir /\ <<a.name, b.name>> \in Order

Entry(n, isdir) == [name |-> n, isdir |-> isdir]
Entries(d, f) ==
  (IF f = <<>> THEN {} ELSE {Entry("..", TRUE)})
    \cup {Entry(g.dir[Len(g.dir)], TRUE) :
            g \in {g \in folders : g.dev = d /\ g.dir # <<>> /\ Front(g.dir) = f}}
    \cup {Entry(g.name, FALSE) : g \in {g \in Held : g.dev = d /\ g.dir = f}}

Sorted(s) ==
  CHOOSE q \in [1..Cardinality(s) -> s] : \A i, j \in 1..Cardinality(s) : i < j => Before(q[i], q[j])

\* Mutant: a folder that is gone stays the browser's.
ParseDirectory_KeepsGone(d, f) ==
  [root |-> d, dir |-> f, ok |-> d \in Present,
   list |-> IF d \in Present THEN Sorted(Entries(d, f)) ELSE <<>>]

\* The folder, or the root of its device; reading stops at MaxEntries.
ParseDirectory(d, f) ==
  LET opened == IF Exists(d, f) THEN f ELSE <<>>
      read == CHOOSE s \in SUBSET Entries(d, opened) :
                Cardinality(s) = IF Cardinality(Entries(d, opened)) > MaxEntries
                                 THEN MaxEntries ELSE Cardinality(Entries(d, opened))
  IN [root |-> d, dir |-> opened, ok |-> d \in Present,
      list |-> IF d \in Present THEN Sorted(read) ELSE <<>>]

BrowseDevice(d) == ParseDirectory(d, <<>>)

Show(listing) ==
  /\ rootdir' = listing.root /\ dir' = listing.dir /\ browserList' = listing.list
  /\ selIndex' = 1 /\ pageIndex' = 0

\* What an entry leads to: nothing for ".", which is never listed.
UpdateDirName(e) ==
  IF e.name = ".." THEN Front(dir) ELSE Append(dir, e.name)

-----------------------------------------------------------------------------
(* GuiBrowser.                                                             *)

Init ==
  /\ folders \in {{f \in Folders : f.dev \in present} : present \in SUBSET {"sd", "usb"}}
  /\ swapped = {} /\ rootdir = "sd" /\ dir = <<>> /\ browserList = <<>> /\ selIndex = 1 /\ pageIndex = 0
  /\ lines = <<>> /\ clicked = {} /\ phase = "closed" /\ wasDir = FALSE
  /\ temp = NoPath /\ chosen = NoPath

\* The default folder if it, or the root in its place, lists something.
Open ==
  /\ phase = "closed" /\ Present # {}
  /\ LET user == ParseDirectory(UserFolder.dev, UserFolder.dir)
     IN IF user.list # <<>>
        THEN Show(user) /\ temp' = Path(UserFolder.dev, UserFolder.dir, "")
        ELSE LET d == IF "sd" \in Present THEN "sd" ELSE "usb"
             IN Show(BrowseDevice(d)) /\ temp' = Path(d, <<>>, "")
  /\ phase' = "loop" /\ lines' = browserList' /\ clicked' = {} /\ chosen' = NoPath
  /\ UNCHANGED <<folders, swapped, wasDir>>

\* The keyboard replaces what follows the device.
InsertURL ==
  /\ phase = "loop"
  /\ \E t \in Typed : temp' = Path(temp.dev, t.dir, t.name)
  /\ UNCHANGED <<folders, swapped, browser, lines, clicked, phase, wasDir, chosen>>

\* The other device, or SD if it cannot be read; the list on display is not
\* told (the GUI thread sees a changed number of entries).
InsertDEV ==
  /\ phase = "loop"
  /\ LET other == IF rootdir = "sd" THEN "usb" ELSE "sd"
         d == IF other \in Present THEN other ELSE "sd"
     IN Show(BrowseDevice(d)) /\ temp' = Path(d, <<>>, "")
  /\ UNCHANGED <<folders, swapped, lines, clicked, phase, wasDir, chosen>>

Selected == IF browserList = <<>> THEN Entry("", FALSE) ELSE browserList[selIndex]

\* A clicked line: which one it is does not matter, selIndex counts.
ReadIsDir(i) ==
  /\ phase = "loop" /\ i \in clicked
  /\ clicked' = clicked \ {i} /\ wasDir' = Selected.isdir /\ phase' = "read"
  /\ UNCHANGED <<folders, swapped, browser, lines, temp, chosen>>

\* BrowserChangeFolder: a name that makes the path too long changes nothing;
\* only a listing without any entry ends the browser, one that failed does not.
ChangeFolder ==
  /\ phase = "read" /\ wasDir /\ browserList # <<>>
  /\ IF Len(UpdateDirName(Selected)) > MaxPath
     THEN /\ UNCHANGED browser
          /\ phase' = "loop" /\ lines' = browserList /\ temp' = Path(rootdir, dir, "")
     ELSE LET listing == ParseDirectory(rootdir, UpdateDirName(Selected))
          IN /\ Show(listing)
             /\ IF listing.ok /\ listing.list = <<>>
                THEN phase' = "closed" /\ UNCHANGED <<lines, temp>>
                ELSE /\ phase' = "loop" /\ lines' = listing.list
                     /\ temp' = Path(rootdir, listing.dir, "")
  /\ clicked' = {} /\ UNCHANGED <<folders, swapped, wasDir, chosen>>

TakeFile ==
  /\ phase = "read" /\ (~wasDir \/ browserList = <<>>)
  /\ temp' = Path(rootdir, dir, Selected.name) /\ phase' = "loop"
  /\ UNCHANGED <<folders, swapped, browser, lines, clicked, wasDir, chosen>>

\* The parents of a path and itself, without the root.
Parents(f) == {SubSeq(f, 1, n) : n \in 1..Len(f)}

\* CreateSubfolder: each name of the path is a folder or becomes one; a file
\* in the way, or a full card, ends it, and what was made stays.
CreateSubfolder(p) ==
  LET missing == {f \in Parents(p.dir) : ~Exists(p.dev, f)}
      blocked == {f \in missing : Path(p.dev, Front(f), f[Len(f)]) \in Held}
  IN \E made \in {f \in {{}} \cup {{g \in missing : Len(g) <= n} : n \in 1..Len(p.dir)} :
                    p.dev \in Present \/ f = {}} :
       /\ \A f \in made, g \in blocked : Len(f) < Len(g)
       /\ folders' = folders \cup {[dev |-> p.dev, dir |-> f] : f \in made}
       /\ chosen' = IF p.dev \in Present /\ made = missing THEN p ELSE NoPath

\* OK: unless it is too long, the path is what is on display, if its folder
\* is there or can be made (isValidPath).
Ok ==
  /\ phase = "loop" /\ Len(temp.dir) <= MaxPath
  /\ phase' = "closed" /\ CreateSubfolder(temp)
  /\ UNCHANGED <<swapped, browser, lines, clicked, wasDir, temp>>

Cancel ==
  /\ phase = "loop" /\ phase' = "closed"
  /\ UNCHANGED <<folders, swapped, browser, lines, clicked, wasDir, temp, chosen>>

-----------------------------------------------------------------------------
(* The GUI thread, and the card.                                           *)

\* A frame redraws the list only if its length changed.
Redraw ==
  /\ phase # "closed" /\ Len(lines) # Len(browserList) /\ lines' = browserList
  /\ UNCHANGED <<folders, swapped, browser, clicked, phase, wasDir, temp, chosen>>

\* The pointer selects a line of the page, and A clicks it.
Select(i) ==
  /\ phase # "closed" /\ Len(lines) = Len(browserList)
  /\ pageIndex + i <= Len(browserList) /\ selIndex' = pageIndex + i
  /\ \/ clicked' = clicked \cup {i}
     \/ UNCHANGED clicked
  /\ UNCHANGED <<folders, swapped, rootdir, dir, browserList, pageIndex, lines, phase, wasDir, temp, chosen>>

Page ==
  /\ phase # "closed" /\ Len(browserList) > FILE_PAGESIZE
  /\ pageIndex' \in {0, Len(browserList) - FILE_PAGESIZE} /\ pageIndex' # pageIndex
  /\ lines' = browserList
  /\ UNCHANGED <<folders, swapped, rootdir, dir, browserList, selIndex, clicked, phase, wasDir, temp, chosen>>

TakeOut(d) ==
  /\ phase # "closed" /\ d \in Present /\ folders' = {f \in folders : f.dev # d}
  /\ UNCHANGED <<swapped, browser, lines, clicked, phase, wasDir, temp, chosen>>

Exchange(d) ==
  /\ phase # "closed" /\ d \in Present \ swapped /\ swapped' = swapped \cup {d}
  /\ folders' = {f \in folders : f.dev # d} \cup {[dev |-> d, dir |-> <<>>]}
  /\ UNCHANGED <<browser, lines, clicked, phase, wasDir, temp, chosen>>

Next ==
  \/ Open \/ InsertURL \/ InsertDEV \/ ChangeFolder \/ TakeFile \/ Ok \/ Cancel
  \/ Redraw \/ Page
  \/ \E i \in 1..FILE_PAGESIZE : ReadIsDir(i) \/ Select(i)
  \/ \E d \in {"sd", "usb"} : TakeOut(d) \/ Exchange(d)

Spec == Init /\ [][Next]_vars

-----------------------------------------------------------------------------
(* Properties.                                                             *)

\* Whatever the pointer selects between the two reads of selIndex, and
\* whatever is taken out, the selected entry is one of the list, the list is
\* sorted and complete, and the folder it is of was one when it was read; a
\* path GuiBrowser hands on lies in a folder that is there
\* (filebrowser.cpp:57-233, fileop.cpp:139-227, 250-292, 361-381).
BrowserStaysOnDevice ==
  /\ phase # "closed" =>
       /\ browserList # <<>> => selIndex \in DOMAIN browserList /\ pageIndex < Len(browserList)
       /\ \A i, j \in DOMAIN browserList : i < j => Before(browserList[i], browserList[j])
       /\ rootdir \in Present \ swapped =>
            /\ Exists(rootdir, dir)
            /\ browserList # <<>> /\ Cardinality(Entries(rootdir, dir)) <= MaxEntries =>
                 ToSet(browserList) = Entries(rootdir, dir)
       /\ temp.dev = rootdir
  /\ chosen # NoPath /\ chosen.dev \in Present => Exists(chosen.dev, chosen.dir)
=============================================================================
