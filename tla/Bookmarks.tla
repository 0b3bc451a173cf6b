----------------------------- MODULE Bookmarks -----------------------------
(***************************************************************************)
(* The bookmarks of SSettings (src/core/settings.cpp): the array Favorites *)
(* the menus show, the XML tree that is written, and the generations of    *)
(* appdata/bookmarks.html.  writeRecoverable, taken call by call in        *)
(* RecoverableFile, is one step here; what differs is the content: a file  *)
(* is read back by ParseList, which needs a closing </dl>, and mxml closes *)
(* an element without children as <dl />.                                  *)
(***************************************************************************)
EXTENDS Naturals, Sequences, SequencesExt, FiniteSets, FiniteSetsExt

CONSTANTS
  Entries,       \* bookmarks: a title and an address each
  Url,           \* the address of an entry
  MaxBookmarks,
  Faults         \* whether a save may fail or be cut short

ASSUME BookmarksAssumption == MaxBookmarks \in Nat \ {0} /\ Faults \in BOOLEAN

Lists == UNION {[1..n -> Entries] : n \in 0..MaxBookmarks}
Contents == [kind : {"none", "torn", "whole"}, list : Lists]
None == [kind |-> "none", list |-> <<>>]
Torn == [kind |-> "torn", list |-> <<>>]
Whole(l) == [kind |-> "whole", list |-> l]

VARIABLES
  disk,             \* bookmarks.html, its .new and its .bak
  on,               \* the program runs
  favorites, tree,  \* Favorites and xml
  writable,         \* bookmarksWritable
  acked, tried,     \* the list last saved, and the last one a save staged
  cut               \* whether any save failed or was cut short

vars == <<disk, on, favorites, tree, writable, acked, tried, cut>>

TypeOK ==
  /\ disk \in [live : Contents, new : Contents, bak : Contents]
  /\ on \in BOOLEAN /\ writable \in BOOLEAN /\ cut \in BOOLEAN
  /\ favorites \in Lists /\ tree \in Lists
  /\ acked \in Lists /\ tried \in Lists

-----------------------------------------------------------------------------
\* What writeRecoverable may leave on the volume, and return.
Outcomes(d, list) ==
  IF d.new # None THEN {[disk |-> d, ok |-> FALSE]}
  ELSE LET bak == IF d.live = None THEN d.bak ELSE d.live IN
       {[disk |-> [live |-> Whole(list), new |-> None, bak |-> bak], ok |-> TRUE]}
       \cup IF ~Faults THEN {}
            ELSE {[disk |-> e, ok |-> FALSE] :
                    e \in {d, [d EXCEPT !.new = Torn], [d EXCEPT !.new = Whole(list)],
                           [live |-> None, new |-> Whole(list), bak |-> bak]}
                          \cup IF d.live = None THEN {}
                               ELSE {[d EXCEPT !.new = Whole(list), !.bak = None]}}

\* SaveFavorites writes the tree.
SaveFavorites(list) ==
  \E o \in Outcomes(disk, list) :
    /\ disk' = o.disk
    /\ acked' = IF o.ok THEN list ELSE acked
    /\ tried' = IF disk.new = None THEN list ELSE tried
    /\ cut' = (cut \/ ~o.ok)

\* LoadFavorites: ParseList accepts a list that is closed by </dl>.
Readable(c) == c.kind = "whole" /\ c.list # <<>>

\* bookmarksWritable: the live file was read, or there is none of the three.
MayWrite(d) == Readable(d.live) \/ d = [live |-> None, new |-> None, bak |-> None]

Init ==
  /\ \E l \in Lists \ {<<>>} :
       /\ disk \in {[live |-> Whole(l), new |-> None, bak |-> None],
                    [live |-> None, new |-> None, bak |-> None]}
       /\ acked = disk.live.list /\ tried = disk.live.list
  /\ on = FALSE /\ favorites = <<>> /\ tree = <<>> /\ writable = FALSE
  /\ cut = FALSE

\* Mutant: the backup is tried first.
Start_BackupFirst ==
  /\ ~on
  /\ on' = TRUE
  /\ LET found == CASE Readable(disk.bak) -> disk.bak.list
                    [] ~Readable(disk.bak) /\ Readable(disk.live) -> disk.live.list
                    [] ~Readable(disk.bak) /\ ~Readable(disk.live) -> disk.new.list
     IN favorites' = found /\ tree' = found
  /\ writable' = MayWrite(disk)
  /\ UNCHANGED <<disk, acked, tried, cut>>

\* LoadFavorites: the first readable of the live file, .new and .bak.
Start ==
  /\ ~on
  /\ on' = TRUE
  /\ LET found == CASE Readable(disk.live) -> disk.live.list
                    [] ~Readable(disk.live) /\ Readable(disk.new) -> disk.new.list
                    [] ~Readable(disk.live) /\ ~Readable(disk.new) -> disk.bak.list
     IN favorites' = found /\ tree' = found
  /\ writable' = MayWrite(disk)
  /\ UNCHANGED <<disk, acked, tried, cut>>

\* AddFavorite.  The entry stays in memory when the file cannot be saved.
Add(e) ==
  /\ on /\ writable /\ Len(favorites) < MaxBookmarks
  /\ favorites' = Append(favorites, e)
  /\ tree' = Append(tree, e)
  /\ SaveFavorites(tree')
  /\ UNCHANGED <<on, writable>>

\* IsBookmarked
IndexOf(list, u) ==
  CHOOSE i \in 1..Len(list) : Url[list[i]] = u /\ \A j \in 1..(i - 1) : Url[list[j]] # u

\* Mutant: the array loses the last entry of an address, the tree the first.
DelFavorite_Last(u) ==
  /\ on /\ writable
  /\ \E i \in 1..Len(favorites) :
       /\ Url[favorites[i]] = u /\ \A j \in (i + 1)..Len(favorites) : Url[favorites[j]] # u
       /\ favorites' = RemoveAt(favorites, i)
  /\ tree' = RemoveAt(tree, IndexOf(tree, u))
  /\ SaveFavorites(tree')
  /\ UNCHANGED <<on, writable>>

\* DelFavorite: the array by IsBookmarked, the tree by mxmlFindElement.
DelFavorite(u) ==
  /\ on /\ writable
  /\ \E e \in ToSet(favorites) : Url[e] = u
  /\ favorites' = RemoveAt(favorites, IndexOf(favorites, u))
  /\ tree' = RemoveAt(tree, IndexOf(tree, u))
  /\ SaveFavorites(tree')
  /\ UNCHANGED <<on, writable>>

\* SSettings::Save, at ExitApp and wherever a setting changed, ends with the
\* bookmarks if they may be written.
SaveSettings ==
  /\ on /\ writable
  /\ SaveFavorites(tree)
  /\ UNCHANGED <<on, favorites, tree, writable>>

\* The program ends, with or without ExitApp.
Stop ==
  /\ on
  /\ on' = FALSE /\ favorites' = <<>> /\ tree' = <<>> /\ writable' = FALSE
  /\ UNCHANGED <<disk, acked, tried, cut>>

Next ==
  \/ Start \/ SaveSettings \/ Stop
  \/ \E e \in Entries : Add(e) \/ DelFavorite(Url[e])

Spec == Init /\ [][Next]_vars

-----------------------------------------------------------------------------
\* The array the menus show and the tree that is saved hold the same
\* bookmarks in the same order, also when a file names an address twice.
TreeMatchesFavorites == TypeOK /\ tree = favorites

\* A start shows the bookmarks last saved, or a later list whose save was
\* cut short; and if it did not read the live file its session leaves all
\* three names alone, so that its user can still restore any of them.  An
\* emptied list is another matter: its file is not readable.
StartsFromAcked ==
  [][/\ ~on /\ on' /\ acked # <<>> => favorites' \in {acked, tried}
     /\ on /\ ~writable => UNCHANGED disk]_vars

\* What Init tells the user of read-only bookmarks: "An invalid or
\* interrupted save was preserved."
RecoveryPromptTellsTruth == [][~on /\ on' /\ ~writable' => cut]_vars
=============================================================================
