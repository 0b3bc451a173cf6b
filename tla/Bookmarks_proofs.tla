-------------------------- MODULE Bookmarks_proofs --------------------------
(***************************************************************************)
(* The bookmarks for any entries, any limit, and with or without failing   *)
(* saves: the array and the tree stay one list, and a start shows what was *)
(* saved.                                                                  *)
(***************************************************************************)
EXTENDS Bookmarks, SequenceTheorems, Recursion, TLAPS

\* Lists without the sets of functions they are made of.
LEMMA IsList ==
  ASSUME NEW l
  PROVE  l \in Lists <=> l \in Seq(Entries) /\ Len(l) <= MaxBookmarks
<1> USE BookmarksAssumption
<1>1. ASSUME l \in Lists PROVE l \in Seq(Entries) /\ Len(l) <= MaxBookmarks
  <2> PICK n \in 0..MaxBookmarks : l \in [1..n -> Entries]
    BY <1>1 DEF Lists
  <2> QED OBVIOUS
<1>2. ASSUME l \in Seq(Entries), Len(l) <= MaxBookmarks PROVE l \in Lists
  <2> Len(l) \in 0..MaxBookmarks /\ l \in [1..Len(l) -> Entries]
    BY <1>2, LenProperties
  <2> QED BY DEF Lists
<1> QED BY <1>1, <1>2

LEMMA EmptyList == <<>> \in Lists
<1>1. <<>> \in Seq(Entries) /\ Len(<<>>) = 0
  BY EmptySeq
<1>2. 0 <= MaxBookmarks
  BY BookmarksAssumption
<1> QED BY <1>1, <1>2, IsList, Zenon

\* DelFavorite's two removals leave a list.
LEMMA Removed ==
  ASSUME NEW l \in Lists, NEW i \in 1..Len(l)
  PROVE  RemoveAt(l, i) \in Lists
<1>1. l \in Seq(Entries) /\ Len(l) <= MaxBookmarks /\ Len(l) \in Nat
  BY IsList, LenProperties
<1>2. \A j \in 1..Len(l) : l[j] \in Entries
  BY <1>1, ElementOfSeq
<1>3. SubSeq(l, 1, i - 1) \in Seq(Entries) /\ Len(SubSeq(l, 1, i - 1)) = i - 1
  BY <1>1, <1>2, SubSeqProperties
<1>4. SubSeq(l, i + 1, Len(l)) \in Seq(Entries) /\ Len(SubSeq(l, i + 1, Len(l))) = Len(l) - i
  <2>1. \A j \in (i + 1)..Len(l) : l[j] \in Entries
    BY <1>1, <1>2
  <2>2. i + 1 \in Int /\ Len(l) \in Int
    BY <1>1
  <2> QED BY <1>1, <2>1, <2>2, SubSeqProperties
<1>5. RemoveAt(l, i) \in Seq(Entries) /\ Len(RemoveAt(l, i)) = Len(l) - 1
  <2> DEFINE before == SubSeq(l, 1, i - 1)
             after == SubSeq(l, i + 1, Len(l))
  <2>1. RemoveAt(l, i) = before \o after
    BY DEF RemoveAt
  <2>2. before \o after \in Seq(Entries) /\ Len(before \o after) = Len(before) + Len(after)
    <3> HIDE DEF before, after
    <3> QED BY <1>3, <1>4, ConcatProperties DEF before, after
  <2>3. Len(before) + Len(after) = Len(l) - 1
    <3>1. Len(before) = i - 1 /\ Len(after) = Len(l) - i
      BY <1>3, <1>4
    <3> HIDE DEF before, after
    <3> QED BY <1>1, <3>1
  <2> QED BY <2>1, <2>2, <2>3
<1> QED BY <1>1, <1>5, IsList, BookmarksAssumption

\* IsBookmarked finds an address that is there.
LEMMA Found ==
  ASSUME NEW l \in Lists, NEW e \in ToSet(l)
  PROVE  IndexOf(l, Url[e]) \in 1..Len(l)
<1> DEFINE T == {i \in 1..Len(l) : Url[l[i]] = Url[e]}
<1>1. l \in Seq(Entries) /\ Len(l) \in Nat
  BY IsList, LenProperties
<1>2. T # {} /\ T \in SUBSET Nat
  BY <1>1 DEF ToSet
<1>3. PICK i \in T : \A j \in T : i <= j
  <2> HIDE DEF T
  <2> QED BY <1>2, Smallest
<1>4. \A j \in 1..(i - 1) : Url[l[j]] # Url[e]
  BY <1>1, <1>3
<1> QED BY <1>3, <1>4 DEF IndexOf

-----------------------------------------------------------------------------
\* The answers of a save, one by one.
LEMMA Answers ==
  ASSUME NEW d, NEW list, NEW o \in Outcomes(d, list)
  PROVE  LET bak == IF d.live = None THEN d.bak ELSE d.live IN
         \/ o = [disk |-> d, ok |-> FALSE]
         \/ d.new = None /\ o = [disk |-> [live |-> Whole(list), new |-> None, bak |-> bak], ok |-> TRUE]
         \/ d.new = None /\ o = [disk |-> [d EXCEPT !.new = Torn], ok |-> FALSE]
         \/ d.new = None /\ o = [disk |-> [d EXCEPT !.new = Whole(list)], ok |-> FALSE]
         \/ d.new = None /\ o = [disk |-> [live |-> None, new |-> Whole(list), bak |-> bak], ok |-> FALSE]
         \/ /\ d.new = None /\ d.live # None
            /\ o = [disk |-> [d EXCEPT !.new = Whole(list), !.bak = None], ok |-> FALSE]
  BY DEF Outcomes

\* What a save of the tree leaves.
LEMMA SaveType ==
  ASSUME TypeOK, NEW list \in Lists, SaveFavorites(list)
  PROVE  /\ disk' \in [live : Contents, new : Contents, bak : Contents]
         /\ acked' \in Lists /\ tried' \in Lists /\ cut' \in BOOLEAN
<1>1. PICK o \in Outcomes(disk, list) :
        /\ disk' = o.disk
        /\ acked' = IF o.ok THEN list ELSE acked
        /\ tried' = IF disk.new = None THEN list ELSE tried
        /\ cut' = (cut \/ ~o.ok)
  BY DEF SaveFavorites
<1>2. None \in Contents /\ Torn \in Contents /\ Whole(list) \in Contents
  BY EmptyList DEF None, Torn, Whole, Contents
<1>3. o.disk \in [live : Contents, new : Contents, bak : Contents]
  <2>1. disk \in [live : Contents, new : Contents, bak : Contents]
    BY DEF TypeOK
  <2>2. disk = [live |-> disk.live, new |-> disk.new, bak |-> disk.bak]
    BY <2>1
  <2>3. disk.live \in Contents /\ disk.new \in Contents /\ disk.bak \in Contents
    BY <2>1
  <2> DEFINE bak == IF disk.live = None THEN disk.bak ELSE disk.live
  <2>4. bak \in Contents
    BY <2>3
  <2>5. CASE o = [disk |-> disk, ok |-> FALSE]
    BY <2>1, <2>5
  <2>6. CASE o = [disk |-> [disk EXCEPT !.new = Torn], ok |-> FALSE]
    BY <1>2, <2>1, <2>6
  <2>8. CASE o = [disk |-> [disk EXCEPT !.new = Whole(list)], ok |-> FALSE]
    BY <1>2, <2>1, <2>8
  <2>9. CASE o = [disk |-> [disk EXCEPT !.new = Whole(list), !.bak = None], ok |-> FALSE]
    <3> DEFINE staged == [disk EXCEPT !.new = Whole(list)]
    <3>1. staged \in [live : Contents, new : Contents, bak : Contents]
      BY <1>2, <2>1
    <3>2. o.disk = [staged EXCEPT !.bak = None]
      BY <2>9
    <3> HIDE DEF staged
    <3> QED BY <1>2, <3>1, <3>2
  <2>7. CASE \/ o = [disk |-> [live |-> Whole(list), new |-> None, bak |-> bak], ok |-> TRUE]
             \/ o = [disk |-> [live |-> None, new |-> Whole(list), bak |-> bak], ok |-> FALSE]
    BY <1>2, <2>4, <2>7
  <2> QED BY <1>1, <2>5, <2>6, <2>7, <2>8, <2>9, Answers
<1> QED BY <1>1, <1>3 DEF TypeOK

LEMMA InitType == Init => TreeMatchesFavorites
<1> SUFFICES ASSUME Init PROVE TreeMatchesFavorites
  OBVIOUS
<1>1. <<>> \in Lists /\ None \in Contents
  BY EmptyList DEF None, Contents
<1>2. PICK l \in Lists \ {<<>>} :
        /\ disk \in {[live |-> Whole(l), new |-> None, bak |-> None],
                     [live |-> None, new |-> None, bak |-> None]}
        /\ acked = disk.live.list /\ tried = disk.live.list
  BY DEF Init
<1>3. Whole(l) \in Contents /\ Whole(l).list \in Lists /\ None.list \in Lists
  BY <1>1 DEF Whole, Contents, None
<1>4. disk \in [live : Contents, new : Contents, bak : Contents]
  BY <1>1, <1>2, <1>3
<1>5. acked \in Lists /\ tried \in Lists
  BY <1>1, <1>2, <1>3
<1> QED BY <1>1, <1>4, <1>5 DEF Init, TypeOK, TreeMatchesFavorites

LEMMA TreeStep == TreeMatchesFavorites /\ [Next]_vars => TreeMatchesFavorites'
<1> SUFFICES ASSUME TreeMatchesFavorites, [Next]_vars PROVE TreeMatchesFavorites'
  OBVIOUS
<1>t. TypeOK /\ tree = favorites /\ favorites \in Lists
  BY DEF TreeMatchesFavorites, TypeOK
<1> USE DEF TreeMatchesFavorites
<1>1. CASE Start
  <2>1. disk.live.list \in Lists /\ disk.new.list \in Lists /\ disk.bak.list \in Lists
    BY <1>t DEF TypeOK, Contents
  <2>2. tree' = favorites' /\ favorites' \in Lists
    BY <1>1, <2>1 DEF Start
  <2> QED BY <1>t, <1>1, <2>2 DEF Start, TypeOK, MayWrite, Readable
<1>2. CASE Stop
  BY <1>t, <1>2, EmptyList DEF Stop, TypeOK
<1>3. CASE SaveSettings
  BY <1>t, <1>3, SaveType DEF SaveSettings, TypeOK
<1>4. ASSUME NEW e \in Entries, Add(e) PROVE TreeMatchesFavorites'
  <2>1. Append(favorites, e) \in Lists
    <3>1. favorites \in Seq(Entries) /\ Len(favorites) \in Nat /\ Len(favorites) < MaxBookmarks
      BY <1>t, <1>4, IsList, LenProperties DEF Add
    <3>2. Append(favorites, e) \in Seq(Entries) /\ Len(Append(favorites, e)) = Len(favorites) + 1
      BY <3>1, AppendProperties
    <3>3. Len(favorites) + 1 <= MaxBookmarks
      BY <3>1, BookmarksAssumption
    <3> QED BY <3>2, <3>3, IsList, Zenon
  <2> QED BY <1>t, <1>4, <2>1, SaveType DEF Add, TypeOK
<1>5. ASSUME NEW f \in Entries, DelFavorite(Url[f]) PROVE TreeMatchesFavorites'
  <2>1. PICK e \in ToSet(favorites) : Url[e] = Url[f]
    BY <1>5 DEF DelFavorite
  <2>2. RemoveAt(favorites, IndexOf(favorites, Url[f])) \in Lists
    BY <1>t, <2>1, Found, Removed
  <2> QED BY <1>t, <1>5, <2>2, SaveType DEF DelFavorite, TypeOK
<1>6. CASE UNCHANGED vars
  BY <1>6 DEF vars, TypeOK
<1> QED BY <1>1, <1>2, <1>3, <1>4, <1>5, <1>6 DEF Next

\* The array the menus show and the tree that is saved are one list.
THEOREM TreeIsFavorites == Spec => []TreeMatchesFavorites
BY InitType, TreeStep, PTL DEF Spec

-----------------------------------------------------------------------------
\* What the three names hold of the list last saved: the live file is it, or
\* the save that moved it away left it beside its whole successor.
DiskInv ==
  /\ disk.live # None => disk.live = Whole(acked)
  /\ disk.live = None /\ acked # <<>> => disk.new = Whole(tried) /\ disk.bak = Whole(acked)

LEMMA SaveKeeps ==
  ASSUME TypeOK, DiskInv, NEW list \in Lists, SaveFavorites(list)
  PROVE  DiskInv'
<1>1. PICK o \in Outcomes(disk, list) :
        /\ disk' = o.disk
        /\ acked' = IF o.ok THEN list ELSE acked
        /\ tried' = IF disk.new = None THEN list ELSE tried
  BY DEF SaveFavorites
<1>2. None # Torn /\ \A l \in Lists : None # Whole(l) /\ Torn # Whole(l)
  BY DEF None, Torn, Whole
<1>3. CASE disk.new # None
  BY <1>1, <1>3 DEF Outcomes, DiskInv
<1>4. CASE disk.new = None
  <2>1. disk.live # None \/ acked = <<>>
    BY <1>2, <1>4 DEF DiskInv, TypeOK
  <2> DEFINE bak == IF disk.live = None THEN disk.bak ELSE disk.live
  <2>t. disk = [live |-> disk.live, new |-> disk.new, bak |-> disk.bak]
    BY DEF TypeOK
  <2>2. CASE o = [disk |-> disk, ok |-> FALSE]
    BY <1>1, <1>4, <2>1, <2>2 DEF DiskInv
  <2>3. CASE o = [disk |-> [live |-> Whole(list), new |-> None, bak |-> bak], ok |-> TRUE]
    BY <1>1, <1>2, <2>3 DEF DiskInv
  <2>4. CASE \/ o = [disk |-> [disk EXCEPT !.new = Torn], ok |-> FALSE]
             \/ o = [disk |-> [disk EXCEPT !.new = Whole(list)], ok |-> FALSE]
    <3> disk'.live = disk.live /\ acked' = acked
      BY <1>1, <2>t, <2>4
    <3> QED BY <2>1 DEF DiskInv
  <2>5. CASE o = [disk |-> [live |-> None, new |-> Whole(list), bak |-> bak], ok |-> FALSE]
    BY <1>1, <1>4, <2>1, <2>5 DEF DiskInv
  <2>6. CASE /\ disk.live # None
             /\ o = [disk |-> [disk EXCEPT !.new = Whole(list), !.bak = None], ok |-> FALSE]
    <3> disk'.live = disk.live /\ acked' = acked
      BY <1>1, <2>t, <2>6
    <3> QED BY <2>6 DEF DiskInv
  <2> QED BY <1>1, <2>2, <2>3, <2>4, <2>5, <2>6, Answers
<1> QED BY <1>3, <1>4

LEMMA DiskStep == TreeMatchesFavorites /\ DiskInv /\ [Next]_vars => DiskInv'
<1> SUFFICES ASSUME TreeMatchesFavorites, DiskInv, [Next]_vars PROVE DiskInv'
  OBVIOUS
<1>t. TypeOK /\ tree \in Lists /\ tree' \in Lists
  BY TreeStep DEF TreeMatchesFavorites, TypeOK
<1>1. CASE Start \/ Stop \/ UNCHANGED vars
  BY <1>1 DEF Start, Stop, vars, DiskInv
<1>2. CASE SaveSettings
  BY <1>t, <1>2, SaveKeeps DEF SaveSettings
<1>3. ASSUME NEW e \in Entries, Add(e) \/ DelFavorite(Url[e]) PROVE DiskInv'
  BY <1>t, <1>3, SaveKeeps DEF Add, DelFavorite
<1> QED BY <1>1, <1>2, <1>3 DEF Next

\* A start shows the list last saved or the one a save was cut short for, and
\* a session that did not read the live file leaves the volume as it is.
THEOREM StartShowsSaved == Spec => StartsFromAcked
<1>1. Init => DiskInv
  <2> SUFFICES ASSUME Init PROVE DiskInv
    OBVIOUS
  <2>1. PICK l \in Lists :
          /\ disk \in {[live |-> Whole(l), new |-> None, bak |-> None],
                       [live |-> None, new |-> None, bak |-> None]}
          /\ acked = disk.live.list
    BY DEF Init
  <2> QED BY <2>1 DEF DiskInv, Whole, None
<1>2. TreeMatchesFavorites /\ DiskInv /\ [Next]_vars =>
        /\ ~on /\ on' /\ acked # <<>> => favorites' \in {acked, tried}
        /\ on /\ ~writable => UNCHANGED disk
  <2> SUFFICES ASSUME DiskInv, [Next]_vars
               PROVE  /\ ~on /\ on' /\ acked # <<>> => favorites' \in {acked, tried}
                      /\ on /\ ~writable => UNCHANGED disk
    OBVIOUS
  <2>1. CASE Start
    <3>1. Readable(Whole(acked)) <=> acked # <<>>
      BY DEF Readable, Whole
    <3>2. Whole(acked).list = acked /\ Whole(tried).list = tried /\ ~Readable(None)
      BY DEF Whole, Readable, None
    <3> QED BY <2>1, <3>1, <3>2 DEF Start, DiskInv
  <2>2. CASE Stop \/ SaveSettings \/ UNCHANGED vars
    BY <2>2 DEF Stop, SaveSettings, vars
  <2>3. ASSUME NEW e \in Entries, Add(e) \/ DelFavorite(Url[e])
        PROVE  /\ ~on /\ on' /\ acked # <<>> => favorites' \in {acked, tried}
               /\ on /\ ~writable => UNCHANGED disk
    BY <2>3 DEF Add, DelFavorite
  <2> QED BY <2>1, <2>2, <2>3 DEF Next
<1> QED BY <1>1, <1>2, InitType, TreeStep, DiskStep, PTL DEF Spec, StartsFromAcked

-----------------------------------------------------------------------------
(* What a save and a start are to the generations of the file: Outcomes    *)
(* and Start against RecoverableFile, whose calls they stand for.          *)

CONSTANTS
  MaxGen,
  Saved            \* generation -> the list it holds
VARIABLES names, call, staged, answered, running, view, mayWrite, before

Volume == INSTANCE RecoverableFile_proofs WITH
  Loader <- "bookmarks", disk <- names, pc <- call, acked <- answered, writable <- mayWrite

\* What a name holds; ParseList accepts neither a part of a file nor a folder.
ContentOf(e) ==
  IF ~Volume!Exists(e) THEN None ELSE IF Volume!IsWhole(e) THEN Whole(Saved[e.gen]) ELSE Torn
VolumeOf(d) == [live |-> ContentOf(d["live"]), new |-> ContentOf(d["new"]), bak |-> ContentOf(d["bak"])]

LEMMA Holds ==
  ASSUME NEW v
  PROVE  /\ ContentOf(Volume!None) = None /\ ContentOf(Volume!Whole(v)) = Whole(Saved[v])
         /\ ContentOf(Volume!Stub(v)) = Torn /\ ContentOf(Volume!Torn(v)) = Torn
  BY DEF ContentOf, Volume!None, Volume!Whole, Volume!Stub, Volume!Torn, Volume!Exists, Volume!IsWhole

\* Each way of a save to end is one of the outcomes, with its answer.
LEMMA LeavesIsOutcome ==
  ASSUME Faults = TRUE, NEW d, NEW e, NEW v \in Nat, NEW ok \in BOOLEAN, Volume!Leaves(d, v, e, ok)
  PROVE  [disk |-> VolumeOf(e), ok |-> ok] \in Outcomes(VolumeOf(d), Saved[v])
<1> DEFINE D == VolumeOf(d)
           E == VolumeOf(e)
           list == Saved[v]
           bak == IF D.live = None THEN D.bak ELSE D.live
<1>1. d["new"] = Volume!None /\ D.new = None
  BY Holds DEF Volume!Leaves, VolumeOf
<1>2. D.live = None <=> ~Volume!Exists(d["live"])
  BY DEF VolumeOf, ContentOf, None, Torn, Whole
<1>3. Volume!IsWhole(d["live"]) => Volume!Exists(d["live"])
  BY DEF Volume!IsWhole, Volume!Exists
<1>4. D = [live |-> D.live, new |-> D.new, bak |-> D.bak]
      /\ E = [live |-> ContentOf(e["live"]), new |-> ContentOf(e["new"]), bak |-> ContentOf(e["bak"])]
      /\ D.live = ContentOf(d["live"]) /\ D.bak = ContentOf(d["bak"])
  BY DEF VolumeOf
<1> SUFFICES [disk |-> E, ok |-> ok] \in Outcomes(D, list)
  OBVIOUS
<1> HIDE DEF D, E, list
<1>5. \A x : [D EXCEPT !.new = x] = [live |-> D.live, new |-> x, bak |-> D.bak]
  BY <1>4
<1>6. \A x : [D EXCEPT !.new = x, !.bak = None] = [live |-> D.live, new |-> x, bak |-> None]
  <2> TAKE x
  <2> DEFINE F == [D EXCEPT !.new = x]
  <2>1. F = [live |-> D.live, new |-> x, bak |-> D.bak]
    BY <1>5
  <2>2. [D EXCEPT !.new = x, !.bak = None] = [F EXCEPT !.bak = None]
    OBVIOUS
  <2> HIDE DEF F
  <2>3. [F EXCEPT !.bak = None] = [live |-> D.live, new |-> x, bak |-> None]
    BY <2>1
  <2> QED BY <2>2, <2>3
<1>7. ASSUME E = [live |-> Whole(list), new |-> None, bak |-> bak]
      PROVE  [disk |-> E, ok |-> TRUE] \in Outcomes(D, list)
  BY <1>1, <1>7, Zenon DEF Outcomes
<1>8. ASSUME \/ E = D
             \/ \E x \in {Torn, Whole(list)} : E = [live |-> D.live, new |-> x, bak |-> D.bak]
             \/ E = [live |-> None, new |-> Whole(list), bak |-> bak]
             \/ D.live # None /\ E = [live |-> D.live, new |-> Whole(list), bak |-> None]
      PROVE  [disk |-> E, ok |-> FALSE] \in Outcomes(D, list)
  <2> DEFINE left == {D, [D EXCEPT !.new = Torn], [D EXCEPT !.new = Whole(list)],
                      [live |-> None, new |-> Whole(list), bak |-> bak]}
                     \cup IF D.live = None THEN {} ELSE {[D EXCEPT !.new = Whole(list), !.bak = None]}
  <2>2. E \in left
    BY <1>5, <1>6, <1>8
  <2>3. \A e1 \in left : [disk |-> e1, ok |-> FALSE] \in Outcomes(D, list)
    <3>1. Outcomes(D, list) = {[disk |-> [live |-> Whole(list), new |-> None, bak |-> bak], ok |-> TRUE]}
                                \cup {[disk |-> e1, ok |-> FALSE] : e1 \in left}
      BY <1>1 DEF Outcomes
    <3> HIDE DEF left
    <3> QED BY <3>1
  <2> QED BY <2>2, <2>3
<1>a. (ok => ok = TRUE) /\ (~ok => ok = FALSE)
  OBVIOUS
<1>9. CASE ok /\ e["live"] = Volume!Whole(v) /\ e["new"] = Volume!None
           /\ e["bak"] = IF Volume!Exists(d["live"]) THEN d["live"] ELSE d["bak"]
  <2>1. ContentOf(e["live"]) = Whole(list) /\ ContentOf(e["new"]) = None
    BY <1>9, Holds DEF list
  <2>2. ContentOf(e["bak"]) = bak
    BY <1>2, <1>4, <1>9
  <2> HIDE DEF bak
  <2>3. E = [live |-> Whole(list), new |-> None, bak |-> bak]
    BY <1>4, <2>1, <2>2
  <2>4. [disk |-> E, ok |-> TRUE] \in Outcomes(D, list)
    BY <1>7, <2>3
  <2> QED BY <1>9, <1>a, <2>4, Zenon
<1>10. CASE ~ok /\ e = d
  <2>1. E = D
    BY <1>10 DEF D, E
  <2>2. [disk |-> E, ok |-> FALSE] \in Outcomes(D, list)
    BY <1>8, <2>1
  <2> QED BY <1>10, <1>a, <2>2, Zenon
<1>11. CASE ~ok /\ e["live"] = d["live"] /\ e["bak"] = d["bak"] /\ e["new"] \in {Volume!Stub(v), Volume!Torn(v), Volume!Whole(v)}
  <2>1. ContentOf(e["new"]) \in {Torn, Whole(list)}
    BY <1>11, Holds DEF list
  <2>2. E = [live |-> D.live, new |-> ContentOf(e["new"]), bak |-> D.bak]
    BY <1>4, <1>11
  <2>3. [disk |-> E, ok |-> FALSE] \in Outcomes(D, list)
    BY <1>8, <2>1, <2>2
  <2> QED BY <1>11, <1>a, <2>3, Zenon
<1>12. CASE ~ok /\ Volume!IsWhole(d["live"]) /\ e["new"] = Volume!Whole(v)
            /\ \/ e["live"] = d["live"] /\ e["bak"] = Volume!None
               \/ e["live"] = Volume!None /\ e["bak"] = d["live"]
  <2>1. D.live # None /\ ContentOf(e["new"]) = Whole(list) /\ ContentOf(Volume!None) = None /\ bak = D.live
    BY <1>2, <1>3, <1>12, Holds DEF list
  <2>2. CASE e["live"] = d["live"] /\ e["bak"] = Volume!None
    <3>1. E = [live |-> D.live, new |-> Whole(list), bak |-> None]
      BY <1>4, <2>1, <2>2
    <3>2. [disk |-> E, ok |-> FALSE] \in Outcomes(D, list)
      BY <1>8, <2>1, <3>1
    <3> QED BY <1>12, <1>a, <3>2, Zenon
  <2>3. CASE e["live"] = Volume!None /\ e["bak"] = d["live"]
    <3>1. E = [live |-> None, new |-> Whole(list), bak |-> bak]
      BY <1>4, <2>1, <2>3
    <3>2. [disk |-> E, ok |-> FALSE] \in Outcomes(D, list)
      BY <1>8, <3>1
    <3> QED BY <1>12, <1>a, <3>2, Zenon
  <2> QED BY <1>12, <2>2, <2>3
<1> HIDE DEF bak
<1> QED BY <1>9, <1>10, <1>11, <1>12, Zenon DEF Volume!Leaves

\* A save of the bookmarks, call by call and with whatever fails, is one of
\* the outcomes that SaveFavorites may have (file_io.cpp:63-89).
THEOREM SaveIsOutcome ==
  ASSUME MaxGen \in Nat \ {0}, Faults = TRUE
  PROVE  Volume!WatchedSpec
           => [][Volume!SaveEnds =>
                   [disk |-> VolumeOf(names'), ok |-> answered' # answered]
                     \in Outcomes(VolumeOf(before), Saved[staged])]_<<Volume!vars, before>>
<1>1. Volume!WatchedSpec
        => [][Volume!SaveEnds => Volume!Leaves(before, staged, names', answered' # answered)]_<<Volume!vars, before>>
  BY Volume!SavesAreOneStep
<1>2. Volume!WatchedSpec => []Volume!IndInv
  BY Volume!Watching
<1>3. Volume!IndInv => staged \in Nat
  BY DEF Volume!IndInv, Volume!TypeOK
<1>4. staged \in Nat /\ [Volume!SaveEnds => Volume!Leaves(before, staged, names', answered' # answered)]_<<Volume!vars, before>>
        => [Volume!SaveEnds =>
              [disk |-> VolumeOf(names'), ok |-> answered' # answered]
                \in Outcomes(VolumeOf(before), Saved[staged])]_<<Volume!vars, before>>
  BY LeavesIsOutcome
<1> QED BY <1>1, <1>2, <1>3, <1>4, PTL

\* What a start reads that can read the whole volume: as Start, if no list
\* that was saved is empty.
StartReads ==
  LET d == VolumeOf(names)
      found == CASE Readable(d.live) -> d.live.list
                 [] ~Readable(d.live) /\ Readable(d.new) -> d.new.list
                 [] ~Readable(d.live) /\ ~Readable(d.new) -> d.bak.list
      e == Volume!Loaded(names, {}) IN
  /\ found = IF e = Volume!None THEN <<>> ELSE Saved[e.gen]
  /\ Volume!MayWrite(names, {}) <=> MayWrite(d)

\* LoadFavorites finds in the generations what Start finds, and lets the
\* session save in the same cases (settings.cpp:354-403).
THEOREM StartIsTheStart ==
  ASSUME MaxGen \in Nat \ {0}, \A g \in Nat : Saved[g] # <<>>
  PROVE  Volume!Spec => []StartReads
<1>1. ASSUME Volume!IndInv PROVE StartReads
  <2> DEFINE whole(n) == Volume!IsWhole(names[n])
             d == VolumeOf(names)
  <2>1. names \in [{"live", "new", "bak"} -> Volume!Entries]
    BY <1>1 DEF Volume!IndInv, Volume!TypeOK, Volume!Names
  <2>2. ASSUME NEW n \in {"live", "new", "bak"}
        PROVE  /\ Readable(ContentOf(names[n])) <=> whole(n)
               /\ whole(n) => ContentOf(names[n]).list = Saved[names[n].gen] /\ names[n] # Volume!None
               /\ ~whole(n) => ContentOf(names[n]).list = <<>>
               /\ ContentOf(names[n]) = None <=> ~Volume!Exists(names[n])
    <3>1. names[n].gen \in Nat
      BY <2>1 DEF Volume!Entries
    <3>2. Saved[names[n].gen] # <<>>
      BY <3>1
    <3> QED BY <3>2 DEF Readable, ContentOf, None, Torn, Whole, Volume!IsWhole, Volume!Exists, Volume!None
  <2>3. d.live = ContentOf(names["live"]) /\ d.new = ContentOf(names["new"]) /\ d.bak = ContentOf(names["bak"])
        /\ d = [live |-> d.live, new |-> d.new, bak |-> d.bak]
    BY DEF VolumeOf
  <2>4. Volume!Found(names, {}) = IF whole("live") THEN {"live"} ELSE IF whole("new") THEN {"new"}
                                  ELSE IF whole("bak") THEN {"bak"} ELSE {}
    BY DEF Volume!Found, Volume!FoundFavorites, Volume!FirstOf, Volume!Names
  <2> HIDE DEF whole, d
  <2>5. Volume!Loaded(names, {}) = IF whole("live") THEN names["live"] ELSE IF whole("new") THEN names["new"]
                                   ELSE IF whole("bak") THEN names["bak"] ELSE Volume!None
    BY <2>4 DEF Volume!Loaded
  <2>6. Volume!MayWrite(names, {}) <=> whole("live") \/ \A n \in {"live", "new", "bak"} : ~Volume!Exists(names[n])
    <3>1. \A n \in {"live", "new", "bak"} : whole(n) => Volume!Exists(names[n])
      BY DEF whole, Volume!IsWhole, Volume!Exists
    <3>2. Volume!FoundFavorites(names, {}) = Volume!Found(names, {})
      BY DEF Volume!Found
    <3> QED BY <2>4, <3>1, <3>2 DEF Volume!MayWrite, Volume!MayWriteFavorites, Volume!Names
  <2>7. MayWrite(d) <=> whole("live") \/ \A n \in {"live", "new", "bak"} : ~Volume!Exists(names[n])
    <3>1. Readable(d.live) <=> whole("live")
      BY <2>2, <2>3
    <3>2. d = [live |-> None, new |-> None, bak |-> None] <=> d.live = None /\ d.new = None /\ d.bak = None
      BY <2>3
    <3>3. d = [live |-> None, new |-> None, bak |-> None] <=> \A n \in {"live", "new", "bak"} : ~Volume!Exists(names[n])
      BY <2>2, <2>3, <3>2
    <3> QED BY <3>1, <3>3 DEF MayWrite
  <2>8. CASE whole("live")
    BY <2>2, <2>3, <2>5, <2>6, <2>7, <2>8 DEF StartReads, d
  <2>9. CASE ~whole("live") /\ whole("new")
    BY <2>2, <2>3, <2>5, <2>6, <2>7, <2>9 DEF StartReads, d
  <2>10. CASE ~whole("live") /\ ~whole("new")
    BY <2>2, <2>3, <2>5, <2>6, <2>7, <2>10 DEF StartReads, d
  <2> QED BY <2>8, <2>9, <2>10
<1>2. Volume!Spec => []Volume!IndInv
  BY Volume!Invariance
<1> QED BY <1>1, <1>2, PTL
=============================================================================
