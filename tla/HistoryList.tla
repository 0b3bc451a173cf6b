---------------------------- MODULE HistoryList ----------------------------
(***************************************************************************)
(* The history as the code keeps it: entries on the heap, each with a      *)
(* pointer to the one before and the one after, and `history`, the entry   *)
(* the user stands on (src/core/liste.cpp, src/ui/menu.cpp).  InsUrl drops *)
(* what lay ahead and, beyond MaxTrail entries, the oldest.                *)
(***************************************************************************)
EXTENDS Naturals, Sequences, FiniteSets, FiniteSetsExt, SequencesExt

CONSTANTS
  Urls,      \* addresses InsUrl takes
  MaxTrail,  \* entries it keeps: 128
  Length,    \* Length[u]: bytes of an address
  MaxUrl,    \* the longest address: 4096
  EndList    \* bytes of the last line, "# End List" and its newline: 11

\* The code keeps at least one entry.
HistoryAssumption ==
  /\ MaxTrail \in Nat \ {0}
  /\ Length \in [Urls -> Nat]
  /\ MaxUrl \in Nat /\ EndList \in Nat

VARIABLES
  heap,     \* heap[n]: the entries that are allocated
  history,  \* the current entry, or NULL
  dumped,   \* the lines of history.txt when the session began
  historyWritable

vars == <<heap, history, dumped, historyWritable>>
historyFile == <<dumped, historyWritable>>

NULL == 0
NotHttp == "not http"   \* an address wbl::httpUrl refuses

\* One more than is kept: InsUrl allocates before it deletes.
Entries == 1..MaxTrail + 1

\* A first start finds no file, which may be written.
Init == heap = <<>> /\ history = NULL /\ dumped = <<>> /\ historyWritable = TRUE

-----------------------------------------------------------------------------
(* Walking the pointers.                                                   *)

Prox(mem, n) == IF n = NULL THEN NULL ELSE mem[n].prox
Prec(mem, n) == IF n = NULL THEN NULL ELSE mem[n].prec

\* The entries from n on, in the order of prox.
From(mem, n) ==
  LET walk[m \in DOMAIN mem \cup {NULL}] ==
        IF m = NULL THEN <<>> ELSE <<m>> \o walk[mem[m].prox]
  IN walk[n]

RewindHistory(mem, n) ==
  LET walk[m \in DOMAIN mem \cup {NULL}] ==
        IF Prec(mem, m) = NULL THEN m ELSE walk[mem[m].prec]
  IN walk[n]

\* delete on every entry of `gone`: nothing else changes.
Delete(mem, gone) == [n \in DOMAIN mem \ gone |-> mem[n]]

-----------------------------------------------------------------------------
(* The operations, on a list [mem, here].                                  *)

Cut(l) == [l EXCEPT !.mem = Delete(l.mem, ToSet(From(l.mem, Prox(l.mem, l.here))))]

\* Mutant: the trail after the current page stays when another is visited.
Link_KeepsTail(l, u) ==
  LET punt == Min(Entries \ DOMAIN l.mem)
  IN [mem |-> [n \in DOMAIN l.mem \cup {punt} |->
                 IF n = punt THEN [url |-> u, prec |-> l.here, prox |-> Prox(l.mem, l.here)]
                 ELSE IF n = l.here THEN [l.mem[n] EXCEPT !.prox = punt]
                 ELSE l.mem[n]],
      here |-> punt]

Link(l, u) ==
  LET punt == Min(Entries \ DOMAIN l.mem)
      cut == Cut(l)
  IN [mem |-> [n \in DOMAIN cut.mem \cup {punt} |->
                 IF n = punt THEN [url |-> u, prec |-> l.here, prox |-> NULL]
                 ELSE IF n = l.here THEN [cut.mem[n] EXCEPT !.prox = punt]
                 ELSE cut.mem[n]],
      here |-> punt]

\* Mutant: the oldest entry keeps its pointer to the one that was dropped.
Trim_KeepsPrec(l) ==
  LET all == From(l.mem, RewindHistory(l.mem, l.here))
      surplus == IF Len(all) > MaxTrail THEN Len(all) - MaxTrail ELSE 0
  IN [l EXCEPT !.mem = Delete(l.mem, {all[i] : i \in 1..surplus})]

\* Deletes from the oldest on while more than MaxTrail are left.
Trim(l) ==
  LET all == From(l.mem, RewindHistory(l.mem, l.here))
      surplus == IF Len(all) > MaxTrail THEN Len(all) - MaxTrail ELSE 0
      kept == Delete(l.mem, {all[i] : i \in 1..surplus})
  IN [l EXCEPT !.mem = IF surplus = 0 THEN kept
                       ELSE [kept EXCEPT ![all[surplus + 1]].prec = NULL]]

InsUrl(l, u) == IF u = NotHttp THEN l ELSE Trim(Link(l, u))

Addresses(mem, n) ==
  LET all == From(mem, RewindHistory(mem, n))
  IN [i \in DOMAIN all |-> mem[all[i]].url]

\* The file as DumpList writes it and the most readBounded accepts.
Bytes(lines) ==
  LET sum[n \in 0..Len(lines)] ==
        IF n = 0 THEN EndList ELSE sum[n - 1] + Length[lines[n]] + 1
  IN sum[Len(lines)]
MaxBytes == MaxTrail * (MaxUrl + 1)

Empty == [mem |-> <<>>, here |-> NULL]

\* The lines of the file, inserted one after the other.
Inserted(lines) ==
  LET list[n \in 0..Len(lines)] == IF n = 0 THEN Empty ELSE InsUrl(list[n - 1], lines[n])
  IN list[Len(lines)]

\* Mutant: a file of just the size the reader takes is refused.
LoadList_Less(lines) == IF Bytes(lines) >= MaxBytes THEN Empty ELSE Inserted(lines)

LoadList(lines) == IF Bytes(lines) > MaxBytes THEN Empty ELSE Inserted(lines)

-----------------------------------------------------------------------------
(* Who calls them.                                                         *)

Put(l) == heap' = l.mem /\ history' = l.here

\* MenuBrowse showed u: a reload of the current page is no visit.
Visit(u) ==
  /\ history # NULL => heap[history].url # u
  /\ Put(InsUrl([mem |-> heap, here |-> history], u)) /\ UNCHANGED historyFile

\* The buttons of the home page and of the page's own bar.
GoBack    == Prec(heap, history) # NULL /\ history' = heap[history].prec /\ UNCHANGED <<heap, historyFile>>
GoForward == Prox(heap, history) # NULL /\ history' = heap[history].prox /\ UNCHANGED <<heap, historyFile>>

\* What DumpList at the exit leaves, the calls of a save succeeding: what
\* failures leave on the volume is in Session and RecoverableFile.
Left == IF historyWritable THEN Addresses(heap, history) ELSE dumped

\* LoadList at the next start.
Restart ==
  /\ Put(LoadList(Left))
  /\ dumped' = Left /\ historyWritable' = (Bytes(Left) <= MaxBytes)

\* A start without the old session: FreeHistory; nobody asks the file, so that
\* it stays as it is.
DeleteSession ==
  /\ Put([mem |-> Delete(heap, ToSet(From(heap, RewindHistory(heap, history)))), here |-> NULL])
  /\ dumped' = Left /\ historyWritable' = FALSE

Next ==
  \/ \E u \in Urls \cup {NotHttp} : Visit(u)
  \/ GoBack
  \/ GoForward
  \/ Restart
  \/ DeleteSession

Spec == Init /\ [][Next]_vars

-----------------------------------------------------------------------------
(* Properties.                                                             *)

\* Whatever is visited, walked, cut and trimmed, the pointers agree both
\* ways and no entry is lost on the heap or reached after its delete
\* (liste.cpp:164-193).
WellLinked ==
  /\ \A n \in DOMAIN heap : {Prec(heap, n), Prox(heap, n)} \subseteq DOMAIN heap \cup {NULL}
  /\ DOMAIN heap = ToSet(From(heap, RewindHistory(heap, history)))
  /\ history \in DOMAIN heap \cup {NULL}
  /\ Cardinality(DOMAIN heap) <= MaxTrail
  /\ \A n \in DOMAIN heap :
       /\ Prox(heap, n) # NULL => Prec(heap, Prox(heap, n)) = n
       /\ Prec(heap, n) # NULL => Prox(heap, Prec(heap, n)) = n

\* The menus see the trail of Trail.tla, over restarts too.
Walked == INSTANCE Trail WITH
  saved <- dumped, keeps <- historyWritable,
  trail <- Addresses(heap, history),
  at <- Len(From(heap, RewindHistory(heap, history))) - Len(From(heap, Prox(heap, history)))

ImplementsTrail == Walked!Spec

\* A start finds the whole list of the last session that may write it, those
\* between that began without it leaving it alone, unless its lines and the
\* last one are more bytes than the reader accepts: then this start and all
\* that follow find nothing, and the file stays (liste.cpp:196-224).
TrailKept ==
  Restart =>
    LET found == Addresses(heap', history')
    IN /\ historyWritable => dumped' = Addresses(heap, history)
       /\ ~historyWritable => dumped' = dumped
       /\ IF Bytes(dumped') <= MaxBytes THEN found = dumped' /\ historyWritable'
          ELSE found = <<>> /\ ~historyWritable'
RestartKeepsTrail == [][TrailKept]_vars
=============================================================================
