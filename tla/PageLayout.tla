----------------------------- MODULE PageLayout -----------------------------
(***************************************************************************)
(* The loop of DisplayHTML (src/html_parser/html.cpp) that lays out the    *)
(* items of a page as far as the screen reaches, scrolls them, and hides   *)
(* and shows what leaves and enters the screen, one element at each end    *)
(* per iteration.  The list Index is a sequence here, its oldest element   *)
(* first: prox is the one before, prec the one behind.  Heights are in     *)
(* units of 25 pixels; places on a line and sideways scrolling are left    *)
(* out.                                                                    *)
(***************************************************************************)
EXTENDS Naturals, Integers, Sequences

CONSTANTS
  ScreenHeight,
  Sizes,        \* heights an element may have
  Pages,        \* the kinds of the items of a page
  MaxWidgets,   \* the 256 of widgets++
  MaxScrolls    \* presses of up and down

VARIABLES
  elems,    \* y, size and shown of every element
  first,    \* index of the topmost element not hidden above, 0 is NULL
  last,     \* and of the lowest one not hidden below
  ext,      \* the element the page is placed by
  height,   \* Doc.Height
  rest,     \* items not laid out yet: a sequence of kinds
  widgets,
  thumb,    \* done: the thumbnail was taken
  scrolls,
  choice    \* the page is left

vars == <<elems, first, last, ext, height, rest, widgets, thumb, scrolls, choice>>

Init ==
  /\ elems = <<>> /\ first = 0 /\ last = 0 /\ ext = 0
  /\ height = 0 /\ widgets = 0
  /\ rest \in Pages
  /\ thumb = FALSE /\ scrolls = 0 /\ choice = FALSE

Index == Len(elems)
Bottom(e) == e.y + e.size
Behind(i) == IF i = Index THEN 0 ELSE i + 1     \* prec; prox is i - 1

-----------------------------------------------------------------------------
(* One iteration.                                                          *)

\* Clear: at most one element is hidden at each end.
Top == IF first = 0 THEN ext ELSE first
Low == IF last = 0 THEN Index ELSE last
Above == Top # 0 /\ Bottom(elems[Top]) < 0
Under == Low # 0 /\ elems[Low].y > ScreenHeight + 1
TopCleared == IF Above THEN Behind(Top) ELSE Top
LowCleared == IF Under THEN Low - 1 ELSE Low

\* Mutant: an element comes back when all of it is on the screen.
TopBack_Whole == TopCleared > 1 /\ elems[TopCleared - 1].y >= 0

\* ... at most one is shown again at the top, unless it was the last one
\* that was hidden there.
TopBack == TopCleared > 1 /\ Bottom(elems[TopCleared - 1]) >= 0

\* ... and at the bottom.
LowBack == LowCleared # 0 /\ LowCleared # Index
LowFits == LowBack /\ elems[LowCleared + 1].y < ScreenHeight + 1

Cleared ==
  [i \in 1..Index |->
     [elems[i] EXCEPT !.shown =
        IF (TopBack /\ i = TopCleared - 1) \/ (LowFits /\ i = LowCleared + 1) THEN TRUE
        ELSE IF (Above /\ i = Top) \/ (Under /\ i = Low) THEN FALSE
        ELSE @]]

\* The page starts where ext is, which is what Index was when it was seen.
Ext == IF ext = 0 THEN Index ELSE ext
YPos == IF Ext = 0 THEN 1 ELSE elems[Ext].y
RoomBelow == ~LowBack /\ YPos + height < ScreenHeight + 1

\* Elements one below the other; widgets++ is tested before each of them.
Laid(sizes, at) ==
  LET below[i \in 0..Len(sizes)] == IF i = 0 THEN at ELSE below[i - 1] + sizes[i]
  IN [i \in DOMAIN sizes |->
        [y |-> YPos + below[i - 1], size |-> sizes[i], shown |-> TRUE]]
Total(sizes) ==
  LET sum[i \in 0..Len(sizes)] == IF i = 0 THEN 0 ELSE sum[i - 1] + sizes[i] IN sum[Len(sizes)]

Follows(kinds) == Len(rest) > 1 /\ rest[2] \in kinds

\* What an item may become: the elements appended, the height added, the
\* widgets counted.
Piece(new, more, used) == [new |-> new, more |-> more, used |-> used]
Stack(sizes) == Piece(Laid(sizes, height), Total(sizes), 0)
Allowed(sizes) ==   \* of a link or a text that was split in parts
  SubSeq(sizes, 1, IF widgets >= MaxWidgets THEN 0
                   ELSE IF widgets + Len(sizes) > MaxWidgets THEN MaxWidgets - widgets ELSE Len(sizes))
LineHeight == IF Index = 0 THEN 0 ELSE elems[Index].size

Pieces(kind) ==
  CASE kind = "title" -> {Stack(<<s>>) : s \in Sizes}
    [] kind = "texts" ->
         {[Stack(Allowed(sizes)) EXCEPT !.used = Len(Allowed(sizes))] :
            sizes \in UNION {[1..n -> Sizes] : n \in 1..2}}
    [] kind = "image" ->     \* on the line of the last one or below it
         {Piece(Laid(<<s>>, height + start), start + (IF Follows({"image"}) THEN 0 ELSE s), 0) :
            s \in Sizes, start \in {0, LineHeight}}
    [] kind = "form" -> {Stack(<<2>>)}
    [] kind \in {"return", "p"} ->
         {Piece(<<>>, IF Follows({"p", "return"}) THEN 0 ELSE IF kind = "p" THEN 2 ELSE 1, 0)}
    [] OTHER -> {Piece(<<>>, 0, 0)}

\* HandleHtmlPad, on what is on the page by then.
Scroll(dir, list) ==
  /\ list # <<>> /\ scrolls < MaxScrolls
  /\ dir = "up" => Ext = 0 \/ list[Ext].y + 1 < ScreenHeight
  /\ dir = "down" => Bottom(list[Len(list)]) > 1
  /\ dir # "none"

Moved(dir, list) ==
  LET dy == IF Scroll(dir, list) THEN (IF dir = "up" THEN 1 ELSE -1) ELSE 0
  IN [i \in DOMAIN list |-> [list[i] EXCEPT !.y = @ + dy]]

Pad(list) ==
  \E dir \in {"none", "up", "down"} :
    /\ elems' = Moved(dir, list)
    /\ scrolls' = (IF Scroll(dir, list) THEN scrolls + 1 ELSE scrolls)

Iteration ==
  /\ ~choice
  /\ first' = (IF TopBack THEN TopCleared - 1 ELSE TopCleared)
  /\ last' = (IF LowFits THEN LowCleared + 1 ELSE LowCleared)
  /\ ext' = Ext
  /\ \/ /\ rest # <<>> /\ RoomBelow /\ rest' = Tail(rest)
        /\ \E piece \in Pieces(Head(rest)) :
             /\ height' = height + piece.more /\ widgets' = widgets + piece.used
             /\ Pad(Cleared \o piece.new)
        /\ UNCHANGED thumb
     \/ /\ rest = <<>> \/ ~RoomBelow
        /\ Pad(Cleared)
        /\ thumb' = (thumb \/ ~LowBack)
        /\ UNCHANGED <<rest, height, widgets>>
  /\ UNCHANGED choice

\* A link, the bar, a refresh or an exit.
LeavePage ==
  /\ ~choice /\ choice' = TRUE
  /\ UNCHANGED <<elems, first, last, ext, height, rest, widgets, thumb, scrolls>>

Next == Iteration \/ LeavePage

Spec == Init /\ [][Next]_vars /\ WF_vars(Iteration)

-----------------------------------------------------------------------------
(* Properties.                                                             *)

OnScreen(e) == Bottom(e) >= 0 /\ e.y < ScreenHeight + 1

\* When the reader stops scrolling, everything that is on the screen is
\* shown after some iterations, whatever went off and came back in between
\* (html.cpp:245-275, html_helpers.cpp:33-46).
ScreenShown == choice \/ \A i \in DOMAIN elems : OnScreen(elems[i]) => elems[i].shown
ScreenSettles == <>[]ScreenShown
=============================================================================
