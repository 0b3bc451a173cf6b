----------------------------- MODULE PageItems -----------------------------
(***************************************************************************)
(* The objects of a shown page: the lists that own them (liste.cpp), the   *)
(* window that draws them and the way they are taken down (AddButton,      *)
(* AddImage and the end of DisplayHTML of html.cpp, DrawScroll and FreeMem *)
(* of html_helpers.cpp).  The GUI thread may draw between any two steps.   *)
(***************************************************************************)
EXTENDS Naturals, Sequences, FiniteSets, SequencesExt

CONSTANTS
  MaxItems,      \* bound: items of a page
  MaxFields,     \* fields a form may have
  Options        \* what a field may be: "checked" or ""

\* A form has room for a field.
ItemsAssumption == MaxFields \in Nat \ {0}

VARIABLES
  pc,
  input,                 \* the fields of the page's form
  asked,                 \* what the page said of the fields collected, in order
  text, btn, img,        \* the lists, newest first, of the items' numbers
  Index,                 \* the elements shown on the page, newest first
  window,                \* the elements of renderWindow
  heap,                  \* objects allocated and not freed
  wrong                  \* objects freed that were not allocated

vars == <<pc, input, asked, text, btn, img, Index, window, heap, wrong>>

Object(kind, n) == <<kind, n>>
Of(kinds, n) == {Object(k, n) : k \in kinds}
Common == Of({"btnSoundOver", "trigA", "scrollWindow"}, 0)

Init ==
  /\ pc = "tags"
  /\ input = <<>> /\ asked = <<>>
  /\ text = <<>> /\ btn = <<>> /\ img = <<>> /\ Index = <<>>
  /\ window = {} /\ heap = Common /\ wrong = {}

\* A field goes to the end of the list while there is room.
InsInFondo(list) == IF Len(list) >= MaxFields THEN list ELSE Append(list, "")
SetOption(list, option) == [list EXCEPT ![Len(list)] = option]

Collect(list, option) ==
  /\ pc = "tags" /\ Len(asked) <= MaxFields
  /\ input' = list /\ heap' = heap \cup {Object("Input", Len(list))}
  /\ asked' = Append(asked, option)
  /\ UNCHANGED <<pc, text, btn, img, Index, window, wrong>>

\* An <input> is collected while there is room, and its option set on the
\* field that is the last then; a <textarea> is, with room or without.
AddInput(option) == Len(input) < MaxFields /\ Collect(SetOption(InsInFondo(input), option), option)
AddTextarea == Collect(InsInFondo(input), "")

EndTags == pc = "tags" /\ pc' = "show" /\ UNCHANGED <<input, asked, text, btn, img, Index, window, heap, wrong>>

\* The elements and what they use while they are drawn.
Parts(e) ==
  CASE e[1] = "txt" -> {e}
    [] e[1] = "img" -> {e} \cup (Of({"imgdata"}, e[2]) \cap heap)
    [] e[1] = "anchor" -> {e} \cup Common \cup Of({"label", "tooltip"}, e[2])
    [] e[1] = "linked" -> {e} \cup Common \cup Of({"img"}, e[2])
    [] e[1] = "form" -> {e} \cup Common \cup Of({"ownedImage"}, e[2])
    [] e[1] = "scrollWindow" -> {e} \cup Of({"btnup", "btndown", "resources"}, 0)

n == Len(Index) + 1
Shown(e, objects) ==
  /\ pc = "show" /\ n <= MaxItems
  /\ heap' = heap \cup {e} \cup objects
  /\ window' = window \cup {e}
  /\ Index' = <<e>> \o Index
  /\ UNCHANGED <<pc, input, asked, wrong>>

AddText == Shown(Object("txt", n), Of({"Text"}, n)) /\ text' = <<n>> \o text /\ UNCHANGED <<btn, img>>
AddAnchor == Shown(Object("anchor", n), Of({"Button", "label", "tooltip"}, n)) /\ btn' = <<n>> \o btn /\ UNCHANGED <<text, img>>
AddForm == Shown(Object("form", n), Of({"Button", "ownedImage"}, n)) /\ btn' = <<n>> \o btn /\ UNCHANGED <<text, img>>
AddImage == Shown(Object("img", n), Of({"Image"}, n)) /\ img' = <<n>> \o img /\ UNCHANGED <<text, btn>>

\* The image in a link is part of its button.
AddLinkedImage ==
  /\ Shown(Object("linked", n), Of({"Button", "Image", "img"}, n))
  /\ btn' = <<n>> \o btn /\ img' = <<n>> \o img /\ UNCHANGED text

\* The image thread has got the data of an image; it ends before the page
\* is taken down.
ImageArrives ==
  /\ pc = "show"
  /\ \E k \in ToSet(img) : Object("imgdata", k) \notin heap /\ heap' = heap \cup {Object("imgdata", k)}
  /\ UNCHANGED <<pc, input, asked, text, btn, img, Index, window, wrong>>

DrawScroll ==
  /\ pc = "show" /\ Object("scrollWindow", 0) \notin window
  /\ heap' = heap \cup Of({"btnup", "btndown", "resources"}, 0)
  /\ window' = window \cup {Object("scrollWindow", 0)}
  /\ UNCHANGED <<pc, input, asked, text, btn, img, Index, wrong>>

Goes(from, to) == pc = from /\ pc' = to
Freed(objects) == heap' = heap \ objects /\ wrong' = wrong \cup (objects \ heap)
All(list, kinds) == UNION {Of(kinds, k) : k \in ToSet(list)}
Taken(list, kinds) == All(list, kinds) \cap heap      \* delete of NULL does nothing

Leave ==
  /\ Goes("show", "effect")
  /\ window' = window \ {Object("scrollWindow", 0)}
  /\ UNCHANGED <<input, asked, text, btn, img, Index, heap, wrong>>

\* FreeMem: the elements slide out, then all leave the window together.
Unlink ==
  /\ Goes("effect", "DistruggiText")
  /\ window' = window \ ToSet(Index)
  /\ UNCHANGED <<input, asked, text, btn, img, Index, heap, wrong>>

DistruggiText ==
  /\ Goes("DistruggiText", "DistruggiButton")
  /\ Freed(All(text, {"Text", "txt"})) /\ text' = <<>>
  /\ UNCHANGED <<input, asked, btn, img, Index, window>>

DistruggiButton ==
  /\ Goes("DistruggiButton", "DistruggiImg")
  /\ Freed(All(btn, {"Button"}) \cup Taken(btn, {"anchor", "linked", "form", "label", "tooltip", "ownedImage"}))
  /\ btn' = <<>>
  /\ UNCHANGED <<input, asked, text, img, Index, window>>

DistruggiImg ==
  /\ Goes("DistruggiImg", "DistruggiIndex")
  /\ Freed(All(img, {"Image", "img"}) \cup Taken(img, {"imgdata"})) /\ img' = <<>>
  /\ UNCHANGED <<input, asked, text, btn, Index, window>>

DistruggiIndex ==
  /\ Goes("DistruggiIndex", "DistruggiInput")
  /\ Index' = <<>>
  /\ UNCHANGED <<input, asked, text, btn, img, window, heap, wrong>>

DistruggiInput ==
  /\ Goes("DistruggiInput", "scroll")
  /\ Freed({Object("Input", k) : k \in DOMAIN input}) /\ input' = <<>>
  /\ UNCHANGED <<asked, text, btn, img, Index, window>>

\* The buttons of the scroll bar if they were made, the common objects and,
\* as DisplayHTML returns, what the bar was drawn with.
EndDisplay ==
  /\ Goes("scroll", "done")
  /\ Freed((Of({"btnup", "btndown", "resources"}, 0) \cap heap) \cup Common)
  /\ UNCHANGED <<input, asked, text, btn, img, Index, window>>

Next ==
  \/ (\E o \in Options : AddInput(o)) \/ AddTextarea
  \/ EndTags \/ AddText \/ AddAnchor \/ AddForm \/ AddImage \/ AddLinkedImage
  \/ ImageArrives \/ DrawScroll \/ Leave \/ Unlink
  \/ DistruggiText \/ DistruggiButton \/ DistruggiImg \/ DistruggiIndex \/ DistruggiInput \/ EndDisplay

Spec == Init /\ [][Next]_vars

-----------------------------------------------------------------------------
\* Whatever the window draws, and what that uses, is allocated; nothing is
\* freed twice and nothing of the page is left when DisplayHTML returns; and
\* each field has the option the page gave it, however many there were
\* (html.cpp:93-163, 618-660, html_helpers.cpp:57-119, liste.cpp:23-145).
PageTakenDownWhole ==
  /\ \A e \in window : Parts(e) \subseteq heap
  /\ wrong = {}
  /\ pc = "done" => heap = {} /\ window = {}
  /\ \A k \in DOMAIN input : input[k] = asked[k]
=============================================================================
