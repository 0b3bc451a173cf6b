------------------------------ MODULE TagList ------------------------------
(***************************************************************************)
(* getTag of src/html_parser/htmlcxx.cpp: the tree of a document (Dom) is  *)
(* walked in document order and becomes the list of items that DisplayHTML *)
(* lays out.  Texts are kept as the nodes they come from.                  *)
(***************************************************************************)
EXTENDS Dom, FiniteSets

CONSTANTS MaxItems   \* the 256 of the loop

VARIABLES
  it,      \* the node of the next iteration
  parent,  \* names of the closed tags around it
  open,    \* the items that take text: title, a, form, text; 0 if none
  l1,      \* the items: name and texts
  ended    \* the loop was left

listVars == <<it, parent, open, l1, ended>>
vars == <<domVars, listVars>>

Listed == {"title", "form", "p", "a", "div", "b", "td", "li"}   \* from TITLE up
Container == {"p", "div", "form", "title", "td", "li"}

Init ==
  /\ DomInit /\ it = Root /\ parent = <<>>
  /\ open = [title |-> 0, a |-> 0, form |-> 0, text |-> 0]
  /\ l1 = <<>> /\ ended = FALSE

Parse == DomNext /\ UNCHANGED listVars

\* checkparent
Visible == \E i \in DOMAIN parent : parent[i] \in Listed
Is(kind) == node[it].kind = kind
name == node[it].name

Iteration ==
  /\ parsed /\ ~ended /\ it # Feet
  /\ Len(l1) < MaxItems /\ depth(t, it) <= MaxNesting
  /\ UNCHANGED <<domVars, ended>>

Advance == it' = NextNode(t, it, FALSE)
Add(names) == l1' = l1 \o [i \in DOMAIN names |-> [name |-> names[i], texts |-> <<>>]]

SkipScript ==
  /\ Iteration /\ name = "script"
  /\ it' = NextNode(t, it, TRUE) /\ UNCHANGED <<parent, open, l1>>

PassComment ==
  /\ Iteration /\ name # "script" /\ Is("comment")
  /\ Advance /\ UNCHANGED <<parent, open, l1>>

\* merge into what is open, or into a new item.
ListText ==
  /\ Iteration /\ Is("text") /\ Advance /\ UNCHANGED parent
  /\ LET home == IF open.title # 0 THEN open.title ELSE IF open.a # 0 THEN open.a ELSE open.text
     IN IF ~Visible THEN UNCHANGED <<open, l1>>
        ELSE IF home # 0
        THEN l1' = [l1 EXCEPT ![home].texts = Append(@, it)] /\ UNCHANGED open
        ELSE /\ l1' = Append(l1, [name |-> "text", texts |-> <<it>>])
             /\ open' = [open EXCEPT !.text = Len(l1')]

\* display:none, or the rules themselves; a form keeps its hidden parts.
Skipped == (Is("root") \/ Is("tag")) /\ (node[it].hidden \/ name = "style") /\ open.form = 0

SkipHidden ==
  /\ Iteration /\ name # "script" /\ Skipped
  /\ LET following == NextNode(t, it, TRUE)
     IN it' = IF following # Feet /\ node[following].kind = "end" /\ node[following].name = name
              THEN NextNode(t, following, FALSE) ELSE following
  /\ UNCHANGED <<parent, open, l1>>

Break(tag) == IF tag = "p" THEN <<"p">> ELSE IF tag \in Container THEN <<"return">> ELSE <<>>

\* An image starts a line unless another or a link stands before it.
NewLine ==
  name = "img" /\ PrevNode(t, it) # Null /\ node[PrevNode(t, it)].name \notin {"img", "a"}

Made ==
  Break(name) \o
  CASE name \in {"title", "a", "form", "meta", "base"} -> <<name>>
    [] name = "img" -> IF NewLine THEN <<"return", "img">> ELSE <<"img">>
    [] name = "button" /\ open.form # 0 -> <<"a">>    \* <input type="button">
    [] OTHER -> <<>>

OpenTag ==
  /\ Iteration /\ name # "script" /\ (Is("tag") \/ Is("root")) /\ ~Skipped
  /\ Advance
  /\ parent' = IF node[it].closed THEN Append(parent, name) ELSE parent
  /\ Add(Made)
  /\ open' = [k \in DOMAIN open |->
                IF k = "text" THEN (IF name \in Container \cup {"a"} \/ NewLine THEN 0 ELSE open.text)
                ELSE IF k = name THEN Len(l1') ELSE open[k]]

CloseTag ==
  /\ Iteration /\ name # "script" /\ Is("end")
  /\ Advance
  /\ parent' = IF parent = <<>> THEN parent ELSE SubSeq(parent, 1, Len(parent) - 1)
  /\ open' = [k \in DOMAIN open |->
                IF k = "text" THEN (IF name \in Container \cup {"a"} THEN 0 ELSE open.text)
                ELSE IF k = name /\ parent # <<>> THEN 0 ELSE open[k]]
  /\ Add(Break(name))

Leave ==
  /\ parsed /\ ~ended
  /\ it = Feet \/ Len(l1) >= MaxItems \/ depth(t, it) > MaxNesting
  /\ ended' = TRUE /\ UNCHANGED <<domVars, it, parent, open, l1>>

Next ==
  \/ Parse
  \/ SkipScript \/ PassComment \/ ListText \/ SkipHidden
  \/ OpenTag \/ CloseTag
  \/ Leave

Spec == Init /\ [][Next]_vars

-----------------------------------------------------------------------------
(* Properties.                                                             *)

\* The stack that fonts, sizes and visibility are read from is never out of
\* step with the tree: it names the closed tags around the node, and the one
\* that is about to end (htmlcxx.cpp:293-500).
ParentsAreOpen ==
  parsed /\ ~ended /\ it # Feet =>
    LET around == SelectSeq(Ancestors(t, it), LAMBDA n : node[n].closed)
        own == IF Is("end") /\ name # "script" THEN <<name>> ELSE <<>>
    IN parent = [i \in DOMAIN around |-> node[around[i]].name] \o own

\* What the reader sees is the document: every text outside forms that
\* stands in a tag that is shown, and is neither script, style nor hidden,
\* is listed once, in document order (titles apart), and no other text.
AfterForm(n) == \E m \in Nodes(t) : node[m].name = "form" /\ node[m].offset <= node[n].offset
Suppressed(m) == node[m].hidden \/ node[m].name \in {"script", "style"}
Expected ==
  {n \in Nodes(t) :
     /\ node[n].kind = "text"
     /\ it = Feet \/ node[n].offset < node[it].offset
     /\ \A m \in {Ancestors(t, n)[i] : i \in DOMAIN Ancestors(t, n)} : ~Suppressed(m)
     /\ \E m \in {Ancestors(t, n)[i] : i \in DOMAIN Ancestors(t, n)} :
          node[m].closed /\ node[m].name \in Listed}
ReadsInOrder ==
  LET all[i \in 0..Len(l1)] == IF i = 0 THEN <<>> ELSE all[i - 1] \o l1[i].texts
      body[i \in 0..Len(l1)] ==
        IF i = 0 THEN <<>> ELSE IF l1[i].name = "title" THEN body[i - 1] ELSE body[i - 1] \o l1[i].texts
      listed == all[Len(l1)]
      Of(seq) == {seq[i] : i \in DOMAIN seq}
  IN parsed /\ (\A n \in Nodes(t) : ~AfterForm(n)) =>
       /\ Of(listed) = Expected /\ Cardinality(Expected) = Len(listed)
       /\ \A i, j \in DOMAIN body[Len(l1)] :
            i < j => node[body[Len(l1)][i]].offset < node[body[Len(l1)][j]].offset
=============================================================================
