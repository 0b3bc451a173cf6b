-------------------------------- MODULE Dom --------------------------------
(***************************************************************************)
(* A document becomes a tree: the callbacks of src/html_parser/ParserDom.cpp*)
(* for the tokens the tokenizer (Markup) finds, one action each, beside the*)
(* stack that markupBudget (src/utils/safety.cpp) counts for the same      *)
(* tokens.  Every token is one character long here.  The tree is the linked *)
(* tree of src/html_parser/tree.h, with the operations this program uses.  *)
(***************************************************************************)
EXTENDS Naturals, Sequences

-----------------------------------------------------------------------------
(* tree.h.  A tree is a record of five sequences of pointers, indexed by   *)
(* node; 0 is the null pointer.                                            *)

Null == 0
Feet == 1     \* the node behind the last one: end()
Root == 2     \* begin(), once it is inserted

\* head_initialise_ and insert(begin(), x): head is never looked at again.
Planted ==
  [parent |-> <<Null, Null>>, first |-> <<Null, Null>>, last |-> <<Null, Null>>,
   prev |-> <<Root, Null>>, next |-> <<Null, Feet>>]

Nodes(t) == Root..Len(t.parent)
NewNode(t) == Len(t.parent) + 1

append_child(t, n) ==
  LET new == NewNode(t)
  IN [parent |-> Append(t.parent, n),
      first  |-> Append(IF t.last[n] = Null THEN [t.first EXCEPT ![n] = new] ELSE t.first, Null),
      last   |-> Append([t.last EXCEPT ![n] = new], Null),
      prev   |-> Append(t.prev, t.last[n]),
      next   |-> Append(IF t.last[n] = Null THEN t.next ELSE [t.next EXCEPT ![t.last[n]] = new], Null)]

\* A node and the siblings behind it.
Chain(t, n) ==
  LET chain[m \in 0..Len(t.next)] == IF m = Null THEN <<>> ELSE <<m>> \o chain[t.next[m]]
  IN chain[n]
Kids(t, n) == Chain(t, t.first[n])

\* The children become the siblings behind their parent.
flatten(t, n) ==
  IF t.first[n] = Null THEN t ELSE
  LET up == t.parent[n]
      after == t.next[n]
      first == t.first[n]
      last == t.last[n]
      kids == Kids(t, n)
  IN [parent |-> [m \in DOMAIN t.parent |-> IF \E i \in DOMAIN kids : kids[i] = m THEN up ELSE t.parent[m]],
      next   |-> [t.next EXCEPT ![last] = IF after # Null THEN after ELSE @, ![n] = first],
      prev   |-> [m \in DOMAIN t.prev |->
                    IF m = first THEN n ELSE IF m = after THEN last ELSE t.prev[m]],
      last   |-> [m \in DOMAIN t.last |->
                    IF m = n THEN Null ELSE IF m = up /\ after = Null THEN last ELSE t.last[m]],
      first  |-> [t.first EXCEPT ![n] = Null]]

\* operator++, after skip_children() or not.
NextNode(t, n, skip) ==
  LET climb[m \in 0..Len(t.next)] ==
        IF m = Null THEN Null ELSE IF t.next[m] # Null THEN t.next[m] ELSE climb[t.parent[m]]
  IN IF ~skip /\ t.first[n] # Null THEN t.first[n] ELSE climb[n]

\* operator--
PrevNode(t, n) ==
  LET deepest[m \in 0..Len(t.last)] == IF t.last[m] = Null THEN m ELSE deepest[t.last[m]]
  IN IF t.prev[n] # Null THEN deepest[t.prev[n]] ELSE t.parent[n]

Ancestors(t, n) ==
  LET up[m \in 0..Len(t.parent)] == IF m = Null THEN <<>> ELSE Append(up[t.parent[m]], m)
  IN up[t.parent[n]]
depth(t, n) == Len(Ancestors(t, n))
Below(t, n) == {m \in Nodes(t) : \E i \in DOMAIN Ancestors(t, m) : Ancestors(t, m)[i] = n}

\* Both directions of every link agree.
LinksAgree(t) ==
  \A n \in Nodes(t) :
    /\ t.first[n] = Null <=> t.last[n] = Null
    /\ t.first[n] # Null =>
         /\ t.prev[t.first[n]] = Null
         /\ Kids(t, n)[Len(Kids(t, n))] = t.last[n]
    /\ t.next[n] # Null => t.prev[t.next[n]] = n /\ t.parent[t.next[n]] = t.parent[n]
    /\ t.prev[n] # Null => t.next[t.prev[n]] = n
    /\ n # Root => \E i \in DOMAIN Kids(t, t.parent[n]) : Kids(t, t.parent[n])[i] = n

-----------------------------------------------------------------------------
(* ParserDom.cpp.                                                          *)
CONSTANTS
  StartTags,   \* the opening tags a document holds: [name, void, hidden]
  MaxTokens,
  MaxNesting   \* the 64 of markupBudget

DomAssumption == MaxNesting \in Nat

VARIABLES
  t,         \* mHtmlTree's links
  node,      \* its nodes: kind, name, offset, length, closed, tag
  current,   \* mCurrentState
  parents,   \* of markupBudget
  parsed     \* endParsing has been called

domVars == <<t, node, current, parents, parsed>>


Blank == [kind |-> "root", name |-> "root", offset |-> 0, length |-> 0, closed |-> FALSE, hidden |-> FALSE]

\* beginParsing
DomInit ==
  /\ t = Planted /\ node = <<Blank, Blank>>
  /\ current = Root /\ parents = <<>> /\ parsed = FALSE

mCurrentOffset == Len(node) - 2

Found(kind, name) ==
  [Blank EXCEPT !.kind = kind, !.name = name, !.offset = mCurrentOffset, !.length = 1]

Room == ~parsed /\ mCurrentOffset < MaxTokens

FoundText(kind) ==
  /\ Room /\ t' = append_child(t, current) /\ node' = Append(node, Found(kind, kind))
  /\ UNCHANGED <<current, parents, parsed>>

\* A void element, or one that ends in "/>", takes no children.
FoundTag(tag) ==
  /\ Room /\ t' = append_child(t, current)
  /\ node' = Append(node, [Found("tag", tag.name) EXCEPT !.hidden = tag.hidden])
  /\ current' = IF tag.void THEN current ELSE NewNode(t)
  /\ parents' = IF tag.void THEN parents ELSE Append(parents, tag.name)
  /\ Len(parents') <= MaxNesting
  /\ UNCHANGED parsed

\* The innermost open tag of that name, and the ones within it.
Path == Tail(Append(Ancestors(t, current), current))
Matches(name) == {i \in DOMAIN Path : node[Path[i]].name = name}
Innermost(set) == CHOOSE i \in set : \A j \in set : j <= i

\* Mutant: the node nearest to the root comes first.
FlattenAll_OutermostFirst(path) ==
  LET flat[i \in 0..Len(path)] == IF i = 0 THEN t ELSE flatten(flat[i - 1], path[i])
  IN flat[Len(path)]

\* What was left open inside the match is flattened, the innermost first.
FlattenAll(path) ==
  LET flat[i \in 0..Len(path)] ==
        IF i = 0 THEN t ELSE flatten(flat[i - 1], path[Len(path) + 1 - i])
  IN flat[Len(path)]

\* The stack of markupBudget, searched from its end.
PopParents(name) ==
  LET open == {i \in DOMAIN parents : parents[i] = name}
  IN IF open = {} THEN parents ELSE SubSeq(parents, 1, Innermost(open) - 1)

FoundEnd(name) ==
  /\ Room /\ Matches(name) # {}
  /\ LET i == Innermost(Matches(name))
         tag == Path[i]
         end == Found("end", name)
     IN /\ current' = t.parent[tag]
        /\ t' = append_child(FlattenAll(SubSeq(Path, i + 1, Len(Path))), current')
        /\ node' = Append([node EXCEPT ![tag].length = end.offset + end.length - node[tag].offset,
                                       ![tag].closed = TRUE], end)
  /\ parents' = PopParents(name) /\ UNCHANGED parsed

\* Treated as a comment.
FoundUnmatchedEnd(name) ==
  /\ Room /\ Matches(name) = {}
  /\ t' = append_child(t, current) /\ node' = Append(node, Found("comment", name))
  /\ parents' = PopParents(name) /\ UNCHANGED <<current, parsed>>

EndParsing ==
  /\ ~parsed /\ parsed' = TRUE
  /\ node' = [node EXCEPT ![Root].length = mCurrentOffset]
  /\ UNCHANGED <<t, current, parents>>

DomNext ==
  \/ FoundText("text") \/ FoundText("comment")
  \/ \E tag \in StartTags : FoundTag(tag)
  \/ \E tag \in StartTags : FoundEnd(tag.name) \/ FoundUnmatchedEnd(tag.name)
  \/ EndParsing

-----------------------------------------------------------------------------
(* Properties.                                                             *)

\* The tree is what the text says: below a tag that was closed lies exactly
\* what stands between it and its end, however badly the tags inside are
\* nested; of the tags still open only those around the current one have
\* anything below them; and every link can be followed both ways
\* (ParserDom.cpp:50-130, tree.h:692-718, 961-990).
TreeFitsText ==
  /\ LinksAgree(t)
  /\ \A n \in Nodes(t) \ {Root} : node[n].closed =>
       Below(t, n) = {m \in Nodes(t) \ {Root} :
                        /\ node[m].offset > node[n].offset
                        /\ node[m].offset < node[n].offset + node[n].length - 1}
  /\ \A n \in Nodes(t) : t.first[n] # Null =>
       \/ n = Root \/ node[n].closed \/ n = current
       \/ \E i \in DOMAIN Path : Path[i] = n

\* The depth that markupBudget limits before the document is parsed is the
\* depth the parser reaches: no node hangs deeper than the limit and one
\* (safety.cpp:86-128, ParserDom.cpp:48-110).
BudgetBoundsDepth ==
  /\ depth(t, current) = Len(parents)
  /\ \A n \in Nodes(t) : depth(t, n) <= MaxNesting + 1
=============================================================================
