------------------------------- MODULE Markup -------------------------------
(***************************************************************************)
(* The tokenizer of src/html_parser/ParserSax.tcc.  A document is a        *)
(* sequence of characters; "s" stands for the name of an element whose     *)
(* text is taken literally (script, style, xmp, textarea), "t" for         *)
(* plaintext, "a" for any other letter, "x" for what is neither a letter   *)
(* nor special.                                                            *)
(***************************************************************************)
EXTENDS Naturals, Sequences

CONSTANTS Documents

DocumentAssumption == Documents \subseteq Seq(STRING)

VARIABLES
  html,            \* the document
  begin,           \* of the next token
  mpLiteral,       \* the element whose text is literal, NoElement if none
  mCurrentOffset,  \* what the next node is told
  nodes,           \* tokens found: kind, name, first and last, offset
  done

vars == <<html, begin, mpLiteral, mCurrentOffset, nodes, done>>

NoElement == ""

Init ==
  /\ html \in Documents
  /\ begin = 1 /\ mpLiteral = NoElement /\ mCurrentOffset = 0
  /\ nodes = <<>> /\ done = FALSE

End == Len(html) + 1
At(c) == IF c < End THEN html[c] ELSE "end"
alpha == {"a", "s", "t"}
Quotes == {"q", "Q"}
Blank == " "
Spaces(c) == CHOOSE d \in c..End : At(d) # Blank /\ \A k \in c..d - 1 : At(k) = Blank

\* A quoted value is passed in one step.
AfterAttribute(d) ==
  IF html[d] # "=" THEN d + 1
  ELSE LET v == Spaces(d + 1)
           closing == {k \in v + 1..Len(html) : html[k] = At(v)}
       IN IF At(v) \notin Quotes THEN v
          ELSE IF closing = {} THEN v + 1
          ELSE 1 + CHOOSE k \in closing : \A j \in closing : k <= j

\* Up to and with the '>' that is not part of one.
skipHtmlTag(c) ==
  LET skip[d \in 1..End] ==
        IF d = End THEN End
        ELSE IF html[d] = ">" THEN d + 1
        ELSE skip[AfterAttribute(d)]
  IN skip[c]

\* Up to and with "--", spaces and '>'.
skipHtmlComment(c) ==
  LET skip[d \in 1..End] ==
        IF d = End THEN End
        ELSE IF html[d] = "-" /\ At(d + 1) = "-"
        THEN LET e == Spaces(d + 2)
             IN IF e = End THEN End ELSE IF html[e] = ">" THEN e + 1 ELSE skip[d + 1]
        ELSE skip[d + 1]
  IN skip[c]

\* What a '<' begins, and where it ends.
Markup(c) ==
  LET d == At(c + 1)
  IN IF d \in alpha THEN [kind |-> "tag", to |-> skipHtmlTag(c + 1)]
     ELSE IF d = "/"
     THEN [kind |-> IF At(c + 2) \in alpha THEN "end" ELSE "comment", to |-> skipHtmlTag(c + 1)]
     ELSE IF d = "!"
     THEN [kind |-> "comment",
           to |-> IF At(c + 2) = "-" /\ At(c + 3) = "-" THEN skipHtmlComment(c + 4)
                  ELSE skipHtmlTag(c + 1)]
     ELSE IF d = "?" THEN [kind |-> "comment", to |-> skipHtmlTag(c + 1)]
     ELSE [kind |-> "text", to |-> c]

\* Mutant: a longer name that begins like it ends a literal text too.
ClosesLiteral_Longer(c) ==
  At(c) = "<" /\ At(c + 1) = "/" /\ At(c + 2) = mpLiteral /\ mpLiteral # "t"

\* The end tag a literal text waits for; plaintext has none.
ClosesLiteral(c) ==
  /\ At(c) = "<" /\ At(c + 1) = "/" /\ At(c + 2) = mpLiteral
  /\ mpLiteral # "t" /\ At(Spaces(c + 3)) = ">"

LiteralEnd ==
  LET find[c \in 1..End] ==
        IF c = End \/ ClosesLiteral(c) THEN c
        ELSE IF html[c] = "<" /\ At(c + 1) = "!" /\ At(c + 2) = "-" /\ At(c + 3) = "-"
        THEN find[skipHtmlComment(c + 4)]
        ELSE find[c + 1]
  IN find[begin]

NextMarkup ==
  CHOOSE c \in begin..End :
    /\ c = End \/ (html[c] = "<" /\ Markup(c).kind # "text")
    /\ \A k \in begin..c - 1 : html[k] # "<" \/ Markup(k).kind = "text"

\* The letters and digits behind '<' or "</".
NameOf(c) ==
  LET from == IF At(c + 1) = "/" THEN c + 2 ELSE c + 1
      to == CHOOSE d \in from..End : At(d) \notin alpha /\ \A k \in from..d - 1 : At(k) \in alpha
  IN SubSeq(html, from, to - 1)

Emit(kind, name, to) ==
  /\ nodes' = Append(nodes, [kind |-> kind, name |-> name, first |-> begin, last |-> to - 1,
                             offset |-> mCurrentOffset])
  /\ mCurrentOffset' = mCurrentOffset + Len(SubSeq(html, begin, to - 1))
  /\ begin' = to
  /\ UNCHANGED <<html, done>>

ParseLiteral ==
  /\ ~done /\ begin < End /\ mpLiteral # NoElement /\ LiteralEnd > begin
  /\ Emit("text", <<>>, LiteralEnd)
  /\ mpLiteral' = IF LiteralEnd = End THEN mpLiteral ELSE NoElement

\* The end tag stands at once: there is no text.
EmptyLiteral ==
  /\ ~done /\ begin < End /\ mpLiteral # NoElement /\ LiteralEnd = begin
  /\ mpLiteral' = NoElement /\ UNCHANGED <<html, begin, mCurrentOffset, nodes, done>>

parseContent ==
  /\ ~done /\ begin < End /\ mpLiteral = NoElement /\ NextMarkup > begin
  /\ Emit("text", <<>>, NextMarkup) /\ UNCHANGED mpLiteral

parseHtmlTag ==
  /\ ~done /\ begin < End /\ mpLiteral = NoElement /\ NextMarkup = begin
  /\ Markup(begin).kind \in {"tag", "end"}
  /\ Emit(Markup(begin).kind, NameOf(begin), Markup(begin).to)
  /\ mpLiteral' = IF Markup(begin).kind = "tag" /\ NameOf(begin) \in {<<"s">>, <<"t">>}
                  THEN NameOf(begin)[1] ELSE NoElement

parseComment ==
  /\ ~done /\ begin < End /\ mpLiteral = NoElement /\ NextMarkup = begin
  /\ Markup(begin).kind = "comment"
  /\ Emit("comment", <<>>, Markup(begin).to) /\ UNCHANGED mpLiteral

endParsing ==
  /\ ~done /\ begin = End /\ done' = TRUE
  /\ UNCHANGED <<html, begin, mpLiteral, mCurrentOffset, nodes>>

Next == ParseLiteral \/ EmptyLiteral \/ parseContent \/ parseHtmlTag \/ parseComment \/ endParsing

Spec == Init /\ [][Next]_vars

-----------------------------------------------------------------------------
(* Properties.                                                             *)

\* No character of a document is lost, read twice or told a wrong place,
\* however its tags, quotes and comments are broken; no text is
\* cut in two; and what stands in a script is text up
\* to the script's own end (ParserSax.tcc:43-232).
TokensCoverText ==
  LET last(i) == nodes[i].last
  IN /\ \A i \in DOMAIN nodes :
          /\ nodes[i].first = (IF i = 1 THEN 1 ELSE last(i - 1) + 1)
          /\ nodes[i].last >= nodes[i].first
          /\ nodes[i].offset = nodes[i].first - 1
          /\ i > 1 /\ nodes[i].kind = "text" => nodes[i - 1].kind # "text"
     /\ done => mCurrentOffset = Len(html)
     /\ \A i, j \in DOMAIN nodes :
          /\ i < j /\ nodes[i].kind = "tag" /\ nodes[i].name \in {<<"s">>, <<"t">>}
          /\ nodes[j].kind # "text" /\ \A k \in i + 1..j - 1 : nodes[k].kind = "text"
          => nodes[j].kind = "end" /\ nodes[j].name = nodes[i].name /\ nodes[i].name = <<"s">>
=============================================================================
