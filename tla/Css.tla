-------------------------------- MODULE Css --------------------------------
(***************************************************************************)
(* The style sheets of a page: the scanner css_lex.l, the grammar          *)
(* css_syntax.y with the recovery its error productions ask for, the rules *)
(* CSS::Parser keeps (parser_pp.cpp), and what getTag reads from them.     *)
(* A text is a sequence of lexemes; ids behave as classes and are left out.*)
(***************************************************************************)
EXTENDS Naturals, Sequences, FiniteSets, SequencesExt

CONSTANTS
  Names, Classes,  \* lexemes: identifiers; classes, with their dot
  Rank,            \* of names and classes and "": their order as strings
  Sheets,          \* what a STYLE element may hold, in pieces: see Meaning
  Paths,           \* from a tag up to below the root: sequences of selectors
  MaxSheet,        \* 4096
  MaxStyles        \* STYLE elements of a page

VARIABLES
  mRuleSets,   \* selectors, the innermost first -> name -> value
  written      \* the sheets so far

vars == <<mRuleSets, written>>

Selector(e, c, p) == [element |-> e, class |-> c, pseudo |-> p]

-----------------------------------------------------------------------------
(* The scanner.  `after` is its state AFTER_IDENT: no blank since a name.  *)

Token(kind, text) == [kind |-> kind, text |-> text]

Scan(s, x) ==
  LET Emit(kind, after) == [s EXCEPT !.tokens = Append(@, Token(kind, x)), !.after = after]
  IN CASE s.comment -> [s EXCEPT !.comment = x # "*/", !.after = FALSE]
       [] x = "/*" -> [s EXCEPT !.comment = TRUE]
       [] x = " " -> [s EXCEPT !.after = FALSE]
       [] x = "@" -> s                          \* an illegal character is passed over
       [] x = "<!--" -> Emit("note", FALSE)
       [] x \in Names -> Emit("name", TRUE)
       [] x \in Classes -> Emit(IF s.after THEN "class after" ELSE "class", TRUE)
       [] x = ":link" -> Emit(IF s.after THEN "pseudo after" ELSE "pseudo", TRUE)
       [] OTHER -> Emit(x, FALSE)               \* punctuation; !important

Tokens(text) == FoldLeft(Scan, [tokens |-> <<>>, after |-> FALSE, comment |-> FALSE], text).tokens

-----------------------------------------------------------------------------
(* The grammar.  `mode` is what may come next, or what is being skipped;   *)
(* `group` the selectors before the last comma, `sel` the one being read,  *)
(* <<>> once it is dropped; `decls` the declarations, `prop` and `val` the *)
(* one being read.                                                         *)

Start == [mode |-> "rules", group |-> <<>>, sel |-> <<>>, decls |-> <<>>,
          prop |-> "", val |-> <<>>, rules |-> <<>>]

\* simple_selector: what may begin one, and what may be attached to the last.
Begins(tok) == tok.kind \in {"name", "class", "pseudo"}
Simple(tok) ==
  CASE tok.kind = "name" -> Selector(tok.text, "", "")
    [] tok.kind = "class" -> Selector("", tok.text, "")
    [] OTHER -> Selector("", "", tok.text)
Attaches(tok, last) ==
  \/ tok.kind = "class after" /\ last.element # "" /\ last.class = "" /\ last.pseudo = ""
  \/ tok.kind = "pseudo after" /\ last.pseudo = ""
Attached(tok, last) ==
  IF tok.kind = "class after" THEN [last EXCEPT !.class = tok.text] ELSE [last EXCEPT !.pseudo = tok.text]

\* A selector is dropped up to the next comma or brace; a group without any
\* selector left keeps nothing.
Group(m) == IF m.sel = <<>> THEN m.group ELSE Append(m.group, m.sel)
EndSelector(m, tok) ==
  CASE tok.kind = "," -> [m EXCEPT !.mode = "selector", !.group = Group(m), !.sel = <<>>]
    [] tok.kind = "{" -> [m EXCEPT !.mode = "declaration", !.group = Group(m), !.sel = <<>>, !.decls = <<>>]
    [] OTHER -> [m EXCEPT !.mode = "skip selector", !.sel = <<>>]
selector(m, tok) ==
  IF Begins(tok) THEN [m EXCEPT !.mode = "simple", !.sel = <<Simple(tok)>>] ELSE EndSelector([m EXCEPT !.sel = <<>>], tok)
simple_selectors(m, tok) ==
  CASE Begins(tok) -> [m EXCEPT !.sel = Append(@, Simple(tok))]
    [] Attaches(tok, Last(m.sel)) -> [m EXCEPT !.sel = Append(Front(@), Attached(tok, Last(@)))]
    [] OTHER -> EndSelector(m, tok)

\* ruleset: the declarations are those of every selector of the group.
Ruleset(m) ==
  [Start EXCEPT !.rules = m.rules \o [i \in DOMAIN m.group |-> [sel |-> m.group[i], decls |-> m.decls]]]

\* A declaration is dropped up to the next semicolon or brace; if that is not
\* where the error was met, the parser has reduced what it had of the block,
\* which goes with it.
EndDeclaration(m, tok) ==
  CASE tok.kind = ";" -> [m EXCEPT !.mode = "declaration"]
    [] tok.kind = "}" -> Ruleset(m)
    [] OTHER -> [m EXCEPT !.mode = "skip declaration", !.decls = <<>>]
declaration(m, tok) ==
  IF tok.kind = "name" THEN [m EXCEPT !.mode = "colon", !.prop = tok.text] ELSE EndDeclaration(m, tok)

Declared(m) == [m EXCEPT !.decls = Append(@, [name |-> m.prop, val |-> m.val])]

\* expr: what cannot continue it is skipped, and what is read of it stays;
\* nothing but the end of the declaration may follow !important.
expr(m, tok) ==
  CASE tok.kind = "name" -> [m EXCEPT !.mode = "expr", !.val = Append(@, tok.text)]
    [] tok.kind = "," -> [m EXCEPT !.mode = "expr", !.val = Append(@, ",")]
    [] tok.kind \in {";", "}"} -> EndDeclaration(Declared(m), tok)
    [] tok.kind = "!important" -> [m EXCEPT !.mode = "prio"]
    [] OTHER -> [m EXCEPT !.mode = "expr"]

Shift(m, tok) ==
  CASE m.mode = "rules" /\ tok.kind = "note" -> m
    [] m.mode \in {"rules", "selector"} -> selector(m, tok)
    [] m.mode = "simple" -> simple_selectors(m, tok)
    [] m.mode = "skip selector" -> EndSelector(m, tok)
    [] m.mode = "declaration" -> declaration(m, tok)
    [] m.mode = "colon" ->
         IF tok.kind = ":" THEN [m EXCEPT !.mode = "value", !.val = <<>>] ELSE EndDeclaration(m, tok)
    [] m.mode = "value" ->
         IF tok.kind = "name" THEN expr(m, tok) ELSE EndDeclaration(m, tok)
    [] m.mode = "expr" -> expr(m, tok)
    [] m.mode = "prio" ->
         IF tok.kind \in {";", "}"} THEN EndDeclaration(Declared(m), tok) ELSE EndDeclaration(m, tok)
    [] m.mode = "skip declaration" -> EndDeclaration(m, tok)

\* yyparse gives up at an end that no production expects, and the rules
\* before it are not handed over.
css_parse(text) ==
  LET m == FoldLeft(Shift, Start, Tokens(text))
  IN IF m.mode = "rules" THEN m.rules ELSE <<>>

-----------------------------------------------------------------------------
(* The rules.                                                              *)

\* operator< of a selector, and of a vector of them.
Weight(s) == Cardinality({f \in {"element", "class", "pseudo"} : s[f] # ""})
Less(s, r) ==
  \/ Weight(s) < Weight(r)
  \/ /\ Weight(s) = Weight(r)
     /\ \/ Rank[s.element] > Rank[r.element]
        \/ s.element = r.element /\ Rank[s.class] < Rank[r.class]
        \/ s.element = r.element /\ s.class = r.class /\ s.pseudo = "" /\ r.pseudo # ""
Before(p, q) ==
  LET n == IF Len(p) < Len(q) THEN Len(p) ELSE Len(q)
      differ == {i \in 1..n : p[i] # q[i]}
  IN IF differ = {} THEN Len(p) < Len(q)
     ELSE LET i == CHOOSE i \in differ : \A j \in differ : i <= j IN Less(p[i], q[i])

\* Selector::match, of an element of a path.
Matches(e, s) ==
  e.element # "" /\ e = [s EXCEPT !.element = IF s.element = "" THEN e.element ELSE s.element]

\* Parser::match: the tag itself, then its ancestors from the inside out.
match(sel, path) ==
  LET Climb(n, e) == IF n <= Len(sel) /\ Matches(e, sel[n]) THEN n + 1 ELSE n
  IN /\ path # <<>> /\ sel # <<>> /\ Matches(path[1], sel[1])
     /\ FoldLeft(Climb, 2, Tail(path)) > Len(sel)

Put(f, k, v) == [x \in DOMAIN f \cup {k} |-> IF x = k THEN v ELSE f[x]]
None == [x \in {} |-> x]

\* Parser::parse: a later declaration of a name takes the place of an earlier.
Kept(rules, rule) ==
  LET p == Reverse(rule.sel)
      old == IF p \in DOMAIN rules THEN rules[p] ELSE None
      AddTo(f, d) == Put(f, d.name, d.val)
  IN Put(rules, p, FoldLeft(AddTo, old, rule.decls))
parse(rules, text) ==
  IF Len(text) > MaxSheet THEN rules ELSE FoldLeft(Kept, rules, css_parse(text))

\* Mutant: the least particular of the matching rules counts.
getAttributes_FirstWins(rules, path) ==
  LET Under(f, p) ==
        IF ~match(p, path) THEN f
        ELSE [x \in DOMAIN f \cup DOMAIN rules[p] |-> IF x \in DOMAIN f THEN f[x] ELSE rules[p][x]]
  IN FoldLeft(Under, None, SetToSortSeq(DOMAIN rules, Before))

\* getAttributes: the rules in the order of the map, the last one wins.
getAttributes(rules, path) ==
  LET Over(f, p) ==
        IF ~match(p, path) THEN f
        ELSE [x \in DOMAIN f \cup DOMAIN rules[p] |-> IF x \in DOMAIN rules[p] THEN rules[p][x] ELSE f[x]]
  IN FoldLeft(Over, None, SetToSortSeq(DOMAIN rules, Before))

-----------------------------------------------------------------------------
(* A page.                                                                 *)

Text(sheet) == FlattenSeq([i \in DOMAIN sheet |-> sheet[i].text])

Init == mRuleSets = None /\ written = <<>>

\* getTag at a STYLE element: its rules join those of the elements before it.
Style ==
  /\ Len(written) < MaxStyles
  /\ \E sheet \in Sheets :
       mRuleSets' = parse(mRuleSets, Text(sheet)) /\ written' = Append(written, sheet)

\* The style attribute of a tag is a sheet of one rule for its name.
Inline(tag, declarations) ==
  getAttributes(parse(None, <<tag, " ", "{", " ">> \o declarations \o <<" ", "}">>), <<Selector(tag, "", "")>>)

Next == Style
Spec == Init /\ [][Next]_vars

-----------------------------------------------------------------------------
(* Properties.                                                             *)

\* What the pieces of a sheet mean: each comes with the declarations of its
\* first selector and those of the others, and with what it does to the rest:
\* "whole" nothing, "stray" it costs the selector after it or, at the end, the
\* sheet; "open", at the end, the sheet.
Meaning(sheet) ==
  LET Read(m, piece) ==
        [rules |-> m.rules \o (IF m.lost THEN <<>> ELSE piece.first) \o piece.others,
         lost |-> piece.kind = "stray"]
  IN IF Len(Text(sheet)) > MaxSheet \/ Last(sheet).kind # "whole" THEN <<>>
     ELSE FoldLeft(Read, [rules |-> <<>>, lost |-> FALSE], sheet).rules

Declarations == FlattenSeq([i \in DOMAIN written |-> Meaning(written[i])])

\* A faulty selector costs itself and nothing else, a declaration without a
\* value too, any other fault of a declaration those before it in its rule, a
\* stray brace the selector after it or, if there is none, its sheet, and so does
\* an unfinished rule; of what is left, a tag
\* gets from every rule that matches it the value with the greatest weight,
\* the latest among equals, whatever was parsed in between; and a style
\* attribute says for its tag what a sheet would
\* (css_syntax.y, css_lex.l, parser_pp.cpp:78-270, htmlcxx.cpp:335-408).
TagsGetTheirStyle ==
  /\ \A path \in Paths :
       LET got == getAttributes(mRuleSets, path)
           applies == {i \in DOMAIN Declarations : match(Declarations[i].sel, path)}
           Beats(i, j) == \/ Before(Declarations[j].sel, Declarations[i].sel)
                          \/ Declarations[i].sel = Declarations[j].sel /\ i > j
       IN /\ DOMAIN got = {Declarations[i].name : i \in applies}
          /\ \A i \in applies :
               (\A j \in applies \ {i} : Declarations[j].name = Declarations[i].name => Beats(i, j))
                 => got[Declarations[i].name] = Declarations[i].val
  /\ Inline("p", <<"display", ":", "none">>) = Put(None, "display", <<"none">>)
=============================================================================
