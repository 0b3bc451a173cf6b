------------------------------ MODULE MCScreens ------------------------------
(***************************************************************************)
(* What the user sees and does, for TLC: Bookmarks, joined by modules that *)
(* share nothing with it or with each other.  `part` says which of them    *)
(* runs in a behaviour, and x1, x2, ... are its variables.                 *)
(***************************************************************************)
EXTENDS Bookmarks
CONSTANTS a1, a2, b1, a, b, pad

VARIABLES
  part,
  x1, x2, x3, x4, x5, x6, x7, x8, x9, x10, x11, x12, x13, x14, x15, x16, x17, x18, x19, x20, x21, x22

-----------------------------------------------------------------------------
(* The constants of the parts.                                             *)

\* Two titles of one address, and another address.
MCUrl == [e \in {a1, a2, b1} |-> IF e = b1 THEN b ELSE a]

KbKeys == {<<"i", "W">>}
KbWidth == [c \in {"i", "W", "nl"} |-> CASE c = "i" -> 2 [] c = "W" -> 3 [] OTHER -> 0]
KbMessages == [t \in {<<"i", "i">>} |-> <<"W", "i", "i">>]
KbTexts == {<<"i", "W", "i", "i">>}

LyPages ==
  {<<"texts", "image", "image", "form">>, <<"title", "texts", "return", "p", "texts">>,
   <<"image", "meta", "texts", "form">>}

FmField(type, named, value, checked, long) ==
  [type |-> type, named |-> named, value |-> value, checked |-> checked, long |-> long]
FmKinds ==
  {FmField("submit", TRUE, "x", FALSE, FALSE), FmField("text", TRUE, "x", FALSE, FALSE),
   FmField("text", FALSE, "x", FALSE, FALSE), FmField("text", TRUE, "x", FALSE, TRUE),
   FmField("textarea", TRUE, "", FALSE, TRUE), FmField("hidden", TRUE, "x", FALSE, FALSE),
   FmField("hidden", FALSE, "x", FALSE, FALSE), FmField("radio", TRUE, "x", FALSE, FALSE),
   FmField("radio", TRUE, "x", TRUE, FALSE), FmField("file", TRUE, "", FALSE, FALSE)}

TgTag(name, void, hidden) == [name |-> name, void |-> void, hidden |-> hidden]
TgStartTags ==
  {TgTag("a", FALSE, FALSE), TgTag("p", FALSE, FALSE), TgTag("b", FALSE, TRUE), TgTag("script", FALSE, FALSE),
   TgTag("img", TRUE, FALSE)}

CsRank == [s \in {"", ".c", "div", "p", ":link"} |->
  CASE s = "" -> 0 [] s = ".c" -> 1 [] s = "div" -> 2 [] s = "p" -> 3 [] OTHER -> 4]
CsSelector(e, c, p) == [element |-> e, class |-> c, pseudo |-> p]
CsP == CsSelector("p", "", "")
CsC == CsSelector("", ".c", "")
CsPC == CsSelector("p", ".c", "")
CsD == CsSelector("div", "", "")
CsRule(selectors, n, v) == [sel |-> selectors, name |-> n, val |-> v]
CsPiece(kind, text, first, others) == [kind |-> kind, text |-> text, first |-> first, others |-> others]
CsPieces == {
  CsPiece("whole", <<"p", "{", "display", ":", "none", "}">>, <<CsRule(<<CsP>>, "display", <<"none">>)>>, <<>>),
  CsPiece("whole",
    <<"p", ".c", ",", "div", " ", "{", "display", ":", "block", ";", "color", ":", "none", "!important", "}">>,
    <<CsRule(<<CsPC>>, "display", <<"block">>), CsRule(<<CsPC>>, "color", <<"none">>)>>,
    <<CsRule(<<CsD>>, "display", <<"block">>), CsRule(<<CsD>>, "color", <<"none">>)>>),
  CsPiece("whole", <<"div", " ", ".c", "{", "@", "display", ":", "block", "}">>,
    <<CsRule(<<CsC, CsD>>, "display", <<"block">>)>>, <<>>),
  CsPiece("whole", <<".c", ".c", ",", "div", " ", "p", "{", ":", ";", "display", ":", "block", "}">>, <<>>,
    <<CsRule(<<CsP, CsD>>, "display", <<"block">>)>>),
  CsPiece("whole", <<"<!--", "p", ":link", "{", "color", ":", "block", "+", "}">>,
    <<CsRule(<<CsSelector("p", "", ":link")>>, "color", <<"block">>)>>, <<>>),
  CsPiece("whole", <<"p", "+", "div", "{", "color", ":", "block", ";", "}">>, <<>>, <<>>),
  CsPiece("whole", <<".c", "{", "display", "none", ";", "color", ":", "}", "/*", "}", "{", "*/">>, <<>>, <<>>),
  CsPiece("whole", <<"div", "{", "display", ":", "none", ";", "color", "p", ";", "color", ":", "p", "}">>,
    <<CsRule(<<CsD>>, "color", <<"p">>)>>, <<>>),
  CsPiece("whole", <<"div", "{", "color", ":", "p", "!important", "p", ";", "display", ":", "p", ",", "p", "}">>,
    <<CsRule(<<CsD>>, "display", <<"p", ",", "p">>)>>, <<>>),
  CsPiece("stray", <<"}">>, <<>>, <<>>),
  CsPiece("open", <<"p", "{", "display", ":", "none">>, <<>>, <<>>),
  CsPiece("open", <<"div">>, <<>>, <<>>)}
CsSheets ==
  {<<p>> : p \in CsPieces} \cup {<<p, q>> : p \in {r \in CsPieces : r.kind = "stray"}, q \in CsPieces}
CsPaths == {<<CsP>>, <<CsPC>>, <<CsD>>, <<CsP, CsD>>, <<CsPC, CsP, CsD>>, <<>>}

FnChars == {"a", "b", "x", "blank", "tab", "newline"}
FnIndex == [c \in FnChars |-> CASE c = "a" -> 1 [] c = "b" -> 2 [] c = "blank" -> 3 [] OTHER -> 0]
FnAdvance == [c \in FnChars |-> IF c = "a" THEN 2 ELSE 1]
FnTexture == [c \in FnChars |-> CASE c = "a" -> 2 [] c = "b" -> 3 [] OTHER -> 0]
FnPair == [p \in (0..3) \X (0..3) |-> IF p = <<1, 2>> THEN -1 ELSE 0]
FnTexts == {<<"b", "x", "a">>, <<"a", "tab", "b", "newline", "a", "blank", "b">>}

SgElements == {"tooltip", "left", "pointer", "keyboard"}
SgWidgets == {<<"tooltip">>, <<"left", "pointer", "keyboard">>}
SgSlot == [e \in {"tooltip", "left", "pointer"} |-> IF e = "tooltip" THEN e ELSE "keyboard"]

-----------------------------------------------------------------------------
(* The parts.                                                              *)

Screen == INSTANCE Menus WITH
  MaxClicks <- 2, menu <- x1, phase <- x2, choice <- x3, modal <- x4,
  question <- x5, shown <- x6, off <- x7, clicked <- x8, mode <- x9,
  saveOff <- x10, editing <- x11, moving <- x12, hidden <- x13, unsaved <-
  x14, exiting <- x15
Sites == INSTANCE SiteMenus WITH
  Urls <- {"a", "b"}, Homepage <- "a", N <- 2, MaxFavs <- 3, Buffers <- 1..3,
  TopSites <- x1, Thumbnails <- x2, heap <- x3, ShowThumbs <- x4, num_fav <-
  x5, prev_page <- x6, screen <- x7, editing <- x8, label <- x9, thumb <-
  x10, place <- x11, crossed <- x12, currPage <- x13, page <- x14
Keys == INSTANCE Keyboard WITH
  Keys <- KbKeys, Width <- KbWidth, MAX_KEYBOARD_DISPLAY <- 7, MaxWidth <-
  8, MaxLen <- 3, Messages <- KbMessages, Clicks <- {3}, Texts <- KbTexts,
  var <- x1, open <- x2, kbtextstr <- x3, CurrentFirstLetter <- x4,
  LetterNumInLine <- x5, Position_X <- x6, shift <- x7, caps <- x8
Layout == INSTANCE PageLayout WITH
  ScreenHeight <- 3, Sizes <- {0, 1}, Pages <- LyPages, MaxWidgets <- 3,
  MaxScrolls <- 4, elems <- x1, first <- x2, last <- x3, ext <- x4, height
  <- x5, rest <- x6, widgets <- x7, thumb <- x8, scrolls <- x9, choice <-
  x10
Form == INSTANCE PageForm WITH
  FieldKinds <- FmKinds, Texts <- {"", "y"}, MaxFields <- 3, input <- x1,
  lost <- x2, method <- x3, button <- x4, phase <- x5, choice <- x6,
  clicked <- x7, exiting <- x8, sent <- x9, fields <- x10
Items == INSTANCE PageItems WITH
  MaxItems <- 3, MaxFields <- 2, Options <- {"checked", ""}, pc <- x1,
  input <- x2, asked <- x3, text <- x4, btn <- x5, img <- x6, Index <- x7,
  window <- x8, heap <- x9, wrong <- x10
Tags == INSTANCE TagList WITH
  StartTags <- TgStartTags, MaxTokens <- 4, MaxNesting <- 3, MaxItems <-
  6, t <- x1, node <- x2, current <- x3, parents <- x4, parsed <- x5, it
  <- x6, parent <- x7, open <- x8, l1 <- x9, ended <- x10
Style == INSTANCE Css WITH
  Names <- {"p", "div", "display", "none", "block", "color"}, Classes <-
  {".c"}, Rank <- CsRank, Sheets <- CsSheets, Paths <- CsPaths, MaxSheet
  <- 22, MaxStyles <- 2, mRuleSets <- x1, written <- x2
Font == INSTANCE Fonts WITH
  Sizes <- {10, 14}, OverlaySizes <- {14}, Chars <- FnChars, GlyphIndex <-
  FnIndex, Advance <- FnAdvance, Texture <- FnTexture, Pair <- FnPair,
  Kerning <- TRUE, Texts <- FnTexts, Message <- <<"x", "a">>, MaxGlyphs <-
  2, MaxTexture <- 6, fontSystem <- x1, glyphTextureBytes <- x2, allocated
  <- x3, g_fontLoadFailed <- x4, banner <- x5, label <- x6
Signal == INSTANCE Signals WITH
  Elements <- SgElements, Widgets <- SgWidgets, Slot <- SgSlot, MaxShown
  <- 3, m_mutex <- x1, shared <- x2, m_connected_slots <- x3, m_senders <-
  x4, alive <- x5, signals <- x6, shown <- x7, todo <- x8, created <- x9
Device == INSTANCE Console WITH
  Pads <- {pad}, RumbleOn <- 3, RumbleRest <- 4, MaxRequests <- 4, main <-
  x1, gui <- x2, lock <- x3, guiReady <- x4, guiStop <- x5, vmode <- x6,
  xfb <- x7, gxReady <- x8, whichfb <- x9, next <- x10, pending <- x11,
  shown <- x12, copying <- x13, plugged <- x14, motor <- x15, wpad <- x16,
  todo <- x17, rumbleRequest <- x18, rumbleCount <- x19, muted <- x20,
  quiet <- x21, requests <- x22
ASSUME TextAssumption == Keys!KeyboardAssumption
ASSUME DeviceAssumption == Device!RumbleAssumption
ASSUME BlocksAssumption == Sites!SitesAssumption
ASSUME PageAssumption == Items!ItemsAssumption
ASSUME TreeAssumption == Tags!DomAssumption

\* The variables from the n-th on are not used by the part.
Unused22 == x22 = 0
Unused21 == x21 = 0 /\ Unused22
Unused20 == x20 = 0 /\ Unused21
Unused19 == x19 = 0 /\ Unused20
Unused18 == x18 = 0 /\ Unused19
Unused17 == x17 = 0 /\ Unused18
Unused16 == x16 = 0 /\ Unused17
Unused15 == x15 = 0 /\ Unused16
Unused14 == x14 = 0 /\ Unused15
Unused13 == x13 = 0 /\ Unused14
Unused12 == x12 = 0 /\ Unused13
Unused11 == x11 = 0 /\ Unused12
Unused10 == x10 = 0 /\ Unused11
Unused9 == x9 = 0 /\ Unused10
Unused8 == x8 = 0 /\ Unused9
Unused7 == x7 = 0 /\ Unused8
Unused6 == x6 = 0 /\ Unused7
Unused5 == x5 = 0 /\ Unused6
Unused4 == x4 = 0 /\ Unused5
Unused3 == x3 = 0 /\ Unused4
Unused2 == x2 = 0 /\ Unused3
Unused1 == x1 = 0 /\ Unused2

Same22 == x22' = x22
Same21 == x21' = x21 /\ Same22
Same20 == x20' = x20 /\ Same21
Same19 == x19' = x19 /\ Same20
Same18 == x18' = x18 /\ Same19
Same17 == x17' = x17 /\ Same18
Same16 == x16' = x16 /\ Same17
Same15 == x15' = x15 /\ Same16
Same14 == x14' = x14 /\ Same15
Same13 == x13' = x13 /\ Same14
Same12 == x12' = x12 /\ Same13
Same11 == x11' = x11 /\ Same12
Same10 == x10' = x10 /\ Same11
Same9 == x9' = x9 /\ Same10
Same8 == x8' = x8 /\ Same9
Same7 == x7' = x7 /\ Same8
Same6 == x6' = x6 /\ Same7
Same5 == x5' = x5 /\ Same6
Same4 == x4' = x4 /\ Same5
Same3 == x3' = x3 /\ Same4
Same2 == x2' = x2 /\ Same3
Same1 == x1' = x1 /\ Same2

-----------------------------------------------------------------------------
all == <<vars, part, x1, x2, x3, x4, x5, x6, x7, x8, x9, x10, x11, x12, x13, x14, x15, x16, x17, x18, x19, x20, x21, x22>>

Parts ==
  {"bookmarks", "menus", "sites", "keyboard", "layout", "form", "items", "tags", "css", "fonts", "signals",
   "console"}

\* A part but that of Bookmarks leaves its volume empty.
MCInit ==
  /\ part \in Parts /\ Init
  /\ part # "bookmarks" => disk.live = None
  /\ \/ part = "bookmarks" /\ Unused1
     \/ part = "menus" /\ Screen!Init /\ Unused16
     \/ part = "sites" /\ Sites!Init /\ Unused15
     \/ part = "keyboard" /\ Keys!Init /\ Unused9
     \/ part = "layout" /\ Layout!Init /\ Unused11
     \/ part = "form" /\ Form!Init /\ Unused11
     \/ part = "items" /\ Items!Init /\ Unused11
     \/ part = "tags" /\ Tags!Init /\ Unused11
     \/ part = "css" /\ Style!Init /\ Unused3
     \/ part = "fonts" /\ Font!Init /\ Unused7
     \/ part = "signals" /\ Signal!Init /\ Unused10
     \/ part = "console" /\ Device!Init

StepOfParts ==
  /\ UNCHANGED vars
  /\ \/ part = "menus" /\ Screen!Next /\ Same16
     \/ part = "sites" /\ Sites!Next /\ Same15
     \/ part = "keyboard" /\ Keys!Next /\ Same9
     \/ part = "layout" /\ Layout!Next /\ Same11
     \/ part = "form" /\ Form!Next /\ Same11
     \/ part = "items" /\ Items!Next /\ Same11
     \/ part = "tags" /\ Tags!Next /\ Same11
     \/ part = "css" /\ Style!Next /\ Same3
     \/ part = "fonts" /\ Font!Next /\ Same7
     \/ part = "signals" /\ Signal!Next /\ Same10
     \/ part = "console" /\ Device!Next

MCNext ==
  /\ UNCHANGED part
  /\ \/ part = "bookmarks" /\ Next /\ Same1
     \/ StepOfParts

\* The fairness of Menus and of PageLayout; the others need none.
Of(name, A) == part = name /\ A /\ UNCHANGED <<vars, part>>
Fairness ==
  /\ WF_all(Of("menus", Screen!Frame /\ Same16))
  /\ WF_all(Of("menus", Screen!MenuThread /\ Same16))
  /\ WF_all(Of("menus", Screen!AnsweredAtExit /\ Same16))
  /\ WF_all(Of("layout", Layout!Iteration /\ Same11))

MCSpec == MCInit /\ [][MCNext]_all /\ Fairness

-----------------------------------------------------------------------------
(* Properties.                                                             *)

\* A screen shows what is true: a block of Top Sites in its slot the name and
\* the picture of the site it opens, and no picture that was freed, until a
\* block that was dragged is edited; a menu its own widgets; and a changed
\* setting is saved, or the user told that it is not, before another menu
\* opens (menu.cpp, html.cpp:473-489).
ScreensTellTruth ==
  /\ part = "menus" => Screen!ScreenFitsMenu /\ Screen!ChangesSavedOrTold
  /\ part = "sites" => Sites!BlocksTellTruth

\* A page reads as the text of its document: the tree nests what the markup
\* nests, no deeper than was allowed for, and the list made of it has every
\* visible text once and in order (ParserDom.cpp, htmlcxx.cpp, safety.cpp).
PageReadsAsItsText ==
  part = "tags" =>
    Tags!TreeFitsText /\ Tags!BudgetBoundsDepth /\ Tags!ParentsAreOpen /\ Tags!ReadsInOrder

\* A form that is sent is what the user left in it, but for the textareas it
\* had no room for (handle.cpp:206-295, htmlcxx.cpp:477-513).
FormIsSentAsLeft == part = "form" => Form!SendsTheForm

\* An object is there as long as something uses it, and not longer than its
\* page: the widgets of a page, and both ends of a signal's connection
\* (html.cpp, liste.cpp, sigslot.h).
ObjectsOutliveTheirUse ==
  /\ part = "items" => Items!PageTakenDownWhole
  /\ part = "signals" => Signal!ConnectionsLive

\* A text looks as its page means it and takes the room it was given: the
\* style a tag gets, and the glyphs a face has for it (ruleset.cpp,
\* parser_pp.cpp, FreeTypeGX.cpp).
TextLooksAsMeant ==
  /\ part = "css" => Style!TagsGetTheirStyle
  /\ part = "fonts" => Font!TextStaysAsMeasured

\* The graphics and the motors are used while they may be (video.cpp, input.cpp).
ConsoleAtRest == part = "console" => Device!ConsoleAtRest

\* No site is lost by dragging nor parted from its thumbnail, and no bookmark
\* passed over by turning pages (menu.cpp:2192-2613).
SitesStay == [][part = "sites" => Sites!SitesKept]_all

\* What is typed goes where the caret is (gui_keyboard.cpp, TextPointer.cpp).
CaretFollowsKeys == [][part = "keyboard" => Keys!CaretKept]_all

\* An exit ends the menus from wherever they are, no animation holds a menu
\* up, and a page that is not scrolled comes to rest with all of the screen
\* shown (menu.cpp:2833-2870, html.cpp:245-275).
ScreensComeToRest ==
  /\ part = "menus" /\ Screen!Leaving ~> (part = "menus" => Screen!Left)
  /\ part = "menus" /\ Screen!Fading ~> (part = "menus" => Screen!Faded)
  /\ <>[](part = "layout" => Layout!ScreenShown)
=============================================================================
