------------------------------- MODULE MCData -------------------------------
(***************************************************************************)
(* What the program keeps, reads and is sent, for TLC: Session, joined by  *)
(* modules that share nothing with it or with each other.  `part` says     *)
(* which of them runs in a behaviour, and x1, x2, ... are its variables.   *)
(***************************************************************************)
EXTENDS Session
CONSTANTS a, b

VARIABLES
  part,
  entries, current, dumped, mayDump,  \* of HistoryList alone, as it refines Trail
  x1, x2, x3, x4, x5, x6, x7, x8, x9, x10, x11, x12, x13

-----------------------------------------------------------------------------
(* The constants of the parts.                                             *)

Strings(A, n) == UNION {[1..k -> A] : k \in 0..n}

HiLength == (a :> 2) @@ (b :> 3)

CfPlaces == <<"sd", "usb">>
CfText(t, blanks, wrong) == [text |-> t, blanks |-> blanks, wrong |-> wrong]
CfFolders == {CfText("usb:/x", TRUE, "")}
CfOddLines ==
  {[name |-> "Language", value |-> CfText("2", FALSE, "")],
   [name |-> "endless", value |-> CfText("", FALSE, "")]}

UfTyped ==
  {[text |-> "", dot |-> FALSE, safe |-> TRUE], [text |-> "a", dot |-> FALSE, safe |-> TRUE],
   [text |-> "a.html", dot |-> TRUE, safe |-> TRUE], [text |-> "a:", dot |-> FALSE, safe |-> FALSE]}
UfTypes == {"text/html", "x/y"}

FbFolder(d, f) == [dev |-> d, dir |-> f]
FbFile(d, f, n) == [dev |-> d, dir |-> f, name |-> n]
FbFolders ==
  {FbFolder("sd", <<>>), FbFolder("sd", <<"a">>), FbFolder("sd", <<"a", "b">>),
   FbFolder("usb", <<>>), FbFolder("usb", <<"b">>)}
FbFiles ==
  {FbFile("sd", <<>>, "c"), FbFile("sd", <<"a">>, "d"), FbFile("usb", <<"b">>, "a")}
FbTyped ==
  {[dir |-> <<>>, name |-> ""], [dir |-> <<"c">>, name |-> "d"]}
FbUserFolder == FbFolder("sd", <<"a">>)
FbOrder == {<<"a", "b">>, <<"a", "c">>, <<"a", "d">>, <<"b", "c">>, <<"b", "d">>, <<"c", "d">>}

FwCards == {<<>>, <<{"other"}>>} \cup {<<f>> : f \in SUBSET {"wiiflow", "wiibrowser"}}
FwPart(t, s, f, files_) == [type |-> t, sector |-> s, fs |-> f, files |-> files_]
FwParts ==
  {FwPart(0, FALSE, "ext", {}), FwPart(12, TRUE, "FAT", {"wiibrowser"}),
   FwPart(12, TRUE, "FAT", {"wiiflow", "wiibrowser"}), FwPart(131, FALSE, "ext", {"wiiflow"})}
FwDisks == {<<>>} \cup {<<p>> : p \in [1..4 -> FwParts]}
FwSection(start, size) == [start |-> start, size |-> size]
FwLoaders ==
  {[text |-> <<FwSection(5, 2)>>, data |-> <<FwSection(1, 2), FwSection(6, 9), FwSection(7, 0)>>,
    entry |-> e] : e \in {0, 5}}
FwPath ==
  [f \in [device : {"sd", "usb1", "usb2", "usb3", "usb4"}, folder : {"wiiflow", "wiibrowser"}] |->
     IF f.folder = "wiiflow" THEN <<f.device, "f">> ELSE <<f.device, "b", "b">>]

PiChunk(t, n) == [type |-> t, claims |-> n]
PiChunks ==
  {PiChunk("IDAT", 3), PiChunk("IEND", 0), PiChunk("IEND", 1), PiChunk("tEXt", 3), PiChunk("iTXt", 1),
   PiChunk("IHDR", 13)}
PiEnd(c) == FoldSeq(LAMBDA k, sum : sum + k.claims + 12, 8, c)
PiPng(c, more) ==
  [kind |-> "png", size |-> [w |-> 5, h |-> 5], chunks |-> <<PiChunk("IHDR", 13)>> \o c,
   length |-> PiEnd(c) + 25 + more]
PiSizes ==
  [w : {1, 5, 11, 16}, h : {1, 7, 9, 16}]
    \cup {[w |-> 1, h |-> 40], [w |-> 41, h |-> 1], [w |-> 0, h |-> 4]}
PiSources ==
  {PiPng(c, 0) : c \in Strings(PiChunks, 3) \ {<<>>}}
    \cup {PiPng(c, k) : c \in Strings({PiChunk("IDAT", 3), PiChunk("IEND", 0), PiChunk("tEXt", 2)}, 2) \ {<<>>},
                        k \in {-13, -12, -1, 1}}
    \cup {[kind |-> k, size |-> s, chunks |-> <<PiChunk("IHDR", 13), PiChunk("IDAT", 3), PiChunk("IEND", 0)>>,
           length |-> 60] : k \in {"png", "jpeg"}, s \in PiSizes}

RsLong == "image/a-long-one"

MkDocuments ==
  Strings({"<", ">", "/", "!", "-", "a"}, 5)
    \cup {<<"<", "s", ">">> \o d : d \in Strings({"<", "/", "s", ">", "!", "-"}, 5)}
    \cup {<<"<", "a">> \o d : d \in Strings({"=", "q", "Q", ">", " "}, 5)}
    \cup {<<"<", "!", "-", "-">> \o d : d \in Strings({"-", "x", ">", " "}, 5)}

\* Of a name its row of the table; 225 is "sup;".  38, 35, 59, 120 are & # ; x
EnName(row) == 256 + row
EnNamed(row) == <<38, EnName(row), 59>>
EnNumber(digits) == <<38, 35>> \o digits \o <<59>>
EnPieces ==
  {<<>>, <<38>>, <<35>>, <<59>>, <<97>>, <<EnName(225)>>, EnNamed(1), EnNamed(253), EnNamed(225),
   EnNumber(<<48>>), EnNumber(<<45, 48>>), EnNumber(<<>>), EnNumber(<<120, 55, 102>>),
   EnNumber(<<120, 56, 48>>), EnNumber(<<120, 56, 48, 48>>), EnNumber(<<120, 49, 48, 48, 48, 48>>),
   EnNumber(<<49, 49, 49, 52, 49, 49, 50>>), EnNumber(<<57, 97>>)}
EnInputs == {p \o q \o r : p, q, r \in EnPieces} \cup {EnNamed(row) : row \in 1..253}
EnValue ==
  [row \in 1..253 |->
     CASE row = 1 -> <<200, 201>> [] row = 253 -> <<226, 128, 141>>
       [] row = 225 -> <<226, 138, 131>> [] OTHER -> <<194, row>>]

AdBases ==
  {<<"http:", "/", "/", "a">> \o rest :
     rest \in {<<>>, <<"/">>, <<"/", "b">>, <<"/", "b", "/">>, <<"/", "b", "/", "c", "?", "x", "/">>,
               <<"?", "x">>, <<"#", "y">>, <<"/", "b", "#", "/">>}}
  \cup {<<"j:">>}
AdLinks ==
  Strings({"/", ".", "b", "?", "#"}, 5)
    \cup {<<"http:", "/", "/">> \o l : l \in Strings({"/", ".", "b", "@"}, 4)}
    \cup {<<"/", "/">> \o l : l \in Strings({"c", "/", ".", "?", "@"}, 4)}
    \cup {<<"j:">> \o l : l \in Strings({"/", "b"}, 2)}
AdTyped == Strings({32, 37, 38, 43, 61, 65, 97, 50, 233}, 3)

LaIds == {<<97, 98>>, <<98, 82>>, <<99>>}
LaTexts == {<<"o", "k">>, <<"\\", "n", "\\", "\\", "7", "\\", "7", "1", "x", "\\">>}

-----------------------------------------------------------------------------
(* The parts.                                                              *)

Visited == INSTANCE HistoryList WITH
  MaxTrail <- 3, Length <- HiLength, MaxUrl <- 3, EndList <- 2,
  heap <- entries, history <- current, historyWritable <- mayDump
ASSUME VisitedAssumption == Visited!HistoryAssumption
Links == INSTANCE Addresses WITH MaxUrl <- 11
Conf == INSTANCE SettingsText WITH
  Places <- CfPlaces, LANG_LENGTH <- 3, LANG_GERMAN <- 1, Folders <-
  CfFolders, OddLines <- CfOddLines, folders <- x1, files <- x2, place <-
  x3, argv0 <- x4, settings <- x5, writable <- x6, running <- x7, touched
  <- x8
Keep == INSTANCE UserFiles WITH
  Typed <- UfTyped, Types <- UfTypes, MaxSaves <- 4, pc <- x1, path <- x2,
  f <- x3, shot <- x4, mine <- x5, told <- x6, last <- x7
Browser == INSTANCE FileBrowser WITH
  Folders <- FbFolders, Files <- FbFiles, Typed <- FbTyped, UserFolder <-
  FbUserFolder, Order <- FbOrder, FILE_PAGESIZE <- 1, MaxEntries <- 2,
  MaxPath <- 1, folders <- x1, swapped <- x2, rootdir <- x3, dir <- x4,
  browserList <- x5, selIndex <- x6, pageIndex <- x7, lines <- x8, clicked
  <- x9, phase <- x10, wasDir <- x11, temp <- x12, chosen <- x13
Starter == INSTANCE Forwarder WITH
  Cards <- FwCards, Disks <- FwDisks, Loaders <- FwLoaders, MAX_CMDLINE <-
  8, Path <- FwPath, Shortcut <- <<"s", "c">>, LowMemory <- 2, SanityCap
  <- 4, card <- x1, disk <- x2, loader <- x3, pc <- x4, mounted <- x5,
  exeFile <- x6, exeBuffer <- x7, cmdline <- x8, length <- x9, copied <-
  x10, argvAt <- x11
Heap == INSTANCE Mem2 WITH
  Areas <- {"gui", "other"}, MEM2_OTHER <- "other", OtherSize <- 4, Bottom
  <- 4, Top <- 14, Granule <- 2, Sizes <- {1, 4}, Counts <- {2}, MaxU32 <-
  7, Owners <- {"a", "b"}, Marks <- {1}, mem2_areas <- x1, Arena2Hi <- x2,
  blocks <- x3, mem <- x4, left <- x5
ASSUME CommandAssumption == Starter!ForwarderAssumption
ASSUME MemoryHolds == Heap!MemoryAssumption
ASSUME NamesSort == Browser!BrowserAssumption
Image == INSTANCE Pictures WITH
  Sources <- PiSources, MaxSide <- 40, MaxPixels <- 160, MaxChunk <- 13,
  MaxChunks <- 4, MaxWidth <- 12, MaxHeight <- 4, MaxLoads <- 2, pc <- x1,
  source <- x2, heap <- x3, raw <- x4, target <- x5, data <- x6, shape <-
  x7, loads <- x8
Answer == INSTANCE Responses WITH
  Types <- {"html", "zip", RsLong}, LongType <- RsLong, Names <- {"a.zip",
  "../b"}, Unsafe <- {"../b"}, Redirect <- 302, Found <- 200, Missing <-
  404, MaxHeaders <- 7, MaxDocument <- 4, MaxBlocks <- 2, post <- x1, pc
  <- x2, blocks <- x3, headerBytes <- x4, status <- x5, type <- x6,
  filename <- x7, attachment <- x8, stoppedForAttachment <- x9, length <-
  x10, pieces <- x11, result <- x12, output <- x13
Tokens == INSTANCE Markup WITH
  Documents <- MkDocuments, html <- x1, begin <- x2, mpLiteral <- x3,
  mCurrentOffset <- x4, nodes <- x5, done <- x6
Entity == INSTANCE Entities WITH
  Inputs <- EnInputs, Value <- EnValue, input <- x1, buf <- x2, from <-
  x3, to <- x4, done <- x5
Utf == INSTANCE Texts WITH
  Bytes <- {65, 128, 160, 194, 224, 237, 244}, MaxBytes <- 4, Capacities
  <- {0, 4}, text <- x1, wide <- x2, capacity <- x3, bytes <- x4, pc <- x5
Message == INSTANCE Languages WITH
  Ids <- LaIds, Texts <- LaTexts, MaxLines <- 3, file <- x1, at <- x2,
  lastID <- x3, baseMSG <- x4, heap <- x5, loaded <- x6
ASSUME ServersAnswer == Answer!ResponseAssumption
ASSUME DocumentsAreText == Tokens!DocumentAssumption

\* The variables from the n-th on are not used by the part.
Unused13 == x13 = 0
Unused12 == x12 = 0 /\ Unused13
Unused11 == x11 = 0 /\ Unused12
Unused10 == x10 = 0 /\ Unused11
Unused9 == x9 = 0 /\ Unused10
Unused8 == x8 = 0 /\ Unused9
Unused7 == x7 = 0 /\ Unused8
Unused6 == x6 = 0 /\ Unused7
Unused5 == x5 = 0 /\ Unused6
Unused4 == x4 = 0 /\ Unused5
Unused3 == x3 = 0 /\ Unused4
Unused2 == x2 = 0 /\ Unused3
Unused1 == x1 = 0 /\ Unused2

Same13 == x13' = x13
Same12 == x12' = x12 /\ Same13
Same11 == x11' = x11 /\ Same12
Same10 == x10' = x10 /\ Same11
Same9 == x9' = x9 /\ Same10
Same8 == x8' = x8 /\ Same9
Same7 == x7' = x7 /\ Same8
Same6 == x6' = x6 /\ Same7
Same5 == x5' = x5 /\ Same6
Same4 == x4' = x4 /\ Same5
Same3 == x3' = x3 /\ Same4
Same2 == x2' = x2 /\ Same3
Same1 == x1' = x1 /\ Same2

-----------------------------------------------------------------------------
all == <<vars, part, entries, current, dumped, mayDump, x1, x2, x3, x4, x5, x6, x7, x8, x9, x10, x11, x12, x13>>

StartOfParts ==
  \/ part = "session" /\ Unused1
  \/ part = "history" /\ Unused1
  \/ /\ part = "addresses" /\ Unused2
     /\ \/ \E link \in AdLinks, base \in AdBases : x1 = [link |-> link, base |-> base]
        \/ \E text \in AdTyped : x1 = [text |-> text]
  \/ part = "settings" /\ Conf!Init /\ Unused9
  \/ part = "user files" /\ Keep!Init /\ Unused8
  \/ part = "file browser" /\ Browser!Init
  \/ part = "forwarder" /\ Starter!Init /\ Unused12
  \/ part = "mem2" /\ Heap!Init /\ Unused6
  \/ part = "pictures" /\ Image!Init /\ Unused9
  \/ part = "responses" /\ Answer!Init
  \/ part = "markup" /\ Tokens!Init /\ Unused7
  \/ part = "entities" /\ Entity!Init /\ Unused6
  \/ part = "texts" /\ Utf!Init /\ Unused6
  \/ part = "languages" /\ Message!Init /\ Unused7

MCInit == Init /\ Visited!Init /\ StartOfParts

StepOfParts ==
  /\ UNCHANGED <<vars, entries, current, dumped, mayDump>>
  /\ \/ part = "settings" /\ Conf!Next /\ Same9
     \/ part = "user files" /\ Keep!Next /\ Same8
     \/ part = "file browser" /\ Browser!Next
     \/ part = "forwarder" /\ Starter!Next /\ Same12
     \/ part = "mem2" /\ Heap!Next /\ Same6
     \/ part = "pictures" /\ Image!Next /\ Same9
     \/ part = "responses" /\ Answer!Next
     \/ part = "markup" /\ Tokens!Next /\ Same7
     \/ part = "entities" /\ Entity!Next /\ Same6
     \/ part = "texts" /\ Utf!Next /\ Same6
     \/ part = "languages" /\ Message!Next /\ Same7

MCNext ==
  /\ UNCHANGED part
  /\ \/ part = "session" /\ Next /\ UNCHANGED <<entries, current, dumped, mayDump>> /\ Same1
     \/ part = "history" /\ Visited!Next /\ UNCHANGED vars /\ Same1
     \/ StepOfParts

MCSpec == MCInit /\ [][MCNext]_all

EntitiesSpec == part = "entities" /\ MCInit /\ [][MCNext]_all

-----------------------------------------------------------------------------
(* Properties.                                                             *)

\* What the program holds is whole: the history's pointers, the blocks of
\* MEM2, the textures of pictures; and the session's values are of their
\* types (liste.cpp, mem2_manager.c, gui_imagedata.cpp).
StateIsSound ==
  /\ TypeOK
  /\ Visited!WellLinked
  /\ part = "mem2" => Heap!BlocksHold
  /\ part = "pictures" => Image!PicturesHold

\* The answer to a request is what the last server said, not one before it
\* (httplib.cpp:22-164).
AnswersAreTheLast == part = "responses" => Answer!AnswerIsTheLast

\* Every character of a document is in one token (ParserSax.tcc:43-232).
MarkupIsCovered == part = "markup" => Tokens!TokensCoverText

\* A text says the same behind every conversion of the program: between its
\* own characters and UTF-8, through the entities of an address, through a
\* form's fields, through the file of a language, and as a link of a page.
TextsKeepTheirMeaning ==
  /\ part = "texts" => Utf!TextComesBack
  /\ part = "entities" => Entity!DecodesInPlace
  /\ part = "languages" => Message!MessagesTellTheFile
  /\ part = "addresses" =>
       IF "text" \in DOMAIN x1 THEN Links!ArrivesAsTyped(x1.text)
       ELSE Links!Settled(x1.link, x1.base) /\ Links!KeepsHost(x1.link, x1.base)

\* An entity of the table becomes the bytes the table gives it
\* (entities.h:7-8, entities.c:10-264).
NamedEntitiesDecoded == part = "entities" => Entity!NamedEntitiesDecoded

\* A path that is chosen, and the program that is started from one, is on a
\* device that is there (filebrowser.cpp, fileop.cpp, forwarder main.c).
PathsLeadSomewhere ==
  /\ part = "file browser" => Browser!BrowserStaysOnDevice
  /\ part = "forwarder" => Starter!ForwardsTheBest

\* The pointers of the history are a trail of pages (liste.cpp:164-193).
ImplementsTrail == Visited!ImplementsTrail

\* What was kept is found again: the history and the settings by the next
\* start, the user's own files by the user, whatever fails on the way
\* (liste.cpp:194-226, settings.cpp:119-332, file_io.cpp:14-61).
KeptDataIsFound ==
  [][/\ Visited!TrailKept
     /\ part = "settings" => Conf!SettingsKept
     /\ part = "user files" => Keep!FilesKept]_all
=============================================================================
