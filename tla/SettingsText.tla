---------------------------- MODULE SettingsText ----------------------------
(***************************************************************************)
(* The text of wiibrowser.cfg and the place it is in (src/core/settings.cpp*)
(* and the settings menu of src/ui/menu.cpp).  A place is a device and one *)
(* of the two folders the program looks for; a file is the sequence of its *)
(* lines.  Language stands for the other numbers and flags, DefaultFolder  *)
(* for the other texts.  How the file gets onto the device is              *)
(* RecoverableFile's.                                                      *)
(***************************************************************************)
EXTENDS Naturals, Sequences, SequencesExt

CONSTANTS
  Places,        \* in the order FindConfig looks: <<"sd", "usb">> and so on
  LANG_LENGTH,   \* languages the loader knows
  LANG_GERMAN,   \* the last one the menu knows
  Folders,       \* what may be typed as a folder, outer blanks and all
  OddLines       \* what the user may write into the file

VARIABLES
  folders,   \* places whose folder exists
  files,     \* files[p]: the lines of the configuration there, or NoFile
  place,     \* AppPath of the session, or of the last one; NoPlace
  argv0,     \* the place the program was started from, or NoPlace
  settings,  \* the fields in memory
  writable,  \* configWritable
  running,
  touched    \* media or files changed by hand since the session ended

vars == <<folders, files, place, argv0, settings, writable, running, touched>>

NoFile == <<"none">>
NoPlace == "none"
At(p) == CHOOSE i \in DOMAIN Places : Places[i] = p
AllPlaces == ToSet(Places)
Present(p) == files[p] # NoFile

\* A text as typed or read: its characters, whether it has outer blanks, and
\* what is wrong with it: "" or "long", too long for the field, "control".
Text(t, blanks, wrong) == [text |-> t, blanks |-> blanks, wrong |-> wrong]
TrimLine(v) == [v EXCEPT !.blanks = FALSE]

\* ChangeFolder: the field as a path, on the boot device or by itself; a
\* part with a blank at its end is none, and the program's own folder is
\* the last resort.
Folder(field, p) ==
  IF field.blanks \/ field.text = "bad" THEN <<"AppPath", p>>
  ELSE IF field.text = "usb:/x" THEN <<"usb", "x">> ELSE <<p, field.text>>

SetDefault(p) ==
  [Language |-> 1, DefaultFolder |-> Text("apps", FALSE, ""), UserFolder |-> <<"AppPath", p>>]

Init ==
  /\ folders \in (SUBSET AllPlaces) \ {{}} /\ files = [p \in AllPlaces |-> NoFile]
  /\ place = NoPlace /\ argv0 = NoPlace
  /\ settings = SetDefault(NoPlace) /\ writable = FALSE /\ running = FALSE
  /\ touched = FALSE

-----------------------------------------------------------------------------
(* Lines.                                                                  *)

Number == [v \in {"0", "1", "2", "3"} |-> IF v = "0" THEN 0 ELSE IF v = "1" THEN 1 ELSE IF v = "2" THEN 2 ELSE 3]
parseInteger(v, top) == v.text \in DOMAIN Number /\ Number[v.text] <= top

\* One line of the file, SetSetting and then SetStartup.
ParseLine(s, line, p) ==
  LET v == TrimLine(line.value)
  IN CASE v.wrong # "" -> s
       [] line.name = "Language" /\ parseInteger(v, LANG_LENGTH - 1) ->
            [s EXCEPT !.Language = Number[v.text]]
       [] line.name = "DefaultFolder" -> [s EXCEPT !.DefaultFolder = v, !.UserFolder = Folder(v, p)]
       [] OTHER -> s

\* A line of 1024 bytes is not read and forbids a save.
TooLong(line) == line.name = "endless"

Read(lines, p) ==
  LET read == FoldLeft(LAMBDA s, line : ParseLine(s, line, p), SetDefault(p),
                       SelectSeq(lines, LAMBDA line : ~TooLong(line)))
  IN [read EXCEPT !.UserFolder = Folder(read.DefaultFolder, p)]

Numeral(n) == Text(CHOOSE v \in DOMAIN Number : Number[v] = n, FALSE, "")
Written(s) ==
  <<[name |-> "Language", value |-> Numeral(s.Language)],
    [name |-> "DefaultFolder", value |-> s.DefaultFolder]>>

-----------------------------------------------------------------------------
(* A session.                                                              *)

\* SetAppPath(argv[0]), or the first place with a file, or the first place.
Found(argv) ==
  IF argv \in folders THEN argv
  ELSE LET with == {p \in folders : Present(p)}
           among == IF with # {} THEN with ELSE folders
       IN IF among = {} THEN NoPlace ELSE CHOOSE p \in among : \A q \in among : At(p) <= At(q)

\* Load on the settings of a new process.
Start(argv) ==
  /\ ~running /\ running' = TRUE
  /\ argv0' = argv /\ place' = Found(argv) /\ touched' = FALSE
  /\ IF place' = NoPlace THEN settings' = SetDefault(NoPlace) /\ writable' = FALSE
     ELSE LET lines == IF Present(place') THEN files[place'] ELSE <<>>
          IN /\ settings' = Read(lines, place')
             /\ writable' = \A i \in DOMAIN lines : ~TooLong(lines[i])
  /\ UNCHANGED <<folders, files>>

\* MenuSettings: it opens with a language it knows, then an option changes.
OpenSettings ==
  /\ running /\ settings.Language > LANG_GERMAN
  /\ settings' = [settings EXCEPT !.Language = 0]
  /\ UNCHANGED <<folders, files, place, argv0, writable, running, touched>>

Option ==
  /\ running /\ settings.Language <= LANG_GERMAN
  /\ \/ settings' = [settings EXCEPT !.Language = IF @ + 1 > LANG_GERMAN THEN 0 ELSE @ + 1]
     \/ \E f \in Folders :
          settings' = [settings EXCEPT !.DefaultFolder = f, !.UserFolder = Folder(f, place)]
  /\ UNCHANGED <<folders, files, place, argv0, writable, running, touched>>

\* Save, at the end of the session: an earlier one writes what this one does.
Save ==
  /\ running /\ running' = FALSE
  /\ files' = IF writable THEN [files EXCEPT ![place] = Written(settings)] ELSE files
  /\ UNCHANGED <<folders, place, argv0, settings, writable, touched>>

\* Between two sessions: a line is added, a folder or a card appears or goes.
EditFile(p, line) ==
  /\ ~running /\ Present(p) /\ Len(files[p]) = 2   \* one line by hand
  /\ files' = [files EXCEPT ![p] = Append(@, line)] /\ touched' = TRUE
  /\ UNCHANGED <<folders, place, argv0, settings, writable, running>>

MoveMedia(p) ==
  /\ ~running
  /\ folders' = (IF p \in folders THEN folders \ {p} ELSE folders \cup {p}) /\ touched' = TRUE
  /\ UNCHANGED <<files, place, argv0, settings, writable, running>>

Next ==
  \/ \E argv \in AllPlaces \cup {NoPlace} : Start(argv)
  \/ OpenSettings \/ Option
  \/ Save
  \/ \E p \in AllPlaces : MoveMedia(p) \/ \E line \in OddLines : EditFile(p, line)

Spec == Init /\ [][Next]_vars

-----------------------------------------------------------------------------
(* Properties.                                                             *)

\* A program started again in the same way, with nothing touched in between,
\* finds the configuration it wrote, or where it would have written it, and
\* not that of another folder or device (settings.cpp:119-158); it comes up
\* with the settings it ended with, the outer blanks of a typed text gone and
\* the folder, unless it had such blanks, the same; and it may save again if
\* it could (settings.cpp:160-284, 321-332).
SettingsKept ==
  ~running /\ running' /\ ~touched /\ place # NoPlace /\ argv0' = argv0 =>
    /\ place' = place
    /\ writable =>
         /\ writable'
         /\ settings'.Language = settings.Language
         /\ settings'.DefaultFolder = TrimLine(settings.DefaultFolder)
         /\ ~settings.DefaultFolder.blanks => settings'.UserFolder = settings.UserFolder
RestartKeepsSettings == [][SettingsKept]_vars
=============================================================================
