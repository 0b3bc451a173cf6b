----------------------------- MODULE Keyboard ------------------------------
(***************************************************************************)
(* The on-screen keyboard: a text, the part of it that fits into the box,  *)
(* and the caret in that part (OnScreenKeyboard of menu.cpp, GuiKeyboard   *)
(* of libwiigui, TextPointer.cpp).                                         *)
(***************************************************************************)
EXTENDS Naturals, Integers, Sequences, FiniteSets, SequencesExt, FiniteSetsExt, Functions

CONSTANTS
  Keys,                  \* pairs of letters: the key as it is, and shifted
  Width,                 \* letter -> its width; "nl" ends a line
  MAX_KEYBOARD_DISPLAY,  \* the width of the box ...
  MaxWidth,              \* ... and that of the text in it
  MaxLen,                \* letters a text may have
  Messages,              \* texts of the language -> their translations
  Clicks,                \* where in the box one may point, in pixels
  Texts                  \* what var may hold when the keyboard opens

Letters == {k[1] : k \in Keys} \cup {k[2] : k \in Keys}

\* A letter that is typed, given or translated to has a width.
KeyboardAssumption ==
  /\ MAX_KEYBOARD_DISPLAY \in Nat /\ MaxLen \in Nat
  /\ Letters \cup {"nl"} \subseteq DOMAIN Width
  /\ \A c \in DOMAIN Width : Width[c] \in Nat
  /\ Texts \subseteq Seq(DOMAIN Width)
  /\ \A t \in DOMAIN Messages : Messages[t] \in Seq(DOMAIN Width)

VARIABLES
  var,                  \* what the caller gave and gets
  open,                 \* whether the keyboard is on the screen
  kbtextstr,
  CurrentFirstLetter,   \* the first letter shown
  LetterNumInLine,      \* letters between it and the caret
  Position_X,           \* and the pixels
  shift, caps

vars == <<var, open, kbtextstr, CurrentFirstLetter, LetterNumInLine, Position_X, shift, caps>>

getWidth(t) ==
  LET to[n \in 0..Len(t)] == IF n = 0 THEN 0 ELSE to[n - 1] + Width[t[n]] IN to[Len(t)]
Suffix(t, n) == SubSeq(t, n + 1, Len(t))

CalcMaxLine(t) == Min({n \in 0..Len(t) : n = Len(t) \/ getWidth(Suffix(t, n)) < MAX_KEYBOARD_DISPLAY})

\* The box shows what the language makes of the text; the caret stays in the
\* first line of it.
GetDisplayText(t) ==
  LET s == Suffix(t, CalcMaxLine(t)) IN IF s \in DOMAIN Messages THEN Messages[s] ELSE s
GetTextLine(t) ==
  LET s == GetDisplayText(t) IN
  SubSeq(s, 1, Min({i - 1 : i \in {j \in DOMAIN s : s[j] = "nl"}} \cup {Len(s)}))

SetLetterPosition(t, LetterPos) ==
  LET line == GetTextLine(t)
      n == IF LetterPos <= 0 THEN 0 ELSE Min({LetterPos, Len(line)}) IN
  /\ LetterNumInLine' = n
  /\ Position_X' = getWidth(SubSeq(line, 1, n))

Init ==
  /\ var \in Texts /\ open = FALSE
  /\ kbtextstr = <<>> /\ CurrentFirstLetter = 0 /\ LetterNumInLine = 0 /\ Position_X = 0
  /\ shift = FALSE /\ caps = FALSE

\* A new keyboard: a text too long is cut, the caret goes to the end.
Open ==
  /\ ~open /\ open' = TRUE
  /\ kbtextstr' = SubSeq(var, 1, Min({MaxLen, Len(var)}))
  /\ CurrentFirstLetter' = CalcMaxLine(kbtextstr')
  /\ SetLetterPosition(kbtextstr', MAX_KEYBOARD_DISPLAY - 1)
  /\ shift' = FALSE /\ caps' = FALSE
  /\ UNCHANGED var

\* Mutant: the caret does not go with the letter.
MoveText_CaretStays(t, n) ==
  /\ CurrentFirstLetter' = CalcMaxLine(t)
  /\ SetLetterPosition(t, LetterNumInLine)

MoveText(t, n) ==
  LET LettDiff == CalcMaxLine(t) - CurrentFirstLetter + n IN
  /\ CurrentFirstLetter' = CalcMaxLine(t)
  /\ SetLetterPosition(t, IF getWidth(t) > MAX_KEYBOARD_DISPLAY THEN LetterNumInLine
                          ELSE LetterNumInLine + LettDiff)

Caret == CurrentFirstLetter + LetterNumInLine
Same == UNCHANGED <<kbtextstr, CurrentFirstLetter, LetterNumInLine, Position_X>>

AddChar(Char) ==
  IF Caret > Len(kbtextstr) \/ Len(kbtextstr) >= MaxLen THEN Same
  ELSE /\ kbtextstr' = InsertAt(kbtextstr, Caret + 1, Char)
       /\ MoveText(kbtextstr', 1)

RemoveChar ==
  /\ open
  /\ IF Caret \notin 1..Len(kbtextstr) THEN Same
     ELSE /\ kbtextstr' = RemoveAt(kbtextstr, Caret)
          /\ MoveText(kbtextstr', -1)
  /\ UNCHANGED <<var, open, shift, caps>>

\* A key of the screen; shift holds for one key.
Press(k) ==
  /\ open
  /\ AddChar(IF shift \/ caps THEN k[2] ELSE k[1])
  /\ shift' = FALSE
  /\ UNCHANGED <<var, open, caps>>

\* Enter and the space, which leave shift alone.
PressEnter ==
  /\ open
  /\ AddChar("nl")
  /\ UNCHANGED <<var, open, shift, caps>>

\* A key of a USB keyboard.
Type(c) ==
  /\ open
  /\ AddChar(c)
  /\ shift' = FALSE
  /\ UNCHANGED <<var, open, caps>>

ToggleShift == open /\ shift' = ~shift /\ UNCHANGED caps /\ Same /\ UNCHANGED <<var, open>>
ToggleCaps == open /\ caps' = ~caps /\ UNCHANGED shift /\ Same /\ UNCHANGED <<var, open>>

\* The caret goes behind the letter whose end is the nearest, the first of
\* several, or before all of them.
PositionChanged(x) ==
  LET line == GetTextLine(kbtextstr)
      end(n) == getWidth(SubSeq(line, 1, n))
      far(n) == IF end(n) > x THEN end(n) - x ELSE x - end(n)
      reached == {n \in 1..Len(line) : end(n) <= MaxWidth}
      nearest == {n \in reached : \A m \in reached : far(m) > far(n) \/ (far(m) = far(n) /\ n <= m)}
      n == IF nearest = {} \/ (\E m \in nearest : far(m) > x) THEN 0 ELSE Min(nearest) IN
  /\ open
  /\ LetterNumInLine' = n /\ Position_X' = end(n)
  /\ UNCHANGED <<kbtextstr, CurrentFirstLetter, var, open, shift, caps>>

\* The text is shown from its own first letter again.
GoLeft ==
  /\ open
  /\ CurrentFirstLetter' = CalcMaxLine(kbtextstr)
  /\ SetLetterPosition(kbtextstr, LetterNumInLine - 1)
  /\ UNCHANGED <<kbtextstr, var, open, shift, caps>>

GoRight ==
  LET n == LetterNumInLine + 1 IN
  /\ open
  /\ CurrentFirstLetter' = CalcMaxLine(kbtextstr)
  /\ SetLetterPosition(kbtextstr, IF n > MAX_KEYBOARD_DISPLAY - 1 \/ n > Len(kbtextstr) THEN n - 1 ELSE n)
  /\ UNCHANGED <<kbtextstr, var, open, shift, caps>>

\* OK keeps the text; Cancel, B, Home and the end of the program do not.
Close ==
  /\ open /\ open' = FALSE
  /\ var' \in {kbtextstr, var}
  /\ Same /\ UNCHANGED <<shift, caps>>

Next ==
  \/ Open \/ RemoveChar \/ PressEnter \/ ToggleShift \/ ToggleCaps \/ GoLeft \/ GoRight \/ Close
  \/ \E k \in Keys : Press(k)
  \/ \E c \in Letters : Type(c)
  \/ \E x \in Clicks : PositionChanged(x)

Spec == Init /\ [][Next]_vars

-----------------------------------------------------------------------------
AsTyped(t) == Suffix(t, CalcMaxLine(t)) \notin DOMAIN Messages
Fits(t) == getWidth(t) < MAX_KEYBOARD_DISPLAY /\ "nl" \notin Range(t) /\ AsTyped(t)

\* Unless the box shows a translation the caret stands within the text, so
\* that no key is lost while there is room, and on the screen it stands at
\* the end of the letters before it; and as long as the text fits into the
\* box as one line, a key goes where the caret is and takes the caret along
\* (gui_keyboard.cpp:36-90, 410-468, TextPointer.cpp:82-190).
CaretKept ==
  open' /\ AsTyped(kbtextstr') =>
    /\ Caret' \in 0..Len(kbtextstr')
    /\ Position_X' = getWidth(SubSeq(kbtextstr', CurrentFirstLetter' + 1, Caret'))
    /\ (open /\ kbtextstr' # kbtextstr /\ Fits(kbtextstr) /\ Fits(kbtextstr')) =>
         \/ Caret' = Caret + 1 /\ RemoveAt(kbtextstr', Caret') = kbtextstr
         \/ Caret' = Caret - 1 /\ kbtextstr' = RemoveAt(kbtextstr, Caret)
CaretFollowsText == [][CaretKept]_vars
=============================================================================
