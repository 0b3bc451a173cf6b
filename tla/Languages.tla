----------------------------- MODULE Languages -----------------------------
(***************************************************************************)
(* The messages of a language file and their look-up (gettext.cpp).  A     *)
(* translation is kept under the hash of its message alone.                *)
(***************************************************************************)
EXTENDS Naturals, Sequences, FiniteSets, SequencesExt, Bitwise

CONSTANTS
  Ids,         \* messages of the program and of the files, as their codes
  Texts,       \* translations, as the characters that stand in a file
  MaxLines     \* bound: lines of a file

\* A line of a file: a msgid or a msgstr with something between the quotes,
\* one with nothing, or another.
Id(i) == <<"msgid", i>>
Str(t) == <<"msgstr", t>>
Lines == {Id(i) : i \in Ids} \cup {Str(t) : t \in Texts}
         \cup {<<"msgid">>, <<"msgstr">>, <<"comment">>}

VARIABLES
  file,      \* the lines of the language's file
  at,        \* how many of them LoadLanguage has read
  lastID,    \* <<>> or the message of the msgid line before
  baseMSG,   \* the list of messages, the newest first
  heap,      \* messages and strings allocated and not freed
  loaded

vars == <<file, at, lastID, baseMSG, heap, loaded>>

Init ==
  /\ file = <<>> /\ at = 0 /\ lastID = <<>> /\ baseMSG = <<>> /\ heap = 0 /\ loaded = FALSE

\* hashpjw: 28 bits, the four shifted out of them folded into the low byte.
hash_string(msgid) ==
  FoldLeft(LAMBDA hval, c :
             LET low == (hval % 2 ^ 24) * 16 + c
                 g == (hval \div 2 ^ 24 + low \div 2 ^ 28) % 16 IN
             (low % 2 ^ 28) ^^ (g * 16),
           0, msgid)

\* A known escape becomes its character; a backslash, with a second one or
\* with up to three octal digits after it, is lost: rp stays on it.
Escapes == {"\"", "a", "b", "f", "n", "r", "t", "v"}
Octal == {"0", "1", "7"}
expand_escape(str) ==
  LET digits(i) == Cardinality({k \in i..i + 2 : k <= Len(str) /\ \A j \in i..k : str[j] \in Octal})
      from[i \in 1..Len(str) + 3] ==
        IF i > Len(str) THEN <<>>
        ELSE IF str[i] # "\\" THEN <<str[i]>> \o from[i + 1]
        ELSE IF i = Len(str) THEN <<>>
        ELSE IF str[i + 1] \in Escapes THEN <<<<"escape", str[i + 1]>>>> \o from[i + 2]
        ELSE IF str[i + 1] = "\\" THEN from[i + 2]
        ELSE IF str[i + 1] \in Octal THEN from[i + 1 + digits(i + 1)]
        ELSE from[i + 1]
  IN from[1]

findMSG(list, id) == SelectSeq(list, LAMBDA m : m.id = id)

\* A new message goes to the front; an old translation is freed.
setMSG(msgid, msgstr) ==
  LET id == hash_string(msgid) IN
  IF findMSG(baseMSG, id) = <<>>
  THEN /\ baseMSG' = <<[id |-> id, msgstr |-> expand_escape(msgstr)]>> \o baseMSG
       /\ heap' = heap + 2 - 1
  ELSE /\ baseMSG' = [k \in DOMAIN baseMSG |->
                        IF baseMSG[k].id = id THEN [baseMSG[k] EXCEPT !.msgstr = expand_escape(msgstr)] ELSE baseMSG[k]]
       /\ heap' = heap - 1

\* LoadLanguage, which main calls once: what was there before goes.
gettextCleanUp ==
  /\ ~loaded
  /\ \E n \in 0..MaxLines : file' \in [1..n -> Lines]
  /\ at' = 0
  /\ baseMSG' = <<>>
  /\ heap' = heap - 2 * Len(baseMSG)
  /\ loaded' = TRUE
  /\ UNCHANGED lastID

line == file[at + 1]
NextLine == at < Len(file) /\ at' = at + 1 /\ UNCHANGED <<file, loaded>>

MsgId ==
  /\ NextLine /\ line[1] = "msgid"
  /\ lastID' = Tail(line)
  /\ heap' = heap - Len(lastID) + Len(lastID')
  /\ UNCHANGED baseMSG

\* Without a message before it, it is passed over; without a text it only
\* ends the message.
MsgStr ==
  /\ NextLine /\ line[1] = "msgstr"
  /\ IF lastID = <<>> \/ Len(line) = 1
     THEN UNCHANGED baseMSG /\ heap' = heap - Len(lastID)
     ELSE setMSG(lastID[1], line[2])
  /\ lastID' = <<>>

Comment ==
  /\ NextLine /\ line[1] = "comment"
  /\ UNCHANGED <<lastID, baseMSG, heap>>

Next == gettextCleanUp \/ MsgId \/ MsgStr \/ Comment

Spec == Init /\ [][Next]_vars

gettext(msgid) ==
  LET found == findMSG(baseMSG, hash_string(msgid)) IN
  IF found = <<>> THEN <<"as it is", msgid>> ELSE <<"translated", found[1].msgstr>>

-----------------------------------------------------------------------------
\* The translations of a message in the lines read: those whose last msgid
\* line before them names it, with no msgstr line in between.
Given(i) ==
  {k \in 1..at : /\ file[k][1] = "msgstr" /\ Len(file[k]) = 2
                 /\ \E j \in 1..k - 1 : /\ file[j] = Id(i)
                                        /\ \A m \in j + 1..k - 1 : file[m][1] = "comment"}

\* A message whose hash is its own is shown in the last translation of the
\* lines read, as it is if they have none; nothing but the list and the last
\* message stays allocated, and a
\* text is no longer than what it was expanded from (gettext.cpp:152-175, 224-260).
MessagesTellTheFile ==
  /\ \A i \in Ids : (\A j \in Ids \ {i} : hash_string(j) # hash_string(i)) =>
       gettext(i) = IF Given(i) = {} THEN <<"as it is", i>>
                    ELSE <<"translated", expand_escape(file[CHOOSE k \in Given(i) : \A l \in Given(i) : l <= k][2])>>
  /\ \A k \in DOMAIN baseMSG : \E t \in Texts : Len(baseMSG[k].msgstr) <= Len(t)
  /\ heap = 2 * Len(baseMSG) + Len(lastID)
=============================================================================
