------------------------------ MODULE Entities ------------------------------
(***************************************************************************)
(* The HTML entities of an address, decoded in place (entities.c).  The    *)
(* letters of an entity's name are one cell of the text: its place in the  *)
(* byte order of the names, added to 256.                                  *)
(***************************************************************************)
EXTENDS Naturals, Sequences, FiniteSets

CONSTANTS
  Inputs,      \* addresses, as sequences of bytes and names
  Value        \* the bytes a name stands for

Amp == 38
Hash == 35
Semi == 59
Ex == 120
Minus == 45
Name(r) == 256 + r
UNICODE_MAX == 1114111

VARIABLES
  input,
  buf,         \* the address, with the zero that ends it
  from, to,    \* the next cell to read and to write
  done

vars == <<input, buf, from, to, done>>

\* The table is in the order of its bytes, but for "sup;", which stands
\* before "sup1;", "sup2;" and "sup3;" and belongs behind them.
named_entities(i) ==
  CASE i = 222 -> 225 [] i \in 223..225 -> i - 1 [] OTHER -> i

\* bsearch over the n entries behind the first b.
get_named_entity(name) ==
  LET found[b \in 0..253, n \in 0..253] ==
        LET mid == named_entities(b + n \div 2 + 1) IN
        IF n = 0 THEN FALSE
        ELSE IF Name(mid) = name THEN TRUE
        ELSE IF name < Name(mid) THEN found[b, n \div 2]
        ELSE found[b + n \div 2 + 1, n - n \div 2 - 1]
  IN found[0, 253]

putc_utf8(cp) ==
  IF cp <= 127 THEN <<cp>>
  ELSE IF cp <= 2047 THEN <<192 + cp \div 64, 128 + (cp % 64)>>
  ELSE IF cp <= 65535 THEN <<224 + cp \div 4096, 128 + ((cp \div 64) % 64), 128 + (cp % 64)>>
  ELSE <<240 + cp \div 262144, 128 + ((cp \div 4096) % 64), 128 + ((cp \div 64) % 64), 128 + (cp % 64)>>

\* strtoul: the digits from i on; a minus takes the number from 2^32.  With
\* none the tail is where it began, and the number zero.
Digit(c, hex) == c \in 48..57 \/ (hex /\ c \in 97..102)
strtoul(s, start, hex) ==
  LET neg == s[start] = Minus
      i == IF neg THEN start + 1 ELSE start
      tail == CHOOSE j \in i..Len(s) : ~Digit(s[j], hex) /\ \A k \in i..j - 1 : Digit(s[k], hex)
      of[j \in i - 1..tail - 1] == IF j < i THEN 0
                                   ELSE of[j - 1] * (IF hex THEN 16 ELSE 10) + (IF s[j] > 57 THEN s[j] - 87 ELSE s[j] - 48) IN
  [tail |-> IF tail = i THEN start ELSE tail,
   cp |-> IF neg /\ of[tail - 1] # 0 THEN UNICODE_MAX + 1 ELSE of[tail - 1]]

strchr(s, c, i) ==
  LET at == {j \in i..Len(s) : s[j] = c /\ \A k \in i..j - 1 : s[k] # 0} IN
  IF at = {} THEN 0 ELSE CHOOSE j \in at : \A k \in at : j <= k

\* What the entity that starts at an ampersand stands for and where the text
\* goes on, or nothing.
parse_entity(s, current) ==
  LET end == strchr(s, Semi, current)
      hex == s[current + 2] = Ex
      number == strtoul(s, current + (IF hex THEN 3 ELSE 2), hex) IN
  IF end = 0 THEN <<>>
  ELSE IF s[current + 1] = Hash
       THEN IF number.tail = end /\ number.cp <= UNICODE_MAX
            THEN <<[text |-> putc_utf8(number.cp), from |-> end + 1]>> ELSE <<>>
  ELSE IF s[current + 2] = Semi /\ get_named_entity(s[current + 1])
       THEN <<[text |-> Value[s[current + 1] - 256], from |-> end + 1]>>
  ELSE <<>>

\* memcpy, the first cell first: what is read may already be written.
Copied(s, dst, src, n) ==
  LET at[j \in 1..Len(s)] == IF j \in dst..dst + n - 1
                             THEN (IF src + j - dst \in dst..j - 1 THEN at[src + j - dst] ELSE s[src + j - dst])
                             ELSE s[j]
  IN at
Put(s, dst, text) == [j \in DOMAIN s |-> IF j \in dst..dst + Len(text) - 1 THEN text[j - dst + 1] ELSE s[j]]

Init ==
  /\ input \in Inputs
  /\ buf = input \o <<0>> /\ from = 1 /\ to = 1 /\ done = FALSE

\* The text up to an ampersand, then the entity or the ampersand itself.
Decode ==
  LET current == strchr(buf, Amp, from)
      moved == Copied(buf, to, from, current - from)
      next == to + current - from
      entity == parse_entity(moved, current) IN
  /\ ~done /\ current # 0
  /\ IF entity = <<>>
     THEN buf' = Put(moved, next, <<Amp>>) /\ from' = current + 1 /\ to' = next + 1
     ELSE buf' = Put(moved, next, entity[1].text) /\ from' = entity[1].from /\ to' = next + Len(entity[1].text)
  /\ UNCHANGED <<input, done>>

Finish ==
  LET remaining == strchr(buf, 0, from) - from IN
  /\ ~done /\ strchr(buf, Amp, from) = 0
  /\ buf' = Put(Copied(buf, to, from, remaining), to + remaining, <<0>>)
  /\ to' = to + remaining /\ done' = TRUE
  /\ UNCHANGED <<input, from>>

Next == Decode \/ Finish

Spec == Init /\ [][Next]_vars

-----------------------------------------------------------------------------
\* The entities of the address decoded from its end, without a buffer.
Decoded ==
  LET s == input \o <<0>>
      of[i \in 1..Len(s)] ==
        IF s[i] = 0 THEN <<>>
        ELSE IF s[i] = Amp /\ parse_entity(s, i) # <<>>
             THEN parse_entity(s, i)[1].text \o of[parse_entity(s, i)[1].from]
             ELSE <<s[i]>> \o of[i + 1]
  IN of[1]

\* Writing never passes reading, so that decoding in place gives what
\* decoding from the end gives, and its length; and the search finds every
\* name of the table but "sup;" (entities.c:266-281, 360-387).
DecodesInPlace ==
  /\ ~done => to <= from
  /\ done => to - 1 = Len(Decoded) /\ SubSeq(buf, 1, to) = Decoded \o <<0>>
  /\ done => \A r \in DOMAIN Value \ {225} :
               input = <<Amp, Name(r), Semi>> => SubSeq(buf, 1, to - 1) = Value[r]

\* An entity of the table becomes the bytes the table gives it
\* (entities.h:7-8, entities.c:10-264).
NamedEntitiesDecoded ==
  done => \A r \in DOMAIN Value : input = <<Amp, Name(r), Semi>> => SubSeq(buf, 1, to - 1) = Value[r]
=============================================================================
