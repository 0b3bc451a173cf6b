------------------------------- MODULE Texts -------------------------------
(***************************************************************************)
(* UTF-8 to wide characters and back (FreeTypeGX.cpp): what a page or the  *)
(* user gives as bytes, and what a text field gives back in a buffer of a  *)
(* limited size.                                                           *)
(***************************************************************************)
EXTENDS Naturals, Sequences, SequencesExt

CONSTANTS
  Bytes,      \* the bytes texts are made of, none 0
  MaxBytes,   \* bound: bytes of a text
  Capacities  \* sizes of the buffer; 0: as large as it takes

VARIABLES text, wide, capacity, bytes, pc

vars == <<text, wide, capacity, bytes, pc>>

Replacement == 65533                    \* U+FFFD
Surrogate(v) == v \in 55296..57343
Largest == 1114111

-----------------------------------------------------------------------------
\* How many bytes the first one announces, 0 if none can begin with it.
count(b) ==
  IF b < 128 THEN 1
  ELSE IF b \in 194..223 THEN 2
  ELSE IF b \in 224..239 THEN 3
  ELSE IF b \in 240..244 THEN 4 ELSE 0

minimum == <<0, 128, 2048, 65536>>
Continues(b) == b \div 64 = 2

\* The value at an index: what the announced bytes say, within its limits.
value(s, i, n) ==
  FoldLeft(LAMBDA v, b : v * 64 + (b % 64),
           IF n = 1 THEN s[i] ELSE s[i] % (2 ^ (7 - n)),
           SubSeq(s, i + 1, i + n - 1))
\* Mutant: the surrogates are characters.
valid_Surrogates(s, i) ==
  LET n == count(s[i]) IN
  /\ n > 0 /\ i + n - 1 <= Len(s)
  /\ \A k \in i + 1..i + n - 1 : Continues(s[k])
  /\ n > 1 => LET v == value(s, i, n) IN v >= minimum[n] /\ v <= Largest

valid(s, i) ==
  LET n == count(s[i]) IN
  /\ n > 0 /\ i + n - 1 <= Len(s)
  /\ \A k \in i + 1..i + n - 1 : Continues(s[k])
  /\ n > 1 => LET v == value(s, i, n) IN v >= minimum[n] /\ v <= Largest /\ ~Surrogate(v)

charToWideChar(s) ==
  LET from[i \in 1..Len(s) + 1] ==
        IF i > Len(s) THEN <<>>
        ELSE IF valid(s, i) THEN <<value(s, i, count(s[i]))>> \o from[i + count(s[i])]
        ELSE <<Replacement>> \o from[i + 1]
  IN from[1]

Encoded(v) ==
  IF v < 128 THEN <<v>>
  ELSE IF v < 2048 THEN <<192 + (v \div 64), 128 + (v % 64)>>
  ELSE IF v < 65536 THEN <<224 + (v \div 4096), 128 + ((v \div 64) % 64), 128 + (v % 64)>>
  ELSE <<240 + (v \div 262144), 128 + ((v \div 4096) % 64), 128 + ((v \div 64) % 64), 128 + (v % 64)>>

\* As many whole characters as leave room for the final zero.
wideCharToChar(w, len) ==
  LET room == IF len > 0 THEN len ELSE Len(w) * 4 + 1
      from[i \in 1..Len(w) + 1, used \in 0..Len(w) * 4] ==
        IF i > Len(w) THEN <<>>
        ELSE LET v == IF w[i] > Largest \/ Surrogate(w[i]) THEN Replacement ELSE w[i] IN
             IF Len(Encoded(v)) >= room - used THEN <<>>
             ELSE Encoded(v) \o from[i + 1, used + Len(Encoded(v))]
  IN from[1, 0]

-----------------------------------------------------------------------------
Init ==
  /\ text = <<>> /\ wide = <<>> /\ bytes = <<>>
  /\ capacity \in Capacities
  /\ pc = "type"

Type ==
  /\ pc = "type" /\ Len(text) < MaxBytes
  /\ \E b \in Bytes : text' = Append(text, b)
  /\ UNCHANGED <<wide, capacity, bytes, pc>>

SetText ==
  /\ pc = "type"
  /\ wide' = charToWideChar(text) /\ pc' = "set"
  /\ UNCHANGED <<text, capacity, bytes>>

GetText ==
  /\ pc = "set"
  /\ bytes' = wideCharToChar(wide, capacity) /\ pc' = "got"
  /\ UNCHANGED <<text, wide, capacity>>

Next == Type \/ SetText \/ GetText

Spec == Init /\ [][Next]_vars

-----------------------------------------------------------------------------
\* Well-formed UTF-8: sequences of the forms of the standard, end to end.
Shortest(s) ==
  \E v \in {value(s, 1, Len(s))} : Len(s) \in 1..4 /\ v <= Largest /\ ~Surrogate(v) /\ s = Encoded(v)
WellFormed(s) ==
  LET ok[i \in 0..Len(s)] ==
        i = 0 \/ \E n \in 1..4 : n <= i /\ ok[i - n] /\ Shortest(SubSeq(s, i - n + 1, i))
  IN ok[Len(s)]

\* A text that is UTF-8 comes back as it was, any other as UTF-8 that shows
\* the same; only whole characters are cut off at the end, only where the
\* buffer is full, and the final zero has its room (FreeTypeGX.cpp:118-160).
TextComesBack ==
  pc = "got" =>
    LET shown == charToWideChar(bytes) IN
    /\ WellFormed(bytes)
    /\ IsPrefix(shown, wide)
    /\ WellFormed(text) => IsPrefix(bytes, text)
    /\ capacity > 0 => Len(bytes) < capacity
    /\ shown # wide => capacity > 0 /\ Len(bytes \o Encoded(wide[Len(shown) + 1])) >= capacity
=============================================================================
