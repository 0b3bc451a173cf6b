---------------------------- MODULE Parts_proofs ----------------------------
(***************************************************************************)
(* The parts that MCData and MCScreens run side by side, each for any      *)
(* value of its constants.  HistoryList is the module extended here: its   *)
(* pointers stay a trail of pages with a place on it, and a start walks it *)
(* again.  The others are instances, with constants and variables of the   *)
(* same names.                                                             *)
(***************************************************************************)
EXTENDS HistoryList, SequenceTheorems, FiniteSetTheorems, Recursion, TLAPS

Kept == Urls \ {NotHttp}

\* The i-th entry, and the null pointer before the first and after the last.
Nth(q, i) == IF i \in 1..Len(q) THEN q[i] ELSE NULL
Drawn(q) == {q[i] : i \in 1..Len(q)}

\* The heap holds the entries q, linked in this order, with the addresses w.
ListOf(mem, q, w) ==
  /\ q \in Seq(Entries) /\ w \in Seq(Kept) /\ Len(w) = Len(q)
  /\ \A i, j \in 1..Len(q) : q[i] = q[j] => i = j
  /\ mem = [n \in Drawn(q) |-> mem[n]]
  /\ \A i \in 1..Len(q) :
       mem[q[i]] = [url |-> w[i], prec |-> Nth(q, i - 1), prox |-> Nth(q, i + 1)]

\* One of them is the current one, unless there is none.
IsAt(l, q, w, k) ==
  /\ l = [mem |-> l.mem, here |-> l.here]
  /\ ListOf(l.mem, q, w)
  /\ k \in 0..Len(q) /\ (k = 0 => Len(q) = 0)
  /\ l.here = Nth(q, k)

-----------------------------------------------------------------------------
(* Walking.                                                                *)

LEMMA Shape ==
  ASSUME MaxTrail \in Nat, NEW mem, NEW q, NEW w, ListOf(mem, q, w)
  PROVE  /\ Len(q) \in Nat /\ DOMAIN q = 1..Len(q) /\ DOMAIN w = 1..Len(q)
         /\ DOMAIN mem = Drawn(q)
         /\ \A i \in 1..Len(q) : q[i] \in Entries /\ q[i] # NULL /\ q[i] \in DOMAIN mem /\ w[i] \in Kept
        /\ \A i \in 1..Len(q) :
             mem[q[i]].url = w[i] /\ mem[q[i]].prec = Nth(q, i - 1) /\ mem[q[i]].prox = Nth(q, i + 1)
<1>1. q \in Seq(Entries) /\ w \in Seq(Kept) /\ Len(w) = Len(q)
  BY DEF ListOf
<1>2. Len(q) \in Nat /\ DOMAIN q = 1..Len(q) /\ DOMAIN w = 1..Len(q)
  BY <1>1, LenProperties
<1>3. \A i \in 1..Len(q) : q[i] \in Entries /\ w[i] \in Kept
  BY <1>1, ElementOfSeq
<1>4. DOMAIN mem = Drawn(q)
  BY Zenon DEF ListOf
<1>5. \A n \in Entries : n # NULL
  BY DEF Entries, NULL
<1>6. \A i \in 1..Len(q) : q[i] \in Drawn(q)
  BY DEF Drawn
<1>7. ASSUME NEW i \in 1..Len(q)
      PROVE  mem[q[i]].url = w[i] /\ mem[q[i]].prec = Nth(q, i - 1) /\ mem[q[i]].prox = Nth(q, i + 1)
  <2>1. mem[q[i]] = [url |-> w[i], prec |-> Nth(q, i - 1), prox |-> Nth(q, i + 1)]
    BY Zenon DEF ListOf
  <2> QED BY <2>1
<1> QED BY <1>2, <1>3, <1>4, <1>5, <1>6, <1>7

LEMMA Rest ==
  ASSUME NEW S, NEW q \in Seq(S)
  PROVE  /\ SubSeq(q, Len(q) + 1, Len(q)) = <<>>
         /\ \A i \in 1..Len(q) : SubSeq(q, i, Len(q)) = <<q[i]>> \o SubSeq(q, i + 1, Len(q))
<1>1. Len(q) \in Nat
  BY LenProperties
<1>2. SubSeq(q, Len(q) + 1, Len(q)) = <<>>
  BY <1>1, SubSeqEmpty
<1>3. ASSUME NEW i \in 1..Len(q)
      PROVE  SubSeq(q, i, Len(q)) = <<q[i]>> \o SubSeq(q, i + 1, Len(q))
  <2>1. Len(q) \in i..Len(q)
    BY <1>1
  <2> QED BY <2>1, SubSeqRecursiveFirst
<1> QED BY <1>2, <1>3

\* From walks to the end of the list.
LEMMA FromNth ==
  ASSUME MaxTrail \in Nat, NEW mem, NEW q, NEW w, ListOf(mem, q, w), NEW i \in 1..Len(q) + 1
  PROVE  From(mem, Nth(q, i)) = SubSeq(q, i, Len(q))
<1> DEFINE n == Len(q)
           D == DOMAIN mem \cup {NULL}
           F(f) == [m \in D |-> IF m = NULL THEN <<>> ELSE <<m>> \o f[mem[m].prox]]
           g == CHOOSE f : f = F(f)
           place(m) == CHOOSE j \in 1..n : q[j] = m
           h == [m \in D |-> IF m = NULL THEN <<>> ELSE SubSeq(q, place(m), n)]
<1>1. /\ n \in Nat /\ D = Drawn(q) \cup {NULL}
      /\ \A j \in 1..n : q[j] # NULL /\ q[j] \in D
  BY Shape
<1>2. q \in Seq(Entries) /\ \A j \in 1..n : mem[q[j]].prox = Nth(q, j + 1)
  <2>1. q \in Seq(Entries)
    BY DEF ListOf
  <2> QED BY <2>1, Shape
<1>3. \A j \in 1..n : place(q[j]) = j
  <2>1. \A j, k \in 1..n : q[j] = q[k] => j = k
    BY DEF ListOf
  <2> HIDE DEF n
  <2> QED BY <2>1
<1>4. \A m \in D : m # NULL => \E j \in 1..n : m = q[j]
  BY <1>1 DEF Drawn
<1>5. \A j \in 1..n + 1 : Nth(q, j) \in D
  BY <1>1 DEF Nth
<1>6. \A j \in 1..n + 1 : h[Nth(q, j)] = SubSeq(q, j, n)
  <2>1. ASSUME NEW j \in 1..n PROVE h[Nth(q, j)] = SubSeq(q, j, n)
    <3>1. Nth(q, j) = q[j]
      BY DEF Nth
    <3>2. h[q[j]] = SubSeq(q, place(q[j]), n)
      <4> HIDE DEF place
      <4> QED BY <1>1
    <3> HIDE DEF h, place
    <3> QED BY <1>3, <3>1, <3>2
  <2>2. h[Nth(q, n + 1)] = SubSeq(q, n + 1, n)
    <3>1. Nth(q, n + 1) = NULL
      BY <1>1 DEF Nth
    <3>2. SubSeq(q, n + 1, n) = <<>>
      BY <1>2, Rest
    <3> QED BY <3>1, <3>2
  <2>3. \A j \in 1..n + 1 : j \in 1..n \/ j = n + 1
    BY <1>1
  <2> HIDE DEF h, n
  <2> QED BY <2>1, <2>2, <2>3
<1>7. h = F(h)
  <2>1. ASSUME NEW m \in D, m # NULL PROVE h[m] = <<m>> \o h[mem[m].prox]
    <3>1. PICK j \in 1..n : m = q[j]
      BY <1>4, <2>1
    <3>2. Nth(q, j) = m /\ j \in 1..n + 1 /\ j + 1 \in 1..n + 1
      BY <1>1, <3>1 DEF Nth
    <3>3. h[m] = SubSeq(q, j, n) /\ h[mem[m].prox] = SubSeq(q, j + 1, n)
      <4> HIDE DEF h
      <4> QED BY <1>2, <1>6, <3>1, <3>2
    <3>4. SubSeq(q, j, n) = <<q[j]>> \o SubSeq(q, j + 1, n)
      BY <1>2, Rest
    <3> QED BY <3>1, <3>3, <3>4
  <2>2. h[NULL] = <<>>
    OBVIOUS
  <2>3. h = [m \in D |-> h[m]]
    OBVIOUS
  <2>4. \A m \in D : h[m] = IF m = NULL THEN <<>> ELSE <<m>> \o h[mem[m].prox]
    <3> HIDE DEF h, D
    <3> QED BY <2>1, <2>2
  <2> HIDE DEF h, D
  <2> QED BY <2>3, <2>4, Zenon
<1>8. g = F(g)
  BY <1>7, Zenon
<1>9. From(mem, Nth(q, i)) = g[Nth(q, i)]
  BY Zenon DEF From
<1> HIDE DEF g
<1>10. g[NULL] = <<>> /\ \A j \in 1..n : g[q[j]] = <<q[j]>> \o g[Nth(q, j + 1)]
  BY <1>1, <1>2, <1>8
<1> DEFINE T == {j \in 0..n : g[Nth(q, n + 1 - j)] = SubSeq(q, n + 1 - j, n)}
<1> HIDE DEF h
<1>11. 0 \in T
  <2>1. Nth(q, n + 1) = NULL /\ SubSeq(q, n + 1, n) = <<>> /\ n + 1 - 0 = n + 1
    BY <1>1, <1>2, Rest DEF Nth
  <2>2. 0 \in 0..n
    BY <1>1
  <2> HIDE DEF n
  <2> QED BY <1>10, <2>1, <2>2
<1>12. ASSUME NEW j \in 1..n, j - 1 \in T PROVE j \in T
  <2> DEFINE k == n + 1 - j
  <2>1. k \in 1..n /\ n + 1 - (j - 1) = k + 1 /\ j \in 0..n
    BY <1>1
  <2>2. g[Nth(q, k + 1)] = SubSeq(q, k + 1, n)
    BY <1>12, <2>1
  <2>3. Nth(q, k) = q[k] /\ SubSeq(q, k, n) = <<q[k]>> \o SubSeq(q, k + 1, n)
    BY <1>2, <2>1, Rest DEF Nth
  <2>4. g[q[k]] = <<q[k]>> \o g[Nth(q, k + 1)]
    BY <1>10, <2>1
  <2> QED BY <2>1, <2>2, <2>3, <2>4
<1>13. \A j \in 0..n : j \in T
  <2> HIDE DEF T, n
  <2> QED BY <1>1, <1>11, <1>12, Induction
<1>14. n + 1 - i \in 0..n /\ n + 1 - (n + 1 - i) = i
  BY <1>1
<1>15. g[Nth(q, i)] = SubSeq(q, i, n)
  <2>1. n + 1 - i \in T
    BY <1>13, <1>14
  <2> QED BY <1>14, <2>1
<1> QED BY <1>9, <1>15

\* RewindHistory walks to its start.
LEMMA RewindNth ==
  ASSUME MaxTrail \in Nat, NEW mem, NEW q, NEW w, ListOf(mem, q, w), NEW i \in 0..Len(q),
         i = 0 => Len(q) = 0
  PROVE  RewindHistory(mem, Nth(q, i)) = Nth(q, 1)
<1> DEFINE n == Len(q)
           D == DOMAIN mem \cup {NULL}
           F(f) == [m \in D |-> IF Prec(mem, m) = NULL THEN m ELSE f[mem[m].prec]]
           g == CHOOSE f : f = F(f)
           h == [m \in D |-> IF m = NULL THEN NULL ELSE q[1]]
<1>1. /\ n \in Nat /\ D = Drawn(q) \cup {NULL}
      /\ \A j \in 1..n : q[j] # NULL /\ q[j] \in D
  BY Shape
<1>2. \A j \in 1..n : mem[q[j]].prec = Nth(q, j - 1)
  BY Shape
<1>3. \A m \in D : m # NULL => \E j \in 1..n : m = q[j]
  BY <1>1 DEF Drawn
<1>4. \A j \in 2..n : Nth(q, j - 1) = q[j - 1] /\ j - 1 \in 1..n
  BY <1>1 DEF Nth
<1>5. Nth(q, 0) = NULL
  BY <1>1 DEF Nth
<1>6. Prec(mem, NULL) = NULL /\ \A j \in 1..n : Prec(mem, q[j]) = Nth(q, j - 1)
  BY <1>1, <1>2 DEF Prec
<1>7. h = F(h)
  <2>1. ASSUME NEW m \in D
        PROVE  h[m] = IF Prec(mem, m) = NULL THEN m ELSE h[mem[m].prec]
    <3>1. CASE m = NULL
      BY <1>6, <3>1
    <3>2. CASE m # NULL
      <4>1. PICK j \in 1..n : m = q[j]
        BY <1>3, <3>2
      <4>2. h[m] = q[1]
        BY <3>2
      <4>3. CASE j = 1
        <5>1. j - 1 = 0
          BY <4>3
        <5>2. Prec(mem, m) = NULL
          BY <1>5, <1>6, <4>1, <5>1
        <5> HIDE DEF h
        <5> QED BY <4>1, <4>2, <4>3, <5>2
      <4>4. CASE j # 1
        <5>1. j \in 2..n
          BY <1>1, <4>4
        <5>2. Prec(mem, m) = q[j - 1] /\ mem[m].prec = q[j - 1] /\ q[j - 1] # NULL /\ q[j - 1] \in D
          BY <1>1, <1>2, <1>4, <1>6, <4>1, <5>1
        <5>3. h[q[j - 1]] = q[1]
          BY <5>2
        <5> HIDE DEF h, D
        <5> QED BY <4>2, <5>2, <5>3
      <4> QED BY <4>3, <4>4
    <3> QED BY <3>1, <3>2
  <2>2. h = [m \in D |-> h[m]]
    OBVIOUS
  <2> HIDE DEF h, D
  <2> QED BY <2>1, <2>2, Zenon
<1>8. g = F(g)
  BY <1>7, Zenon
<1>9. RewindHistory(mem, Nth(q, i)) = g[Nth(q, i)]
  BY Zenon DEF RewindHistory
<1> HIDE DEF g
<1>10. g[NULL] = NULL
  BY <1>6, <1>8
<1>11. ASSUME NEW j \in 1..n PROVE g[q[j]] = IF j = 1 THEN q[1] ELSE g[q[j - 1]]
  <2>1. g[q[j]] = IF Prec(mem, q[j]) = NULL THEN q[j] ELSE g[mem[q[j]].prec]
    BY <1>1, <1>8
  <2>2. CASE j = 1
    <3>1. j - 1 = 0
      BY <2>2
    <3>2. Prec(mem, q[j]) = NULL
      BY <1>5, <1>6, <3>1
    <3> QED BY <2>1, <2>2, <3>2
  <2>3. CASE j # 1
    <3>1. j \in 2..n
      BY <1>1, <2>3
    <3>2. Prec(mem, q[j]) = q[j - 1] /\ mem[q[j]].prec = q[j - 1] /\ q[j - 1] # NULL
      BY <1>1, <1>2, <1>4, <1>6, <3>1
    <3> QED BY <2>1, <2>3, <3>2
  <2> QED BY <2>2, <2>3
<1> HIDE DEF h
<1>12. CASE n = 0
  <2>1. Nth(q, i) = NULL /\ Nth(q, 1) = NULL
    BY <1>1, <1>12 DEF Nth
  <2> QED BY <1>9, <1>10, <2>1
<1>13. CASE n # 0
  <2> DEFINE T == {j \in 0..n : j = 0 \/ g[q[j]] = q[1]}
  <2>1. 0 \in T
    BY <1>1
  <2>2. ASSUME NEW j \in 1..n, j - 1 \in T PROVE j \in T
    <3>1. g[q[j]] = IF j = 1 THEN q[1] ELSE g[q[j - 1]]
      BY <1>11
    <3>2. j # 1 => g[q[j - 1]] = q[1]
      <4> SUFFICES ASSUME j # 1 PROVE g[q[j - 1]] = q[1]
        OBVIOUS
      <4>1. j - 1 # 0
        OBVIOUS
      <4> QED BY <2>2, <4>1
    <3>3. j \in 0..n
      BY <1>1
    <3> QED BY <3>1, <3>2, <3>3
  <2>3. \A j \in 0..n : j \in T
    <3> HIDE DEF T, n
    <3> QED BY <1>1, <2>1, <2>2, Induction
  <2>4. i \in 1..n /\ Nth(q, i) = q[i] /\ Nth(q, 1) = q[1]
    BY <1>1, <1>13 DEF Nth
  <2>5. i \in T
    BY <2>3
  <2>6. g[q[i]] = q[1]
    BY <2>4, <2>5
  <2> QED BY <1>9, <2>4, <2>6
<1> QED BY <1>12, <1>13

\* What the operations take from a list: all of it, its addresses, and what
\* is ahead of the place.
LEMMA Walks ==
  ASSUME MaxTrail \in Nat, NEW l, NEW q, NEW w, NEW k, IsAt(l, q, w, k)
  PROVE  /\ From(l.mem, RewindHistory(l.mem, l.here)) = q
         /\ Addresses(l.mem, l.here) = w
         /\ From(l.mem, Prox(l.mem, l.here)) = SubSeq(q, k + 1, Len(q))
<1>1. /\ ListOf(l.mem, q, w) /\ k \in 0..Len(q) /\ (k = 0 => Len(q) = 0) /\ l.here = Nth(q, k)
      /\ q \in Seq(Entries) /\ w \in Seq(Kept)
  BY DEF IsAt, ListOf
<1>2. /\ Len(q) \in Nat /\ DOMAIN q = 1..Len(q) /\ DOMAIN w = 1..Len(q)
      /\ \A i \in 1..Len(q) : q[i] # NULL /\ l.mem[q[i]].url = w[i] /\ l.mem[q[i]].prox = Nth(q, i + 1)
  BY <1>1, Shape
<1>3. From(l.mem, RewindHistory(l.mem, l.here)) = q
  <2>1. RewindHistory(l.mem, l.here) = Nth(q, 1)
    BY <1>1, RewindNth
  <2>2. From(l.mem, Nth(q, 1)) = SubSeq(q, 1, Len(q))
    <3>1. 1 \in 1..Len(q) + 1
      BY <1>2
    <3> QED BY <1>1, <3>1, FromNth
  <2>3. SubSeq(q, 1, Len(q)) = q
    BY <1>1, SubSeqFull
  <2> QED BY <2>1, <2>2, <2>3
<1>4. Addresses(l.mem, l.here) = w
  <2>1. Addresses(l.mem, l.here) = [i \in DOMAIN q |-> l.mem[q[i]].url]
    BY <1>3, Zenon DEF Addresses
  <2>2. w = [i \in DOMAIN q |-> w[i]]
    BY <1>1, <1>2, LenProperties
  <2> QED BY <1>2, <2>1, <2>2
<1>5. From(l.mem, Prox(l.mem, l.here)) = SubSeq(q, k + 1, Len(q))
  <2>1. Prox(l.mem, l.here) = Nth(q, k + 1)
    <3>1. CASE k = 0
      <4>1. l.here = NULL /\ Nth(q, k + 1) = NULL
        BY <1>1, <1>2, <3>1 DEF Nth
      <4> QED BY <4>1 DEF Prox
    <3>2. CASE k # 0
      <4>1. k \in 1..Len(q) /\ l.here = q[k]
        BY <1>1, <1>2, <3>2 DEF Nth
      <4> QED BY <1>2, <4>1 DEF Prox
    <3> QED BY <3>1, <3>2
  <2>2. k + 1 \in 1..Len(q) + 1
    BY <1>1, <1>2
  <2>3. From(l.mem, Nth(q, k + 1)) = SubSeq(q, k + 1, Len(q))
    BY <1>1, <2>2, FromNth
  <2> QED BY <2>1, <2>3
<1> QED BY <1>3, <1>4, <1>5

-----------------------------------------------------------------------------
(* A visit.                                                                *)

LEMMA Prefix ==
  ASSUME NEW S, NEW q \in Seq(S), NEW k \in 0..Len(q), NEW e \in S
  PROVE  LET r == Append(SubSeq(q, 1, k), e)
         IN  /\ r \in Seq(S) /\ Len(r) = k + 1 /\ r[k + 1] = e
             /\ \A i \in 1..k : r[i] = q[i]
<1> DEFINE p == SubSeq(q, 1, k)
<1>1. Len(q) \in Nat /\ \A i \in 1..Len(q) : q[i] \in S
  BY LenProperties, ElementOfSeq
<1>2. p \in Seq(S) /\ Len(p) = k /\ \A i \in 1..k : p[i] = q[i]
  <2>1. \A i \in 1..k : q[i] \in S
    BY <1>1
  <2>2. /\ p \in Seq(S) /\ Len(p) = IF 1 <= k THEN k - 1 + 1 ELSE 0
        /\ \A i \in 1..k - 1 + 1 : p[i] = q[1 + i - 1]
    BY <1>1, <2>1, SubSeqProperties
  <2> QED BY <1>1, <2>2
<1> HIDE DEF p
<1>3. LET r == Append(p, e)
      IN  /\ r \in Seq(S) /\ Len(r) = k + 1 /\ r[k + 1] = e
          /\ \A i \in 1..k : r[i] = q[i]
  BY <1>2, AppendProperties
<1> QED BY <1>3 DEF p

LEMMA Suffix ==
  ASSUME NEW S, NEW q \in Seq(S), NEW s \in 0..Len(q)
  PROVE  LET r == SubSeq(q, s + 1, Len(q))
         IN  /\ r \in Seq(S) /\ Len(r) = Len(q) - s
             /\ \A i \in 1..Len(q) - s : r[i] = q[s + i]
<1> DEFINE r == SubSeq(q, s + 1, Len(q))
<1>1. Len(q) \in Nat /\ \A i \in 1..Len(q) : q[i] \in S
  BY LenProperties, ElementOfSeq
<1>2. \A i \in s + 1..Len(q) : q[i] \in S
  BY <1>1
<1>3. /\ r \in Seq(S) /\ Len(r) = IF s + 1 <= Len(q) THEN Len(q) - (s + 1) + 1 ELSE 0
      /\ \A i \in 1..Len(q) - (s + 1) + 1 : r[i] = q[s + 1 + i - 1]
  BY <1>1, <1>2, SubSeqProperties
<1>4. Len(r) = Len(q) - s /\ \A i \in 1..Len(q) - s : r[i] = q[s + i]
  <2> HIDE DEF r
  <2> QED BY <1>1, <1>3
<1> QED BY <1>3, <1>4

\* There is an entry to be had: InsUrl gets one more than are kept.
LEMMA Punt ==
  ASSUME MaxTrail \in Nat, NEW mem, NEW q, NEW w, ListOf(mem, q, w), Len(q) <= MaxTrail
  PROVE  Min(Entries \ DOMAIN mem) \in Entries \ DOMAIN mem
<1>1. Len(q) \in Nat /\ DOMAIN mem = Drawn(q)
  BY Shape
<1>2. Entries \ DOMAIN mem # {}
  <2> SUFFICES ASSUME \A n \in Entries : n \in Drawn(q) PROVE FALSE
    BY <1>1
  <2> DEFINE f == [n \in Entries |-> CHOOSE i \in 1..Len(q) : q[i] = n]
  <2>1. \A n \in Entries : f[n] \in 1..Len(q) /\ q[f[n]] = n
    BY DEF Drawn
  <2>2. f \in [Entries -> 1..Len(q)]
    BY <2>1
  <2>3. IsFiniteSet(Entries) /\ Cardinality(Entries) = MaxTrail + 1
    <3>1. MaxTrail + 1 \in Int /\ ~(1 > MaxTrail + 1) /\ MaxTrail + 1 - 1 + 1 = MaxTrail + 1
      OBVIOUS
    <3> QED BY <3>1, FS_Interval DEF Entries
  <2>4. IsFiniteSet(1..Len(q)) /\ Cardinality(1..Len(q)) = Len(q)
    <3>1. Len(q) \in Int /\ (IF 1 > Len(q) THEN 0 ELSE Len(q) - 1 + 1) = Len(q)
      BY <1>1
    <3> QED BY <3>1, FS_Interval
  <2>5. Cardinality(1..Len(q)) < Cardinality(Entries)
    BY <1>1, <2>3, <2>4
  <2> HIDE DEF f
  <2>6. PICK x \in Entries, y \in Entries : x # y /\ f[x] = f[y]
    BY <2>2, <2>3, <2>4, <2>5, FS_PigeonHole
  <2> QED BY <2>1, <2>6
<1>3. Entries \ DOMAIN mem \in SUBSET Nat
  BY DEF Entries
<1> DEFINE T == Entries \ DOMAIN mem
<1>4. PICK x \in T : \A y \in T : x <= y
  <2> HIDE DEF T
  <2>1. T # {} /\ T \in SUBSET Nat
    BY <1>2, <1>3 DEF T
  <2> QED BY <2>1, Smallest
<1>5. Min(T) \in T
  <2> HIDE DEF T
  <2> QED BY <1>4 DEF Min
<1> QED BY <1>5

\* The first s entries of a list alone, and the others alone.
FrontOf(cut, mem, q, s) ==
  DOMAIN cut = {q[i] : i \in 1..s} /\ \A i \in 1..s : cut[q[i]] = mem[q[i]]
BackOf(kept, mem, q, s) ==
  /\ DOMAIN kept = {q[i] : i \in s + 1..Len(q)} /\ kept = [n \in DOMAIN kept |-> kept[n]]
  /\ \A i \in s + 1..Len(q) : kept[q[i]] = mem[q[i]]

LEMMA Deleted ==
  ASSUME MaxTrail \in Nat, NEW mem, NEW q, NEW w, ListOf(mem, q, w), NEW s \in 0..Len(q)
  PROVE  /\ FrontOf(Delete(mem, ToSet(SubSeq(q, s + 1, Len(q)))), mem, q, s)
         /\ BackOf(Delete(mem, {q[i] : i \in 1..s}), mem, q, s)
<1> DEFINE n == Len(q)
           r == SubSeq(q, s + 1, n)
           Early == {q[i] : i \in 1..s}
           Late == {q[i] : i \in s + 1..n}
<1>1. /\ n \in Nat /\ DOMAIN mem = Drawn(q) /\ q \in Seq(Entries)
      /\ \A i, j \in 1..n : q[i] = q[j] => i = j
  <2>1. q \in Seq(Entries) /\ \A i, j \in 1..n : q[i] = q[j] => i = j
    BY DEF ListOf
  <2> QED BY <2>1, Shape
<1>2. ToSet(r) = Late
  <2>1. r \in Seq(Entries) /\ Len(r) = n - s /\ \A i \in 1..n - s : r[i] = q[s + i]
    BY <1>1, Suffix
  <2>2. DOMAIN r = 1..n - s
    BY <2>1, LenProperties
  <2>3. ASSUME NEW i \in s + 1..n PROVE q[i] \in ToSet(r)
    <3>1. i - s \in 1..n - s /\ s + (i - s) = i
      BY <1>1
    <3>2. r[i - s] = q[i]
      BY <2>1, <3>1
    <3> HIDE DEF r
    <3> QED BY <2>2, <3>1, <3>2 DEF ToSet
  <2>4. ASSUME NEW i \in 1..n - s PROVE r[i] \in Late
    <3>1. s + i \in s + 1..n /\ r[i] = q[s + i]
      BY <1>1, <2>1
    <3> QED BY <3>1
  <2> HIDE DEF r
  <2> QED BY <2>2, <2>3, <2>4 DEF ToSet
<1>3. Drawn(q) \ Late = Early /\ Drawn(q) \ Early = Late
  <2>1. \A i \in 1..s, j \in s + 1..n : q[i] # q[j]
    BY <1>1
  <2>2. \A i \in 1..n : i \in 1..s \/ i \in s + 1..n
    BY <1>1
  <2>3. \A i \in 1..s : i \in 1..n
    BY <1>1
  <2>4. \A i \in s + 1..n : i \in 1..n
    BY <1>1
  <2>5. ASSUME NEW x PROVE x \in Early <=> x \in Drawn(q) /\ x \notin Late
    <3> HIDE DEF n
    <3> QED BY <2>1, <2>2, <2>3, SMT DEF Drawn, n
  <2>6. ASSUME NEW x PROVE x \in Late <=> x \in Drawn(q) /\ x \notin Early
    <3> HIDE DEF n
    <3> QED BY <2>1, <2>2, <2>4, SMT DEF Drawn, n
  <2> HIDE DEF Early, Late
  <2> QED BY <2>5, <2>6
<1>4. Delete(mem, Late) = [m \in Early |-> mem[m]] /\ Delete(mem, Early) = [m \in Late |-> mem[m]]
  <2> HIDE DEF Early, Late
  <2> QED BY <1>1, <1>3 DEF Delete
<1>5. LET cut == Delete(mem, ToSet(r))
      IN DOMAIN cut = Early /\ \A i \in 1..s : cut[q[i]] = mem[q[i]]
  <2>1. \A i \in 1..s : q[i] \in Early
    OBVIOUS
  <2> HIDE DEF r, Early, Late
  <2> QED BY <1>2, <1>4, <2>1
<1>6. LET kept == Delete(mem, Early)
      IN /\ DOMAIN kept = Late
         /\ kept = [m \in DOMAIN kept |-> kept[m]]
         /\ \A i \in s + 1..n : kept[q[i]] = mem[q[i]]
  <2>1. \A i \in s + 1..n : q[i] \in Late
    OBVIOUS
  <2> HIDE DEF Early, Late
  <2> QED BY <1>4, <2>1
<1> QED BY <1>5, <1>6 DEF FrontOf, BackOf

\* The pages up to the place, and the one that is visited now.
Visited(w, k, u) == Append(SubSeq(w, 1, k), u)

LEMMA Linked ==
  ASSUME MaxTrail \in Nat, NEW l, NEW q, NEW w, NEW k, IsAt(l, q, w, k), Len(q) <= MaxTrail,
         NEW u \in Kept
  PROVE  \E p : IsAt(Link(l, u), p, Visited(w, k, u), k + 1) /\ Len(p) = k + 1
<1> DEFINE n == Len(q)
           punt == Min(Entries \ DOMAIN l.mem)
           p == Append(SubSeq(q, 1, k), punt)
           v == Visited(w, k, u)
           cut == Cut(l)
           new == Link(l, u)
<1>1. /\ l = [mem |-> l.mem, here |-> l.here]
      /\ ListOf(l.mem, q, w) /\ k \in 0..n /\ (k = 0 => n = 0) /\ l.here = Nth(q, k)
      /\ q \in Seq(Entries) /\ w \in Seq(Kept) /\ Len(w) = n
      /\ \A i, j \in 1..n : q[i] = q[j] => i = j
  BY DEF IsAt, ListOf
<1>2. /\ n \in Nat /\ DOMAIN l.mem = Drawn(q)
      /\ \A i \in 1..n : q[i] # NULL
      /\ \A i \in 1..n : l.mem[q[i]] = [url |-> w[i], prec |-> Nth(q, i - 1), prox |-> Nth(q, i + 1)]
  <2>1. \A i \in 1..n : l.mem[q[i]] = [url |-> w[i], prec |-> Nth(q, i - 1), prox |-> Nth(q, i + 1)]
    BY <1>1, Zenon DEF ListOf
  <2> QED BY <1>1, <2>1, Shape
<1>3. punt \in Entries /\ punt \notin Drawn(q) /\ punt # NULL
  <2>1. punt \in Entries \ DOMAIN l.mem
    BY <1>1, Punt
  <2> HIDE DEF punt
  <2> QED BY <1>2, <2>1 DEF Entries, NULL
<1>4. p \in Seq(Entries) /\ Len(p) = k + 1 /\ p[k + 1] = punt /\ \A i \in 1..k : p[i] = q[i]
  <2> HIDE DEF punt
  <2> QED BY <1>1, <1>3, Prefix
<1>5. v \in Seq(Kept) /\ Len(v) = k + 1 /\ v[k + 1] = u /\ \A i \in 1..k : v[i] = w[i]
  BY <1>1, Prefix DEF Visited
<1>6. /\ DOMAIN cut.mem = {q[i] : i \in 1..k}
      /\ \A i \in 1..k : cut.mem[q[i]] = l.mem[q[i]]
  <2>1. From(l.mem, Prox(l.mem, l.here)) = SubSeq(q, k + 1, n)
    BY Walks
  <2>2. cut = [l EXCEPT !.mem = Delete(l.mem, ToSet(SubSeq(q, k + 1, n)))]
    BY <2>1, Zenon DEF Cut
  <2>3. cut.mem = Delete(l.mem, ToSet(SubSeq(q, k + 1, n)))
    <3> DEFINE d == Delete(l.mem, ToSet(SubSeq(q, k + 1, n)))
    <3> HIDE DEF d
    <3>1. cut = [l EXCEPT !.mem = d]
      BY <2>2 DEF d
    <3>2. cut.mem = d
      BY <1>1, <3>1
    <3> QED BY <3>2 DEF d
  <2>4. /\ ListOf(l.mem, q, w) /\ k \in 0..Len(q)
    BY <1>1
  <2>5. FrontOf(cut.mem, l.mem, q, k)
    <3> HIDE DEF cut
    <3> QED BY <2>3, <2>4, Deleted
  <2> HIDE DEF cut
  <2> QED BY <2>5 DEF FrontOf
<1>7. /\ new = [mem |-> new.mem, here |-> new.here] /\ new.here = punt
      /\ new.mem = [m \in DOMAIN cut.mem \cup {punt} |->
                      IF m = punt THEN [url |-> u, prec |-> l.here, prox |-> NULL]
                      ELSE IF m = l.here THEN [cut.mem[m] EXCEPT !.prox = punt]
                      ELSE cut.mem[m]]
  <2> HIDE DEF punt, cut
  <2>1. new = [mem |-> [m \in DOMAIN cut.mem \cup {punt} |->
                          IF m = punt THEN [url |-> u, prec |-> l.here, prox |-> NULL]
                          ELSE IF m = l.here THEN [cut.mem[m] EXCEPT !.prox = punt]
                          ELSE cut.mem[m]],
               here |-> punt]
    BY Zenon DEF Link, punt, cut
  <2> HIDE DEF new
  <2> QED BY <2>1
<1> HIDE DEF punt, p, v, cut, new
<1>8. Drawn(p) = {q[i] : i \in 1..k} \cup {punt}
  <2>1. \A i \in 1..k + 1 : i \in 1..k \/ i = k + 1
    BY <1>1
  <2>2. \A i \in 1..k : i \in 1..k + 1
    BY <1>1
  <2>3. k + 1 \in 1..k + 1
    BY <1>1, <1>2
  <2> QED BY <1>4, <2>1, <2>2, <2>3 DEF Drawn
<1>9. \A i, j \in 1..k + 1 : p[i] = p[j] => i = j
  <2>1. \A i \in 1..k : i \in 1..n /\ p[i] = q[i] /\ q[i] \in Drawn(q)
    BY <1>1, <1>2, <1>4 DEF Drawn
  <2>2. \A i \in 1..k + 1 : i \in 1..k \/ i = k + 1
    BY <1>1
  <2> HIDE DEF n
  <2> QED BY <1>1, <1>3, <1>4, <2>1, <2>2
<1>10. ASSUME NEW i \in 1..k + 1
       PROVE  new.mem[p[i]] = [url |-> v[i], prec |-> Nth(p, i - 1), prox |-> Nth(p, i + 1)]
  <2>1. CASE i = k + 1
    <3>1. new.mem[p[i]] = [url |-> u, prec |-> l.here, prox |-> NULL]
      BY <1>4, <1>7, <2>1
    <3>2. Nth(p, i + 1) = NULL /\ i - 1 = k
      BY <1>1, <1>4, <2>1 DEF Nth
    <3>3. Nth(p, k) = Nth(q, k)
      BY <1>1, <1>2, <1>4 DEF Nth
    <3> QED BY <1>1, <1>5, <2>1, <3>1, <3>2, <3>3
  <2>2. CASE i # k + 1
    <3>1. i \in 1..k /\ i \in 1..n /\ k \in 1..n
      BY <1>1, <1>2, <2>2
    <3>2. p[i] = q[i] /\ v[i] = w[i] /\ q[i] # punt /\ q[i] \in DOMAIN cut.mem
      BY <1>3, <1>4, <1>5, <1>6, <3>1 DEF Drawn
    <3>3. Nth(p, i - 1) = Nth(q, i - 1)
      <4>1. i - 1 \in 1..k + 1 <=> i - 1 \in 1..n
        BY <1>1, <1>2, <3>1
      <4>2. i - 1 \in 1..n => i - 1 \in 1..k
        BY <3>1
      <4> QED BY <1>4, <4>1, <4>2 DEF Nth
    <3>4. cut.mem[q[i]] = [url |-> w[i], prec |-> Nth(q, i - 1), prox |-> Nth(q, i + 1)]
      BY <1>2, <1>6, <3>1
    <3>5. new.mem[q[i]] = IF q[i] = l.here THEN [cut.mem[q[i]] EXCEPT !.prox = punt] ELSE cut.mem[q[i]]
      BY <1>7, <3>2
    <3>6. l.here = q[k]
      BY <1>1, <3>1 DEF Nth
    <3>7. CASE i = k
      <4>1. Nth(p, i + 1) = punt
        BY <1>1, <1>4, <3>7 DEF Nth
      <4> QED BY <3>2, <3>3, <3>4, <3>5, <3>6, <3>7, <4>1
    <3>8. CASE i # k
      <4>1. q[i] # l.here
        <5> HIDE DEF n
        <5> QED BY <1>1, <3>1, <3>6, <3>8
      <4>2. i + 1 \in 1..k /\ i + 1 \in 1..n /\ i + 1 \in 1..k + 1
        BY <1>1, <1>2, <3>1, <3>8
      <4>3. Nth(p, i + 1) = Nth(q, i + 1)
        BY <1>4, <4>2 DEF Nth
      <4> QED BY <3>2, <3>3, <3>4, <3>5, <4>1, <4>3
    <3> QED BY <3>7, <3>8
  <2> QED BY <2>1, <2>2
<1>11. ListOf(new.mem, p, v)
  <2>1. DOMAIN new.mem = Drawn(p) /\ new.mem = [m \in DOMAIN new.mem |-> new.mem[m]]
    <3>1. DOMAIN new.mem = DOMAIN cut.mem \cup {punt} /\ new.mem = [m \in DOMAIN new.mem |-> new.mem[m]]
      BY <1>7
    <3> QED BY <1>6, <1>8, <3>1
  <2>2. new.mem = [m \in Drawn(p) |-> new.mem[m]]
    BY <2>1
  <2> QED BY <1>4, <1>5, <1>9, <1>10, <2>2 DEF ListOf
<1>12. new.here = Nth(p, k + 1) /\ k + 1 \in 0..Len(p) /\ k + 1 # 0
  BY <1>1, <1>2, <1>4, <1>7 DEF Nth
<1>13. IsAt(new, p, v, k + 1)
  BY <1>7, <1>11, <1>12 DEF IsAt
<1> QED BY <1>4, <1>13 DEF new, v

\* As many as are kept, the newest.
Over(w) == IF Len(w) > MaxTrail THEN Len(w) - MaxTrail ELSE 0
Recent(w) == SubSeq(w, Over(w) + 1, Len(w))

LEMMA Trimmed ==
  ASSUME HistoryAssumption, NEW l, NEW q, NEW w, IsAt(l, q, w, Len(q)), Len(q) # 0
  PROVE  /\ IsAt(Trim(l), Recent(q), Recent(w), Len(q) - Over(q))
         /\ Len(Recent(q)) = Len(q) - Over(q) /\ Len(q) - Over(q) <= MaxTrail
<1> DEFINE n == Len(q)
           s == Over(q)
           r == Recent(q)
           v == Recent(w)
           kept == Delete(l.mem, {q[i] : i \in 1..s})
           fixed == IF s = 0 THEN kept ELSE [kept EXCEPT ![q[s + 1]].prec = NULL]
           new == Trim(l)
<1>1. /\ l = [mem |-> l.mem, here |-> l.here]
      /\ ListOf(l.mem, q, w) /\ l.here = Nth(q, n)
      /\ q \in Seq(Entries) /\ w \in Seq(Kept) /\ Len(w) = n
      /\ \A i, j \in 1..n : q[i] = q[j] => i = j
  BY DEF IsAt, ListOf
<1>2. MaxTrail \in Nat /\ MaxTrail > 0
  BY DEF HistoryAssumption
<1>3. /\ n \in Nat /\ n # 0
      /\ \A i \in 1..n : l.mem[q[i]] = [url |-> w[i], prec |-> Nth(q, i - 1), prox |-> Nth(q, i + 1)]
  <2>1. \A i \in 1..n : l.mem[q[i]] = [url |-> w[i], prec |-> Nth(q, i - 1), prox |-> Nth(q, i + 1)]
    BY <1>1, Zenon DEF ListOf
  <2> QED BY <1>1, <1>2, <2>1, LenProperties
<1>4. s \in 0..n - 1 /\ s \in 0..n /\ n - s \in 1..n /\ n - s <= MaxTrail /\ Over(w) = s
  BY <1>1, <1>2, <1>3 DEF Over
<1>5. /\ r \in Seq(Entries) /\ Len(r) = n - s /\ \A i \in 1..n - s : r[i] = q[s + i]
      /\ v \in Seq(Kept) /\ Len(v) = n - s /\ \A i \in 1..n - s : v[i] = w[s + i]
  <2>1. r = SubSeq(q, s + 1, Len(q)) /\ v = SubSeq(w, s + 1, Len(w)) /\ s \in 0..Len(q) /\ s \in 0..Len(w)
    BY <1>1, <1>4 DEF Recent
  <2>2. r \in Seq(Entries) /\ Len(r) = Len(q) - s /\ \A i \in 1..Len(q) - s : r[i] = q[s + i]
    <3> HIDE DEF s, r
    <3> QED BY <1>1, <2>1, Suffix
  <2>3. v \in Seq(Kept) /\ Len(v) = Len(w) - s /\ \A i \in 1..Len(w) - s : v[i] = w[s + i]
    <3> HIDE DEF s, v
    <3> QED BY <1>1, <2>1, Suffix
  <2> QED BY <1>1, <2>2, <2>3
<1>6. new.here = l.here /\ new = [mem |-> new.mem, here |-> new.here] /\ new.mem = fixed
  <2>1. From(l.mem, RewindHistory(l.mem, l.here)) = q
    BY <1>2, Walks
  <2>2. new = [l EXCEPT !.mem = fixed]
    BY <2>1, Zenon DEF Trim, Over
  <2> HIDE DEF fixed, new
  <2> QED BY <1>1, <2>2
<1>7. /\ DOMAIN kept = {q[i] : i \in s + 1..n} /\ kept = [m \in DOMAIN kept |-> kept[m]]
      /\ \A i \in s + 1..n : kept[q[i]] = l.mem[q[i]]
  <2>1. BackOf(kept, l.mem, q, s)
    <3> HIDE DEF s
    <3> QED BY <1>1, <1>2, <1>4, Deleted
  <2> HIDE DEF kept, s
  <2> QED BY <2>1 DEF BackOf
<1> HIDE DEF s, r, v, kept, new
<1>8. Drawn(r) = {q[i] : i \in s + 1..n}
  <2>1. ASSUME NEW i \in 1..n - s PROVE s + i \in s + 1..n
    BY <1>3, <1>4
  <2>2. ASSUME NEW i \in s + 1..n PROVE i - s \in 1..n - s /\ s + (i - s) = i
    BY <1>3, <1>4
  <2>3. ASSUME NEW i \in s + 1..n PROVE q[i] \in Drawn(r)
    <3>1. r[i - s] = q[i]
      BY <1>5, <2>2
    <3>2. i - s \in 1..Len(r)
      BY <1>5, <2>2
    <3> QED BY <3>1, <3>2 DEF Drawn
  <2>4. ASSUME NEW i \in 1..Len(r) PROVE r[i] \in {q[j] : j \in s + 1..n}
    BY <1>5, <2>1
  <2> HIDE DEF n
  <2> QED BY <2>3, <2>4 DEF Drawn
<1>9. \A i, j \in 1..Len(r) : r[i] = r[j] => i = j
  <2> SUFFICES ASSUME NEW i \in 1..n - s, NEW j \in 1..n - s, r[i] = r[j] PROVE i = j
    BY <1>5
  <2>1. s + i \in 1..n /\ s + j \in 1..n /\ q[s + i] = q[s + j]
    BY <1>3, <1>4, <1>5
  <2>2. s + i = s + j
    <3> HIDE DEF n
    <3> QED BY <1>1, <2>1
  <2> QED BY <1>4, <2>2
<1>10. /\ fixed = [m \in Drawn(r) |-> fixed[m]]
       /\ fixed[q[s + 1]] = [l.mem[q[s + 1]] EXCEPT !.prec = IF s = 0 THEN @ ELSE NULL]
       /\ \A i \in s + 2..n : fixed[q[i]] = l.mem[q[i]]
  <2>1. s + 1 \in s + 1..n /\ \A i \in s + 2..n : i \in s + 1..n /\ i # s + 1 /\ i \in 1..n /\ s + 1 \in 1..n
    BY <1>3, <1>4
  <2>2. \A i \in s + 2..n : q[i] # q[s + 1]
    <3> HIDE DEF n
    <3> QED BY <1>1, <2>1
  <2>3. kept[q[s + 1]] = l.mem[q[s + 1]] /\ q[s + 1] \in DOMAIN kept
    BY <1>7, <2>1
  <2>4. \A i \in s + 2..n : kept[q[i]] = l.mem[q[i]] /\ q[i] \in DOMAIN kept
    BY <1>7, <2>1
  <2>5. PICK back, ahead : l.mem[q[s + 1]] = [url |-> w[s + 1], prec |-> back, prox |-> ahead]
    <3>1. PICK j \in 1..n : j = s + 1
      BY <1>3, <1>4
    <3>2. l.mem[q[j]] = [url |-> w[j], prec |-> Nth(q, j - 1), prox |-> Nth(q, j + 1)]
      BY <1>3
    <3> QED BY <3>1, <3>2
  <2>6. CASE s = 0
    <3>1. fixed = kept
      BY <2>6
    <3>2. [l.mem[q[s + 1]] EXCEPT !.prec = IF s = 0 THEN @ ELSE NULL] = l.mem[q[s + 1]]
      BY <2>5, <2>6
    <3> HIDE DEF fixed
    <3> QED BY <1>7, <1>8, <2>3, <2>4, <3>1, <3>2
  <2>7. CASE s # 0
    <3>1. fixed = [kept EXCEPT ![q[s + 1]].prec = NULL]
      BY <2>7
    <3> HIDE DEF fixed
    <3>2. DOMAIN fixed = DOMAIN kept /\ fixed = [m \in DOMAIN fixed |-> fixed[m]]
      BY <1>7, <3>1
    <3>3. fixed[q[s + 1]] = [l.mem[q[s + 1]] EXCEPT !.prec = IF s = 0 THEN @ ELSE NULL]
      BY <2>3, <2>5, <2>7, <3>1
    <3>4. \A i \in s + 2..n : fixed[q[i]] = l.mem[q[i]]
      BY <2>2, <2>4, <3>1
    <3> QED BY <1>7, <1>8, <3>2, <3>3, <3>4
  <2> QED BY <2>6, <2>7
<1> HIDE DEF fixed
<1>11. ASSUME NEW i \in 1..n - s
       PROVE  fixed[r[i]] = [url |-> v[i], prec |-> Nth(r, i - 1), prox |-> Nth(r, i + 1)]
  <2> DEFINE j == s + i
  <2>1. j \in 1..n /\ r[i] = q[j] /\ v[i] = w[j]
    BY <1>3, <1>4, <1>5
  <2>2. Nth(r, i + 1) = Nth(q, j + 1)
    <3>1. CASE i = n - s
      <4>1. j + 1 \notin 1..n /\ i + 1 \notin 1..Len(r)
        BY <1>3, <1>4, <1>5, <3>1
      <4> QED BY <4>1 DEF Nth
    <3>2. CASE i # n - s
      <4>1. j + 1 \in 1..n /\ i + 1 \in 1..n - s /\ s + (i + 1) = j + 1
        BY <1>3, <1>4, <3>2
      <4> QED BY <1>5, <4>1 DEF Nth
    <3> QED BY <3>1, <3>2
  <2>3. l.mem[q[j]] = [url |-> w[j], prec |-> Nth(q, j - 1), prox |-> Nth(q, j + 1)]
    BY <1>3, <2>1
  <2>4. CASE i = 1
    <3>1. Nth(r, i - 1) = NULL /\ j = s + 1 /\ (s = 0 => Nth(q, j - 1) = NULL)
      BY <1>3, <1>4, <1>5, <2>4 DEF Nth
    <3>2. fixed[q[j]] = [l.mem[q[j]] EXCEPT !.prec = IF s = 0 THEN @ ELSE NULL]
      BY <1>10, <3>1
    <3> DEFINE back == Nth(q, j - 1)
               ahead == Nth(q, j + 1)
    <3>3. l.mem[q[j]] = [url |-> w[j], prec |-> back, prox |-> ahead] /\ (s = 0 => back = NULL)
      BY <2>3, <3>1
    <3>4. Nth(r, i + 1) = ahead
      BY <2>2
    <3> HIDE DEF j, back, ahead
    <3>5. fixed[q[j]] = [url |-> w[j], prec |-> NULL, prox |-> ahead]
      BY <3>2, <3>3
    <3> QED BY <2>1, <3>1, <3>4, <3>5
  <2>5. CASE i # 1
    <3>1. j \in s + 2..n
      BY <1>3, <1>4, <2>1, <2>5
    <3>2. Nth(r, i - 1) = Nth(q, j - 1)
      <4>1. j - 1 \in 1..n /\ i - 1 \in 1..n - s /\ s + (i - 1) = j - 1
        BY <1>3, <1>4, <2>5
      <4> QED BY <1>5, <4>1 DEF Nth
    <3> QED BY <1>10, <2>1, <2>2, <2>3, <3>1, <3>2
  <2> QED BY <2>4, <2>5
<1>12. ListOf(new.mem, r, v)
  <2> HIDE DEF n
  <2> QED BY <1>5, <1>6, <1>9, <1>10, <1>11 DEF ListOf
<1>13. new.here = Nth(r, n - s) /\ n - s \in 0..Len(r) /\ n - s # 0
  <2>1. Nth(r, n - s) = r[n - s] /\ r[n - s] = q[s + (n - s)]
    BY <1>4, <1>5 DEF Nth
  <2>2. s + (n - s) = n /\ Nth(q, n) = q[n]
    BY <1>3, <1>4 DEF Nth
  <2>3. n - s \in 0..Len(r) /\ n - s # 0
    BY <1>3, <1>4, <1>5
  <2> QED BY <1>1, <1>6, <2>1, <2>2, <2>3
<1>14. IsAt(new, r, v, n - s)
  BY <1>6, <1>12, <1>13 DEF IsAt
<1> QED BY <1>4, <1>5, <1>14 DEF new, r, v, s

LEMMA Inserts ==
  ASSUME HistoryAssumption, NEW l, NEW q, NEW w, NEW k, IsAt(l, q, w, k), Len(q) <= MaxTrail,
         NEW u \in Kept
  PROVE  \E p : IsAt(InsUrl(l, u), p, Recent(Visited(w, k, u)), Len(p)) /\ Len(p) <= MaxTrail
<1>1. MaxTrail \in Nat
  BY DEF HistoryAssumption
<1> DEFINE v == Visited(w, k, u)
           new == Link(l, u)
<1>2. PICK p : IsAt(new, p, v, k + 1) /\ Len(p) = k + 1
  BY <1>1, Linked
<1>3. k + 1 # 0 /\ Len(p) # 0 /\ IsAt(new, p, v, Len(p))
  <2>1. ListOf(l.mem, q, w) /\ k \in 0..Len(q)
    BY DEF IsAt
  <2>2. Len(q) \in Nat
    BY <1>1, <2>1, Shape
  <2> QED BY <1>2, <2>1, <2>2
<1> HIDE DEF v, new
<1>4. /\ IsAt(Trim(new), Recent(p), Recent(v), Len(p) - Over(p))
      /\ Len(Recent(p)) = Len(p) - Over(p) /\ Len(p) - Over(p) <= MaxTrail
  BY <1>3, Trimmed
<1>5. InsUrl(l, u) = Trim(new)
  BY DEF InsUrl, Kept, new
<1>6. IsAt(InsUrl(l, u), Recent(p), Recent(v), Len(Recent(p))) /\ Len(Recent(p)) <= MaxTrail
  BY <1>4, <1>5
<1> QED BY <1>6 DEF v

-----------------------------------------------------------------------------
(* A start.                                                                *)

Pointers == Entries \cup {NULL}
Heaps == UNION {[D -> [url : Kept, prec : Pointers, prox : Pointers]] : D \in SUBSET Entries}
Lists ==
  {l \in [mem : Heaps, here : Pointers] :
     \E q, w, k : IsAt(l, q, w, k) /\ Len(q) <= MaxTrail}

LEMMA InLists ==
  ASSUME MaxTrail \in Nat, NEW l, NEW q, NEW w, NEW k, IsAt(l, q, w, k), Len(q) <= MaxTrail
  PROVE  l \in Lists
<1>1. /\ l = [mem |-> l.mem, here |-> l.here]
      /\ ListOf(l.mem, q, w) /\ l.here = Nth(q, k)
  BY DEF IsAt
<1>2. /\ \A i \in 1..Len(q) : q[i] \in Entries /\ w[i] \in Kept
      /\ \A i \in 1..Len(q) :
           l.mem[q[i]] = [url |-> w[i], prec |-> Nth(q, i - 1), prox |-> Nth(q, i + 1)]
  <2>1. \A i \in 1..Len(q) :
           l.mem[q[i]] = [url |-> w[i], prec |-> Nth(q, i - 1), prox |-> Nth(q, i + 1)]
    BY <1>1, Zenon DEF ListOf
  <2> QED BY <1>1, <2>1, Shape
<1>3. \A i : Nth(q, i) \in Pointers
  BY <1>2 DEF Nth, Pointers
<1>4. \A n \in Drawn(q) : n \in Entries /\ l.mem[n] \in [url : Kept, prec : Pointers, prox : Pointers]
  <2> SUFFICES ASSUME NEW i \in 1..Len(q)
               PROVE  q[i] \in Entries /\ l.mem[q[i]] \in [url : Kept, prec : Pointers, prox : Pointers]
    BY DEF Drawn
  <2> DEFINE back == Nth(q, i - 1)
             ahead == Nth(q, i + 1)
  <2>1. back \in Pointers /\ ahead \in Pointers /\ w[i] \in Kept /\ q[i] \in Entries
    BY <1>2, <1>3
  <2>2. l.mem[q[i]] = [url |-> w[i], prec |-> back, prox |-> ahead]
    BY <1>2
  <2> HIDE DEF back, ahead
  <2> QED BY <2>1, <2>2
<1>5. l.mem = [n \in Drawn(q) |-> l.mem[n]]
  BY <1>1, Zenon DEF ListOf
<1>6. l.mem \in [Drawn(q) -> [url : Kept, prec : Pointers, prox : Pointers]]
  BY <1>4, <1>5
<1>7. l.mem \in Heaps
  BY <1>4, <1>6 DEF Heaps
<1>8. l \in [mem : Heaps, here : Pointers]
  BY <1>1, <1>3, <1>7
<1> QED BY <1>8 DEF Lists

LEMMA EmptyList ==
  ASSUME MaxTrail \in Nat
  PROVE  IsAt(Empty, <<>>, <<>>, 0)
<1>1. <<>> \in Seq(Entries) /\ <<>> \in Seq(Kept) /\ Len(<<>>) = 0
  BY EmptySeq
<1>2. Drawn(<<>>) = {} /\ \A i : Nth(<<>>, i) = NULL
  BY <1>1 DEF Drawn, Nth
<1>3. <<>> = [n \in Drawn(<<>>) |-> <<>>[n]]
  BY <1>2
<1>4. ListOf(<<>>, <<>>, <<>>)
  BY <1>1, <1>3 DEF ListOf
<1>5. Empty.mem = <<>> /\ Empty.here = NULL /\ Empty = [mem |-> Empty.mem, here |-> Empty.here]
  BY DEF Empty
<1> QED BY <1>1, <1>2, <1>4, <1>5 DEF IsAt

\* What is read back is what was written, the last page the current one.
LEMMA Reloaded ==
  ASSUME HistoryAssumption, NEW w \in Seq(Kept), Len(w) <= MaxTrail
  PROVE  \E p : IsAt(Inserted(w), p, w, Len(p))
<1> DEFINE n == Len(w)
           step == [i \in 1..n |-> [l \in Lists |-> InsUrl(l, w[i])]]
           F(f) == [i \in 0..n |-> IF i = 0 THEN Empty ELSE InsUrl(f[i - 1], w[i])]
           g == CHOOSE f : f = F(f)
<1>1. MaxTrail \in Nat /\ n \in Nat /\ \A i \in 1..n : w[i] \in Kept
  BY LenProperties, ElementOfSeq DEF HistoryAssumption
<1>2. \A l \in Lists, u \in Kept : InsUrl(l, u) \in Lists
  <2> SUFFICES ASSUME NEW l \in Lists, NEW u \in Kept PROVE InsUrl(l, u) \in Lists
    OBVIOUS
  <2>1. PICK q, v, k : IsAt(l, q, v, k) /\ Len(q) <= MaxTrail
    BY DEF Lists
  <2>2. PICK p : IsAt(InsUrl(l, u), p, Recent(Visited(v, k, u)), Len(p)) /\ Len(p) <= MaxTrail
    BY <2>1, Inserts
  <2> QED BY <1>1, <2>2, InLists
<1>3. Empty \in Lists
  <2>1. Len(<<>>) = 0 /\ 0 <= MaxTrail
    BY <1>1
  <2>2. IsAt(Empty, <<>>, <<>>, 0) /\ Len(<<>>) <= MaxTrail
    BY <1>1, <2>1, EmptyList
  <2> QED BY <1>1, <2>2, InLists
<1>4. PICK f : Iterates(f, n, Empty, step) /\ \A i \in 0..n : f[i] \in Lists
  <2>1. StepsIn(Lists, n, step)
    <3>1. \A i \in 1..n : [l \in Lists |-> InsUrl(l, w[i])] \in [Lists -> Lists]
      BY <1>1, <1>2
    <3> HIDE DEF n
    <3> QED BY <3>1 DEF StepsIn
  <2> HIDE DEF n, step
  <2> QED BY <1>1, <1>3, <2>1, Iteration
<1>5. f = F(f)
  <2>1. f = [i \in 0..n |-> f[i]] /\ f[0] = Empty /\ \A i \in 1..n : f[i] = step[i][f[i - 1]]
    BY <1>4 DEF Iterates
  <2>2. ASSUME NEW i \in 1..n PROVE f[i] = InsUrl(f[i - 1], w[i])
    <3>1. f[i - 1] \in Lists /\ f[i] = step[i][f[i - 1]]
      <4>1. i - 1 \in 0..n
        BY <1>1
      <4> HIDE DEF step, n
      <4> QED BY <1>4, <2>1, <4>1
    <3> QED BY <3>1
  <2> HIDE DEF step, n
  <2>3. ASSUME NEW i \in 0..n PROVE f[i] = IF i = 0 THEN Empty ELSE InsUrl(f[i - 1], w[i])
    <3>1. CASE i = 0
      BY <2>1, <3>1
    <3>2. CASE i # 0
      <4>1. i \in 1..n
        BY <1>1, <3>2
      <4> QED BY <2>2, <3>2, <4>1
    <3> QED BY <3>1, <3>2
  <2> QED BY <2>1, <2>3, Zenon
<1>6. g = F(g)
  BY <1>5, Zenon
<1>7. Inserted(w) = g[n]
  BY Zenon DEF Inserted
<1> DEFINE T == {i \in 0..n : \E p : IsAt(g[i], p, SubSeq(w, 1, i), i)}
<1> HIDE DEF g
<1>8. 0 \in T
  <2>1. g[0] = Empty
    BY <1>1, <1>6
  <2>2. SubSeq(w, 1, 0) = <<>>
    BY SubSeqEmpty
  <2>3. IsAt(g[0], <<>>, SubSeq(w, 1, 0), 0)
    BY <1>1, <2>1, <2>2, EmptyList
  <2> QED BY <1>1, <2>3
<1>9. ASSUME NEW i \in 1..n, i - 1 \in T PROVE i \in T
  <2> DEFINE k == i - 1
             v == SubSeq(w, 1, k)
             x == SubSeq(w, 1, i)
  <2>1. PICK p : IsAt(g[k], p, v, k)
    BY <1>9
  <2>2. k \in 0..n /\ k + 1 = i
    BY <1>1
  <2>3. v \in Seq(Kept) /\ Len(v) = k /\ SubSeq(v, 1, k) = v
    <3>1. \A j \in 1..k : w[j] \in Kept
      BY <1>1
    <3>2. v \in Seq(Kept) /\ Len(v) = IF 1 <= k THEN k - 1 + 1 ELSE 0
      BY <2>2, <3>1, SubSeqProperties
    <3>3. Len(v) = k
      BY <2>2, <3>2
    <3>4. SubSeq(v, 1, Len(v)) = v
      BY <3>2, SubSeqFull
    <3> QED BY <3>2, <3>3, <3>4
  <2>4. Len(p) = k /\ k <= MaxTrail
    <3>1. Len(v) = Len(p)
      BY <2>1 DEF IsAt, ListOf
    <3> QED BY <1>1, <2>2, <2>3, <3>1
  <2>5. Append(v, w[i]) = x /\ Len(x) = i
    <3>1. i \in 1..i /\ i \in 1..Len(w) /\ 1 \in 1..Len(w) /\ i - 1 = k
      BY <1>1
    <3>2. SubSeq(w, 1, i) = SubSeq(w, 1, i - 1) \o <<w[i]>>
      <4>1. i \in 1..Len(w) /\ 1 \in 1..Len(w)
        BY <3>1
      <4> QED BY <4>1, SubSeqRecursiveSecond
    <3>3. w[i] \in Kept
      BY <1>1
    <3>4. Append(v, w[i]) = v \o <<w[i]>>
      <4> HIDE DEF v
      <4> QED BY <2>3, <3>3, AppendIsConcat
    <3>5. Append(v, w[i]) = x
      BY <3>2, <3>4
    <3>6. Len(Append(v, w[i])) = k + 1
      <4> HIDE DEF v
      <4> QED BY <2>3, <3>3, AppendProperties
    <3> QED BY <2>2, <3>5, <3>6
  <2>6. Recent(x) = x
    <3>1. Over(x) = 0
      BY <1>1, <2>5 DEF Over
    <3>2. x \in Seq(Kept)
      <4> HIDE DEF x, v
      <4> QED BY <1>1, <2>3, <2>5, AppendProperties
    <3>3. SubSeq(x, 1, Len(x)) = x
      <4> HIDE DEF x
      <4> QED BY <3>2, SubSeqFull
    <3>4. Recent(x) = SubSeq(x, 1, Len(x))
      <4> HIDE DEF x
      <4> QED BY <3>1 DEF Recent
    <3> QED BY <3>3, <3>4
  <2>7. Visited(v, k, w[i]) = x
    BY <2>3, <2>5 DEF Visited
  <2>8. g[i] = InsUrl(g[k], w[i])
    BY <1>1, <1>6
  <2>9. w[i] \in Kept
    BY <1>1
  <2> HIDE DEF v, x, k
  <2>10. PICK r : IsAt(InsUrl(g[k], w[i]), r, Recent(Visited(v, k, w[i])), Len(r))
    <3> DEFINE l == g[k]
               u == w[i]
    <3>1. IsAt(l, p, v, k) /\ Len(p) <= MaxTrail /\ u \in Kept
      BY <2>1, <2>4, <2>9
    <3> HIDE DEF l, u
    <3>2. \E r : IsAt(InsUrl(l, u), r, Recent(Visited(v, k, u)), Len(r)) /\ Len(r) <= MaxTrail
      BY <3>1, Inserts
    <3> QED BY <3>2 DEF l, u
  <2>11. IsAt(g[i], r, x, Len(r))
    BY <2>6, <2>7, <2>8, <2>10
  <2>12. Len(r) = i
    <3>1. Len(x) = Len(r)
      BY <2>11 DEF IsAt, ListOf
    <3> QED BY <2>5, <3>1
  <2>13. IsAt(g[i], r, x, i)
    BY <2>11, <2>12
  <2>14. i \in 0..n
    BY <1>1
  <2> QED BY <2>13, <2>14 DEF x
<1>10. \A i \in 0..n : i \in T
  <2> HIDE DEF T, n
  <2> QED BY <1>1, <1>8, <1>9, Induction
<1>11. n \in T
  <2> HIDE DEF T
  <2> QED BY <1>1, <1>10
<1>12. PICK p : IsAt(g[n], p, SubSeq(w, 1, n), n)
  BY <1>11
<1>13. SubSeq(w, 1, n) = w /\ Len(w) = Len(p)
  <2>1. Len(SubSeq(w, 1, n)) = Len(p)
    BY <1>12 DEF IsAt, ListOf
  <2> QED BY <2>1, SubSeqFull
<1> QED BY <1>7, <1>12, <1>13

\* The bytes of a file: a number, and no more than its lines allow.
LEMMA BytesOfLines ==
  ASSUME HistoryAssumption, NEW w \in Seq(Kept)
  PROVE  /\ Bytes(w) \in Nat
         /\ (\A u \in Urls : Length[u] <= MaxUrl) => Bytes(w) <= EndList + Len(w) * (MaxUrl + 1)
<1> DEFINE n == Len(w)
           step == [i \in 1..n |-> [x \in Nat |-> x + Length[w[i]] + 1]]
           F(f) == [i \in 0..n |-> IF i = 0 THEN EndList ELSE f[i - 1] + Length[w[i]] + 1]
           g == CHOOSE f : f = F(f)
<1>1. n \in Nat /\ EndList \in Nat /\ MaxUrl \in Nat /\ \A i \in 1..n : w[i] \in Urls /\ Length[w[i]] \in Nat
  <2>1. \A i \in 1..n : w[i] \in Kept
    BY ElementOfSeq
  <2> QED BY <2>1, LenProperties DEF HistoryAssumption, Kept
<1>2. PICK f : Iterates(f, n, EndList, step) /\ \A i \in 0..n : f[i] \in Nat
  <2>1. StepsIn(Nat, n, step)
    <3>1. \A i \in 1..n : [x \in Nat |-> x + Length[w[i]] + 1] \in [Nat -> Nat]
      BY <1>1
    <3> HIDE DEF n
    <3> QED BY <3>1 DEF StepsIn
  <2> HIDE DEF n, step
  <2> QED BY <1>1, <2>1, Iteration
<1>3. f = F(f)
  <2>1. f = [i \in 0..n |-> f[i]] /\ f[0] = EndList /\ \A i \in 1..n : f[i] = step[i][f[i - 1]]
    BY <1>2 DEF Iterates
  <2>2. ASSUME NEW i \in 1..n PROVE f[i] = f[i - 1] + Length[w[i]] + 1
    <3>1. f[i - 1] \in Nat /\ f[i] = step[i][f[i - 1]]
      <4>1. i - 1 \in 0..n
        BY <1>1
      <4> HIDE DEF step, n
      <4> QED BY <1>2, <2>1, <4>1
    <3> QED BY <3>1
  <2>3. ASSUME NEW i \in 0..n PROVE f[i] = IF i = 0 THEN EndList ELSE f[i - 1] + Length[w[i]] + 1
    <3>1. CASE i = 0
      BY <2>1, <3>1
    <3>2. CASE i # 0
      <4>1. i \in 1..n
        BY <1>1, <3>2
      <4> QED BY <2>2, <3>2, <4>1
    <3> QED BY <3>1, <3>2
  <2> HIDE DEF step, n
  <2> QED BY <2>1, <2>3, Zenon
<1>4. g = F(g)
  BY <1>3, Zenon
<1>5. Bytes(w) = g[n]
  BY Zenon DEF Bytes
<1> HIDE DEF g, n
<1>6. g[0] = EndList /\ \A i \in 1..n : g[i] = g[i - 1] + Length[w[i]] + 1
  BY <1>1, <1>4
<1> DEFINE Fits(i) ==
             (\A u \in Urls : Length[u] <= MaxUrl) => g[i] <= EndList + i * (MaxUrl + 1)
           T == {i \in 0..n : g[i] \in Nat /\ Fits(i)}
<1>7. 0 \in T
  BY <1>1, <1>6
<1>8. ASSUME NEW i \in 1..n, i - 1 \in T PROVE i \in T
  <2> DEFINE x == g[i - 1]
             y == Length[w[i]]
  <2>1. x \in Nat /\ y \in Nat /\ g[i] = x + y + 1 /\ i \in 0..n
    BY <1>1, <1>6, <1>8
  <2>2. ASSUME \A u \in Urls : Length[u] <= MaxUrl PROVE g[i] <= EndList + i * (MaxUrl + 1)
    <3>1. x <= EndList + (i - 1) * (MaxUrl + 1) /\ y <= MaxUrl
      BY <1>1, <1>8, <2>2
    <3>2. (i - 1) * (MaxUrl + 1) + (MaxUrl + 1) = i * (MaxUrl + 1)
      BY <1>1
    <3> DEFINE a == (i - 1) * (MaxUrl + 1)
               b == i * (MaxUrl + 1)
    <3>3. a \in Int /\ b \in Int
      BY <1>1
    <3> HIDE DEF x, y, a, b
    <3>4. x <= EndList + a /\ a + (MaxUrl + 1) = b
      BY <3>1, <3>2 DEF a, b
    <3>5. x + y + 1 <= EndList + b
      BY <1>1, <2>1, <3>1, <3>3, <3>4
    <3> QED BY <2>1, <3>5 DEF b
  <2>3. g[i] \in Nat
    BY <2>1
  <2> QED BY <2>1, <2>2, <2>3
<1>9. \A i \in 0..n : i \in T
  <2> HIDE DEF T
  <2> QED BY <1>1, <1>7, <1>8, Induction
<1>10. n \in T
  <2> HIDE DEF T
  <2> QED BY <1>1, <1>9
<1> QED BY <1>5, <1>10 DEF n

-----------------------------------------------------------------------------
(* Every step.                                                             *)

Now(q, w, k) == IsAt([mem |-> heap, here |-> history], q, w, k) /\ Len(q) <= MaxTrail

\* What the file holds: addresses, no more than a list has.
FileInv == dumped \in Seq(Kept) /\ Len(dumped) <= MaxTrail /\ historyWritable \in BOOLEAN

\* The pointers make a list and `history` is on it.
ListInv == (\E q, w, k : Now(q, w, k)) /\ FileInv

\* What a step makes of the pages and of the place.
VisitMoves(w, k, v, j) ==
  \E u \in Urls : (k > 0 => w[k] # u) /\ v = Recent(Visited(w, k, u)) /\ j = Len(v)
PlaceMoves(w, k, v, j) == v = w /\ j \in 0..Len(w) /\ ((j = k - 1 /\ j > 0) \/ j = k + 1)
StartMoves(v, j) ==
  /\ dumped' = Left /\ historyWritable' = (Bytes(Left) <= MaxBytes)
  /\ v = IF historyWritable' THEN Left ELSE <<>>
  /\ j = Len(v)

LEMMA Looks ==
  ASSUME HistoryAssumption, NEW q, NEW w, NEW k, Now(q, w, k)
  PROVE  /\ w \in Seq(Kept) /\ Len(w) = Len(q) /\ Len(w) \in Nat /\ Len(w) <= MaxTrail
         /\ k \in 0..Len(w) /\ (k = 0 => Len(w) = 0)
         /\ Addresses(heap, history) = w
         /\ From(heap, RewindHistory(heap, history)) = q
         /\ Len(From(heap, Prox(heap, history))) = Len(w) - k
         /\ Prec(heap, history) # NULL => k > 1 /\ history = q[k] /\ heap[history].prec = Nth(q, k - 1)
         /\ Prox(heap, history) # NULL => k < Len(w) /\ heap[history].prox = Nth(q, k + 1)
         /\ history # NULL <=> k > 0
         /\ k > 0 => heap[history].url = w[k]
<1> DEFINE l == [mem |-> heap, here |-> history]
<1>1. MaxTrail \in Nat
  BY DEF HistoryAssumption
<1>2. IsAt(l, q, w, k) /\ Len(q) <= MaxTrail /\ l.mem = heap /\ l.here = history
  BY DEF Now
<1>3. /\ ListOf(heap, q, w) /\ k \in 0..Len(q) /\ (k = 0 => Len(q) = 0) /\ history = Nth(q, k)
      /\ q \in Seq(Entries) /\ w \in Seq(Kept) /\ Len(w) = Len(q)
  <2> HIDE DEF l
  <2> QED BY <1>2 DEF IsAt, ListOf
<1>4. /\ From(heap, RewindHistory(heap, history)) = q
      /\ Addresses(heap, history) = w
      /\ From(heap, Prox(heap, history)) = SubSeq(q, k + 1, Len(q))
  <2> HIDE DEF l
  <2>1. /\ From(l.mem, RewindHistory(l.mem, l.here)) = q
        /\ Addresses(l.mem, l.here) = w
        /\ From(l.mem, Prox(l.mem, l.here)) = SubSeq(q, k + 1, Len(q))
    BY <1>1, <1>2, Walks
  <2> QED BY <1>2, <2>1
<1>5. Len(SubSeq(q, k + 1, Len(q))) = Len(q) - k
  BY <1>3, Suffix
<1>6. /\ Len(q) \in Nat
      /\ \A i \in 1..Len(q) : /\ q[i] # NULL
                              /\ heap[q[i]].url = w[i] /\ heap[q[i]].prec = Nth(q, i - 1)
                              /\ heap[q[i]].prox = Nth(q, i + 1)
  BY <1>1, <1>3, Shape
<1>7. /\ history # NULL <=> k > 0
      /\ k > 0 => /\ k \in 1..Len(q) /\ history = q[k] /\ heap[history].url = w[k]
                  /\ heap[history].prec = Nth(q, k - 1) /\ heap[history].prox = Nth(q, k + 1)
  <2>1. CASE k = 0
    BY <1>3, <1>6, <2>1 DEF Nth, NULL
  <2>2. CASE k # 0
    <3>1. k > 0 /\ k \in 1..Len(q)
      BY <1>3, <1>6, <2>2
    <3>2. history = q[k]
      BY <1>3, <3>1 DEF Nth
    <3> QED BY <1>6, <3>1, <3>2
  <2> QED BY <2>1, <2>2
<1>8. Prec(heap, history) # NULL => k > 1 /\ history = q[k] /\ heap[history].prec = Nth(q, k - 1)
  <2> SUFFICES ASSUME Prec(heap, history) # NULL
               PROVE  k > 1 /\ history = q[k] /\ heap[history].prec = Nth(q, k - 1)
    OBVIOUS
  <2>1. history # NULL /\ heap[history].prec # NULL
    BY DEF Prec
  <2>2. k > 0 /\ Nth(q, k - 1) # NULL
    BY <1>7, <2>1
  <2>3. k - 1 \in 1..Len(q)
    BY <2>2 DEF Nth
  <2> QED BY <1>3, <1>6, <1>7, <2>2, <2>3
<1>9. Prox(heap, history) # NULL => k < Len(w) /\ heap[history].prox = Nth(q, k + 1)
  <2> SUFFICES ASSUME Prox(heap, history) # NULL
               PROVE  k < Len(w) /\ heap[history].prox = Nth(q, k + 1)
    OBVIOUS
  <2>1. history # NULL /\ heap[history].prox # NULL
    BY DEF Prox
  <2>2. k > 0 /\ Nth(q, k + 1) # NULL
    BY <1>7, <2>1
  <2>3. k + 1 \in 1..Len(q)
    BY <2>2 DEF Nth
  <2> QED BY <1>3, <1>6, <1>7, <2>2, <2>3
<1> QED BY <1>2, <1>3, <1>4, <1>5, <1>6, <1>7, <1>8, <1>9

\* The addresses and the place of a list, now and after a step.
Place(mem, n) == Len(From(mem, RewindHistory(mem, n))) - Len(From(mem, Prox(mem, n)))

LEMMA Seen ==
  ASSUME HistoryAssumption, NEW mem, NEW n, NEW q, NEW w, NEW k,
         IsAt([mem |-> mem, here |-> n], q, w, k)
  PROVE  Addresses(mem, n) = w /\ Place(mem, n) = k
<1> DEFINE l == [mem |-> mem, here |-> n]
<1>1. IsAt(l, q, w, k) /\ l.mem = mem /\ l.here = n /\ MaxTrail \in Nat
  BY DEF HistoryAssumption
<1> HIDE DEF l
<1>2. /\ From(mem, RewindHistory(mem, n)) = q
      /\ Addresses(mem, n) = w
      /\ From(mem, Prox(mem, n)) = SubSeq(q, k + 1, Len(q))
  <2>1. /\ From(l.mem, RewindHistory(l.mem, l.here)) = q
        /\ Addresses(l.mem, l.here) = w
        /\ From(l.mem, Prox(l.mem, l.here)) = SubSeq(q, k + 1, Len(q))
    BY <1>1, Walks
  <2> QED BY <1>1, <2>1
<1>3. q \in Seq(Entries) /\ k \in 0..Len(q)
  BY <1>1 DEF IsAt, ListOf
<1>4. Len(SubSeq(q, k + 1, Len(q))) = Len(q) - k /\ Len(q) \in Nat
  BY <1>3, Suffix, LenProperties
<1>5. Place(mem, n) = Len(q) - (Len(q) - k)
  BY <1>2, <1>4 DEF Place
<1> QED BY <1>2, <1>3, <1>4, <1>5

LEMMA PutIs ==
  ASSUME NEW l, NEW q, NEW w, NEW k, IsAt(l, q, w, k), Len(q) <= MaxTrail, Put(l)
  PROVE  Now(q, w, k)'
<1>1. l = [mem |-> heap', here |-> history']
  BY DEF IsAt, Put
<1> QED BY <1>1 DEF Now

LEMMA VisitStep ==
  ASSUME HistoryAssumption, NEW q, NEW w, NEW k, Now(q, w, k),
         NEW u \in Urls \cup {NotHttp}, Visit(u)
  PROVE  UNCHANGED historyFile /\ \E p, v, j : Now(p, v, j)' /\ (VisitMoves(w, k, v, j) \/ (v = w /\ j = k))
<1> DEFINE l == [mem |-> heap, here |-> history]
<1>1. IsAt(l, q, w, k) /\ Len(q) <= MaxTrail
  BY DEF Now
<1>2. Put(InsUrl(l, u)) /\ (history # NULL => heap[history].url # u) /\ UNCHANGED historyFile
  BY Zenon DEF Visit
<1> HIDE DEF l
<1>3. CASE u = NotHttp
  <2>1. Put(l)
    BY <1>2, <1>3 DEF InsUrl
  <2> QED BY <1>1, <1>2, <2>1, PutIs
<1>4. CASE u # NotHttp
  <2>1. u \in Kept /\ u \in Urls
    BY <1>4 DEF Kept
  <2>2. PICK p : IsAt(InsUrl(l, u), p, Recent(Visited(w, k, u)), Len(p)) /\ Len(p) <= MaxTrail
    BY <1>1, <2>1, Inserts
  <2> DEFINE v == Recent(Visited(w, k, u))
  <2>3. Now(p, v, Len(p))'
    <3> HIDE DEF v
    <3>1. IsAt(InsUrl(l, u), p, v, Len(p)) /\ Len(p) <= MaxTrail
      BY <2>2 DEF v
    <3> QED BY <1>2, <3>1, PutIs
  <2>4. Len(p) = Len(v)
    <3> HIDE DEF v
    <3>1. IsAt(InsUrl(l, u), p, v, Len(p))
      BY <2>2 DEF v
    <3> QED BY <3>1 DEF IsAt, ListOf
  <2>5. k > 0 => w[k] # u
    BY <1>2, Looks
  <2>6. VisitMoves(w, k, v, Len(p))
    <3> HIDE DEF v
    <3>1. v = Recent(Visited(w, k, u))
      BY DEF v
    <3> QED BY <2>1, <2>4, <2>5, <3>1 DEF VisitMoves
  <2> HIDE DEF v
  <2> QED BY <1>2, <2>3, <2>6
<1> QED BY <1>3, <1>4

LEMMA PlaceStep ==
  ASSUME HistoryAssumption, NEW q, NEW w, NEW k, Now(q, w, k), GoBack \/ GoForward
  PROVE  UNCHANGED historyFile /\ \E j : Now(q, w, j)' /\ PlaceMoves(w, k, w, j)
<1>1. /\ Len(w) = Len(q) /\ Len(w) \in Nat /\ k \in 0..Len(w)
      /\ Prec(heap, history) # NULL => k > 1 /\ heap[history].prec = Nth(q, k - 1)
      /\ Prox(heap, history) # NULL => k < Len(w) /\ heap[history].prox = Nth(q, k + 1)
  BY Looks
<1>2. ASSUME NEW j \in 1..Len(q), history' = Nth(q, j), UNCHANGED heap PROVE Now(q, w, j)'
  <2>1. ListOf(heap, q, w) /\ Len(q) <= MaxTrail
    BY DEF Now, IsAt
  <2>2. j \in 0..Len(q) /\ j # 0
    BY <1>1
  <2>3. IsAt([mem |-> heap', here |-> history'], q, w, j)
    BY <1>2, <2>1, <2>2 DEF IsAt
  <2> QED BY <2>1, <2>3 DEF Now
<1>3. CASE GoBack
  <2>1. history' = Nth(q, k - 1) /\ UNCHANGED <<heap, historyFile>> /\ k > 1
    BY <1>1, <1>3 DEF GoBack
  <2>2. k - 1 \in 1..Len(q) /\ k - 1 \in 0..Len(w) /\ k - 1 > 0
    BY <1>1, <2>1
  <2> QED BY <1>2, <2>1, <2>2 DEF PlaceMoves
<1>4. CASE GoForward
  <2>1. history' = Nth(q, k + 1) /\ UNCHANGED <<heap, historyFile>> /\ k < Len(w)
    BY <1>1, <1>4 DEF GoForward
  <2>2. k + 1 \in 1..Len(q) /\ k + 1 \in 0..Len(w)
    BY <1>1, <2>1
  <2> QED BY <1>2, <2>1, <2>2 DEF PlaceMoves
<1> QED BY <1>3, <1>4

\* What is left for the next start.
LEMMA LinesLeft ==
  ASSUME HistoryAssumption, NEW q, NEW w, NEW k, Now(q, w, k), FileInv
  PROVE  /\ Left \in Seq(Kept) /\ Len(Left) <= MaxTrail
         /\ Left = IF historyWritable THEN w ELSE dumped
         /\ Bytes(Left) \in Nat /\ MaxBytes \in Nat
<1>1. w \in Seq(Kept) /\ Len(w) <= MaxTrail /\ Addresses(heap, history) = w
  BY Looks
<1>2. Left \in Seq(Kept) /\ Len(Left) <= MaxTrail /\ Left = IF historyWritable THEN w ELSE dumped
  BY <1>1 DEF Left, FileInv
<1>3. Bytes(Left) \in Nat
  BY <1>2, BytesOfLines
<1>4. MaxBytes \in Nat
  BY DEF HistoryAssumption, MaxBytes
<1> QED BY <1>2, <1>3, <1>4

LEMMA StartStep ==
  ASSUME HistoryAssumption, NEW q, NEW w, NEW k, Now(q, w, k), FileInv, Restart
  PROVE  FileInv' /\ \E p, v, j : Now(p, v, j)' /\ StartMoves(v, j)
<1> PICK l : l = Left
  OBVIOUS
<1>1. MaxTrail \in Nat
  BY DEF HistoryAssumption
<1>2. l \in Seq(Kept) /\ Len(l) <= MaxTrail /\ Bytes(l) \in Nat /\ MaxBytes \in Nat
  BY LinesLeft
<1>3. Put(LoadList(l)) /\ dumped' = l /\ historyWritable' = (Bytes(l) <= MaxBytes)
  BY DEF Restart
<1>4. \A v, j : v = (IF historyWritable' THEN l ELSE <<>>) /\ j = Len(v) => StartMoves(v, j)
  BY <1>3 DEF StartMoves
<1>5. FileInv'
  BY <1>2, <1>3 DEF FileInv
<1>6. CASE Bytes(l) <= MaxBytes
  <2>1. LoadList(l) = Inserted(l)
    BY <1>2, <1>6 DEF LoadList
  <2>2. PICK p : IsAt(Inserted(l), p, l, Len(p))
    BY <1>2, Reloaded
  <2>3. Len(p) = Len(l)
    BY <2>2 DEF IsAt, ListOf
  <2>4. Now(p, l, Len(p))'
    BY <1>2, <1>3, <2>1, <2>2, <2>3, PutIs
  <2> QED BY <1>3, <1>4, <1>5, <1>6, <2>3, <2>4
<1>7. CASE ~(Bytes(l) <= MaxBytes)
  <2>1. LoadList(l) = Empty
    BY <1>2, <1>7 DEF LoadList
  <2>2. IsAt(Empty, <<>>, <<>>, 0) /\ Len(<<>>) = 0 /\ 0 <= MaxTrail
    BY <1>1, EmptyList, EmptySeq
  <2>3. Now(<<>>, <<>>, 0)'
    BY <1>3, <2>1, <2>2, PutIs
  <2> QED BY <1>3, <1>4, <1>5, <1>7, <2>2, <2>3
<1> QED BY <1>6, <1>7

LEMMA DeleteStep ==
  ASSUME HistoryAssumption, NEW q, NEW w, NEW k, Now(q, w, k), FileInv, DeleteSession
  PROVE  Now(<<>>, <<>>, 0)' /\ FileInv' /\ dumped' = Left /\ historyWritable' = FALSE
<1>1. MaxTrail \in Nat
  BY DEF HistoryAssumption
<1>2. ListOf(heap, q, w) /\ From(heap, RewindHistory(heap, history)) = q /\ q \in Seq(Entries)
  <2>1. ListOf(heap, q, w)
    BY DEF Now, IsAt
  <2>2. q \in Seq(Entries)
    BY <2>1 DEF ListOf
  <2> QED BY <2>1, <2>2, Looks
<1>3. ToSet(q) = DOMAIN heap
  <2>1. DOMAIN heap = Drawn(q) /\ DOMAIN q = 1..Len(q)
    BY <1>1, <1>2, Shape
  <2> QED BY <2>1, Zenon DEF ToSet, Drawn
<1>4. Delete(heap, ToSet(q)) = <<>>
  <2>1. DOMAIN heap \ ToSet(q) = {}
    BY <1>3
  <2>2. Delete(heap, ToSet(q)) = [n \in {} |-> heap[n]]
    BY <2>1, Zenon DEF Delete
  <2> QED BY <2>2
<1>5. Put(Empty)
  BY <1>2, <1>4 DEF DeleteSession, Empty
<1>6. IsAt(Empty, <<>>, <<>>, 0) /\ Len(<<>>) = 0 /\ 0 <= MaxTrail
  BY <1>1, EmptyList, EmptySeq
<1>7. dumped' = Left /\ historyWritable' = FALSE
  BY DEF DeleteSession
<1>8. FileInv'
  BY <1>7, LinesLeft DEF FileInv
<1> QED BY <1>5, <1>6, <1>7, <1>8, PutIs

\* A step leaves a list again, and moves the pages and the place.
Moves(w, k, v, j) ==
  \/ UNCHANGED historyFile /\ (VisitMoves(w, k, v, j) \/ PlaceMoves(w, k, v, j) \/ (v = w /\ j = k))
  \/ StartMoves(v, j)
  \/ dumped' = Left /\ historyWritable' = FALSE /\ v = <<>> /\ j = 0

LEMMA EveryStep ==
  ASSUME HistoryAssumption, NEW q, NEW w, NEW k, Now(q, w, k), FileInv, [Next]_vars
  PROVE  FileInv' /\ \E p, v, j : Now(p, v, j)' /\ Moves(w, k, v, j) /\ (Restart => StartMoves(v, j))
<1> DEFINE Leads == FileInv' /\ \E p, v, j : Now(p, v, j)' /\ Moves(w, k, v, j) /\ (Restart => StartMoves(v, j))
<1>1. CASE Restart
  BY <1>1, StartStep, Zenon DEF Moves
<1>2. ASSUME UNCHANGED historyFile PROVE FileInv'
  BY <1>2 DEF FileInv, historyFile
<1>3. ASSUME NEW u \in Urls \cup {NotHttp}, Visit(u), ~Restart PROVE Leads
  <2>1. UNCHANGED historyFile /\ \E p, v, j : Now(p, v, j)' /\ (VisitMoves(w, k, v, j) \/ (v = w /\ j = k))
    BY <1>3, VisitStep
  <2>2. PICK p, v, j : Now(p, v, j)' /\ (VisitMoves(w, k, v, j) \/ (v = w /\ j = k))
    BY <2>1
  <2>3. Moves(w, k, v, j)
    BY <2>1, <2>2 DEF Moves
  <2> QED BY <1>2, <1>3, <2>1, <2>2, <2>3
<1>4. CASE (GoBack \/ GoForward) /\ ~Restart
  BY <1>2, <1>4, PlaceStep, Zenon DEF Moves
<1>5. CASE DeleteSession /\ ~Restart
  BY <1>5, DeleteStep, Zenon DEF Moves
<1>6. CASE UNCHANGED vars /\ ~Restart
  <2>1. Now(q, w, k)' /\ UNCHANGED historyFile
    BY <1>6 DEF vars, historyFile, Now
  <2> QED BY <1>2, <1>6, <2>1 DEF Moves
<1> QED BY <1>1, <1>3, <1>4, <1>5, <1>6, Zenon DEF Next

LEMMA Start ==
  ASSUME HistoryAssumption, Init
  PROVE  Now(<<>>, <<>>, 0) /\ FileInv
<1>1. MaxTrail \in Nat /\ 0 <= MaxTrail
  BY DEF HistoryAssumption
<1>2. [mem |-> heap, here |-> history] = Empty
  BY DEF Init, Empty
<1>3. IsAt(Empty, <<>>, <<>>, 0) /\ Len(<<>>) = 0
  BY <1>1, EmptyList, EmptySeq
<1>4. FileInv
  BY <1>1, EmptySeq DEF Init, FileInv
<1> QED BY <1>1, <1>2, <1>3, <1>4 DEF Now

\* In every state there is a list on the heap and `history` points into it.
THEOREM AlwaysList ==
  ASSUME HistoryAssumption
  PROVE  Spec => []ListInv
<1>1. Init => ListInv
  BY Start DEF ListInv
<1>2. ListInv /\ [Next]_vars => ListInv'
  <2> SUFFICES ASSUME ListInv, [Next]_vars PROVE ListInv'
    OBVIOUS
  <2>1. PICK q, w, k : Now(q, w, k)
    BY DEF ListInv
  <2>2. FileInv' /\ \E p, v, j : Now(p, v, j)'
    BY <2>1, EveryStep DEF ListInv
  <2> QED BY <2>2 DEF ListInv
<1> QED BY <1>1, <1>2, PTL DEF Spec

-----------------------------------------------------------------------------
(* What follows.                                                           *)

LEMMA ListIsWell ==
  ASSUME HistoryAssumption, ListInv
  PROVE  WellLinked
<1>1. PICK q, w, k : Now(q, w, k)
  BY DEF ListInv
<1>2. MaxTrail \in Nat
  BY DEF HistoryAssumption
<1>3. ListOf(heap, q, w) /\ Len(q) <= MaxTrail /\ k \in 0..Len(q) /\ history = Nth(q, k)
  BY <1>1 DEF Now, IsAt
<1>4. /\ Len(q) \in Nat /\ DOMAIN q = 1..Len(q) /\ DOMAIN heap = Drawn(q)
      /\ \A i \in 1..Len(q) : q[i] # NULL /\ q[i] \in DOMAIN heap
      /\ \A i \in 1..Len(q) : heap[q[i]].prec = Nth(q, i - 1) /\ heap[q[i]].prox = Nth(q, i + 1)
  BY <1>2, <1>3, Shape
<1>5. \A i : Nth(q, i) \in DOMAIN heap \cup {NULL}
  BY <1>4 DEF Nth
<1>6. DOMAIN heap = ToSet(From(heap, RewindHistory(heap, history)))
  <2>1. From(heap, RewindHistory(heap, history)) = q
    BY <1>1, Looks
  <2>2. ToSet(q) = Drawn(q)
    BY <1>4, Zenon DEF ToSet, Drawn
  <2> QED BY <1>4, <2>1, <2>2
<1>7. Cardinality(DOMAIN heap) <= MaxTrail
  <2>1. q = [i \in 1..Len(q) |-> q[i]]
    <3>1. q \in Seq(Entries)
      BY <1>3 DEF ListOf
    <3> QED BY <3>1, LenProperties
  <2>2. q \in Surjection(1..Len(q), Drawn(q))
    BY <2>1 DEF Surjection, Drawn
  <2>3. ExistsSurjection(1..Len(q), Drawn(q))
    BY <2>2 DEF ExistsSurjection
  <2>4. Cardinality(Drawn(q)) <= Len(q)
    BY <1>4, <2>3, FS_SurjCardinalityBound
  <2>5. IsFiniteSet(Drawn(q))
    <3>1. IsFiniteSet(1..Len(q))
      BY <1>4, FS_Interval
    <3> QED BY <2>2, <3>1, FS_Surjection
  <2>6. Cardinality(Drawn(q)) \in Nat
    BY <2>5, FS_CardinalityType
  <2> QED BY <1>2, <1>3, <1>4, <2>4, <2>6
<1>8. ASSUME NEW i \in 1..Len(q)
      PROVE  /\ {Prec(heap, q[i]), Prox(heap, q[i])} \subseteq DOMAIN heap \cup {NULL}
             /\ Prox(heap, q[i]) # NULL => Prec(heap, Prox(heap, q[i])) = q[i]
             /\ Prec(heap, q[i]) # NULL => Prox(heap, Prec(heap, q[i])) = q[i]
  <2>1. Prec(heap, q[i]) = Nth(q, i - 1) /\ Prox(heap, q[i]) = Nth(q, i + 1)
    BY <1>4 DEF Prec, Prox
  <2>2. ASSUME Nth(q, i + 1) # NULL PROVE Prec(heap, Nth(q, i + 1)) = q[i]
    <3>1. PICK j \in 1..Len(q) : j = i + 1
      BY <2>2 DEF Nth
    <3>2. Nth(q, i + 1) = q[j] /\ Prec(heap, q[j]) = Nth(q, j - 1)
      BY <1>4, <3>1 DEF Nth, Prec
    <3>3. Nth(q, j - 1) = q[i]
      BY <1>4, <3>1 DEF Nth
    <3> QED BY <3>2, <3>3
  <2>3. ASSUME Nth(q, i - 1) # NULL PROVE Prox(heap, Nth(q, i - 1)) = q[i]
    <3>1. PICK j \in 1..Len(q) : j = i - 1
      BY <2>3 DEF Nth
    <3>2. Nth(q, i - 1) = q[j] /\ Prox(heap, q[j]) = Nth(q, j + 1)
      BY <1>4, <3>1 DEF Nth, Prox
    <3>3. Nth(q, j + 1) = q[i]
      BY <1>4, <3>1 DEF Nth
    <3> QED BY <3>2, <3>3
  <2> QED BY <1>5, <2>1, <2>2, <2>3
<1>9. \A n \in DOMAIN heap : \E i \in 1..Len(q) : n = q[i]
  BY <1>4 DEF Drawn
<1> QED BY <1>3, <1>5, <1>6, <1>7, <1>8, <1>9 DEF WellLinked

\* Whatever is visited, walked, cut and trimmed, the history's pointers agree
\* both ways and nothing is lost or reached after its delete
\* (liste.cpp:164-193), for any addresses and any limit.
THEOREM PointersHold ==
  ASSUME HistoryAssumption
  PROVE  Spec => []WellLinked
<1>1. ListInv => WellLinked
  BY ListIsWell
<1> QED BY <1>1, AlwaysList, PTL

\* A start finds the list the last session that may write left, unless its
\* lines are more bytes than the reader accepts: then no start finds any, and
\* the file stays as it is (liste.cpp:194-226).
THEOREM StartsKeepTheTrail ==
  ASSUME HistoryAssumption
  PROVE  Spec => RestartKeepsTrail
<1>1. ASSUME ListInv, [Next]_vars, Restart PROVE TrailKept
  <2>1. PICK q, w, k : Now(q, w, k)
    BY <1>1 DEF ListInv
  <2>2. PICK p, v, j : Now(p, v, j)' /\ StartMoves(v, j)
    BY <1>1, <2>1, EveryStep DEF ListInv
  <2>3. Addresses(heap', history') = v
    <3>1. IsAt([mem |-> heap', here |-> history'], p, v, j)
      BY <2>2 DEF Now
    <3> QED BY <3>1, Seen
  <2>4. dumped' = Left /\ historyWritable' = (Bytes(dumped') <= MaxBytes)
        /\ v = IF historyWritable' THEN dumped' ELSE <<>>
    BY <2>2 DEF StartMoves
  <2>5. /\ historyWritable => dumped' = Addresses(heap, history)
        /\ ~historyWritable => dumped' = dumped
    BY <2>4 DEF Left
  <2> QED BY <2>3, <2>4, <2>5 DEF TrailKept
<1>2. [Next]_vars /\ ListInv => [TrailKept]_vars
  BY <1>1 DEF TrailKept
<1> QED BY <1>2, AlwaysList, PTL DEF Spec, RestartKeepsTrail

\* No trail shorter than the limit that a session could write is refused: its
\* lines fit, as each is an address httpUrl takes, and the last line is no
\* longer than one; and the session that finds it may write again.
THEOREM ShortTrailReturns ==
  ASSUME HistoryAssumption, \A u \in Urls : Length[u] <= MaxUrl, EndList <= MaxUrl + 1
  PROVE  Spec => [][Restart /\ historyWritable /\ Len(Addresses(heap, history)) < MaxTrail
                      => historyWritable' /\ Addresses(heap', history') = Addresses(heap, history)]_vars
<1>1. ListInv /\ [TrailKept]_vars =>
        [Restart /\ historyWritable /\ Len(Addresses(heap, history)) < MaxTrail
           => historyWritable' /\ Addresses(heap', history') = Addresses(heap, history)]_vars
  <2> SUFFICES ASSUME ListInv, TrailKept, Restart, historyWritable, Len(Addresses(heap, history)) < MaxTrail
               PROVE  historyWritable' /\ Addresses(heap', history') = Addresses(heap, history)
    BY Zenon
  <2>1. PICK q, w, k : Now(q, w, k)
    BY DEF ListInv
  <2>2. w \in Seq(Kept) /\ Len(w) \in Nat /\ Addresses(heap, history) = w
    BY <2>1, Looks
  <2>3. Bytes(w) \in Nat /\ Bytes(w) <= EndList + Len(w) * (MaxUrl + 1)
    BY <2>2, BytesOfLines
  <2>4. MaxTrail \in Nat /\ MaxUrl \in Nat /\ EndList \in Nat /\ Len(w) + 1 <= MaxTrail
    BY <2>2 DEF HistoryAssumption
  <2>5. (Len(w) + 1) * (MaxUrl + 1) <= MaxTrail * (MaxUrl + 1)
    <3> DEFINE x == Len(w) + 1
               y == MaxUrl + 1
    <3>1. x \in Nat /\ y \in Nat /\ x <= MaxTrail
      BY <2>2, <2>4
    <3> HIDE DEF x, y
    <3>2. MaxTrail * y = x * y + (MaxTrail - x) * y /\ (MaxTrail - x) * y >= 0
      BY <2>4, <3>1
    <3>3. x * y <= MaxTrail * y
      BY <2>4, <3>1, <3>2
    <3> QED BY <3>3 DEF x, y
  <2>6. (Len(w) + 1) * (MaxUrl + 1) = Len(w) * (MaxUrl + 1) + (MaxUrl + 1)
    BY <2>2, <2>4
  <2>7. Bytes(w) <= MaxBytes
    <3> DEFINE a == Len(w) * (MaxUrl + 1)
               b == (Len(w) + 1) * (MaxUrl + 1)
               m == MaxTrail * (MaxUrl + 1)
               s == Bytes(w)
    <3>1. a \in Int /\ b \in Int /\ m \in Int
      BY <2>2, <2>4
    <3>2. s \in Nat /\ s <= EndList + a /\ b <= m /\ b = a + (MaxUrl + 1)
      BY <2>3, <2>5, <2>6
    <3> HIDE DEF a, b, m, s
    <3>3. s <= m
      BY <2>4, <3>1, <3>2
    <3> QED BY <3>3 DEF m, s, MaxBytes
  <2> QED BY <2>2, <2>7 DEF TrailKept
<1> QED BY <1>1, AlwaysList, StartsKeepTheTrail, PTL DEF RestartKeepsTrail

LEMMA MovesRefine ==
  ASSUME HistoryAssumption, NEW q, NEW w, NEW k, Now(q, w, k),
         NEW p, NEW v, NEW j, Now(p, v, j)', Moves(w, k, v, j)
  PROVE  \/ Walked!Visit \/ Walked!Back \/ Walked!Forward \/ Walked!Forget \/ Walked!Restart
         \/ UNCHANGED <<Addresses(heap, history),
                        Len(From(heap, RewindHistory(heap, history)))
                          - Len(From(heap, Prox(heap, history))), dumped, historyWritable>>
<1> DEFINE trail == Addresses(heap, history)
           at == Len(From(heap, RewindHistory(heap, history))) - Len(From(heap, Prox(heap, history)))
<1>1. trail = w /\ at = k
  BY Seen DEF Now, Place
<1>2. trail' = v /\ at' = j
  <2>1. IsAt([mem |-> heap', here |-> history'], p, v, j)
    BY DEF Now
  <2> QED BY <2>1, Seen DEF Place
<1>3. w \in Seq(Kept) /\ Len(w) \in Nat /\ k \in 0..Len(w) /\ MaxTrail \in Nat
  BY Looks DEF HistoryAssumption
<1>4. CASE UNCHANGED historyFile /\ VisitMoves(w, k, v, j)
  <2>1. PICK u \in Urls : (k > 0 => w[k] # u) /\ v = Recent(Visited(w, k, u)) /\ j = Len(v)
    BY <1>4 DEF VisitMoves
  <2> DEFINE walked == Append(SubSeq(w, 1, k), u)
             surplus == IF Len(walked) > MaxTrail THEN Len(walked) - MaxTrail ELSE 0
  <2>2. v = SubSeq(walked, surplus + 1, Len(walked))
    BY <2>1 DEF Recent, Visited, Over
  <2>3. walked \in Seq(Urls)
    <3>1. w \in Seq(Urls)
      <4>1. Kept \subseteq Urls
        BY DEF Kept
      <4> QED BY <1>3, <4>1, SeqMonotonic
    <3> QED BY <1>3, <3>1, Prefix
  <2>4. j = Len(walked) - surplus
    <3> HIDE DEF walked
    <3>1. Len(walked) \in Nat
      BY <2>3, LenProperties
    <3>2. surplus \in 0..Len(walked)
      BY <1>3, <3>1
    <3> HIDE DEF surplus
    <3> QED BY <2>1, <2>2, <2>3, <3>2, Suffix
  <2>5. LET walk == Append(SubSeq(trail, 1, at), u)
            over == IF Len(walk) > MaxTrail THEN Len(walk) - MaxTrail ELSE 0
        IN /\ at > 0 => trail[at] # u
           /\ trail' = SubSeq(walk, over + 1, Len(walk))
           /\ at' = Len(walk) - over
           /\ UNCHANGED <<dumped, historyWritable>>
    <3> HIDE DEF trail, at
    <3> QED BY <1>1, <1>2, <1>4, <2>1, <2>2, <2>4 DEF historyFile
  <2> QED BY <2>5, Zenon DEF Walked!Visit
<1>5. CASE UNCHANGED historyFile /\ PlaceMoves(w, k, v, j)
  <2>1. v = w /\ ((j = k - 1 /\ k > 1) \/ (j = k + 1 /\ k < Len(w)))
    BY <1>3, <1>5 DEF PlaceMoves
  <2>2. \/ at > 1 /\ at' = at - 1 /\ UNCHANGED <<trail, dumped, historyWritable>>
        \/ at < Len(trail) /\ at' = at + 1 /\ UNCHANGED <<trail, dumped, historyWritable>>
    <3> HIDE DEF trail, at
    <3> QED BY <1>1, <1>2, <1>5, <2>1 DEF historyFile
  <2> QED BY <2>2, Zenon DEF Walked!Back, Walked!Forward
<1> DEFINE last == IF historyWritable THEN trail ELSE dumped
<1>6. CASE StartMoves(v, j)
  <2>1. /\ dumped' = last /\ historyWritable' \in BOOLEAN
        /\ trail' = (IF historyWritable' THEN last ELSE <<>>) /\ at' = Len(trail')
    BY <1>2, <1>6 DEF StartMoves, Left
  <2> QED BY <2>1, Zenon DEF Walked!Restart, Walked!Last
<1>7. CASE dumped' = Left /\ historyWritable' = FALSE /\ v = <<>> /\ j = 0
  <2>1. dumped' = last /\ historyWritable' = FALSE /\ trail' = <<>> /\ at' = 0
    BY <1>2, <1>7 DEF Left
  <2> QED BY <2>1, Zenon DEF Walked!Forget, Walked!Last
<1>8. CASE UNCHANGED historyFile /\ v = w /\ j = k
  <2>1. UNCHANGED <<trail, at, dumped, historyWritable>>
    <3> HIDE DEF trail, at
    <3> QED BY <1>1, <1>2, <1>8 DEF historyFile
  <2> QED BY <2>1
<1> QED BY <1>4, <1>5, <1>6, <1>7, <1>8 DEF Moves

\* The entries and pointers of liste.cpp are a trail of pages with a place on
\* it, for any addresses and any limit.
THEOREM ListIsTrail ==
  ASSUME HistoryAssumption
  PROVE  Spec => ImplementsTrail
<1>1. Init => Walked!Init
  <2> SUFFICES ASSUME Init PROVE Walked!Init
    OBVIOUS
  <2>1. Now(<<>>, <<>>, 0)
    BY Start
  <2>2. Addresses(heap, history) = <<>> /\ Place(heap, history) = 0
    BY <2>1, Seen DEF Now
  <2>3. dumped = <<>> /\ historyWritable = TRUE
    BY DEF Init
  <2> QED BY <2>2, <2>3, Zenon DEF Walked!Init, Place
<1>2. ListInv /\ [Next]_vars =>
        [Walked!Visit \/ Walked!Back \/ Walked!Forward \/ Walked!Forget \/ Walked!Restart]_
          <<Addresses(heap, history),
            Len(From(heap, RewindHistory(heap, history))) - Len(From(heap, Prox(heap, history))),
            dumped, historyWritable>>
  <2> SUFFICES ASSUME ListInv, [Next]_vars
               PROVE  \/ Walked!Visit \/ Walked!Back \/ Walked!Forward \/ Walked!Forget \/ Walked!Restart
                      \/ UNCHANGED <<Addresses(heap, history),
                                     Len(From(heap, RewindHistory(heap, history)))
                                       - Len(From(heap, Prox(heap, history))), dumped, historyWritable>>
    BY Zenon
  <2>1. PICK q, w, k : Now(q, w, k)
    BY DEF ListInv
  <2>2. PICK p, v, j : Now(p, v, j)' /\ Moves(w, k, v, j)
    BY <2>1, EveryStep DEF ListInv
  <2> QED BY <2>1, <2>2, MovesRefine
<1> QED BY <1>1, <1>2, AlwaysList, PTL DEF Spec, ImplementsTrail, Walked!Spec

-----------------------------------------------------------------------------
(* Console: the screen, GX and the controllers.                            *)

CONSTANTS Pads, RumbleOn, RumbleRest, MaxRequests
VARIABLES
  main, gui, lock, guiReady, guiStop, vmode, xfb, gxReady, whichfb, next, pending, shown, copying,
  plugged, motor, wpad, todo, rumbleRequest, rumbleCount, muted, quiet, requests

Device == INSTANCE Console

Framing == {"pads", "draw", "rumble", "render", "copy", "wait"}
Stages == {"video", "framebuffers", "gx", "threads", "reset", "menu", "draw", "stop", "join",
           "motors", "gx off", "off"}

\* Who is where, who has the lock, and what is there to draw with.
ThreadsInv ==
  /\ main \in Stages /\ gui \in Framing \cup {"none", "top", "done"}
  /\ lock \in {"none", "main", "gui"}
  /\ lock = "gui" <=> gui \in Framing
  /\ lock = "main" <=> main = "draw"
  /\ gui \notin {"none", "done"} => main \in {"reset", "menu", "draw", "stop", "join"}
  /\ main \in {"video", "framebuffers", "gx", "threads"} => gui = "none"
  /\ main \in {"threads", "reset", "menu", "draw", "stop", "join", "motors", "gx off"} => gxReady /\ xfb
  /\ main = "gx" => xfb

\* Between frames the screen shows the framebuffer that was drawn last.
FramesInv ==
  /\ whichfb \in {0, 1}
  /\ main \in {"video", "framebuffers", "gx", "threads"} => whichfb = 0
  /\ next \in {whichfb, Device!NoBuffer}
  /\ gui \in {"copy", "wait"} => next = whichfb
  /\ gui = "copy" => pending # whichfb /\ shown # whichfb
  /\ gui # "copy" => pending \in {whichfb, Device!NoBuffer}
  /\ gui \notin {"copy", "wait"} => shown \in {whichfb, Device!NoBuffer}
  /\ gui = "wait" => pending = whichfb

CopyInv == copying <=> gui = "copy"

PadsInv ==
  /\ plugged \in SUBSET Pads /\ wpad \in SUBSET Pads /\ rumbleRequest \in SUBSET Pads
  /\ motor \in [Pads -> BOOLEAN]
  /\ todo \in [Pads -> {"begin", "on", "off", "count", "done"}]
  /\ rumbleCount \in [Pads -> Nat] /\ quiet \in [Pads -> Nat]

\* Of a remote: DoRumble of this frame is done, or not begun; has not looked;
\* has found a request; or none.
Settled(p) == gui \notin {"draw", "rumble"} \/ (gui = "rumble" /\ todo[p] = "done")
Polled(p) == gui = "draw" \/ (gui = "rumble" /\ todo[p] = "begin")
TurnedOn(p) == gui = "rumble" /\ todo[p] \in {"on", "count"}
TurnedOff(p) == gui = "rumble" /\ todo[p] = "off"
Ended == gui = "none" \/ main \in {"gx off", "off"}

\* The count runs ahead of the frames since the last request.
Rumbles(p) ==
  /\ motor[p] => p \in plugged /\ ~Ended
  /\ Settled(p) /\ motor[p] => rumbleCount[p] >= 1 /\ quiet[p] <= RumbleOn
  /\ Settled(p) /\ motor[p] /\ p \in rumbleRequest => quiet[p] < rumbleCount[p] /\ quiet[p] < RumbleOn
  /\ Polled(p) /\ motor[p] => quiet[p] <= RumbleOn + 1
  /\ Polled(p) /\ p \in rumbleRequest => quiet[p] <= rumbleCount[p] /\ quiet[p] <= RumbleOn
  /\ TurnedOn(p) => p \in rumbleRequest /\ quiet[p] <= rumbleCount[p] /\ rumbleCount[p] < RumbleOn
  /\ TurnedOff(p) /\ motor[p] => quiet[p] <= RumbleOn + 1

RumbleInv == \A p \in Pads : Rumbles(p)

LEMMA ThreadsStep == ThreadsInv /\ [Device!Next]_Device!vars => ThreadsInv'
<1> SUFFICES ASSUME ThreadsInv, [Device!Next]_Device!vars PROVE ThreadsInv'
  OBVIOUS
<1> USE DEF ThreadsInv, Stages, Framing, Device!Main, Device!Gui, Device!screenVars
<1>1. CASE Device!InitVideo \/ Device!AllocateFramebuffers \/ Device!InitGX
  BY <1>1 DEF Device!InitVideo, Device!AllocateFramebuffers, Device!InitGX
<1>2. CASE Device!InitGUIThreads \/ Device!ResetVideo_Menu
  BY <1>2 DEF Device!InitGUIThreads, Device!ResetVideo_Menu
<1>3. CASE Device!HaltGui \/ Device!TakeScreenshot
  BY <1>3 DEF Device!HaltGui, Device!TakeScreenshot
<1>4. CASE Device!ShutoffRumble \/ Device!MuteSound
  BY <1>4 DEF Device!ShutoffRumble, Device!MuteSound, Device!threadVars
<1>5. CASE Device!BeginFrame
  BY <1>5 DEF Device!BeginFrame
<1>6. CASE Device!UpdatePads \/ Device!Draw \/ Device!Update
  BY <1>6 DEF Device!UpdatePads, Device!Draw, Device!Update
<1>7. CASE Device!DoRumble
  <2>1. UNCHANGED <<main, gui, lock, gxReady, xfb>>
    BY <1>7 DEF Device!DoRumble, Device!SkipRumble, Device!TestRumble, Device!WPAD_Rumble,
                Device!CountRumble, Device!threadVars
  <2> QED BY <2>1
<1>8. CASE Device!Menu_Render \/ Device!Draw_VIDEO \/ Device!WaitVSync
  BY <1>8 DEF Device!Menu_Render, Device!Draw_VIDEO, Device!WaitVSync
<1>9. CASE Device!ExitApp \/ Device!StopGUIThreads \/ Device!JoinGUI
  BY <1>9 DEF Device!ExitApp, Device!StopGUIThreads, Device!JoinGUI
<1>10. CASE Device!LastShutoff \/ Device!StopGX
  BY <1>10 DEF Device!LastShutoff, Device!StopGX
<1>11. CASE Device!Retrace \/ \E p \in Pads : Device!Plug(p)
  BY <1>11 DEF Device!Retrace, Device!Plug, Device!threadVars
<1>12. CASE UNCHANGED Device!vars
  BY <1>12 DEF Device!vars, Device!threadVars
<1> QED BY <1>1, <1>2, <1>3, <1>4, <1>5, <1>6, <1>7, <1>8, <1>9, <1>10, <1>11, <1>12 DEF Device!Next


LEMMA CopyStep == ThreadsInv /\ CopyInv /\ [Device!Next]_Device!vars => CopyInv'
<1> SUFFICES ASSUME ThreadsInv, CopyInv, [Device!Next]_Device!vars PROVE CopyInv'
  OBVIOUS
<1>1. CASE UNCHANGED <<gui, copying>>
  BY <1>1 DEF CopyInv
<1>2. CASE ~(gui = "copy") /\ gui' # "copy" /\ UNCHANGED copying
  BY <1>2 DEF CopyInv
<1>3. CASE Device!Menu_Render
  BY <1>3, Zenon DEF CopyInv, Device!Menu_Render, Device!Gui
<1>4. CASE Device!Draw_VIDEO
  <2>1. copying' = FALSE /\ gui' # "copy"
    BY <1>4 DEF Device!Draw_VIDEO, Device!Gui
  <2> QED BY <2>1, Zenon DEF CopyInv
<1>5. CASE Device!InitVideo \/ Device!AllocateFramebuffers \/ Device!InitGX \/ Device!ResetVideo_Menu
           \/ Device!HaltGui \/ Device!TakeScreenshot \/ Device!ShutoffRumble \/ Device!MuteSound
  BY <1>5, <1>1 DEF Device!InitVideo, Device!AllocateFramebuffers, Device!InitGX, Device!ResetVideo_Menu,
    Device!HaltGui, Device!TakeScreenshot, Device!ShutoffRumble, Device!MuteSound, Device!Main,
    Device!screenVars, Device!threadVars
<1>6. CASE Device!ExitApp \/ Device!StopGUIThreads \/ Device!JoinGUI \/ Device!LastShutoff \/ Device!StopGX
           \/ Device!Retrace \/ \E p \in Pads : Device!Plug(p)
  BY <1>6, <1>1 DEF Device!ExitApp, Device!StopGUIThreads, Device!JoinGUI, Device!LastShutoff, Device!StopGX,
    Device!Retrace, Device!Plug, Device!Main, Device!screenVars, Device!threadVars
<1>7. CASE Device!DoRumble
  BY <1>7, <1>1 DEF Device!DoRumble, Device!SkipRumble, Device!TestRumble, Device!WPAD_Rumble,
    Device!CountRumble, Device!screenVars, Device!threadVars
<1>8. CASE Device!BeginFrame \/ Device!UpdatePads \/ Device!Draw \/ Device!Update \/ Device!WaitVSync
  BY <1>8, <1>2 DEF Device!BeginFrame, Device!UpdatePads, Device!Draw, Device!Update, Device!WaitVSync,
    Device!Gui, Device!screenVars
<1>9. CASE Device!InitGUIThreads
  <2>1. gui = "none" /\ gui' \in {"none", "top"} /\ UNCHANGED copying
    BY <1>9 DEF Device!InitGUIThreads, Device!screenVars, ThreadsInv
  <2> QED BY <2>1, <1>2
<1>10. CASE UNCHANGED Device!vars
  BY <1>10, <1>1 DEF Device!vars, Device!threadVars, Device!screenVars
<1> QED BY <1>3, <1>4, <1>5, <1>6, <1>7, <1>8, <1>9, <1>10 DEF Device!Next

LEMMA FramesStep == ThreadsInv /\ FramesInv /\ [Device!Next]_Device!vars => FramesInv'
<1> SUFFICES ASSUME ThreadsInv, FramesInv, [Device!Next]_Device!vars PROVE FramesInv'
  OBVIOUS
<1> USE DEF Framing, Stages, Device!NoBuffer
<1> DEFINE Early == {"video", "framebuffers", "gx", "threads"}
<1>1. CASE UNCHANGED <<gui, whichfb, next, pending, shown>> /\ (main' \in Early => main \in Early)
  BY <1>1 DEF FramesInv
<1>2. CASE Device!InitVideo \/ Device!InitGX \/ Device!ResetVideo_Menu \/ Device!HaltGui
           \/ Device!ShutoffRumble \/ Device!MuteSound
  BY <1>2, <1>1 DEF Device!InitVideo, Device!InitGX, Device!ResetVideo_Menu, Device!HaltGui,
    Device!ShutoffRumble, Device!MuteSound, Device!Main, Device!screenVars, Device!threadVars
<1>3. CASE Device!ExitApp \/ Device!StopGUIThreads \/ Device!JoinGUI \/ Device!LastShutoff \/ Device!StopGX
           \/ \E p \in Pads : Device!Plug(p)
  BY <1>3, <1>1 DEF Device!ExitApp, Device!StopGUIThreads, Device!JoinGUI, Device!LastShutoff, Device!StopGX,
    Device!Plug, Device!Main, Device!screenVars, Device!threadVars
<1>4. CASE Device!DoRumble
  BY <1>4, <1>1 DEF Device!DoRumble, Device!SkipRumble, Device!TestRumble, Device!WPAD_Rumble,
    Device!CountRumble, Device!screenVars, Device!threadVars
<1>5. CASE UNCHANGED <<main, whichfb, next, pending, shown>> /\ {gui, gui'} \cap {"copy", "wait"} = {}
  BY <1>5 DEF FramesInv
<1>6. CASE Device!BeginFrame \/ Device!UpdatePads \/ Device!Draw \/ Device!Update
  BY <1>6, <1>5 DEF Device!BeginFrame, Device!UpdatePads, Device!Draw, Device!Update, Device!Gui, Device!screenVars
<1>7. CASE Device!InitGUIThreads
  <2>1. UNCHANGED <<whichfb, next, pending, shown>> /\ main' \notin Early /\ gui = "none"
        /\ gui' \in {"none", "top"}
    BY <1>7 DEF Device!InitGUIThreads, Device!screenVars, ThreadsInv
  <2> QED BY <2>1 DEF FramesInv
<1>8. CASE Device!AllocateFramebuffers
  <2>1. main = "framebuffers" /\ UNCHANGED <<gui, whichfb>> /\ whichfb = 0 /\ gui \in {"none", "done"}
    BY <1>8 DEF Device!AllocateFramebuffers, Device!Main, ThreadsInv, FramesInv
  <2>2. CASE next' = 0 /\ pending' = 2 /\ shown' = 0
    BY <2>1, <2>2 DEF FramesInv
  <2>3. CASE UNCHANGED <<next, pending, shown>> /\ main' = "off"
    BY <2>1, <2>3 DEF FramesInv
  <2> QED BY <1>8, <2>2, <2>3 DEF Device!AllocateFramebuffers, Device!Main
<1>9. CASE Device!TakeScreenshot
  <2>1. UNCHANGED <<gui, whichfb, next, shown>> /\ pending' = next /\ main' = "menu" /\ gui \notin Framing
    BY <1>9 DEF Device!TakeScreenshot, ThreadsInv
  <2> QED BY <2>1 DEF FramesInv
<1>10. CASE Device!Menu_Render
  <2>1. gui = "render" /\ gui' = "copy" /\ whichfb' = 1 - whichfb /\ next' = whichfb'
        /\ UNCHANGED <<main, pending, shown>> /\ main \notin Early
    BY <1>10 DEF Device!Menu_Render, Device!Gui, ThreadsInv
  <2>2. whichfb \in {0, 1} /\ pending \in {whichfb, 2} /\ shown \in {whichfb, 2}
    BY <2>1 DEF FramesInv
  <2> QED BY <2>1, <2>2 DEF FramesInv
<1>11. CASE Device!Draw_VIDEO
  <2>1. gui = "copy" /\ gui' = "wait" /\ pending' = next /\ UNCHANGED <<main, whichfb, next, shown>>
    BY <1>11 DEF Device!Draw_VIDEO, Device!Gui
  <2> QED BY <2>1 DEF FramesInv
<1>12. CASE Device!WaitVSync
  <2>1. gui = "wait" /\ gui' = "top" /\ shown' = pending /\ UNCHANGED <<main, whichfb, next, pending>>
    BY <1>12 DEF Device!WaitVSync
  <2> QED BY <2>1 DEF FramesInv
<1>13. CASE Device!Retrace
  <2>1. shown' = pending /\ UNCHANGED <<gui, main, whichfb, next, pending>>
    BY <1>13 DEF Device!Retrace, Device!threadVars
  <2> QED BY <2>1 DEF FramesInv
<1>14. CASE UNCHANGED Device!vars
  BY <1>14, <1>1 DEF Device!vars, Device!threadVars, Device!screenVars
<1> QED BY <1>2, <1>3, <1>4, <1>6, <1>7, <1>8, <1>9, <1>10, <1>11, <1>12, <1>13, <1>14 DEF Device!Next

LEMMA PadsStep == Device!RumbleAssumption /\ PadsInv /\ [Device!Next]_Device!vars => PadsInv'
<1> SUFFICES ASSUME Device!RumbleAssumption, PadsInv, [Device!Next]_Device!vars PROVE PadsInv'
  OBVIOUS
<1> USE DEF Device!RumbleAssumption
<1>1. CASE UNCHANGED Device!padVars
  BY <1>1 DEF PadsInv, Device!padVars
<1>2. CASE Device!InitVideo \/ Device!AllocateFramebuffers \/ Device!InitGX \/ Device!InitGUIThreads
           \/ Device!ResetVideo_Menu \/ Device!HaltGui \/ Device!TakeScreenshot
  BY <1>2, <1>1 DEF Device!InitVideo, Device!AllocateFramebuffers, Device!InitGX, Device!InitGUIThreads,
    Device!ResetVideo_Menu, Device!HaltGui, Device!TakeScreenshot
<1>3. CASE Device!BeginFrame \/ Device!Menu_Render \/ Device!Draw_VIDEO \/ Device!WaitVSync \/ Device!ExitApp
           \/ Device!StopGUIThreads \/ Device!JoinGUI \/ Device!StopGX \/ Device!Retrace
  BY <1>3, <1>1 DEF Device!BeginFrame, Device!Menu_Render, Device!Draw_VIDEO, Device!WaitVSync, Device!ExitApp,
    Device!StopGUIThreads, Device!JoinGUI, Device!StopGX, Device!Retrace
<1>4. CASE Device!Shutoff
  BY <1>4 DEF Device!Shutoff, PadsInv
<1>5. CASE Device!ShutoffRumble \/ Device!LastShutoff
  BY <1>5, <1>4 DEF Device!ShutoffRumble, Device!LastShutoff
<1>6. CASE Device!MuteSound
  BY <1>6 DEF Device!MuteSound, PadsInv
<1>7. CASE Device!UpdatePads
  BY <1>7 DEF Device!UpdatePads, PadsInv
<1>8. CASE Device!Draw
  BY <1>8 DEF Device!Draw, PadsInv
<1>9. ASSUME NEW p \in Pads, Device!SkipRumble(p) PROVE PadsInv'
  BY <1>9 DEF Device!SkipRumble, PadsInv
<1>10. ASSUME NEW p \in Pads, Device!TestRumble(p) PROVE PadsInv'
  <2>1. CASE p \in rumbleRequest /\ rumbleCount[p] >= RumbleOn
    BY <1>10, <2>1 DEF Device!TestRumble, PadsInv
  <2>2. CASE ~(p \in rumbleRequest /\ rumbleCount[p] >= RumbleOn) /\ (p \in rumbleRequest \/ rumbleCount[p] = 0)
    BY <1>10, <2>2 DEF Device!TestRumble, PadsInv
  <2>3. CASE ~(p \in rumbleRequest) /\ rumbleCount[p] # 0
    <3>1. rumbleCount[p] - 1 \in Nat
      BY <2>3 DEF PadsInv
    <3>2. rumbleCount' = [rumbleCount EXCEPT ![p] = rumbleCount[p] - 1]
          /\ todo' = [todo EXCEPT ![p] = "off"] /\ UNCHANGED rumbleRequest
      BY <1>10, <2>3 DEF Device!TestRumble
    <3>3. UNCHANGED <<plugged, motor, wpad, quiet, requests>>
      BY <1>10 DEF Device!TestRumble
    <3> QED BY <3>1, <3>2, <3>3 DEF PadsInv
  <2> QED BY <2>1, <2>2, <2>3
<1>11. ASSUME NEW p \in Pads, Device!WPAD_Rumble(p) PROVE PadsInv'
  <2>1. motor' \in [Pads -> BOOLEAN]
    BY <1>11 DEF Device!WPAD_Rumble, PadsInv
  <2>2. todo' \in [Pads -> {"begin", "on", "off", "count", "done"}]
    BY <1>11 DEF Device!WPAD_Rumble, PadsInv
  <2>3. UNCHANGED <<plugged, wpad, rumbleRequest, rumbleCount, quiet, requests>>
    BY <1>11 DEF Device!WPAD_Rumble
  <2> QED BY <2>1, <2>2, <2>3 DEF PadsInv
<1>12. ASSUME NEW p \in Pads, Device!CountRumble(p) PROVE PadsInv'
  BY <1>12 DEF Device!CountRumble, PadsInv
<1>13. CASE Device!Update
  BY <1>13 DEF Device!Update, PadsInv
<1>14. ASSUME NEW p \in Pads, Device!Plug(p) PROVE PadsInv'
  BY <1>14 DEF Device!Plug, PadsInv
<1>15. CASE UNCHANGED Device!vars
  BY <1>15, <1>1 DEF Device!vars
<1>16. CASE Device!DoRumble
  BY <1>16, <1>9, <1>10, <1>11, <1>12 DEF Device!DoRumble
<1>17. CASE \E p \in Pads : Device!Plug(p)
  BY <1>17, <1>14
<1> QED BY <1>2, <1>3, <1>5, <1>6, <1>7, <1>8, <1>13, <1>15, <1>16, <1>17 DEF Device!Next

\* A step that leaves the remotes alone, and does not open or close DoRumble.
LEMMA RumblesOn ==
  ASSUME ThreadsInv, NEW p \in Pads, Rumbles(p), UNCHANGED Device!padVars,
         UNCHANGED gui \/ (gui' \in Framing \cup {"top", "done"} /\ gui \in Framing \cup {"top", "done"}
                             /\ {gui, gui'} \cap {"draw", "rumble"} = {}),
         main' \in {"gx off", "off"} => main \in {"gx off", "off"} \/ gui = "none"
  PROVE Rumbles(p)'
<1>1. UNCHANGED <<plugged, motor, todo, rumbleRequest, rumbleCount, quiet>>
  BY DEF Device!padVars
<1>2. CASE UNCHANGED gui
  BY <1>1, <1>2 DEF Rumbles, Settled, Polled, TurnedOn, TurnedOff, Ended
<1>3. CASE gui' \in Framing \cup {"top", "done"} /\ gui \in Framing \cup {"top", "done"}
             /\ {gui, gui'} \cap {"draw", "rumble"} = {}
  <2>1. gui \notin {"draw", "rumble", "none"} /\ gui' \notin {"draw", "rumble", "none"}
    BY <1>3 DEF Framing
  <2> QED BY <1>1, <2>1 DEF Rumbles, Settled, Polled, TurnedOn, TurnedOff, Ended
<1> QED BY <1>2, <1>3

LEMMA RumbleStep ==
  ASSUME Device!RumbleAssumption, ThreadsInv, PadsInv, PadsInv', RumbleInv, [Device!Next]_Device!vars
  PROVE RumbleInv'
<1> SUFFICES ASSUME NEW p \in Pads PROVE Rumbles(p)'
  BY DEF RumbleInv
<1>0. Rumbles(p)
  BY DEF RumbleInv
<1>t. RumbleOn \in Nat /\ RumbleOn >= 1 /\ RumbleRest \in Nat /\ RumbleRest >= 1
      /\ motor[p] \in BOOLEAN /\ rumbleCount[p] \in Nat /\ quiet[p] \in Nat
  BY DEF Device!RumbleAssumption, PadsInv
<1>u. motor'[p] \in BOOLEAN /\ rumbleCount'[p] \in Nat /\ quiet'[p] \in Nat
  BY DEF PadsInv
<1>1. CASE Device!InitVideo \/ Device!AllocateFramebuffers \/ Device!InitGX
           \/ Device!ResetVideo_Menu \/ Device!HaltGui \/ Device!TakeScreenshot
  <2>1. UNCHANGED Device!padVars /\ UNCHANGED gui /\ (main' \in {"gx off", "off"} => gui = "none")
    BY <1>1 DEF Device!InitVideo, Device!AllocateFramebuffers, Device!InitGX, Device!ResetVideo_Menu,
       Device!HaltGui, Device!TakeScreenshot, Device!Main, ThreadsInv
  <2> QED BY <1>0, <2>1, RumblesOn
<1>2. CASE Device!InitGUIThreads
  <2>1. UNCHANGED <<plugged, motor, todo, rumbleRequest, rumbleCount, quiet>> /\ gui = "none"
        /\ gui' \in {"none", "top"}
    BY <1>2 DEF Device!InitGUIThreads, Device!padVars, ThreadsInv
  <2> QED BY <1>0, <2>1 DEF Rumbles, Settled, Polled, TurnedOn, TurnedOff, Ended
<1>3. CASE Device!BeginFrame \/ Device!Menu_Render \/ Device!Draw_VIDEO \/ Device!WaitVSync
  <2>1. UNCHANGED Device!padVars /\ UNCHANGED main
        /\ gui' \in {"top", "pads", "copy", "wait", "done"} /\ gui \in {"top", "render", "copy", "wait"}
    BY <1>3 DEF Device!BeginFrame, Device!Menu_Render, Device!Draw_VIDEO, Device!WaitVSync, Device!Gui
  <2> QED BY <1>0, <2>1, RumblesOn DEF Framing
<1>4. CASE Device!ExitApp \/ Device!StopGUIThreads \/ Device!JoinGUI \/ Device!StopGX \/ Device!Retrace
  <2>1. UNCHANGED Device!padVars /\ UNCHANGED gui
        /\ (main' \in {"gx off", "off"} => main \in {"gx off", "off"})
    BY <1>4 DEF Device!ExitApp, Device!StopGUIThreads, Device!JoinGUI, Device!StopGX, Device!Retrace,
       Device!Main, Device!threadVars
  <2> QED BY <1>0, <2>1, RumblesOn
<1>5. CASE Device!MuteSound \/ UNCHANGED Device!vars
  <2>1. UNCHANGED <<plugged, motor, todo, rumbleRequest, rumbleCount, quiet, gui, main>>
    BY <1>5 DEF Device!MuteSound, Device!vars, Device!threadVars, Device!padVars
  <2> QED BY <1>0, <2>1 DEF Rumbles, Settled, Polled, TurnedOn, TurnedOff, Ended
<1>6. CASE Device!ShutoffRumble \/ Device!LastShutoff
  <2>1. UNCHANGED <<plugged, todo, rumbleRequest, gui>>
        /\ motor'[p] = (motor[p] /\ p \notin plugged) /\ rumbleCount'[p] = 0 /\ quiet'[p] = 0
    BY <1>6 DEF Device!ShutoffRumble, Device!LastShutoff, Device!Shutoff, Device!threadVars, Device!Main
  <2>2. motor'[p] = FALSE
    BY <1>0, <2>1, Zenon DEF Rumbles
  <2>3. TurnedOn(p)' => p \in rumbleRequest'
    BY <1>0, <2>1 DEF Rumbles, TurnedOn
  <2> QED BY <1>t, <1>u, <2>1, <2>2, <2>3 DEF Rumbles
<1>7. CASE Device!UpdatePads
  <2>1. gui = "pads" /\ gui' = "draw" /\ UNCHANGED <<main, plugged, motor, todo>>
        /\ rumbleRequest' = rumbleRequest \cap plugged
        /\ rumbleCount'[p] = (IF p \in plugged THEN rumbleCount[p] ELSE 0)
        /\ quiet'[p] = (IF motor[p] THEN quiet[p] + 1 ELSE 0)
    BY <1>7 DEF Device!UpdatePads, Device!Gui
  <2>2. Settled(p) /\ Polled(p)' /\ ~Settled(p)' /\ ~TurnedOn(p)' /\ ~TurnedOff(p)'
    BY <2>1 DEF Settled, Polled, TurnedOn, TurnedOff
  <2>6. ~Ended'
    BY <2>1 DEF Ended, ThreadsInv
  <2>3. (motor[p] => p \in plugged) /\ (motor[p] => quiet[p] <= RumbleOn /\
          (p \in rumbleRequest => quiet[p] < rumbleCount[p] /\ quiet[p] < RumbleOn))
    BY <1>0, <2>2 DEF Rumbles
  <2>4. CASE motor[p] = TRUE
    <3>1. motor'[p] = TRUE /\ p \in plugged' /\ quiet'[p] = quiet[p] + 1 /\ rumbleCount'[p] = rumbleCount[p]
          /\ quiet[p] <= RumbleOn
          /\ (p \in rumbleRequest' => quiet[p] < rumbleCount[p] /\ quiet[p] < RumbleOn)
      BY <2>1, <2>3, <2>4
    <3>2. quiet'[p] <= RumbleOn + 1 /\ (p \in rumbleRequest' => quiet'[p] <= rumbleCount'[p] /\ quiet'[p] <= RumbleOn)
      BY <1>t, <3>1
    <3> QED BY <2>2, <2>6, <3>1, <3>2 DEF Rumbles
  <2>5. CASE motor[p] = FALSE
    <3>1. motor'[p] = FALSE /\ quiet'[p] = 0
      BY <2>1, <2>5
    <3> QED BY <1>t, <1>u, <2>2, <3>1 DEF Rumbles
  <2> QED BY <1>t, <2>4, <2>5
<1>8. CASE Device!Draw
  <2>1. gui = "draw" /\ gui' = "rumble" /\ todo'[p] = "begin"
        /\ UNCHANGED <<main, plugged, motor, rumbleRequest, rumbleCount, quiet>>
    BY <1>8 DEF Device!Draw, Device!Gui
  <2>2. main \notin {"gx off", "off"}
    BY <2>1 DEF ThreadsInv
  <2> QED BY <1>0, <2>1, <2>2 DEF Rumbles, Settled, Polled, TurnedOn, TurnedOff, Ended
<1>9. ASSUME NEW q \in Pads, q # p,
             Device!SkipRumble(q) \/ Device!TestRumble(q) \/ Device!WPAD_Rumble(q) \/ Device!CountRumble(q)
      PROVE Rumbles(p)'
  <2>1. UNCHANGED <<main, gui, plugged, quiet>> /\ motor'[p] = motor[p] /\ todo'[p] = todo[p]
        /\ rumbleCount'[p] = rumbleCount[p] /\ (p \in rumbleRequest' <=> p \in rumbleRequest)
    BY <1>9 DEF Device!SkipRumble, Device!TestRumble, Device!WPAD_Rumble, Device!CountRumble,
       Device!threadVars, PadsInv
  <2> QED BY <1>0, <2>1 DEF Rumbles, Settled, Polled, TurnedOn, TurnedOff, Ended
<1>10. ASSUME Device!SkipRumble(p) PROVE Rumbles(p)'
  <2>1. gui = "rumble" /\ todo[p] = "begin" /\ todo'[p] = "done"
        /\ UNCHANGED <<main, gui, plugged, rumbleRequest, rumbleCount, quiet>>
    BY <1>10 DEF Device!SkipRumble, Device!threadVars, PadsInv
  <2>2. motor'[p] = FALSE
    <3>1. CASE p \notin plugged /\ UNCHANGED motor
      <4>1. motor[p] = FALSE
        BY <1>0, <1>t, <3>1 DEF Rumbles
      <4> QED BY <3>1, <4>1
    <3>2. CASE motor' = [motor EXCEPT ![p] = FALSE]
      BY <3>2 DEF PadsInv
    <3> QED BY <1>10, <3>1, <3>2 DEF Device!SkipRumble
  <2> QED BY <1>0, <2>1, <2>2 DEF Rumbles, Settled, Polled, TurnedOn, TurnedOff, Ended
<1>11. ASSUME Device!TestRumble(p) PROVE Rumbles(p)'
  <2>1. gui = "rumble" /\ todo[p] = "begin" /\ p \in plugged
        /\ UNCHANGED <<main, gui, plugged, motor, quiet>> /\ main \notin {"gx off", "off"}
    BY <1>11 DEF Device!TestRumble, Device!threadVars, ThreadsInv
  <2>2. Polled(p)
    BY <2>1 DEF Polled
  <2>3. (motor[p] => quiet[p] <= RumbleOn + 1)
        /\ (p \in rumbleRequest => quiet[p] <= rumbleCount[p] /\ quiet[p] <= RumbleOn)
    BY <1>0, <2>2 DEF Rumbles
  <2>4. CASE p \in rumbleRequest /\ rumbleCount[p] >= RumbleOn
    <3>1. rumbleCount'[p] = RumbleRest /\ p \notin rumbleRequest' /\ todo'[p] = "done"
      BY <1>11, <2>4 DEF Device!TestRumble, PadsInv
    <3> QED BY <1>t, <1>u, <2>1, <2>3, <2>4, <3>1 DEF Rumbles, Settled, Polled, TurnedOn, TurnedOff, Ended
  <2>5. CASE p \in rumbleRequest /\ ~(rumbleCount[p] >= RumbleOn)
    <3>1. UNCHANGED <<rumbleCount, rumbleRequest>> /\ todo'[p] = "on"
      BY <1>11, <2>5 DEF Device!TestRumble, PadsInv
    <3>2. TurnedOn(p)' /\ ~Settled(p)' /\ ~Polled(p)' /\ ~TurnedOff(p)' /\ ~Ended'
      BY <2>1, <3>1 DEF TurnedOn, Settled, Polled, TurnedOff, Ended
    <3>4. quiet[p] <= rumbleCount[p] /\ rumbleCount[p] < RumbleOn
      BY <1>t, <2>3, <2>5
    <3>3. p \in rumbleRequest' /\ p \in plugged' /\ quiet'[p] <= rumbleCount'[p] /\ rumbleCount'[p] < RumbleOn
      BY <2>1, <2>5, <3>1, <3>4
    <3> QED BY <3>2, <3>3 DEF Rumbles
  <2>6. CASE p \notin rumbleRequest
    <3>1. UNCHANGED rumbleRequest /\ todo'[p] = "off"
      BY <1>11, <2>6 DEF Device!TestRumble, PadsInv
    <3> QED BY <1>t, <1>u, <2>1, <2>3, <2>6, <3>1 DEF Rumbles, Settled, Polled, TurnedOn, TurnedOff, Ended
  <2> QED BY <2>4, <2>5, <2>6
<1>12. ASSUME Device!WPAD_Rumble(p) PROVE Rumbles(p)'
  <2>1. gui = "rumble" /\ UNCHANGED <<main, gui, plugged, rumbleRequest, rumbleCount, quiet>>
        /\ main \notin {"gx off", "off"}
    BY <1>12 DEF Device!WPAD_Rumble, Device!threadVars, ThreadsInv
  <2>2. CASE todo[p] = "on"
    <3>1. todo'[p] = "count" /\ motor'[p] = (p \in plugged)
      BY <1>12, <2>2 DEF Device!WPAD_Rumble, PadsInv
    <3>2. p \in rumbleRequest /\ quiet[p] <= rumbleCount[p] /\ rumbleCount[p] < RumbleOn
      BY <1>0, <2>1, <2>2 DEF Rumbles, TurnedOn
    <3>3. motor'[p] => p \in plugged'
      BY <2>1, <3>1, Zenon
    <3> QED BY <1>0, <2>1, <3>1, <3>2, <3>3 DEF Rumbles, Settled, Polled, TurnedOn, TurnedOff, Ended
  <2>3. CASE todo[p] = "off"
    <3>1. todo'[p] = "done" /\ motor'[p] = FALSE
      BY <1>12, <2>3 DEF Device!WPAD_Rumble, PadsInv
    <3> QED BY <1>0, <2>1, <3>1 DEF Rumbles, Settled, Polled, TurnedOn, TurnedOff, Ended
  <2> QED BY <1>12, <2>2, <2>3 DEF Device!WPAD_Rumble
<1>13. ASSUME Device!CountRumble(p) PROVE Rumbles(p)'
  <2>1. gui = "rumble" /\ todo[p] = "count" /\ todo'[p] = "done" /\ rumbleCount'[p] = rumbleCount[p] + 1
        /\ UNCHANGED <<main, gui, plugged, motor, rumbleRequest, quiet>>
    BY <1>13 DEF Device!CountRumble, Device!threadVars, PadsInv
  <2>2. p \in rumbleRequest /\ quiet[p] <= rumbleCount[p] /\ rumbleCount[p] < RumbleOn
    BY <1>0, <2>1 DEF Rumbles, TurnedOn
  <2>3. ~Ended' /\ ~Polled(p)' /\ ~TurnedOn(p)' /\ ~TurnedOff(p)'
    BY <2>1 DEF Ended, Polled, TurnedOn, TurnedOff, ThreadsInv
  <2>4. rumbleCount'[p] >= 1 /\ quiet'[p] <= RumbleOn /\ quiet'[p] < rumbleCount'[p] /\ quiet'[p] < RumbleOn
    BY <1>t, <2>1, <2>2
  <2>5. motor'[p] => p \in plugged'
    BY <1>0, <2>1 DEF Rumbles
  <2> QED BY <2>3, <2>4, <2>5 DEF Rumbles
<1>14. CASE Device!DoRumble
  <2> PICK q \in Pads :
        Device!SkipRumble(q) \/ Device!TestRumble(q) \/ Device!WPAD_Rumble(q) \/ Device!CountRumble(q)
    BY <1>14 DEF Device!DoRumble
  <2> QED BY <1>9, <1>10, <1>11, <1>12, <1>13
<1>15. CASE Device!Update
  <2>1. gui = "rumble" /\ todo[p] = "done" /\ gui' = "render"
        /\ UNCHANGED <<main, plugged, motor, todo, rumbleCount>>
        /\ (quiet'[p] = 0 \/ (quiet'[p] = quiet[p] /\ (p \in rumbleRequest' => p \in rumbleRequest)))
    BY <1>15 DEF Device!Update, Device!Gui
  <2>2. Settled(p) /\ ~Ended' /\ ~Polled(p)' /\ ~TurnedOn(p)' /\ ~TurnedOff(p)'
    BY <2>1 DEF Settled, Ended, Polled, TurnedOn, TurnedOff, ThreadsInv
  <2>3. motor'[p] => /\ p \in plugged' /\ rumbleCount[p] >= 1 /\ quiet[p] <= RumbleOn
                     /\ p \in rumbleRequest => quiet[p] < rumbleCount[p] /\ quiet[p] < RumbleOn
    BY <1>0, <2>1, <2>2 DEF Rumbles
  <2>4. motor'[p] => /\ rumbleCount'[p] >= 1 /\ quiet'[p] <= RumbleOn
                     /\ p \in rumbleRequest' => quiet'[p] < rumbleCount'[p] /\ quiet'[p] < RumbleOn
    BY <1>t, <2>1, <2>3
  <2> QED BY <2>2, <2>3, <2>4 DEF Rumbles
<1>16. ASSUME NEW q \in Pads, Device!Plug(q) PROVE Rumbles(p)'
  <2>1. UNCHANGED <<main, gui, todo, rumbleRequest, rumbleCount, quiet>>
    BY <1>16 DEF Device!Plug, Device!threadVars
  <2>2. CASE q = p
    <3>1. motor'[p] = FALSE
      BY <1>16, <2>2 DEF Device!Plug, PadsInv
    <3> QED BY <1>0, <2>1, <3>1 DEF Rumbles, Settled, Polled, TurnedOn, TurnedOff, Ended
  <2>3. CASE q # p
    <3>1. motor'[p] = motor[p] /\ (p \in plugged' <=> p \in plugged)
      BY <1>16, <2>3 DEF Device!Plug, PadsInv
    <3> QED BY <1>0, <2>1, <3>1 DEF Rumbles, Settled, Polled, TurnedOn, TurnedOff, Ended
  <2> QED BY <2>2, <2>3
<1> QED BY <1>1, <1>2, <1>3, <1>4, <1>5, <1>6, <1>7, <1>8, <1>14, <1>15, <1>16 DEF Device!Next

ConsoleInv == ThreadsInv /\ CopyInv /\ FramesInv /\ PadsInv /\ RumbleInv

\* GX and the framebuffers are there whenever they are drawn with, no copy is
\* made into the framebuffer on the screen, and no motor outlasts its request.
THEOREM ConsoleRests == ASSUME Device!RumbleAssumption PROVE Device!Spec => []Device!ConsoleAtRest
<1>1. Device!Init => ConsoleInv
  <2> SUFFICES ASSUME Device!Init PROVE ConsoleInv
    OBVIOUS
  <2>1. ThreadsInv /\ PadsInv
    BY DEF Device!Init, ThreadsInv, Framing, Stages, PadsInv
  <2>2. CopyInv
    <3>1. copying = FALSE /\ gui # "copy"
      BY DEF Device!Init
    <3> QED BY <3>1, Zenon DEF CopyInv
  <2>3. FramesInv
    BY DEF Device!Init, FramesInv, Device!NoBuffer
  <2>4. RumbleInv
    BY DEF Device!Init, RumbleInv, Rumbles, Settled, Polled, TurnedOn, TurnedOff, Ended
  <2> QED BY <2>1, <2>2, <2>3, <2>4 DEF ConsoleInv
<1>2. ConsoleInv /\ [Device!Next]_Device!vars => ConsoleInv'
  BY ThreadsStep, CopyStep, FramesStep, PadsStep, RumbleStep DEF ConsoleInv
<1>3. ConsoleInv => Device!ConsoleAtRest
  <2> SUFFICES ASSUME ConsoleInv PROVE Device!ConsoleAtRest
    OBVIOUS
  <2>1. gui \in {"draw", "rumble", "render", "copy"} \/ main \in {"reset", "draw"} => gxReady /\ xfb
    BY DEF ConsoleInv, ThreadsInv, Framing
  <2>2. copying => whichfb # shown
    BY Zenon DEF ConsoleInv, CopyInv, FramesInv
  <2>3. ASSUME NEW p \in Pads, motor[p] PROVE quiet[p] <= RumbleOn + 1
    <3>1. quiet[p] \in Nat /\ RumbleOn \in Nat
      BY DEF ConsoleInv, PadsInv, Device!RumbleAssumption
    <3>2. Rumbles(p) /\ todo[p] \in {"begin", "on", "off", "count", "done"}
      BY DEF ConsoleInv, PadsInv, RumbleInv
    <3>3. rumbleCount[p] \in Nat
      BY DEF ConsoleInv, PadsInv
    <3>4. Settled(p) \/ Polled(p) \/ TurnedOn(p) \/ TurnedOff(p)
      BY <3>2 DEF Settled, Polled, TurnedOn, TurnedOff
    <3> QED BY <2>3, <3>1, <3>2, <3>3, <3>4 DEF Rumbles
  <2>4. main \in {"gx off", "off"} => \A p \in Pads : ~motor[p]
    BY DEF ConsoleInv, RumbleInv, Rumbles, Ended
  <2> QED BY <2>1, <2>2, <2>3, <2>4 DEF Device!ConsoleAtRest
<1> QED BY <1>1, <1>2, <1>3, PTL DEF Device!Spec

-----------------------------------------------------------------------------
(* UserFiles: a file of the user is replaced whole or not at all.           *)

CONSTANTS Typed, Types, MaxSaves
VARIABLES pc, path, file, shot, mine, told, newest

Keep == INSTANCE UserFiles WITH f <- file, last <- newest

\* From the check of its bytes to the rename the pending file is the new
\* generation, and a name that is there is never a part of one.
Staged ==
  /\ file = [live |-> file.live, new |-> file.new, bak |-> file.bak]
  /\ file.live.kind \notin {"stub", "torn"}
  /\ pc \in {"stat", "statBackup", "backup", "publish"} => file.new = Keep!Whole(mine)

\* What a step may do to the entries.
Entry(live, new, bak) == file' = [live |-> live, new |-> new, bak |-> bak]

LEMMA Renamed ==
  ASSUME Staged
  PROVE  /\ Keep!Rename(file, "live", "bak") = [live |-> Keep!None, new |-> file.new, bak |-> file.live]
         /\ Keep!Rename(file, "new", "live") = [live |-> file.new, new |-> Keep!None, bak |-> file.bak]
<1> DEFINE l == file.live  n == file.new  b == file.bak
<1>1. file = [live |-> l, new |-> n, bak |-> b]
  BY DEF Staged
<1> HIDE DEF l, n, b
<1>2. [file EXCEPT !["bak"] = file["live"], !["live"] = Keep!None]
        = [live |-> Keep!None, new |-> n, bak |-> l]
  BY <1>1
<1>3. [file EXCEPT !["live"] = file["new"], !["new"] = Keep!None]
        = [live |-> n, new |-> Keep!None, bak |-> b]
  BY <1>1
<1> QED BY <1>2, <1>3 DEF Keep!Rename, l, n, b

\* Every step keeps the files, and what is staged.
LEMMA KeepStep ==
  ASSUME Staged, [Keep!Next]_Keep!vars
  PROVE  Staged' /\ [Keep!FilesKept]_Keep!vars
<1> DEFINE l == file.live  n == file.new  b == file.bak
<1>0. file = [live |-> l, new |-> n, bak |-> b] /\ l.kind \notin {"stub", "torn"}
  BY DEF Staged
<1> USE DEF Keep!None, Keep!Folder, Keep!Stub, Keep!Torn, Keep!Whole, Keep!IsWhole, Keep!IsRegular, Keep!Exists
\* The entries stay, or the pending one changes.
<1>1. ASSUME Entry(l, file'.new, b), ~(told' = "saved" /\ told # "saved"),
             pc' \in {"stat", "statBackup", "backup", "publish"} => file'.new = Keep!Whole(mine')
      PROVE  Staged' /\ Keep!FilesKept
  BY <1>0, <1>1 DEF Entry, Staged, Keep!FilesKept, Keep!Held
<1>2. ASSUME UNCHANGED file, ~(told' = "saved" /\ told # "saved"),
             pc' \in {"stat", "statBackup", "backup", "publish"} =>
               pc \in {"stat", "statBackup", "backup", "publish"} /\ mine' = mine
      PROVE  Staged' /\ Keep!FilesKept
  BY <1>0, <1>2 DEF Staged, Keep!FilesKept, Keep!Held
<1>3. CASE Keep!Choose \/ Keep!CheckFile \/ Keep!WindowPrompt \/ Keep!TakeScreenshot
  BY <1>2, <1>3 DEF Keep!Choose, Keep!CheckFile, Keep!WindowPrompt, Keep!TakeScreenshot, Keep!GoTo, Keep!Tell
<1>4. CASE Keep!Stat \/ Keep!StatBackup \/ Keep!PowerOff
  BY <1>2, <1>4 DEF Keep!Stat, Keep!StatBackup, Keep!PowerOff, Keep!GoTo, Keep!Tell
<1>5. CASE Keep!Open
  <2>1. CASE UNCHANGED file
    BY <1>2, <1>5, <2>1 DEF Keep!Open, Keep!GoTo, Keep!Tell
  <2>2. CASE file' = [file EXCEPT !.new = Keep!Stub(mine)]
    <3>1. Entry(l, file'.new, b)
      BY <1>0, <2>2 DEF Entry
    <3> QED BY <1>1, <1>5, <2>2, <3>1 DEF Keep!Open, Keep!GoTo, Keep!Tell
  <2> QED BY <1>5, <2>1, <2>2 DEF Keep!Open, Keep!Put
<1>6. CASE Keep!writeStreamAndClose
  <2>1. CASE file' = [file EXCEPT !.new = Keep!Whole(mine)] /\ Keep!GoTo("stat")
    <3>1. Entry(l, Keep!Whole(mine), b)
      BY <1>0, <2>1 DEF Entry
    <3>2. file'.new = Keep!Whole(mine)
      BY <3>1 DEF Entry
    <3> QED BY <1>1, <1>6, <2>1, <3>1, <3>2 DEF Keep!writeStreamAndClose, Keep!GoTo
  <2>2. CASE file' = [file EXCEPT !.new = Keep!Torn(mine)] /\ Keep!GoTo("remove")
    <3>1. Entry(l, file'.new, b)
      BY <1>0, <2>2 DEF Entry
    <3> QED BY <1>1, <1>6, <2>2, <3>1 DEF Keep!writeStreamAndClose, Keep!GoTo
  <2> QED BY <1>6, <2>1, <2>2 DEF Keep!writeStreamAndClose, Keep!Put
<1>7. CASE Keep!Remove
  <2>1. CASE UNCHANGED file
    BY <1>2, <1>7, <2>1 DEF Keep!Remove, Keep!Tell
  <2>2. CASE file' = [file EXCEPT !.new = Keep!None]
    <3>1. Entry(l, file'.new, b)
      BY <1>0, <2>2 DEF Entry
    <3> QED BY <1>1, <1>7, <2>2, <3>1 DEF Keep!Remove, Keep!Tell
  <2> QED BY <1>7, <2>1, <2>2 DEF Keep!Remove, Keep!Put
\* The live file becomes the backup.
<1>8. ASSUME ~(b.kind # "none"), file' = Keep!Rename(file, "live", "bak"),
             ~(told' = "saved" /\ told # "saved"),
             pc' \in {"stat", "statBackup", "backup", "publish"} => file.new = Keep!Whole(mine')
      PROVE  Staged' /\ Keep!FilesKept
  <2>1. Entry(Keep!None, n, l)
    BY <1>8, Renamed DEF Entry
  <2> QED BY <1>0, <1>8, <2>1 DEF Entry, Staged, Keep!FilesKept, Keep!Held
<1>9. CASE Keep!Backup
  <2>1. CASE Keep!Exists(file.live) /\ ~Keep!Exists(file.bak) /\ Keep!Put(Keep!Rename(file, "live", "bak"))
             /\ Keep!GoTo("publish")
    BY <1>8, <1>9, <2>1 DEF Keep!Backup, Keep!Put, Keep!GoTo, Staged
  <2>2. CASE UNCHANGED file /\ Keep!Tell("failed")
    BY <1>2, <1>9, <2>2 DEF Keep!Backup, Keep!Tell
  <2> QED BY <1>9, <2>1, <2>2 DEF Keep!Backup
<1>10. CASE Keep!DownloadDisplaces
  BY <1>8, <1>10 DEF Keep!DownloadDisplaces, Keep!Put, Staged
\* A name that is free becomes a whole file.
<1>11. CASE Keep!Publish
  <2>1. CASE ~Keep!Exists(file.live) /\ Keep!Put(Keep!Rename(file, "new", "live")) /\ Keep!Tell("saved")
    <3>1. n = Keep!Whole(mine) /\ mine' = mine
      BY <1>11 DEF Keep!Publish, Staged
    <3>2. Entry(n, Keep!None, b)
      BY <2>1, Renamed DEF Entry, Keep!Put
    <3> QED BY <1>0, <2>1, <3>1, <3>2 DEF Entry, Staged, Keep!FilesKept, Keep!Held, Keep!Tell
  <2>2. CASE UNCHANGED file /\ Keep!Tell("failed")
    BY <1>2, <1>11, <2>2 DEF Keep!Publish, Keep!Tell
  <2> QED BY <1>11, <2>1, <2>2 DEF Keep!Publish
<1>12. CASE Keep!DownloadLands
  <2>1. Entry(Keep!Whole(newest + 1), n, b)
    BY <1>0, <1>12 DEF Keep!DownloadLands, Keep!Put, Entry
  <2> QED BY <1>0, <1>12, <2>1 DEF Keep!DownloadLands, Entry, Staged, Keep!FilesKept, Keep!Held
\* The user's own: the backup may go, while nothing is being saved.
<1>13. CASE Keep!Tidy
  <2>1. Entry(l, Keep!None, b) \/ Entry(l, n, Keep!None)
    <3> PICK e \in {"new", "bak"} : file' = [file EXCEPT ![e] = Keep!None]
      BY <1>13 DEF Keep!Tidy, Keep!Put
    <3>1. CASE e = "new"
      BY <1>0, <3>1 DEF Entry
    <3>2. CASE e = "bak"
      BY <1>0, <3>2 DEF Entry
    <3> QED BY <3>1, <3>2
  <2>2. file'.live = l /\ file' = [live |-> file'.live, new |-> file'.new, bak |-> file'.bak]
    <3> HIDE DEF l, n, b
    <3> QED BY <2>1 DEF Entry
  <2>3. pc = "shown" /\ pc' = "shown" /\ told' = ""
    BY <1>13 DEF Keep!Tidy
  <2> QED BY <1>0, <2>2, <2>3 DEF Staged, Keep!FilesKept, Keep!Held
<1>14. CASE UNCHANGED Keep!vars
  BY <1>14 DEF Keep!vars, Staged
<1> QED BY <1>3, <1>4, <1>5, <1>6, <1>7, <1>9, <1>10, <1>11, <1>12, <1>13, <1>14
        DEF Keep!Next, Keep!Save

\* A whole file under a name the user saves to stays whole there or as its
\* backup, whichever step fails and whatever a download does to the name.
THEOREM FilesStay == Keep!Spec => Keep!SavesKeepFiles
<1>1. Keep!Init => Staged
  <2> SUFFICES ASSUME Keep!Init PROVE Staged
    OBVIOUS
  <2> PICK l \in {Keep!None, Keep!Folder, Keep!Whole(1)}, b \in {Keep!None, Keep!Whole(2)} :
        file = [live |-> l, new |-> Keep!None, bak |-> b]
    BY DEF Keep!Init
  <2>1. file = [live |-> file.live, new |-> file.new, bak |-> file.bak] /\ file.live = l /\ pc = "shown"
    BY DEF Keep!Init
  <2>2. l.kind \notin {"stub", "torn"}
    BY DEF Keep!None, Keep!Folder, Keep!Whole
  <2> QED BY <2>1, <2>2 DEF Staged
<1>2. Staged /\ [Keep!Next]_Keep!vars => Staged' /\ [Keep!FilesKept]_Keep!vars
  BY KeepStep
<1> QED BY <1>1, <1>2, PTL DEF Keep!Spec, Keep!SavesKeepFiles

-----------------------------------------------------------------------------
(* SiteMenus: the top sites and the pages of bookmarks.                    *)

CONSTANTS Homepage, N, MaxFavs, Buffers
VARIABLES TopSites, Thumbnails, pictures, ShowThumbs, num_fav, prev_page, screen, editing, label, thumb, place,
          crossed, currPage, page

Sites == INSTANCE SiteMenus WITH heap <- pictures

SitesTyped ==
  /\ TopSites = [i \in Sites!Slots |-> TopSites[i]]
  /\ Thumbnails = [i \in Sites!Slots |-> Thumbnails[i]]
  /\ label = [i \in Sites!Slots |-> label[i]] /\ thumb = [i \in Sites!Slots |-> thumb[i]]
  /\ place \in [Sites!Slots -> Sites!Slots]
  /\ num_fav \in Nat /\ currPage \in Nat

\* A drag permutes the settings as it permutes the places of the blocks: slot
\* i has what the block placed[i] had when the menu opened.
Dragged(labels, thumbs, placed, sites, draws) ==
  /\ \A i, j \in Sites!Slots : placed[i] = placed[j] => i = j
  /\ \A k \in Sites!Slots : \E i \in Sites!Slots : placed[i] = k
  /\ \A i \in Sites!Slots : sites[i] = labels[placed[i]] /\ draws[i] = thumbs[placed[i]]

OfSlots == [i \in Sites!Slots |-> Sites!Draws(i)]
BlocksInv == screen = "TopSites" /\ ~crossed => Dragged(label, thumb, place, TopSites, OfSlots)

PicturesInv ==
  /\ \A picture \in pictures : picture.id \in Buffers
  /\ Sites!PicturesOwned /\ Sites!PicturesOfSites

SitesInv == SitesTyped /\ PicturesInv /\ BlocksInv

\* Of two values that change places each is as often there as before.
LEMMA SameCardinality == ASSUME NEW S PROVE Sites!Cardinality(S) = Cardinality(S)
BY DEF Sites!Cardinality, Cardinality

LEMMA SwapCounts ==
  ASSUME N \in Nat, NEW g, g = [k \in Sites!Slots |-> g[k]],
         NEW i \in Sites!Slots, NEW j \in Sites!Slots, NEW u
  PROVE  Sites!Occurrences(Sites!Swap(g, i, j), u) = Sites!Occurrences(g, u)
<1> DEFINE A == {k \in Sites!Slots : g[k] = u}
           h == Sites!Swap(g, i, j)
           B == {k \in Sites!Slots : h[k] = u}
           s == [k \in A |-> IF k = i THEN j ELSE IF k = j THEN i ELSE k]
<1>1. IsFiniteSet(A)
  <2>1. IsFiniteSet(Sites!Slots)
    <3>1. 0 \in Int /\ N - 1 \in Int
      OBVIOUS
    <3> QED BY <3>1, FS_Interval DEF Sites!Slots
  <2> QED BY <2>1, FS_Subset
<1>2. DOMAIN g = Sites!Slots /\ DOMAIN h = Sites!Slots
      /\ \A k \in Sites!Slots : h[k] = IF k = j THEN g[i] ELSE IF k = i THEN g[j] ELSE g[k]
  BY DEF Sites!Swap
<1>3. s \in [A -> B]
  BY <1>2
<1>4. \A k, l \in A : s[k] = s[l] => k = l
  OBVIOUS
<1>5. \A t \in B : \E k \in A : s[k] = t
  <2> SUFFICES ASSUME NEW t \in B PROVE \E k \in A : s[k] = t
    OBVIOUS
  <2>1. CASE t = i
    <3>1. j \in A /\ s[j] = i
      BY <1>2, <2>1
    <3> QED BY <2>1, <3>1
  <2>2. CASE t = j /\ t # i
    <3>1. i \in A /\ s[i] = j
      BY <1>2, <2>2
    <3> QED BY <2>2, <3>1
  <2>3. CASE t # i /\ t # j
    <3>1. t \in A /\ s[t] = t
      BY <1>2, <2>3
    <3> QED BY <3>1
  <2> QED BY <2>1, <2>2, <2>3
<1>6. ExistsBijection(A, B)
  <2> HIDE DEF A, B, s
  <2>1. s \in Bijection(A, B)
    BY <1>3, <1>4, <1>5 DEF Bijection, Injection, Surjection, IsInjective
  <2> QED BY <2>1 DEF ExistsBijection
<1>7. Cardinality(B) = Cardinality(A)
  BY <1>1, <1>6, FS_Bijection
<1>8. Sites!Occurrences(h, u) = Cardinality(B) /\ Sites!Occurrences(g, u) = Cardinality(A)
  <2> HIDE DEF h
  <2> QED BY <1>2, SameCardinality, Zenon DEF Sites!Occurrences
<1> QED BY <1>7, <1>8

\* The first slot of an address.
LEMMA FirstSite ==
  ASSUME N \in Nat, NEW url, Sites!FindUrl(url) # {}
  PROVE  Min(Sites!FindUrl(url)) \in Sites!FindUrl(url)
<1>1. Sites!FindUrl(url) \in SUBSET Nat
  BY DEF Sites!FindUrl, Sites!Slots
<1>2. \E x \in Sites!FindUrl(url) : \A y \in Sites!FindUrl(url) : x <= y
  BY <1>1, Smallest
<1> QED BY <1>2 DEF Min

\* The next page has entries, and is the first again after the last bookmark.
LEMMA Pages ==
  ASSUME N \in Nat \ {0}, num_fav \in Nat, currPage \in Nat
  PROVE  /\ Sites!GetPage(0) # <<>>
         /\ Sites!GetPage(currPage + 1) = <<>> => N * currPage >= num_fav
<1>1. Sites!GetPage(0) # <<>>
  BY DEF Sites!GetPage
<1>2. ASSUME Sites!GetPage(currPage + 1) = <<>>, N * currPage < num_fav PROVE FALSE
  <2> DEFINE b == N * currPage
             n == Min({N, num_fav - b})
  <2>1. b \in Nat /\ ~(num_fav < b) /\ num_fav - b \in Nat \ {0}
    BY <1>2
  <2>2. currPage + 1 # 0 /\ (currPage + 1) - 1 = currPage
    OBVIOUS
  <2>3. n \in Nat \ {0}
    <3> DEFINE T == {N, num_fav - b}
    <3>1. T \in SUBSET Nat /\ T # {} /\ \A x \in T : x # 0
      BY <2>1
    <3> HIDE DEF T
    <3>2. \E x \in T : \A y \in T : x <= y
      BY <3>1, Smallest
    <3>3. Min(T) \in T
      BY <3>2 DEF Min
    <3> QED BY <3>1, <3>3 DEF T
  <2>4. Sites!GetPage(currPage + 1) = [i \in 1..n |-> <<"bookmark", b + i>>]
    <3>1. N * ((currPage + 1) - 1) = b
      BY <2>2
    <3> HIDE DEF b
    <3>2. Sites!GetPage(currPage + 1) =
            [i \in 1..(IF num_fav < b THEN 0 ELSE Min({N, num_fav - b})) |-> <<"bookmark", b + i>>]
      BY <2>2, <3>1, Zenon DEF Sites!GetPage, Sites!Min, Min
    <3>3. (IF num_fav < b THEN 0 ELSE Min({N, num_fav - b})) = n
      BY <2>1
    <3> QED BY <3>2, <3>3, Zenon
  <2>5. 1 \in 1..n /\ 1 \notin DOMAIN <<>>
    BY <2>3
  <2>6. DOMAIN Sites!GetPage(currPage + 1) = 1..n
    <3> HIDE DEF n
    <3> QED BY <2>4
  <2> HIDE DEF n
  <2> QED BY <1>2, <2>5, <2>6, Zenon
<1> QED BY <1>1, <1>2

\* The picture of a page goes to a slot whose site is one the page was shown
\* for, in a buffer of its own.
PictureTaken(k, video) ==
  /\ TopSites[k] # Sites!None /\ TopSites[k] \in video.of
  /\ video.id \in Buffers /\ video \notin pictures /\ video # Sites!NoPicture
  /\ Thumbnails' = [Thumbnails EXCEPT ![k] = video]
  /\ pictures' = (pictures \ {Thumbnails[k]}) \cup {video}

LEMMA ThumbTaken ==
  ASSUME Sites!SitesAssumption, SitesInv, NEW url, NEW new_page, Sites!TakeThumb(url, new_page)
  PROVE  \E k \in Sites!Slots : \E video : PictureTaken(k, video)
<1> DEFINE found == IF Sites!FindUrl(new_page) # {} THEN Sites!FindUrl(new_page) ELSE Sites!FindUrl(url)
           unused == Buffers \ {picture.id : picture \in pictures}
           b == CHOOSE c \in unused : TRUE
           video == [id |-> b, of |-> {url, new_page} \ {Sites!None}]
           k == Min(found)
<1>1. found # {} /\ unused # {}
  BY DEF Sites!TakeThumb
<1>2. Thumbnails' = [Thumbnails EXCEPT ![k] = video] /\ pictures' = (pictures \ {Thumbnails[k]}) \cup {video}
  BY Zenon DEF Sites!TakeThumb, Sites!Min, Min
<1>3. b \in unused
  BY <1>1
<1>4. k \in found
  BY <1>1, FirstSite DEF Sites!SitesAssumption
<1>5. k \in Sites!Slots /\ TopSites[k] # Sites!None /\ TopSites[k] \in {url, new_page}
  BY <1>4 DEF Sites!FindUrl
<1>6. video.id = b /\ video.of = {url, new_page} \ {Sites!None}
  OBVIOUS
<1>7. b \in Buffers /\ \A picture \in pictures : picture.id # b
  BY <1>3
<1>8. Sites!NoPicture.id = 0 /\ 0 \notin Buffers
  BY DEF Sites!NoPicture, Sites!SitesAssumption
<1> HIDE DEF video, b, k
<1>9. video \notin pictures /\ video # Sites!NoPicture /\ video.id \in Buffers
  BY <1>6, <1>7, <1>8
<1>10. TopSites[k] \in video.of
  BY <1>5, <1>6
<1>11. PictureTaken(k, video)
  BY <1>2, <1>5, <1>9, <1>10 DEF PictureTaken
<1> QED BY <1>5, <1>11

LEMMA PicturesTaken ==
  ASSUME SitesTyped, PicturesInv, NEW k \in Sites!Slots, NEW video, PictureTaken(k, video), UNCHANGED TopSites
  PROVE  PicturesInv' /\ Thumbnails' = [i \in Sites!Slots |-> Thumbnails'[i]]
<1> USE DEF PictureTaken
<1>1. /\ Thumbnails' = [i \in Sites!Slots |-> IF i = k THEN video ELSE Thumbnails[i]]
      /\ \A i \in Sites!Slots : Thumbnails'[i] = IF i = k THEN video ELSE Thumbnails[i]
  BY DEF SitesTyped
<1>2. /\ \A i \in Sites!Slots : Thumbnails[i] \in pictures \cup {Sites!NoPicture}
      /\ \A i, j \in Sites!Slots : Thumbnails[i] = Thumbnails[j] => i = j \/ Thumbnails[i] = Sites!NoPicture
      /\ \A picture \in pictures : \E i \in Sites!Slots : Thumbnails[i] = picture
  BY DEF PicturesInv, Sites!PicturesOwned
<1>3. \A i \in Sites!Slots : i # k => Thumbnails[i] # video
  BY <1>2
<1>4. \A i \in Sites!Slots : Thumbnails'[i] \in pictures' \cup {Sites!NoPicture}
  BY <1>1, <1>2
<1>5. ASSUME NEW i \in Sites!Slots, NEW j \in Sites!Slots, Thumbnails'[i] = Thumbnails'[j]
      PROVE  i = j \/ Thumbnails'[i] = Sites!NoPicture
  BY <1>1, <1>2, <1>3, <1>5
<1>6. ASSUME NEW picture \in pictures' PROVE \E i \in Sites!Slots : Thumbnails'[i] = picture
  <2>1. CASE picture = video
    BY <1>1, <2>1
  <2>2. CASE picture # video
    <3>1. picture \in pictures /\ picture # Thumbnails[k]
      BY <1>6, <2>2
    <3>2. PICK i \in Sites!Slots : Thumbnails[i] = picture
      BY <3>1, <1>2
    <3> QED BY <3>1, <3>2, <1>1
  <2> QED BY <2>1, <2>2
<1>7. Sites!PicturesOwned'
  BY <1>4, <1>5, <1>6 DEF Sites!PicturesOwned, Sites!NoPicture, Sites!Slots
<1>8. Sites!PicturesOfSites'
  BY <1>1 DEF PicturesInv, Sites!PicturesOfSites, Sites!NoPicture, Sites!None, Sites!Slots
<1>9. \A picture \in pictures' : picture.id \in Buffers
  BY DEF PicturesInv
<1> QED BY <1>1, <1>7, <1>8, <1>9 DEF PicturesInv

LEMMA PictureRemoved ==
  ASSUME SitesTyped, PicturesInv, NEW k \in Sites!Slots,
         TopSites' = [TopSites EXCEPT ![k] = Sites!None],
         Thumbnails' = [Thumbnails EXCEPT ![k] = Sites!NoPicture], pictures' = pictures \ {Thumbnails[k]}
  PROVE  PicturesInv'
<1>1. /\ \A i \in Sites!Slots : Thumbnails'[i] = IF i = k THEN Sites!NoPicture ELSE Thumbnails[i]
      /\ \A i \in Sites!Slots : TopSites'[i] = IF i = k THEN Sites!None ELSE TopSites[i]
  BY DEF SitesTyped
<1>2. /\ \A i \in Sites!Slots : Thumbnails[i] \in pictures \cup {Sites!NoPicture}
      /\ \A i, j \in Sites!Slots : Thumbnails[i] = Thumbnails[j] => i = j \/ Thumbnails[i] = Sites!NoPicture
      /\ \A picture \in pictures : \E i \in Sites!Slots : Thumbnails[i] = picture
  BY DEF PicturesInv, Sites!PicturesOwned
<1>3. \A i \in Sites!Slots : Thumbnails'[i] \in pictures' \cup {Sites!NoPicture}
  BY <1>1, <1>2
<1>4. \A i, j \in Sites!Slots : Thumbnails'[i] = Thumbnails'[j] => i = j \/ Thumbnails'[i] = Sites!NoPicture
  BY <1>1, <1>2
<1>5. ASSUME NEW picture \in pictures' PROVE \E i \in Sites!Slots : Thumbnails'[i] = picture
  <2>1. PICK i \in Sites!Slots : Thumbnails[i] = picture
    BY <1>5, <1>2
  <2> QED BY <2>1, <1>1, <1>5
<1>6. Sites!PicturesOwned'
  BY <1>3, <1>4, <1>5 DEF Sites!PicturesOwned, Sites!NoPicture, Sites!Slots
<1>7. Sites!PicturesOfSites'
  BY <1>1 DEF PicturesInv, Sites!PicturesOfSites, Sites!NoPicture, Sites!None, Sites!Slots
<1> QED BY <1>6, <1>7 DEF PicturesInv

LEMMA PicturesSwapped ==
  ASSUME SitesTyped, PicturesInv, NEW k \in Sites!Slots, NEW l \in Sites!Slots, UNCHANGED pictures,
         TopSites' = Sites!Swap(TopSites, k, l), Thumbnails' = Sites!Swap(Thumbnails, k, l)
  PROVE  PicturesInv'
<1> DEFINE other(i) == IF i = k THEN l ELSE IF i = l THEN k ELSE i
<1>1. \A i \in Sites!Slots : other(i) \in Sites!Slots /\ other(other(i)) = i
  OBVIOUS
<1>2. \A i \in Sites!Slots : Thumbnails'[i] = Thumbnails[other(i)] /\ TopSites'[i] = TopSites[other(i)]
  BY DEF SitesTyped, Sites!Swap
<1> HIDE DEF other
<1>3. /\ \A i \in Sites!Slots : Thumbnails[i] \in pictures \cup {Sites!NoPicture}
      /\ \A i, j \in Sites!Slots : Thumbnails[i] = Thumbnails[j] => i = j \/ Thumbnails[i] = Sites!NoPicture
      /\ \A picture \in pictures : \E i \in Sites!Slots : Thumbnails[i] = picture
  BY DEF PicturesInv, Sites!PicturesOwned
<1>4. ASSUME NEW i \in Sites!Slots, NEW j \in Sites!Slots, Thumbnails'[i] = Thumbnails'[j]
      PROVE  i = j \/ Thumbnails'[i] = Sites!NoPicture
  <2>1. other(i) \in Sites!Slots /\ other(j) \in Sites!Slots /\ Thumbnails[other(i)] = Thumbnails[other(j)]
    BY <1>1, <1>2, <1>4
  <2>2. other(i) = other(j) \/ Thumbnails[other(i)] = Sites!NoPicture
    BY <1>3, <2>1
  <2>3. other(i) = other(j) => i = j
    BY <1>1
  <2> QED BY <1>2, <2>2, <2>3
<1>5. ASSUME NEW picture \in pictures PROVE \E i \in Sites!Slots : Thumbnails'[i] = picture
  <2>1. PICK i \in Sites!Slots : Thumbnails[i] = picture
    BY <1>3
  <2>2. other(i) \in Sites!Slots /\ Thumbnails'[other(i)] = picture
    BY <1>1, <1>2, <2>1
  <2> QED BY <2>2
<1>6. \A i \in Sites!Slots : Thumbnails'[i] \in pictures \cup {Sites!NoPicture}
  BY <1>1, <1>2, <1>3
<1>7. Sites!PicturesOwned'
  BY <1>4, <1>5, <1>6 DEF Sites!PicturesOwned, Sites!NoPicture, Sites!Slots
<1>8. ASSUME NEW i \in Sites!Slots, Thumbnails'[i] # Sites!NoPicture
      PROVE  TopSites'[i] # Sites!None /\ TopSites'[i] \in Thumbnails'[i].of
  <2>1. other(i) \in Sites!Slots /\ Thumbnails[other(i)] # Sites!NoPicture
    BY <1>1, <1>2, <1>8
  <2>2. TopSites[other(i)] # Sites!None /\ TopSites[other(i)] \in Thumbnails[other(i)].of
    BY <2>1 DEF PicturesInv, Sites!PicturesOfSites
  <2> QED BY <1>2, <2>2
<1>9. Sites!PicturesOfSites'
  BY <1>8 DEF Sites!PicturesOfSites, Sites!NoPicture, Sites!None, Sites!Slots
<1> QED BY <1>7, <1>9 DEF PicturesInv

\* Nothing of the pictures changes, or a site is added where there was none.
LEMMA PicturesStay ==
  ASSUME SitesTyped, PicturesInv, UNCHANGED <<Thumbnails, pictures>>,
         \/ UNCHANGED TopSites
         \/ \E i \in Sites!Slots : \E u : TopSites[i] = Sites!None /\ TopSites' = [TopSites EXCEPT ![i] = u]
  PROVE  PicturesInv'
<1>1. Sites!PicturesOwned'
  BY DEF PicturesInv, Sites!PicturesOwned, Sites!NoPicture, Sites!Slots
<1>2. ASSUME NEW j \in Sites!Slots, Thumbnails[j] # Sites!NoPicture PROVE TopSites'[j] = TopSites[j]
  <2>1. TopSites[j] # Sites!None
    BY <1>2 DEF PicturesInv, Sites!PicturesOfSites
  <2> QED BY <2>1 DEF SitesTyped
<1>3. Sites!PicturesOfSites'
  BY <1>2 DEF PicturesInv, Sites!PicturesOfSites, Sites!NoPicture, Sites!None, Sites!Slots
<1> QED BY <1>1, <1>3 DEF PicturesInv

\* Two blocks change places, and their slots what they have.
LEMMA DraggedAgain ==
  ASSUME NEW L, NEW P, NEW q \in [Sites!Slots -> Sites!Slots], NEW T, NEW D, Dragged(L, P, q, T, D),
         T = [m \in Sites!Slots |-> T[m]], D = [m \in Sites!Slots |-> D[m]],
         NEW k \in Sites!Slots, NEW l \in Sites!Slots
  PROVE  Dragged(L, P, Sites!Swap(q, k, l), Sites!Swap(T, k, l), Sites!Swap(D, k, l))
<1> DEFINE r == Sites!Swap(q, k, l)
           U == Sites!Swap(T, k, l)
           E == Sites!Swap(D, k, l)
           other(i) == IF i = k THEN l ELSE IF i = l THEN k ELSE i
<1>1. \A i \in Sites!Slots : other(i) \in Sites!Slots /\ other(other(i)) = i
  OBVIOUS
<1>2. \A i \in Sites!Slots : r[i] = q[other(i)] /\ U[i] = T[other(i)] /\ E[i] = D[other(i)]
  BY DEF Sites!Swap
<1>3. /\ \A i, j \in Sites!Slots : q[i] = q[j] => i = j
      /\ \A m \in Sites!Slots : \E i \in Sites!Slots : q[i] = m
      /\ \A i \in Sites!Slots : T[i] = L[q[i]] /\ D[i] = P[q[i]]
  BY DEF Dragged
<1> HIDE DEF other, r, U, E
<1>4. ASSUME NEW i \in Sites!Slots, NEW j \in Sites!Slots, r[i] = r[j] PROVE i = j
  <2>1. other(i) \in Sites!Slots /\ other(j) \in Sites!Slots
    BY <1>1
  <2>2. q[other(i)] = q[other(j)]
    BY <1>2, <1>4
  <2>3. other(i) = other(j)
    BY <1>3, <2>1, <2>2
  <2> QED BY <1>1, <2>3
<1>5. ASSUME NEW m \in Sites!Slots PROVE \E i \in Sites!Slots : r[i] = m
  <2>1. PICK i \in Sites!Slots : q[i] = m
    BY <1>3
  <2>2. other(i) \in Sites!Slots /\ r[other(i)] = m
    BY <2>1, <1>1, <1>2
  <2> QED BY <2>2
<1>6. ASSUME NEW i \in Sites!Slots PROVE U[i] = L[r[i]] /\ E[i] = P[r[i]]
  <2>1. other(i) \in Sites!Slots
    BY <1>1
  <2>2. U[i] = T[other(i)] /\ E[i] = D[other(i)] /\ r[i] = q[other(i)]
    BY <1>2
  <2>3. T[other(i)] = L[q[other(i)]] /\ D[other(i)] = P[q[other(i)]]
    BY <1>3, <2>1
  <2> QED BY <2>2, <2>3
<1>7. Dragged(L, P, r, U, E)
  BY <1>4, <1>5, <1>6 DEF Dragged
<1> QED BY <1>7 DEF r, U, E

\* The block of a slot, in its place, gets another site and picture.
LEMMA EditedAtHome ==
  ASSUME NEW L, NEW P, NEW q \in [Sites!Slots -> Sites!Slots], NEW T, NEW D, Dragged(L, P, q, T, D),
         L = [m \in Sites!Slots |-> L[m]], P = [m \in Sites!Slots |-> P[m]],
         T = [m \in Sites!Slots |-> T[m]], D = [m \in Sites!Slots |-> D[m]],
         NEW k \in Sites!Slots, q[k] = k, NEW u, NEW p
  PROVE  Dragged([L EXCEPT ![k] = u], [P EXCEPT ![k] = p], q, [T EXCEPT ![k] = u], [D EXCEPT ![k] = p])
<1>1. /\ \A i, j \in Sites!Slots : q[i] = q[j] => i = j
      /\ \A m \in Sites!Slots : \E i \in Sites!Slots : q[i] = m
      /\ \A i \in Sites!Slots : T[i] = L[q[i]] /\ D[i] = P[q[i]]
  BY DEF Dragged
<1>2. ASSUME NEW i \in Sites!Slots
      PROVE  /\ [T EXCEPT ![k] = u][i] = [L EXCEPT ![k] = u][q[i]]
             /\ [D EXCEPT ![k] = p][i] = [P EXCEPT ![k] = p][q[i]]
  <2>1. q[i] \in Sites!Slots /\ (q[i] = k => i = k)
    BY <1>1
  <2> QED BY <2>1, <1>1
<1> QED BY <1>1, <1>2 DEF Dragged

LEMMA BlockEdited ==
  ASSUME SitesTyped, BlocksInv, NEW k \in Sites!Slots, NEW u, UNCHANGED <<screen, place, ShowThumbs>>,
         TopSites' = [TopSites EXCEPT ![k] = u], label' = [label EXCEPT ![k] = u],
         crossed' = (crossed \/ place[k] # k),
         \/ UNCHANGED <<thumb, Thumbnails>>
         \/ thumb' = [thumb EXCEPT ![k] = Sites!NoPicture] /\ Thumbnails' = [Thumbnails EXCEPT ![k] = Sites!NoPicture]
  PROVE  BlocksInv'
<1> SUFFICES ASSUME screen = "TopSites", ~crossed, place[k] = k
             PROVE  Dragged(label', thumb', place', TopSites', OfSlots')
  BY DEF BlocksInv
<1>1. Dragged(label, thumb, place, TopSites, OfSlots)
  BY DEF BlocksInv
<1>2. /\ label = [m \in Sites!Slots |-> label[m]] /\ thumb = [m \in Sites!Slots |-> thumb[m]]
      /\ TopSites = [m \in Sites!Slots |-> TopSites[m]] /\ place \in [Sites!Slots -> Sites!Slots]
  BY DEF SitesTyped
<1>3. OfSlots = [m \in Sites!Slots |-> OfSlots[m]]
  BY DEF OfSlots
<1>4. PICK p : thumb' = [thumb EXCEPT ![k] = p] /\ OfSlots' = [OfSlots EXCEPT ![k] = p]
  <2>1. CASE UNCHANGED <<thumb, Thumbnails>>
    <3>1. OfSlots[k] = thumb[k]
      BY <1>1 DEF Dragged
    <3>2. OfSlots' = OfSlots /\ [OfSlots EXCEPT ![k] = OfSlots[k]] = OfSlots /\ [thumb EXCEPT ![k] = thumb[k]] = thumb
      BY <1>2, <2>1 DEF OfSlots, Sites!Draws, Sites!NoPicture, Sites!Slots
    <3> QED BY <2>1, <3>1, <3>2
  <2>2. CASE /\ thumb' = [thumb EXCEPT ![k] = Sites!NoPicture]
             /\ Thumbnails' = [Thumbnails EXCEPT ![k] = Sites!NoPicture]
    <3>1. OfSlots' = [m \in Sites!Slots |-> IF ShowThumbs THEN Thumbnails'[m] ELSE Sites!NoPicture]
          /\ OfSlots = [m \in Sites!Slots |-> IF ShowThumbs THEN Thumbnails[m] ELSE Sites!NoPicture]
      BY DEF OfSlots, Sites!Draws, Sites!NoPicture, Sites!Slots
    <3>2. OfSlots' = [OfSlots EXCEPT ![k] = Sites!NoPicture]
      BY <2>2, <3>1 DEF SitesTyped
    <3> QED BY <2>2, <3>2
  <2> QED BY <2>1, <2>2
<1> HIDE DEF OfSlots
<1>5. Dragged([label EXCEPT ![k] = u], [thumb EXCEPT ![k] = p], place, [TopSites EXCEPT ![k] = u], [OfSlots EXCEPT ![k] = p])
  BY <1>1, <1>2, <1>3, EditedAtHome
<1> QED BY <1>4, <1>5

LEMMA BlocksDragged ==
  ASSUME SitesInv, NEW k \in Sites!Slots, NEW l \in Sites!Slots, Sites!Drag(k, l)
  PROVE  SitesInv'
<1>1. /\ place' = Sites!Swap(place, k, l) /\ Thumbnails' = Sites!Swap(Thumbnails, k, l)
      /\ TopSites' = Sites!Swap(TopSites, k, l)
      /\ UNCHANGED <<pictures, ShowThumbs, num_fav, screen, label, thumb, crossed, currPage>>
  BY DEF Sites!Drag, Sites!SwapPos, Sites!SwapImage, Sites!SwapUrls
<1>2. SitesTyped /\ PicturesInv /\ BlocksInv
  BY DEF SitesInv
<1>3. PicturesInv'
  BY <1>1, <1>2, PicturesSwapped
<1>4. SitesTyped'
  BY <1>1, <1>2 DEF SitesTyped, Sites!Swap, Sites!Slots
<1>5. BlocksInv'
  <2> SUFFICES ASSUME screen = "TopSites", ~crossed
               PROVE  Dragged(label, thumb, place', TopSites', OfSlots')
    BY <1>1 DEF BlocksInv
  <2>1. Dragged(label, thumb, place, TopSites, OfSlots)
    BY <1>2 DEF BlocksInv
  <2>2. /\ OfSlots' = [m \in Sites!Slots |-> IF ShowThumbs THEN Thumbnails'[m] ELSE Sites!NoPicture]
        /\ OfSlots = [m \in Sites!Slots |-> IF ShowThumbs THEN Thumbnails[m] ELSE Sites!NoPicture]
    BY <1>1 DEF OfSlots, Sites!Draws, Sites!NoPicture, Sites!Slots
  <2>3. OfSlots' = Sites!Swap(OfSlots, k, l)
    BY <1>1, <1>2, <2>2 DEF SitesTyped, Sites!Swap
  <2>4. OfSlots = [m \in Sites!Slots |-> OfSlots[m]] /\ TopSites = [m \in Sites!Slots |-> TopSites[m]]
        /\ place \in [Sites!Slots -> Sites!Slots]
    BY <1>2, <2>2 DEF SitesTyped
  <2> HIDE DEF OfSlots
  <2>5. Dragged(label, thumb, Sites!Swap(place, k, l), Sites!Swap(TopSites, k, l), Sites!Swap(OfSlots, k, l))
    BY <2>1, <2>4, DraggedAgain
  <2> QED BY <1>1, <2>3, <2>5
<1> QED BY <1>3, <1>4, <1>5 DEF SitesInv

LEMMA MenuOpened == ASSUME SitesInv, Sites!OpenTopSites PROVE SitesInv'
<1>1. /\ label' = TopSites /\ place' = [i \in Sites!Slots |-> i]
      /\ thumb' = IF ShowThumbs THEN Thumbnails ELSE [i \in Sites!Slots |-> Sites!NoPicture]
      /\ UNCHANGED <<TopSites, Thumbnails, pictures, ShowThumbs, num_fav, currPage>>
  BY DEF Sites!OpenTopSites, Sites!settings
<1>2. SitesTyped /\ PicturesInv
  BY DEF SitesInv
<1>3. PicturesInv'
  BY <1>1, <1>2, PicturesStay
<1>4. SitesTyped'
  BY <1>1, <1>2 DEF SitesTyped, Sites!Slots, Sites!NoPicture
<1>5. /\ \A i \in Sites!Slots : OfSlots'[i] = IF ShowThumbs THEN Thumbnails[i] ELSE Sites!NoPicture
      /\ \A i \in Sites!Slots : thumb'[i] = IF ShowThumbs THEN Thumbnails[i] ELSE Sites!NoPicture
  BY <1>1 DEF OfSlots, Sites!Draws, Sites!NoPicture, Sites!Slots
<1>6. Dragged(label', thumb', place', TopSites', OfSlots')
  BY <1>1, <1>5 DEF Dragged
<1> QED BY <1>3, <1>4, <1>6 DEF SitesInv, BlocksInv

\* Another screen has no blocks; and nothing on the menu's changes.
SettingsStay == UNCHANGED <<TopSites, Thumbnails, pictures>> /\ num_fav' \in Nat /\ currPage' \in Nat

LEMMA BlocksGone ==
  ASSUME SitesInv, SettingsStay, screen' # "TopSites", Sites!NoBlocks \/ UNCHANGED <<label, thumb, place>>
  PROVE  SitesInv'
<1>1. SitesTyped /\ PicturesInv
  BY DEF SitesInv
<1>2. PicturesInv'
  BY <1>1, PicturesStay DEF SettingsStay
<1>3. SitesTyped'
  <2>1. CASE Sites!NoBlocks
    <3>1. /\ label' = [i \in Sites!Slots |-> Sites!None] /\ thumb' = [i \in Sites!Slots |-> Sites!NoPicture]
          /\ place' = [i \in Sites!Slots |-> i]
      BY <2>1 DEF Sites!NoBlocks
    <3> QED BY <1>1, <3>1 DEF SitesTyped, SettingsStay, Sites!Slots
  <2>2. CASE UNCHANGED <<label, thumb, place>>
    BY <1>1, <2>2 DEF SitesTyped, SettingsStay, Sites!Slots
  <2> QED BY <2>1, <2>2
<1> QED BY <1>2, <1>3 DEF SitesInv, BlocksInv

LEMMA SlotsStay ==
  ASSUME SitesInv, SettingsStay, UNCHANGED <<screen, label, thumb, place, crossed, ShowThumbs>>
  PROVE  SitesInv'
<1>1. SitesTyped /\ PicturesInv /\ BlocksInv
  BY DEF SitesInv
<1>2. PicturesInv'
  BY <1>1, PicturesStay DEF SettingsStay
<1>3. SitesTyped'
  BY <1>1 DEF SitesTyped, SettingsStay, Sites!Slots
<1>4. OfSlots' = OfSlots
  BY DEF SettingsStay, OfSlots, Sites!Draws, Sites!NoPicture, Sites!Slots
<1>5. BlocksInv'
  BY <1>1, <1>4 DEF BlocksInv, SettingsStay, Dragged, Sites!Slots
<1> QED BY <1>2, <1>3, <1>5 DEF SitesInv

LEMMA SiteEdited ==
  ASSUME SitesInv, NEW k \in Sites!Slots, Sites!RemoveSite(k) \/ Sites!AddSite
  PROVE  SitesInv'
<1>1. SitesTyped /\ PicturesInv /\ BlocksInv
  BY DEF SitesInv
<1>2. CASE Sites!RemoveSite(k)
  <2>1. /\ TopSites' = [TopSites EXCEPT ![k] = Sites!None] /\ label' = [label EXCEPT ![k] = Sites!None]
        /\ Thumbnails' = [Thumbnails EXCEPT ![k] = Sites!NoPicture] /\ pictures' = pictures \ {Thumbnails[k]}
        /\ thumb' = [thumb EXCEPT ![k] = Sites!NoPicture] /\ crossed' = (crossed \/ place[k] # k)
        /\ UNCHANGED <<ShowThumbs, num_fav, screen, place, currPage>>
    BY <1>2 DEF Sites!RemoveSite
  <2>2. PicturesInv'
    BY <1>1, <2>1, PictureRemoved
  <2>3. BlocksInv'
    BY <1>1, <2>1, BlockEdited
  <2>4. SitesTyped'
    BY <1>1, <2>1 DEF SitesTyped, Sites!Slots
  <2> QED BY <2>2, <2>3, <2>4 DEF SitesInv
<1>3. CASE Sites!AddSite
  <2>1. PICK i \in Sites!Slots :
          /\ TopSites[i] = Sites!None /\ TopSites' = [TopSites EXCEPT ![i] = prev_page]
          /\ label' = [label EXCEPT ![i] = prev_page] /\ crossed' = (crossed \/ place[i] # i)
    BY <1>3 DEF Sites!AddSite
  <2>2. UNCHANGED <<Thumbnails, pictures, ShowThumbs, num_fav, screen, thumb, place, currPage>>
    BY <1>3 DEF Sites!AddSite
  <2>3. PicturesInv'
    BY <1>1, <2>1, <2>2, PicturesStay
  <2>4. BlocksInv'
    BY <1>1, <2>1, <2>2, BlockEdited
  <2>5. SitesTyped'
    BY <1>1, <2>1, <2>2 DEF SitesTyped, Sites!Slots
  <2> QED BY <2>3, <2>4, <2>5 DEF SitesInv
<1> QED BY <1>2, <1>3

LEMMA PageShown ==
  ASSUME Sites!SitesAssumption, SitesInv, NEW url, NEW new_page, Sites!DisplayHTML(url, new_page)
  PROVE  SitesInv'
<1>1. SitesTyped /\ PicturesInv
  BY DEF SitesInv
<1>2. screen' # "TopSites" /\ UNCHANGED <<TopSites, num_fav, currPage, label, thumb, place>>
  BY DEF Sites!DisplayHTML, Sites!blocks
<1>3. CASE Sites!TakeThumb(url, new_page)
  <2>1. PICK k \in Sites!Slots : \E video : PictureTaken(k, video)
    BY <1>3, ThumbTaken
  <2> PICK video : PictureTaken(k, video)
    BY <2>1
  <2>2. PicturesInv' /\ Thumbnails' = [i \in Sites!Slots |-> Thumbnails'[i]]
    BY <1>1, <1>2, <2>1, PicturesTaken
  <2>3. SitesTyped'
    BY <1>1, <1>2, <2>2 DEF SitesTyped, Sites!Slots
  <2> QED BY <1>2, <2>2, <2>3 DEF SitesInv, BlocksInv
<1>4. CASE UNCHANGED <<Thumbnails, pictures>>
  BY <1>1, <1>2, <1>4, BlocksGone DEF SettingsStay, SitesTyped
<1> QED BY <1>3, <1>4 DEF Sites!DisplayHTML

LEMMA SitesStep ==
  ASSUME Sites!SitesAssumption, SitesInv, [Sites!Next]_Sites!vars
  PROVE  SitesInv' /\ [Sites!SitesKept]_Sites!vars
<1> USE DEF Sites!SitesAssumption
<1>0. num_fav \in Nat /\ currPage \in Nat
  BY DEF SitesInv, SitesTyped
<1>1. SitesInv'
  <2>1. ASSUME NEW url \in Urls, NEW new_page \in Urls \cup {Sites!None}, Sites!DisplayHTML(url, new_page)
        PROVE  SitesInv'
    BY <2>1, PageShown
  <2>2. CASE Sites!EditBookmarks
    <3>1. num_fav' \in {num_fav - 1, num_fav + 1} \cap 0..MaxFavs
          /\ UNCHANGED <<TopSites, Thumbnails, pictures, screen, label, thumb, place, currPage>> /\ screen = "away"
      BY <2>2 DEF Sites!EditBookmarks, Sites!blocks
    <3>2. num_fav' \in Nat
      BY <1>0, <3>1
    <3> QED BY <1>0, <3>1, <3>2, BlocksGone DEF SettingsStay
  <2>3. CASE Sites!ToggleThumbs
    BY <1>0, <2>3, BlocksGone DEF Sites!ToggleThumbs, Sites!blocks, SettingsStay
  <2>4. CASE Sites!OpenTopSites
    BY <2>4, MenuOpened
  <2>5. CASE Sites!ToggleEditing \/ Sites!ClickHome
    BY <1>0, <2>5, SlotsStay DEF Sites!ToggleEditing, Sites!ClickHome, Sites!blocks, Sites!settings, SettingsStay
  <2>6. CASE Sites!AddSite
    <3>1. 0 \in Sites!Slots
      BY DEF Sites!Slots
    <3> QED BY <2>6, <3>1, SiteEdited
  <2>7. ASSUME NEW i \in Sites!Slots, Sites!ClickSite(i) PROVE SitesInv'
    BY <1>0, <2>7, SlotsStay DEF Sites!ClickSite, Sites!blocks, Sites!settings, SettingsStay
  <2>8. ASSUME NEW i \in Sites!Slots, Sites!RemoveSite(i) PROVE SitesInv'
    BY <2>8, SiteEdited
  <2>9. ASSUME NEW i \in Sites!Slots, NEW j \in Sites!Slots, Sites!Drag(i, j) PROVE SitesInv'
    BY <2>9, BlocksDragged
  <2>10. CASE Sites!OpenFavorites \/ Sites!Leave
    BY <1>0, <2>10, BlocksGone DEF Sites!OpenFavorites, Sites!Leave, Sites!settings, SettingsStay
  <2>11. CASE Sites!NextPage
    <3>1. UNCHANGED <<TopSites, Thumbnails, pictures, num_fav, ShowThumbs, screen, label, thumb, place, crossed>>
          /\ currPage' = IF Sites!GetPage(currPage + 1) = <<>> THEN 0 ELSE currPage + 1
      BY <2>11 DEF Sites!NextPage, Sites!blocks, Sites!settings
    <3>2. currPage' \in Nat
      BY <1>0, <3>1
    <3> QED BY <1>0, <3>1, <3>2, SlotsStay DEF SettingsStay
  <2>12. CASE Sites!ClickFavorite
    BY <1>0, <2>12, SlotsStay DEF Sites!ClickFavorite, Sites!blocks, Sites!settings, SettingsStay
  <2>13. CASE UNCHANGED Sites!vars
    BY <1>0, <2>13, SlotsStay DEF Sites!vars, Sites!blocks, Sites!settings, SettingsStay
  <2> QED BY <2>1, <2>2, <2>3, <2>4, <2>5, <2>6, <2>7, <2>8, <2>9, <2>10, <2>11, <2>12, <2>13 DEF Sites!Next
<1>2. Sites!SitesKept
  <2>1. ASSUME NEW i \in Sites!Slots, NEW j \in Sites!Slots, Sites!Drag(i, j)
        PROVE  /\ \A u \in Urls \cup {Sites!None} : Sites!Occurrences(TopSites', u) = Sites!Occurrences(TopSites, u)
               /\ {Sites!Pair(k) : k \in Sites!Slots}' = {Sites!Pair(k) : k \in Sites!Slots}
    <3>1. TopSites' = Sites!Swap(TopSites, i, j) /\ Thumbnails' = Sites!Swap(Thumbnails, i, j)
      BY <2>1 DEF Sites!Drag, Sites!SwapImage, Sites!SwapUrls
    <3>2. TopSites = [k \in Sites!Slots |-> TopSites[k]] /\ Thumbnails = [k \in Sites!Slots |-> Thumbnails[k]]
      BY DEF SitesInv, SitesTyped
    <3>3. \A u : Sites!Occurrences(Sites!Swap(TopSites, i, j), u) = Sites!Occurrences(TopSites, u)
      BY <3>2, SwapCounts
    <3> DEFINE other(k) == IF k = i THEN j ELSE IF k = j THEN i ELSE k
    <3>4. \A k \in Sites!Slots : other(k) \in Sites!Slots /\ other(other(k)) = k
      OBVIOUS
    <3>5. \A k \in Sites!Slots : TopSites'[k] = TopSites[other(k)] /\ Thumbnails'[k] = Thumbnails[other(k)]
      BY <3>1, <3>2 DEF Sites!Swap
    <3> HIDE DEF other
    <3>6. {<<TopSites'[k], Thumbnails'[k]>> : k \in Sites!Slots} = {<<TopSites[k], Thumbnails[k]>> : k \in Sites!Slots}
      BY <3>4, <3>5
    <3>7. {Sites!Pair(k) : k \in Sites!Slots}' = {Sites!Pair(k) : k \in Sites!Slots}
      BY <3>6 DEF Sites!Pair, Sites!Slots
    <3> QED BY <3>1, <3>3, <3>7
  <2>2. ASSUME Sites!NextPage
        PROVE  page' # <<>> /\ (currPage' = 0 => N * currPage >= num_fav)
    <3>1. num_fav \in Nat /\ currPage \in Nat /\ UNCHANGED <<num_fav, TopSites>>
          /\ currPage' = (IF Sites!GetPage(currPage + 1) = <<>> THEN 0 ELSE currPage + 1)
          /\ page' = Sites!GetPage(currPage')
      BY <2>2 DEF Sites!NextPage, SitesInv, SitesTyped, Sites!settings
    <3>2. Sites!GetPage(0) # <<>> /\ (Sites!GetPage(currPage + 1) = <<>> => N * currPage >= num_fav)
      BY <3>1, Pages
    <3>3. CASE Sites!GetPage(currPage + 1) = <<>>
      BY <3>1, <3>2, <3>3
    <3>4. CASE Sites!GetPage(currPage + 1) # <<>>
      BY <3>1, <3>4
    <3> QED BY <3>3, <3>4
  <2> QED BY <2>1, <2>2 DEF Sites!SitesKept
<1> QED BY <1>1, <1>2

LEMMA SitesStart == Sites!Init => SitesInv
<1> SUFFICES ASSUME Sites!Init PROVE SitesInv
  OBVIOUS
<1>1. /\ TopSites \in [Sites!Slots -> Urls \cup {Sites!None}] /\ num_fav \in 0..MaxFavs /\ currPage = 0
      /\ Thumbnails = [i \in Sites!Slots |-> Sites!NoPicture] /\ pictures = {} /\ screen = "away"
      /\ label = [i \in Sites!Slots |-> Sites!None] /\ thumb = [i \in Sites!Slots |-> Sites!NoPicture]
      /\ place = [i \in Sites!Slots |-> i]
  BY DEF Sites!Init
<1>2. SitesTyped /\ BlocksInv
  BY <1>1 DEF SitesTyped, BlocksInv
<1>3. PicturesInv
  BY <1>1 DEF PicturesInv, Sites!PicturesOwned, Sites!PicturesOfSites
<1> QED BY <1>2, <1>3 DEF SitesInv

\* Every thumbnail has one owner, was taken of a page its site was asked for
\* or is the address of, and is not freed while a block draws it; and a block
\* in its own slot, or exchanged with one other, shows what is in the settings,
\* as long as no block out of its slot was edited.
THEOREM BlocksAreTrue == ASSUME Sites!SitesAssumption PROVE Sites!Spec => []Sites!BlocksTellTruth
<1>1. ASSUME SitesInv PROVE Sites!BlocksTellTruth
  <2>1. Sites!PicturesOwned /\ Sites!PicturesOfSites
    BY <1>1 DEF SitesInv, PicturesInv
  <2>2. ASSUME screen = "TopSites", ~crossed
        PROVE  /\ \A k \in Sites!Slots : thumb[k] \in pictures \cup {Sites!NoPicture}
               /\ \A k \in Sites!Slots : place[k] = k => label[k] = TopSites[k] /\ thumb[k] = Sites!Draws(k)
               /\ \A k, l \in Sites!Slots : place[k] = l /\ place[l] = k =>
                    label[k] = TopSites[l] /\ thumb[k] = Sites!Draws(l)
    <3>1. /\ \A k \in Sites!Slots : \E i \in Sites!Slots : place[i] = k
          /\ \A i \in Sites!Slots : TopSites[i] = label[place[i]] /\ Sites!Draws(i) = thumb[place[i]]
      BY <1>1, <2>2 DEF SitesInv, BlocksInv, Dragged, OfSlots
    <3>2. \A i \in Sites!Slots : Sites!Draws(i) \in pictures \cup {Sites!NoPicture}
      BY <2>1 DEF Sites!PicturesOwned, Sites!Draws
    <3> QED BY <3>1, <3>2
  <2> QED BY <2>1, <2>2 DEF Sites!BlocksTellTruth, Sites!BlocksFitSlots
<1>2. SitesInv /\ [Sites!Next]_Sites!vars => SitesInv'
  BY SitesStep
<1> QED BY <1>1, <1>2, SitesStart, PTL DEF Sites!Spec

\* Dragging loses no site and parts none from its thumbnail, and Next turns the
\* pages of all bookmarks, none of them empty.
THEOREM NoSiteLost == ASSUME Sites!SitesAssumption PROVE Sites!Spec => Sites!NothingGetsLost
<1>1. SitesInv /\ [Sites!Next]_Sites!vars => SitesInv' /\ [Sites!SitesKept]_Sites!vars
  BY SitesStep
<1> QED BY <1>1, SitesStart, PTL DEF Sites!Spec, Sites!NothingGetsLost

-----------------------------------------------------------------------------
(* PageItems: the objects of a page and their lists.                       *)

CONSTANTS MaxItems, MaxFields, Options
VARIABLES input, asked, text, btn, img, Index, window, things, wrong

Items == INSTANCE PageItems WITH heap <- things

\* What each list owns.
Fields == {Items!Object("Input", k) : k \in DOMAIN input}
TextsOwned == Items!All(text, {"Text", "txt"})
ButtonsOwned == Items!All(btn, {"Button"})
ButtonParts == Items!All(btn, {"anchor", "linked", "form", "label", "tooltip", "ownedImage"})
ImagesOwned == Items!All(img, {"Image", "img"})
ImageData == Items!All(img, {"imgdata"})
ScrollParts == Items!Of({"btnup", "btndown", "resources"}, 0)

ElementKinds == {"txt", "img", "anchor", "linked", "form", "scrollWindow"}
ScrollWindow == Items!Object("scrollWindow", 0)

\* Everything allocated has one owner, and has its owners' objects.
OwnersInv ==
  /\ things \subseteq Items!Common \cup ScrollParts \cup Fields \cup TextsOwned \cup ButtonsOwned \cup ButtonParts
                        \cup ImagesOwned \cup ImageData
  /\ Fields \cup TextsOwned \cup ButtonsOwned \cup ImagesOwned \subseteq things
  /\ pc # "done" => Items!Common \subseteq things
  /\ pc = "done" => things = {}
  /\ wrong = {}

ListsInv ==
  /\ text \in Seq(Nat) /\ btn \in Seq(Nat) /\ img \in Seq(Nat) /\ Index \in Seq(ElementKinds \X Nat)
  /\ pc \in {"tags", "show", "effect", "DistruggiText", "DistruggiButton", "DistruggiImg", "DistruggiIndex",
             "DistruggiInput", "scroll", "done"}
  /\ pc \notin {"tags", "show", "effect", "DistruggiText"} => text = <<>>
  /\ pc \notin {"tags", "show", "effect", "DistruggiText", "DistruggiButton"} => btn = <<>>
  /\ pc \in {"DistruggiIndex", "DistruggiInput", "scroll", "done"} => img = <<>>
  /\ pc \in {"scroll", "done"} => input = <<>>

WindowInv ==
  /\ pc \in {"tags", "show", "effect"} \/ window = {}
  /\ window \subseteq Items!ToSet(Index) \cup {ScrollWindow}
  /\ pc = "effect" => window \subseteq Items!ToSet(Index)
  /\ \A e \in window : e[1] \in ElementKinds /\ Items!Parts(e) \subseteq things

Marks == Options \cup {""}
FieldsInv ==
  /\ input \in Seq(Marks) /\ asked \in Seq(Marks)
  /\ Len(input) <= MaxFields /\ Len(input) <= Len(asked)
  /\ pc = "tags" /\ Len(input) < MaxFields => Len(asked) = Len(input)
  /\ \A k \in 1..Len(input) : input[k] = asked[k]

-----------------------------------------------------------------------------
LEMMA Owns ==
  ASSUME NEW l, NEW K, NEW x
  PROVE  x \in Items!All(l, K) <=> \E i \in DOMAIN l, k \in K : x = <<k, l[i]>>
BY DEF Items!All, Items!Of, Items!Object, Items!ToSet

LEMMA OwnsNone == ASSUME NEW K PROVE Items!All(<<>>, K) = {}
BY Owns

LEMMA ToSetNext ==
  ASSUME NEW T, NEW l \in Seq(T), NEW x \in T
  PROVE  <<x>> \o l \in Seq(T) /\ Items!ToSet(<<x>> \o l) = {x} \cup Items!ToSet(l)
<1> DEFINE q == <<x>> \o l
<1>1. q \in Seq(T) /\ DOMAIN q = 1..Len(l) + 1 /\ DOMAIN l = 1..Len(l) /\ Len(l) \in Nat
      /\ \A i \in 1..Len(l) + 1 : q[i] = IF i = 1 THEN x ELSE l[i - 1]
  OBVIOUS
<1> HIDE DEF q
<1>2. \A i \in 1..Len(l) : l[i] = q[i + 1] /\ i + 1 \in 1..Len(l) + 1
  BY <1>1
<1>3. 1 \in 1..Len(l) + 1 /\ q[1] = x
  BY <1>1
<1>4. \A i \in 1..Len(l) + 1 : q[i] = x \/ \E k \in 1..Len(l) : q[i] = l[k]
  <2> TAKE i \in 1..Len(l) + 1
  <2>1. CASE i = 1
    BY <2>1, <1>3
  <2>2. CASE i # 1
    <3>1. i - 1 \in 1..Len(l) /\ q[i] = l[i - 1]
      BY <2>2, <1>1
    <3> QED BY <3>1
  <2> QED BY <2>1, <2>2
<1>5. Items!ToSet(q) = {q[i] : i \in 1..Len(l) + 1} /\ Items!ToSet(l) = {l[i] : i \in 1..Len(l)}
  BY <1>1 DEF Items!ToSet
<1>6. {x} \cup Items!ToSet(l) \subseteq Items!ToSet(q)
  BY <1>2, <1>3, <1>5
<1>7. Items!ToSet(q) \subseteq {x} \cup Items!ToSet(l)
  BY <1>4, <1>5
<1>8. Items!ToSet(q) = {x} \cup Items!ToSet(l)
  BY <1>6, <1>7
<1> QED BY <1>1, <1>8 DEF q

LEMMA OwnsNext ==
  ASSUME NEW l \in Seq(Nat), NEW x \in Nat, NEW K
  PROVE  Items!All(<<x>> \o l, K) = Items!Of(K, x) \cup Items!All(l, K)
<1>1. Items!ToSet(<<x>> \o l) = {x} \cup Items!ToSet(l)
  BY ToSetNext
<1> QED BY <1>1, Zenon DEF Items!All

LEMMA KindsApart ==
  ASSUME NEW l, NEW q, NEW K, NEW J, K \cap J = {}
  PROVE  Items!All(l, K) \cap Items!All(q, J) = {}
BY Owns

LEMMA CommonApart ==
  ASSUME NEW l, NEW K, K \cap {"btnSoundOver", "trigA", "scrollWindow"} = {}
  PROVE  Items!All(l, K) \cap Items!Common = {}
BY Owns DEF Items!Common, Items!Of, Items!Object

LEMMA FieldsApart ==
  ASSUME NEW l, NEW K, "Input" \notin K
  PROVE  Items!All(l, K) \cap Fields = {} /\ Fields \cap Items!Common = {}
BY Owns DEF Fields, Items!Common, Items!Of, Items!Object
ItemsInv == OwnersInv /\ ListsInv /\ WindowInv /\ FieldsInv

\* What the lists own stays where it is while they do.
LEMMA OwnersKept ==
  /\ UNCHANGED input => Fields' = Fields
  /\ UNCHANGED text => TextsOwned' = TextsOwned
  /\ UNCHANGED btn => ButtonsOwned' = ButtonsOwned /\ ButtonParts' = ButtonParts
  /\ UNCHANGED img => ImagesOwned' = ImagesOwned /\ ImageData' = ImageData
  /\ text = <<>> => TextsOwned = {}
  /\ btn = <<>> => ButtonsOwned = {} /\ ButtonParts = {}
  /\ img = <<>> => ImagesOwned = {} /\ ImageData = {}
  /\ input = <<>> => Fields = {}
  /\ Items!Common' = Items!Common /\ ScrollParts' = ScrollParts
<1>1. input = <<>> => Fields = {}
  BY DEF Fields
<1>2. (text = <<>> => TextsOwned = {}) /\ (btn = <<>> => ButtonsOwned = {} /\ ButtonParts = {})
      /\ (img = <<>> => ImagesOwned = {} /\ ImageData = {})
  BY OwnsNone DEF TextsOwned, ButtonsOwned, ButtonParts, ImagesOwned, ImageData
<1>3. Items!Common' = Items!Common /\ ScrollParts' = ScrollParts
  BY DEF Items!Common, ScrollParts, Items!Of, Items!Object
<1> QED BY <1>1, <1>2, <1>3
        DEF Fields, TextsOwned, ButtonsOwned, ButtonParts, ImagesOwned, ImageData, Items!Object

\* No object has two owners.
LEMMA OneOwner ==
  /\ TextsOwned \cap (Items!Common \cup Fields \cup ButtonsOwned \cup ImagesOwned) = {}
  /\ (ButtonsOwned \cup ButtonParts) \cap (Items!Common \cup Fields \cup ImagesOwned) = {}
  /\ (ImagesOwned \cup ImageData) \cap (Items!Common \cup Fields) = {}
  /\ Fields \cap Items!Common = {}
<1>1. \A K, J, l, q : K \cap J = {} => Items!All(l, K) \cap Items!All(q, J) = {}
  BY KindsApart
<1>2. \A K, l : "Input" \notin K => Items!All(l, K) \cap Fields = {} /\ Fields \cap Items!Common = {}
  BY FieldsApart
<1>3. \A K, l : K \cap {"btnSoundOver", "trigA", "scrollWindow"} = {} => Items!All(l, K) \cap Items!Common = {}
  BY CommonApart
<1>4. TextsOwned \cap Items!Common = {} /\ TextsOwned \cap Fields = {} /\ TextsOwned \cap ButtonsOwned = {}
      /\ TextsOwned \cap ImagesOwned = {} /\ Fields \cap Items!Common = {}
  BY <1>1, <1>2, <1>3 DEF TextsOwned, ButtonsOwned, ImagesOwned
<1>5. ButtonsOwned \cap Items!Common = {} /\ ButtonsOwned \cap Fields = {} /\ ButtonsOwned \cap ImagesOwned = {}
  BY <1>1, <1>2, <1>3 DEF ButtonsOwned, ImagesOwned
<1>6. ButtonParts \cap Items!Common = {} /\ ButtonParts \cap Fields = {} /\ ButtonParts \cap ImagesOwned = {}
  BY <1>1, <1>2, <1>3 DEF ButtonParts, ImagesOwned
<1>7. ImagesOwned \cap Items!Common = {} /\ ImagesOwned \cap Fields = {}
      /\ ImageData \cap Items!Common = {} /\ ImageData \cap Fields = {}
  BY <1>2, <1>3 DEF ImageData, ImagesOwned
<1> QED BY <1>4, <1>5, <1>6, <1>7

\* An element that is drawn keeps its parts while objects are only added.
LEMMA PartsStay ==
  ASSUME WindowInv, things \subseteq things', NEW e \in window
  PROVE  Items!Parts(e)' \subseteq things'
<1>1. e[1] \in ElementKinds /\ Items!Parts(e) \subseteq things
  BY DEF WindowInv
<1>2. CASE e[1] = "img"
  BY <1>1, <1>2 DEF Items!Parts
<1>3. CASE e[1] # "img"
  <2>1. Items!Parts(e)' = Items!Parts(e)
    BY <1>1, <1>3 DEF Items!Parts, ElementKinds, Items!Common, Items!Of, Items!Object
  <2> QED BY <1>1, <2>1
<1> QED BY <1>2, <1>3

-----------------------------------------------------------------------------
\* An item is added: the lists that get it own what it allocated.
Joins(e, objects) ==
  /\ Items!Shown(e, objects) /\ Items!Parts(e)' \subseteq things'
  /\ UNCHANGED Fields /\ text' \in Seq(Nat) /\ btn' \in Seq(Nat) /\ img' \in Seq(Nat)
  /\ TextsOwned \subseteq TextsOwned' /\ ButtonsOwned \subseteq ButtonsOwned' /\ ButtonParts \subseteq ButtonParts'
  /\ ImagesOwned \subseteq ImagesOwned' /\ ImageData \subseteq ImageData'
  /\ {e} \cup objects \subseteq TextsOwned' \cup ButtonsOwned' \cup ButtonParts' \cup ImagesOwned'
  /\ TextsOwned' \cup ButtonsOwned' \cup ImagesOwned'
      \subseteq TextsOwned \cup ButtonsOwned \cup ImagesOwned \cup {e} \cup objects

LEMMA ItemAdded ==
  ASSUME ItemsInv, NEW e \in ElementKinds \X Nat, NEW objects, Joins(e, objects)
  PROVE  ItemsInv'
<1>1. pc = "show" /\ things' = things \cup {e} \cup objects /\ window' = window \cup {e}
      /\ Index' = <<e>> \o Index /\ UNCHANGED <<pc, input, asked, wrong>>
  BY DEF Joins, Items!Shown
<1>2. Items!Common' = Items!Common /\ ScrollParts' = ScrollParts
  BY OwnersKept
<1>3. OwnersInv'
  BY <1>1, <1>2 DEF Joins, ItemsInv, OwnersInv
<1>4. Index' \in Seq(ElementKinds \X Nat) /\ Items!ToSet(Index') = {e} \cup Items!ToSet(Index)
  <2> DEFINE T == ElementKinds \X Nat
  <2>1. Index \in Seq(T) /\ e \in T
    BY DEF ItemsInv, ListsInv
  <2> HIDE DEF T
  <2>2. <<e>> \o Index \in Seq(T) /\ Items!ToSet(<<e>> \o Index) = {e} \cup Items!ToSet(Index)
    BY <2>1, ToSetNext
  <2> QED BY <1>1, <2>2 DEF T
<1>5. ListsInv'
  BY <1>1, <1>4 DEF Joins, ItemsInv, ListsInv
<1>6. \A x \in window' : x[1] \in ElementKinds /\ Items!Parts(x)' \subseteq things'
  <2>1. \A x \in window : x[1] \in ElementKinds /\ Items!Parts(x)' \subseteq things'
    BY <1>1, PartsStay DEF ItemsInv, WindowInv
  <2> QED BY <1>1, <2>1 DEF Joins
<1>7. WindowInv'
  BY <1>1, <1>4, <1>6 DEF ItemsInv, WindowInv, ScrollWindow, Items!Object
<1>8. FieldsInv'
  BY <1>1 DEF ItemsInv, FieldsInv
<1> QED BY <1>3, <1>5, <1>7, <1>8 DEF ItemsInv

LEMMA ListGrows ==
  ASSUME NEW l \in Seq(Nat), NEW x \in Nat
  PROVE  <<x>> \o l \in Seq(Nat) /\ \A K : Items!All(<<x>> \o l, K) = Items!Of(K, x) \cup Items!All(l, K)
<1>1. <<x>> \o l \in Seq(Nat)
  BY ToSetNext
<1> QED BY <1>1, OwnsNext

\* The lists after the item k has joined them.
LEMMA TextListed ==
  ASSUME ListsInv, NEW k \in Nat, text' = <<k>> \o text
  PROVE  text' \in Seq(Nat) /\ TextsOwned' = {<<"Text", k>>, <<"txt", k>>} \cup TextsOwned
<1>1. <<k>> \o text \in Seq(Nat) /\ \A K : Items!All(<<k>> \o text, K) = Items!Of(K, k) \cup Items!All(text, K)
  BY ListGrows DEF ListsInv
<1>2. TextsOwned' = Items!Of({"Text", "txt"}, k) \cup TextsOwned
  BY <1>1 DEF TextsOwned
<1> QED BY <1>1, <1>2 DEF Items!Of, Items!Object

LEMMA ButtonListed ==
  ASSUME ListsInv, NEW k \in Nat, btn' = <<k>> \o btn
  PROVE  /\ btn' \in Seq(Nat) /\ ButtonsOwned' = {<<"Button", k>>} \cup ButtonsOwned
         /\ ButtonParts' = {<<"anchor", k>>, <<"linked", k>>, <<"form", k>>, <<"label", k>>, <<"tooltip", k>>,
                             <<"ownedImage", k>>} \cup ButtonParts
<1>1. <<k>> \o btn \in Seq(Nat) /\ \A K : Items!All(<<k>> \o btn, K) = Items!Of(K, k) \cup Items!All(btn, K)
  BY ListGrows DEF ListsInv
<1>2. ButtonsOwned' = Items!Of({"Button"}, k) \cup ButtonsOwned
      /\ ButtonParts' = Items!Of({"anchor", "linked", "form", "label", "tooltip", "ownedImage"}, k) \cup ButtonParts
  BY <1>1 DEF ButtonsOwned, ButtonParts
<1> QED BY <1>1, <1>2 DEF Items!Of, Items!Object

LEMMA ImageListed ==
  ASSUME ListsInv, NEW k \in Nat, img' = <<k>> \o img
  PROVE  /\ img' \in Seq(Nat) /\ ImagesOwned' = {<<"Image", k>>, <<"img", k>>} \cup ImagesOwned
         /\ ImageData' = {<<"imgdata", k>>} \cup ImageData
<1>1. <<k>> \o img \in Seq(Nat) /\ \A K : Items!All(<<k>> \o img, K) = Items!Of(K, k) \cup Items!All(img, K)
  BY ListGrows DEF ListsInv
<1>2. ImagesOwned' = Items!Of({"Image", "img"}, k) \cup ImagesOwned
      /\ ImageData' = Items!Of({"imgdata"}, k) \cup ImageData
  BY <1>1 DEF ImagesOwned, ImageData
<1> QED BY <1>1, <1>2 DEF Items!Of, Items!Object

LEMMA TextAdded == ASSUME ItemsInv, Items!AddText PROVE ItemsInv'
<1>1. PICK k \in Nat : k = Len(Index) + 1
  BY DEF ItemsInv, ListsInv
<1> DEFINE e == <<"txt", k>>
           objects == {<<"Text", k>>}
<1>2. Items!Shown(e, objects) /\ text' = <<k>> \o text /\ UNCHANGED <<btn, img, input>>
  BY <1>1 DEF Items!AddText, Items!n, Items!Object, Items!Of, Items!Shown
<1>3. text' \in Seq(Nat) /\ TextsOwned' = {<<"Text", k>>, <<"txt", k>>} \cup TextsOwned
  BY <1>2, TextListed DEF ItemsInv
<1>4. things' = things \cup {e} \cup objects /\ Items!Parts(e)' = {e}
  BY <1>2 DEF Items!Parts, Items!Shown
<1>5. UNCHANGED <<Fields, ButtonsOwned, ButtonParts, ImagesOwned, ImageData>>
  BY <1>2, OwnersKept
<1>6. Joins(e, objects)
  BY <1>2, <1>3, <1>4, <1>5 DEF Joins, ItemsInv, ListsInv
<1> QED BY <1>6, ItemAdded DEF ElementKinds

LEMMA AnchorAdded == ASSUME ItemsInv, Items!AddAnchor PROVE ItemsInv'
<1>1. PICK k \in Nat : k = Len(Index) + 1
  BY DEF ItemsInv, ListsInv
<1> DEFINE e == <<"anchor", k>>
           objects == {<<"Button", k>>, <<"label", k>>, <<"tooltip", k>>}
<1>2. Items!Shown(e, objects) /\ btn' = <<k>> \o btn /\ UNCHANGED <<text, img, input>>
  BY <1>1 DEF Items!AddAnchor, Items!n, Items!Object, Items!Of, Items!Shown
<1>3. btn' \in Seq(Nat) /\ ButtonsOwned' = {<<"Button", k>>} \cup ButtonsOwned
      /\ ButtonParts \subseteq ButtonParts' /\ {<<"anchor", k>>, <<"label", k>>, <<"tooltip", k>>} \subseteq ButtonParts'
  BY <1>2, ButtonListed DEF ItemsInv
<1>4. things' = things \cup {e} \cup objects /\ pc # "done"
  BY <1>2 DEF Items!Shown
<1>5. Items!Parts(e)' = {e} \cup Items!Common \cup {<<"label", k>>, <<"tooltip", k>>}
  BY DEF Items!Parts, Items!Of, Items!Object, Items!Common
<1>6. UNCHANGED <<Fields, TextsOwned, ImagesOwned, ImageData>>
  BY <1>2, OwnersKept
<1>7. Joins(e, objects)
  BY <1>2, <1>3, <1>4, <1>5, <1>6 DEF Joins, ItemsInv, ListsInv, OwnersInv
<1> QED BY <1>7, ItemAdded DEF ElementKinds

LEMMA FormAdded == ASSUME ItemsInv, Items!AddForm PROVE ItemsInv'
<1>1. PICK k \in Nat : k = Len(Index) + 1
  BY DEF ItemsInv, ListsInv
<1> DEFINE e == <<"form", k>>
           objects == {<<"Button", k>>, <<"ownedImage", k>>}
<1>2. Items!Shown(e, objects) /\ btn' = <<k>> \o btn /\ UNCHANGED <<text, img, input>>
  BY <1>1 DEF Items!AddForm, Items!n, Items!Object, Items!Of, Items!Shown
<1>3. btn' \in Seq(Nat) /\ ButtonsOwned' = {<<"Button", k>>} \cup ButtonsOwned
      /\ ButtonParts \subseteq ButtonParts' /\ {<<"form", k>>, <<"ownedImage", k>>} \subseteq ButtonParts'
  BY <1>2, ButtonListed DEF ItemsInv
<1>4. things' = things \cup {e} \cup objects /\ pc # "done"
  BY <1>2 DEF Items!Shown
<1>5. Items!Parts(e)' = {e} \cup Items!Common \cup {<<"ownedImage", k>>}
  BY DEF Items!Parts, Items!Of, Items!Object, Items!Common
<1>6. UNCHANGED <<Fields, TextsOwned, ImagesOwned, ImageData>>
  BY <1>2, OwnersKept
<1>7. Joins(e, objects)
  BY <1>2, <1>3, <1>4, <1>5, <1>6 DEF Joins, ItemsInv, ListsInv, OwnersInv
<1> QED BY <1>7, ItemAdded DEF ElementKinds

LEMMA ImageAdded == ASSUME ItemsInv, Items!AddImage PROVE ItemsInv'
<1>1. PICK k \in Nat : k = Len(Index) + 1
  BY DEF ItemsInv, ListsInv
<1> DEFINE e == <<"img", k>>
           objects == {<<"Image", k>>}
<1>2. Items!Shown(e, objects) /\ img' = <<k>> \o img /\ UNCHANGED <<text, btn, input>>
  BY <1>1 DEF Items!AddImage, Items!n, Items!Object, Items!Of, Items!Shown
<1>3. img' \in Seq(Nat) /\ ImagesOwned' = {<<"Image", k>>, <<"img", k>>} \cup ImagesOwned /\ ImageData \subseteq ImageData'
  BY <1>2, ImageListed DEF ItemsInv
<1>4. things' = things \cup {e} \cup objects
  BY <1>2 DEF Items!Shown
<1>5. Items!Parts(e)' \subseteq {e} \cup things'
  BY DEF Items!Parts
<1>6. UNCHANGED <<Fields, TextsOwned, ButtonsOwned, ButtonParts>>
  BY <1>2, OwnersKept
<1>7. Joins(e, objects)
  BY <1>2, <1>3, <1>4, <1>5, <1>6 DEF Joins, ItemsInv, ListsInv
<1> QED BY <1>7, ItemAdded DEF ElementKinds

LEMMA LinkedImageAdded == ASSUME ItemsInv, Items!AddLinkedImage PROVE ItemsInv'
<1>1. PICK k \in Nat : k = Len(Index) + 1
  BY DEF ItemsInv, ListsInv
<1> DEFINE e == <<"linked", k>>
           objects == {<<"Button", k>>, <<"Image", k>>, <<"img", k>>}
<1>2. Items!Shown(e, objects) /\ btn' = <<k>> \o btn /\ img' = <<k>> \o img /\ UNCHANGED <<text, input>>
  BY <1>1 DEF Items!AddLinkedImage, Items!n, Items!Object, Items!Of, Items!Shown
<1>3. btn' \in Seq(Nat) /\ ButtonsOwned' = {<<"Button", k>>} \cup ButtonsOwned
      /\ ButtonParts \subseteq ButtonParts' /\ <<"linked", k>> \in ButtonParts'
  BY <1>2, ButtonListed DEF ItemsInv
<1>4. img' \in Seq(Nat) /\ ImagesOwned' = {<<"Image", k>>, <<"img", k>>} \cup ImagesOwned /\ ImageData \subseteq ImageData'
  BY <1>2, ImageListed DEF ItemsInv
<1>5. things' = things \cup {e} \cup objects /\ pc # "done"
  BY <1>2 DEF Items!Shown
<1>6. Items!Parts(e)' = {e} \cup Items!Common \cup {<<"img", k>>}
  BY DEF Items!Parts, Items!Of, Items!Object, Items!Common
<1>7. UNCHANGED <<Fields, TextsOwned>>
  BY <1>2, OwnersKept
<1>8. Joins(e, objects)
  BY <1>2, <1>3, <1>4, <1>5, <1>6, <1>7 DEF Joins, ItemsInv, ListsInv, OwnersInv
<1> QED BY <1>8, ItemAdded DEF ElementKinds

-----------------------------------------------------------------------------
LEMMA Grown ==
  ASSUME NEW T, NEW s \in Seq(T), NEW x \in T
  PROVE  /\ Append(s, x) \in Seq(T) /\ Len(Append(s, x)) = Len(s) + 1
         /\ Append(s, x)[Len(s) + 1] = x /\ \A k \in 1..Len(s) : Append(s, x)[k] = s[k]
OBVIOUS

\* A list with an element more, of which the last is then set.
LEMMA LastSet ==
  ASSUME NEW T, NEW s \in Seq(T), NEW blank \in T, NEW x \in T
  PROVE  Items!SetOption(Append(s, blank), x) = Append(s, x)
<1> DEFINE u == Append(s, blank)
           t == Items!SetOption(u, x)
<1>1. /\ u \in Seq(T) /\ Len(u) = Len(s) + 1 /\ Len(s) \in Nat
      /\ \A k \in 1..Len(s) : u[k] = s[k]
  BY Grown
<1> DEFINE v == Append(s, x)
<1>2. /\ v \in Seq(T) /\ Len(v) = Len(s) + 1 /\ v[Len(s) + 1] = x
      /\ \A k \in 1..Len(s) : v[k] = s[k]
  BY Grown
<1> HIDE DEF u, v
<1>3. DOMAIN u = 1..Len(s) + 1 /\ u = [k \in DOMAIN u |-> u[k]]
      /\ DOMAIN v = 1..Len(s) + 1 /\ v = [k \in DOMAIN v |-> v[k]]
  BY <1>1, <1>2
<1>4. t = [u EXCEPT ![Len(s) + 1] = x]
  BY <1>1 DEF Items!SetOption
<1>5. t = [k \in 1..Len(s) + 1 |-> IF k = Len(s) + 1 THEN x ELSE u[k]]
  BY <1>3, <1>4
<1> HIDE DEF t
<1>6. \A k \in 1..Len(s) + 1 : v[k] = IF k = Len(s) + 1 THEN x ELSE u[k]
  BY <1>1, <1>2
<1>7. t = v
  BY <1>3, <1>5, <1>6
<1> QED BY <1>7 DEF t, u, v

\* The fields a form has are the first of those the page asked for, and all
\* of them as long as there is room.
FieldsMatch(s, q, T) ==
  /\ s \in Seq(T) /\ q \in Seq(T) /\ Len(s) <= MaxFields /\ Len(s) <= Len(q)
  /\ \A k \in 1..Len(s) : s[k] = q[k]
  /\ Len(s) < MaxFields => Len(q) = Len(s)

LEMMA FieldsStillMatch ==
  ASSUME MaxFields \in Nat \ {0}, NEW T, NEW s, NEW q, NEW o \in T, FieldsMatch(s, q, T)
  PROVE  /\ Len(s) < MaxFields => FieldsMatch(Append(s, o), Append(q, o), T)
         /\ Len(s) >= MaxFields => FieldsMatch(s, Append(q, o), T)
<1>1. /\ s \in Seq(T) /\ q \in Seq(T) /\ Len(s) <= MaxFields /\ Len(s) <= Len(q)
      /\ Len(s) \in Nat /\ Len(q) \in Nat
      /\ \A k \in 1..Len(s) : s[k] = q[k]
  BY DEF FieldsMatch
<1>2. /\ Append(s, o) \in Seq(T) /\ Len(Append(s, o)) = Len(s) + 1
      /\ Append(s, o)[Len(s) + 1] = o /\ \A k \in 1..Len(s) : Append(s, o)[k] = s[k]
  BY <1>1, Grown
<1>3. /\ Append(q, o) \in Seq(T) /\ Len(Append(q, o)) = Len(q) + 1
      /\ Append(q, o)[Len(q) + 1] = o /\ \A k \in 1..Len(q) : Append(q, o)[k] = q[k]
  BY <1>1, Grown
<1> DEFINE t == Append(s, o)
           r == Append(q, o)
<1>4. ASSUME Len(s) < MaxFields PROVE FieldsMatch(t, r, T)
  <2>1. Len(q) = Len(s)
    BY <1>4 DEF FieldsMatch
  <2>2. \A k \in 1..Len(s) + 1 : t[k] = r[k]
    BY <2>1, <1>1, <1>2, <1>3
  <2> HIDE DEF t, r
  <2> QED BY <2>1, <2>2, <1>1, <1>2, <1>3, <1>4 DEF FieldsMatch, t, r
<1>5. ASSUME Len(s) >= MaxFields PROVE FieldsMatch(s, r, T)
  <2> HIDE DEF r
  <2> QED BY <1>1, <1>3, <1>5 DEF FieldsMatch, r
<1> QED BY <1>4, <1>5

\* A field was collected: the page asked for one more, and the form has it if
\* there was room.
Collected(o) ==
  /\ pc = "tags" /\ o \in Marks /\ asked' = Append(asked, o)
  /\ input' = IF Len(input) < MaxFields THEN Append(input, o) ELSE input
  /\ things' = things \cup {Items!Object("Input", Len(input'))}
  /\ UNCHANGED <<pc, text, btn, img, Index, window, wrong>>

LEMMA InputCollected ==
  ASSUME MaxFields \in Nat \ {0}, ItemsInv, NEW o \in Options, Items!AddInput(o)
  PROVE  Collected(o)
<1>0. input \in Seq(Marks) /\ Len(input) \in Nat /\ pc = "tags"
  <2>1. input \in Seq(Marks)
    BY DEF ItemsInv, FieldsInv
  <2> QED BY <2>1 DEF Items!AddInput, Items!Collect
<1>1. input \in Seq(Marks) /\ "" \in Marks /\ o \in Marks /\ Len(input) \in Nat
  BY <1>0 DEF Marks
<1>2. Items!InsInFondo(input) = Append(input, "") /\ Len(input) < MaxFields
  <2>1. Len(input) < MaxFields
    BY DEF Items!AddInput
  <2>2. Items!InsInFondo(input) = IF Len(input) >= MaxFields THEN input ELSE Append(input, "")
    BY Zenon DEF Items!InsInFondo
  <2>3. ~(Len(input) >= MaxFields)
    BY <1>0, <2>1
  <2> QED BY <2>1, <2>2, <2>3, Zenon
<1>3. Items!SetOption(Append(input, ""), o) = Append(input, o)
  BY <1>1, LastSet
<1>4. Items!Collect(Append(input, o), o)
  BY <1>2, <1>3 DEF Items!AddInput
<1> QED BY <1>1, <1>2, <1>4 DEF Collected, Items!Collect

LEMMA TextareaCollected ==
  ASSUME MaxFields \in Nat \ {0}, ItemsInv, Items!AddTextarea
  PROVE  Collected("")
<1>0. input \in Seq(Marks) /\ Len(input) \in Nat
  BY DEF ItemsInv, FieldsInv
<1>1. input \in Seq(Marks) /\ "" \in Marks /\ Len(input) \in Nat
  BY <1>0 DEF Marks
<1>2. Items!InsInFondo(input) = IF Len(input) < MaxFields THEN Append(input, "") ELSE input
  <2>1. Items!InsInFondo(input) = IF Len(input) >= MaxFields THEN input ELSE Append(input, "")
    BY Zenon DEF Items!InsInFondo
  <2>2. Len(input) >= MaxFields <=> ~(Len(input) < MaxFields)
    BY <1>0
  <2> QED BY <2>1, <2>2, Zenon
<1>3. Items!Collect(Items!InsInFondo(input), "")
  BY DEF Items!AddTextarea
<1> QED BY <1>1, <1>2, <1>3 DEF Collected, Items!Collect

LEMMA FieldAdded ==
  ASSUME MaxFields \in Nat \ {0}, ItemsInv, NEW o, Collected(o)
  PROVE  ItemsInv'
<1>1. pc = "tags" /\ o \in Marks /\ UNCHANGED <<pc, text, btn, img, Index, window, wrong>>
      /\ things' = things \cup {Items!Object("Input", Len(input'))}
  BY DEF Collected
<1>2. FieldsMatch(input, asked, Marks)
  BY <1>1 DEF ItemsInv, FieldsInv, FieldsMatch
<1>3. FieldsMatch(input', asked', Marks)
      /\ DOMAIN input' = DOMAIN input \cup {Len(input')}
  <2>1. /\ Len(input) < MaxFields => FieldsMatch(Append(input, o), Append(asked, o), Marks)
        /\ Len(input) >= MaxFields => FieldsMatch(input, Append(asked, o), Marks)
    BY <1>1, <1>2, FieldsStillMatch
  <2>2. input \in Seq(Marks) /\ Len(input) \in Nat /\ DOMAIN input = 1..Len(input)
    BY <1>2 DEF FieldsMatch
  <2>3. CASE Len(input) < MaxFields
    <3>1. input' = Append(input, o) /\ asked' = Append(asked, o)
      BY <2>3 DEF Collected
    <3>2. Append(input, o) \in Seq(Marks) /\ Len(Append(input, o)) = Len(input) + 1
      BY <1>1, <2>2, Grown
    <3>3. DOMAIN Append(input, o) = 1..Len(input) + 1
      BY <3>2
    <3>4. 1..Len(input) + 1 = 1..Len(input) \cup {Len(input) + 1}
      BY <2>2
    <3> QED BY <2>1, <2>2, <2>3, <3>1, <3>2, <3>3, <3>4, Zenon
  <2>4. CASE Len(input) >= MaxFields
    <3>1. input' = input /\ asked' = Append(asked, o)
      <4>1. ~(Len(input) < MaxFields)
        BY <2>4, <2>2
      <4> QED BY <4>1, Zenon DEF Collected
    <3>2. Len(input) \in 1..Len(input)
      BY <2>4, <2>2
    <3>3. DOMAIN input = DOMAIN input \cup {Len(input)}
      BY <2>2, <3>2
    <3> QED BY <2>1, <2>4, <3>1, <3>3, Zenon
  <2> QED BY <2>2, <2>3, <2>4
<1>4. FieldsInv'
  BY <1>3 DEF FieldsInv, FieldsMatch
<1>5. Fields' = Fields \cup {Items!Object("Input", Len(input'))}
  BY <1>3 DEF Fields, Items!Object
<1>6. OwnersInv'
  BY <1>1, <1>5, OwnersKept DEF ItemsInv, OwnersInv
<1>7. WindowInv'
  BY <1>1, PartsStay DEF ItemsInv, WindowInv, ScrollWindow, Items!Object
<1>8. ListsInv'
  BY <1>1 DEF ItemsInv, ListsInv
<1> QED BY <1>4, <1>6, <1>7, <1>8 DEF ItemsInv

-----------------------------------------------------------------------------
LEMMA TextsFreed == ASSUME ItemsInv, Items!DistruggiText PROVE ItemsInv'
<1>1. /\ pc = "DistruggiText" /\ pc' = "DistruggiButton" /\ Items!Freed(TextsOwned) /\ text' = <<>>
      /\ UNCHANGED <<input, asked, btn, img, Index, window>>
  BY DEF Items!DistruggiText, Items!Goes, TextsOwned
<1>2. things' = things \ TextsOwned /\ wrong' = {}
  BY <1>1 DEF Items!Freed, ItemsInv, OwnersInv
<1>3. TextsOwned' = {} /\ Fields' = Fields /\ ButtonsOwned' = ButtonsOwned /\ ButtonParts' = ButtonParts
      /\ ImagesOwned' = ImagesOwned /\ ImageData' = ImageData
      /\ Items!Common' = Items!Common /\ ScrollParts' = ScrollParts
  BY <1>1, OwnersKept, OwnsNone DEF TextsOwned
<1>4. OwnersInv'
  <2>1. /\ things \subseteq Items!Common \cup ScrollParts \cup Fields \cup TextsOwned \cup ButtonsOwned \cup ButtonParts
                           \cup ImagesOwned \cup ImageData
        /\ Fields \cup ButtonsOwned \cup ImagesOwned \subseteq things /\ Items!Common \subseteq things
    BY <1>1 DEF ItemsInv, OwnersInv
  <2>2. Fields \cup ButtonsOwned \cup ImagesOwned \subseteq things' /\ Items!Common \subseteq things'
    BY <1>2, <2>1, OneOwner
  <2>3. things' \subseteq (Items!Common \cup ScrollParts \cup Fields \cup TextsOwned \cup ButtonsOwned \cup ButtonParts
                             \cup ImagesOwned \cup ImageData)'
    BY <1>2, <1>3, <2>1
  <2>4. (Fields \cup TextsOwned \cup ButtonsOwned \cup ImagesOwned)' \subseteq things' /\ Items!Common' \subseteq things'
    BY <1>3, <2>2
  <2>5. pc' # "done"
    BY <1>1
  <2> QED BY <1>2, <2>3, <2>4, <2>5 DEF OwnersInv
<1>5. ListsInv' /\ WindowInv'
  BY <1>1 DEF ItemsInv, ListsInv, WindowInv
<1>6. FieldsInv'
  BY <1>1 DEF ItemsInv, FieldsInv
<1> QED BY <1>4, <1>5, <1>6 DEF ItemsInv

LEMMA ButtonsFreed == ASSUME ItemsInv, Items!DistruggiButton PROVE ItemsInv'
<1>1. /\ pc = "DistruggiButton" /\ pc' = "DistruggiImg" /\ btn' = <<>>
      /\ Items!Freed(ButtonsOwned \cup (ButtonParts \cap things))
      /\ UNCHANGED <<input, asked, text, img, Index, window>>
  BY DEF Items!DistruggiButton, Items!Goes, Items!Taken, ButtonsOwned, ButtonParts
<1>2. things' = things \ (ButtonsOwned \cup ButtonParts) /\ wrong' = {}
  BY <1>1 DEF Items!Freed, ItemsInv, OwnersInv
<1>3. ButtonsOwned' = {} /\ ButtonParts' = {} /\ Fields' = Fields /\ TextsOwned' = TextsOwned /\ TextsOwned = {}
      /\ ImagesOwned' = ImagesOwned /\ ImageData' = ImageData
      /\ Items!Common' = Items!Common /\ ScrollParts' = ScrollParts
  BY <1>1, OwnersKept, OwnsNone DEF ButtonsOwned, ButtonParts, ItemsInv, ListsInv
<1>4. OwnersInv'
  BY <1>1, <1>2, <1>3, OneOwner DEF ItemsInv, OwnersInv
<1>5. ListsInv' /\ WindowInv' /\ FieldsInv'
  BY <1>1 DEF ItemsInv, ListsInv, WindowInv, FieldsInv
<1> QED BY <1>4, <1>5 DEF ItemsInv

LEMMA ImagesFreed == ASSUME ItemsInv, Items!DistruggiImg PROVE ItemsInv'
<1>1. /\ pc = "DistruggiImg" /\ pc' = "DistruggiIndex" /\ img' = <<>>
      /\ Items!Freed(ImagesOwned \cup (ImageData \cap things))
      /\ UNCHANGED <<input, asked, text, btn, Index, window>>
  BY DEF Items!DistruggiImg, Items!Goes, Items!Taken, ImagesOwned, ImageData
<1>2. things' = things \ (ImagesOwned \cup ImageData) /\ wrong' = {}
  BY <1>1 DEF Items!Freed, ItemsInv, OwnersInv
<1>3. ImagesOwned' = {} /\ ImageData' = {} /\ Fields' = Fields /\ TextsOwned' = TextsOwned /\ TextsOwned = {}
      /\ ButtonsOwned' = ButtonsOwned /\ ButtonsOwned = {} /\ ButtonParts' = ButtonParts /\ ButtonParts = {}
      /\ Items!Common' = Items!Common /\ ScrollParts' = ScrollParts
  BY <1>1, OwnersKept, OwnsNone DEF ImagesOwned, ImageData, ItemsInv, ListsInv
<1>4. OwnersInv'
  BY <1>1, <1>2, <1>3, OneOwner DEF ItemsInv, OwnersInv
<1>5. ListsInv' /\ WindowInv' /\ FieldsInv'
  BY <1>1 DEF ItemsInv, ListsInv, WindowInv, FieldsInv
<1> QED BY <1>4, <1>5 DEF ItemsInv

LEMMA FieldsFreed == ASSUME MaxFields \in Nat \ {0}, ItemsInv, Items!DistruggiInput PROVE ItemsInv'
<1>1. /\ pc = "DistruggiInput" /\ pc' = "scroll" /\ input' = <<>> /\ Items!Freed(Fields)
      /\ UNCHANGED <<asked, text, btn, img, Index, window>>
  BY DEF Items!DistruggiInput, Items!Goes, Fields
<1>2. things' = things \ Fields /\ wrong' = {}
  BY <1>1 DEF Items!Freed, ItemsInv, OwnersInv
<1>3. TextsOwned' = {} /\ ButtonsOwned' = {} /\ ButtonParts' = {} /\ ImagesOwned' = {} /\ ImageData' = {}
      /\ TextsOwned = {} /\ ButtonsOwned = {} /\ ButtonParts = {} /\ ImagesOwned = {} /\ ImageData = {}
      /\ Items!Common' = Items!Common /\ ScrollParts' = ScrollParts
  BY <1>1, OwnersKept DEF ItemsInv, ListsInv
<1>4. Fields' = {}
  BY <1>1 DEF Fields
<1>5. OwnersInv'
  BY <1>1, <1>2, <1>3, <1>4, OneOwner DEF ItemsInv, OwnersInv
<1>6. ListsInv' /\ WindowInv'
  BY <1>1 DEF ItemsInv, ListsInv, WindowInv
<1>7. FieldsInv'
  <2>1. asked \in Seq(Marks)
    BY DEF ItemsInv, FieldsInv
  <2>2. <<>> \in Seq(Marks) /\ Len(<<>>) = 0 /\ 1..0 = {}
    OBVIOUS
  <2> QED BY <1>1, <2>1, <2>2 DEF FieldsInv
<1> QED BY <1>5, <1>6, <1>7 DEF ItemsInv

LEMMA DisplayEnded == ASSUME ItemsInv, Items!EndDisplay PROVE ItemsInv'
<1>1. /\ pc = "scroll" /\ pc' = "done" /\ Items!Freed((ScrollParts \cap things) \cup Items!Common)
      /\ UNCHANGED <<input, asked, text, btn, img, Index, window>>
  BY DEF Items!EndDisplay, Items!Goes, ScrollParts
<1>2. TextsOwned = {} /\ ButtonsOwned = {} /\ ButtonParts = {} /\ ImagesOwned = {} /\ ImageData = {} /\ Fields = {}
  BY <1>1, OwnersKept DEF ItemsInv, ListsInv
<1>3. things' = {} /\ wrong' = {}
  BY <1>1, <1>2 DEF Items!Freed, ItemsInv, OwnersInv
<1>4. UNCHANGED <<TextsOwned, ButtonsOwned, ButtonParts, ImagesOwned, ImageData, Fields>>
  BY <1>1, OwnersKept
<1>5. OwnersInv'
  BY <1>1, <1>2, <1>3, <1>4 DEF OwnersInv
<1>6. ListsInv' /\ WindowInv' /\ FieldsInv'
  BY <1>1 DEF ItemsInv, ListsInv, WindowInv, FieldsInv
<1> QED BY <1>5, <1>6 DEF ItemsInv

-----------------------------------------------------------------------------
\* The other steps.
LEMMA TagsEnded == ASSUME ItemsInv, Items!EndTags PROVE ItemsInv'
<1>1. pc = "tags" /\ pc' = "show" /\ UNCHANGED <<input, asked, text, btn, img, Index, window, things, wrong>>
  BY DEF Items!EndTags
<1>2. OwnersInv' /\ ListsInv'
  BY <1>1, OwnersKept DEF ItemsInv, OwnersInv, ListsInv
<1>3. WindowInv'
  BY <1>1, PartsStay DEF ItemsInv, WindowInv, ScrollWindow, Items!Object
<1>4. FieldsInv'
  BY <1>1 DEF ItemsInv, FieldsInv
<1> QED BY <1>2, <1>3, <1>4 DEF ItemsInv

LEMMA DataArrives == ASSUME ItemsInv, Items!ImageArrives PROVE ItemsInv'
<1>1. PICK k \in Items!ToSet(img) : things' = things \cup {Items!Object("imgdata", k)}
  BY DEF Items!ImageArrives
<1>2. pc = "show" /\ UNCHANGED <<pc, input, asked, text, btn, img, Index, window, wrong>>
  BY DEF Items!ImageArrives
<1>3. Items!Object("imgdata", k) \in ImageData
  BY DEF ImageData, Items!All, Items!Of, Items!Object
<1>4. OwnersInv'
  BY <1>1, <1>2, <1>3, OwnersKept DEF ItemsInv, OwnersInv
<1>5. ListsInv'
  BY <1>2 DEF ItemsInv, ListsInv
<1>6. WindowInv'
  BY <1>1, <1>2, PartsStay DEF ItemsInv, WindowInv, ScrollWindow, Items!Object
<1>7. FieldsInv'
  BY <1>2 DEF ItemsInv, FieldsInv
<1> QED BY <1>4, <1>5, <1>6, <1>7 DEF ItemsInv

LEMMA BarDrawn == ASSUME ItemsInv, Items!DrawScroll PROVE ItemsInv'
<1>1. /\ pc = "show" /\ things' = things \cup ScrollParts /\ window' = window \cup {ScrollWindow}
      /\ UNCHANGED <<pc, input, asked, text, btn, img, Index, wrong>>
  BY DEF Items!DrawScroll, ScrollParts, ScrollWindow
<1>2. OwnersInv'
  BY <1>1, OwnersKept DEF ItemsInv, OwnersInv
<1>3. ListsInv'
  BY <1>1 DEF ItemsInv, ListsInv
<1>4. Items!Parts(ScrollWindow)' \subseteq things' /\ ScrollWindow[1] \in ElementKinds
  <2>1. ScrollWindow \in Items!Common
    BY DEF ScrollWindow, Items!Common, Items!Of, Items!Object
  <2>2. Items!Parts(ScrollWindow)' = {ScrollWindow} \cup ScrollParts
    BY DEF Items!Parts, ScrollWindow, ScrollParts, Items!Of, Items!Object
  <2>3. ScrollWindow \in things
    BY <1>1, <2>1 DEF ItemsInv, OwnersInv
  <2> QED BY <1>1, <2>2, <2>3 DEF ScrollWindow, ElementKinds, Items!Object
<1>5. \A e \in window : e[1] \in ElementKinds /\ Items!Parts(e)' \subseteq things'
  BY <1>1, PartsStay DEF ItemsInv, WindowInv
<1>6. \A e \in window' : e[1] \in ElementKinds /\ Items!Parts(e)' \subseteq things'
  BY <1>1, <1>4, <1>5
<1>7. ScrollWindow' = ScrollWindow
  BY DEF ScrollWindow, Items!Object
<1>8. WindowInv'
  BY <1>1, <1>6, <1>7 DEF ItemsInv, WindowInv
<1>9. FieldsInv'
  BY <1>1 DEF ItemsInv, FieldsInv
<1> QED BY <1>2, <1>3, <1>8, <1>9 DEF ItemsInv

LEMMA PageLeft == ASSUME ItemsInv, Items!Leave \/ Items!Unlink PROVE ItemsInv'
<1>1. /\ UNCHANGED <<input, asked, text, btn, img, Index, things, wrong>> /\ window' \subseteq window
      /\ \/ pc = "show" /\ pc' = "effect" /\ window' = window \ {ScrollWindow}
         \/ pc = "effect" /\ pc' = "DistruggiText" /\ window' = window \ Items!ToSet(Index)
  BY DEF Items!Leave, Items!Unlink, Items!Goes, ScrollWindow
<1>2. OwnersInv' /\ ListsInv'
  BY <1>1, OwnersKept DEF ItemsInv, OwnersInv, ListsInv
<1>3. \A e \in window' : e[1] \in ElementKinds /\ Items!Parts(e)' \subseteq things'
  BY <1>1, PartsStay DEF ItemsInv, WindowInv
<1>4. ScrollWindow' = ScrollWindow
  BY DEF ScrollWindow, Items!Object
<1>5. WindowInv'
  BY <1>1, <1>3, <1>4 DEF ItemsInv, WindowInv
<1>6. FieldsInv'
  BY <1>1 DEF ItemsInv, FieldsInv
<1> QED BY <1>2, <1>5, <1>6 DEF ItemsInv

LEMMA IndexFreed == ASSUME ItemsInv, Items!DistruggiIndex PROVE ItemsInv'
<1>1. /\ pc = "DistruggiIndex" /\ pc' = "DistruggiInput" /\ Index' = <<>>
      /\ UNCHANGED <<input, asked, text, btn, img, window, things, wrong>>
  BY DEF Items!DistruggiIndex, Items!Goes
<1>2. OwnersInv'
  BY <1>1, OwnersKept DEF ItemsInv, OwnersInv
<1>3. ListsInv' /\ WindowInv'
  BY <1>1 DEF ItemsInv, ListsInv, WindowInv
<1>4. FieldsInv'
  BY <1>1 DEF ItemsInv, FieldsInv
<1> QED BY <1>2, <1>3, <1>4 DEF ItemsInv

LEMMA ItemsStart == ASSUME MaxFields \in Nat \ {0}, Items!Init PROVE ItemsInv
<1>1. /\ pc = "tags" /\ input = <<>> /\ asked = <<>> /\ text = <<>> /\ btn = <<>> /\ img = <<>> /\ Index = <<>>
      /\ window = {} /\ things = Items!Common /\ wrong = {}
  BY DEF Items!Init
<1>2. OwnersInv
  BY <1>1, OwnersKept DEF OwnersInv
<1>3. ListsInv /\ WindowInv
  BY <1>1 DEF ListsInv, WindowInv
<1>4. FieldsInv
  <2>1. <<>> \in Seq(Marks) /\ <<>> \in Seq(Options) /\ Len(<<>>) = 0 /\ 1..0 = {}
    OBVIOUS
  <2> QED BY <1>1, <2>1 DEF FieldsInv
<1> QED BY <1>2, <1>3, <1>4 DEF ItemsInv

\* Whatever the window draws, and what that uses, is allocated; no object is
\* freed twice, the end of DisplayHTML leaves none of the page's, and each
\* field of a form has the option the page gave it, for any number of items
\* and of fields (html.cpp:93-163, 618-660,
\* html_helpers.cpp:57-119, liste.cpp:23-145).
THEOREM PageIsFreed == ASSUME Items!ItemsAssumption PROVE Items!Spec => []Items!PageTakenDownWhole
<1> MaxFields \in Nat \ {0}
  BY DEF Items!ItemsAssumption
<1>1. ASSUME Items!Init PROVE ItemsInv
  BY <1>1, ItemsStart
<1>2. ASSUME ItemsInv, [Items!Next]_(Items!vars) PROVE ItemsInv'
  <2>1. CASE (\E o \in Options : Items!AddInput(o)) \/ Items!AddTextarea
    BY <1>2, <2>1, InputCollected, TextareaCollected, FieldAdded
  <2>2. CASE Items!AddText \/ Items!AddAnchor \/ Items!AddForm \/ Items!AddImage \/ Items!AddLinkedImage
    BY <1>2, <2>2, TextAdded, AnchorAdded, FormAdded, ImageAdded, LinkedImageAdded
  <2>3. CASE Items!EndTags \/ Items!ImageArrives \/ Items!DrawScroll \/ Items!Leave \/ Items!Unlink
    BY <1>2, <2>3, TagsEnded, DataArrives, BarDrawn, PageLeft
  <2>4. CASE Items!DistruggiText \/ Items!DistruggiButton \/ Items!DistruggiImg \/ Items!DistruggiIndex
             \/ Items!DistruggiInput \/ Items!EndDisplay
    BY <1>2, <2>4, TextsFreed, ButtonsFreed, ImagesFreed, IndexFreed, FieldsFreed, DisplayEnded
  <2>5. CASE UNCHANGED Items!vars
    <3>1. UNCHANGED <<pc, input, asked, text, btn, img, Index, window, things, wrong>>
      BY <2>5 DEF Items!vars
    <3>2. OwnersInv' /\ ListsInv'
      BY <1>2, <3>1, OwnersKept DEF ItemsInv, OwnersInv, ListsInv
    <3>3. WindowInv'
      BY <1>2, <3>1, PartsStay DEF ItemsInv, WindowInv, ScrollWindow, Items!Object
    <3>4. FieldsInv'
      BY <1>2, <3>1 DEF ItemsInv, FieldsInv
    <3> QED BY <3>2, <3>3, <3>4 DEF ItemsInv
  <2> QED BY <1>2, <2>1, <2>2, <2>3, <2>4, <2>5 DEF Items!Next
<1>3. ASSUME ItemsInv PROVE Items!PageTakenDownWhole
  <2>1. \A k \in DOMAIN input : input[k] = asked[k]
    <3>1. DOMAIN input = 1..Len(input) /\ \A k \in 1..Len(input) : input[k] = asked[k]
      BY <1>3 DEF ItemsInv, FieldsInv
    <3> QED BY <3>1
  <2> QED BY <1>3, <2>1 DEF ItemsInv, OwnersInv, WindowInv, Items!PageTakenDownWhole
<1> QED BY <1>1, <1>2, <1>3, PTL DEF Items!Spec

-----------------------------------------------------------------------------
(* Mem2: the blocks of the second memory.                                  *)

CONSTANTS Areas, MEM2_OTHER, OtherSize, Bottom, Top, Granule, Sizes, Counts, MaxU32, Owners, Fills
VARIABLES mem2_areas, Arena2Hi, blocks, cells, left

Heap == INSTANCE Mem2 WITH mem <- cells, Marks <- Fills

\* An area lies in the arena, below what was free of it when it was made.
IsArea(area) ==
  /\ area = [size |-> area.size, heap_ptr |-> area.heap_ptr, old_arena2hi |-> area.old_arena2hi]
  /\ area.size \in Nat \ {0} /\ area.heap_ptr \in Nat /\ area.old_arena2hi \in Nat
  /\ Bottom <= area.heap_ptr /\ area.heap_ptr + area.size <= area.old_arena2hi /\ area.old_arena2hi <= Top

MadeOf(areas) == {a \in Areas : areas[a].size > 0}

\* The areas and what is free below them: a chain from the top down.
ChainOf(areas, hi) ==
  /\ areas = [a \in Areas |-> areas[a]] /\ hi \in Nat /\ Bottom <= hi
  /\ \A a \in Areas : areas[a] = Heap!NoArea \/ IsArea(areas[a])
  /\ \A a \in MadeOf(areas) : hi <= areas[a].heap_ptr
  /\ hi = Top \/ \E a \in MadeOf(areas) : hi = areas[a].heap_ptr
  /\ \A a \in MadeOf(areas) :
       areas[a].old_arena2hi = Top \/ \E i \in MadeOf(areas) : areas[a].old_arena2hi = areas[i].heap_ptr
  /\ \A a, i \in MadeOf(areas) :
       a # i => areas[a].old_arena2hi <= areas[i].heap_ptr \/ areas[i].old_arena2hi <= areas[a].heap_ptr

LEMMA RoundsUp == ASSUME Heap!MemoryAssumption, NEW n \in Nat PROVE Heap!RoundUp(n) \in Nat /\ n <= Heap!RoundUp(n)
<1>1. ASSUME NEW x \in Nat, NEW G \in Nat \ {0}
      PROVE  ((x + G - 1) \div G) * G >= x /\ ((x + G - 1) \div G) * G \in Nat
  OBVIOUS
<1>2. Granule \in Nat \ {0}
  BY DEF Heap!MemoryAssumption
<1> QED BY <1>1, <1>2 DEF Heap!RoundUp

LEMMA PlacedBelow ==
  ASSUME Heap!MemoryAssumption, NEW hi \in Nat, NEW size \in Nat, Heap!Fits(hi, size)
  PROVE  Heap!Place(hi, size) \in Nat /\ Heap!Place(hi, size) + size <= hi /\ Bottom <= Heap!Place(hi, size)
<1>1. ASSUME NEW x \in Nat, NEW G \in Nat \ {0} PROVE (x \div G) * G <= x /\ (x \div G) * G \in Nat
  OBVIOUS
<1>2. Granule \in Nat \ {0} /\ Bottom \in Nat
  BY DEF Heap!MemoryAssumption
<1>3. hi - size - (Granule - 1) \in Nat
  BY <1>2 DEF Heap!Fits
<1>4. Heap!Place(hi, size) <= hi - size - (Granule - 1) /\ Heap!Place(hi, size) \in Nat
  BY <1>1, <1>2, <1>3 DEF Heap!Place, Heap!ROUNDDOWN32
<1> QED BY <1>2, <1>4 DEF Heap!Fits

LEMMA AreaAdded ==
  ASSUME Heap!MemoryAssumption, NEW areas, NEW hi, ChainOf(areas, hi), NEW a \in Areas, areas[a].size = 0,
         NEW size \in Nat \ {0}, Heap!Fits(hi, size)
  PROVE  ChainOf(Heap!Made(areas, a, hi, size), Heap!Place(hi, size))
<1> DEFINE low == Heap!Place(hi, size)
           new == Heap!Made(areas, a, hi, size)
<1>1. hi \in Nat /\ Bottom <= hi /\ hi <= Top /\ Top \in Nat
  <2>1. hi \in Nat /\ Bottom <= hi /\ Top \in Nat
    BY DEF ChainOf, Heap!MemoryAssumption
  <2>2. CASE hi = Top
    BY <2>1, <2>2
  <2>3. ASSUME NEW i \in MadeOf(areas), hi = areas[i].heap_ptr PROVE hi <= Top
    <3>1. IsArea(areas[i])
      BY DEF ChainOf, MadeOf, Heap!NoArea
    <3> QED BY <2>1, <2>3, <3>1 DEF IsArea
  <2> QED BY <2>1, <2>2, <2>3 DEF ChainOf
<1>2. low \in Nat /\ low + size <= hi /\ Bottom <= low
  BY <1>1, PlacedBelow
<1>3. /\ new = [i \in Areas |-> new[i]]
      /\ new[a] = [size |-> size, heap_ptr |-> low, old_arena2hi |-> hi]
      /\ \A i \in Areas \ {a} : new[i] = areas[i]
  BY DEF Heap!Made, ChainOf
<1> HIDE DEF low, new
<1>4. IsArea(new[a])
  BY <1>1, <1>2, <1>3 DEF IsArea
<1>5. MadeOf(new) = MadeOf(areas) \cup {a} /\ a \notin MadeOf(areas)
  BY <1>3 DEF MadeOf
<1>6. \A i \in MadeOf(areas) : new[i] = areas[i] /\ IsArea(areas[i]) /\ low < areas[i].heap_ptr /\ hi <= areas[i].heap_ptr
  <2> TAKE i \in MadeOf(areas)
  <2>1. IsArea(areas[i]) /\ hi <= areas[i].heap_ptr /\ new[i] = areas[i]
    BY <1>3, <1>5 DEF ChainOf, MadeOf, Heap!NoArea
  <2> QED BY <1>1, <1>2, <2>1 DEF IsArea
<1>7. \A i \in Areas : new[i] = Heap!NoArea \/ IsArea(new[i])
  BY <1>3, <1>4 DEF ChainOf
<1>8. \A i \in MadeOf(new) : low <= new[i].heap_ptr
  <2> TAKE i \in MadeOf(new)
  <2>1. CASE i = a
    <3>1. new[i].heap_ptr = low
      BY <2>1, <1>3
    <3> QED BY <3>1, <1>2
  <2>2. CASE i \in MadeOf(areas)
    <3>1. new[i] = areas[i] /\ low < areas[i].heap_ptr /\ areas[i].heap_ptr \in Nat
      BY <2>2, <1>6 DEF IsArea
    <3> QED BY <3>1, <1>2
  <2> QED BY <2>1, <2>2, <1>5
<1>9. \A i \in MadeOf(new) :
        new[i].old_arena2hi = Top \/ \E k \in MadeOf(new) : new[i].old_arena2hi = new[k].heap_ptr
  <2> TAKE i \in MadeOf(new)
  <2>1. CASE i = a
    <3>1. new[i].old_arena2hi = hi /\ (hi = Top \/ \E k \in MadeOf(areas) : hi = areas[k].heap_ptr)
      BY <2>1, <1>3 DEF ChainOf
    <3>2. \A k \in MadeOf(areas) : k \in MadeOf(new) /\ new[k].heap_ptr = areas[k].heap_ptr
      BY <1>5, <1>6
    <3> QED BY <3>1, <3>2
  <2>2. CASE i \in MadeOf(areas)
    BY <2>2, <1>5, <1>6 DEF ChainOf
  <2> QED BY <2>1, <2>2, <1>5
<1>10. \A i, k \in MadeOf(new) :
         i # k => new[i].old_arena2hi <= new[k].heap_ptr \/ new[k].old_arena2hi <= new[i].heap_ptr
  <2> TAKE i, k \in MadeOf(new)
  <2>1. CASE i \in MadeOf(areas) /\ k \in MadeOf(areas)
    BY <2>1, <1>6 DEF ChainOf
  <2>2. CASE i = a /\ k \in MadeOf(areas)
    BY <2>2, <1>3, <1>6
  <2>3. CASE k = a /\ i \in MadeOf(areas)
    BY <2>3, <1>3, <1>6
  <2> QED BY <2>1, <2>2, <2>3, <1>5
<1>11. \E i \in MadeOf(new) : low = new[i].heap_ptr
  BY <1>3, <1>5
<1> QED BY <1>2, <1>3, <1>7, <1>8, <1>9, <1>10, <1>11 DEF ChainOf, low, new

\* The lowest area goes: the ones above it stay a chain.
RemovableOf(areas, a) ==
  areas[a].size # 0 /\ \A i \in Areas \ {a} : areas[i].old_arena2hi # 0 => areas[i].old_arena2hi >= areas[a].old_arena2hi

LEMMA AreaRemoved ==
  ASSUME Heap!MemoryAssumption, NEW areas, NEW hi, ChainOf(areas, hi), NEW a \in Areas, RemovableOf(areas, a)
  PROVE  ChainOf([areas EXCEPT ![a] = Heap!NoArea], areas[a].old_arena2hi)
<1> DEFINE new == [areas EXCEPT ![a] = Heap!NoArea]
           up == areas[a].old_arena2hi
<1>1. /\ new = [i \in Areas |-> new[i]] /\ new[a] = Heap!NoArea
      /\ \A i \in Areas \ {a} : new[i] = areas[i]
  BY DEF ChainOf
<1> HIDE DEF new
<1>2. \A i \in MadeOf(areas) : IsArea(areas[i])
  BY DEF ChainOf, MadeOf, Heap!NoArea
<1>3. a \in MadeOf(areas)
  BY DEF RemovableOf, MadeOf, ChainOf, IsArea, Heap!NoArea
<1>4. MadeOf(new) = MadeOf(areas) \ {a} /\ \A i \in MadeOf(new) : new[i] = areas[i] /\ i \in MadeOf(areas) /\ i # a
  BY <1>1 DEF MadeOf, Heap!NoArea
<1>5. up \in Nat /\ Bottom <= up /\ areas[a].heap_ptr < up /\ areas[a].heap_ptr \in Nat /\ Bottom \in Nat
  <2>1. IsArea(areas[a]) /\ Bottom \in Nat
    BY <1>2, <1>3 DEF Heap!MemoryAssumption
  <2> QED BY <2>1 DEF IsArea
<1>6. \A i \in MadeOf(new) : up <= areas[i].heap_ptr /\ areas[i].old_arena2hi # areas[a].heap_ptr
  <2> TAKE i \in MadeOf(new)
  <2>1. i \in MadeOf(areas) /\ i # a /\ IsArea(areas[i]) /\ i \in Areas
    BY <1>2, <1>4 DEF MadeOf
  <2>2. areas[i].old_arena2hi >= up
    BY <2>1 DEF RemovableOf, IsArea
  <2>3. up <= areas[i].heap_ptr \/ areas[i].old_arena2hi <= areas[a].heap_ptr
    BY <2>1, <1>3 DEF ChainOf
  <2> QED BY <2>1, <2>2, <2>3, <1>5 DEF IsArea
<1>7. \A i \in Areas : new[i] = Heap!NoArea \/ IsArea(new[i])
  BY <1>1 DEF ChainOf
<1>8. up = Top \/ \E i \in MadeOf(new) : up = new[i].heap_ptr
  <2>1. up = Top \/ \E i \in MadeOf(areas) : up = areas[i].heap_ptr
    BY <1>3 DEF ChainOf
  <2>2. up # areas[a].heap_ptr
    BY <1>5
  <2> QED BY <2>1, <2>2, <1>1, <1>4 DEF MadeOf
<1>9. \A i \in MadeOf(new) :
        new[i].old_arena2hi = Top \/ \E k \in MadeOf(new) : new[i].old_arena2hi = new[k].heap_ptr
  <2> TAKE i \in MadeOf(new)
  <2>1. areas[i].old_arena2hi = Top \/ \E k \in MadeOf(areas) : areas[i].old_arena2hi = areas[k].heap_ptr
    BY <1>4 DEF ChainOf
  <2> QED BY <2>1, <1>4, <1>6
<1>10. \A i, k \in MadeOf(new) :
         i # k => new[i].old_arena2hi <= new[k].heap_ptr \/ new[k].old_arena2hi <= new[i].heap_ptr
  BY <1>4 DEF ChainOf
<1>11. \A i \in MadeOf(new) : up <= new[i].heap_ptr
  BY <1>4, <1>6
<1> QED BY <1>1, <1>5, <1>7, <1>8, <1>9, <1>10, <1>11 DEF ChainOf, new

-----------------------------------------------------------------------------
\* A block lies in its area, which holds what its owner left there.
IsBlock(areas, b) ==
  /\ b = [area |-> b.area, at |-> b.at, len |-> b.len, size |-> b.size]
  /\ b.area \in MadeOf(areas) /\ b.at \in Nat /\ b.len \in Nat \ {0} /\ b.size \in Nat /\ b.len <= b.size
  /\ areas[b.area].heap_ptr <= b.at /\ b.at + b.size <= areas[b.area].heap_ptr + areas[b.area].size

LiveOf(held) == {o \in Owners : held[o].len > 0}

Apart(b, c) == b.at + b.size <= c.at \/ c.at + c.size <= b.at

HeldOf(areas, held) ==
  /\ held = [o \in Owners |-> held[o]]
  /\ \A o \in Owners : held[o] = Heap!None \/ IsBlock(areas, held[o])
  /\ \A o, p \in LiveOf(held) : o # p => Apart(held[o], held[p])

\* What the owners left, in the memory.
Whole(mem, b) == [i \in 1..b.len |-> mem[b.at + i - 1]]
LeftOf(held, mem, marks) ==
  /\ mem = [c \in Bottom..Top - 1 |-> mem[c]] /\ marks = [o \in Owners |-> marks[o]]
  /\ \A o \in LiveOf(held) : marks[o] = Whole(mem, held[o])

\* Two blocks of different areas are apart, for the areas are.
LEMMA AreasApart ==
  ASSUME NEW areas, NEW hi, ChainOf(areas, hi), NEW b, NEW c, IsBlock(areas, b), IsBlock(areas, c), b.area # c.area
  PROVE  Apart(b, c)
<1> DEFINE x == areas[b.area]
           y == areas[c.area]
<1>1. IsArea(x) /\ IsArea(y) /\ (x.old_arena2hi <= y.heap_ptr \/ y.old_arena2hi <= x.heap_ptr)
  BY DEF ChainOf, IsBlock, MadeOf, Heap!NoArea
<1>2. b.at \in Nat /\ b.size \in Nat /\ c.at \in Nat /\ c.size \in Nat
      /\ x.heap_ptr <= b.at /\ b.at + b.size <= x.heap_ptr + x.size
      /\ y.heap_ptr <= c.at /\ c.at + c.size <= y.heap_ptr + y.size
  BY DEF IsBlock
<1> HIDE DEF x, y
<1>3. x.heap_ptr \in Nat /\ y.heap_ptr \in Nat /\ x.size \in Nat /\ y.size \in Nat
      /\ x.old_arena2hi \in Nat /\ y.old_arena2hi \in Nat
      /\ x.heap_ptr + x.size <= x.old_arena2hi /\ y.heap_ptr + y.size <= y.old_arena2hi
  BY <1>1 DEF IsArea
<1>4. CASE x.old_arena2hi <= y.heap_ptr
  BY <1>2, <1>3, <1>4 DEF Apart
<1>5. CASE y.old_arena2hi <= x.heap_ptr
  BY <1>2, <1>3, <1>5 DEF Apart
<1> QED BY <1>1, <1>4, <1>5

\* Every cell of a block is one of the arena.
LEMMA InArena ==
  ASSUME Heap!MemoryAssumption, NEW areas, NEW hi, ChainOf(areas, hi), NEW b, IsBlock(areas, b)
  PROVE  b.at \in Nat /\ b.size \in Nat /\ Bottom <= b.at /\ b.at + b.size <= Top
<1>1. IsArea(areas[b.area]) /\ Top \in Nat /\ Bottom \in Nat
  BY DEF ChainOf, IsBlock, MadeOf, Heap!NoArea, Heap!MemoryAssumption
<1>2. areas[b.area].heap_ptr \in Nat /\ areas[b.area].size \in Nat /\ areas[b.area].old_arena2hi \in Nat
      /\ Bottom <= areas[b.area].heap_ptr /\ areas[b.area].heap_ptr + areas[b.area].size <= areas[b.area].old_arena2hi
      /\ areas[b.area].old_arena2hi <= Top
  BY <1>1 DEF IsArea
<1>3. b.at \in Nat /\ b.size \in Nat /\ areas[b.area].heap_ptr <= b.at
      /\ b.at + b.size <= areas[b.area].heap_ptr + areas[b.area].size
  BY DEF IsBlock
<1> QED BY <1>1, <1>2, <1>3

\* Whoever is there has a block.
LEMMA LiveHasBlock ==
  ASSUME NEW areas, NEW held, HeldOf(areas, held), NEW o \in LiveOf(held)
  PROVE  IsBlock(areas, held[o])
BY DEF HeldOf, LiveOf, Heap!None

-----------------------------------------------------------------------------
\* The blocks of an area go: the others stay.
ForgetOf(held, a, h) == h = [o \in Owners |-> IF o \in LiveOf(held) /\ held[o].area = a THEN Heap!None ELSE held[o]]

LEMMA BlocksForgotten ==
  ASSUME NEW areas, NEW held, HeldOf(areas, held), NEW a \in Areas, NEW new,
         new = [i \in Areas |-> new[i]], \A i \in Areas \ {a} : new[i] = areas[i], NEW h, ForgetOf(held, a, h)
  PROVE  /\ HeldOf(new, h) /\ LiveOf(h) \subseteq LiveOf(held)
         /\ \A o \in LiveOf(h) : h[o] = held[o] /\ h[o].area # a
<1>1. \A o \in Owners : h[o] = IF o \in LiveOf(held) /\ held[o].area = a THEN Heap!None ELSE held[o]
  BY DEF ForgetOf
<1>2. \A o \in LiveOf(h) : o \in LiveOf(held) /\ h[o] = held[o] /\ h[o].area # a
  BY <1>1 DEF LiveOf, Heap!None
<1>3. ASSUME NEW o \in Owners, h[o] # Heap!None PROVE IsBlock(new, h[o])
  <2>1. h[o] = held[o] /\ IsBlock(areas, held[o]) /\ ~(o \in LiveOf(held) /\ held[o].area = a)
    BY <1>1, <1>3 DEF HeldOf
  <2>2. o \in LiveOf(held) /\ held[o].area \in Areas \ {a}
    BY <2>1 DEF LiveOf, IsBlock, MadeOf
  <2>3. new[held[o].area] = areas[held[o].area] /\ held[o].area \in MadeOf(new)
    BY <2>1, <2>2 DEF IsBlock, MadeOf
  <2> QED BY <2>1, <2>3 DEF IsBlock
<1>4. h = [o \in Owners |-> h[o]]
  BY DEF ForgetOf
<1>5. \A o, p \in LiveOf(h) : o # p => Apart(h[o], h[p])
  BY <1>2 DEF HeldOf
<1> QED BY <1>2, <1>3, <1>4, <1>5 DEF HeldOf

-----------------------------------------------------------------------------
\* A block is given: it is apart from those of its area, so from all.
LEMMA Intervals ==
  ASSUME NEW x \in Nat, NEW m \in Nat \ {0}, NEW y \in Nat, NEW n \in Nat \ {0}
  PROVE  (x..(x + m - 1)) \cap (y..(y + n - 1)) = {} <=> (x + m <= y \/ y + n <= x)
<1>1. ASSUME (x..(x + m - 1)) \cap (y..(y + n - 1)) = {} PROVE x + m <= y \/ y + n <= x
  <2>1. x \in x..(x + m - 1) /\ y \in y..(y + n - 1)
    OBVIOUS
  <2>2. x \notin y..(y + n - 1) /\ y \notin x..(x + m - 1)
    BY <1>1, <2>1
  <2> QED BY <2>2
<1>2. ASSUME x + m <= y \/ y + n <= x PROVE (x..(x + m - 1)) \cap (y..(y + n - 1)) = {}
  BY <1>2
<1> QED BY <1>1, <1>2

ApartInArea(held, o, b) == \A p \in LiveOf(held) \ {o} : held[p].area = b.area => Apart(b, held[p])
Taken(held, o, b, h) == h = [held EXCEPT ![o] = b]
Joined(held, o, b, h) ==
  /\ LiveOf(h) = LiveOf(held) \cup {o} /\ h[o] = b
  /\ \A p \in LiveOf(held) \ {o} : h[p] = held[p] /\ Apart(b, h[p])
WritesOnly(mem, b, m) ==
  /\ m = [c \in Bottom..Top - 1 |-> m[c]]
  /\ \A c \in Bottom..Top - 1 : c \notin b.at..(b.at + b.size - 1) => m[c] = mem[c]
Marked(marks, o, b, m, k) == k = [marks EXCEPT ![o] = Whole(m, b)]

LEMMA BlockGiven ==
  ASSUME NEW areas, NEW hi, ChainOf(areas, hi), NEW held, HeldOf(areas, held), NEW o \in Owners,
         NEW b, IsBlock(areas, b), ApartInArea(held, o, b), NEW h, Taken(held, o, b, h)
  PROVE  HeldOf(areas, h) /\ Joined(held, o, b, h)
<1>1. h = [p \in Owners |-> h[p]] /\ h[o] = b /\ \A p \in Owners \ {o} : h[p] = held[p]
  BY DEF HeldOf, Taken
<1>2. b.len > 0
  BY DEF IsBlock
<1>3. LiveOf(h) = LiveOf(held) \cup {o}
  BY <1>1, <1>2 DEF LiveOf
<1>4. \A p \in LiveOf(held) \ {o} : h[p] = held[p] /\ Apart(b, h[p])
  <2> TAKE p \in LiveOf(held) \ {o}
  <2>1. h[p] = held[p] /\ IsBlock(areas, held[p])
    BY <1>1, LiveHasBlock DEF LiveOf
  <2>2. CASE held[p].area = b.area
    BY <2>1, <2>2 DEF ApartInArea
  <2>3. CASE held[p].area # b.area
    BY <2>1, <2>3, AreasApart
  <2> QED BY <2>1, <2>2, <2>3
<1>5. \A p, q \in LiveOf(h) : p # q => Apart(h[p], h[q])
  <2> TAKE p, q \in LiveOf(h)
  <2>1. CASE p = o /\ q # o
    BY <2>1, <1>1, <1>3, <1>4
  <2>2. CASE q = o /\ p # o
    <3>1. Apart(h[q], h[p])
      BY <2>2, <1>1, <1>3, <1>4
    <3> QED BY <3>1 DEF Apart
  <2>3. CASE p # o /\ q # o
    BY <2>3, <1>3, <1>4 DEF HeldOf
  <2> QED BY <2>1, <2>2, <2>3
<1>6. \A p \in Owners : h[p] = Heap!None \/ IsBlock(areas, h[p])
  BY <1>1 DEF HeldOf
<1> QED BY <1>1, <1>3, <1>4, <1>5, <1>6 DEF HeldOf, Joined

\* What is in a block stays if the memory changes elsewhere only.
LEMMA NotTouched ==
  ASSUME Heap!MemoryAssumption, NEW areas, NEW hi, ChainOf(areas, hi), NEW b, IsBlock(areas, b), NEW c, IsBlock(areas, c),
         Apart(b, c), NEW mem, NEW m, WritesOnly(mem, b, m)
  PROVE  Whole(m, c) = Whole(mem, c)
<1>1. c.at \in Nat /\ c.size \in Nat /\ Bottom <= c.at /\ c.at + c.size <= Top /\ c.len \in Nat /\ c.len <= c.size
  BY InArena DEF IsBlock
<1>2. b.at \in Nat /\ b.size \in Nat /\ (b.at + b.size <= c.at \/ c.at + c.size <= b.at)
  BY DEF Apart, IsBlock
<1>3. Top \in Nat /\ Bottom \in Nat
  BY DEF Heap!MemoryAssumption
<1>4. \A i \in 1..c.len : m[c.at + i - 1] = mem[c.at + i - 1]
  <2> TAKE i \in 1..c.len
  <2>1. i \in Nat /\ 1 <= i /\ i <= c.len /\ c.at + i - 1 \in Nat
    BY <1>1
  <2>2. c.at <= c.at + i - 1 /\ c.at + i - 1 < c.at + c.size
    BY <1>1, <2>1
  <2>3. c.at + i - 1 \in Bottom..Top - 1
    BY <1>1, <1>3, <2>1, <2>2
  <2>4. c.at + i - 1 \notin b.at..(b.at + b.size - 1)
    BY <1>1, <1>2, <2>1, <2>2
  <2> QED BY <2>3, <2>4 DEF WritesOnly
<1> QED BY <1>4 DEF Whole

\* The others keep what they left if the memory changes inside the block only.
LEMMA LeftAlone ==
  ASSUME Heap!MemoryAssumption, NEW areas, NEW hi, ChainOf(areas, hi), NEW held, HeldOf(areas, held), NEW mem, NEW marks,
         LeftOf(held, mem, marks), NEW o \in Owners, NEW b, IsBlock(areas, b), NEW h, Joined(held, o, b, h),
         NEW m, WritesOnly(mem, b, m), NEW k, Marked(marks, o, b, m, k)
  PROVE  LeftOf(h, m, k)
<1>1. k = [p \in Owners |-> k[p]] /\ k[o] = Whole(m, b) /\ \A p \in Owners \ {o} : k[p] = marks[p]
  BY DEF LeftOf, Marked
<1>2. ASSUME NEW p \in LiveOf(held) \ {o} PROVE k[p] = Whole(m, h[p])
  <2>1. IsBlock(areas, held[p]) /\ h[p] = held[p] /\ Apart(b, held[p]) /\ marks[p] = Whole(mem, held[p]) /\ p \in Owners
    BY LiveHasBlock DEF LeftOf, LiveOf, Joined
  <2>2. Whole(m, held[p]) = Whole(mem, held[p])
    BY <2>1, NotTouched
  <2> QED BY <1>1, <2>1, <2>2
<1> QED BY <1>1, <1>2 DEF LeftOf, Joined, WritesOnly

-----------------------------------------------------------------------------
HeapInv == ChainOf(mem2_areas, Arena2Hi) /\ HeldOf(mem2_areas, blocks) /\ LeftOf(blocks, cells, left)

\* The look for an area may make it; the blocks of the others stay in theirs.
LEMMA AreaCreated ==
  ASSUME Heap!MemoryAssumption, HeapInv, NEW a \in Areas, Heap!Create(a)
  PROVE  /\ ChainOf(mem2_areas', Arena2Hi') /\ HeldOf(mem2_areas', blocks) /\ mem2_areas' = Heap!Created(a)
         /\ mem2_areas[a].size # 0 => UNCHANGED <<mem2_areas, Arena2Hi>>
<1>1. mem2_areas' = Heap!Created(a)
      /\ Arena2Hi' = (IF Heap!Created(a) = mem2_areas THEN Arena2Hi ELSE Heap!Created(a)[a].heap_ptr)
  BY DEF Heap!Create
<1>2. ChainOf(mem2_areas, Arena2Hi) /\ HeldOf(mem2_areas, blocks)
  BY DEF HeapInv
<1>3. CASE mem2_areas[a].size = 0 /\ a = MEM2_OTHER /\ Heap!Fits(Arena2Hi, OtherSize)
  <2> DEFINE new == Heap!Made(mem2_areas, a, Arena2Hi, OtherSize)
  <2>1. Heap!Created(a) = new
    BY <1>3 DEF Heap!Created
  <2>2. ChainOf(new, Heap!Place(Arena2Hi, OtherSize))
    BY <1>2, <1>3, AreaAdded DEF Heap!MemoryAssumption
  <2>3. /\ new[a] = [size |-> OtherSize, heap_ptr |-> Heap!Place(Arena2Hi, OtherSize), old_arena2hi |-> Arena2Hi]
        /\ \A i \in Areas \ {a} : new[i] = mem2_areas[i]
    BY <1>2 DEF Heap!Made, ChainOf
  <2>4. new # mem2_areas
    BY <1>3, <2>3 DEF Heap!MemoryAssumption
  <2>5. Arena2Hi' = Heap!Place(Arena2Hi, OtherSize)
    BY <1>1, <2>1, <2>3, <2>4
  <2> HIDE DEF new
  <2>6. \A o \in Owners : blocks[o] = Heap!None \/ IsBlock(new, blocks[o])
    <3> TAKE o \in Owners
    <3>1. CASE IsBlock(mem2_areas, blocks[o])
      <4>1. blocks[o].area \in Areas \ {a}
        BY <3>1, <1>3 DEF IsBlock, MadeOf
      <4>2. new[blocks[o].area] = mem2_areas[blocks[o].area] /\ blocks[o].area \in MadeOf(new)
        BY <3>1, <4>1, <2>3 DEF IsBlock, MadeOf
      <4> QED BY <3>1, <4>2 DEF IsBlock
    <3> QED BY <3>1, <1>2 DEF HeldOf
  <2>7. HeldOf(new, blocks)
    BY <1>2, <2>6 DEF HeldOf
  <2> QED BY <1>1, <1>3, <2>1, <2>2, <2>5, <2>7
<1>4. CASE ~(mem2_areas[a].size = 0 /\ a = MEM2_OTHER /\ Heap!Fits(Arena2Hi, OtherSize))
  <2>1. Heap!Created(a) = mem2_areas
    BY <1>4, Zenon DEF Heap!Created
  <2> QED BY <1>1, <1>2, <2>1
<1>5. mem2_areas[a].size # 0 => UNCHANGED <<mem2_areas, Arena2Hi>>
  BY <1>1 DEF Heap!Created
<1> QED BY <1>1, <1>3, <1>4, <1>5

\* What the heap of an area gives lies in it, apart from its blocks.
LEMMA Gives ==
  ASSUME Heap!MemoryAssumption, HeapInv, NEW a \in Areas, NEW new, new = Heap!Created(a), NEW hi, ChainOf(new, hi),
         HeldOf(new, blocks), NEW size \in Nat \ {0}, NEW b \in Heap!Given(a, size)
  PROVE  /\ IsBlock(new, b) /\ b.area = a /\ b.len = size /\ b.size = Heap!RoundUp(size)
         /\ \A p \in LiveOf(blocks) : blocks[p].area = b.area => Apart(b, blocks[p])
<1>1. PICK at \in Heap!Free(a, new, size) :
        b = [area |-> a, at |-> at, len |-> size, size |-> Heap!RoundUp(size)] /\ new[a].size # 0
  BY DEF Heap!Given
<1>2. Heap!RoundUp(size) \in Nat \ {0} /\ size <= Heap!RoundUp(size)
  BY RoundsUp
<1>3. at \in Nat /\ at >= new[a].heap_ptr /\ at + Heap!RoundUp(size) <= new[a].heap_ptr + new[a].size
      /\ \A o \in Heap!In(a) : at..(at + Heap!RoundUp(size) - 1) \cap Heap!Cells(blocks[o]) = {}
  BY DEF Heap!Free, Heap!MemoryAssumption
<1>4. IsArea(new[a]) /\ a \in MadeOf(new)
  BY <1>1 DEF ChainOf, IsArea, MadeOf, Heap!NoArea
<1>5. IsBlock(new, b)
  BY <1>1, <1>2, <1>3, <1>4 DEF IsBlock, IsArea
<1>6. ASSUME NEW p \in LiveOf(blocks), blocks[p].area = b.area PROVE Apart(b, blocks[p])
  <2>1. p \in Heap!In(a)
    BY <1>1, <1>6 DEF Heap!In, Heap!Live, LiveOf
  <2>2. IsBlock(new, blocks[p])
    BY LiveHasBlock
  <2> DEFINE c == blocks[p]
  <2>3. c.at \in Nat /\ c.size \in Nat \ {0}
    BY <2>2 DEF IsBlock
  <2>4. at..(at + Heap!RoundUp(size) - 1) \cap c.at..(c.at + c.size - 1) = {}
    BY <1>3, <2>1 DEF Heap!Cells
  <2> HIDE DEF c
  <2>5. at + Heap!RoundUp(size) <= c.at \/ c.at + c.size <= at
    BY <1>2, <1>3, <2>3, <2>4, Intervals
  <2> QED BY <1>1, <2>5 DEF Apart, c
<1> QED BY <1>1, <1>5, <1>6

\* An owner gets a block and leaves something in it.
LEMMA BlockTaken ==
  ASSUME Heap!MemoryAssumption, HeapInv, ChainOf(mem2_areas', Arena2Hi'), HeldOf(mem2_areas', blocks), NEW o \in Owners,
         NEW b, IsBlock(mem2_areas', b), ApartInArea(blocks, o, b), Taken(blocks, o, b, blocks'),
         WritesOnly(cells, b, cells'), Marked(left, o, b, cells', left')
  PROVE  HeapInv'
<1>1. HeldOf(mem2_areas', blocks') /\ Joined(blocks, o, b, blocks')
  BY BlockGiven
<1>2. LeftOf(blocks', cells', left')
  <2>1. LeftOf(blocks, cells, left)
    BY DEF HeapInv
  <2> QED BY <1>1, <2>1, LeftAlone
<1> QED BY <1>1, <1>2 DEF HeapInv

\* The look for an area that has no room: nothing else changes.
LEMMA NoneGiven ==
  ASSUME Heap!MemoryAssumption, HeapInv, NEW a \in Areas, Heap!Create(a), UNCHANGED <<blocks, cells, left>>
  PROVE  HeapInv'
BY AreaCreated DEF HeapInv

\* The first `size` cells of a block, in the arena.
LEMMA CellsOfBlock ==
  ASSUME Heap!MemoryAssumption, NEW areas, NEW hi, ChainOf(areas, hi), NEW b, IsBlock(areas, b), NEW i \in 1..b.len
  PROVE  /\ b.at + i - 1 \in Bottom..Top - 1 /\ b.at + i - 1 \in b.at..(b.at + b.len - 1)
         /\ (b.at + i - 1) - b.at + 1 = i
<1>1. b.at \in Nat /\ b.size \in Nat /\ Bottom <= b.at /\ b.at + b.size <= Top
  BY InArena
<1>2. b.len \in Nat /\ b.len <= b.size /\ Bottom \in Nat /\ Top \in Nat
  BY DEF IsBlock, Heap!MemoryAssumption
<1>3. i \in Nat /\ 1 <= i /\ i <= b.len
  BY <1>2
<1> QED BY <1>1, <1>2, <1>3

LEMMA Mallocs ==
  ASSUME Heap!MemoryAssumption, HeapInv, NEW o \in Owners, NEW a \in Areas, NEW size \in Sizes, NEW mark,
         Heap!malloc(o, a, size, mark)
  PROVE  HeapInv'
<1>1. o \notin LiveOf(blocks) /\ size \in Nat \ {0} /\ Heap!Create(a)
  BY DEF Heap!malloc, Heap!Live, LiveOf, Heap!MemoryAssumption
<1>2. CASE Heap!Given(a, size) = {}
  BY <1>1, <1>2, NoneGiven DEF Heap!malloc
<1>3. CASE Heap!Given(a, size) # {}
  <2>1. PICK b \in Heap!Given(a, size) :
          /\ blocks' = [blocks EXCEPT ![o] = b] /\ cells' = Heap!Filled(cells, b.at, size, mark)
          /\ left' = [left EXCEPT ![o] = [i \in 1..size |-> mark]]
    BY <1>3 DEF Heap!malloc
  <2>2. ChainOf(mem2_areas', Arena2Hi') /\ HeldOf(mem2_areas', blocks) /\ mem2_areas' = Heap!Created(a)
    BY <1>1, AreaCreated
  <2>3. /\ IsBlock(mem2_areas', b) /\ b.len = size
        /\ \A p \in LiveOf(blocks) : blocks[p].area = b.area => Apart(b, blocks[p])
    BY <1>1, <2>2, Gives
  <2>4. DOMAIN cells = Bottom..Top - 1
    BY DEF HeapInv, LeftOf
  <2>5. /\ cells' = [c \in Bottom..Top - 1 |-> cells'[c]]
        /\ \A c \in Bottom..Top - 1 : cells'[c] = IF c \in b.at..(b.at + size - 1) THEN mark ELSE cells[c]
    BY <2>1, <2>4 DEF Heap!Filled
  <2>6. WritesOnly(cells, b, cells')
    <3>1. \A c : c \in b.at..(b.at + size - 1) => c \in b.at..(b.at + b.size - 1)
      BY <2>3 DEF IsBlock
    <3> QED BY <2>5, <3>1 DEF WritesOnly
  <2>7. Whole(cells', b) = [i \in 1..size |-> mark]
    <3>1. \A i \in 1..size : cells'[b.at + i - 1] = mark
      BY <2>2, <2>3, <2>5, CellsOfBlock
    <3> QED BY <2>3, <3>1 DEF Whole
  <2>8. ApartInArea(blocks, o, b) /\ Taken(blocks, o, b, blocks') /\ Marked(left, o, b, cells', left')
    BY <2>1, <2>3, <2>7 DEF ApartInArea, Taken, Marked
  <2> QED BY <2>2, <2>3, <2>6, <2>8, BlockTaken
<1> QED BY <1>2, <1>3

LEMMA Callocs ==
  ASSUME Heap!MemoryAssumption, HeapInv, NEW o \in Owners, NEW a \in Areas, NEW num \in Counts, NEW n \in Sizes,
         Heap!calloc(o, a, num, n)
  PROVE  HeapInv'
<1> DEFINE size == num * n
<1>1. o \notin LiveOf(blocks) /\ size \in Nat \ {0} /\ Heap!Create(a)
  <2>1. num \in Nat /\ n \in Nat /\ num > 0 /\ n > 0
    BY DEF Heap!calloc, Heap!MemoryAssumption
  <2>2. ASSUME NEW x \in Nat, NEW y \in Nat, x > 0, y > 0 PROVE x * y \in Nat \ {0}
    BY <2>2
  <2> QED BY <2>1, <2>2 DEF Heap!calloc, Heap!Live, LiveOf
<1> HIDE DEF size
<1>2. CASE Heap!Given(a, size) = {}
  BY <1>1, <1>2, NoneGiven DEF Heap!calloc, size
<1>3. CASE Heap!Given(a, size) # {}
  <2>1. PICK b \in Heap!Given(a, size) :
          /\ blocks' = [blocks EXCEPT ![o] = b] /\ cells' = Heap!Filled(cells, b.at, size, 0)
          /\ left' = [left EXCEPT ![o] = [i \in 1..size |-> 0]]
    BY <1>3 DEF Heap!calloc, size
  <2>2. ChainOf(mem2_areas', Arena2Hi') /\ HeldOf(mem2_areas', blocks) /\ mem2_areas' = Heap!Created(a)
    BY <1>1, AreaCreated
  <2>3. /\ IsBlock(mem2_areas', b) /\ b.len = size
        /\ \A p \in LiveOf(blocks) : blocks[p].area = b.area => Apart(b, blocks[p])
    BY <1>1, <2>2, Gives
  <2>4. DOMAIN cells = Bottom..Top - 1
    BY DEF HeapInv, LeftOf
  <2>5. /\ cells' = [c \in Bottom..Top - 1 |-> cells'[c]]
        /\ \A c \in Bottom..Top - 1 : cells'[c] = IF c \in b.at..(b.at + size - 1) THEN 0 ELSE cells[c]
    BY <2>1, <2>4 DEF Heap!Filled
  <2>6. WritesOnly(cells, b, cells')
    <3>1. \A c : c \in b.at..(b.at + size - 1) => c \in b.at..(b.at + b.size - 1)
      BY <2>3 DEF IsBlock
    <3> QED BY <2>5, <3>1 DEF WritesOnly
  <2>7. Whole(cells', b) = [i \in 1..size |-> 0]
    <3>1. \A i \in 1..size : cells'[b.at + i - 1] = 0
      BY <2>2, <2>3, <2>5, CellsOfBlock
    <3> QED BY <2>3, <3>1 DEF Whole
  <2>8. ApartInArea(blocks, o, b) /\ Taken(blocks, o, b, blocks') /\ Marked(left, o, b, cells', left')
    BY <2>1, <2>3, <2>7 DEF ApartInArea, Taken, Marked
  <2> QED BY <2>2, <2>3, <2>6, <2>8, BlockTaken
<1> QED BY <1>2, <1>3

\* A text and its end are a sequence one longer.
LEMMA TextEnds ==
  ASSUME NEW n \in Nat, NEW T, NEW s, s = [i \in 1..n |-> s[i]], \A i \in 1..n : s[i] \in T, NEW x \in T
  PROVE  s \o <<x>> = [i \in 1..(n + 1) |-> (s \o <<x>>)[i]]
<1>1. s \in Seq(T) /\ Len(s) = n
  BY LenProperties, SeqDef
<1>2. <<x>> \in Seq(T) /\ Len(<<x>>) = 1
  OBVIOUS
<1>3. s \o <<x>> \in Seq(T) /\ Len(s \o <<x>>) = n + 1
  BY <1>1, <1>2, ConcatProperties
<1> QED BY <1>3, LenProperties

LEMMA Strndups ==
  ASSUME Heap!MemoryAssumption, HeapInv, NEW o \in Owners, NEW p \in Owners, NEW a \in Areas, NEW n \in Sizes,
         Heap!strndup(o, a, p, n)
  PROVE  HeapInv'
<1> DEFINE slen == IF blocks[p].len < n THEN blocks[p].len ELSE n
           size == slen + 1
           copied == Heap!Contents(cells, blocks[p].at, slen) \o <<0>>
<1>1. o \notin LiveOf(blocks) /\ p \in LiveOf(blocks) /\ Heap!Create(a)
  BY DEF Heap!strndup, Heap!Live, LiveOf
<1>2. ChainOf(mem2_areas, Arena2Hi) /\ HeldOf(mem2_areas, blocks) /\ LeftOf(blocks, cells, left)
  BY DEF HeapInv
<1>3. IsBlock(mem2_areas, blocks[p])
  BY <1>1, <1>2, LiveHasBlock
<1>4. slen \in Nat /\ slen <= blocks[p].len /\ size \in Nat \ {0}
  BY <1>3 DEF IsBlock, Heap!MemoryAssumption
<1>5. copied = [i \in 1..size |-> copied[i]]
  <2> DEFINE T == {cells[c] : c \in Bottom..Top - 1} \cup {0}
             s == Heap!Contents(cells, blocks[p].at, slen)
  <2>1. s = [i \in 1..slen |-> s[i]] /\ \A i \in 1..slen : s[i] = cells[blocks[p].at + i - 1]
    BY DEF Heap!Contents
  <2>2. \A i \in 1..slen : s[i] \in T
    <3> TAKE i \in 1..slen
    <3>1. i \in 1..blocks[p].len
      BY <1>3, <1>4 DEF IsBlock
    <3>2. blocks[p].at + i - 1 \in Bottom..Top - 1
      BY <3>1, <1>2, <1>3, CellsOfBlock
    <3> QED BY <3>2, <2>1
  <2>3. 0 \in T
    OBVIOUS
  <2> HIDE DEF s, T, slen
  <2>4. s \o <<0>> = [i \in 1..(slen + 1) |-> (s \o <<0>>)[i]]
    BY <2>1, <2>2, <2>3, <1>4, TextEnds
  <2> QED BY <2>4 DEF s
<1>6. (Heap!Given(a, size) = {} /\ UNCHANGED <<blocks, cells, left>>)
      \/ \E b \in Heap!Given(a, size) :
           /\ blocks' = [blocks EXCEPT ![o] = b]
           /\ cells' = [c \in DOMAIN cells |-> IF c \in b.at..(b.at + slen) THEN copied[c - b.at + 1] ELSE cells[c]]
           /\ left' = [left EXCEPT ![o] = copied]
  BY DEF Heap!strndup
<1> HIDE DEF size, slen, copied
<1>7. CASE Heap!Given(a, size) = {} /\ UNCHANGED <<blocks, cells, left>>
  BY <1>1, <1>7, NoneGiven
<1>8. ASSUME NEW b \in Heap!Given(a, size), blocks' = [blocks EXCEPT ![o] = b], left' = [left EXCEPT ![o] = copied],
             cells' = [c \in DOMAIN cells |-> IF c \in b.at..(b.at + slen) THEN copied[c - b.at + 1] ELSE cells[c]]
      PROVE  HeapInv'
  <2>2. ChainOf(mem2_areas', Arena2Hi') /\ HeldOf(mem2_areas', blocks) /\ mem2_areas' = Heap!Created(a)
    BY <1>1, AreaCreated
  <2>3. /\ IsBlock(mem2_areas', b) /\ b.len = size
        /\ \A q \in LiveOf(blocks) : blocks[q].area = b.area => Apart(b, blocks[q])
    BY <1>4, <2>2, Gives
  <2>4. DOMAIN cells = Bottom..Top - 1
    BY <1>2 DEF LeftOf
  <2>5. /\ cells' = [c \in Bottom..Top - 1 |-> cells'[c]]
        /\ \A c \in Bottom..Top - 1 : cells'[c] = IF c \in b.at..(b.at + slen) THEN copied[c - b.at + 1] ELSE cells[c]
    BY <1>8, <2>4
  <2>9. b.at \in Nat /\ b.at + slen = b.at + size - 1
    BY <2>3, <1>4 DEF IsBlock, size
  <2>6. WritesOnly(cells, b, cells')
    <3>1. \A c : c \in b.at..(b.at + slen) => c \in b.at..(b.at + b.size - 1)
      BY <2>3, <2>9, <1>4 DEF IsBlock
    <3> QED BY <2>5, <3>1 DEF WritesOnly
  <2>7. Whole(cells', b) = copied
    <3>1. \A i \in 1..size : cells'[b.at + i - 1] = copied[i]
      <4> TAKE i \in 1..size
      <4>1. /\ b.at + i - 1 \in Bottom..Top - 1 /\ b.at + i - 1 \in b.at..(b.at + slen)
            /\ (b.at + i - 1) - b.at + 1 = i
        BY <2>2, <2>3, <2>9, CellsOfBlock
      <4> QED BY <4>1, <2>5
    <3> QED BY <2>3, <3>1, <1>5 DEF Whole
  <2>8. ApartInArea(blocks, o, b) /\ Taken(blocks, o, b, blocks') /\ Marked(left, o, b, cells', left')
    BY <1>8, <2>3, <2>7 DEF ApartInArea, Taken, Marked
  <2> QED BY <2>2, <2>3, <2>6, <2>8, BlockTaken
<1> QED BY <1>6, <1>7, <1>8

\* The beginning of a text.
LEMMA TextBegins ==
  ASSUME NEW n \in Nat, NEW k \in Nat, k <= n, NEW s, s = [i \in 1..n |-> s[i]]
  PROVE  SubSeq(s, 1, k) = [i \in 1..k |-> s[i]]
<1>1. PICK T : \A i \in 1..n : s[i] \in T
  <2> WITNESS {s[i] : i \in 1..n}
  <2> QED OBVIOUS
<1>2. s \in Seq(T) /\ Len(s) = n
  BY <1>1, LenProperties, SeqDef
<1> QED BY <1>2

LEMMA Reallocs ==
  ASSUME Heap!MemoryAssumption, HeapInv, NEW o \in Owners, NEW newsize \in Sizes, Heap!realloc(o, newsize)
  PROVE  HeapInv'
<1> DEFINE old == blocks[o]
           where == blocks[o].area
           n == Heap!Copied(o, newsize)
           kept == IF old.len < newsize THEN old.len ELSE newsize
<1>1. o \in LiveOf(blocks) /\ newsize \in Nat \ {0} /\ UNCHANGED <<mem2_areas, Arena2Hi>>
  BY DEF Heap!realloc, Heap!Live, LiveOf, Heap!MemoryAssumption
<1>2. ChainOf(mem2_areas, Arena2Hi) /\ HeldOf(mem2_areas, blocks) /\ LeftOf(blocks, cells, left)
  BY DEF HeapInv
<1>3. IsBlock(mem2_areas, old)
  BY <1>1, <1>2, LiveHasBlock
<1>4. /\ kept \in Nat \ {0} /\ kept <= old.len /\ kept <= newsize /\ n \in Nat /\ kept <= n /\ n <= newsize
      /\ old.len \in Nat
  BY <1>1, <1>3 DEF IsBlock, Heap!Copied
<1>5. where \in Areas /\ Heap!Created(where) = mem2_areas
  BY <1>3 DEF IsBlock, MadeOf, Heap!Created
<1>6. UNCHANGED <<blocks, cells, left>>
      \/ \E b \in Heap!Given(where, newsize) :
           /\ blocks' = [blocks EXCEPT ![o] = [b EXCEPT !.len = kept]]
           /\ cells' = [c \in DOMAIN cells |->
                          IF c \in b.at..(b.at + n - 1) THEN cells[old.at + c - b.at] ELSE cells[c]]
           /\ left' = [left EXCEPT ![o] = SubSeq(@, 1, kept)]
  BY DEF Heap!realloc
<1> HIDE DEF kept, n, where, old
<1>7. CASE UNCHANGED <<blocks, cells, left>>
  BY <1>1, <1>7 DEF HeapInv
<1>8. ASSUME NEW b \in Heap!Given(where, newsize),
             blocks' = [blocks EXCEPT ![o] = [b EXCEPT !.len = kept]], left' = [left EXCEPT ![o] = SubSeq(@, 1, kept)],
             cells' = [c \in DOMAIN cells |->
                         IF c \in b.at..(b.at + n - 1) THEN cells[old.at + c - b.at] ELSE cells[c]]
      PROVE  HeapInv'
  <2> DEFINE nb == [b EXCEPT !.len = kept]
  <2>1. /\ IsBlock(mem2_areas, b) /\ b.len = newsize
        /\ \A q \in LiveOf(blocks) : blocks[q].area = b.area => Apart(b, blocks[q])
    BY <1>1, <1>2, <1>5, Gives
  <2>2. nb = [area |-> b.area, at |-> b.at, len |-> kept, size |-> b.size]
    BY <2>1 DEF IsBlock
  <2> HIDE DEF nb
  <2>3. IsBlock(mem2_areas, nb) /\ nb.at = b.at /\ nb.len = kept /\ b.at \in Nat
    BY <2>1, <2>2, <1>1, <1>4 DEF IsBlock
  <2>4. \A q \in LiveOf(blocks) : blocks[q].area = nb.area => Apart(nb, blocks[q])
    BY <2>1, <2>2 DEF Apart
  <2>5. DOMAIN cells = Bottom..Top - 1
    BY <1>2 DEF LeftOf
  <2>6. /\ cells' = [c \in Bottom..Top - 1 |-> cells'[c]]
        /\ \A c \in Bottom..Top - 1 :
             cells'[c] = IF c \in b.at..(b.at + n - 1) THEN cells[old.at + c - b.at] ELSE cells[c]
    BY <1>8, <2>5
  <2>7. WritesOnly(cells, nb, cells')
    <3>1. \A c : c \in b.at..(b.at + n - 1) => c \in nb.at..(nb.at + nb.size - 1)
      BY <2>1, <2>2, <1>1, <1>4 DEF IsBlock
    <3> QED BY <2>6, <3>1 DEF WritesOnly
  <2>8. left[o] = Whole(cells, old) /\ left = [q \in Owners |-> left[q]]
    BY <1>1, <1>2 DEF LeftOf, old
  <2>9. SubSeq(left[o], 1, kept) = [i \in 1..kept |-> left[o][i]]
    <3>1. left[o] = [i \in 1..old.len |-> left[o][i]]
      BY <2>8 DEF Whole
    <3> QED BY <3>1, <1>4, TextBegins
  <2>10. \A i \in 1..kept : cells'[nb.at + i - 1] = left[o][i]
    <3> TAKE i \in 1..kept
    <3>1. i \in 1..old.len /\ i \in Nat /\ 1 <= i /\ i <= kept
      BY <1>4
    <3>2. nb.at + i - 1 \in Bottom..Top - 1
      BY <2>3, <1>2, CellsOfBlock
    <3>3. nb.at + i - 1 \in b.at..(b.at + n - 1)
      BY <2>3, <3>1, <1>4
    <3>4. old.at \in Nat
      BY <1>3 DEF IsBlock
    <3>5. old.at + (nb.at + i - 1) - b.at = old.at + i - 1
      BY <2>3, <3>1, <3>4
    <3>6. left[o][i] = cells[old.at + i - 1]
      BY <2>8, <3>1 DEF Whole
    <3> QED BY <2>6, <3>2, <3>3, <3>5, <3>6
  <2>11. Whole(cells', nb) = SubSeq(left[o], 1, kept)
    BY <2>3, <2>9, <2>10 DEF Whole
  <2>12. ApartInArea(blocks, o, nb) /\ Taken(blocks, o, nb, blocks') /\ Marked(left, o, nb, cells', left')
    BY <1>8, <2>4, <2>8, <2>11 DEF ApartInArea, Taken, Marked, nb
  <2>13. ChainOf(mem2_areas', Arena2Hi') /\ HeldOf(mem2_areas', blocks) /\ IsBlock(mem2_areas', nb)
    BY <1>1, <1>2, <2>3
  <2> QED BY <2>7, <2>12, <2>13, BlockTaken
<1> QED BY <1>6, <1>7, <1>8

LEMMA Frees ==
  ASSUME HeapInv, NEW o \in Owners, Heap!free(o)
  PROVE  HeapInv'
<1>1. /\ \A p \in Owners \ {o} : blocks'[p] = blocks[p] /\ left'[p] = left[p]
      /\ blocks' = [p \in Owners |-> blocks'[p]] /\ left' = [p \in Owners |-> left'[p]] /\ blocks'[o] = Heap!None
  BY DEF Heap!free, HeapInv, HeldOf, LeftOf
<1>2. LiveOf(blocks') = LiveOf(blocks) \ {o} /\ \A p \in LiveOf(blocks') : p \in LiveOf(blocks) /\ p # o
  BY <1>1 DEF LiveOf, Heap!None
<1>3. UNCHANGED <<mem2_areas, Arena2Hi, cells>>
  BY DEF Heap!free
<1>4. \A p \in LiveOf(blocks') : blocks'[p] = blocks[p] /\ left'[p] = left[p]
  BY <1>1, <1>2 DEF LiveOf
<1>5. HeldOf(mem2_areas, blocks')
  BY <1>1, <1>2, <1>4 DEF HeapInv, HeldOf
<1>6. LeftOf(blocks', cells, left')
  BY <1>1, <1>2, <1>4 DEF HeapInv, LeftOf
<1> QED BY <1>3, <1>5, <1>6 DEF HeapInv

\* What was in an area is forgotten: the others keep what they left, as long as
\* the memory outside that area does.
LEMMA Forgets ==
  ASSUME HeapInv, NEW a \in Areas, Heap!Forget(a), ChainOf(mem2_areas', Arena2Hi'),
         \A i \in Areas \ {a} : mem2_areas'[i] = mem2_areas[i],
         cells' = [c \in Bottom..Top - 1 |-> cells'[c]],
         \A o \in LiveOf(blocks) : blocks[o].area # a => Whole(cells', blocks[o]) = Whole(cells, blocks[o])
  PROVE  HeapInv'
<1>1. ChainOf(mem2_areas, Arena2Hi) /\ HeldOf(mem2_areas, blocks) /\ LeftOf(blocks, cells, left)
  BY DEF HeapInv
<1>2. ForgetOf(blocks, a, blocks')
  BY DEF ForgetOf, Heap!Forget, Heap!In, Heap!Live, LiveOf
<1>3. mem2_areas' = [i \in Areas |-> mem2_areas'[i]]
  BY DEF ChainOf
<1>4. /\ HeldOf(mem2_areas', blocks') /\ LiveOf(blocks') \subseteq LiveOf(blocks)
      /\ \A o \in LiveOf(blocks') : blocks'[o] = blocks[o] /\ blocks'[o].area # a
  BY <1>1, <1>2, <1>3, BlocksForgotten
<1>5. left' = [o \in Owners |-> left'[o]]
      /\ \A o \in Owners : ~(o \in LiveOf(blocks) /\ blocks[o].area = a) => left'[o] = left[o]
  BY DEF Heap!Forget, Heap!In, Heap!Live, LiveOf
<1>6. ASSUME NEW o \in LiveOf(blocks') PROVE left'[o] = Whole(cells', blocks'[o])
  <2>1. o \in LiveOf(blocks) /\ blocks'[o] = blocks[o] /\ blocks[o].area # a /\ o \in Owners
    BY <1>4 DEF LiveOf
  <2>2. left'[o] = left[o] /\ left[o] = Whole(cells, blocks[o])
    BY <2>1, <1>1, <1>5 DEF LeftOf
  <2> QED BY <2>1, <2>2
<1>7. LeftOf(blocks', cells', left')
  BY <1>5, <1>6 DEF LeftOf
<1> QED BY <1>4, <1>7 DEF HeapInv

LEMMA AreaGoes ==
  ASSUME Heap!MemoryAssumption, HeapInv, NEW a \in Areas, Heap!RemoveMem2Area(a)
  PROVE  HeapInv'
<1>1. ChainOf(mem2_areas, Arena2Hi) /\ LeftOf(blocks, cells, left) /\ cells' = cells
  BY DEF HeapInv, Heap!RemoveMem2Area
<1>2. RemovableOf(mem2_areas, a)
  BY DEF RemovableOf, Heap!RemoveMem2Area, Heap!Removable
<1>3. mem2_areas' = [mem2_areas EXCEPT ![a] = Heap!NoArea] /\ Arena2Hi' = mem2_areas[a].old_arena2hi
  BY DEF Heap!RemoveMem2Area
<1>4. ChainOf(mem2_areas', Arena2Hi')
  BY <1>1, <1>2, <1>3, AreaRemoved
<1>5. Heap!Forget(a) /\ cells' = [c \in Bottom..Top - 1 |-> cells'[c]]
  BY <1>1 DEF Heap!RemoveMem2Area, LeftOf
<1>6. \A i \in Areas \ {a} : mem2_areas'[i] = mem2_areas[i]
  BY <1>1, <1>3 DEF ChainOf
<1>7. \A o \in LiveOf(blocks) : blocks[o].area # a => Whole(cells', blocks[o]) = Whole(cells, blocks[o])
  BY <1>1
<1> QED BY <1>4, <1>5, <1>6, <1>7, Forgets

LEMMA AreaComes ==
  ASSUME Heap!MemoryAssumption, HeapInv, NEW a \in Areas, NEW size \in Sizes, Heap!AddMem2Area(a, size)
  PROVE  HeapInv'
<1> DEFINE hi == IF mem2_areas[a].size > 0 THEN mem2_areas[a].old_arena2hi ELSE Arena2Hi
           without == [mem2_areas EXCEPT ![a] = Heap!NoArea]
<1>1. ChainOf(mem2_areas, Arena2Hi) /\ LeftOf(blocks, cells, left) /\ cells' = cells
  BY DEF HeapInv, Heap!AddMem2Area
<1>2. /\ size \in Nat \ {0} /\ Heap!Forget(a) /\ (mem2_areas[a].size > 0 => RemovableOf(mem2_areas, a))
      /\ IF Heap!Fits(hi, size)
         THEN mem2_areas' = Heap!Made(without, a, hi, size) /\ Arena2Hi' = Heap!Place(hi, size)
         ELSE mem2_areas' = without /\ Arena2Hi' = hi
  BY DEF Heap!AddMem2Area, Heap!Removable, RemovableOf, Heap!MemoryAssumption
<1>3. without[a].size = 0 /\ without = [i \in Areas |-> without[i]] /\ \A i \in Areas \ {a} : without[i] = mem2_areas[i]
  BY <1>1 DEF ChainOf, Heap!NoArea
<1>4. ChainOf(without, hi)
  <2>1. CASE mem2_areas[a].size > 0
    BY <2>1, <1>1, <1>2, AreaRemoved
  <2>2. CASE ~(mem2_areas[a].size > 0)
    <3>1. mem2_areas[a] = Heap!NoArea
      BY <2>2, <1>1 DEF ChainOf, IsArea
    <3>2. without = mem2_areas
      BY <3>1, <1>1 DEF ChainOf
    <3> QED BY <2>2, <3>2, <1>1
  <2> QED BY <2>1, <2>2
<1> HIDE DEF hi, without
<1>5. ChainOf(mem2_areas', Arena2Hi')
  <2>1. CASE Heap!Fits(hi, size)
    BY <2>1, <1>2, <1>3, <1>4, AreaAdded
  <2>2. CASE ~Heap!Fits(hi, size)
    BY <2>2, <1>2, <1>4
  <2> QED BY <2>1, <2>2
<1>6. \A i \in Areas \ {a} : mem2_areas'[i] = mem2_areas[i]
  BY <1>2, <1>3 DEF Heap!Made
<1>7. cells' = [c \in Bottom..Top - 1 |-> cells'[c]]
  BY <1>1 DEF LeftOf
<1>8. \A o \in LiveOf(blocks) : blocks[o].area # a => Whole(cells', blocks[o]) = Whole(cells, blocks[o])
  BY <1>1
<1> QED BY <1>2, <1>5, <1>6, <1>7, <1>8, Forgets

\* The area itself is like one block of it: clearing it touches no other area.
LEMMA AreaCleared ==
  ASSUME Heap!MemoryAssumption, HeapInv, NEW a \in Areas, Heap!ClearMem2Area(a)
  PROVE  HeapInv'
<1> DEFINE area == mem2_areas[a]
           b == [area |-> a, at |-> area.heap_ptr, len |-> 1, size |-> area.size]
<1>1. ChainOf(mem2_areas, Arena2Hi) /\ HeldOf(mem2_areas, blocks) /\ LeftOf(blocks, cells, left)
  BY DEF HeapInv
<1>2. Heap!Forget(a) /\ area.size # 0 /\ UNCHANGED <<mem2_areas, Arena2Hi>>
  BY DEF Heap!ClearMem2Area
<1>3. IsArea(area) /\ a \in MadeOf(mem2_areas)
  BY <1>1, <1>2 DEF ChainOf, IsArea, MadeOf, Heap!NoArea
<1>4. IsBlock(mem2_areas, b)
  BY <1>3 DEF IsBlock, IsArea
<1>5. DOMAIN cells = Bottom..Top - 1
  BY <1>1 DEF LeftOf
<1>6. cells' = [c \in Bottom..Top - 1 |->
                  IF c \in area.heap_ptr..(area.heap_ptr + area.size - 1) THEN 0 ELSE cells[c]]
  BY <1>5 DEF Heap!ClearMem2Area
<1>7. WritesOnly(cells, b, cells')
  BY <1>6 DEF WritesOnly
<1>8. b.area = a
  OBVIOUS
<1> HIDE DEF b
<1>9. ASSUME NEW o \in LiveOf(blocks), blocks[o].area # a PROVE Whole(cells', blocks[o]) = Whole(cells, blocks[o])
  <2>1. IsBlock(mem2_areas, blocks[o])
    BY <1>1, LiveHasBlock
  <2>2. Apart(b, blocks[o])
    BY <1>1, <1>4, <1>8, <1>9, <2>1, AreasApart
  <2> QED BY <1>1, <1>4, <1>7, <2>1, <2>2, NotTouched
<1>10. ChainOf(mem2_areas', Arena2Hi') /\ \A i \in Areas \ {a} : mem2_areas'[i] = mem2_areas[i]
  BY <1>1, <1>2
<1>11. cells' = [c \in Bottom..Top - 1 |-> cells'[c]]
  BY <1>7 DEF WritesOnly
<1> QED BY <1>2, <1>9, <1>10, <1>11, Forgets

LEMMA HeapStarts == ASSUME Heap!MemoryAssumption, Heap!Init PROVE HeapInv
<1>1. ChainOf(mem2_areas, Arena2Hi)
  <2>1. mem2_areas = [a \in Areas |-> Heap!NoArea] /\ Arena2Hi = Top
    BY DEF Heap!Init
  <2>2. MadeOf(mem2_areas) = {} /\ \A a \in Areas : mem2_areas[a] = Heap!NoArea
    BY <2>1 DEF MadeOf, Heap!NoArea
  <2>3. mem2_areas = [a \in Areas |-> mem2_areas[a]]
    BY <2>1
  <2> QED BY <2>1, <2>2, <2>3 DEF ChainOf, Heap!MemoryAssumption
<1>2. LiveOf(blocks) = {} /\ blocks = [o \in Owners |-> blocks[o]] /\ \A o \in Owners : blocks[o] = Heap!None
  BY DEF Heap!Init, LiveOf, Heap!None
<1>3. HeldOf(mem2_areas, blocks)
  BY <1>2 DEF HeldOf
<1>4. LeftOf(blocks, cells, left)
  BY <1>2 DEF LeftOf, Heap!Init
<1> QED BY <1>1, <1>3, <1>4 DEF HeapInv

LEMMA HeapHolds == ASSUME Heap!MemoryAssumption PROVE Heap!Spec => []HeapInv
<1>1. Heap!Init => HeapInv
  BY HeapStarts
<1>2. HeapInv /\ [Heap!Next]_(Heap!vars) => HeapInv'
  <2> SUFFICES ASSUME HeapInv, [Heap!Next]_(Heap!vars) PROVE HeapInv'
    OBVIOUS
  <2>1. CASE UNCHANGED Heap!vars
    BY <2>1 DEF HeapInv, Heap!vars
  <2>2. CASE Heap!Next
    <3>1. ASSUME NEW a \in Areas, Heap!RemoveMem2Area(a) PROVE HeapInv'
      BY <3>1, AreaGoes
    <3>2. ASSUME NEW a \in Areas, Heap!ClearMem2Area(a) PROVE HeapInv'
      BY <3>2, AreaCleared
    <3>3. ASSUME NEW a \in Areas, NEW size \in Sizes, Heap!AddMem2Area(a, size) PROVE HeapInv'
      BY <3>3, AreaComes
    <3>4. ASSUME NEW o \in Owners, NEW a \in Areas, NEW size \in Sizes, NEW mark \in Fills, Heap!malloc(o, a, size, mark)
          PROVE  HeapInv'
      BY <3>4, Mallocs
    <3>5. ASSUME NEW o \in Owners, NEW a \in Areas, NEW num \in Counts, NEW size \in Sizes, Heap!calloc(o, a, num, size)
          PROVE  HeapInv'
      BY <3>5, Callocs
    <3>6. ASSUME NEW o \in Owners, NEW p \in Owners, NEW a \in Areas, NEW n \in Sizes, Heap!strndup(o, a, p, n)
          PROVE  HeapInv'
      BY <3>6, Strndups
    <3>7. ASSUME NEW o \in Owners, Heap!free(o) PROVE HeapInv'
      BY <3>7, Frees
    <3>8. ASSUME NEW o \in Owners, NEW newsize \in Sizes, Heap!realloc(o, newsize) PROVE HeapInv'
      BY <3>8, Reallocs
    <3> QED BY <2>2, <3>1, <3>2, <3>3, <3>4, <3>5, <3>6, <3>7, <3>8 DEF Heap!Next
  <2> QED BY <2>1, <2>2
<1> QED BY <1>1, <1>2, PTL DEF Heap!Spec

\* The areas lie one below the other from the top of the arena, every block lies
\* in its area and no other's cells, and what an owner left in its block is
\* there after any calls, for any areas, sizes and owners
\* (mem2_manager.c:102-215, 218-402).
THEOREM BlocksStay == ASSUME Heap!MemoryAssumption PROVE Heap!Spec => []Heap!BlocksHold
<1>1. HeapInv => Heap!BlocksHold
  <2> SUFFICES ASSUME HeapInv PROVE Heap!BlocksHold
    OBVIOUS
  <2> DEFINE made == MadeOf(mem2_areas)
             ends == {Top} \cup {mem2_areas[a].heap_ptr : a \in made}
  <2>1. ChainOf(mem2_areas, Arena2Hi) /\ HeldOf(mem2_areas, blocks) /\ LeftOf(blocks, cells, left)
    BY DEF HeapInv
  <2>2. \A a \in made : IsArea(mem2_areas[a])
    BY <2>1 DEF ChainOf, MadeOf, Heap!NoArea
  <2>3. Arena2Hi = Heap!Min(ends)
    <3>1. Arena2Hi \in ends /\ Arena2Hi \in Nat
      BY <2>1 DEF ChainOf
    <3>2. \A y \in ends : y \in Nat /\ Arena2Hi <= y
      <4>1. \A a \in made : mem2_areas[a].heap_ptr \in Nat /\ Arena2Hi <= mem2_areas[a].heap_ptr
                            /\ mem2_areas[a].heap_ptr <= Top
        <5> TAKE a \in made
        <5>1. IsArea(mem2_areas[a]) /\ Arena2Hi <= mem2_areas[a].heap_ptr /\ Top \in Nat
          BY <2>1, <2>2 DEF ChainOf, Heap!MemoryAssumption
        <5> HIDE DEF made
        <5> QED BY <5>1 DEF IsArea
      <4>2. Top \in Nat /\ Arena2Hi <= Top
        BY <4>1, <2>1 DEF ChainOf, Heap!MemoryAssumption
      <4> QED BY <4>1, <4>2
    <3> HIDE DEF ends
    <3>3. \A x \in ends : (\A y \in ends : x <= y) => x = Arena2Hi
      BY <3>1, <3>2
    <3> QED BY <3>1, <3>2, <3>3 DEF Heap!Min
  <2>4. \A a \in made :
          /\ mem2_areas[a].heap_ptr >= Bottom
          /\ mem2_areas[a].heap_ptr + mem2_areas[a].size <= mem2_areas[a].old_arena2hi
          /\ mem2_areas[a].old_arena2hi \in ends
    <3> TAKE a \in made
    <3>1. mem2_areas[a].old_arena2hi \in ends
      BY <2>1 DEF ChainOf
    <3>2. IsArea(mem2_areas[a]) /\ Bottom \in Nat
      BY <2>2 DEF Heap!MemoryAssumption
    <3> QED BY <3>1, <3>2 DEF IsArea
  <2>5. \A a, i \in made : a # i => mem2_areas[a].old_arena2hi # mem2_areas[i].old_arena2hi
    <3> TAKE a, i \in made
    <3>1. a # i => mem2_areas[a].old_arena2hi <= mem2_areas[i].heap_ptr
                   \/ mem2_areas[i].old_arena2hi <= mem2_areas[a].heap_ptr
      BY <2>1 DEF ChainOf
    <3>2. /\ mem2_areas[a].heap_ptr < mem2_areas[a].old_arena2hi
          /\ mem2_areas[i].heap_ptr < mem2_areas[i].old_arena2hi
          /\ mem2_areas[a].heap_ptr \in Nat /\ mem2_areas[i].heap_ptr \in Nat
          /\ mem2_areas[a].old_arena2hi \in Nat /\ mem2_areas[i].old_arena2hi \in Nat
      <4>1. IsArea(mem2_areas[a]) /\ IsArea(mem2_areas[i])
        BY <2>2
      <4> HIDE DEF made
      <4> QED BY <4>1 DEF IsArea
    <3> QED BY <3>1, <3>2
  <2> HIDE DEF ends
  <2>6. ASSUME NEW o \in LiveOf(blocks)
        PROVE  LET area == mem2_areas[blocks[o].area]
               IN  /\ Heap!Cells(blocks[o]) \subseteq area.heap_ptr..(area.heap_ptr + area.size - 1)
                   /\ \A p \in LiveOf(blocks) \ {o} : Heap!Cells(blocks[o]) \cap Heap!Cells(blocks[p]) = {}
                   /\ Heap!Contents(cells, blocks[o].at, blocks[o].len) = left[o]
    <3> DEFINE area == mem2_areas[blocks[o].area]
               b == blocks[o]
    <3>1. IsBlock(mem2_areas, b) /\ IsArea(area)
      BY <2>1, <2>2, LiveHasBlock DEF IsBlock
    <3>2. /\ b.at \in Nat /\ b.size \in Nat \ {0} /\ area.heap_ptr \in Nat /\ area.size \in Nat
          /\ area.heap_ptr <= b.at /\ b.at + b.size <= area.heap_ptr + area.size
      BY <3>1 DEF IsBlock, IsArea
    <3>3. ASSUME NEW p \in LiveOf(blocks) \ {o} PROVE Heap!Cells(b) \cap Heap!Cells(blocks[p]) = {}
      <4> DEFINE c == blocks[p]
      <4>1. IsBlock(mem2_areas, c) /\ Apart(b, c)
        BY <2>1, LiveHasBlock DEF HeldOf
      <4>2. c.at \in Nat /\ c.size \in Nat \ {0} /\ (b.at + b.size <= c.at \/ c.at + c.size <= b.at)
        BY <4>1 DEF IsBlock, Apart
      <4> HIDE DEF b, c
      <4> QED BY <3>2, <4>2, Intervals DEF Heap!Cells, c
    <3>4. Heap!Contents(cells, b.at, b.len) = left[o]
      BY <2>1 DEF LeftOf, Whole, Heap!Contents
    <3> HIDE DEF area, b
    <3>5. Heap!Cells(b) \subseteq area.heap_ptr..(area.heap_ptr + area.size - 1)
      BY <3>2 DEF Heap!Cells
    <3> QED BY <3>3, <3>4, <3>5 DEF area, b
  <2>7. made = {a \in Areas : mem2_areas[a].size > 0} /\ LiveOf(blocks) = Heap!Live
    BY DEF MadeOf, LiveOf, Heap!Live
  <2> HIDE DEF made
  <2> QED BY <2>3, <2>4, <2>5, <2>6, <2>7 DEF Heap!BlocksHold, ends
<1> QED BY <1>1, HeapHolds, PTL

-----------------------------------------------------------------------------
(* Keyboard: the caret of the text that is typed.                          *)

CONSTANTS Keys, Width, MAX_KEYBOARD_DISPLAY, MaxWidth, MaxLen, Messages, Clicks, Texts
VARIABLES var, open, kbtextstr, CurrentFirstLetter, LetterNumInLine, Position_X, shift, caps

Typing == INSTANCE Keyboard

Glyphs == DOMAIN Width

\* Two sequences of known lengths.
IsJoin(r, s, m, t, n, S) ==
  r \in Seq(S) /\ Len(r) = m + n /\ \A i \in 1..(m + n) : r[i] = IF i <= m THEN s[i] ELSE t[i - m]

LEMMA JoinedTwo ==
  ASSUME NEW S, NEW s \in Seq(S), NEW t \in Seq(S), NEW m, NEW n, Len(s) = m, Len(t) = n
  PROVE  IsJoin(s \o t, s, m, t, n, S)
  BY ConcatProperties, Zenon DEF IsJoin

\* A width is a number.
LEMMA WidthIsNat == ASSUME Typing!KeyboardAssumption, NEW s \in Seq(Glyphs) PROVE Typing!getWidth(s) \in Nat
<1> DEFINE n == Len(s)
           step == [i \in 1..n |-> [x \in Nat |-> x + Width[s[i]]]]
           F(f) == [i \in 0..n |-> IF i = 0 THEN 0 ELSE f[i - 1] + Width[s[i]]]
           g == CHOOSE f : f = F(f)
<1>1. n \in Nat /\ \A i \in 1..n : Width[s[i]] \in Nat
  <2>1. \A i \in 1..n : s[i] \in Glyphs
    BY ElementOfSeq
  <2> QED BY <2>1, LenProperties DEF Typing!KeyboardAssumption, Glyphs
<1>2. PICK f : Iterates(f, n, 0, step) /\ \A i \in 0..n : f[i] \in Nat
  <2>1. StepsIn(Nat, n, step)
    <3>1. \A i \in 1..n : [x \in Nat |-> x + Width[s[i]]] \in [Nat -> Nat]
      BY <1>1
    <3> HIDE DEF n
    <3> QED BY <3>1 DEF StepsIn
  <2> HIDE DEF n, step
  <2> QED BY <1>1, <2>1, Iteration
<1>3. f = F(f)
  <2>1. f = [i \in 0..n |-> f[i]] /\ f[0] = 0 /\ \A i \in 1..n : f[i] = step[i][f[i - 1]]
    BY <1>2 DEF Iterates
  <2>2. ASSUME NEW i \in 1..n PROVE f[i] = f[i - 1] + Width[s[i]]
    <3>1. f[i - 1] \in Nat /\ f[i] = step[i][f[i - 1]]
      <4>1. i - 1 \in 0..n
        BY <1>1
      <4> HIDE DEF step, n
      <4> QED BY <1>2, <2>1, <4>1
    <3> QED BY <3>1
  <2>3. ASSUME NEW i \in 0..n PROVE f[i] = IF i = 0 THEN 0 ELSE f[i - 1] + Width[s[i]]
    <3>1. CASE i = 0
      BY <2>1, <3>1
    <3>2. CASE i # 0
      <4>1. i \in 1..n
        BY <1>1, <3>2
      <4> QED BY <2>2, <3>2, <4>1
    <3> QED BY <3>1, <3>2
  <2> HIDE DEF step, n
  <2> QED BY <2>1, <2>3, Zenon
<1>4. g = F(g)
  BY <1>3, Zenon
<1>5. Typing!getWidth(s) = g[n]
  BY Zenon DEF Typing!getWidth
<1> HIDE DEF g, n
<1>6. g[0] = 0 /\ \A i \in 1..n : g[i] = g[i - 1] + Width[s[i]]
  BY <1>1, <1>4
<1> DEFINE T == {i \in 0..n : g[i] \in Nat}
<1>7. 0 \in T /\ \A i \in 1..n : i - 1 \in T => i \in T
  BY <1>1, <1>6
<1>8. \A i \in 0..n : i \in T
  <2> HIDE DEF T
  <2> QED BY <1>1, <1>7, Induction
<1> QED BY <1>1, <1>5, <1>8

\* The smallest of some numbers.
LEMMA SmallestOf == ASSUME NEW T \in SUBSET Nat, T # {} PROVE Typing!Min(T) \in T /\ \A y \in T : Typing!Min(T) <= y
<1>1. \E x \in T : \A y \in T : x <= y
  BY Smallest
<1> QED BY <1>1 DEF Typing!Min

\* The first letter shown is in the text, or behind it; of a text that fits it
\* is the first.
LEMMA FirstShown ==
  ASSUME Typing!KeyboardAssumption, NEW t \in Seq(Glyphs)
  PROVE  /\ Typing!CalcMaxLine(t) \in 0..Len(t)
         /\ Typing!getWidth(t) < MAX_KEYBOARD_DISPLAY => Typing!CalcMaxLine(t) = 0
<1> DEFINE Fits(n) == n = Len(t) \/ Typing!getWidth(Typing!Suffix(t, n)) < MAX_KEYBOARD_DISPLAY
           T == {n \in 0..Len(t) : Fits(n)}
<1>1. Len(t) \in Nat
  BY LenProperties
<1>2. Len(t) \in T /\ T \in SUBSET Nat
  BY <1>1
<1>3. Typing!CalcMaxLine(t) = Typing!Min(T)
  BY DEF Typing!CalcMaxLine
<1>4. Typing!Min(T) \in T /\ \A y \in T : Typing!Min(T) <= y
  <2> HIDE DEF T
  <2> QED BY <1>2, SmallestOf
<1>5. ASSUME Typing!getWidth(t) < MAX_KEYBOARD_DISPLAY PROVE 0 \in T
  <2>1. Typing!Suffix(t, 0) = t
    BY <1>1, SubSeqFull DEF Typing!Suffix
  <2> QED BY <1>1, <1>5, <2>1
<1>6. T \subseteq 0..Len(t)
  OBVIOUS
<1>7. Typing!CalcMaxLine(t) \in 0..Len(t) /\ \A y \in T : Typing!CalcMaxLine(t) <= y
  <2> HIDE DEF T
  <2> QED BY <1>3, <1>4, <1>6
<1>8. Typing!getWidth(t) < MAX_KEYBOARD_DISPLAY => Typing!CalcMaxLine(t) <= 0
  <2> HIDE DEF T
  <2> QED BY <1>5, <1>7
<1> QED BY <1>1, <1>7, <1>8

\* The line of the caret is a part of the text, from the first letter shown,
\* unless a message is shown; and of a text that fits it is the text.
LEMMA LineShown ==
  ASSUME Typing!KeyboardAssumption, NEW t \in Seq(Glyphs)
  PROVE  /\ Len(Typing!GetTextLine(t)) \in Nat
         /\ Typing!AsTyped(t) =>
              /\ Typing!CalcMaxLine(t) + Len(Typing!GetTextLine(t)) <= Len(t)
              /\ \A n \in 0..Len(Typing!GetTextLine(t)) :
                   SubSeq(Typing!GetTextLine(t), 1, n)
                     = SubSeq(t, Typing!CalcMaxLine(t) + 1, Typing!CalcMaxLine(t) + n)
         /\ Typing!Fits(t) => Typing!GetTextLine(t) = t
<1> DEFINE k == Typing!CalcMaxLine(t)
           s == Typing!GetDisplayText(t)
           T == {i - 1 : i \in {j \in DOMAIN s : s[j] = "nl"}} \cup {Len(s)}
<1>1. Len(t) \in Nat /\ k \in 0..Len(t) /\ (Typing!getWidth(t) < MAX_KEYBOARD_DISPLAY => k = 0)
  BY FirstShown, LenProperties
<1>2. Typing!Suffix(t, k) \in Seq(Glyphs) /\ Len(Typing!Suffix(t, k)) = Len(t) - k
      /\ \A i \in 1..(Len(t) - k) : Typing!Suffix(t, k)[i] = t[k + i]
  <2> HIDE DEF k
  <2> QED BY <1>1, SubSeqProperties DEF Typing!Suffix
<1>3. s \in Seq(Glyphs) /\ (Typing!AsTyped(t) => s = Typing!Suffix(t, k))
  BY <1>2 DEF Typing!GetDisplayText, Typing!AsTyped, Typing!KeyboardAssumption, Glyphs
<1> HIDE DEF s
<1>4. Len(s) \in Nat /\ DOMAIN s = 1..Len(s)
  BY <1>3, LenProperties
<1>5. PICK m \in 0..Len(s) : m = Typing!Min(T) /\ (m # Len(s) => \E j \in 1..Len(s) : s[j] = "nl")
  <2>1. Len(s) \in T /\ T \in SUBSET Nat
    BY <1>4
  <2>2. Typing!Min(T) \in T /\ Typing!Min(T) <= Len(s)
    <3> HIDE DEF T
    <3> QED BY <2>1, SmallestOf
  <2>3. \A x \in T : x <= Len(s) => x \in 0..Len(s)
    BY <1>4
  <2>4. \A x \in T : x = Len(s) \/ \E j \in 1..Len(s) : s[j] = "nl"
    BY <1>4
  <2> HIDE DEF T
  <2>5. Typing!Min(T) \in 0..Len(s)
    BY <2>2, <2>3, Zenon
  <2> QED BY <2>2, <2>4, <2>5
<1> DEFINE line == SubSeq(s, 1, m)
<1>6. Typing!GetTextLine(t) = line
  BY <1>5 DEF Typing!GetTextLine, s
<1> HIDE DEF k, T
<1>7. line \in Seq(Glyphs) /\ Len(line) = m /\ \A i \in 1..m : line[i] = s[i]
  <2>1. \A i \in 1..m : s[i] \in Glyphs
    BY <1>3, <1>4, <1>5, ElementOfSeq
  <2> QED BY <1>4, <1>5, <2>1, SubSeqProperties
<1> HIDE DEF line
<1>8. ASSUME Typing!AsTyped(t)
      PROVE  k + m <= Len(t) /\ \A n \in 0..m : SubSeq(line, 1, n) = SubSeq(t, k + 1, k + n)
  <2>1. k + m <= Len(t)
    BY <1>1, <1>2, <1>3, <1>5, <1>8
  <2>2. ASSUME NEW n \in 0..m PROVE SubSeq(line, 1, n) = SubSeq(t, k + 1, k + n)
    <3>1. SubSeq(line, 1, n) \in Seq(Glyphs) /\ Len(SubSeq(line, 1, n)) = n
          /\ \A i \in 1..n : SubSeq(line, 1, n)[i] = line[i]
      BY <1>5, <1>7, SubSeqProperties
    <3>2. SubSeq(t, k + 1, k + n) \in Seq(Glyphs) /\ Len(SubSeq(t, k + 1, k + n)) = n
          /\ \A i \in 1..n : SubSeq(t, k + 1, k + n)[i] = t[k + i]
      BY <1>1, <1>5, <2>1, SubSeqProperties
    <3>3. ASSUME NEW i \in 1..n PROVE line[i] = t[k + i]
      <4>1. i \in 1..m /\ i \in 1..(Len(t) - k)
        BY <1>1, <1>5, <2>1
      <4>2. line[i] = s[i] /\ s[i] = Typing!Suffix(t, k)[i]
        BY <1>3, <1>7, <1>8, <4>1
      <4> QED BY <1>2, <4>1, <4>2
    <3> DEFINE a == SubSeq(line, 1, n)  b == SubSeq(t, k + 1, k + n)
    <3> HIDE DEF a, b
    <3>4. a \in Seq(Glyphs) /\ b \in Seq(Glyphs) /\ Len(a) = n /\ Len(b) = n /\ \A i \in 1..n : a[i] = b[i]
      BY <3>1, <3>2, <3>3 DEF a, b
    <3> QED BY <3>4, SeqEqual DEF a, b
  <2> QED BY <2>1, <2>2
<1>9. ASSUME Typing!Fits(t) PROVE line = t
  <2>1. k = 0 /\ Typing!AsTyped(t) /\ "nl" \notin Typing!Range(t)
    BY <1>1, <1>9 DEF Typing!Fits
  <2>2. s = t
    BY <1>1, <1>3, <2>1, SubSeqFull DEF Typing!Suffix
  <2>3. m = Len(t)
    <3>1. \A j \in 1..Len(t) : t[j] # "nl"
      BY <1>1, <2>1, <2>2, <1>4 DEF Typing!Range
    <3> QED BY <1>5, <2>2, <3>1
  <2> QED BY <2>2, <2>3, SubSeqFull DEF line
<1>10. m \in Nat
  BY <1>4, <1>5
<1> QED BY <1>6, <1>7, <1>8, <1>9, <1>10, Zenon DEF k

\* Where the caret is set: in the line, where it was meant to be if that is in it.
LEMMA CaretSet ==
  ASSUME Typing!KeyboardAssumption, NEW t \in Seq(Glyphs), NEW p \in Int, Typing!SetLetterPosition(t, p)
  PROVE  /\ LetterNumInLine' \in 0..Len(Typing!GetTextLine(t))
         /\ p \in 0..Len(Typing!GetTextLine(t)) => LetterNumInLine' = p
         /\ Position_X' = Typing!getWidth(SubSeq(Typing!GetTextLine(t), 1, LetterNumInLine'))
<1> DEFINE line == Typing!GetTextLine(t)
           n == IF p <= 0 THEN 0 ELSE Typing!Min({p, Len(line)})
<1>1. Len(line) \in Nat
  BY LineShown
<1>2. LetterNumInLine' = n /\ Position_X' = Typing!getWidth(SubSeq(line, 1, n))
  BY DEF Typing!SetLetterPosition
<1>3. n \in 0..Len(line) /\ (p \in 0..Len(line) => n = p)
  <2>1. CASE p <= 0
    BY <1>1, <2>1
  <2>2. CASE p > 0
    <3>1. {p, Len(line)} \in SUBSET Nat /\ {p, Len(line)} # {}
      BY <1>1, <2>2
    <3>2. Typing!Min({p, Len(line)}) \in {p, Len(line)}
          /\ Typing!Min({p, Len(line)}) <= p /\ Typing!Min({p, Len(line)}) <= Len(line)
      BY <3>1, SmallestOf
    <3> HIDE DEF line
    <3> QED BY <1>1, <2>2, <3>2
  <2> QED BY <2>1, <2>2
<1> QED BY <1>2, <1>3

\* The caret is in the text, at the end of the letters before it.
CaretIn(t, first, n, x) ==
  /\ t \in Seq(Glyphs) /\ first = Typing!CalcMaxLine(t) /\ n \in Nat
  /\ Typing!AsTyped(t) => first + n <= Len(t) /\ x = Typing!getWidth(SubSeq(t, first + 1, first + n))

TypedInv ==
  /\ var \in Seq(Glyphs) /\ open \in BOOLEAN
  /\ open => CaretIn(kbtextstr, CurrentFirstLetter, LetterNumInLine, Position_X)

CaretIn_next(t) == CaretIn(t, CurrentFirstLetter', LetterNumInLine', Position_X')

LEMMA InLine ==
  ASSUME Typing!KeyboardAssumption, NEW t \in Seq(Glyphs), NEW n \in 0..Len(Typing!GetTextLine(t))
  PROVE  CaretIn(t, Typing!CalcMaxLine(t), n, Typing!getWidth(SubSeq(Typing!GetTextLine(t), 1, n)))
<1>1. Len(Typing!GetTextLine(t)) \in Nat /\ Typing!CalcMaxLine(t) \in 0..Len(t) /\ Len(t) \in Nat
  BY LineShown, FirstShown, LenProperties
<1>2. ASSUME Typing!AsTyped(t)
      PROVE  /\ Typing!CalcMaxLine(t) + n <= Len(t)
             /\ SubSeq(Typing!GetTextLine(t), 1, n) = SubSeq(t, Typing!CalcMaxLine(t) + 1, Typing!CalcMaxLine(t) + n)
  <2>1. Typing!CalcMaxLine(t) + Len(Typing!GetTextLine(t)) <= Len(t)
    BY <1>2, LineShown
  <2>2. SubSeq(Typing!GetTextLine(t), 1, n) = SubSeq(t, Typing!CalcMaxLine(t) + 1, Typing!CalcMaxLine(t) + n)
    BY <1>2, LineShown
  <2> QED BY <1>1, <2>1, <2>2
<1>3. n \in Nat
  BY <1>1
<1> QED BY <1>2, <1>3, Zenon DEF CaretIn

\* However the caret was set.
LEMMA CaretPlaced ==
  ASSUME Typing!KeyboardAssumption, NEW t \in Seq(Glyphs), NEW p \in Int,
         CurrentFirstLetter' = Typing!CalcMaxLine(t), Typing!SetLetterPosition(t, p)
  PROVE  CaretIn_next(t)
<1>1. LetterNumInLine' \in 0..Len(Typing!GetTextLine(t))
      /\ Position_X' = Typing!getWidth(SubSeq(Typing!GetTextLine(t), 1, LetterNumInLine'))
  BY CaretSet
<1> QED BY <1>1, InLine DEF CaretIn_next

\* A letter more, and a letter less.
LEMMA LetterPut ==
  ASSUME NEW t \in Seq(Glyphs), NEW k \in 0..Len(t), NEW c \in Glyphs
  PROVE  /\ Typing!InsertAt(t, k + 1, c) \in Seq(Glyphs) /\ Len(Typing!InsertAt(t, k + 1, c)) = Len(t) + 1
         /\ Typing!RemoveAt(Typing!InsertAt(t, k + 1, c), k + 1) = t
<1> DEFINE u == Typing!InsertAt(t, k + 1, c)
           a == SubSeq(t, 1, k)
           b == SubSeq(t, k + 1, Len(t))
<1>1. Len(t) \in Nat /\ \A i \in 1..Len(t) : t[i] \in Glyphs
  BY LenProperties, ElementOfSeq
<1>2. a \in Seq(Glyphs) /\ Len(a) = k /\ \A i \in 1..k : a[i] = t[i]
  BY <1>1, SubSeqProperties
<1>3. b \in Seq(Glyphs) /\ Len(b) = Len(t) - k /\ \A i \in 1..(Len(t) - k) : b[i] = t[k + i]
  BY <1>1, SubSeqProperties
<1>4. u = (a \o <<c>>) \o b
  <2>1. (k + 1) - 1 = k
    BY <1>1
  <2> QED BY <2>1 DEF Typing!InsertAt
<1> HIDE DEF a, b, u
<1>5. u \in Seq(Glyphs) /\ Len(u) = Len(t) + 1
      /\ (\A i \in 1..k : u[i] = t[i]) /\ (\A i \in 1..(Len(t) - k) : u[k + 1 + i] = t[k + i])
  <2> DEFINE d == a \o <<c>>
  <2>1. <<c>> \in Seq(Glyphs) /\ Len(<<c>>) = 1
    OBVIOUS
  <2>2. IsJoin(d, a, k, <<c>>, 1, Glyphs)
    BY <1>2, <2>1, JoinedTwo, Zenon
  <2> HIDE DEF d
  <2>3. d \in Seq(Glyphs) /\ Len(d) = k + 1 /\ \A i \in 1..k : d[i] = t[i]
    <3>1. \A i \in 1..k : i \in 1..(k + 1) /\ i <= k
      OBVIOUS
    <3> QED BY <1>2, <2>2, <3>1 DEF IsJoin
  <2> DEFINE e == d \o b
             rest == Len(t) - k
  <2>4. IsJoin(e, d, k + 1, b, rest, Glyphs)
    BY <1>3, <2>3, JoinedTwo, Zenon
  <2> HIDE DEF e
  <2>5. rest \in Nat /\ (k + 1) + rest = Len(t) + 1
    BY <1>1
  <2>6. \A i \in 1..k : e[i] = t[i]
    <3>1. \A i \in 1..k : i \in 1..((k + 1) + rest) /\ i <= k + 1
      BY <2>5
    <3> HIDE DEF rest
    <3> QED BY <2>3, <2>4, <3>1 DEF IsJoin
  <2>7. ASSUME NEW i \in 1..rest PROVE e[k + 1 + i] = t[k + i]
    <3>1. k + 1 + i \in 1..((k + 1) + rest) /\ ~(k + 1 + i <= k + 1) /\ (k + 1 + i) - (k + 1) = i
      BY <2>5
    <3>2. e[k + 1 + i] = b[i]
      <4> HIDE DEF rest
      <4> QED BY <2>4, <3>1 DEF IsJoin
    <3> QED BY <1>3, <3>2
  <2>8. e \in Seq(Glyphs) /\ Len(e) = Len(t) + 1
    BY <2>4, <2>5 DEF IsJoin
  <2>9. u = e
    BY <1>4 DEF d, e
  <2> QED BY <2>6, <2>7, <2>8, <2>9
<1> DEFINE v == SubSeq(u, 1, k)
           w == SubSeq(u, k + 2, Len(u))
<1>6. \A i \in 1..Len(u) : u[i] \in Glyphs
  BY <1>5, ElementOfSeq
<1>7. v \in Seq(Glyphs) /\ Len(v) = k /\ \A i \in 1..k : v[i] = u[i]
  BY <1>1, <1>5, <1>6, SubSeqProperties
<1>8. w \in Seq(Glyphs) /\ Len(w) = Len(t) - k /\ \A i \in 1..(Len(t) - k) : w[i] = u[k + 1 + i]
  <2>1. \A i \in (k + 2)..Len(u) : u[i] \in Glyphs
    BY <1>1, <1>6
  <2>2. k + 2 \in Int /\ Len(u) \in Int
    BY <1>1, <1>5
  <2>3. w \in Seq(Glyphs) /\ Len(w) = IF k + 2 <= Len(u) THEN Len(u) - (k + 2) + 1 ELSE 0
    BY <2>1, <2>2, SubSeqProperties
  <2>4. \A i \in 1..(Len(u) - (k + 2) + 1) : w[i] = u[k + 2 + i - 1]
    BY <2>1, <2>2, SubSeqProperties
  <2>5. Len(u) - (k + 2) + 1 = Len(t) - k /\ (k + 2 <= Len(u) <=> Len(t) - k > 0)
    BY <1>1, <1>5
  <2>6. \A i \in 1..(Len(t) - k) : k + 2 + i - 1 = k + 1 + i
    BY <1>1
  <2> HIDE DEF w
  <2> QED BY <1>1, <2>3, <2>4, <2>5, <2>6
<1>9. Typing!RemoveAt(u, k + 1) = v \o w
  <2>1. (k + 1) - 1 = k /\ (k + 1) + 1 = k + 2
    BY <1>1
  <2> QED BY <2>1 DEF Typing!RemoveAt
<1> HIDE DEF v, w
<1>10. v \o w \in Seq(Glyphs) /\ Len(v \o w) = Len(t) /\ \A i \in 1..Len(t) : (v \o w)[i] = t[i]
  <2>1. k + (Len(t) - k) = Len(t)
    BY <1>1
  <2>2. v \o w \in Seq(Glyphs) /\ Len(v \o w) = Len(t)
        /\ \A i \in 1..Len(t) : (v \o w)[i] = IF i <= k THEN v[i] ELSE w[i - k]
    BY <1>7, <1>8, <2>1, ConcatProperties
  <2>3. ASSUME NEW i \in 1..Len(t), i > k PROVE w[i - k] = t[i]
    <3>1. i - k \in 1..(Len(t) - k) /\ k + (i - k) = i
      BY <1>1, <2>3
    <3> QED BY <1>5, <1>8, <3>1
  <2>4. \A i \in 1..Len(t) : i <= k => v[i] = t[i]
    BY <1>5, <1>7
  <2> QED BY <1>1, <2>2, <2>3, <2>4
<1>11. v \o w = t
  BY <1>10, SeqEqual
<1> QED BY <1>5, <1>9, <1>11 DEF u

LEMMA LetterTaken ==
  ASSUME NEW t \in Seq(Glyphs), NEW k \in 1..Len(t)
  PROVE  Typing!RemoveAt(t, k) \in Seq(Glyphs) /\ Len(Typing!RemoveAt(t, k)) = Len(t) - 1
<1> DEFINE a == SubSeq(t, 1, k - 1)
           b == SubSeq(t, k + 1, Len(t))
<1>1. Len(t) \in Nat /\ \A i \in 1..Len(t) : t[i] \in Glyphs
  BY LenProperties, ElementOfSeq
<1>2. a \in Seq(Glyphs) /\ Len(a) = k - 1 /\ b \in Seq(Glyphs) /\ Len(b) = Len(t) - k
  BY <1>1, SubSeqProperties
<1> HIDE DEF a, b
<1>3. a \o b \in Seq(Glyphs) /\ Len(a \o b) = (k - 1) + (Len(t) - k)
  <2>1. \A p, q \in Seq(Glyphs) : p \o q \in Seq(Glyphs) /\ Len(p \o q) = Len(p) + Len(q)
    BY ConcatProperties
  <2> QED BY <1>2, <2>1, Zenon
<1>4. (k - 1) + (Len(t) - k) = Len(t) - 1
  BY <1>1
<1> QED BY <1>3, <1>4 DEF Typing!RemoveAt, a, b

\* What the caret moves to when letters came or went before it.
LEMMA CaretMoved ==
  ASSUME Typing!KeyboardAssumption, LetterNumInLine \in Nat, CurrentFirstLetter \in Nat,
         NEW t \in Seq(Glyphs), NEW n \in {-1, 1}, Typing!MoveText(t, n)
  PROVE  /\ CaretIn_next(t)
         /\ Typing!Fits(t) /\ CurrentFirstLetter = 0 /\ LetterNumInLine + n \in 0..Len(t) =>
              CurrentFirstLetter' = 0 /\ LetterNumInLine' = LetterNumInLine + n
<1> DEFINE k == Typing!CalcMaxLine(t)
           p == IF Typing!getWidth(t) > MAX_KEYBOARD_DISPLAY THEN LetterNumInLine
                ELSE LetterNumInLine + (k - CurrentFirstLetter + n)
<1>1. CurrentFirstLetter' = k /\ Typing!SetLetterPosition(t, p)
  BY DEF Typing!MoveText
<1>2. k \in Int
  <2>1. k \in 0..Len(t) /\ Len(t) \in Nat
    BY FirstShown, LenProperties
  <2> HIDE DEF k
  <2> QED BY <2>1
<1>3. p \in Int
  <2> HIDE DEF k
  <2> QED BY <1>2
<1>4. CaretIn_next(t)
  <2> HIDE DEF p
  <2> QED BY <1>1, <1>3, CaretPlaced
<1>5. ASSUME Typing!Fits(t), CurrentFirstLetter = 0, LetterNumInLine + n \in 0..Len(t)
      PROVE  CurrentFirstLetter' = 0 /\ LetterNumInLine' = LetterNumInLine + n
  <2>1. k = 0 /\ Typing!GetTextLine(t) = t
    BY <1>5, FirstShown, LineShown DEF Typing!Fits
  <2>2. p = LetterNumInLine + n
    <3>1. Typing!getWidth(t) \in Nat /\ MAX_KEYBOARD_DISPLAY \in Nat /\ Typing!getWidth(t) < MAX_KEYBOARD_DISPLAY
      BY <1>5, WidthIsNat DEF Typing!Fits, Typing!KeyboardAssumption
    <3>2. ~(Typing!getWidth(t) > MAX_KEYBOARD_DISPLAY)
      BY <3>1
    <3> HIDE DEF k
    <3> QED BY <1>5, <2>1, <3>2
  <2> HIDE DEF p, k
  <2>3. p \in 0..Len(Typing!GetTextLine(t)) => LetterNumInLine' = p
    BY <1>1, <1>3, CaretSet
  <2> QED BY <1>1, <1>5, <2>1, <2>2, <2>3
<1> QED BY <1>4, <1>5

\* Nothing to do with the caret.
LEMMA CaretStays ==
  ASSUME TypedInv, open, Typing!Same, UNCHANGED <<var, open>>
  PROVE  TypedInv'
  BY DEF TypedInv, CaretIn, Typing!Same

Follows ==
  (open /\ kbtextstr' # kbtextstr /\ Typing!Fits(kbtextstr) /\ Typing!Fits(kbtextstr')) =>
    \/ Typing!Caret' = Typing!Caret + 1 /\ Typing!RemoveAt(kbtextstr', Typing!Caret') = kbtextstr
    \/ Typing!Caret' = Typing!Caret - 1 /\ kbtextstr' = Typing!RemoveAt(kbtextstr, Typing!Caret)

\* Where a text that fits is typed into.
LEMMA InText ==
  ASSUME Typing!KeyboardAssumption, TypedInv, open
  PROVE  /\ kbtextstr \in Seq(Glyphs) /\ LetterNumInLine \in Nat /\ CurrentFirstLetter \in Nat
         /\ Len(kbtextstr) \in Nat /\ Typing!Caret = CurrentFirstLetter + LetterNumInLine
         /\ Typing!Fits(kbtextstr) => CurrentFirstLetter = 0
<1>1. kbtextstr \in Seq(Glyphs) /\ LetterNumInLine \in Nat /\ CurrentFirstLetter = Typing!CalcMaxLine(kbtextstr)
  BY DEF TypedInv, CaretIn
<1>2. Typing!CalcMaxLine(kbtextstr) \in 0..Len(kbtextstr) /\ Len(kbtextstr) \in Nat
  BY <1>1, FirstShown, LenProperties
<1>3. Typing!Fits(kbtextstr) => Typing!CalcMaxLine(kbtextstr) = 0
  BY <1>1, FirstShown DEF Typing!Fits
<1> QED BY <1>1, <1>2, <1>3 DEF Typing!Caret

LEMMA CharAdded ==
  ASSUME Typing!KeyboardAssumption, TypedInv, open, NEW c \in Glyphs, Typing!AddChar(c), UNCHANGED <<var, open>>
  PROVE  TypedInv' /\ Follows
<1> DEFINE k == Typing!Caret
           t == Typing!InsertAt(kbtextstr, k + 1, c)
<1>1. CASE k > Len(kbtextstr) \/ Len(kbtextstr) >= MaxLen
  <2>1. Typing!Same
    BY <1>1 DEF Typing!AddChar
  <2>2. kbtextstr' = kbtextstr
    BY <2>1 DEF Typing!Same
  <2> QED BY <2>1, <2>2, CaretStays DEF Follows
<1>2. CASE ~(k > Len(kbtextstr) \/ Len(kbtextstr) >= MaxLen)
  <2>1. kbtextstr' = t /\ Typing!MoveText(kbtextstr', 1)
    BY <1>2 DEF Typing!AddChar
  <2>2. k \in 0..Len(kbtextstr)
    BY <1>2, InText
  <2>3. t \in Seq(Glyphs) /\ Len(t) = Len(kbtextstr) + 1 /\ Typing!RemoveAt(t, k + 1) = kbtextstr
    BY <2>2, InText, LetterPut
  <2>4. /\ CaretIn_next(t)
        /\ Typing!Fits(t) /\ CurrentFirstLetter = 0 /\ LetterNumInLine + 1 \in 0..Len(t) =>
             CurrentFirstLetter' = 0 /\ LetterNumInLine' = LetterNumInLine + 1
    <3> HIDE DEF t
    <3> QED BY <2>1, <2>3, InText, CaretMoved
  <2>5. TypedInv'
    BY <2>1, <2>4 DEF TypedInv, CaretIn_next
  <2>6. ASSUME Typing!Fits(kbtextstr), Typing!Fits(t)
        PROVE  Typing!Caret' = k + 1 /\ Typing!RemoveAt(t, k + 1) = kbtextstr
    <3>1. CurrentFirstLetter = 0 /\ k = LetterNumInLine /\ k \in Nat
      BY <2>6, InText
    <3>2. k + 1 \in 0..Len(t)
      <4> HIDE DEF t, k
      <4> QED BY <2>2, <2>3, <3>1, InText
    <3>3. CurrentFirstLetter' = 0 /\ LetterNumInLine' = k + 1
      <4> HIDE DEF t, k
      <4> QED BY <2>4, <2>6, <3>1, <3>2
    <3>4. Typing!Caret' = CurrentFirstLetter' + LetterNumInLine'
      BY DEF Typing!Caret
    <3> QED BY <2>3, <3>1, <3>3, <3>4
  <2> HIDE DEF t
  <2> QED BY <2>1, <2>5, <2>6 DEF Follows
<1> QED BY <1>1, <1>2

LEMMA CharRemoved ==
  ASSUME Typing!KeyboardAssumption, TypedInv, Typing!RemoveChar
  PROVE  TypedInv' /\ Follows
<1> DEFINE k == Typing!Caret
           t == Typing!RemoveAt(kbtextstr, k)
<1>0. open /\ UNCHANGED <<var, open>>
  BY DEF Typing!RemoveChar
<1>1. CASE k \notin 1..Len(kbtextstr)
  <2>1. Typing!Same
    BY <1>1 DEF Typing!RemoveChar
  <2>2. kbtextstr' = kbtextstr
    BY <2>1 DEF Typing!Same
  <2> QED BY <1>0, <2>1, <2>2, CaretStays DEF Follows
<1>2. CASE k \in 1..Len(kbtextstr)
  <2>1. kbtextstr' = t /\ Typing!MoveText(kbtextstr', -1)
    BY <1>2 DEF Typing!RemoveChar
  <2>2. t \in Seq(Glyphs) /\ Len(t) = Len(kbtextstr) - 1
    BY <1>0, <1>2, InText, LetterTaken
  <2>3. /\ CaretIn_next(t)
        /\ Typing!Fits(t) /\ CurrentFirstLetter = 0 /\ LetterNumInLine + -1 \in 0..Len(t) =>
             CurrentFirstLetter' = 0 /\ LetterNumInLine' = LetterNumInLine + -1
    <3> HIDE DEF t
    <3> QED BY <1>0, <2>1, <2>2, InText, CaretMoved
  <2>4. TypedInv'
    BY <1>0, <2>1, <2>3 DEF TypedInv, CaretIn_next
  <2>5. ASSUME Typing!Fits(kbtextstr), Typing!Fits(t)
        PROVE  Typing!Caret' = k - 1
    <3>1. CurrentFirstLetter = 0 /\ k = LetterNumInLine /\ k \in Nat
      BY <1>0, <2>5, InText
    <3>2. k + -1 \in 0..Len(t) /\ k + -1 = k - 1
      <4> HIDE DEF t, k
      <4> QED BY <1>0, <1>2, <2>2, InText
    <3>3. CurrentFirstLetter' = 0 /\ LetterNumInLine' = k - 1
      <4> HIDE DEF t, k
      <4> QED BY <2>3, <2>5, <3>1, <3>2
    <3>4. Typing!Caret' = CurrentFirstLetter' + LetterNumInLine'
      BY DEF Typing!Caret
    <3> QED BY <3>1, <3>3, <3>4
  <2> HIDE DEF t
  <2> QED BY <2>1, <2>4, <2>5 DEF Follows, t
<1> QED BY <1>1, <1>2

LEMMA TypedStep ==
  Typing!KeyboardAssumption /\ TypedInv /\ [Typing!Next]_(Typing!vars) => TypedInv' /\ (open' => Follows)
<1> SUFFICES ASSUME Typing!KeyboardAssumption, TypedInv, [Typing!Next]_(Typing!vars)
             PROVE  TypedInv' /\ (open' => Follows)
  OBVIOUS
<1>1. CASE Typing!Open
  <2> DEFINE n == Typing!Min({MaxLen, Len(var)})
             t == SubSeq(var, 1, n)
  <2>1. var \in Seq(Glyphs) /\ Len(var) \in Nat /\ MaxLen \in Nat
    BY LenProperties DEF TypedInv, Typing!KeyboardAssumption
  <2>2. n \in Nat /\ n <= Len(var)
    <3>1. {MaxLen, Len(var)} \in SUBSET Nat /\ {MaxLen, Len(var)} # {}
      BY <2>1
    <3>2. n \in {MaxLen, Len(var)} /\ \A y \in {MaxLen, Len(var)} : n <= y
      BY <3>1, SmallestOf
    <3> HIDE DEF n
    <3> QED BY <2>1, <3>2
  <2>3. t \in Seq(Glyphs)
    <3>1. \A i \in 1..n : var[i] \in Glyphs
      BY <2>1, <2>2, ElementOfSeq
    <3> HIDE DEF n
    <3> QED BY <2>2, <3>1, SubSeqProperties
  <2>4. ~open /\ open' = TRUE /\ var' = var /\ kbtextstr' = t
        /\ CurrentFirstLetter' = Typing!CalcMaxLine(t) /\ Typing!SetLetterPosition(t, MAX_KEYBOARD_DISPLAY - 1)
    BY <1>1 DEF Typing!Open
  <2> HIDE DEF t
  <2>5. CaretIn_next(t)
    <3>1. MAX_KEYBOARD_DISPLAY - 1 \in Int
      BY DEF Typing!KeyboardAssumption
    <3> QED BY <2>3, <2>4, <3>1, CaretPlaced
  <2> QED BY <2>1, <2>4, <2>5 DEF TypedInv, CaretIn_next, Follows
<1>2. CASE Typing!RemoveChar
  BY <1>2, CharRemoved
<1>3. ASSUME NEW c, Typing!AddChar(c), c \in Glyphs, open, UNCHANGED <<var, open>> PROVE TypedInv' /\ Follows
  BY <1>3, CharAdded
<1>4. CASE Typing!PressEnter
  <2>1. "nl" \in Glyphs
    BY DEF Typing!KeyboardAssumption, Glyphs
  <2> QED BY <1>3, <1>4, <2>1 DEF Typing!PressEnter
<1>5. ASSUME NEW k \in Keys, Typing!Press(k) PROVE TypedInv' /\ Follows
  <2>1. k[1] \in Glyphs /\ k[2] \in Glyphs
    BY DEF Typing!KeyboardAssumption, Glyphs, Typing!Letters
  <2> QED BY <1>3, <1>5, <2>1 DEF Typing!Press
<1>6. ASSUME NEW c \in Typing!Letters, Typing!Type(c) PROVE TypedInv' /\ Follows
  <2>1. c \in Glyphs
    BY DEF Typing!KeyboardAssumption, Glyphs
  <2> QED BY <1>3, <1>6, <2>1 DEF Typing!Type
<1>7. CASE Typing!ToggleShift \/ Typing!ToggleCaps
  <2>1. open /\ Typing!Same /\ UNCHANGED <<var, open>>
    BY <1>7 DEF Typing!ToggleShift, Typing!ToggleCaps
  <2>2. kbtextstr' = kbtextstr
    BY <2>1 DEF Typing!Same
  <2> QED BY <2>1, <2>2, CaretStays DEF Follows
<1>8. CASE Typing!GoLeft \/ Typing!GoRight
  <2>1. open /\ UNCHANGED <<kbtextstr, var, open>> /\ CurrentFirstLetter' = Typing!CalcMaxLine(kbtextstr)
        /\ \E p \in Int : Typing!SetLetterPosition(kbtextstr, p)
    <3>1. LetterNumInLine \in Nat \/ ~open
      BY InText
    <3>2. CASE Typing!GoLeft
      BY <3>1, <3>2 DEF Typing!GoLeft
    <3>3. CASE Typing!GoRight
      BY <3>1, <3>3 DEF Typing!GoRight
    <3> QED BY <1>8, <3>2, <3>3
  <2>2. CaretIn_next(kbtextstr)
    BY <2>1, InText, CaretPlaced
  <2> QED BY <2>1, <2>2 DEF TypedInv, CaretIn_next, Follows
<1>9. ASSUME NEW x \in Clicks, Typing!PositionChanged(x) PROVE TypedInv' /\ Follows
  <2> DEFINE line == Typing!GetTextLine(kbtextstr)
  <2>1. open /\ UNCHANGED <<kbtextstr, CurrentFirstLetter, var, open>>
    BY <1>9 DEF Typing!PositionChanged
  <2>2. Len(line) \in Nat
    BY <2>1, InText, LineShown
  <2>3. \E n \in 0..Len(line) : LetterNumInLine' = n /\ Position_X' = Typing!getWidth(SubSeq(line, 1, n))
    <3> DEFINE end(n) == Typing!getWidth(SubSeq(line, 1, n))
               far(n) == IF end(n) > x THEN end(n) - x ELSE x - end(n)
               reached == {n \in 1..Len(line) : end(n) <= MaxWidth}
               nearest == {n \in reached : \A m \in reached : far(m) > far(n) \/ (far(m) = far(n) /\ n <= m)}
               n == IF nearest = {} \/ (\E m \in nearest : far(m) > x) THEN 0 ELSE Typing!Min(nearest)
    <3>1. LetterNumInLine' = n /\ Position_X' = end(n)
      BY <1>9 DEF Typing!PositionChanged
    <3>2. nearest \subseteq 1..Len(line)
      OBVIOUS
    <3>3. n \in 0..Len(line)
      <4>1. 0 \in 0..Len(line)
        BY <2>2
      <4> HIDE DEF line, nearest
      <4>2. ASSUME nearest # {} PROVE Typing!Min(nearest) \in 0..Len(line)
        <5>1. nearest \in SUBSET Nat
          BY <3>2
        <5>2. Typing!Min(nearest) \in nearest
          BY <4>2, <5>1, SmallestOf
        <5>3. Typing!Min(nearest) \in 1..Len(line)
          BY <3>2, <5>2, Zenon
        <5> QED BY <5>3
      <4> QED BY <4>1, <4>2
    <3> HIDE DEF n, line
    <3> QED BY <3>1, <3>3
  <2>4. CaretIn_next(kbtextstr)
    <3>1. kbtextstr \in Seq(Glyphs) /\ CurrentFirstLetter = Typing!CalcMaxLine(kbtextstr)
      BY <2>1 DEF TypedInv, CaretIn
    <3> QED BY <2>1, <2>3, <3>1, InLine DEF CaretIn_next
  <2> QED BY <2>1, <2>4 DEF TypedInv, CaretIn_next, Follows
<1>10. CASE Typing!Close
  BY <1>10 DEF Typing!Close, TypedInv, CaretIn
<1>11. CASE UNCHANGED Typing!vars
  BY <1>11 DEF Typing!vars, TypedInv, CaretIn, Follows
<1> QED BY <1>1, <1>2, <1>4, <1>5, <1>6, <1>7, <1>8, <1>9, <1>10, <1>11 DEF Typing!Next

\* While no message is shown in its place the caret stays in the text and on
\* the screen at the end of the letters before it, and a key goes where it is
\* and takes it along, whatever the letters and their widths.
THEOREM CaretFollows == ASSUME Typing!KeyboardAssumption PROVE Typing!Spec => Typing!CaretFollowsText
<1>1. Typing!Init => TypedInv
  BY DEF Typing!Init, TypedInv, Typing!KeyboardAssumption, Glyphs
<1>2. ASSUME TypedInv, [Typing!Next]_(Typing!vars) PROVE [Typing!CaretKept]_(Typing!vars)
  <2> SUFFICES ASSUME open', Typing!AsTyped(kbtextstr') PROVE Typing!CaretKept
    BY DEF Typing!CaretKept
  <2>1. TypedInv' /\ Follows
    BY <1>2, TypedStep
  <2>2. /\ kbtextstr' \in Seq(Glyphs) /\ LetterNumInLine' \in Nat
        /\ CurrentFirstLetter' = Typing!CalcMaxLine(kbtextstr')
        /\ CurrentFirstLetter' + LetterNumInLine' <= Len(kbtextstr')
        /\ Position_X' = Typing!getWidth(SubSeq(kbtextstr', CurrentFirstLetter' + 1, CurrentFirstLetter' + LetterNumInLine'))
    BY <2>1 DEF TypedInv, CaretIn
  <2>3. Typing!CalcMaxLine(kbtextstr') \in 0..Len(kbtextstr') /\ Len(kbtextstr') \in Nat
    BY <2>2, FirstShown, LenProperties
  <2>4. Typing!Caret' = CurrentFirstLetter' + LetterNumInLine'
    BY DEF Typing!Caret
  <2>5. Typing!Caret' \in 0..Len(kbtextstr')
    BY <2>2, <2>3, <2>4
  <2>6. Position_X' = Typing!getWidth(SubSeq(kbtextstr', CurrentFirstLetter' + 1, Typing!Caret'))
    BY <2>2, <2>4
  <2> QED BY <2>1, <2>5, <2>6 DEF Typing!CaretKept, Follows
<1>3. TypedInv /\ [Typing!Next]_(Typing!vars) => TypedInv'
  BY TypedStep
<1> QED BY <1>1, <1>2, <1>3, PTL DEF Typing!Spec, Typing!CaretFollowsText

-----------------------------------------------------------------------------
(* Forwarder: which application is started, and with what.                 *)

CONSTANTS Cards, Disks, Loaders, MAX_CMDLINE, Path, Shortcut, LowMemory, SanityCap
VARIABLES card, disk, loader, mounted, exeFile, exeBuffer, cmdline, length, copied, argvAt

Starter == INSTANCE Forwarder

OpenFile(a) == <<[device |-> Starter!Devices[a[1]], folder |-> Starter!Folders[a[2]]]>>
IsBest(opened) == Starter!Best \in Starter!Applications /\ opened = OpenFile(Starter!Best)

\* An application that none precedes is the best one.
LEMMA BestIs ==
  ASSUME NEW a \in Starter!Applications,
         \A b \in Starter!Applications : a[1] < b[1] \/ (a[1] = b[1] /\ a[2] <= b[2])
  PROVE  IsBest(OpenFile(a))
<1>1. \A b \in Starter!Applications : b = <<b[1], b[2]>> /\ b[1] \in 1..5 /\ b[2] \in 1..2
  BY DEF Starter!Applications
<1>2. \A b \in Starter!Applications \ {a} : Starter!Better(a, b)
  <2> SUFFICES ASSUME NEW b \in Starter!Applications \ {a} PROVE Starter!Better(a, b)
    OBVIOUS
  <2>1. a[1] < b[1] \/ (a[1] = b[1] /\ a[2] <= b[2])
    OBVIOUS
  <2>2. ~(a[1] = b[1] /\ a[2] = b[2])
    BY <1>1
  <2>3. a[1] \in Int /\ a[2] \in Int /\ b[1] \in Int /\ b[2] \in Int
    BY <1>1
  <2> QED BY <2>1, <2>2, <2>3 DEF Starter!Better
<1>3. ASSUME NEW b \in Starter!Applications, \A c \in Starter!Applications \ {b} : Starter!Better(b, c)
      PROVE  b = a
  <2> SUFFICES ASSUME b # a PROVE FALSE
    OBVIOUS
  <2>1. Starter!Better(a, b) /\ Starter!Better(b, a)
    BY <1>2, <1>3
  <2>2. a[1] \in Int /\ a[2] \in Int /\ b[1] \in Int /\ b[2] \in Int
    BY <1>1
  <2> QED BY <2>1, <2>2 DEF Starter!Better
<1>4. Starter!Best = a
  BY <1>2, <1>3, Zenon DEF Starter!Best
<1> QED BY <1>4 DEF IsBest

\* The folders of a device in order: wiiflow's before wiibrowser's.
Has(dev, files, k) == dev \in DOMAIN files /\ Starter!Folders[k] \in files[dev]

LEMMA Opens ==
  ASSUME NEW i \in 1..5, NEW files
  PROVE  \/ /\ Starter!open_file(Starter!Devices[i], files) = <<>>
            /\ \A k \in 1..2 : ~Has(Starter!Devices[i], files, k)
         \/ \E k \in 1..2 :
              /\ Starter!open_file(Starter!Devices[i], files) = OpenFile(<<i, k>>)
              /\ Has(Starter!Devices[i], files, k)
              /\ \A j \in 1..2 : Has(Starter!Devices[i], files, j) => k <= j
<1> DEFINE dev == Starter!Devices[i]
           found == {k \in 1..2 : Has(dev, files, k)}
           first == CHOOSE k \in found : \A j \in found : k <= j
<1>1. Starter!open_file(dev, files) = IF found = {} THEN <<>> ELSE <<[device |-> dev, folder |-> Starter!Folders[first]]>>
  BY DEF Starter!open_file, Has
<1>2. ASSUME found # {} PROVE first \in found /\ \A j \in found : first <= j
  <2>1. \E k \in found : \A j \in found : k <= j
    <3>1. found \in SUBSET Nat
      OBVIOUS
    <3> HIDE DEF found
    <3> QED BY <1>2, <3>1, Smallest
  <2> HIDE DEF found
  <2> QED BY <2>1
<1>3. CASE found = {}
  <2>1. \A k \in 1..2 : ~Has(dev, files, k)
    BY <1>3
  <2> HIDE DEF found
  <2> QED BY <1>1, <1>3, <2>1
<1>4. CASE found # {}
  <2>1. first \in 1..2 /\ Has(dev, files, first) /\ \A j \in 1..2 : Has(dev, files, j) => first <= j
    BY <1>2, <1>4
  <2> HIDE DEF found, first
  <2>2. <<i, first>>[1] = i /\ <<i, first>>[2] = first
    BY <2>1
  <2>3. Starter!open_file(dev, files) = OpenFile(<<i, first>>)
    BY <1>1, <1>4, <2>2 DEF OpenFile
  <2> QED BY <2>1, <2>3
<1> QED BY <1>3, <1>4

\* The devices, by their number.
LEMMA DeviceNames ==
  /\ Starter!Devices[1] = "sd"
  /\ \A i \in 1..4 : Starter!Devices[i + 1] = Starter!USB[i] /\ Starter!USB[i] # "sd"
  /\ \A i, j \in 1..4 : Starter!USB[i] = Starter!USB[j] => i = j
<1> DEFINE S == {"sd", "usb1", "usb2", "usb3", "usb4"}
<1>1. Starter!USB \in Seq(S) /\ Len(Starter!USB) = 4
  BY DEF Starter!USB
<1>2. Starter!USB[1] = "usb1" /\ Starter!USB[2] = "usb2" /\ Starter!USB[3] = "usb3" /\ Starter!USB[4] = "usb4"
  BY DEF Starter!USB
<1>3. <<"sd">> \in Seq(S) /\ Len(<<"sd">>) = 1
  OBVIOUS
<1> HIDE DEF S
<1>4. \A i \in 1..5 : Starter!Devices[i] = IF i <= 1 THEN <<"sd">>[i] ELSE Starter!USB[i - 1]
  <2> DEFINE sd == <<"sd">>
             usb == Starter!USB
  <2> HIDE DEF sd, usb
  <2>1. sd \in Seq(S) /\ Len(sd) = 1 /\ usb \in Seq(S) /\ Len(usb) = 4
    BY <1>1, <1>3 DEF sd, usb
  <2> DEFINE both == sd \o usb
  <2>2. IsJoin(both, sd, 1, usb, 4, S)
    BY <2>1, JoinedTwo, Zenon
  <2> HIDE DEF both
  <2>3. \A i \in 1..5 : both[i] = IF i <= 1 THEN sd[i] ELSE usb[i - 1]
    BY <2>2 DEF IsJoin
  <2> QED BY <2>3, Zenon DEF both, sd, usb, Starter!Devices
<1>5. ASSUME NEW i \in 1..4 PROVE Starter!Devices[i + 1] = Starter!USB[i] /\ Starter!USB[i] # "sd"
  <2>1. i + 1 \in 1..5 /\ ~(i + 1 <= 1) /\ (i + 1) - 1 = i
    OBVIOUS
  <2>2. Starter!USB[i] # "sd"
    <3>1. i = 1 \/ i = 2 \/ i = 3 \/ i = 4
      OBVIOUS
    <3> QED BY <1>2, <3>1
  <2> QED BY <1>4, <2>1, <2>2
<1>6. ASSUME NEW i \in 1..4, NEW j \in 1..4, Starter!USB[i] = Starter!USB[j] PROVE i = j
  <2>1. (i = 1 \/ i = 2 \/ i = 3 \/ i = 4) /\ (j = 1 \/ j = 2 \/ j = 3 \/ j = 4)
    OBVIOUS
  <2> QED BY <1>2, <1>6, <2>1
<1>7. Starter!Devices[1] = "sd"
  BY <1>4
<1> QED BY <1>5, <1>6, <1>7

\* The command line: two arguments, each ended by a zero, and one more.
LEMMA LineBuilt ==
  ASSUME MAX_CMDLINE \in Nat, NEW C, "nul" \in C, NEW p \in Seq(C), NEW q \in Seq(C),
         Len(p) + Len(q) + 3 <= MAX_CMDLINE,
         NEW first, first = Starter!Added(Starter!arg_init.line, Starter!arg_init.len, p),
         NEW second, second = Starter!Added(first.line, first.len, q)
  PROVE  SubSeq(second.line, 1, second.len) = p \o <<"nul">> \o q \o <<"nul", "nul">>
<1> DEFINE m == Len(p)
           n == Len(q)
           one == <<"nul">>
           two == <<"nul", "nul">>
           empty == [i \in 1..MAX_CMDLINE |-> "nul"]
<1>1. m \in Nat /\ n \in Nat
  BY LenProperties
<1>2. Starter!arg_init.line = empty /\ Starter!arg_init.len = 1
  BY DEF Starter!arg_init
<1> HIDE DEF m, n
<1>3. /\ first.len = m + 2
      /\ first.line = [i \in 1..MAX_CMDLINE |->
                        IF i \in 1..(1 + m - 1) THEN p[i - 1 + 1] ELSE IF i \in {1 + m, 1 + m + 1} THEN "nul" ELSE empty[i]]
  <2>1. ~(1 + Len(p) + 1 > MAX_CMDLINE) /\ 1 + Len(p) + 1 = m + 2
    BY <1>1 DEF m, n
  <2> QED BY <1>2, <2>1 DEF Starter!Added, m
<1>4. /\ DOMAIN first.line = 1..MAX_CMDLINE
      /\ \A i \in 1..MAX_CMDLINE : first.line[i] = IF i <= m THEN p[i] ELSE "nul"
  <2> DEFINE value(i) == IF i \in 1..(1 + m - 1) THEN p[i - 1 + 1]
                         ELSE IF i \in {1 + m, 1 + m + 1} THEN "nul" ELSE empty[i]
  <2>1. ASSUME NEW i \in 1..MAX_CMDLINE PROVE value(i) = IF i <= m THEN p[i] ELSE "nul"
    <3>1. i \in 1..(1 + m - 1) <=> i <= m
      BY <1>1
    <3>2. i - 1 + 1 = i
      OBVIOUS
    <3> QED BY <3>1, <3>2
  <2> QED BY <1>3, <2>1
<1>5. /\ second.len = m + n + 3
      /\ second.line = [i \in DOMAIN first.line |->
                         IF i \in (m + 2)..(m + 2 + n - 1) THEN q[i - (m + 2) + 1]
                         ELSE IF i \in {m + 2 + n, m + 2 + n + 1} THEN "nul" ELSE first.line[i]]
  <2>1. ~(m + 2 + Len(q) + 1 > MAX_CMDLINE) /\ m + 2 + Len(q) + 1 = m + n + 3
    BY <1>1 DEF m, n
  <2> QED BY <1>3, <2>1 DEF Starter!Added, n
<1> DEFINE l == m + n + 3
<1>6. \A i \in 1..l : second.line[i] = IF i <= m THEN p[i] ELSE IF i = m + 1 THEN "nul"
                                      ELSE IF i <= m + 1 + n THEN q[i - (m + 1)] ELSE "nul"
  <2> SUFFICES ASSUME NEW i \in 1..l
               PROVE  second.line[i] = IF i <= m THEN p[i] ELSE IF i = m + 1 THEN "nul"
                                      ELSE IF i <= m + 1 + n THEN q[i - (m + 1)] ELSE "nul"
    OBVIOUS
  <2>1. i \in 1..MAX_CMDLINE
    BY <1>1 DEF m, n
  <2>2. first.line[i] = IF i <= m THEN p[i] ELSE "nul"
    BY <1>4, <2>1
  <2>3. second.line[i] = IF i \in (m + 2)..(m + 2 + n - 1) THEN q[i - (m + 2) + 1]
                         ELSE IF i \in {m + 2 + n, m + 2 + n + 1} THEN "nul" ELSE first.line[i]
    BY <1>4, <1>5, <2>1
  <2>4. /\ i \in (m + 2)..(m + 2 + n - 1) <=> (i > m + 1 /\ i <= m + 1 + n)
        /\ i - (m + 2) + 1 = i - (m + 1)
        /\ i > m + 1 + n <=> i \in {m + 2 + n, m + 2 + n + 1}
    BY <1>1
  <2> QED BY <1>1, <2>2, <2>3, <2>4
<1>7. l \in Nat /\ \A i \in 1..l : second.line[i] \in C
  <2>1. \A i \in 1..m : p[i] \in C
    BY ElementOfSeq DEF m
  <2>2. \A i \in 1..n : q[i] \in C
    BY ElementOfSeq DEF n
  <2>3. ASSUME NEW i \in 1..l PROVE second.line[i] \in C
    <3>1. i > m + 1 /\ i <= m + 1 + n => i - (m + 1) \in 1..n
      BY <1>1
    <3>2. i <= m => i \in 1..m
      BY <1>1
    <3> QED BY <1>1, <1>6, <2>1, <2>2, <3>1, <3>2
  <2> QED BY <1>1, <2>3
<1> DEFINE x == SubSeq(second.line, 1, l)
<1>8. x \in Seq(C) /\ Len(x) = l /\ \A i \in 1..l : x[i] = second.line[i]
  <2> HIDE DEF l
  <2>1. x \in Seq(C) /\ Len(x) = (IF 1 <= l THEN l - 1 + 1 ELSE 0)
        /\ \A i \in 1..(l - 1 + 1) : x[i] = second.line[1 + i - 1]
    BY <1>7, SubSeqProperties
  <2> HIDE DEF x
  <2>2. l - 1 + 1 = l /\ \A i \in 1..l : 1 + i - 1 = i
    BY <1>7
  <2> QED BY <1>7, <2>1, <2>2
<1>9. one \in Seq(C) /\ Len(one) = 1 /\ one[1] = "nul"
  OBVIOUS
<1>10. two \in Seq(C) /\ Len(two) = 2 /\ two[1] = "nul" /\ two[2] = "nul"
  OBVIOUS
<1> DEFINE a == p \o one
           b == a \o q
           c == b \o two
<1> HIDE DEF one, two, l, x
<1>11. a \in Seq(C) /\ Len(a) = m + 1 /\ \A i \in 1..(m + 1) : a[i] = IF i <= m THEN p[i] ELSE one[i - m]
  <2>1. IsJoin(a, p, m, one, 1, C)
    BY <1>9, JoinedTwo, Zenon DEF m
  <2> HIDE DEF a
  <2> QED BY <2>1 DEF IsJoin
<1> HIDE DEF a
<1>12. b \in Seq(C) /\ Len(b) = m + 1 + n /\ \A i \in 1..(m + 1 + n) : b[i] = IF i <= m + 1 THEN a[i] ELSE q[i - (m + 1)]
  <2>1. IsJoin(b, a, m + 1, q, n, C)
    BY <1>11, JoinedTwo, Zenon DEF n
  <2> HIDE DEF b
  <2> QED BY <2>1 DEF IsJoin
<1> HIDE DEF b
<1>13. c \in Seq(C) /\ Len(c) = m + 1 + n + 2
       /\ \A i \in 1..(m + 1 + n + 2) : c[i] = IF i <= m + 1 + n THEN b[i] ELSE two[i - (m + 1 + n)]
  <2>1. IsJoin(c, b, m + 1 + n, two, 2, C)
    BY <1>10, <1>12, JoinedTwo, Zenon
  <2> HIDE DEF c
  <2> QED BY <2>1 DEF IsJoin
<1> HIDE DEF c
<1>14. ASSUME NEW i \in 1..l PROVE x[i] = c[i]
  <2>1. i \in 1..(m + 1 + n + 2)
    BY <1>1 DEF l
  <2>2. CASE i <= m
    <3>1. i \in 1..(m + 1) /\ i \in 1..(m + 1 + n) /\ i <= m + 1 + n /\ i <= m + 1
      BY <1>1, <2>2
    <3> QED BY <1>6, <1>8, <1>11, <1>12, <1>13, <2>1, <2>2, <3>1
  <2>3. CASE i = m + 1
    <3>1. i \in 1..(m + 1) /\ i \in 1..(m + 1 + n) /\ i <= m + 1 + n /\ i <= m + 1 /\ ~(i <= m) /\ i - m = 1
      BY <1>1, <2>3
    <3>2. x[i] = "nul"
      BY <1>6, <1>8, <2>3, <3>1
    <3>3. a[i] = one[1]
      BY <1>11, <3>1
    <3>4. c[i] = a[i]
      BY <1>12, <1>13, <2>1, <3>1
    <3> QED BY <1>9, <3>2, <3>3, <3>4
  <2>4. CASE i > m + 1 /\ i <= m + 1 + n
    <3>1. i \in 1..(m + 1 + n) /\ ~(i <= m + 1) /\ ~(i <= m) /\ i # m + 1
      BY <1>1, <2>4
    <3>2. c[i] = b[i]
      BY <1>13, <2>1, <2>4
    <3>3. b[i] = q[i - (m + 1)]
      BY <1>12, <3>1
    <3>4. x[i] = q[i - (m + 1)]
      BY <1>6, <1>8, <2>4, <3>1
    <3> QED BY <3>2, <3>3, <3>4
  <2>5. CASE i > m + 1 + n
    <3>1. ~(i <= m + 1 + n) /\ ~(i <= m) /\ i # m + 1 /\ i - (m + 1 + n) \in {1, 2}
      <4>1. PICK r \in Nat : r = m + 1 + n /\ r >= m + 1
        BY <1>1
      <4>2. i \in 1..(r + 2) /\ i > r
        BY <2>1, <2>5, <4>1
      <4>3. i \in Nat /\ ~(i <= r) /\ i - r \in {1, 2}
        BY <4>1, <4>2
      <4>4. ~(i <= m) /\ i # m + 1
        BY <1>1, <4>1, <4>3
      <4> QED BY <4>1, <4>3, <4>4
    <3>2. x[i] = "nul"
      BY <1>6, <1>8, <3>1
    <3>3. c[i] = two[i - (m + 1 + n)]
      BY <1>13, <2>1, <3>1
    <3> QED BY <1>10, <3>1, <3>2, <3>3
  <2> QED BY <1>1, <2>2, <2>3, <2>4, <2>5
<1>15. Len(x) = Len(c)
  BY <1>1, <1>8, <1>13 DEF l
<1>16. x = c
  BY <1>8, <1>13, <1>14, <1>15, SeqEqual
<1> QED BY <1>5, <1>16 DEF x, c, b, a, one, two, l

-----------------------------------------------------------------------------
\* What the card has, and what the disks have.
LEMMA CardHas ==
  ASSUME NEW files, files = Starter!SDCard_Init, NEW k \in 1..2
  PROVE  Has(Starter!Devices[1], files, k) <=> <<1, k>> \in Starter!Applications
<1> DEFINE there == card # <<>> /\ card[1] # {"other"}
<1>1. Starter!Devices[1] = "sd"
  BY DeviceNames
<1>2. Starter!Usable(1) = IF there THEN card[1] ELSE {}
  BY DEF Starter!Usable
<1>3. <<1, k>> \in Starter!Applications <=> Starter!Folders[k] \in Starter!Usable(1)
  <2>1. <<1, k>>[1] = 1 /\ <<1, k>>[2] = k /\ <<1, k>> \in (1..5) \X (1..2)
    OBVIOUS
  <2> QED BY <2>1 DEF Starter!Applications
<1>4. CASE there
  <2>1. files = [d \in {"sd"} |-> card[1]]
    BY <1>4 DEF Starter!SDCard_Init
  <2> QED BY <1>1, <1>2, <1>3, <1>4, <2>1 DEF Has
<1>5. CASE ~there
  <2>1. files = [d \in {} |-> {}]
    BY <1>5 DEF Starter!SDCard_Init, Starter!NothingMounted
  <2> QED BY <1>1, <1>2, <1>3, <1>5, <2>1 DEF Has
<1> QED BY <1>4, <1>5

LEMMA DiskHas ==
  ASSUME mounted = Starter!SDCard_Init, NEW files, files = Starter!USBDevice_Init, NEW i \in 1..4, NEW k \in 1..2
  PROVE  Has(Starter!Devices[i + 1], files, k) <=> <<i + 1, k>> \in Starter!Applications
<1> DEFINE parts == IF disk = <<>> THEN {} ELSE {j \in 1..4 : Starter!Mounts(disk[1][j])}
           of(d) == CHOOSE j \in parts : Starter!USB[j] = d
           D == DOMAIN mounted \cup {Starter!USB[j] : j \in parts}
           Value(d) == IF d \in DOMAIN mounted THEN mounted[d] ELSE disk[1][of(d)].files
           usb == Starter!USB[i]
<1>1. Starter!Devices[i + 1] = usb /\ usb # "sd" /\ \A j \in 1..4 : Starter!USB[j] = usb => j = i
  BY DeviceNames
<1>2. files = [d \in D |-> Value(d)]
  BY DEF Starter!USBDevice_Init
<1>3. usb \notin DOMAIN mounted
  <2>1. DOMAIN mounted \subseteq {"sd"}
    BY DEF Starter!SDCard_Init, Starter!NothingMounted
  <2> QED BY <1>1, <2>1
<1>4. parts \subseteq 1..4 /\ (i \in parts <=> disk # <<>> /\ Starter!Mounts(disk[1][i]))
  OBVIOUS
<1>5. Starter!Usable(i + 1) = IF disk # <<>> /\ Starter!Mounts(disk[1][i]) THEN disk[1][i].files ELSE {}
  <2>1. i + 1 # 1 /\ (i + 1) - 1 = i
    OBVIOUS
  <2> QED BY <2>1 DEF Starter!Usable
<1>6. <<i + 1, k>> \in Starter!Applications <=> Starter!Folders[k] \in Starter!Usable(i + 1)
  <2>1. <<i + 1, k>>[1] = i + 1 /\ <<i + 1, k>>[2] = k /\ <<i + 1, k>> \in (1..5) \X (1..2)
    OBVIOUS
  <2> QED BY <2>1 DEF Starter!Applications
<1> HIDE DEF parts
<1>7. usb \in D <=> i \in parts
  BY <1>1, <1>3, <1>4
<1>8. ASSUME i \in parts PROVE of(usb) = i
  BY <1>1, <1>4, <1>8
<1>9. DOMAIN files = D /\ (usb \in D => files[usb] = Value(usb))
  <2> HIDE DEF D, Value
  <2> QED BY <1>2
<1>10. usb \in D => Value(usb) = disk[1][i].files
  BY <1>3, <1>7, <1>8
<1> HIDE DEF D, Value, of, usb
<1> QED BY <1>1, <1>4, <1>5, <1>6, <1>7, <1>9, <1>10 DEF Has

LEMMA Wider == ASSUME NEW S, NEW T, S \subseteq T, NEW s \in Seq(S) PROVE s \in Seq(T)
  OBVIOUS

\* The device that is read, the program that was read, the line for it, and
\* what is mounted, at each stage.
Line(opened) == Path[opened[1]] \o <<"nul">> \o Shortcut \o <<"nul", "nul">>
Forwarded ==
  /\ pc = "usb" => mounted = Starter!SDCard_Init /\ \A k \in 1..2 : <<1, k>> \notin Starter!Applications
  /\ pc = "read" => IsBest(exeFile) /\ exeFile[1].device \in DOMAIN mounted
  /\ pc # "read" => exeFile = <<>>
  /\ pc \in {"args", "load", "running"} => IsBest(exeBuffer)
  /\ pc \in {"load", "running"} => SubSeq(cmdline, 1, length) = Line(exeBuffer)
  /\ pc \in {"running", "menu"} => mounted = Starter!NothingMounted

LEMMA CardTried ==
  ASSUME Starter!TryCard
  PROVE  \/ exeFile' = <<>> /\ \A k \in 1..2 : <<1, k>> \notin Starter!Applications
         \/ IsBest(exeFile') /\ exeFile'[1].device \in DOMAIN mounted'
<1>1. mounted' = Starter!SDCard_Init /\ exeFile' = Starter!open_file(Starter!Devices[1], mounted')
  BY DeviceNames DEF Starter!TryCard
<1>2. \A k \in 1..2 : Has(Starter!Devices[1], mounted', k) <=> <<1, k>> \in Starter!Applications
  BY <1>1, CardHas
<1>3. CASE exeFile' = <<>> /\ \A k \in 1..2 : ~Has(Starter!Devices[1], mounted', k)
  BY <1>2, <1>3
<1>4. ASSUME NEW k \in 1..2, exeFile' = OpenFile(<<1, k>>), Has(Starter!Devices[1], mounted', k),
             \A j \in 1..2 : Has(Starter!Devices[1], mounted', j) => k <= j
      PROVE  IsBest(exeFile') /\ exeFile'[1].device \in DOMAIN mounted'
  <2>1. <<1, k>> \in Starter!Applications
    BY <1>2, <1>4
  <2>2. ASSUME NEW b \in Starter!Applications PROVE 1 < b[1] \/ (1 = b[1] /\ k <= b[2])
    <3>1. b = <<b[1], b[2]>> /\ b[1] \in 1..5 /\ b[2] \in 1..2
      BY DEF Starter!Applications
    <3>2. CASE b[1] = 1
      <4>1. Has(Starter!Devices[1], mounted', b[2])
        BY <1>2, <3>1, <3>2
      <4> QED BY <1>4, <3>1, <3>2, <4>1
    <3> QED BY <3>1, <3>2
  <2>3. <<1, k>>[1] = 1 /\ <<1, k>>[2] = k
    OBVIOUS
  <2>4. IsBest(OpenFile(<<1, k>>))
    BY <2>1, <2>2, <2>3, BestIs
  <2>5. exeFile'[1].device = Starter!Devices[1]
    BY <1>4, <2>3 DEF OpenFile
  <2> QED BY <1>4, <2>4, <2>5 DEF Has
<1>5. \/ exeFile' = <<>> /\ \A k \in 1..2 : ~Has(Starter!Devices[1], mounted', k)
      \/ \E k \in 1..2 :
           /\ exeFile' = OpenFile(<<1, k>>)
           /\ Has(Starter!Devices[1], mounted', k)
           /\ \A j \in 1..2 : Has(Starter!Devices[1], mounted', j) => k <= j
  BY <1>1, Opens
<1> QED BY <1>3, <1>4, <1>5

LEMMA DiskTried ==
  ASSUME Forwarded, Starter!TryDisk
  PROVE  \/ exeFile' = <<>>
         \/ IsBest(exeFile') /\ exeFile'[1].device \in DOMAIN mounted'
<1> DEFINE opened(i) == Starter!open_file(Starter!Devices[i + 1], mounted')
           having == {i \in 1..4 : opened(i) # <<>>}
           first == CHOOSE i \in having : \A j \in having : i <= j
<1>1. pc = "usb" /\ mounted = Starter!SDCard_Init /\ (\A k \in 1..2 : <<1, k>> \notin Starter!Applications)
      /\ mounted' = Starter!USBDevice_Init
  BY DEF Starter!TryDisk, Forwarded
<1>2. exeFile' = IF having = {} THEN <<>> ELSE opened(first)
  <2> DEFINE usb(i) == Starter!open_file(Starter!USB[i], mounted')
             seen == {i \in 1..4 : usb(i) # <<>>}
  <2>1. exeFile' = IF seen = {} THEN <<>> ELSE usb(CHOOSE i \in seen : \A j \in seen : i <= j)
    BY DEF Starter!TryDisk
  <2>2. \A i \in 1..4 : usb(i) = opened(i)
    BY DeviceNames
  <2>3. seen = having
    BY <2>2
  <2> HIDE DEF seen, usb, opened
  <2>4. having # {} => first \in 1..4
    <3>1. having # {} => \E i \in having : \A j \in having : i <= j
      <4>1. having \in SUBSET Nat
        OBVIOUS
      <4> HIDE DEF having
      <4> QED BY <4>1, Smallest
    <3> QED BY <3>1
  <2> HIDE DEF having
  <2> QED BY <2>1, <2>2, <2>3, <2>4
<1>3. ASSUME having # {} PROVE first \in having /\ first \in 1..4 /\ \A j \in having : first <= j
  <2>1. \E i \in having : \A j \in having : i <= j
    <3>1. having \in SUBSET Nat
      OBVIOUS
    <3> HIDE DEF having
    <3> QED BY <1>3, <3>1, Smallest
  <2>2. having \subseteq 1..4
    OBVIOUS
  <2> HIDE DEF having
  <2> QED BY <2>1, <2>2
<1>4. \A i \in 1..4, k \in 1..2 : Has(Starter!Devices[i + 1], mounted', k) <=> <<i + 1, k>> \in Starter!Applications
  BY <1>1, DiskHas
<1>5. ASSUME NEW i \in 1..4
      PROVE  \/ /\ opened(i) = <<>>
                /\ \A k \in 1..2 : ~Has(Starter!Devices[i + 1], mounted', k)
             \/ \E k \in 1..2 :
                  /\ opened(i) = OpenFile(<<i + 1, k>>)
                  /\ Has(Starter!Devices[i + 1], mounted', k)
                  /\ \A j \in 1..2 : Has(Starter!Devices[i + 1], mounted', j) => k <= j
  <2>1. i + 1 \in 1..5
    OBVIOUS
  <2> QED BY <2>1, Opens
<1> SUFFICES ASSUME having # {} PROVE IsBest(exeFile') /\ exeFile'[1].device \in DOMAIN mounted'
  BY <1>2
<1>6. first \in 1..4 /\ opened(first) # <<>> /\ \A j \in 1..4 : opened(j) # <<>> => first <= j
  BY <1>3
<1>7. exeFile' = opened(first)
  BY <1>2
<1> HIDE DEF first, opened, having
<1>8. PICK k \in 1..2 :
        /\ opened(first) = OpenFile(<<first + 1, k>>)
        /\ Has(Starter!Devices[first + 1], mounted', k)
        /\ \A j \in 1..2 : Has(Starter!Devices[first + 1], mounted', j) => k <= j
  BY <1>5, <1>6
<1> DEFINE a == <<first + 1, k>>
<1>9. a \in Starter!Applications /\ a[1] = first + 1 /\ a[2] = k
  BY <1>4, <1>6, <1>8
<1>10. ASSUME NEW b \in Starter!Applications PROVE first + 1 < b[1] \/ (first + 1 = b[1] /\ k <= b[2])
  <2>1. b = <<b[1], b[2]>> /\ b[1] \in 1..5 /\ b[2] \in 1..2
    BY DEF Starter!Applications
  <2>2. b[1] # 1
    BY <1>1, <2>1
  <2> DEFINE j == b[1] - 1
  <2>3. j \in 1..4 /\ j + 1 = b[1]
    BY <2>1, <2>2
  <2> HIDE DEF j
  <2>4. Has(Starter!Devices[j + 1], mounted', b[2])
    BY <1>4, <2>1, <2>3
  <2>5. opened(j) # <<>>
    <3>1. \A x : OpenFile(x) # <<>>
      BY DEF OpenFile
    <3> QED BY <1>5, <2>1, <2>3, <2>4, <3>1
  <2>6. first <= j
    BY <1>6, <2>3, <2>5
  <2>7. j = first => k <= b[2]
    BY <1>8, <2>1, <2>4
  <2> QED BY <1>6, <2>1, <2>3, <2>6, <2>7
<1>11. IsBest(OpenFile(a))
  <2>1. \A b \in Starter!Applications : a[1] < b[1] \/ (a[1] = b[1] /\ a[2] <= b[2])
    BY <1>9, <1>10
  <2> HIDE DEF a
  <2> QED BY <1>9, <2>1, BestIs
<1>12. exeFile'[1].device = Starter!Devices[first + 1]
  BY <1>7, <1>8, <1>9 DEF OpenFile
<1> QED BY <1>7, <1>8, <1>11, <1>12 DEF Has

LEMMA LineIsBuilt ==
  ASSUME Starter!ForwarderAssumption, IsBest(exeBuffer), Starter!Arguments
  PROVE  SubSeq(cmdline', 1, length') = Line(exeBuffer)
<1> DEFINE letters == Path[exeBuffer[1]]
           C == Starter!ToSet(letters) \cup Starter!ToSet(Shortcut) \cup {"nul"}
           first == Starter!Added(Starter!arg_init.line, Starter!arg_init.len, letters)
           second == Starter!Added(first.line, first.len, Shortcut)
<1>1. /\ MAX_CMDLINE \in Nat /\ Shortcut \in Seq(Starter!ToSet(Shortcut))
      /\ letters \in Seq(Starter!ToSet(letters)) /\ Len(letters) + Len(Shortcut) + 3 <= MAX_CMDLINE
  <2> DEFINE a == Starter!Best
  <2>1. a[1] \in 1..5 /\ a[2] \in 1..2
    BY DEF IsBest, Starter!Applications
  <2>2. exeBuffer[1] = [device |-> Starter!Devices[a[1]], folder |-> Starter!Folders[a[2]]]
    BY DEF IsBest, OpenFile
  <2> HIDE DEF a
  <2> QED BY <2>1, <2>2 DEF Starter!ForwarderAssumption
<1>2. cmdline' = second.line /\ length' = second.len
  BY DEF Starter!Arguments
<1> HIDE DEF letters
<1>3. letters \in Seq(C) /\ Shortcut \in Seq(C) /\ "nul" \in C
  BY <1>1, Wider
<1> HIDE DEF C, first
<1>4. SubSeq(second.line, 1, second.len) = letters \o <<"nul">> \o Shortcut \o <<"nul", "nul">>
  BY <1>1, <1>3, LineBuilt, Zenon DEF first
<1> QED BY <1>2, <1>4, Zenon DEF Line, letters

\* What is plugged in decides about the applications and the best of them.
LEMMA StaysPlugged ==
  ASSUME UNCHANGED <<card, disk, loader>>
  PROVE  Starter!Applications' = Starter!Applications /\ Starter!Best' = Starter!Best
<1>1. \A k : (Starter!Usable(k))' = Starter!Usable(k)
  BY DEF Starter!Usable, Starter!Mounts
<1>2. Starter!Applications' = Starter!Applications
  BY <1>1 DEF Starter!Applications
<1>3. Starter!Best' = Starter!Best
  BY <1>2, Zenon DEF Starter!Best, Starter!Better
<1> QED BY <1>2, <1>3

LEMMA ForwardedStep ==
  Starter!ForwarderAssumption /\ Forwarded /\ [Starter!Next]_(Starter!vars) => Forwarded'
<1> SUFFICES ASSUME Starter!ForwarderAssumption, Forwarded, [Starter!Next]_(Starter!vars) PROVE Forwarded'
  OBVIOUS
<1>0. ASSUME Starter!Plugged PROVE Starter!Applications' = Starter!Applications /\ Starter!Best' = Starter!Best
  BY <1>0, StaysPlugged DEF Starter!Plugged
<1>1. ASSUME Starter!Plugged, NEW k PROVE <<1, k>> \notin Starter!Applications => (<<1, k>> \notin Starter!Applications)'
  BY <1>0, <1>1
<1>2. ASSUME Starter!Plugged, IsBest(exeFile') PROVE IsBest(exeFile)'
  BY <1>0, <1>2 DEF IsBest, OpenFile, Starter!Devices, Starter!Folders
<1>3. ASSUME Starter!Plugged, IsBest(exeBuffer') PROVE IsBest(exeBuffer)'
  BY <1>0, <1>3 DEF IsBest, OpenFile, Starter!Devices, Starter!Folders
<1>4. CASE Starter!TryCard
  <2>1. Starter!Plugged /\ pc' = IF exeFile' = <<>> THEN "usb" ELSE "read"
    BY <1>4 DEF Starter!TryCard
  <2>2. (mounted = Starter!SDCard_Init)'
    BY <1>4, <2>1 DEF Starter!TryCard, Starter!Plugged, Starter!SDCard_Init, Starter!NothingMounted
  <2>3. CASE exeFile' = <<>> /\ \A k \in 1..2 : <<1, k>> \notin Starter!Applications
    BY <1>1, <2>1, <2>2, <2>3 DEF Forwarded
  <2>4. CASE IsBest(exeFile') /\ exeFile'[1].device \in DOMAIN mounted'
    <3>1. exeFile' # <<>>
      BY <2>4 DEF IsBest, OpenFile
    <3> QED BY <1>2, <2>1, <2>4, <3>1 DEF Forwarded
  <2> QED BY <1>4, <2>3, <2>4, CardTried
<1>5. CASE Starter!TryDisk
  <2>1. Starter!Plugged /\ pc' = IF exeFile' = <<>> THEN "give up" ELSE "read"
    BY <1>5 DEF Starter!TryDisk
  <2>2. CASE exeFile' = <<>>
    BY <2>1, <2>2 DEF Forwarded
  <2>3. CASE IsBest(exeFile') /\ exeFile'[1].device \in DOMAIN mounted'
    <3>1. exeFile' # <<>>
      BY <2>3 DEF IsBest, OpenFile
    <3> QED BY <1>2, <2>1, <2>3, <3>1 DEF Forwarded
  <2> QED BY <1>5, <2>2, <2>3, DiskTried
<1>6. CASE Starter!SYS_ResetSystem
  <2>1. (mounted = Starter!NothingMounted)'
    BY <1>6 DEF Starter!SYS_ResetSystem, Starter!NothingMounted
  <2> QED BY <1>6, <2>1 DEF Starter!SYS_ResetSystem, Forwarded
<1>7. CASE Starter!ReadFile
  <2>1. Starter!Plugged /\ pc = "read" /\ exeFile' = <<>>
        /\ \/ exeBuffer' = exeFile /\ pc' = "args"
           \/ pc' = "give up"
    BY <1>7 DEF Starter!ReadFile
  <2>2. pc' = "args" => IsBest(exeBuffer')
    BY <2>1 DEF Forwarded
  <2> QED BY <1>3, <2>1, <2>2 DEF Forwarded
<1>8. CASE Starter!Arguments
  <2>1. Starter!Plugged /\ pc = "args" /\ pc' \in {"load", "give up"} /\ UNCHANGED <<exeFile, exeBuffer>>
    BY <1>8 DEF Starter!Arguments
  <2>2. IsBest(exeBuffer) /\ exeFile = <<>>
    BY <2>1 DEF Forwarded
  <2>3. SubSeq(cmdline', 1, length') = Line(exeBuffer)'
    BY <1>8, <2>1, <2>2, LineIsBuilt DEF Line
  <2>4. IsBest(exeBuffer)'
    BY <1>3, <2>1, <2>2
  <2> QED BY <2>1, <2>2, <2>3, <2>4 DEF Forwarded
<1>9. CASE Starter!StartLoader
  <2>1. Starter!Plugged /\ pc = "load" /\ pc' \in {"menu", "running"}
        /\ UNCHANGED <<exeFile, exeBuffer, cmdline, length>>
    BY <1>9 DEF Starter!StartLoader
  <2>2. (mounted = Starter!NothingMounted)'
    BY <1>9 DEF Starter!StartLoader, Starter!NothingMounted
  <2>3. IsBest(exeBuffer) /\ exeFile = <<>> /\ SubSeq(cmdline, 1, length) = Line(exeBuffer)
    BY <2>1 DEF Forwarded
  <2>4. IsBest(exeBuffer)' /\ (SubSeq(cmdline, 1, length) = Line(exeBuffer))'
    BY <1>3, <2>1, <2>3 DEF Line
  <2> QED BY <2>1, <2>2, <2>3, <2>4 DEF Forwarded
<1>10. CASE UNCHANGED Starter!vars
  <2>1. Starter!Plugged /\ UNCHANGED <<pc, exeFile, exeBuffer, mounted, cmdline, length>>
    BY <1>10 DEF Starter!vars, Starter!Plugged
  <2>2. (IsBest(exeFile) => IsBest(exeFile)') /\ (IsBest(exeBuffer) => IsBest(exeBuffer)')
    BY <1>2, <1>3, <2>1
  <2>3. (mounted = Starter!SDCard_Init)' <=> mounted = Starter!SDCard_Init
    BY <2>1 DEF Starter!Plugged, Starter!SDCard_Init, Starter!NothingMounted
  <2>4. Starter!NothingMounted' = Starter!NothingMounted /\ (Line(exeBuffer))' = Line(exeBuffer)
    BY <2>1 DEF Starter!NothingMounted, Line
  <2>5. Starter!Applications' = Starter!Applications
    BY <1>0, <2>1
  <2> QED BY <2>1, <2>2, <2>3, <2>4, <2>5 DEF Forwarded
<1> QED BY <1>4, <1>5, <1>6, <1>7, <1>8, <1>9, <1>10 DEF Starter!Next

\* The loader is started only with the best of all applications in memory and
\* with its path and the shortcut as arguments, whatever is plugged in.
THEOREM BestIsStarted == ASSUME Starter!ForwarderAssumption PROVE Starter!Spec => []Starter!ForwardsTheBest
<1>1. Starter!Init => Forwarded
  BY DEF Starter!Init, Forwarded
<1>2. Forwarded => Starter!ForwardsTheBest
  <2> SUFFICES ASSUME Forwarded PROVE Starter!ForwardsTheBest
    OBVIOUS
  <2>1. ASSUME pc = "running"
        PROVE  /\ Starter!Applications # {}
               /\ exeBuffer = <<[device |-> Starter!Devices[Starter!Best[1]], folder |-> Starter!Folders[Starter!Best[2]]]>>
               /\ SubSeq(cmdline, 1, length) = Path[exeBuffer[1]] \o <<"nul">> \o Shortcut \o <<"nul", "nul">>
    BY <2>1 DEF Forwarded, IsBest, OpenFile, Line
  <2>2. pc \in {"running", "menu"} => mounted = Starter!NothingMounted /\ exeFile = <<>>
    BY DEF Forwarded
  <2>3. exeFile # <<>> => exeFile[1].device \in DOMAIN mounted
    BY DEF Forwarded
  <2> QED BY <2>1, <2>2, <2>3, Zenon DEF Starter!ForwardsTheBest
<1>3. Forwarded /\ [Starter!Next]_(Starter!vars) => Forwarded'
  BY ForwardedStep
<1> QED BY <1>1, <1>2, <1>3, PTL DEF Starter!Spec
=============================================================================
