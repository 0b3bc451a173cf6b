----------------------------- MODULE Recursion -----------------------------
(***************************************************************************)
(* What the proofs of several components need about numbers and about      *)
(* functions that are defined from one number to the next.                 *)
(***************************************************************************)
EXTENDS Integers, FiniteSetsExt, WellFoundedInduction, TLAPS

\* f goes from start to n, a step for each number; every step stays in S.
Iterates(f, n, start, step) ==
  f = [i \in 0..n |-> f[i]] /\ f[0] = start /\ \A i \in 1..n : f[i] = step[i][f[i - 1]]
StepsIn(S, n, step) == step \in [1..n -> [S -> S]]

\* A set of numbers has a smallest one,
LEMMA Smallest ==
  ASSUME NEW T \in SUBSET Nat, T # {}
  PROVE  \E x \in T : \A y \in T : x <= y
<1>1. PICK x \in T : \A y \in T : ~(<<y, x>> \in OpToRel(<, Nat))
  BY NatLessThanWellFounded, WFMin
<1>2. ASSUME NEW y \in T, y < x PROVE FALSE
  <2>1. x \in Nat /\ y \in Nat
    OBVIOUS
  <2>2. <<y, x>> \in OpToRel(<, Nat)
    BY <1>2, <2>1, Zenon DEF OpToRel
  <2> QED BY <1>1, <2>2
<1> QED BY <1>2

\* and, when it is bounded, a greatest.
LEMMA Greatest ==
  ASSUME NEW n \in Nat, NEW T \in SUBSET (1..n), T # {}
  PROVE  Max(T) \in T /\ \A y \in T : Max(T) >= y
<1> DEFINE M == {k \in Nat : n - k \in T}
<1>1. M # {} /\ M \in SUBSET Nat
  <2>1. PICK x \in T : TRUE
    OBVIOUS
  <2>2. n - x \in M
    BY <2>1
  <2> QED BY <2>2
<1>2. PICK k \in M : \A j \in M : k <= j
  <2> HIDE DEF M
  <2> QED BY <1>1, Smallest
<1>3. n - k \in T /\ \A y \in T : n - k >= y
  <2>1. ASSUME NEW y \in T PROVE n - k >= y
    <3>1. n - y \in M
      OBVIOUS
    <3>2. k \in Nat /\ y \in Nat /\ n - y \in Nat
      OBVIOUS
    <3> HIDE DEF M
    <3>3. k <= n - y
      BY <1>2, <3>1
    <3> QED BY <3>2, <3>3
  <2> QED BY <2>1
<1> QED BY <1>3 DEF Max

\* What holds of 0, and of a number when it holds of the one before.
LEMMA Induction ==
  ASSUME NEW n \in Nat, NEW T, 0 \in T, \A i \in 1..n : i - 1 \in T => i \in T
  PROVE  \A i \in 0..n : i \in T
<1> DEFINE U == {i \in 0..n : i \notin T}
<1>1. SUFFICES ASSUME U # {} PROVE FALSE
  OBVIOUS
<1>2. PICK x \in U : \A y \in U : x <= y
  <2>1. U \in SUBSET Nat
    OBVIOUS
  <2> HIDE DEF U
  <2> QED BY <1>1, <2>1, Smallest
<1>3. x \in 1..n /\ x - 1 \in 0..n /\ x - 1 \notin U
  BY <1>2
<1> QED BY <1>2, <1>3

\* A value that starts and goes on from the one before exists.
LEMMA Iteration ==
  ASSUME NEW n \in Nat, NEW S, NEW start \in S, NEW step, StepsIn(S, n, step)
  PROVE  \E f : Iterates(f, n, start, step) /\ \A i \in 0..n : f[i] \in S
<1> DEFINE Follows(f, k) == f[0] = start /\ \A i \in 1..k : f[i] = step[i][f[i - 1]]
           T == {k \in 0..n : \E f \in [0..k -> S] : Follows(f, k)}
<1>1. 0 \in T
  <2> DEFINE g == [i \in 0..0 |-> start]
  <2>1. Follows(g, 0) /\ g \in [0..0 -> S]
    OBVIOUS
  <2> HIDE DEF g, Follows
  <2>2. \E f \in [0..0 -> S] : Follows(f, 0)
    BY <2>1
  <2> QED BY <2>2
<1>2. ASSUME NEW k \in 1..n, k - 1 \in T PROVE k \in T
  <2>1. PICK f \in [0..(k - 1) -> S] : Follows(f, k - 1)
    BY <1>2
  <2> DEFINE g == [i \in 0..k |-> IF i = k THEN step[k][f[k - 1]] ELSE f[i]]
  <2>2. step[k][f[k - 1]] \in S
    <3>1. k - 1 \in 0..(k - 1)
      OBVIOUS
    <3>2. f[k - 1] \in S
      BY <3>1
    <3> QED BY <3>2 DEF StepsIn
  <2>3. g \in [0..k -> S]
    BY <2>2
  <2>4. Follows(g, k)
    <3>1. g[0] = start
      BY <2>1
    <3>2. ASSUME NEW i \in 1..k PROVE g[i] = step[i][g[i - 1]]
      <4>1. CASE i = k
        BY <4>1
      <4>2. CASE i # k
        <5>1. i \in 1..(k - 1)
          BY <4>2
        <5>2. g[i] = f[i] /\ g[i - 1] = f[i - 1]
          BY <5>1
        <5> QED BY <2>1, <5>1, <5>2
      <4> QED BY <4>1, <4>2
    <3> QED BY <3>1, <3>2
  <2> HIDE DEF g, Follows
  <2>5. \E h \in [0..k -> S] : Follows(h, k)
    BY <2>3, <2>4
  <2> QED BY <2>5
<1>3. n \in T
  <2> HIDE DEF T
  <2>1. n \in 0..n
    OBVIOUS
  <2> QED BY <1>1, <1>2, <2>1, Induction
<1>4. PICK f \in [0..n -> S] : Follows(f, n)
  BY <1>3
<1>5. Iterates(f, n, start, step)
  BY <1>4 DEF Iterates
<1> QED BY <1>4, <1>5

\* The sums of the first numbers of a sequence, from a on.
Sums(f, n, a, w) == f = [i \in 0..n |-> IF i = 0 THEN a ELSE f[i - 1] + w[i]]

\* They exist,
LEMMA SumsExist ==
  ASSUME NEW n \in Nat, NEW a \in Nat, NEW w, \A i \in 1..n : w[i] \in Nat
  PROVE  \E f \in [0..n -> Nat] : Sums(f, n, a, w)
<1> DEFINE step == [i \in 1..n |-> [x \in Nat |-> x + w[i]]]
<1>1. StepsIn(Nat, n, step)
  <2>1. \A i \in 1..n : [x \in Nat |-> x + w[i]] \in [Nat -> Nat]
    OBVIOUS
  <2> QED BY <2>1 DEF StepsIn
<1> HIDE DEF step
<1>2. PICK f : Iterates(f, n, a, step) /\ \A i \in 0..n : f[i] \in Nat
  BY <1>1, Iteration
<1>3. f = [i \in 0..n |-> f[i]] /\ f[0] = a
  BY <1>2 DEF Iterates
<1>4. ASSUME NEW i \in 1..n PROVE f[i] = f[i - 1] + w[i]
  <2>1. f[i - 1] \in Nat /\ f[i] = step[i][f[i - 1]]
    <3>1. i - 1 \in 0..n
      OBVIOUS
    <3> QED BY <1>2, <3>1 DEF Iterates
  <2> QED BY <2>1 DEF step
<1>5. \A i \in 0..n : f[i] = IF i = 0 THEN a ELSE f[i - 1] + w[i]
  <2>1. ASSUME NEW i \in 0..n, i # 0 PROVE i \in 1..n
    BY <2>1
  <2> QED BY <1>3, <1>4, <2>1
<1>6. f \in [0..n -> Nat]
  BY <1>2, <1>3
<1> QED BY <1>3, <1>5, <1>6, Zenon DEF Sums

\* are numbers, and there are no others.
LEMMA SumsAreNat ==
  ASSUME NEW n \in Nat, NEW a \in Nat, NEW w, \A i \in 1..n : w[i] \in Nat, NEW f, Sums(f, n, a, w)
  PROVE  /\ f[0] = a /\ \A i \in 1..n : f[i] = f[i - 1] + w[i]
         /\ \A i \in 0..n : f[i] \in Nat
<1>1. f[0] = a /\ \A i \in 1..n : f[i] = f[i - 1] + w[i]
  <2>1. \A i \in 0..n : f[i] = IF i = 0 THEN a ELSE f[i - 1] + w[i]
    BY Zenon DEF Sums
  <2> QED BY <2>1
<1> DEFINE T == {i \in 0..n : f[i] \in Nat}
<1>2. 0 \in T
  BY <1>1
<1>3. ASSUME NEW i \in 1..n, i - 1 \in T PROVE i \in T
  <2>1. i \in 0..n /\ f[i - 1] \in Nat /\ f[i] = f[i - 1] + w[i]
    BY <1>1, <1>3
  <2> QED BY <2>1
<1>4. \A i \in 0..n : i \in T
  <2> HIDE DEF T
  <2> QED BY <1>2, <1>3, Induction
<1> QED BY <1>1, <1>4

\* From each of the numbers 1..n it ends at once, where val says, or goes on
\* from a greater one.
JumpsOn(n, stop, val, next) ==
  \A d \in 1..n : IF d \in stop THEN val[d] \in d..n ELSE next[d] \in (d + 1)..n
EndsAt(f, n, stop, val, next) ==
  \A d \in 1..n : f[d] = IF d \in stop THEN val[d] ELSE f[next[d]]

\* So it ends somewhere from each,
LEMMA EndExists ==
  ASSUME NEW n \in Nat, NEW stop, NEW val, NEW next, JumpsOn(n, stop, val, next)
  PROVE  \E f \in [1..n -> 1..n] : EndsAt(f, n, stop, val, next)
<1> DEFINE Fits(f, d) == f[d] = IF d \in stop THEN val[d] ELSE f[next[d]]
           FitsAfter(f, m) == \A d \in 1..n : d > m => Fits(f, d)
           T == {k \in 0..n : \E f \in [1..n -> 1..n] : FitsAfter(f, n - k)}
<1> HIDE DEF Fits
<1>1. 0 \in T
  <2>1. [d \in 1..n |-> d] \in [1..n -> 1..n]
    OBVIOUS
  <2>2. \A d \in 1..n : ~(d > n - 0)
    OBVIOUS
  <2>3. \E f \in [1..n -> 1..n] : FitsAfter(f, n - 0)
    BY <2>1, <2>2
  <2> QED BY <2>3
<1>2. ASSUME NEW k \in 1..n, k - 1 \in T PROVE k \in T
  <2>2. PICK e \in 1..n : e = n - (k - 1)
    OBVIOUS
  <2>1. PICK p \in [1..n -> 1..n] : FitsAfter(p, e)
    <3>1. \E h \in [1..n -> 1..n] : FitsAfter(h, n - (k - 1))
      BY <1>2
    <3> QED BY <2>2, <3>1, Zenon
  <2> DEFINE v == IF e \in stop THEN val[e] ELSE p[next[e]]
  <2>3. v \in 1..n /\ (e \notin stop => next[e] \in 1..n /\ next[e] # e)
    BY DEF JumpsOn
  <2>4. PICK g \in [1..n -> 1..n] : g = [p EXCEPT ![e] = v]
    <3> HIDE DEF v
    <3> QED BY <2>3
  <2>5. g[e] = v /\ \A d \in 1..n : d # e => g[d] = p[d]
    <3> HIDE DEF v
    <3> QED BY <2>3, <2>4
  <2>6. Fits(g, e)
    BY <2>3, <2>5 DEF Fits
  <2>7. ASSUME NEW d \in 1..n, d > e PROVE Fits(g, d)
    <3>1. Fits(p, d)
      BY <2>1, <2>7
    <3>2. d # e /\ (d \notin stop => next[d] \in 1..n /\ next[d] # e)
      <4>1. d # e
        BY <2>2, <2>7
      <4>2. ASSUME d \notin stop PROVE next[d] \in 1..n /\ next[d] # e
        <5>1. PICK m \in (d + 1)..n : next[d] = m
          BY <4>2 DEF JumpsOn
        <5>2. m \in 1..n /\ m # e
          BY <2>2, <2>7
        <5> QED BY <5>1, <5>2
      <4> QED BY <4>1, <4>2
    <3> HIDE DEF v
    <3> QED BY <2>5, <3>1, <3>2 DEF Fits
  <2>8. FitsAfter(g, n - k)
    <3>1. ASSUME NEW d \in 1..n, d > n - k PROVE d = e \/ d > e
      <4>1. n - (k - 1) = (n - k) + 1
        OBVIOUS
      <4> QED BY <2>2, <3>1, <4>1
    <3> QED BY <2>6, <2>7, <3>1
  <2>9. \E h \in [1..n -> 1..n] : FitsAfter(h, n - k)
    <3> HIDE DEF FitsAfter
    <3> QED BY <2>4, <2>8, Zenon
  <2>10. k \in 0..n
    OBVIOUS
  <2> HIDE DEF FitsAfter
  <2> QED BY <2>9, <2>10, Zenon
<1>3. \A k \in 0..n : k \in T
  <2> HIDE DEF T
  <2> QED BY <1>1, <1>2, Induction
<1>4. n \in T /\ n - n = 0
  BY <1>3
<1>5. PICK f \in [1..n -> 1..n] : FitsAfter(f, n - n)
  BY <1>4
<1>6. \A d \in 1..n : d > n - n
  OBVIOUS
<1> QED BY <1>5, <1>6 DEF EndsAt, Fits

\* and not before it; what holds of every end holds of that one.
LEMMA EndIsBehind ==
  ASSUME NEW n \in Nat, NEW stop, NEW val, NEW next, JumpsOn(n, stop, val, next),
         NEW f, EndsAt(f, n, stop, val, next), NEW E, \A d \in 1..n : d \in stop => val[d] \in E
  PROVE  \A d \in 1..n : f[d] \in d..n /\ f[d] \in E
<1> DEFINE T == {k \in 0..n : \A d \in 1..n : d > n - k => f[d] \in d..n /\ f[d] \in E}
<1>1. 0 \in T
  OBVIOUS
<1>2. ASSUME NEW k \in 1..n, k - 1 \in T PROVE k \in T
  <2> SUFFICES ASSUME NEW d \in 1..n, d > n - k PROVE f[d] \in d..n /\ f[d] \in E
    OBVIOUS
  <2>1. \A j \in 1..n : j > n - (k - 1) => f[j] \in j..n /\ f[j] \in E
    BY <1>2
  <2>2. CASE d \in stop
    BY <2>2 DEF JumpsOn, EndsAt
  <2>3. CASE d \notin stop
    <3>1. next[d] \in (d + 1)..n /\ f[d] = f[next[d]]
      BY <2>3 DEF JumpsOn, EndsAt
    <3>2. next[d] \in 1..n /\ next[d] > n - (k - 1)
      BY <3>1
    <3>3. f[next[d]] \in next[d]..n /\ f[next[d]] \in E
      BY <2>1, <3>2
    <3> QED BY <3>1, <3>3
  <2> QED BY <2>2, <2>3
<1>3. \A k \in 0..n : k \in T
  <2> HIDE DEF T
  <2> QED BY <1>1, <1>2, Induction
<1>4. n \in T
  BY <1>3
<1> QED BY <1>4

\* A value for each of D, given at once or by a step from that of another of
\* a lower rank.
Descends(D, S, n, rank, stop, val, step, next) ==
  /\ rank \in [D -> 0..n] /\ \A d \in D : d \in stop => val[d] \in S
  /\ \A d \in D : d \notin stop => /\ step[d] \in [S -> S] /\ next[d] \in D
                                   /\ rank[next[d]] < rank[d]
Descent(f, D, stop, val, step, next) ==
  \A d \in D : f[d] = IF d \in stop THEN val[d] ELSE step[d][f[next[d]]]

LEMMA DescentExists ==
  ASSUME NEW n \in Nat, NEW D, NEW S, NEW s \in S, NEW rank, NEW stop, NEW val, NEW step, NEW next,
         Descends(D, S, n, rank, stop, val, step, next)
  PROVE  \E f \in [D -> S] : Descent(f, D, stop, val, step, next)
<1> DEFINE Value(f, d) == IF d \in stop THEN val[d] ELSE step[d][f[next[d]]]
           Upto(f, k) == \A d \in D : rank[d] <= k => f[d] = Value(f, d)
           T == {k \in 0..n : \E f \in [D -> S] : Upto(f, k)}
<1>1. ASSUME NEW f \in [D -> S], NEW d \in D PROVE Value(f, d) \in S
  BY DEF Descends
<1>2. \A d \in D : rank[d] \in 0..n
  BY DEF Descends
<1>3. ASSUME NEW f \in [D -> S], NEW g, NEW d \in D, \A e \in D : rank[e] < rank[d] => g[e] = f[e]
      PROVE  Value(g, d) = Value(f, d)
  BY <1>3 DEF Descends
<1>4. ASSUME NEW f \in [D -> S] PROVE \E g \in [D -> S] : g = [d \in D |-> Value(f, d)]
  <2> HIDE DEF Value
  <2> QED BY <1>1
<1> HIDE DEF Value
<1>5. 0 \in T
  <2>1. PICK f \in [D -> S] : f = [d \in D |-> s]
    OBVIOUS
  <2>2. PICK g \in [D -> S] : g = [d \in D |-> Value(f, d)]
    BY <1>4
  <2>3. ASSUME NEW d \in D, rank[d] <= 0 PROVE g[d] = Value(g, d)
    <3>1. \A e \in D : ~(rank[e] < rank[d])
      BY <1>2, <2>3
    <3>2. Value(g, d) = Value(f, d)
      BY <1>3, <3>1
    <3> QED BY <2>2, <3>2
  <2> QED BY <2>2, <2>3
<1>6. ASSUME NEW k \in 1..n, k - 1 \in T PROVE k \in T
  <2>1. PICK f \in [D -> S] : Upto(f, k - 1)
    BY <1>6
  <2>2. PICK g \in [D -> S] : g = [d \in D |-> IF rank[d] <= k - 1 THEN f[d] ELSE Value(f, d)]
    <3>1. \A d \in D : f[d] \in S /\ Value(f, d) \in S
      BY <1>1
    <3> QED BY <3>1
  <2>3. ASSUME NEW d \in D, rank[d] <= k PROVE g[d] = Value(f, d)
    BY <2>1, <2>2
  <2>4. ASSUME NEW d \in D, rank[d] <= k PROVE g[d] = Value(g, d)
    <3>1. \A e \in D : rank[e] < rank[d] => g[e] = f[e]
      <4>1. \A e \in D : rank[e] < rank[d] => rank[e] <= k - 1
        BY <1>2, <2>4
      <4> QED BY <2>2, <4>1
    <3>2. Value(g, d) = Value(f, d)
      BY <1>3, <3>1
    <3> QED BY <2>3, <2>4, <3>2
  <2>5. \E h \in [D -> S] : Upto(h, k)
    BY <2>4, Zenon
  <2>6. k \in 0..n
    OBVIOUS
  <2> HIDE DEF Upto
  <2> QED BY <2>5, <2>6, Zenon
<1>7. \A k \in 0..n : k \in T
  <2> HIDE DEF T
  <2> QED BY <1>5, <1>6, Induction
<1>8. PICK f \in [D -> S] : Upto(f, n)
  BY <1>7
<1>9. \A d \in D : f[d] = Value(f, d)
  <2>1. \A d \in D : rank[d] <= n
    BY <1>2
  <2> QED BY <1>8, <2>1
<1> QED BY <1>9 DEF Descent, Value
=============================================================================
