--------------------------- MODULE Browse_proofs ---------------------------
(***************************************************************************)
(* Page loads for any addresses, buttons and limits: Cancel is honoured, a *)
(* form is sent once, and the image thread keeps to the page it was made   *)
(* for and to its memory.  Behind them, what a page is before it is shown: *)
(* its answer (Responses), its tokens (Markup) and its tree (TagList).     *)
(***************************************************************************)
EXTENDS Browse, SequenceTheorems, FiniteSetTheorems, Recursion, TLAPS

Shown == {"prompt", "request", "answered", "sliding"}

\* An early click is in the button while the prompt stands, then in the
\* answer that was read; the button of the prompt holds no other click.
CancelInv ==
  /\ clicks = "early" =>
       /\ pc \in {"prompt", "request", "answered"} => cancel
       /\ pc = "sliding" => requestCancelled
       /\ pc \notin {"decide", "page", "leaving"}
  /\ pc \in Shown /\ cancel => clicks # "none"
  /\ pc = "sliding" /\ requestCancelled => clicks # "none"

\* The images and the thread that fetches them are what they seem.
Image == [fetched : BOOLEAN, data : Sizes \cup {0}]
Fetching ==
  /\ img \in Seq(Image)
  /\ worker \in [pc : {"none", "start", "loop", "fetch", "gone"}, item : Nat, bytes : Nat]

-----------------------------------------------------------------------------
(* Cancel.                                                                 *)

\* What a pass of the display loop does outside the page and its forms.
LEMMA PollLeaves ==
  ASSUME NEW bar, NEW u, NEW confirmed, Poll(bar, u, confirmed)
  PROVE  /\ pc = "page"
         /\ \/ pc' = "leaving" /\ threadState' = "exit"
            \/ UNCHANGED <<pc, threadState>>
         /\ UNCHANGED <<exiting, load, cancel, img, worker, clicks>>
  BY DEF Poll, Leave

LEMMA CancelStep == CancelInv /\ [Next]_vars => CancelInv'
<1> SUFFICES ASSUME CancelInv, [Next]_vars PROVE CancelInv'
  OBVIOUS
<1> USE DEF CancelInv, Shown, load
<1>1. CASE Jump \/ JumpHome \/ Take \/ Requested
  <2>1. CASE Jump \/ JumpHome
    BY <2>1 DEF Jump, JumpHome
  <2>2. CASE Take
    BY <2>2 DEF Take
  <2>3. CASE Requested
    <3>1. pc = "request" /\ pc' = "answered" /\ UNCHANGED <<requestCancelled, cancel, clicks>>
      BY <2>3 DEF Requested, RequestUnsent, Request
    <3> QED BY <3>1
  <2> QED BY <1>1, <2>1, <2>2, <2>3
<1>7. CASE ReadCancel \/ PromptGone \/ OfferDownload \/ TrySearch \/ Failed
  BY <1>7 DEF ReadCancel, PromptGone, OfferDownload, TrySearch, Failed
<1>8. ASSUME NEW s, Display(s) PROVE CancelInv'
  <2>1. pc = "decide" /\ pc' = "page" /\ UNCHANGED <<cancel, requestCancelled, clicks>>
    BY <1>8 DEF Display
  <2> QED BY <2>1
<1>2. CASE AddImage \/ QuitPage \/ Free
  BY <1>2 DEF AddImage, QuitPage, Free
<1>3. ASSUME NEW bar, NEW u, NEW confirmed, Poll(bar, u, confirmed) PROVE CancelInv'
  BY <1>3, PollLeaves
<1>4. CASE Images
  <2>1. UNCHANGED <<pc, load, cancel, clicks>>
    BY <1>4 DEF Images, WorkerStart, Pick, WorkerEnds, Install
  <2> QED BY <2>1
<1>5. CASE User
  BY <1>5 DEF User, Go, ClickCancel, Click, RequestExit, Quit, Relaunch
<1>6. CASE UNCHANGED vars
  BY <1>6 DEF vars
<1> QED BY <1>1, <1>2, <1>3, <1>4, <1>5, <1>6, <1>7, <1>8 DEF Next, Page, Loading

\* A load cancelled before its answer was there shows no page, and none is
\* given up for a click on another prompt.
THEOREM CancelIsHonoured == Spec => []CancelHonoured
<1>1. Init => CancelInv
  BY DEF Init, CancelInv, Shown
<1>2. CancelInv => CancelHonoured
  BY DEF CancelInv, CancelHonoured
<1> QED BY <1>1, <1>2, CancelStep, PTL DEF Spec

-----------------------------------------------------------------------------
(* Images.                                                                 *)

\* What the image thread picks has not been asked for.
LEMMA Picked ==
  ASSUME Fetching, Unfetched # {}
  PROVE  Max(Unfetched) \in DOMAIN img /\ ~img[Max(Unfetched)].fetched
<1>1. Len(img) \in Nat /\ DOMAIN img = 1..Len(img)
  BY LenProperties DEF Fetching
<1>2. Unfetched \in SUBSET (1..Len(img))
  BY <1>1 DEF Unfetched
<1>3. Max(Unfetched) \in Unfetched
  BY <1>1, <1>2, Greatest
<1> QED BY <1>3 DEF Unfetched

LEMMA FetchingStep == Fetching /\ [Next]_vars => Fetching'
<1> SUFFICES ASSUME Fetching, [Next]_vars PROVE Fetching'
  OBVIOUS
<1> USE BrowseAssumption
<1>1. <<>> \in Seq(Image) /\ Idle \in [pc : {"none", "start", "loop", "fetch", "gone"}, item : Nat, bytes : Nat]
  BY EmptySeq DEF Idle
<1>2. CASE AddImage
  <2>1. [fetched |-> FALSE, data |-> 0] \in Image
    BY DEF Image
  <2> QED BY <1>2, <2>1, AppendProperties DEF AddImage, Fetching
<1>3. CASE \E s \in BOOLEAN : Display(s)
  BY <1>1, <1>3 DEF Display, Fetching, Idle
<1>4. CASE Free
  BY <1>1, <1>4 DEF Free, Fetching
<1>5. ASSUME NEW bar, NEW u, NEW confirmed, Poll(bar, u, confirmed) PROVE Fetching'
  BY <1>5, PollLeaves DEF Fetching
<1>6. ASSUME NEW h \in BOOLEAN, WorkerStart(h) PROVE Fetching'
  BY <1>6 DEF WorkerStart, Fetching
<1>7. CASE WorkerEnds
  BY <1>7 DEF WorkerEnds, Fetching
<1>8. CASE Pick
  <2> DEFINE i == Max(Unfetched)
  <2>1. i \in DOMAIN img /\ i \in Nat
    BY <1>8, Picked, LenProperties DEF Pick, Fetching
  <2>2. [img[i] EXCEPT !.fetched = TRUE] \in Image
    <3>1. img[i] \in Image
      BY <2>1, ElementOfSeq, LenProperties DEF Fetching
    <3> HIDE DEF i
    <3> QED BY <3>1 DEF Image
  <2>3. img' = [img EXCEPT ![i] = [img[i] EXCEPT !.fetched = TRUE]]
    BY <1>8 DEF Pick
  <2>4. worker' = [worker EXCEPT !.pc = "fetch", !.item = i]
    BY <1>8 DEF Pick
  <2> HIDE DEF i
  <2>5. img' \in Seq(Image)
    BY <2>1, <2>2, <2>3, ExceptSeq DEF Fetching
  <2> QED BY <2>1, <2>4, <2>5 DEF Fetching
<1>9. ASSUME NEW size \in Sizes \cup {0}, Install(size) PROVE Fetching'
  <2>1. size \in Nat
    OBVIOUS
  <2>2. CASE UNCHANGED img /\ worker' = [worker EXCEPT !.pc = "loop", !.item = 0]
    BY <2>2 DEF Fetching
  <2>3. CASE /\ img' = [img EXCEPT ![worker.item].data = size]
             /\ worker' = [pc |-> "loop", item |-> 0, bytes |-> worker.bytes + size]
    <3> DEFINE i == worker.item
    <3>1. worker' \in [pc : {"none", "start", "loop", "fetch", "gone"}, item : Nat, bytes : Nat]
      BY <2>1, <2>3 DEF Fetching
    <3>2. img' \in Seq(Image)
      <4>1. CASE i \in DOMAIN img
        <5>1. [img[i] EXCEPT !.data = size] \in Image
          <6>1. img[i] \in Image
            BY <4>1, ElementOfSeq, LenProperties DEF Fetching
          <6> HIDE DEF i
          <6> QED BY <6>1 DEF Image
        <5>2. img' = [img EXCEPT ![i] = [img[i] EXCEPT !.data = size]]
          BY <2>3
        <5> HIDE DEF i
        <5> QED BY <4>1, <5>1, <5>2, ExceptSeq DEF Fetching
      <4>2. CASE i \notin DOMAIN img
        <5>1. img' = img
          BY <2>3, <4>2, LenProperties DEF Fetching
        <5> QED BY <5>1 DEF Fetching
      <4> QED BY <4>1, <4>2
    <3> QED BY <3>1, <3>2 DEF Fetching
  <2> QED BY <1>9, <2>2, <2>3 DEF Install
<1>10. CASE User
  BY <1>1, <1>10 DEF User, Go, ClickCancel, Click, RequestExit, Quit, Relaunch, Fetching, page
<1>11. CASE \/ Jump \/ JumpHome \/ Take \/ Requested \/ ReadCancel \/ PromptGone
            \/ OfferDownload \/ TrySearch \/ Failed \/ QuitPage
  <2>1. UNCHANGED <<img, worker>>
    BY <1>11 DEF Jump, JumpHome, Take, Requested, RequestUnsent, Request, ReadCancel, PromptGone,
       OfferDownload, TrySearch, Failed, QuitPage, page
  <2> QED BY <2>1 DEF Fetching
<1>12. CASE UNCHANGED vars
  BY <1>12 DEF vars, page, Fetching
<1> QED
  BY <1>2, <1>3, <1>4, <1>5, <1>6, <1>7, <1>8, <1>9, <1>10, <1>11, <1>12
  DEF Next, Page, Images, Loading

\* Only Pick gives the image thread an image.
LEMMA StepOfItem ==
  ASSUME Fetching, [Next]_vars, worker.item = 0, worker'.item # 0
  PROVE  Pick
<1>1. ~UNCHANGED worker
  OBVIOUS
<1>2. ~ \/ Jump \/ JumpHome \/ Take \/ Requested \/ ReadCancel \/ PromptGone
        \/ OfferDownload \/ TrySearch \/ Failed \/ QuitPage \/ AddImage
  BY <1>1 DEF Jump, JumpHome, Take, Requested, RequestUnsent, Request, ReadCancel, PromptGone,
     OfferDownload, TrySearch, Failed, QuitPage, AddImage, page
<1>3. ~ \E s \in BOOLEAN : Display(s)
  BY DEF Display, Idle
<1>4. ~Free
  BY DEF Free, Idle
<1>5. ASSUME NEW bar, NEW u, NEW confirmed, Poll(bar, u, confirmed) PROVE FALSE
  BY <1>1, <1>5, PollLeaves
<1>6. ~ \/ \E h \in BOOLEAN : WorkerStart(h)
        \/ WorkerEnds
        \/ \E size \in Sizes \cup {0} : Install(size)
  <2>1. ASSUME NEW size, Install(size) PROVE FALSE
    <3>1. \/ worker' = [worker EXCEPT !.pc = "loop", !.item = 0]
          \/ worker' = [pc |-> "loop", item |-> 0, bytes |-> worker.bytes + size]
      BY <2>1 DEF Install
    <3>2. worker'.item = 0
      <4>1. worker \in [pc : {"none", "start", "loop", "fetch", "gone"}, item : Nat, bytes : Nat]
        BY DEF Fetching
      <4>2. [worker EXCEPT !.pc = "loop", !.item = 0].item = 0
        BY <4>1
      <4>3. [pc |-> "loop", item |-> 0, bytes |-> worker.bytes + size].item = 0
        OBVIOUS
      <4> QED BY <3>1, <4>2, <4>3
    <3> QED BY <3>2
  <2>2. ASSUME NEW h \in BOOLEAN, WorkerStart(h) PROVE FALSE
    BY <2>2 DEF WorkerStart, Fetching
  <2>3. ASSUME WorkerEnds PROVE FALSE
    BY <2>3 DEF WorkerEnds, Fetching
  <2> QED BY <2>1, <2>2, <2>3
<1>7. ~User
  BY <1>1 DEF User, Go, ClickCancel, Click, RequestExit, Quit, Relaunch, page, Idle
<1>8. ~UNCHANGED vars
  BY <1>1 DEF vars, page
<1> QED BY <1>2, <1>3, <1>4, <1>5, <1>6, <1>7, <1>8 DEF Next, Page, Images, Loading

\* Nothing touches the images of a page that is left, until it is freed.
LEMMA StepOfLeaving ==
  ASSUME [Next]_vars, threadState = "exit", pc = "leaving", pc' = "leaving"
  PROVE  UNCHANGED img
<1>1. CASE Images
  BY <1>1 DEF Images, WorkerStart, Pick, WorkerEnds, Install
<1>2. CASE User
  BY <1>2 DEF User, Go, ClickCancel, Click, RequestExit, Quit, Relaunch, page
<1>3. CASE UNCHANGED vars
  BY <1>3 DEF vars, page
<1>4. ~Loading
  BY DEF Loading, Jump, JumpHome, Take, Requested, RequestUnsent, Request, ReadCancel, PromptGone,
     OfferDownload, TrySearch, Failed, Display
<1>5. ~(AddImage \/ QuitPage \/ Free)
  BY DEF AddImage, QuitPage, Free
<1>6. ASSUME NEW bar, NEW u, NEW confirmed, Poll(bar, u, confirmed) PROVE FALSE
  BY <1>6, PollLeaves
<1> QED BY <1>1, <1>2, <1>3, <1>4, <1>5, <1>6 DEF Next, Page

\* No image is asked for twice, and once a page is being left its images stay
\* as they are until it is freed.
THEOREM NothingLate == Spec => NoLateImage
<1> DEFINE Once == \A i \in DOMAIN img : worker.item = 0 /\ worker'.item = i => ~img[i].fetched
           Still == threadState = "exit" /\ pc = "leaving" /\ pc' = "leaving" =>
                      \A i \in DOMAIN img : img'[i].data = img[i].data
<1>1. Init => Fetching
  BY EmptySeq DEF Init, Fetching, Idle
<1>2. Fetching /\ [Next]_vars => Once
  <2> SUFFICES ASSUME Fetching, [Next]_vars, NEW i \in DOMAIN img, worker.item = 0, worker'.item = i
               PROVE  ~img[i].fetched
    OBVIOUS
  <2>1. i # 0
    BY LenProperties DEF Fetching
  <2>2. Pick
    BY <2>1, StepOfItem
  <2>3. i = Max(Unfetched) /\ Unfetched # {}
    BY <2>2 DEF Pick, Fetching
  <2> QED BY <2>3, Picked
<1>3. Fetching /\ [Next]_vars => Still
  <2> SUFFICES ASSUME Fetching, [Next]_vars, threadState = "exit", pc = "leaving", pc' = "leaving"
               PROVE  \A i \in DOMAIN img : img'[i].data = img[i].data
    OBVIOUS
  <2>1. UNCHANGED img
    BY StepOfLeaving
  <2> QED BY <2>1
<1> QED BY <1>1, <1>2, <1>3, FetchingStep, PTL DEF Spec, NoLateImage
\* The bytes and the mark of an image.
LEMMA OfImage ==
  ASSUME NEW s \in Seq(Image), NEW i \in 1..Len(s)
  PROVE  s[i] \in Image /\ s[i].data \in Nat /\ s[i].fetched \in BOOLEAN
<1>1. s[i] \in Image
  BY ElementOfSeq
<1>2. s[i].data \in Sizes \cup {0} /\ s[i].fetched \in BOOLEAN
  BY <1>1 DEF Image
<1>3. Sizes \cup {0} \subseteq Nat
  BY BrowseAssumption
<1> QED BY <1>1, <1>2, <1>3

\* The bytes of the first n pictures, for every n.
LEMMA PartialSums ==
  ASSUME NEW s \in Seq(Image)
  PROVE  \E sum \in [0..Len(s) -> Nat] :
           /\ Shows(s) = sum[Len(s)]
           /\ sum[0] = 0
           /\ \A i \in 1..Len(s) : sum[i] = sum[i - 1] + s[i].data
<1> DEFINE k == Len(s)
           step == [i \in 1..k |-> [x \in Nat |-> x + s[i].data]]
           F(f) == [n \in 0..k |-> IF n = 0 THEN 0 ELSE f[n - 1] + s[n].data]
           g == CHOOSE f : f = F(f)
<1>1. k \in Nat
  BY LenProperties
<1>2. \A i \in 1..k : s[i].data \in Nat
  BY OfImage
<1>3. step \in [1..k -> [Nat -> Nat]]
  BY <1>2
<1>4. PICK f : Iterates(f, k, 0, step) /\ \A i \in 0..k : f[i] \in Nat
  <2>1. StepsIn(Nat, k, step)
    BY <1>3 DEF StepsIn
  <2> HIDE DEF k, step
  <2> QED BY <1>1, <2>1, Iteration
<1>5. f = F(f)
  <2>1. f = [i \in 0..k |-> f[i]] /\ f[0] = 0 /\ \A i \in 1..k : f[i] = step[i][f[i - 1]]
    BY <1>4 DEF Iterates
  <2>2. ASSUME NEW i \in 1..k PROVE f[i] = f[i - 1] + s[i].data
    <3>1. f[i - 1] \in Nat /\ f[i] = step[i][f[i - 1]]
      <4>1. i - 1 \in 0..k
        BY <1>1
      <4> HIDE DEF step
      <4> QED BY <1>4, <2>1, <4>1
    <3> QED BY <3>1
  <2>3. \A i \in 0..k : f[i] = IF i = 0 THEN 0 ELSE f[i - 1] + s[i].data
    BY <1>1, <2>1, <2>2
  <2> HIDE DEF step, k
  <2> QED BY <2>1, <2>3
<1>6. g = F(g)
  BY <1>5, Zenon
<1>7. Shows(s) = g[k]
  BY Zenon DEF Shows
<1>8. g \in [0..k -> Nat]
  <2> DEFINE T == {i \in 0..k : g[i] \in Nat}
  <2>1. 0 \in T
    <3>1. g[0] = 0
      <4> HIDE DEF g, k
      <4> QED BY <1>1, <1>6
    <3> QED BY <1>1, <3>1
  <2>2. \A i \in 1..k : i - 1 \in T => i \in T
    <3> SUFFICES ASSUME NEW i \in 1..k, g[i - 1] \in Nat PROVE g[i] \in Nat
      OBVIOUS
    <3>1. g[i] = g[i - 1] + s[i].data
      <4> HIDE DEF g
      <4> QED BY <1>1, <1>6
    <3> QED BY <1>2, <3>1
  <2>3. \A i \in 0..k : i \in T
    <3> HIDE DEF T, k
    <3> QED BY <1>1, <2>1, <2>2, Induction
  <2> HIDE DEF g
  <2>4. g = [i \in 0..k |-> g[i]]
    BY <1>6
  <2> QED BY <2>3, <2>4
<1> HIDE DEF g, k
<1>9. g[0] = 0 /\ \A i \in 1..k : g[i] = g[i - 1] + s[i].data
  BY <1>1, <1>6
<1> QED BY <1>7, <1>8, <1>9 DEF k

\* Another picture on one image.
Changes(s, t, i) ==
  /\ s \in Seq(Image) /\ t \in Seq(Image) /\ Len(t) = Len(s) /\ i \in 1..Len(s)
  /\ \A j \in 1..Len(s) : j # i => t[j].data = s[j].data

LEMMA ShowsOther ==
  ASSUME NEW s, NEW t, NEW i, Changes(s, t, i)
  PROVE  Shows(t) = Shows(s) + t[i].data - s[i].data
<1> USE DEF Changes
<1> DEFINE k == Len(s)
<1>1. PICK p \in [0..k -> Nat] : /\ Shows(s) = p[k] /\ p[0] = 0
                                 /\ \A j \in 1..k : p[j] = p[j - 1] + s[j].data
  BY PartialSums
<1>2. PICK q \in [0..k -> Nat] : /\ Shows(t) = q[k] /\ q[0] = 0
                                 /\ \A j \in 1..k : q[j] = q[j - 1] + t[j].data
  BY PartialSums
<1>3. k \in Nat /\ i \in 1..k
  BY LenProperties
<1>4. \A j \in 1..k : s[j].data \in Nat /\ t[j].data \in Nat
  BY OfImage
<1> DEFINE T == {j \in 0..k : q[j] = IF j < i THEN p[j] ELSE p[j] + t[i].data - s[i].data}
<1> HIDE DEF k
<1>5. 0 \in T
  BY <1>1, <1>2, <1>3
<1>6. ASSUME NEW j \in 1..k, j - 1 \in T PROVE j \in T
  <2>1. p[j - 1] \in Nat /\ q[j - 1] \in Nat /\ j - 1 \in 0..k
    BY <1>3
  <2>2. p[j] = p[j - 1] + s[j].data /\ q[j] = q[j - 1] + t[j].data
    BY <1>1, <1>2
  <2>3. s[j].data \in Nat /\ t[j].data \in Nat
    BY <1>4
  <2>4. CASE j < i
    <3>1. t[j].data = s[j].data /\ q[j - 1] = p[j - 1]
      BY <1>6, <2>4 DEF k
    <3> QED BY <2>2, <2>4, <3>1
  <2>5. CASE j = i
    <3>1. q[j - 1] = p[j - 1]
      BY <1>6, <2>5
    <3> QED BY <2>1, <2>2, <2>3, <2>5, <3>1
  <2>6. CASE j > i
    <3>1. t[j].data = s[j].data /\ q[j - 1] = p[j - 1] + t[i].data - s[i].data
      BY <1>6, <2>6 DEF k
    <3>2. t[i].data \in Nat /\ s[i].data \in Nat /\ p[j] \in Nat
      BY <1>3, <1>4
    <3>3. q[j] = p[j] + t[i].data - s[i].data
      <4> HIDE DEF Changes
      <4> DEFINE x == s[j].data
                 y == t[i].data
                 z == s[i].data
      <4>1. p[j] = p[j - 1] + x /\ q[j] = (p[j - 1] + y - z) + x
        BY <2>2, <3>1
      <4>2. p[j - 1] \in Nat /\ x \in Nat /\ y \in Nat /\ z \in Nat
        BY <2>1, <2>3, <3>2
      <4> HIDE DEF x, y, z
      <4>3. q[j] = p[j] + y - z
        BY <4>1, <4>2
      <4> QED BY <4>3 DEF y, z
    <3> QED BY <2>6, <3>3
  <2> QED BY <1>3, <2>4, <2>5, <2>6
<1>7. k \in T
  <2>1. \A j \in 0..k : j \in T
    <3> HIDE DEF T
    <3> QED BY <1>3, <1>5, <1>6, Induction
  <2> QED BY <1>3, <2>1
<1> QED BY <1>1, <1>2, <1>3, <1>7

\* An image more, without a picture.
LEMMA ShowsAppended ==
  ASSUME NEW s \in Seq(Image), NEW x \in Image, x.data = 0
  PROVE  Shows(Append(s, x)) = Shows(s)
<1> DEFINE t == Append(s, x)
           k == Len(s)
<1>1. t \in Seq(Image) /\ Len(t) = k + 1 /\ t[k + 1] = x /\ k \in Nat /\ \A j \in 1..k : t[j] = s[j]
  BY AppendProperties, LenProperties
<1>2. PICK p \in [0..k -> Nat] : /\ Shows(s) = p[k] /\ p[0] = 0
                                 /\ \A j \in 1..k : p[j] = p[j - 1] + s[j].data
  BY PartialSums
<1>3. PICK q \in [0..Len(t) -> Nat] : /\ Shows(t) = q[Len(t)] /\ q[0] = 0
                                      /\ \A j \in 1..Len(t) : q[j] = q[j - 1] + t[j].data
  <2> HIDE DEF t, k
  <2> QED BY <1>1, PartialSums
<1> DEFINE T == {j \in 0..k : q[j] = p[j]}
<1> HIDE DEF k, t
<1>4. 0 \in T
  BY <1>1, <1>2, <1>3
<1>5. ASSUME NEW j \in 1..k, j - 1 \in T PROVE j \in T
  <2>1. j \in 1..Len(t) /\ t[j] = s[j]
    BY <1>1
  <2>2. q[j] = q[j - 1] + s[j].data
    BY <1>3, <2>1
  <2> QED BY <1>2, <1>5, <2>2
<1>6. q[k] = p[k]
  <2>1. \A j \in 0..k : j \in T
    <3> HIDE DEF T
    <3> QED BY <1>1, <1>4, <1>5, Induction
  <2> QED BY <1>1, <2>1
<1>7. q[k + 1] = q[k] + x.data /\ q[k] \in Nat
  BY <1>1, <1>3
<1> QED BY <1>1, <1>2, <1>3, <1>6, <1>7 DEF t

LEMMA ShowsNothing == Shows(<<>>) = 0
<1>1. <<>> \in Seq(Image) /\ Len(<<>>) = 0
  BY EmptySeq
<1>2. PICK sum \in [0..Len(<<>>) -> Nat] : Shows(<<>>) = sum[Len(<<>>)] /\ sum[0] = 0
  BY <1>1, PartialSums
<1> QED BY <1>1, <1>2


\* The image thread has an image of the page only while it fetches it, and
\* that one shows nothing yet; what it counts is what the page shows; it is
\* there only while the page is.
ImageInv ==
  /\ Len(img) <= MaxImages /\ worker.item <= MaxImages /\ worker.bytes <= MaxImageBytes
  /\ worker.pc = "fetch" =>
       worker.item \in DOMAIN img /\ img[worker.item].fetched /\ img[worker.item].data = 0
  /\ worker.pc # "fetch" => worker.item = 0
  /\ worker.pc # "none" => pc \in {"page", "leaving"} /\ Shows(img) = worker.bytes
  /\ \A i \in DOMAIN img : ~img[i].fetched => img[i].data = 0

LEMMA ImageStep == Fetching /\ ImageInv /\ [Next]_vars => ImageInv'
<1> SUFFICES ASSUME Fetching, ImageInv, [Next]_vars PROVE ImageInv'
  OBVIOUS
<1> USE BrowseAssumption
<1>1. /\ Len(img) \in Nat /\ DOMAIN img = 1..Len(img) /\ img \in Seq(Image)
      /\ worker \in [pc : {"none", "start", "loop", "fetch", "gone"}, item : Nat, bytes : Nat]
      /\ Idle = [pc |-> "none", item |-> 0, bytes |-> 0]
      /\ Shows(<<>>) = 0 /\ Len(<<>>) = 0 /\ DOMAIN <<>> = {}
  BY LenProperties, ShowsNothing DEF Fetching, Idle
<1>2. CASE AddImage
  <2> DEFINE x == [fetched |-> FALSE, data |-> 0]
  <2>1. x \in Image /\ x.data = 0
    BY DEF Image
  <2>2. img' = Append(img, x) /\ UNCHANGED <<pc, worker>> /\ Len(img) < MaxImages
    BY <1>2 DEF AddImage
  <2> HIDE DEF x
  <2>3. /\ Len(img') = Len(img) + 1 /\ DOMAIN img' = 1..(Len(img) + 1)
        /\ \A i \in DOMAIN img : img'[i] = img[i]
        /\ img'[Len(img) + 1] = x /\ Shows(img') = Shows(img)
    BY <1>1, <2>1, <2>2, AppendProperties, ShowsAppended, LenProperties
  <2> QED BY <1>1, <2>1, <2>2, <2>3 DEF ImageInv
<1>3. ASSUME NEW s \in BOOLEAN, Display(s) PROVE ImageInv'
  <2>1. /\ img' = <<>> /\ pc' = "page"
        /\ worker'.pc \in {"start", "none"} /\ worker'.item = 0 /\ worker'.bytes = 0
    BY <1>1, <1>3 DEF Display
  <2> QED BY <1>1, <2>1 DEF ImageInv
<1>4. CASE Free
  <2>1. img' = <<>> /\ worker'.pc = "none" /\ worker'.item = 0 /\ worker'.bytes <= MaxImageBytes
    BY <1>1, <1>4 DEF Free, Joined, ImageInv
  <2> QED BY <1>1, <2>1 DEF ImageInv
<1>5. ASSUME NEW bar, NEW u, NEW confirmed, Poll(bar, u, confirmed) PROVE ImageInv'
  BY <1>5, PollLeaves DEF ImageInv
<1>6. ASSUME NEW h \in BOOLEAN, WorkerStart(h) PROVE ImageInv'
  <2>1. /\ UNCHANGED <<img, pc>> /\ worker.pc = "start" /\ worker'.pc \in {"loop", "gone"}
        /\ worker'.item = worker.item /\ worker'.bytes = worker.bytes
    BY <1>1, <1>6 DEF WorkerStart
  <2> QED BY <1>1, <2>1 DEF ImageInv
<1>7. CASE WorkerEnds
  <2>1. /\ UNCHANGED <<img, pc>> /\ worker.pc = "loop" /\ worker'.pc = "gone"
        /\ worker'.item = worker.item /\ worker'.bytes = worker.bytes
    BY <1>1, <1>7 DEF WorkerEnds
  <2> QED BY <1>1, <2>1 DEF ImageInv
<1>8. CASE Pick
  <2> DEFINE i == Max(Unfetched)
  <2>1. i \in DOMAIN img /\ ~img[i].fetched
    BY <1>8, Picked DEF Pick
  <2>2. img' = [img EXCEPT ![i].fetched = TRUE] /\ UNCHANGED pc /\ worker.pc = "loop"
    BY <1>8 DEF Pick
  <2>3. worker'.pc = "fetch" /\ worker'.item = i /\ worker'.bytes = worker.bytes
    <3>1. worker' = [worker EXCEPT !.pc = "fetch", !.item = i]
      BY <1>8 DEF Pick
    <3> HIDE DEF i
    <3> QED BY <1>1, <3>1
  <2> HIDE DEF i
  <2>4. img' \in Seq(Image)
    BY <1>1, FetchingStep DEF Fetching
  <2>5. /\ Len(img') = Len(img) /\ DOMAIN img' = DOMAIN img
        /\ \A j \in DOMAIN img : j # i => img'[j] = img[j]
        /\ img'[i] = [img[i] EXCEPT !.fetched = TRUE]
    BY <1>1, <2>1, <2>2, <2>4, LenProperties
  <2>6. img'[i].data = img[i].data /\ img'[i].fetched
    <3>1. img[i] \in Image
      BY <1>1, <2>1, OfImage
    <3> QED BY <2>5, <3>1 DEF Image
  <2>7. img[i].data = 0
    BY <2>1 DEF ImageInv
  <2>8. Shows(img') = worker.bytes
    <3>1. Changes(img, img', i)
      BY <1>1, <2>1, <2>4, <2>5 DEF Changes
    <3>2. Shows(img') = Shows(img) + img'[i].data - img[i].data
      BY <3>1, ShowsOther
    <3>3. Shows(img) = worker.bytes /\ worker.bytes \in Nat
      BY <1>1, <2>2 DEF ImageInv
    <3> QED BY <2>6, <2>7, <3>2, <3>3
  <2>9. i <= MaxImages
    BY <1>1, <2>1 DEF ImageInv
  <2> QED BY <1>1, <2>1, <2>2, <2>3, <2>5, <2>6, <2>7, <2>8, <2>9 DEF ImageInv
<1>9. ASSUME NEW size \in Sizes \cup {0}, Install(size) PROVE ImageInv'
  <2> DEFINE i == worker.item
  <2>1. size \in Nat
    OBVIOUS
  <2>2. /\ worker.pc = "fetch" /\ UNCHANGED pc /\ i \in DOMAIN img
        /\ img[i].data = 0 /\ img[i].fetched
    BY <1>9 DEF Install, ImageInv
  <2>3. CASE UNCHANGED img /\ worker' = [worker EXCEPT !.pc = "loop", !.item = 0]
    <3>1. worker'.pc = "loop" /\ worker'.item = 0 /\ worker'.bytes = worker.bytes
      BY <1>1, <2>3
    <3> QED BY <1>1, <2>2, <2>3, <3>1 DEF ImageInv
  <2>4. CASE /\ size # 0 /\ Fits(size)
             /\ img' = [img EXCEPT ![worker.item].data = size]
             /\ worker' = [pc |-> "loop", item |-> 0, bytes |-> worker.bytes + size]
    <3>1. worker'.pc = "loop" /\ worker'.item = 0 /\ worker'.bytes = worker.bytes + size
      BY <2>4
    <3>2. img' \in Seq(Image)
      BY <1>1, FetchingStep DEF Fetching
    <3>3. img' = [img EXCEPT ![i] = [img[i] EXCEPT !.data = size]]
      BY <2>4
    <3>4. img[i] \in Image
      BY <1>1, <2>2, OfImage
    <3> HIDE DEF i
    <3>5. /\ Len(img') = Len(img) /\ DOMAIN img' = DOMAIN img
          /\ \A j \in DOMAIN img : j # i => img'[j] = img[j]
          /\ img'[i] = [img[i] EXCEPT !.data = size]
      BY <1>1, <2>2, <3>2, <3>3, LenProperties
    <3>6. img'[i].data = size /\ img'[i].fetched = img[i].fetched
      BY <3>4, <3>5 DEF Image
    <3>7. Shows(img') = Shows(img) + size
      <4>1. Changes(img, img', i)
        BY <1>1, <2>2, <3>2, <3>5 DEF Changes
      <4>3. Shows(img') = Shows(img) + img'[i].data - img[i].data
        BY <4>1, ShowsOther
      <4>4. Shows(img) \in Nat
        BY <1>1, <2>2 DEF ImageInv
      <4> QED BY <2>1, <2>2, <3>6, <4>3, <4>4
    <3>8. Shows(img') = worker.bytes + size /\ pc \in {"page", "leaving"}
      BY <2>2, <3>7 DEF ImageInv
    <3>9. worker.bytes + size <= MaxImageBytes
      BY <1>1, <2>1, <2>4 DEF Fits
    <3>10. \A j \in DOMAIN img : ~img'[j].fetched => img'[j].data = 0
      <4>1. img[i].fetched
        BY <2>2
      <4> QED BY <3>5, <3>6, <4>1 DEF ImageInv
    <3> QED BY <1>1, <2>2, <3>1, <3>5, <3>8, <3>9, <3>10 DEF ImageInv
  <2> QED BY <1>9, <2>3, <2>4 DEF Install
<1>10. CASE User
  <2>1. CASE Relaunch
    <3>1. img' = <<>> /\ worker'.pc = "none" /\ worker'.item = 0 /\ worker'.bytes = 0
      BY <1>1, <2>1 DEF Relaunch
    <3> QED BY <1>1, <3>1 DEF ImageInv
  <2>2. CASE User /\ ~Relaunch
    <3>1. UNCHANGED <<img, worker>> /\ (worker.pc # "none" => UNCHANGED pc)
      BY <2>2 DEF User, Go, ClickCancel, Click, RequestExit, Quit, page, ImageInv
    <3> QED BY <3>1 DEF ImageInv
  <2> QED BY <1>10, <2>1, <2>2
<1>11. CASE \/ Jump \/ JumpHome \/ Take \/ Requested \/ ReadCancel \/ PromptGone
            \/ OfferDownload \/ TrySearch \/ Failed
  <2>1. UNCHANGED <<img, worker>> /\ pc \notin {"page", "leaving"}
    BY <1>11 DEF Jump, JumpHome, Take, Requested, RequestUnsent, Request, ReadCancel, PromptGone,
       OfferDownload, TrySearch, Failed, page
  <2> QED BY <2>1 DEF ImageInv
<1>12. CASE QuitPage \/ UNCHANGED vars
  <2>1. UNCHANGED <<img, worker>> /\ (UNCHANGED pc \/ pc' = "leaving")
    BY <1>12 DEF QuitPage, vars, page
  <2> QED BY <2>1 DEF ImageInv
<1> QED
  BY <1>2, <1>3, <1>4, <1>5, <1>6, <1>7, <1>8, <1>9, <1>10, <1>11, <1>12
  DEF Next, Page, Images, Loading

LEMMA StartOfImages == Init => Fetching /\ ImageInv
<1> SUFFICES ASSUME Init PROVE Fetching /\ ImageInv
  OBVIOUS
<1>1. img = <<>> /\ worker = [pc |-> "none", item |-> 0, bytes |-> 0]
  BY DEF Init, Idle
<1> QED BY <1>1, EmptySeq, BrowseAssumption DEF Fetching, ImageInv

\* The image thread never holds an image of a page that was freed, and the
\* page shows no more than MaxImageBytes.
THEOREM NoImageDangles == Spec => []NoDanglingImage
<1>1. Init => Fetching /\ ImageInv
  BY StartOfImages
<1>2. Fetching /\ ImageInv => NoDanglingImage
  BY DEF Fetching, ImageInv, NoDanglingImage
<1> QED BY <1>1, <1>2, FetchingStep, ImageStep, PTL DEF Spec

-----------------------------------------------------------------------------
(* Forms.                                                                  *)

Form == [url : Urls, sent : 0..2, to : Urls \cup {NoUrl}]
Address == Urls \cup {NoUrl}

\* The form of a body that waits to be sent: it was not sent before.
Held(list, body) ==
  body.form # 0 =>
    /\ body.form \in DOMAIN list
    /\ list[body.form].sent = 0 /\ list[body.form].url = body.url
SentOnce(list) ==
  \A f \in DOMAIN list : list[f].sent <= 1 /\ (list[f].sent > 0 => list[f].to = list[f].url)

\* What a pass over the buttons goes through.
Pass ==
  [choice : {0, 1}, link : Address, asked : Nat, pending : [url : Address, form : Nat],
   forms : Seq(Form)]
Sound(s) == Held(s.forms, s.pending) /\ SentOnce(s.forms) /\ s.asked <= Len(s.forms)

LEMMA PressKeeps ==
  ASSUME NEW s \in Pass, NEW b \in DOMAIN Buttons, NEW confirmed
  PROVE  LET t == Press(s, b, confirmed) IN
         /\ t \in Pass
         /\ Sound(s) => Sound(t)
         /\ Len(t.forms) <= Len(s.forms) + (IF b \in confirmed THEN 1 ELSE 0)
<1> DEFINE t == Press(s, b, confirmed)
           u == Buttons[b].url
           x == [url |-> u, sent |-> 0, to |-> NoUrl]
<1> DEFINE more == IF b \in confirmed THEN 1 ELSE 0
<1> SUFFICES /\ t \in Pass /\ (Sound(s) => Sound(t))
             /\ Len(t.forms) <= Len(s.forms) + more
  OBVIOUS
<1>1. Buttons[b] \in [kind : {"link", "dead", "post"}, url : Urls] /\ u \in Urls
  <2>1. Buttons[b] \in [kind : {"link", "dead", "post"}, url : Urls]
    <3>1. /\ Buttons \in Seq([kind : {"link", "dead", "post"}, url : Urls])
          /\ b \in 1..Len(Buttons)
      BY BrowseAssumption, LenProperties
    <3> QED BY <3>1, ElementOfSeq
  <2> QED BY <2>1
<1>2. /\ s.choice \in {0, 1} /\ s.link \in Address /\ s.asked \in Nat
      /\ s.pending \in [url : Address, form : Nat] /\ s.forms \in Seq(Form)
      /\ Len(s.forms) \in Nat /\ DOMAIN s.forms = 1..Len(s.forms)
  BY LenProperties DEF Pass
<1>7. more \in {0, 1} /\ (b \in confirmed => more = 1)
  OBVIOUS
<1> HIDE DEF more
<1>3. CASE t = s
  <2> HIDE DEF t
  <2> QED BY <1>2, <1>3, <1>7
<1>4. CASE t = [s EXCEPT !.choice = 0]
  <2>1. t \in Pass /\ t.forms = s.forms /\ t.pending = s.pending /\ t.asked = s.asked
    <3> HIDE DEF t
    <3> QED BY <1>4 DEF Pass
  <2> HIDE DEF t
  <2> QED BY <1>2, <1>7, <2>1 DEF Sound
<1>5. CASE t = [s EXCEPT !.choice = 1, !.link = u, !.asked = 0]
  <2>1. t \in Pass /\ t.forms = s.forms /\ t.pending = s.pending /\ t.asked = 0
    <3> HIDE DEF t, u
    <3> QED BY <1>1, <1>5 DEF Pass, Address
  <2> HIDE DEF t
  <2> QED BY <1>2, <1>7, <2>1 DEF Sound
<1>6. CASE /\ b \in confirmed
           /\ t = [choice |-> 1, link |-> u, asked |-> Len(s.forms) + 1,
                   pending |-> [url |-> u, form |-> Len(s.forms) + 1],
                   forms |-> Append(s.forms, x)]
  <2>1. x \in Form
    BY <1>1 DEF Form
  <2> HIDE DEF x
  <2>2. /\ Append(s.forms, x) \in Seq(Form) /\ Len(Append(s.forms, x)) = Len(s.forms) + 1
        /\ \A i \in 1..Len(s.forms) : Append(s.forms, x)[i] = s.forms[i]
        /\ Append(s.forms, x)[Len(s.forms) + 1] = x
    BY <1>2, <2>1, AppendProperties
  <2> DEFINE list == Append(s.forms, x)
  <2>3. /\ t.choice = 1 /\ t.link = u /\ t.asked = Len(s.forms) + 1 /\ t.forms = list
        /\ t.pending = [url |-> u, form |-> Len(s.forms) + 1]
    BY <1>6
  <2>4. t \in Pass
    <3> HIDE DEF t, u, list
    <3> QED BY <1>1, <1>2, <1>6, <2>2 DEF Pass, Address, list
  <2>5. Sound(s) => Sound(t)
    <3> SUFFICES ASSUME Sound(s) PROVE Sound(t)
      OBVIOUS
    <3>1. DOMAIN list = 1..(Len(s.forms) + 1)
      BY <1>2, <2>2, LenProperties
    <3>2. Held(list, [url |-> u, form |-> Len(s.forms) + 1])
      BY <1>2, <2>2, <3>1 DEF Held, x
    <3>3. SentOnce(list)
      <4> SUFFICES ASSUME NEW f \in 1..(Len(s.forms) + 1)
                   PROVE  list[f].sent <= 1 /\ (list[f].sent > 0 => list[f].to = list[f].url)
        BY <3>1 DEF SentOnce
      <4>1. CASE f = Len(s.forms) + 1
        BY <2>2, <4>1 DEF x
      <4>2. CASE f \in 1..Len(s.forms)
        BY <1>2, <2>2, <4>2 DEF Sound, SentOnce
      <4> QED BY <1>2, <4>1, <4>2
    <3> HIDE DEF t, u, list
    <3> QED BY <1>2, <2>2, <2>3, <3>2, <3>3 DEF Sound, list
  <2>6. Len(t.forms) <= Len(s.forms) + 1
    <3> HIDE DEF t
    <3> QED BY <1>2, <2>2, <2>3
  <2> HIDE DEF t
  <2> QED BY <1>2, <1>6, <1>7, <2>4, <2>5, <2>6
<1> QED BY <1>1, <1>3, <1>4, <1>5, <1>6 DEF Press

\* A pass over the buttons, one after another.
Presses(f, s, confirmed, n) ==
  /\ PressAll(s, confirmed) = f[n] /\ f[0] = s
  /\ \A i \in 1..n : f[i] = Press(f[i - 1], i, confirmed)
LEMMA Passes ==
  ASSUME NEW s \in Pass, NEW confirmed, NEW n \in Nat, n = Len(Buttons)
  PROVE  \E f : Presses(f, s, confirmed, n)
<1> DEFINE step == [i \in 1..n |-> [r \in Pass |-> Press(r, i, confirmed)]]
           F(f) == [i \in 0..Len(Buttons) |-> IF i = 0 THEN s ELSE Press(f[i - 1], i, confirmed)]
           g == CHOOSE f : f = F(f)
<1>1. DOMAIN Buttons = 1..n
  BY LenProperties, BrowseAssumption
<1>2. step \in [1..n -> [Pass -> Pass]]
  BY <1>1, PressKeeps
<1>3. PICK f : Iterates(f, n, s, step) /\ \A i \in 0..n : f[i] \in Pass
  <2>1. StepsIn(Pass, n, step)
    BY <1>2 DEF StepsIn
  <2> HIDE DEF step
  <2> QED BY <2>1, Iteration
<1>4. f = F(f)
  <2>1. f = [i \in 0..n |-> f[i]] /\ f[0] = s /\ \A i \in 1..n : f[i] = step[i][f[i - 1]]
    BY <1>3 DEF Iterates
  <2>2. ASSUME NEW i \in 1..n PROVE f[i] = Press(f[i - 1], i, confirmed)
    <3>1. f[i - 1] \in Pass /\ f[i] = step[i][f[i - 1]]
      <4>1. i - 1 \in 0..n
        OBVIOUS
      <4> HIDE DEF step
      <4> QED BY <1>3, <2>1, <4>1
    <3> QED BY <3>1
  <2>3. \A i \in 0..n : f[i] = IF i = 0 THEN s ELSE Press(f[i - 1], i, confirmed)
    BY <2>1, <2>2
  <2> HIDE DEF step
  <2> QED BY <2>1, <2>3
<1>5. g = F(g)
  BY <1>4, Zenon
<1>6. PressAll(s, confirmed) = g[Len(Buttons)]
  BY Zenon DEF PressAll
<1> HIDE DEF g
<1>7. g[0] = s /\ \A i \in 1..n : g[i] = Press(g[i - 1], i, confirmed)
  BY <1>5
<1> QED BY <1>6, <1>7, Zenon DEF Presses

LEMMA PressAllKeeps ==
  ASSUME NEW s \in Pass, Sound(s), NEW confirmed \in SUBSET DOMAIN Buttons
  PROVE  LET t == PressAll(s, confirmed) IN
         t \in Pass /\ Sound(t) /\ Len(t.forms) <= Len(s.forms) + Cardinality(confirmed)
<1> DEFINE n == Len(Buttons)
           C(i) == Cardinality(confirmed \cap (1..i))
<1>1. n \in Nat /\ n = Len(Buttons) /\ DOMAIN Buttons = 1..n
  BY LenProperties, BrowseAssumption
<1> HIDE DEF n
<1>2. PICK f : /\ PressAll(s, confirmed) = f[n] /\ f[0] = s
               /\ \A i \in 1..n : f[i] = Press(f[i - 1], i, confirmed)
  <2>1. \E f : Presses(f, s, confirmed, n)
    BY <1>1, Passes, Zenon
  <2> QED BY <2>1, Zenon DEF Presses
<1>3. \A i \in 0..n : C(i) \in Nat
  <2>1. ASSUME NEW i \in 0..n PROVE C(i) \in Nat
    <3>1. IsFiniteSet(1..i)
      BY FS_Interval
    <3>2. IsFiniteSet(confirmed \cap (1..i))
      BY <3>1, FS_Subset
    <3> QED BY <3>2, FS_CardinalityType
  <2> QED BY <2>1
<1>4. ASSUME NEW i \in 1..n
      PROVE  C(i) = C(i - 1) + (IF i \in confirmed THEN 1 ELSE 0)
  <2>1. IsFiniteSet(1..(i - 1))
    BY FS_Interval
  <2>2. IsFiniteSet(confirmed \cap (1..(i - 1)))
    BY <2>1, FS_Subset
  <2>3. CASE i \in confirmed
    <3>1. confirmed \cap (1..i) = (confirmed \cap (1..(i - 1))) \cup {i}
      BY <2>3
    <3>2. i \notin confirmed \cap (1..(i - 1))
      OBVIOUS
    <3> QED BY <2>2, <2>3, <3>1, <3>2, FS_AddElement
  <2>4. CASE i \notin confirmed
    <3>1. confirmed \cap (1..i) = confirmed \cap (1..(i - 1))
      BY <2>4
    <3>2. i - 1 \in 0..n
      BY <1>1
    <3> QED BY <1>3, <2>4, <3>1, <3>2
  <2> QED BY <2>3, <2>4
<1>5. C(0) = 0 /\ C(n) = Cardinality(confirmed)
  <2>1. confirmed \cap (1..0) = {}
    OBVIOUS
  <2>2. confirmed \cap (1..n) = confirmed
    BY <1>1
  <2> QED BY <2>1, <2>2, FS_EmptySet
<1> HIDE DEF C
<1> DEFINE T == {i \in 0..n : f[i] \in Pass /\ Sound(f[i]) /\ Len(f[i].forms) <= Len(s.forms) + C(i)}
<1>6. Len(s.forms) \in Nat
  BY LenProperties DEF Pass
<1>7. 0 \in T
  BY <1>1, <1>2, <1>5, <1>6
<1>8. ASSUME NEW i \in 1..n, i - 1 \in T PROVE i \in T
  <2> DEFINE r == f[i - 1]
             q == f[i]
  <2>1. r \in Pass /\ Sound(r) /\ Len(r.forms) <= Len(s.forms) + C(i - 1) /\ i - 1 \in 0..n
    BY <1>8
  <2>2. q = Press(r, i, confirmed) /\ i \in DOMAIN Buttons
    BY <1>1, <1>2
  <2> HIDE DEF r, q
  <2>3. q \in Pass /\ Sound(q) /\ Len(q.forms) <= Len(r.forms) + (IF i \in confirmed THEN 1 ELSE 0)
    BY <2>1, <2>2, PressKeeps
  <2>4. Len(r.forms) \in Nat /\ Len(q.forms) \in Nat
    BY <2>1, <2>3, LenProperties DEF Pass
  <2>5. C(i - 1) \in Nat /\ C(i) = C(i - 1) + (IF i \in confirmed THEN 1 ELSE 0)
    BY <1>3, <1>4, <2>1
  <2>6. Len(q.forms) <= Len(s.forms) + C(i)
    <3>1. CASE i \in confirmed
      BY <1>6, <2>1, <2>3, <2>4, <2>5, <3>1
    <3>2. CASE i \notin confirmed
      BY <1>6, <2>1, <2>3, <2>4, <2>5, <3>2
    <3> QED BY <3>1, <3>2
  <2> QED BY <1>1, <2>3, <2>6 DEF q
<1>9. n \in T
  <2>1. \A i \in 0..n : i \in T
    <3> HIDE DEF T
    <3> QED BY <1>1, <1>7, <1>8, Induction
  <2> QED BY <1>1, <2>1
<1> QED BY <1>2, <1>5, <1>9

\* The values that are neither an image's nor a form's; jump goes to an
\* address.
Controls ==
  /\ pc \in {"home", "jump", "prompt", "request", "answered", "sliding", "decide",
             "page", "leaving", "off"}
  /\ exiting \in BOOLEAN /\ searchWord \in BOOLEAN
  /\ cancel \in BOOLEAN /\ requestCancelled \in BOOLEAN
  /\ url \in Address /\ link \in Address
  /\ answer \in Pages \cup {"none", "empty", "attachment", "other"}
  /\ clicked \subseteq DOMAIN Buttons
  /\ threadState \in {"run", "exit"}
  /\ clicks \in {"none", "early", "late"}
  /\ pc = "jump" => url \in Urls

\* A body that waits has not been sent, and while it is being sent no other
\* waits.
FormsInv ==
  /\ post \in 0..MaxForms /\ asked \in 0..MaxForms
  /\ pending \in [url : Address, form : 0..MaxForms]
  /\ forms \in Seq(Form) /\ Len(forms) <= MaxForms
  /\ Held(forms, pending) /\ SentOnce(forms)
  /\ pc = "request" => pending.form = 0 /\ Held(forms, [url |-> url, form |-> post])

LEMMA PollForms ==
  ASSUME Controls, FormsInv, NEW bar \in BOOLEAN, NEW u \in Address,
         NEW confirmed \in SUBSET DOMAIN Buttons, Poll(bar, u, confirmed)
  PROVE  link' \in Address /\ FormsInv'
<1> DEFINE start == [choice |-> IF bar THEN 1 ELSE 0,
                     link |-> IF bar /\ u # NoUrl THEN u ELSE link,
                     asked |-> 0, pending |-> pending, forms |-> forms]
           s == PressAll(start, confirmed)
<1>1. /\ link' = s.link /\ pending' = s.pending /\ forms' = s.forms
      /\ (asked' = s.asked \/ UNCHANGED asked) /\ UNCHANGED <<url, post>>
      /\ (pc' = "leaving" \/ pc' = pc) /\ pc = "page"
      /\ Len(forms) + Cardinality(confirmed) <= MaxForms
  BY DEF Poll, load
<1>2. start \in Pass /\ Sound(start) /\ start.forms = forms
  <2>1. /\ start.choice \in {0, 1} /\ start.link \in Address /\ start.asked = 0
        /\ start.pending = pending /\ start.forms = forms
    BY DEF Controls
  <2>2. pending \in [url : Address, form : Nat] /\ forms \in Seq(Form) /\ Len(forms) \in Nat
    BY LenProperties, BrowseAssumption DEF FormsInv
  <2>3. start = [choice |-> start.choice, link |-> start.link, asked |-> 0, pending |-> pending,
                 forms |-> forms]
    OBVIOUS
  <2> HIDE DEF start
  <2> QED BY <2>1, <2>2, <2>3 DEF Pass, Sound, FormsInv
<1> HIDE DEF start
<1>3. s \in Pass /\ Sound(s) /\ Len(s.forms) <= Len(forms) + Cardinality(confirmed)
  BY <1>2, PressAllKeeps
<1> HIDE DEF s
<1>4. /\ s.link \in Address /\ s.asked \in Nat /\ s.pending \in [url : Address, form : Nat]
      /\ s.forms \in Seq(Form) /\ Len(s.forms) \in Nat /\ DOMAIN s.forms = 1..Len(s.forms)
      /\ Len(forms) \in Nat
  BY <1>3, LenProperties DEF Pass, FormsInv
<1>5. Cardinality(confirmed) \in Nat
  <2>1. IsFiniteSet(DOMAIN Buttons)
    <3>1. DOMAIN Buttons = 1..Len(Buttons) /\ Len(Buttons) \in Nat
      BY LenProperties, BrowseAssumption
    <3> QED BY <3>1, FS_Interval
  <2>2. IsFiniteSet(confirmed)
    BY <2>1, FS_Subset
  <2> QED BY <2>2, FS_CardinalityType
<1>6. Len(s.forms) <= MaxForms
  BY <1>1, <1>3, <1>4, <1>5, BrowseAssumption
<1>7. s.asked \in 0..MaxForms
  BY <1>3, <1>4, <1>6, BrowseAssumption DEF Sound
<1>8. s.pending \in [url : Address, form : 0..MaxForms]
  <2>1. s.pending.form \in 0..MaxForms
    BY <1>3, <1>4, <1>6, BrowseAssumption DEF Sound, Held
  <2> QED BY <1>4, <2>1
<1> QED BY <1>1, <1>3, <1>4, <1>6, <1>7, <1>8 DEF FormsInv, Sound

\* request sends the body of one form.
LEMMA RequestForms ==
  ASSUME Controls, FormsInv, NEW a, NEW final, Request(a, final)
  PROVE  FormsInv'
<1>1. /\ pc = "request" /\ pc' = "answered" /\ UNCHANGED <<post, asked, pending>>
      /\ forms' = IF post = 0 THEN forms
                    ELSE [forms EXCEPT ![post].sent = @ + 1, ![post].to = url]
  BY DEF Request
<1>2. CASE post = 0
  BY <1>1, <1>2 DEF FormsInv
<1>3. CASE post # 0
  <2> DEFINE x == [forms[post] EXCEPT !.sent = @ + 1, !.to = url]
  <2>1. /\ post \in DOMAIN forms /\ forms[post].sent = 0 /\ forms[post].url = url
        /\ pending.form = 0
    BY <1>1, <1>3 DEF FormsInv, Held
  <2>2. forms \in Seq(Form) /\ DOMAIN forms = 1..Len(forms) /\ Len(forms) \in Nat
    BY LenProperties DEF FormsInv
  <2>3. forms[post] \in Form
    BY <2>1, <2>2, ElementOfSeq
  <2>4. forms' = [forms EXCEPT ![post] = x]
    BY <1>1, <1>3
  <2>5. x \in Form /\ x.sent = 1 /\ x.to = url /\ x.url = url
    <3> DEFINE r == forms[post]
    <3>1. r \in [url : Urls, sent : 0..2, to : Urls \cup {NoUrl}] /\ r.sent = 0 /\ r.url = url
      BY <2>1, <2>3 DEF Form
    <3>2. url \in Urls \cup {NoUrl}
      BY DEF Controls, Address
    <3>3. x = [r EXCEPT !.sent = @ + 1, !.to = url]
      OBVIOUS
    <3> HIDE DEF r, x
    <3>4. x.url = r.url /\ x.sent = r.sent + 1 /\ x.to = url
      BY <3>1, <3>3
    <3>5. x = [url |-> x.url, sent |-> x.sent, to |-> x.to]
      BY <3>1, <3>3
    <3> QED BY <3>1, <3>2, <3>4, <3>5 DEF Form
  <2> HIDE DEF x
  <2>6. forms' \in Seq(Form) /\ Len(forms') = Len(forms)
    <3>1. forms' \in Seq(Form)
      BY <2>1, <2>2, <2>4, <2>5, ExceptSeq
    <3>2. DOMAIN forms' = 1..Len(forms)
      BY <2>2, <2>4
    <3> QED BY <2>2, <3>1, <3>2, LenProperties
  <2>7. DOMAIN forms' = DOMAIN forms /\ \A f \in DOMAIN forms : f # post => forms'[f] = forms[f]
    BY <2>4
  <2>8. forms'[post] = x
    BY <2>1, <2>4
  <2>9. SentOnce(forms')
    <3> SUFFICES ASSUME NEW f \in DOMAIN forms
                 PROVE  forms'[f].sent <= 1 /\ (forms'[f].sent > 0 => forms'[f].to = forms'[f].url)
      BY <2>7 DEF SentOnce
    <3>1. CASE f = post
      BY <2>5, <2>8, <3>1
    <3>2. CASE f # post
      BY <2>7, <3>2 DEF FormsInv, SentOnce
    <3> QED BY <3>1, <3>2
  <2>10. Held(forms', pending)
    BY <2>1 DEF Held
  <2> QED BY <1>1, <2>6, <2>9, <2>10 DEF FormsInv
<1> QED BY <1>2, <1>3

LEMMA FormsStep == Controls /\ FormsInv /\ [Next]_vars => Controls' /\ FormsInv'
<1> SUFFICES ASSUME Controls, FormsInv, [Next]_vars PROVE Controls' /\ FormsInv'
  OBVIOUS
<1> USE BrowseAssumption
<1>0. /\ Search \in Urls /\ Http \subseteq Urls /\ \A a \in Urls : Decoded[a] \in Urls
      /\ Urls \subseteq Address /\ NoUrl \in Address
      /\ NoPost \in [url : Address, form : 0..MaxForms] /\ NoPost.form = 0
      /\ 0 \in 0..MaxForms
  BY DEF Address, NoPost
<1>1. CASE Jump
  <2>1. /\ url' \in Urls /\ pc' = "prompt" /\ cancel' = FALSE /\ clicks' = "none"
        /\ UNCHANGED <<exiting, searchWord, post, answer, requestCancelled, pending, page, forms, asked>>
    BY <1>0, <1>1 DEF Jump, Controls
  <2>2. Controls'
    BY <1>0, <2>1 DEF Controls, page
  <2>3. FormsInv'
    BY <2>1 DEF FormsInv
  <2> QED BY <2>2, <2>3
<1>13. CASE JumpHome
  <2>1. Controls'
    BY <1>13 DEF JumpHome, Controls, load, page
  <2>2. FormsInv'
    BY <1>0, <1>13 DEF JumpHome, FormsInv, load
  <2> QED BY <2>1, <2>2
<1>2. CASE Take
  <2>1. Controls'
    BY <1>2 DEF Take, Controls, page
  <2>2. FormsInv'
    <3>1. /\ post' = IF pending.url = url THEN pending.form ELSE 0
          /\ pending' = NoPost /\ asked' = 0 /\ UNCHANGED <<url, forms>>
      BY <1>2 DEF Take
    <3>2. Held(forms, NoPost)
      BY <1>0 DEF Held
    <3>3. Held(forms, [url |-> url, form |-> post'])
      BY <3>1 DEF FormsInv, Held
    <3> QED BY <1>0, <3>1, <3>2, <3>3 DEF FormsInv
  <2> QED BY <2>1, <2>2
<1>3. CASE Requested
  <2>1. CASE RequestUnsent
    BY <2>1 DEF RequestUnsent, Controls, FormsInv, page
  <2>2. ASSUME NEW a \in Pages \cup {"empty", "attachment", "other"}, NEW final \in Http, Request(a, final)
        PROVE  Controls' /\ FormsInv'
    <3>1. Controls'
      BY <1>0, <2>2 DEF Request, Controls, page
    <3> QED BY <2>2, <3>1, RequestForms
  <2> QED BY <1>3, <2>1, <2>2 DEF Requested
<1>4. CASE ReadCancel \/ PromptGone \/ OfferDownload \/ Failed
  <2>1. /\ UNCHANGED <<url, post, asked, pending, forms, searchWord, exiting, answer, cancel, clicks, page>>
        /\ pc' \in {"sliding", "home", "decide"} /\ requestCancelled' \in {requestCancelled, cancel}
    BY <1>4 DEF ReadCancel, PromptGone, OfferDownload, Failed, load
  <2>2. Controls'
    BY <2>1 DEF Controls, page
  <2>3. FormsInv'
    BY <2>1 DEF FormsInv
  <2> QED BY <2>2, <2>3
<1>5. CASE TrySearch
  <2>1. Controls'
    BY <1>0, <1>5 DEF TrySearch, Controls, page
  <2>2. FormsInv'
    BY <1>5 DEF TrySearch, FormsInv
  <2> QED BY <2>1, <2>2
<1>6. ASSUME NEW s \in BOOLEAN, Display(s) PROVE Controls' /\ FormsInv'
  <2>1. Controls'
    BY <1>0, <1>6 DEF Display, Controls, load
  <2>2. FormsInv'
    BY <1>6 DEF Display, FormsInv, load
  <2> QED BY <2>1, <2>2
<1>7. CASE AddImage \/ QuitPage
  <2>1. /\ UNCHANGED <<url, post, pending, forms, searchWord, exiting, answer, cancel, clicks,
                       requestCancelled, link, clicked>>
        /\ pc' \in {"page", "leaving"} /\ asked' \in {asked, 0} /\ threadState' \in {threadState, "exit"}
    BY <1>7 DEF AddImage, QuitPage, Leave, load
  <2>2. Controls'
    BY <2>1 DEF Controls
  <2>3. FormsInv'
    BY <1>0, <2>1 DEF FormsInv
  <2> QED BY <2>2, <2>3
<1>8. CASE Free
  <2>1. Controls'
    BY <1>0, <1>8 DEF Free, Controls
  <2>2. FormsInv'
    BY <1>0, <1>8 DEF Free, FormsInv
  <2> QED BY <2>1, <2>2
<1>9. ASSUME NEW bar \in BOOLEAN, NEW u \in Urls \cup {NoUrl}, NEW confirmed \in SUBSET DOMAIN Buttons,
             Poll(bar, u, confirmed)
      PROVE  Controls' /\ FormsInv'
  <2>1. link' \in Address /\ FormsInv'
    BY <1>9, PollForms DEF Address
  <2>2. clicked' = {}
    BY <1>9 DEF Poll
  <2>3. Controls'
    BY <1>9, <2>1, <2>2, PollLeaves DEF Controls, load
  <2> QED BY <2>1, <2>3
<1>10. CASE Images
  <2>1. UNCHANGED <<pc, exiting, load, cancel, pending, link, clicked, threadState, forms, asked, clicks>>
    BY <1>10 DEF Images, WorkerStart, Pick, WorkerEnds, Install
  <2> QED BY <2>1 DEF Controls, FormsInv, load
<1>11. CASE User
  <2>1. ASSUME NEW u \in Urls, Go(u) PROVE Controls' /\ FormsInv'
    BY <1>0, <2>1 DEF Go, Controls, FormsInv, page
  <2>2. CASE ClickCancel \/ RequestExit \/ Quit
    <3>1. UNCHANGED <<load, pending, page, forms, asked>> /\ (UNCHANGED pc \/ pc' = "off")
      BY <2>2 DEF ClickCancel, RequestExit, Quit
    <3>2. FormsInv'
      BY <3>1 DEF FormsInv, load
    <3>3. CASE ClickCancel
      BY <3>1, <3>2, <3>3 DEF ClickCancel, Controls, load, page
    <3>4. CASE RequestExit
      BY <3>1, <3>2, <3>4 DEF RequestExit, Controls, load, page
    <3>5. CASE Quit
      BY <3>1, <3>2, <3>5 DEF Quit, Controls, load, page
    <3> QED BY <2>2, <3>3, <3>4, <3>5
  <2>3. ASSUME NEW b \in DOMAIN Buttons, Click(b) PROVE Controls' /\ FormsInv'
    BY <2>3 DEF Click, Controls, FormsInv, load
  <2>4. CASE Relaunch
    <3>1. Controls'
      BY <1>0, <2>4 DEF Relaunch, Controls
    <3>2. FormsInv'
      BY <1>0, <2>4 DEF Relaunch, FormsInv, Held
    <3> QED BY <3>1, <3>2
  <2> QED BY <1>11, <2>1, <2>2, <2>3, <2>4 DEF User
<1>12. CASE UNCHANGED vars
  BY <1>12 DEF vars, load, page, Controls, FormsInv
<1> QED
  BY <1>1, <1>2, <1>3, <1>4, <1>5, <1>6, <1>7, <1>8, <1>9, <1>10, <1>11, <1>12, <1>13
  DEF Next, Page, Loading

\* The body of a form is sent at most once, and to no address but the form's.
THEOREM BodyIsSentOnce == Spec => []BodySentOnce
<1>1. Init => Controls /\ FormsInv
  <2> SUFFICES ASSUME Init PROVE Controls /\ FormsInv
    OBVIOUS
  <2>1. forms = <<>> /\ <<>> \in Seq(Form) /\ Len(<<>>) = 0 /\ DOMAIN <<>> = {}
    BY EmptySeq DEF Init
  <2>2. SentOnce(forms) /\ Held(forms, pending)
    BY <2>1 DEF Init, SentOnce, Held, NoPost
  <2>3. Controls
    BY DEF Init, Controls, Address
  <2>4. FormsInv
    BY <2>1, <2>2, BrowseAssumption DEF Init, FormsInv, NoPost, Address
  <2> QED BY <2>3, <2>4
<1>2. Init => Fetching /\ ImageInv
  BY StartOfImages
<1>3. Controls /\ FormsInv /\ Fetching /\ ImageInv => BodySentOnce
  <2> SUFFICES ASSUME Controls, FormsInv, Fetching, ImageInv PROVE BodySentOnce
    OBVIOUS
  <2>1. worker \in [pc : {"none", "start", "loop", "fetch", "gone"}, item : 0..MaxImages,
                    bytes : 0..MaxImageBytes]
    BY BrowseAssumption DEF Fetching, ImageInv
  <2>2. TypeOK
    BY <2>1 DEF TypeOK, Controls, FormsInv, Fetching, ImageInv, Image, Form, Address
  <2> QED BY <2>2 DEF BodySentOnce, FormsInv, SentOnce
<1> QED BY <1>1, <1>2, <1>3, FetchingStep, ImageStep, FormsStep, PTL DEF Spec

-----------------------------------------------------------------------------
(* Responses: the answer to a request is what the last server said.         *)

CONSTANTS Types, LongType, Names, Unsafe, Redirect, Found, Missing, MaxHeaders, MaxDocument, MaxBlocks
VARIABLES blocks, length, headerBytes, status, type, filename, attachment, stoppedForAttachment, pieces, result, output

Answer == INSTANCE Responses

AnyLine == Answer!Lines \cup {<<"status", s>> : s \in {Redirect, Found, Missing}}

\* v is what the block says last, nothing if it does not say it.
Says(block, what, v) ==
  \/ v = Answer!Nothing /\ \A i \in 1..Len(block) : block[i][1] # what
  \/ v # Answer!Nothing /\ \E i \in 1..Len(block) :
       /\ block[i][1] = what /\ block[i][2] = v
       /\ \A j \in 1..Len(block) : j > i => block[j][1] # what

\* What the callback keeps of a block.
Keeps(block, code, media, name, attached) ==
  /\ block \in Seq(AnyLine)
  /\ \E i \in 1..Len(block) : block[i] = <<"status", code>>
  /\ Says(block, "type", media) /\ Says(block, "name", name)
  /\ media \in Types \cup {Answer!Nothing} /\ name \in (Names \cup {Answer!Nothing}) \ Unsafe
  /\ attached = (media # Answer!Nothing /\ media \notin Answer!Shown)

\* Until the request has ended.
Receiving ==
  /\ output = Answer!emptyblock /\ stoppedForAttachment = FALSE
  /\ pieces \in Seq(Nat) /\ length = Answer!Total(pieces) /\ length \in Nat /\ length < MaxDocument
  /\ pc = "headers" => length = 0
  /\ blocks # <<>> => Keeps(blocks[Len(blocks)], status, type, filename, attachment)
  /\ pc = "body" => blocks # <<>> /\ (status = Found => ~attachment)

ResponseInv ==
  /\ pc \in {"headers", "body", "ended"}
  /\ blocks \in Seq(Seq(AnyLine))
  /\ pc # "ended" => Receiving
  /\ Answer!AnswerIsTheLast

\* The sum of the pieces goes on from one to the next.
LEMMA TotalSums ==
  ASSUME NEW p \in Seq(Nat)
  PROVE  \E g : /\ Answer!Total(p) = g[Len(p)] /\ g[0] = 0
                /\ \A i \in 1..Len(p) : g[i] = g[i - 1] + p[i]
                /\ \A i \in 0..Len(p) : g[i] \in Nat
<1> DEFINE n == Len(p)
           g == CHOOSE f : Sums(f, n, 0, p)
<1>1. n \in Nat /\ \A i \in 1..n : p[i] \in Nat
  BY LenProperties, ElementOfSeq
<1>2. Sums(g, n, 0, p)
  <2>1. \E f : Sums(f, n, 0, p)
    BY <1>1, SumsExist
  <2> QED BY <2>1, Zenon
<1>3. Answer!Total(p) = g[n]
  BY Zenon DEF Answer!Total, Sums
<1> HIDE DEF g
<1> QED BY <1>1, <1>2, <1>3, SumsAreNat DEF n

LEMMA TotalGoesOn ==
  ASSUME NEW p \in Seq(Nat), NEW k \in Nat
  PROVE  Answer!Total(<<>>) = 0 /\ Answer!Total(p) \in Nat /\ Answer!Total(Append(p, k)) = Answer!Total(p) + k
<1> DEFINE q == Append(p, k)
           n == Len(p)
<1>1. n \in Nat /\ q \in Seq(Nat) /\ Len(q) = n + 1 /\ q[n + 1] = k /\ \A i \in 1..n : q[i] = p[i]
  BY LenProperties, AppendProperties
<1>2. PICK f : /\ Answer!Total(p) = f[Len(p)] /\ f[0] = 0
               /\ \A i \in 1..Len(p) : f[i] = f[i - 1] + p[i]
               /\ \A i \in 0..Len(p) : f[i] \in Nat
  BY TotalSums
<1>3. PICK g : /\ Answer!Total(q) = g[Len(q)] /\ g[0] = 0
               /\ \A i \in 1..Len(q) : g[i] = g[i - 1] + q[i]
               /\ \A i \in 0..Len(q) : g[i] \in Nat
  BY <1>1, TotalSums
<1> HIDE DEF q
<1> DEFINE T == {i \in 0..n : f[i] = g[i]}
<1>4. 0 \in T
  BY <1>1, <1>2, <1>3
<1>5. ASSUME NEW i \in 1..n, i - 1 \in T PROVE i \in T
  <2>1. i \in 1..Len(q) /\ i \in 1..Len(p) /\ q[i] = p[i] /\ f[i - 1] = g[i - 1]
    BY <1>1, <1>5
  <2>2. f[i] = f[i - 1] + p[i] /\ g[i] = g[i - 1] + q[i]
    BY <1>2, <1>3, <2>1
  <2> QED BY <2>1, <2>2
<1>6. \A i \in 0..n : i \in T
  <2> HIDE DEF T, n
  <2> QED BY <1>1, <1>4, <1>5, Induction
<1>7. f[n] = g[n] /\ f[n] \in Nat
  BY <1>1, <1>2, <1>6
<1>8. g[n + 1] = g[n] + k
  <2>1. n + 1 \in 1..Len(q) /\ (n + 1) - 1 = n
    BY <1>1
  <2> QED BY <1>1, <1>3, <2>1
<1>9. Answer!Total(<<>>) = 0
  <2>1. <<>> \in Seq(Nat) /\ Len(<<>>) = 0
    BY EmptySeq
  <2> QED BY <2>1, TotalSums
<1> QED BY <1>1, <1>2, <1>3, <1>7, <1>8, <1>9 DEF q, n

\* A line is a type, a name or the end.
LEMMA LineKinds ==
  ASSUME NEW l \in Answer!Lines
  PROVE  /\ l[1] \in {"type", "name", "end"} /\ l \in AnyLine
         /\ l[1] = "type" => l[2] \in Types
         /\ l[1] = "name" => l[2] \in Names
         /\ l[1] = "end" <=> l = <<"end">>
  BY DEF Answer!Lines, AnyLine

\* What a block says last is what its last line says, or as before.
LEMMA SaysMore ==
  ASSUME NEW block \in Seq(AnyLine), NEW l \in AnyLine, NEW what, NEW v, Says(block, what, v)
  PROVE  /\ l[1] # what => Says(Append(block, l), what, v)
         /\ l[1] = what /\ l[2] # Answer!Nothing => Says(Append(block, l), what, l[2])
<1> DEFINE q == Append(block, l)
           n == Len(block)
<1>1. n \in Nat /\ Len(q) = n + 1 /\ q[n + 1] = l /\ \A i \in 1..n : q[i] = block[i]
  BY LenProperties, AppendProperties
<1> HIDE DEF q, n
<1>2. \A i \in 1..Len(q) : i = n + 1 \/ i \in 1..n
  BY <1>1
<1>3. ASSUME l[1] # what PROVE Says(q, what, v)
  <2>1. CASE v = Answer!Nothing /\ \A i \in 1..n : block[i][1] # what
    <3>1. \A i \in 1..Len(q) : q[i][1] # what
      BY <1>1, <1>2, <1>3, <2>1
    <3> QED BY <2>1, <3>1 DEF Says
  <2>2. ASSUME v # Answer!Nothing, NEW i \in 1..n, block[i][1] = what, block[i][2] = v,
               \A j \in 1..n : j > i => block[j][1] # what
        PROVE  Says(q, what, v)
    <3>1. i \in 1..Len(q) /\ q[i] = block[i]
      BY <1>1
    <3>2. \A j \in 1..Len(q) : j > i => q[j][1] # what
      BY <1>1, <1>2, <1>3, <2>2
    <3> QED BY <2>2, <3>1, <3>2 DEF Says
  <2> QED BY <2>1, <2>2 DEF Says, n
<1>4. ASSUME l[1] = what, l[2] # Answer!Nothing PROVE Says(q, what, l[2])
  <2>1. n + 1 \in 1..Len(q) /\ \A j \in 1..Len(q) : ~(j > n + 1)
    BY <1>1
  <2> QED BY <1>1, <1>4, <2>1 DEF Says
<1> QED BY <1>3, <1>4 DEF q

\* What the callback keeps of a block is what is in it.
LEMMA SaysIsSaid ==
  ASSUME NEW block \in Seq(AnyLine), NEW what, NEW v, Says(block, what, v)
  PROVE  /\ v # Answer!Nothing => v \in Answer!Said(block, what)
         /\ v = Answer!Nothing => Answer!Said(block, what) = {}
         /\ what = "type" => Answer!Media(block) = IF v = Answer!Nothing THEN "text" ELSE v
<1> DEFINE n == Len(block)
           S == {j \in 1..n : block[j][1] = what}
<1>1. n \in Nat /\ DOMAIN block = 1..n
  BY LenProperties
<1>2. Answer!Said(block, what) = {block[i][2] : i \in S}
  BY <1>1 DEF Answer!Said
<1>3. what = "type" => Answer!Media(block) = IF S = {} THEN "text" ELSE block[Answer!Max(S)][2]
  BY <1>1 DEF Answer!Media
<1> HIDE DEF n
<1>4. CASE v = Answer!Nothing /\ \A i \in 1..n : block[i][1] # what
  BY <1>2, <1>3, <1>4
<1>5. ASSUME v # Answer!Nothing, NEW i \in 1..n, block[i][1] = what, block[i][2] = v,
             \A j \in 1..n : j > i => block[j][1] # what
      PROVE  v \in {block[j][2] : j \in S} /\ S # {} /\ block[Answer!Max(S)][2] = v
  <2>1. i \in S /\ \A j \in S : i >= j
    BY <1>1, <1>5
  <2>2. \E x \in S : \A j \in S : x >= j
    BY <2>1
  <2>3. Answer!Max(S) \in S /\ \A j \in S : Answer!Max(S) >= j
    BY <2>2 DEF Answer!Max
  <2>4. Answer!Max(S) = i
    BY <2>1, <2>3
  <2> QED BY <1>5, <2>1, <2>4
<1> QED BY <1>2, <1>3, <1>4, <1>5 DEF Says, n

\* No answer.
LEMMA NoAnswer == output' = Answer!emptyblock => Answer!AnswerIsTheLast'
  BY DEF Answer!AnswerIsTheLast, Answer!emptyblock

LEMMA NoMore ==
  ASSUME NEW how, NEW media, Answer!End(how, media), how # "ok", ~(stoppedForAttachment' /\ ~post)
  PROVE  pc' = "ended" /\ output' = Answer!emptyblock
  BY DEF Answer!End

\* A request that does not end goes on receiving.
LEMMA GoesOn ==
  ASSUME ResponseInv, Receiving', pc' # "ended", blocks' \in Seq(Seq(AnyLine)), pc' \in {"headers", "body"}
  PROVE  ResponseInv'
  BY NoAnswer DEF ResponseInv, Receiving

LEMMA Ends ==
  ASSUME pc' = "ended", output' = Answer!emptyblock, blocks' \in Seq(Seq(AnyLine))
  PROVE  ResponseInv'
  BY NoAnswer DEF ResponseInv

LEMMA AtStatusLine ==
  ASSUME Answer!ResponseAssumption, ResponseInv, NEW s \in {Redirect, Found, Missing}, Answer!StatusLine(s)
  PROVE  ResponseInv'
<1> DEFINE l == <<"status", s>>
           b == <<l>>
<1>1. Receiving /\ pc = "headers" /\ blocks \in Seq(Seq(AnyLine))
  BY DEF ResponseInv, Answer!StatusLine
<1>2. l \in AnyLine /\ b \in Seq(AnyLine) /\ Len(b) = 1 /\ b[1] = l /\ l[1] = "status"
  BY DEF AnyLine
<1> HIDE DEF b
<1>3. blocks' = Append(blocks, b)
  BY DEF Answer!StatusLine, b
<1>4. blocks' \in Seq(Seq(AnyLine)) /\ blocks'[Len(blocks')] = b /\ blocks' # <<>>
  BY <1>1, <1>2, <1>3, AppendProperties
<1>5. CASE headerBytes >= MaxHeaders
  <2>1. stoppedForAttachment' = FALSE
    BY <1>1, <1>5 DEF Answer!StatusLine, Answer!response, Receiving
  <2>2. Answer!End("write error", Answer!Nothing)
    BY <1>5 DEF Answer!StatusLine
  <2> QED BY <1>4, <2>1, <2>2, NoMore, Ends
<1>6. CASE ~(headerBytes >= MaxHeaders)
  <2>1. /\ status' = s /\ type' = Answer!Nothing /\ filename' = Answer!Nothing /\ attachment' = FALSE
        /\ stoppedForAttachment' = FALSE /\ length' = length /\ pieces' = pieces
        /\ pc' = "headers" /\ output' = output
    BY <1>6 DEF Answer!StatusLine, Answer!GoOn
  <2>2. Keeps(b, status', type', filename', attachment')
    <3>1. Says(b, "type", Answer!Nothing) /\ Says(b, "name", Answer!Nothing)
      BY <1>2 DEF Says
    <3>2. Answer!Nothing \in Types \cup {Answer!Nothing}
          /\ Answer!Nothing \in (Names \cup {Answer!Nothing}) \ Unsafe
      BY DEF Answer!ResponseAssumption
    <3>3. \E i \in 1..Len(b) : b[i] = <<"status", s>>
      BY <1>2
    <3>4. attachment' = (type' # Answer!Nothing /\ type' \notin Answer!Shown)
      BY <2>1
    <3> QED BY <1>2, <2>1, <3>1, <3>2, <3>3, <3>4, Zenon DEF Keeps
  <2>3. Receiving'
    BY <1>1, <1>4, <2>1, <2>2 DEF Receiving
  <2> QED BY <1>4, <2>1, <2>3, GoesOn
<1> QED BY <1>5, <1>6

LEMMA AtHeader ==
  ASSUME Answer!ResponseAssumption, ResponseInv, NEW l \in Answer!Lines, Answer!receiveHeader(l)
  PROVE  ResponseInv'
<1> DEFINE n == Len(blocks)
           b == blocks[n]
           c == Append(b, l)
<1>1. Receiving /\ pc = "headers" /\ blocks \in Seq(Seq(AnyLine)) /\ blocks # <<>>
  BY DEF ResponseInv, Answer!receiveHeader, Answer!InBlock
<1>2. Keeps(b, status, type, filename, attachment) /\ b \in Seq(AnyLine)
  BY <1>1 DEF Receiving, Keeps
<1>3. n \in 1..n /\ n \in Nat /\ \A i \in 1..n : blocks[i] \in Seq(AnyLine)
  BY <1>1, LenProperties, ElementOfSeq, EmptySeq
<1>4. blocks' = [blocks EXCEPT ![n] = c] /\ c \in Seq(AnyLine)
  BY <1>2, LineKinds, AppendProperties DEF Answer!receiveHeader
<1> HIDE DEF c, b
<1>5. blocks' \in Seq(Seq(AnyLine)) /\ Len(blocks') = n /\ blocks'[n] = c
  BY <1>1, <1>3, <1>4, ExceptSeq
<1> DEFINE Refused == Answer!Refused(l)
           Stops == Answer!Stops(l)
<1>6. /\ IF Refused THEN UNCHANGED <<type, filename, attachment>>
         ELSE /\ type' = IF l[1] = "type" THEN l[2] ELSE type
              /\ attachment' = IF l[1] = "type" THEN l[2] \notin Answer!Shown ELSE attachment
              /\ filename' = IF l[1] = "name" THEN l[2] ELSE filename
      /\ stoppedForAttachment' = (~Refused /\ Stops)
      /\ post' = post /\ status' = status /\ length' = length /\ pieces' = pieces
      /\ IF Refused \/ Stops THEN Answer!End("write error", Answer!Nothing)
         ELSE IF l # <<"end">> THEN Answer!GoOn("headers")
         ELSE IF status = Missing THEN Answer!End("failed", Answer!Nothing)
         ELSE \/ status = Redirect /\ ~post /\ Answer!GoOn("headers")
              \/ Answer!GoOn("body")
  BY Zenon DEF Answer!receiveHeader
<1>7. ASSUME ~Refused PROVE Keeps(c, status', type', filename', attachment')
  <2>1. l[1] = "type" => l[2] \in Types /\ l[2] # Answer!Nothing
    BY LineKinds DEF Answer!ResponseAssumption
  <2>2. l[1] = "name" => l[2] \in Names \ Unsafe /\ l[2] # Answer!Nothing
    BY <1>7, LineKinds DEF Answer!ResponseAssumption, Answer!Refused
  <2>3. /\ type' = IF l[1] = "type" THEN l[2] ELSE type
        /\ attachment' = IF l[1] = "type" THEN l[2] \notin Answer!Shown ELSE attachment
        /\ filename' = IF l[1] = "name" THEN l[2] ELSE filename
    BY <1>6, <1>7
  <2>4. Says(b, "type", type) /\ Says(b, "name", filename) /\ l \in AnyLine
    BY <1>2, LineKinds DEF Keeps
  <2>5. Says(c, "type", type')
    BY <1>2, <2>1, <2>3, <2>4, SaysMore DEF c
  <2>6. Says(c, "name", filename')
    BY <1>2, <2>2, <2>3, <2>4, SaysMore DEF c
  <2>7. type' \in Types \cup {Answer!Nothing} /\ filename' \in (Names \cup {Answer!Nothing}) \ Unsafe
    BY <1>2, <2>1, <2>2, <2>3 DEF Keeps
  <2>8. attachment' = (type' # Answer!Nothing /\ type' \notin Answer!Shown)
    <3>1. CASE l[1] = "type"
      BY <2>1, <2>3, <3>1, Zenon
    <3>2. CASE l[1] # "type"
      <4>1. attachment' = attachment /\ type' = type
        BY <2>3, <3>2
      <4> QED BY <1>2, <4>1, Zenon DEF Keeps
    <3> QED BY <3>1, <3>2
  <2>9. \E i \in 1..Len(c) : c[i] = <<"status", status>>
    <3>1. PICK i \in 1..Len(b) : b[i] = <<"status", status>>
      BY <1>2 DEF Keeps
    <3>2. i \in 1..Len(c) /\ c[i] = b[i]
      BY <1>2, <2>4, AppendProperties, LenProperties DEF c
    <3> QED BY <3>1, <3>2
  <2> QED BY <1>4, <1>6, <2>5, <2>6, <2>7, <2>8, <2>9, Zenon DEF Keeps, c, b
<1>8. CASE Refused
  <2>1. stoppedForAttachment' = FALSE /\ Answer!End("write error", Answer!Nothing)
    BY <1>6, <1>8, Zenon
  <2> QED BY <1>5, <2>1, NoMore, Ends
<1>9. CASE ~Refused /\ ~Stops /\ Answer!End("failed", Answer!Nothing)
  <2>1. stoppedForAttachment' = FALSE
    BY <1>6, <1>9, Zenon
  <2> QED BY <1>5, <1>9, <2>1, NoMore, Ends
<1>10. ASSUME ~Refused, ~Stops, NEW stage \in {"headers", "body"}, Answer!GoOn(stage),
              stage = "body" => l = <<"end">>
       PROVE  ResponseInv'
  <2>1. pc' = stage /\ output' = output /\ stoppedForAttachment' = FALSE
    BY <1>6, <1>10, Zenon DEF Answer!GoOn
  <2>2. stage = "body" => (status' = Found => ~attachment')
    BY <1>6, <1>10, LineKinds DEF Answer!Stops
  <2>3. blocks' # <<>>
    BY <1>3, <1>5
  <2>4. Keeps(blocks'[Len(blocks')], status', type', filename', attachment')
    <3>1. Keeps(c, status', type', filename', attachment')
      BY <1>7, <1>10
    <3> QED BY <1>5, <3>1 DEF Keeps
  <2>5. Receiving'
    BY <1>1, <1>6, <2>1, <2>2, <2>3, <2>4 DEF Receiving
  <2> QED BY <1>5, <1>10, <2>1, <2>5, GoesOn
<1>11. CASE ~Refused /\ Stops
  <2>1. l = <<"end">> /\ status = Found /\ attachment /\ stoppedForAttachment' = TRUE
        /\ Answer!End("write error", Answer!Nothing)
    BY <1>6, <1>11, Zenon DEF Answer!Stops
  <2>2. CASE post
    BY <1>5, <1>6, <2>1, <2>2, NoMore, Ends
  <2>3. CASE ~post
    <3>1. pc' = "ended" /\ output' = [size |-> -1, data |-> filename', type |-> type']
      BY <1>6, <2>1, <2>3 DEF Answer!End
    <3>2. Keeps(c, status', type', filename', attachment')
      BY <1>7, <1>11
    <3>3. attachment' = attachment
      BY <1>6, <1>11, <2>1, LineKinds
    <3>4. /\ Says(c, "type", type') /\ Says(c, "name", filename')
          /\ type' # Answer!Nothing /\ type' \notin Answer!Shown /\ filename' \notin Unsafe
      <4>1. Says(c, "type", type') /\ Says(c, "name", filename') /\ filename' \notin Unsafe
        BY <3>2 DEF Keeps
      <4>2. type' # Answer!Nothing /\ type' \notin Answer!Shown
        <5>1. attachment' = (type' # Answer!Nothing /\ type' \notin Answer!Shown)
          BY <3>2, Zenon DEF Keeps
        <5>2. attachment
          BY <2>1
        <5>3. attachment = (type' # Answer!Nothing /\ type' \notin Answer!Shown)
          BY <3>3, <5>1
        <5> QED BY <5>2, <5>3, Zenon
      <4> QED BY <4>1, <4>2
    <3>5. /\ type' \in Answer!Said(c, "type")
          /\ filename' # Answer!Nothing => filename' \in Answer!Said(c, "name")
          /\ filename' = Answer!Nothing => Answer!Said(c, "name") = {}
      BY <1>4, <3>4, SaysIsSaid
    <3>6. Answer!Last(blocks') = c
      BY <1>5 DEF Answer!Last
    <3>7. ~post' /\ status' = Found /\ length' = 0
      BY <1>1, <1>6, <2>1, <2>3 DEF Receiving
    <3>8. Answer!AnswerIsTheLast'
      <4>1. output'.size = -1 /\ output'.data = filename' /\ output'.type = type'
        BY <3>1
      <4> QED BY <3>4, <3>5, <3>6, <3>7, <4>1 DEF Answer!AnswerIsTheLast
    <3> QED BY <1>5, <3>1, <3>8 DEF ResponseInv
  <2> QED BY <2>2, <2>3
<1>12. Refused \/ Stops \/ Answer!End("failed", Answer!Nothing) \/ (l # <<"end">> /\ Answer!GoOn("headers"))
       \/ (l = <<"end">> /\ (Answer!GoOn("headers") \/ Answer!GoOn("body")))
  BY <1>6
<1> QED BY <1>8, <1>9, <1>10, <1>11, <1>12

LEMMA AtPiece ==
  ASSUME Answer!ResponseAssumption, ResponseInv, NEW k \in 1..2, Answer!receiveBody(k)
  PROVE  ResponseInv'
<1>1. /\ Receiving /\ pc = "body" /\ blocks \in Seq(Seq(AnyLine)) /\ blocks' = blocks /\ status' = status
      /\ type' = type /\ filename' = filename /\ attachment' = attachment /\ stoppedForAttachment' = FALSE
      /\ pieces' = Append(pieces, k)
  BY DEF ResponseInv, Answer!receiveBody, Receiving
<1>2. CASE Answer!End("write error", Answer!Nothing)
  BY <1>1, <1>2, NoMore, Ends
<1>3. CASE ~(length + k > MaxDocument - 1) /\ length' = length + k /\ Answer!GoOn("body")
  <2>1. pc' = "body" /\ output' = output
    BY <1>3 DEF Answer!GoOn
  <2>2. pieces' \in Seq(Nat) /\ length' = Answer!Total(pieces')
    <3>1. k \in Nat /\ pieces \in Seq(Nat) /\ length = Answer!Total(pieces)
      BY <1>1 DEF Receiving
    <3> QED BY <1>1, <1>3, <3>1, TotalGoesOn, AppendProperties
  <2>3. length' \in Nat /\ length' < MaxDocument
    BY <1>1, <1>3 DEF Receiving, Answer!ResponseAssumption
  <2>4. blocks' # <<>> => Keeps(blocks'[Len(blocks')], status', type', filename', attachment')
    BY <1>1 DEF Receiving, Keeps
  <2>5. Receiving'
    BY <1>1, <2>1, <2>2, <2>3, <2>4 DEF Receiving, Answer!Total
  <2> QED BY <1>1, <2>1, <2>5, GoesOn
<1> QED BY <1>2, <1>3 DEF Answer!receiveBody

LEMMA AtEnd ==
  ASSUME Answer!ResponseAssumption, ResponseInv, Answer!Complete \/ Answer!Fail
  PROVE  ResponseInv'
<1>1. /\ Receiving /\ blocks \in Seq(Seq(AnyLine)) /\ post' = post /\ blocks' = blocks /\ pieces' = pieces
      /\ status' = status /\ type' = type /\ filename' = filename /\ attachment' = attachment
      /\ stoppedForAttachment' = FALSE /\ length' = length
  BY DEF ResponseInv, Answer!Complete, Answer!Fail, Answer!response, Receiving
<1>2. CASE Answer!Fail
  BY <1>1, <1>2, NoMore, Ends DEF Answer!Fail
<1>3. CASE Answer!Complete
  <2> DEFINE b == blocks[Len(blocks)]
             media == Answer!Media(b)
  <2>1. blocks # <<>> /\ (status = Found => ~attachment) /\ Keeps(b, status, type, filename, attachment) /\ Answer!Last(blocks) = b
        /\ b \in Seq(AnyLine)
    BY <1>1, <1>3 DEF Answer!Complete, Receiving, Keeps, Answer!Last
  <2>2. media = IF type = Answer!Nothing THEN "text" ELSE type
    BY <2>1, SaysIsSaid DEF Keeps
  <2> HIDE DEF b, media
  <2>3. pc' = "ended" /\ result' = "ok"
        /\ output' = IF status' # Found \/ media = LongType THEN Answer!emptyblock
                     ELSE [size |-> length', data |-> pieces', type |-> media]
    BY <1>3, <2>1 DEF Answer!Complete, Answer!End, media
  <2>4. CASE output' = Answer!emptyblock
    BY <1>1, <2>3, <2>4, Ends
  <2>5. CASE status' = Found /\ output' = [size |-> length', data |-> pieces', type |-> media]
    <3>1. output'.size = length /\ output'.data = pieces /\ output'.type = media /\ length \in Nat
      BY <1>1, <2>5 DEF Receiving
    <3>2. media \in Answer!Shown
      <4>1. ~(type # Answer!Nothing /\ type \notin Answer!Shown)
        BY <1>1, <2>1, <2>5 DEF Keeps
      <4> QED BY <2>2, <4>1 DEF Answer!Shown
    <3>3. <<"status", Found>> \in Answer!ToSet(b)
      <4>1. DOMAIN b = 1..Len(b)
        BY <2>1, LenProperties
      <4> QED BY <1>1, <2>1, <2>5, <4>1 DEF Keeps, Answer!ToSet
    <3>4. output'.size = Answer!Total(output'.data) /\ output'.size < MaxDocument /\ output'.size # -1
      BY <1>1, <3>1 DEF Receiving
    <3>5. Answer!AnswerIsTheLast'
      <4>1. Answer!Last(blocks') = b
        BY <1>1, <2>1
      <4>2. Answer!Total(output'.data) = Answer!Total(output.data)'
        BY DEF Answer!Total
      <4> QED BY <2>3, <3>1, <3>2, <3>3, <3>4, <4>1, <4>2 DEF Answer!AnswerIsTheLast
    <3> QED BY <1>1, <2>3, <3>5 DEF ResponseInv
  <2> QED BY <2>3, <2>4, <2>5
<1> QED BY <1>2, <1>3

\* What a request gives is what the last server said of its answer, whatever
\* the redirects before it said, and a page whose type is shown is whole
\* (httplib.cpp:22-164).
THEOREM LastAnswerCounts == ASSUME Answer!ResponseAssumption PROVE Answer!Spec => []Answer!AnswerIsTheLast
<1>1. Answer!Init => ResponseInv
  <2> SUFFICES ASSUME Answer!Init PROVE ResponseInv
    OBVIOUS
  <2>1. blocks = <<>> /\ pieces = <<>> /\ <<>> \in Seq(Seq(AnyLine)) /\ <<>> \in Seq(Nat)
    BY EmptySeq DEF Answer!Init
  <2>2. Answer!Total(<<>>) = 0
    BY <2>1, TotalGoesOn
  <2> QED BY <2>1, <2>2 DEF Answer!Init, ResponseInv, Receiving, Answer!AnswerIsTheLast, Answer!ResponseAssumption
<1>2. ResponseInv /\ [Answer!Next]_Answer!vars => ResponseInv'
  <2> SUFFICES ASSUME ResponseInv, [Answer!Next]_Answer!vars PROVE ResponseInv'
    OBVIOUS
  <2>1. CASE UNCHANGED Answer!vars
    <3>1. /\ post' = post /\ pc' = pc /\ blocks' = blocks /\ pieces' = pieces /\ result' = result /\ output' = output
          /\ headerBytes' = headerBytes /\ status' = status /\ type' = type /\ filename' = filename
          /\ attachment' = attachment /\ stoppedForAttachment' = stoppedForAttachment /\ length' = length
      BY <2>1 DEF Answer!vars, Answer!response
    <3>2. Receiving => Receiving'
      BY <3>1 DEF Receiving, Keeps, Answer!Total
    <3>3. Answer!AnswerIsTheLast => Answer!AnswerIsTheLast'
      BY <3>1, Zenon DEF Answer!AnswerIsTheLast
    <3> QED BY <3>1, <3>2, <3>3 DEF ResponseInv
  <2>2. CASE Answer!Next
    BY <2>2, AtStatusLine, AtHeader, AtPiece, AtEnd DEF Answer!Next
  <2> QED BY <2>1, <2>2
<1>3. ResponseInv => Answer!AnswerIsTheLast
  BY DEF ResponseInv
<1> QED BY <1>1, <1>2, <1>3, PTL DEF Answer!Spec

-----------------------------------------------------------------------------
(* Markup: the tokens of a document are all of its text.                    *)

CONSTANTS Documents
VARIABLES html, begin, done, mpLiteral, mCurrentOffset, nodes

Tokens == INSTANCE Markup

\* The scanners walk within a document.
LEMMA DocumentShape ==
  ASSUME html \in Seq(STRING)
  PROVE  /\ Len(html) \in Nat /\ Tokens!End = Len(html) + 1
         /\ \A c \in Nat : /\ c < Tokens!End => Tokens!At(c) = html[c]
                           /\ c >= Tokens!End => Tokens!At(c) = "end"
         /\ Tokens!At(Tokens!End) = "end" /\ "end" # Tokens!Blank
<1>1. "end" # Tokens!Blank
  BY Zenon DEF Tokens!Blank
<1> QED BY <1>1, LenProperties DEF Tokens!End, Tokens!At

LEMMA SpacesEnd ==
  ASSUME html \in Seq(STRING), NEW c \in 1..Tokens!End
  PROVE  /\ Tokens!Spaces(c) \in c..Tokens!End
         /\ Tokens!At(Tokens!Spaces(c)) # Tokens!Blank
         /\ \A k \in c..Tokens!Spaces(c) - 1 : Tokens!At(k) = Tokens!Blank
<1> DEFINE T == {d \in c..Tokens!End : Tokens!At(d) # Tokens!Blank}
<1>1. Len(html) \in Nat /\ Tokens!End = Len(html) + 1 /\ Tokens!At(Tokens!End) # Tokens!Blank
  BY DocumentShape
<1>2. Tokens!End \in T /\ T \in SUBSET Nat
  BY <1>1
<1>3. PICK d \in T : \A y \in T : d <= y
  <2> HIDE DEF T
  <2> QED BY <1>2, Smallest
<1>4. \A k \in c..d - 1 : Tokens!At(k) = Tokens!Blank
  <2> SUFFICES ASSUME NEW k \in c..d - 1, Tokens!At(k) # Tokens!Blank PROVE FALSE
    OBVIOUS
  <2>1. d \in c..Tokens!End
    BY <1>3
  <2>2. k \in c..Tokens!End /\ ~(d <= k)
    <3>1. c \in Nat /\ d \in Nat /\ d <= Tokens!End /\ Tokens!End \in Nat
      BY <1>1, <2>1
    <3> HIDE DEF T
    <3> QED BY <3>1
  <2>3. k \in T
    BY <2>2
  <2> QED BY <1>3, <2>2, <2>3
<1>5. \E x \in c..Tokens!End : Tokens!At(x) # Tokens!Blank /\ \A k \in c..x - 1 : Tokens!At(k) = Tokens!Blank
  BY <1>3, <1>4
<1> QED BY <1>5, Zenon DEF Tokens!Spaces

LEMMA AttributeGoesOn ==
  ASSUME html \in Seq(STRING), NEW d \in 1..Len(html)
  PROVE  Tokens!AfterAttribute(d) \in (d + 1)..Tokens!End
<1> DEFINE v == Tokens!Spaces(d + 1)
           closing == {k \in v + 1..Len(html) : html[k] = Tokens!At(v)}
           first == CHOOSE k \in closing : \A j \in closing : k <= j
<1>1. Len(html) \in Nat /\ Tokens!End = Len(html) + 1
  BY DocumentShape
<1>2. d + 1 \in 1..Tokens!End
  BY <1>1
<1>3. v \in (d + 1)..Tokens!End
  BY <1>2, SpacesEnd
<1>4. Tokens!At(v) \in Tokens!Quotes => v + 1 \in (d + 1)..Tokens!End
  <2>1. v # Tokens!End \/ Tokens!At(v) = "end"
    BY <1>1, DocumentShape
  <2>2. "end" \notin Tokens!Quotes
    BY DEF Tokens!Quotes
  <2> HIDE DEF v
  <2> QED BY <1>1, <1>3, <2>1, <2>2
<1>5. closing # {} => 1 + first \in (d + 1)..Tokens!End
  <2> SUFFICES ASSUME closing # {} PROVE 1 + first \in (d + 1)..Tokens!End
    OBVIOUS
  <2>1. closing \in SUBSET Nat /\ closing \in SUBSET ((d + 1)..Len(html))
    <3> HIDE DEF v
    <3> QED BY <1>1, <1>3
  <2>2. \E k \in closing : \A j \in closing : k <= j
    <3> HIDE DEF closing
    <3> QED BY <2>1, Smallest
  <2>3. first \in closing
    <3> HIDE DEF closing
    <3> QED BY <2>2, Zenon
  <2> HIDE DEF first, closing
  <2> QED BY <1>1, <2>1, <2>3
<1>6. d + 1 \in (d + 1)..Tokens!End
  BY <1>1
<1> QED BY <1>3, <1>4, <1>5, <1>6 DEF Tokens!AfterAttribute

LEMMA TagEnds ==
  ASSUME html \in Seq(STRING), NEW c \in 1..Tokens!End
  PROVE  Tokens!skipHtmlTag(c) \in c..Tokens!End
<1> DEFINE n == Tokens!End
           stop == {d \in 1..n : d = n \/ html[d] = ">"}
           val == [d \in 1..n |-> IF d = n THEN n ELSE d + 1]
           next == [d \in 1..n |-> Tokens!AfterAttribute(d)]
           Skips(f) == f = [d \in 1..Tokens!End |->
                              IF d = Tokens!End THEN Tokens!End
                              ELSE IF html[d] = ">" THEN d + 1
                              ELSE f[Tokens!AfterAttribute(d)]]
           skip == CHOOSE f : Skips(f)
<1>1. Len(html) \in Nat /\ n = Len(html) + 1
  BY DocumentShape
<1>2. JumpsOn(n, stop, val, next)
  <2> SUFFICES ASSUME NEW d \in 1..n PROVE IF d \in stop THEN val[d] \in d..n ELSE next[d] \in (d + 1)..n
    BY Zenon DEF JumpsOn
  <2>1. CASE d \in stop
    BY <1>1, <2>1
  <2>2. CASE d \notin stop
    <3>1. d \in 1..Len(html)
      BY <1>1, <2>2
    <3> QED BY <2>2, <3>1, AttributeGoesOn
  <2> QED BY <2>1, <2>2
<1>3. PICK f \in [1..n -> 1..n] : EndsAt(f, n, stop, val, next)
  <2> HIDE DEF n, stop, val, next
  <2> QED BY <1>1, <1>2, EndExists
<1>4. Skips(f)
  <2>1. f = [d \in 1..n |-> f[d]]
    OBVIOUS
  <2>2. ASSUME NEW d \in 1..n
        PROVE  f[d] = IF d = n THEN n ELSE IF html[d] = ">" THEN d + 1 ELSE f[Tokens!AfterAttribute(d)]
    <3>1. f[d] = IF d \in stop THEN val[d] ELSE f[next[d]]
      BY <1>3, Zenon DEF EndsAt
    <3> QED BY <3>1
  <2> HIDE DEF n
  <2> QED BY <2>1, <2>2, Zenon DEF n
<1>5. Skips(skip)
  BY <1>4, Zenon
<1>6. EndsAt(skip, n, stop, val, next)
  <2> SUFFICES ASSUME NEW d \in 1..n PROVE skip[d] = IF d \in stop THEN val[d] ELSE skip[next[d]]
    BY Zenon DEF EndsAt
  <2>1. skip[d] = IF d = n THEN n ELSE IF html[d] = ">" THEN d + 1 ELSE skip[Tokens!AfterAttribute(d)]
    <3> HIDE DEF skip
    <3> QED BY <1>5
  <2> HIDE DEF skip
  <2> QED BY <2>1
<1>7. skip[c] \in c..n
  <2> DEFINE E == 1..n
  <2>1. \A d \in 1..n : d \in stop => val[d] \in E
    BY <1>1
  <2> HIDE DEF n, stop, val, next, skip, E
  <2>2. n \in Nat
    BY <1>1
  <2>3. \A d \in 1..n : skip[d] \in d..n /\ skip[d] \in E
    BY <1>2, <1>6, <2>1, <2>2, EndIsBehind, Zenon
  <2> QED BY <2>3 DEF n
<1>8. Tokens!skipHtmlTag(c) = skip[c]
  BY Zenon DEF Tokens!skipHtmlTag
<1> QED BY <1>7, <1>8

LEMMA CommentEnds ==
  ASSUME html \in Seq(STRING), NEW c \in 1..Tokens!End
  PROVE  Tokens!skipHtmlComment(c) \in c..Tokens!End
<1> DEFINE n == Tokens!End
           Dashes(d) == html[d] = "-" /\ Tokens!At(d + 1) = "-"
           e(d) == Tokens!Spaces(d + 2)
           stop == {d \in 1..n : d = n \/ (Dashes(d) /\ (e(d) = n \/ html[e(d)] = ">"))}
           val == [d \in 1..n |-> IF d = n \/ e(d) = n THEN n ELSE e(d) + 1]
           next == [d \in 1..n |-> d + 1]
           Skips(f) == f = [d \in 1..Tokens!End |->
                              IF d = Tokens!End THEN Tokens!End
                              ELSE IF html[d] = "-" /\ Tokens!At(d + 1) = "-"
                              THEN LET v == Tokens!Spaces(d + 2)
                                   IN IF v = Tokens!End THEN Tokens!End
                                      ELSE IF html[v] = ">" THEN v + 1 ELSE f[d + 1]
                              ELSE f[d + 1]]
           skip == CHOOSE f : Skips(f)
<1>1. Len(html) \in Nat /\ n = Len(html) + 1
  BY DocumentShape
<1>2. ASSUME NEW d \in 1..n, d # n
      PROVE  d + 1 \in 1..n /\ (Dashes(d) => d + 2 \in 1..n /\ e(d) \in (d + 2)..n)
  <2>1. d \in Nat /\ d + 1 \in 1..n
    BY <1>1, <1>2
  <2>2. Tokens!At(d + 1) = "-" => d + 1 # n
    BY <1>1, <2>1, DocumentShape
  <2>3. Dashes(d) => d + 2 \in 1..n
    <3> HIDE DEF n
    <3> QED BY <1>1, <2>1, <2>2
  <2> QED BY <2>1, <2>3, SpacesEnd
<1>3. JumpsOn(n, stop, val, next)
  <2> SUFFICES ASSUME NEW d \in 1..n PROVE IF d \in stop THEN val[d] \in d..n ELSE next[d] \in (d + 1)..n
    BY Zenon DEF JumpsOn
  <2>1. CASE d = n
    <3>1. d \in stop /\ val[d] = n
      BY <2>1
    <3> QED BY <1>1, <2>1, <3>1
  <2>2. CASE d # n
    <3>1. CASE d \in stop
      <4>1. e(d) \in (d + 2)..n
        BY <1>2, <2>2, <3>1
      <4>2. val[d] = n \/ (e(d) # n /\ val[d] = e(d) + 1)
        BY <2>2
      <4> HIDE DEF e, val, stop
      <4> QED BY <1>1, <3>1, <4>1, <4>2
    <3>2. CASE d \notin stop
      <4>1. next[d] = d + 1
        OBVIOUS
      <4> HIDE DEF n, stop, next
      <4> QED BY <1>1, <2>2, <3>2, <4>1
    <3> QED BY <3>1, <3>2
  <2> QED BY <2>1, <2>2
<1>4. PICK f \in [1..n -> 1..n] : EndsAt(f, n, stop, val, next)
  <2> HIDE DEF n, stop, val, next
  <2> QED BY <1>1, <1>3, EndExists
<1> DEFINE Step(a, d) == IF d = Tokens!End THEN Tokens!End
                         ELSE IF html[d] = "-" /\ Tokens!At(d + 1) = "-"
                         THEN LET v == Tokens!Spaces(d + 2)
                              IN IF v = Tokens!End THEN Tokens!End
                                 ELSE IF html[v] = ">" THEN v + 1 ELSE a[d + 1]
                         ELSE a[d + 1]
<1>5. ASSUME NEW g, NEW d \in 1..n PROVE Step(g, d) = IF d \in stop THEN val[d] ELSE g[next[d]]
  OBVIOUS
<1>6. Skips(f)
  <2>1. f = [d \in 1..n |-> f[d]]
    OBVIOUS
  <2>2. \A d \in 1..n : f[d] = Step(f, d)
    <3> HIDE DEF Step, stop, val, next
    <3> QED BY <1>4, <1>5, Zenon DEF EndsAt
  <2>3. f = [d \in 1..n |-> Step(f, d)]
    <3> HIDE DEF Step
    <3> QED BY <2>1, <2>2, Zenon
  <2> QED BY <2>3, Zenon
<1>7. Skips(skip)
  BY <1>6, Zenon
<1>8. EndsAt(skip, n, stop, val, next)
  <2>1. skip = [d \in 1..n |-> Step(skip, d)]
    BY <1>7, Zenon
  <2>2. \A d \in 1..n : skip[d] = Step(skip, d)
    <3> HIDE DEF Step, skip
    <3> QED BY <2>1
  <2> HIDE DEF Step, stop, val, next, skip
  <2> QED BY <1>5, <2>2, Zenon DEF EndsAt
<1>9. skip[c] \in c..n
  <2> DEFINE E == {val[d] : d \in stop}
  <2>1. \A d \in 1..n : d \in stop => val[d] \in E
    OBVIOUS
  <2> HIDE DEF n, stop, val, next, skip, E
  <2>2. n \in Nat
    BY <1>1
  <2>3. \A d \in 1..n : skip[d] \in d..n /\ skip[d] \in E
    BY <1>3, <1>8, <2>1, <2>2, EndIsBehind, Zenon
  <2> QED BY <2>3 DEF n
<1>10. Tokens!skipHtmlComment(c) = skip[c]
  BY Zenon DEF Tokens!skipHtmlComment
<1> QED BY <1>9, <1>10


LEMMA LiteralEnds ==
  ASSUME html \in Seq(STRING), begin \in 1..Tokens!End
  PROVE  /\ Tokens!LiteralEnd \in begin..Tokens!End
         /\ Tokens!LiteralEnd = Tokens!End \/ Tokens!ClosesLiteral(Tokens!LiteralEnd)
<1> DEFINE n == Tokens!End
           Comment(d) == html[d] = "<" /\ Tokens!At(d + 1) = "!" /\ Tokens!At(d + 2) = "-" /\ Tokens!At(d + 3) = "-"
           stop == {d \in 1..n : d = n \/ Tokens!ClosesLiteral(d)}
           val == [d \in 1..n |-> d]
           next == [d \in 1..n |-> IF Comment(d) THEN Tokens!skipHtmlComment(d + 4) ELSE d + 1]
           Finds(f) == f = [c \in 1..Tokens!End |->
                              IF c = Tokens!End \/ Tokens!ClosesLiteral(c) THEN c
                              ELSE IF html[c] = "<" /\ Tokens!At(c + 1) = "!"
                                      /\ Tokens!At(c + 2) = "-" /\ Tokens!At(c + 3) = "-"
                              THEN f[Tokens!skipHtmlComment(c + 4)]
                              ELSE f[c + 1]]
           find == CHOOSE f : Finds(f)
           Step(a, c) == IF c = Tokens!End \/ Tokens!ClosesLiteral(c) THEN c
                         ELSE IF html[c] = "<" /\ Tokens!At(c + 1) = "!"
                                 /\ Tokens!At(c + 2) = "-" /\ Tokens!At(c + 3) = "-"
                         THEN a[Tokens!skipHtmlComment(c + 4)]
                         ELSE a[c + 1]
<1>1. Len(html) \in Nat /\ n = Len(html) + 1 /\ n \in Nat
  BY DocumentShape
<1>2. ASSUME NEW d \in 1..n, d # n PROVE next[d] \in (d + 1)..n
  <2>1. d \in Nat /\ d + 1 \in (d + 1)..n
    BY <1>1, <1>2
  <2>2. CASE Comment(d)
    <3>1. d + 3 < n
      <4>1. d + 3 \in Nat /\ Tokens!At(d + 3) = "-"
        BY <2>1, <2>2
      <4> HIDE DEF n, Comment
      <4> QED BY <1>1, <4>1, DocumentShape DEF n
    <3>2. d + 4 \in 1..n
      <4> HIDE DEF n
      <4> QED BY <1>1, <2>1, <3>1
    <3>3. Tokens!skipHtmlComment(d + 4) \in (d + 4)..n
      BY <3>2, CommentEnds
    <3>4. next[d] = Tokens!skipHtmlComment(d + 4)
      BY <2>2
    <3> HIDE DEF n, next
    <3> QED BY <1>1, <2>1, <3>3, <3>4
  <2>3. CASE ~Comment(d)
    BY <2>1, <2>3
  <2> QED BY <2>2, <2>3
<1>3. JumpsOn(n, stop, val, next)
  <2> SUFFICES ASSUME NEW d \in 1..n PROVE IF d \in stop THEN val[d] \in d..n ELSE next[d] \in (d + 1)..n
    BY Zenon DEF JumpsOn
  <2>1. CASE d \in stop
    <3>1. val[d] = d
      OBVIOUS
    <3> HIDE DEF n, stop, val
    <3> QED BY <1>1, <2>1, <3>1
  <2>2. CASE d \notin stop
    <3>1. d # n
      BY <2>2
    <3> HIDE DEF n, stop, next, val
    <3> QED BY <1>2, <2>2, <3>1
  <2> QED BY <2>1, <2>2
<1>4. PICK f \in [1..n -> 1..n] : EndsAt(f, n, stop, val, next)
  <2> HIDE DEF n, stop, val, next
  <2> QED BY <1>1, <1>3, EndExists
<1>5. ASSUME NEW g, NEW d \in 1..n PROVE Step(g, d) = IF d \in stop THEN val[d] ELSE g[next[d]]
  OBVIOUS
<1>6. Finds(f)
  <2>1. f = [d \in 1..n |-> f[d]]
    OBVIOUS
  <2>2. \A d \in 1..n : f[d] = Step(f, d)
    <3> HIDE DEF Step, stop, val, next
    <3> QED BY <1>4, <1>5, Zenon DEF EndsAt
  <2>3. f = [d \in 1..n |-> Step(f, d)]
    <3> HIDE DEF Step
    <3> QED BY <2>1, <2>2, Zenon
  <2> QED BY <2>3, Zenon
<1>7. Finds(find)
  BY <1>6, Zenon
<1>8. EndsAt(find, n, stop, val, next)
  <2>1. find = [d \in 1..n |-> Step(find, d)]
    BY <1>7, Zenon
  <2>2. \A d \in 1..n : find[d] = Step(find, d)
    <3> HIDE DEF Step, find
    <3> QED BY <2>1
  <2> HIDE DEF Step, stop, val, next, find
  <2> QED BY <1>5, <2>2, Zenon DEF EndsAt
<1>9. find[begin] \in begin..n /\ find[begin] \in stop
  <2>1. \A d \in 1..n : d \in stop => val[d] \in stop
    OBVIOUS
  <2> HIDE DEF n, stop, val, next, find
  <2>2. \A d \in 1..n : find[d] \in d..n /\ find[d] \in stop
    BY <1>1, <1>3, <1>8, <2>1, EndIsBehind, Zenon
  <2> QED BY <2>2, Zenon DEF n
<1>10. Tokens!LiteralEnd = find[begin]
  BY Zenon DEF Tokens!LiteralEnd
<1> HIDE DEF find
<1> QED BY <1>9, <1>10

\* It is that of an element with this name.
LEMMA LiteralCloses ==
  ASSUME html \in Seq(STRING), NEW c \in 1..Tokens!End, Tokens!ClosesLiteral(c), mpLiteral \in {"s", "t"}
  PROVE  /\ mpLiteral = "s" /\ c + 3 \in 1..Tokens!End
         /\ Tokens!At(c) = "<" /\ Tokens!At(c + 1) = "/" /\ Tokens!At(c + 2) = "s"
         /\ Tokens!At(c + 3) \notin Tokens!alpha
<1>1. /\ Tokens!At(c) = "<" /\ Tokens!At(c + 1) = "/" /\ Tokens!At(c + 2) = mpLiteral
      /\ mpLiteral # "t" /\ Tokens!At(Tokens!Spaces(c + 3)) = ">"
  BY DEF Tokens!ClosesLiteral
<1>2. mpLiteral = "s"
  BY <1>1
<1>3. Len(html) \in Nat /\ Tokens!End = Len(html) + 1 /\ c \in Nat
  BY DocumentShape
<1>4. c + 2 < Tokens!End
  <2>1. c + 2 \in Nat /\ Tokens!At(c + 2) = "s"
    BY <1>1, <1>2, <1>3
  <2> QED BY <1>3, <2>1, DocumentShape
<1>5. c + 3 \in 1..Tokens!End
  BY <1>3, <1>4
<1>6. Tokens!Spaces(c + 3) \in (c + 3)..Tokens!End /\ \A k \in (c + 3)..Tokens!Spaces(c + 3) - 1 : Tokens!At(k) = Tokens!Blank
  BY <1>5, SpacesEnd
<1>7. Tokens!At(c + 3) = ">" \/ Tokens!At(c + 3) = Tokens!Blank
  <2>1. CASE Tokens!Spaces(c + 3) = c + 3
    BY <1>1, <2>1
  <2>2. CASE Tokens!Spaces(c + 3) # c + 3
    <3>1. c + 3 \in (c + 3)..Tokens!Spaces(c + 3) - 1
      BY <1>3, <1>6, <2>2
    <3> QED BY <1>6, <3>1
  <2> QED BY <2>1, <2>2
<1>8. Tokens!Blank \notin Tokens!alpha /\ ">" \notin Tokens!alpha
  BY Zenon DEF Tokens!Blank, Tokens!alpha
<1> QED BY <1>1, <1>2, <1>5, <1>7, <1>8

\* What a '<' begins, and what ends there.
LEMMA MarkupEnds ==
  ASSUME html \in Seq(STRING), NEW c \in 1..Len(html), Tokens!Markup(c).kind # "text"
  PROVE  /\ Tokens!Markup(c).to \in (c + 1)..Tokens!End
         /\ Tokens!Markup(c).kind \in {"tag", "end", "comment"}
<1>1. Len(html) \in Nat /\ Tokens!End = Len(html) + 1 /\ c \in Nat /\ c + 1 \in 1..Tokens!End
  BY DocumentShape
<1>2. Tokens!skipHtmlTag(c + 1) \in (c + 1)..Tokens!End
  BY <1>1, TagEnds
<1>3. ASSUME Tokens!At(c + 3) = "-" PROVE Tokens!skipHtmlComment(c + 4) \in (c + 1)..Tokens!End
  <2>1. c + 3 < Tokens!End
    BY <1>1, <1>3, DocumentShape
  <2>2. c + 4 \in 1..Tokens!End
    BY <1>1, <2>1
  <2>3. Tokens!skipHtmlComment(c + 4) \in (c + 4)..Tokens!End
    BY <2>2, CommentEnds
  <2> QED BY <1>1, <2>3
<1> QED BY <1>2, <1>3 DEF Tokens!Markup

LEMMA NextMarkupIs ==
  ASSUME html \in Seq(STRING), begin \in 1..Tokens!End
  PROVE  /\ Tokens!NextMarkup \in begin..Tokens!End
         /\ \/ Tokens!NextMarkup = Tokens!End
            \/ html[Tokens!NextMarkup] = "<" /\ Tokens!Markup(Tokens!NextMarkup).kind # "text"
         /\ \A k \in begin..Tokens!NextMarkup - 1 : html[k] # "<" \/ Tokens!Markup(k).kind = "text"
<1> DEFINE Marks(c) == html[c] = "<" /\ Tokens!Markup(c).kind # "text"
           T == {d \in begin..Tokens!End : d = Tokens!End \/ Marks(d)}
<1>1. Len(html) \in Nat /\ Tokens!End = Len(html) + 1 /\ Tokens!End \in Nat
  BY DocumentShape
<1> HIDE DEF Marks
<1>2. Tokens!End \in T /\ T \in SUBSET Nat
  BY <1>1
<1>3. PICK d \in T : \A y \in T : d <= y
  <2> HIDE DEF T
  <2> QED BY <1>2, Smallest
<1>4. \A k \in begin..d - 1 : ~Marks(k)
  <2> SUFFICES ASSUME NEW k \in begin..d - 1, Marks(k) PROVE FALSE
    OBVIOUS
  <2>1. d \in begin..Tokens!End
    BY <1>3
  <2>2. k \in begin..Tokens!End /\ ~(d <= k)
    <3>1. begin \in Nat /\ d \in Nat /\ d <= Tokens!End /\ Tokens!End \in Nat
      BY <1>1, <2>1
    <3> HIDE DEF T
    <3> QED BY <3>1
  <2>3. k \in T
    BY <2>2
  <2> QED BY <1>3, <2>2, <2>3
<1>5. \E x \in begin..Tokens!End : /\ x = Tokens!End \/ (html[x] = "<" /\ Tokens!Markup(x).kind # "text")
                                   /\ \A k \in begin..x - 1 : html[k] # "<" \/ Tokens!Markup(k).kind = "text"
  BY <1>3, <1>4, Zenon DEF Marks
<1> QED BY <1>5, Zenon DEF Tokens!NextMarkup


LEMMA NameIsThere ==
  ASSUME html \in Seq(STRING), NEW c \in 1..Len(html), Tokens!Markup(c).kind \in {"tag", "end"}
  PROVE  /\ Tokens!NameOf(c) \in Seq(STRING)
         /\ /\ Tokens!At(c + 1) = "/" /\ Tokens!At(c + 2) = "s" /\ c + 3 \in 1..Tokens!End
            /\ Tokens!At(c + 3) \notin Tokens!alpha
            => Tokens!NameOf(c) = <<"s">>
<1> DEFINE from == IF Tokens!At(c + 1) = "/" THEN c + 2 ELSE c + 1
           Behind(d) == Tokens!At(d) \notin Tokens!alpha /\ \A k \in from..d - 1 : Tokens!At(k) \in Tokens!alpha
           to == CHOOSE d \in from..Tokens!End : Behind(d)
           T == {d \in from..Tokens!End : Tokens!At(d) \notin Tokens!alpha}
<1>1. Len(html) \in Nat /\ Tokens!End = Len(html) + 1 /\ Tokens!End \in Nat /\ c \in Nat
  BY DocumentShape
<1>2. Tokens!At(Tokens!End) \notin Tokens!alpha
  BY DocumentShape DEF Tokens!alpha
<1>3. from \in 1..Tokens!End
  <2>1. Tokens!At(c + 1) = "/" => c + 1 < Tokens!End
    BY <1>1, DocumentShape
  <2> QED BY <1>1, <2>1
<1>4. Tokens!End \in T /\ T \in SUBSET Nat
  <2> HIDE DEF from
  <2> QED BY <1>1, <1>2, <1>3
<1>5. PICK d \in T : \A y \in T : d <= y
  <2> HIDE DEF T
  <2> QED BY <1>4, Smallest
<1>6. \A k \in from..d - 1 : Tokens!At(k) \in Tokens!alpha
  <2> SUFFICES ASSUME NEW k \in from..d - 1, Tokens!At(k) \notin Tokens!alpha PROVE FALSE
    OBVIOUS
  <2>1. d \in from..Tokens!End
    BY <1>5
  <2> HIDE DEF from
  <2>2. k \in from..Tokens!End /\ ~(d <= k)
    <3>1. from \in Nat /\ d \in Nat /\ d <= Tokens!End /\ Tokens!End \in Nat
      BY <1>1, <1>3, <2>1
    <3> HIDE DEF T
    <3> QED BY <3>1
  <2>3. k \in T
    BY <2>2
  <2> QED BY <1>5, <2>2, <2>3
<1>7. to \in from..Tokens!End /\ Behind(to)
  <2>1. d \in from..Tokens!End /\ Behind(d)
    BY <1>5, <1>6
  <2> HIDE DEF Behind, from
  <2> QED BY <2>1, Zenon
<1>8. Tokens!NameOf(c) = SubSeq(html, from, to - 1)
  BY Zenon DEF Tokens!NameOf
<1>9. from \in Nat /\ to \in Nat /\ from <= to /\ to <= Len(html) + 1
  <2> HIDE DEF from, to
  <2> QED BY <1>1, <1>3, <1>7
<1>10. \A k \in from..to - 1 : html[k] \in STRING
  <2>1. \A k \in 1..Len(html) : html[k] \in STRING
    BY ElementOfSeq
  <2> HIDE DEF from, to
  <2> QED BY <1>1, <1>3, <1>9, <2>1
<1>11. SubSeq(html, from, to - 1) \in Seq(STRING)
  <2> HIDE DEF from, to
  <2> QED BY <1>9, <1>10, SubSeqProperties
<1>12. ASSUME Tokens!At(c + 1) = "/", Tokens!At(c + 2) = "s", c + 3 \in 1..Tokens!End, Tokens!At(c + 3) \notin Tokens!alpha
       PROVE  SubSeq(html, from, to - 1) = <<"s">>
  <2>1. from = c + 2 /\ "s" \in Tokens!alpha
    BY <1>12 DEF Tokens!alpha
  <2>2. to # c + 2
    <3> HIDE DEF from, to
    <3> QED BY <1>7, <1>12, <2>1
  <2>3. ~(to > c + 3)
    <3> SUFFICES ASSUME to > c + 3 PROVE FALSE
      OBVIOUS
    <3>1. c + 3 \in from..to - 1
      <4> HIDE DEF from, to
      <4> QED BY <1>1, <1>9, <2>1
    <3> HIDE DEF from, to
    <3> QED BY <1>7, <1>12, <3>1
  <2>4. to = c + 3
    <3> HIDE DEF from, to
    <3> QED BY <1>1, <1>9, <2>1, <2>2, <2>3
  <2>5. html[c + 2] = "s" /\ c + 2 \in 1..Len(html)
    <3>1. c + 2 < Tokens!End /\ c + 2 \in Nat
      BY <1>1, <1>12
    <3> QED BY <1>1, <1>12, <3>1, DocumentShape
  <2> DEFINE t == SubSeq(html, c + 2, c + 2)
  <2>6. Len(t) = 1 /\ t[1] = html[c + 2] /\ t \in Seq(STRING)
    <3>1. \A k \in c + 2..c + 2 : html[k] \in STRING
      BY <1>10, <2>1, <2>4, <1>1
    <3>2. t \in Seq(STRING) /\ Len(t) = 1 /\ \A k \in 1..1 : t[k] = html[c + 2 + k - 1]
      <4>1. c + 2 \in Nat /\ c + 2 <= Len(html) + 1 /\ (c + 2) - (c + 2) + 1 = 1 /\ c + 2 <= c + 2
        BY <1>1, <2>5
      <4> QED BY <3>1, <4>1, <1>1, SubSeqProperties
    <3> HIDE DEF t
    <3>3. t[1] = html[c + 2 + 1 - 1] /\ c + 2 + 1 - 1 = c + 2
      BY <1>1, <3>2
    <3> QED BY <3>2, <3>3
  <2>7. t = <<"s">>
    <3> HIDE DEF t
    <3> QED BY <2>5, <2>6
  <2>8. to - 1 = c + 2
    <3> HIDE DEF to
    <3> QED BY <1>1, <2>4
  <2> HIDE DEF from, to
  <2> QED BY <2>1, <2>7, <2>8
<1> HIDE DEF from, to
<1> QED BY <1>8, <1>11, <1>12


\* Of a text h: what stands at a place, and what a text stops at there.
AtOf(h, c) == IF c <= Len(h) THEN h[c] ELSE "end"
Opening(h, c) == AtOf(h, c) = "<" /\ AtOf(h, c + 1) \in Tokens!alpha \cup {"/", "!", "?"}
Closing(h, c) ==
  /\ AtOf(h, c) = "<" /\ AtOf(h, c + 1) = "/" /\ AtOf(h, c + 2) = "s"
  /\ AtOf(h, c + 3) \notin Tokens!alpha

Token == [kind : {"tag", "end", "comment", "text"}, name : Seq(STRING), first : Nat, last : Nat, offset : Nat]
Literal(t) == t.kind = "tag" /\ t.name \in {<<"s">>, <<"t">>}
TextBehind(q, i) == \A k \in 1..Len(q) : k > i => q[k].kind = "text"

\* One token begins where the one before it ends, and no two texts follow
\* each other.
Chained(q) ==
  \A i \in 1..Len(q) :
    /\ q[i].first = (IF i = 1 THEN 1 ELSE q[i - 1].last + 1)
    /\ q[i].last >= q[i].first
    /\ q[i].offset = q[i].first - 1
    /\ i > 1 /\ q[i].kind = "text" => q[i - 1].kind # "text"

\* What is not text behind a script is its end.
Answered(q) ==
  \A i, j \in 1..Len(q) :
    /\ i < j /\ Literal(q[i]) /\ q[j].kind # "text"
    /\ \A k \in 1..Len(q) : i < k /\ k < j => q[k].kind = "text"
    => q[j].kind = "end" /\ q[j].name = q[i].name /\ q[i].name = <<"s">>

\* A script without an end yet waits for it, or stands before it.
Waiting(q, h, b, element) ==
  \A i \in 1..Len(q) : Literal(q[i]) /\ TextBehind(q, i) =>
    \/ i = Len(q) /\ element = q[i].name[1]
    \/ b = Len(h) + 1
    \/ element = Tokens!NoElement /\ q[i].name = <<"s">> /\ Closing(h, b)

\* A text ends where something else begins.
TextEnds(q, h, b, element) ==
  Len(q) > 0 /\ q[Len(q)].kind = "text" =>
    b = Len(h) + 1 \/ (element = Tokens!NoElement /\ Opening(h, b))

TokensInv ==
  /\ html \in Seq(STRING) /\ begin \in 1..(Len(html) + 1)
  /\ mCurrentOffset = begin - 1
  /\ mpLiteral \in {"s", "t", Tokens!NoElement}
  /\ nodes \in Seq(Token)
  /\ begin = 1 + IF Len(nodes) = 0 THEN 0 ELSE nodes[Len(nodes)].last
  /\ done => begin = Len(html) + 1
  /\ Chained(nodes) /\ Answered(nodes)
  /\ Waiting(nodes, html, begin, mpLiteral) /\ TextEnds(nodes, html, begin, mpLiteral)

LEMMA TokenAdded ==
  ASSUME TokensInv, NEW kind \in {"tag", "end", "comment", "text"}, NEW name \in Seq(STRING),
         NEW to \in (begin + 1)..(Len(html) + 1), Tokens!Emit(kind, name, to),
         kind = "text" /\ Len(nodes) > 0 => nodes[Len(nodes)].kind # "text",
         kind # "text" => \A i \in 1..Len(nodes) : Literal(nodes[i]) /\ TextBehind(nodes, i) =>
                            kind = "end" /\ name = nodes[i].name /\ name = <<"s">>
  PROVE  /\ html' = html /\ done' = done /\ begin' = to /\ mCurrentOffset' = to - 1
         /\ nodes' \in Seq(Token) /\ Len(nodes') = Len(nodes) + 1 /\ Len(nodes) \in Nat
         /\ nodes'[Len(nodes) + 1].kind = kind /\ nodes'[Len(nodes) + 1].name = name
         /\ nodes'[Len(nodes) + 1].last = to - 1
         /\ \A i \in 1..Len(nodes) : nodes'[i] = nodes[i]
         /\ Chained(nodes') /\ Answered(nodes')
<1> DEFINE t == [kind |-> kind, name |-> name, first |-> begin, last |-> to - 1, offset |-> mCurrentOffset]
           n == Len(nodes)
<1>1. /\ html \in Seq(STRING) /\ Len(html) \in Nat /\ begin \in Nat /\ begin >= 1 /\ begin <= Len(html) + 1
      /\ to \in Nat /\ to > begin /\ to <= Len(html) + 1
      /\ mCurrentOffset = begin - 1 /\ nodes \in Seq(Token) /\ n \in Nat
  BY LenProperties DEF TokensInv
<1>2. /\ nodes' = Append(nodes, t) /\ begin' = to /\ html' = html /\ done' = done
      /\ mCurrentOffset' = mCurrentOffset + Len(SubSeq(html, begin, to - 1))
  BY DEF Tokens!Emit
<1>3. t \in Token
  BY <1>1 DEF Token
<1>4. nodes' \in Seq(Token) /\ Len(nodes') = n + 1 /\ nodes'[n + 1] = t /\ \A i \in 1..n : nodes'[i] = nodes[i]
  <2> HIDE DEF t
  <2> QED BY <1>1, <1>2, <1>3, AppendProperties
<1>5. mCurrentOffset' = to - 1
  <2>1. \A k \in begin..to - 1 : html[k] \in STRING
    <3>1. \A k \in 1..Len(html) : html[k] \in STRING
      BY <1>1, ElementOfSeq
    <3> QED BY <1>1, <3>1
  <2>2. Len(SubSeq(html, begin, to - 1)) = IF begin <= to - 1 THEN (to - 1) - begin + 1 ELSE 0
    <3>1. begin \in Nat /\ to - 1 \in Nat /\ begin <= (to - 1) + 1
      BY <1>1
    <3> QED BY <2>1, <3>1, <1>1, SubSeqProperties
  <2> QED BY <1>1, <1>2, <2>2
<1>6. t.kind = kind /\ t.name = name /\ t.last = to - 1 /\ t.first = begin /\ t.offset = begin - 1
  BY <1>1
<1> HIDE DEF t
<1>7. Chained(nodes')
  <2> SUFFICES ASSUME NEW i \in 1..n + 1
               PROVE  /\ nodes'[i].first = (IF i = 1 THEN 1 ELSE nodes'[i - 1].last + 1)
                      /\ nodes'[i].last >= nodes'[i].first
                      /\ nodes'[i].offset = nodes'[i].first - 1
                      /\ i > 1 /\ nodes'[i].kind = "text" => nodes'[i - 1].kind # "text"
    BY <1>4 DEF Chained
  <2>1. CASE i = n + 1
    <3>1. nodes'[i] = t /\ (i > 1 => nodes'[i - 1] = nodes[n] /\ n > 0) /\ (i = 1 <=> n = 0)
      BY <1>1, <1>4, <2>1
    <3>2. begin = 1 + IF n = 0 THEN 0 ELSE nodes[n].last
      BY DEF TokensInv
    <3>3. n > 0 => nodes[n].last \in Nat
      <4>1. \A k \in 1..n : nodes[k] \in Token
        BY <1>1, ElementOfSeq
      <4>2. n > 0 => n \in 1..n
        BY <1>1
      <4> QED BY <4>1, <4>2 DEF Token
    <3>4. t.first = IF i = 1 THEN 1 ELSE nodes'[i - 1].last + 1
      <4> HIDE DEF n
      <4>1. CASE i = 1
        BY <1>6, <3>1, <3>2, <4>1
      <4>2. CASE i # 1
        <5>1. i > 1
          BY <1>1, <2>1, <4>2
        <5>2. nodes'[i - 1] = nodes[n] /\ n # 0 /\ nodes[n].last \in Nat
          BY <1>1, <3>1, <3>3, <5>1
        <5> QED BY <1>6, <3>2, <4>2, <5>2
      <4> QED BY <4>1, <4>2
    <3>5. t.last >= t.first
      BY <1>1, <1>6
    <3>6. i > 1 /\ t.kind = "text" => nodes'[i - 1].kind # "text"
      BY <1>6, <3>1
    <3> QED BY <1>6, <3>1, <3>4, <3>5, <3>6
  <2>2. CASE i # n + 1
    <3>1. i \in 1..n /\ nodes'[i] = nodes[i] /\ (i # 1 => nodes'[i - 1] = nodes[i - 1])
      <4>1. i \in 1..n /\ (i # 1 => i - 1 \in 1..n)
        <5>1. n \in Nat /\ i \in Nat
          BY <1>1
        <5> HIDE DEF n
        <5> QED BY <2>2, <5>1
      <4> QED BY <1>4, <4>1
    <3>2. /\ nodes[i].first = (IF i = 1 THEN 1 ELSE nodes[i - 1].last + 1)
          /\ nodes[i].last >= nodes[i].first
          /\ nodes[i].offset = nodes[i].first - 1
          /\ i > 1 /\ nodes[i].kind = "text" => nodes[i - 1].kind # "text"
      BY <3>1 DEF TokensInv, Chained
    <3> QED BY <3>1, <3>2
  <2> QED BY <2>1, <2>2
<1>8. Answered(nodes')
  <2> SUFFICES ASSUME NEW i \in 1..n + 1, NEW j \in 1..n + 1, i < j, Literal(nodes'[i]), nodes'[j].kind # "text",
                      \A k \in 1..n + 1 : i < k /\ k < j => nodes'[k].kind = "text"
               PROVE  nodes'[j].kind = "end" /\ nodes'[j].name = nodes'[i].name /\ nodes'[i].name = <<"s">>
    BY <1>4 DEF Answered
  <2>1. i \in 1..n /\ nodes'[i] = nodes[i] /\ Literal(nodes[i])
    BY <1>1, <1>4
  <2>2. CASE j = n + 1
    <3>1. kind # "text" /\ nodes'[j] = t
      BY <1>4, <1>6, <2>2
    <3>2. TextBehind(nodes, i)
      BY <1>1, <1>4, <2>2 DEF TextBehind
    <3>3. kind = "end" /\ name = nodes[i].name /\ name = <<"s">>
      BY <2>1, <3>1, <3>2
    <3> QED BY <1>6, <2>1, <3>1, <3>3
  <2>3. CASE j # n + 1
    <3>1. j \in 1..n /\ nodes'[j] = nodes[j]
      <4>1. j \in 1..n
        <5>1. n \in Nat /\ j \in Nat
          BY <1>1
        <5> HIDE DEF n
        <5> QED BY <2>3, <5>1
      <4> QED BY <1>4, <4>1
    <3>2. \A k \in 1..n : i < k /\ k < j => nodes[k].kind = "text"
      BY <1>1, <1>4
    <3>3. Answered(nodes)
      BY DEF TokensInv
    <3> QED BY <2>1, <3>1, <3>2, <3>3 DEF Answered
  <2> QED BY <2>2, <2>3
<1> QED BY <1>1, <1>2, <1>4, <1>5, <1>6, <1>7, <1>8


LEMMA PlacesAgree ==
  ASSUME html \in Seq(STRING)
  PROVE  /\ \A c \in Nat : Tokens!At(c) = AtOf(html, c)
         /\ \A c \in 1..Len(html) : html[c] = "<" /\ Tokens!Markup(c).kind # "text" <=> Opening(html, c)
         /\ \A c \in 1..Len(html) + 1 :
              Closing(html, c) => /\ c \in 1..Len(html) /\ Opening(html, c)
                                  /\ Tokens!Markup(c).kind = "end" /\ Tokens!NameOf(c) = <<"s">>
<1>1. Len(html) \in Nat /\ Tokens!End = Len(html) + 1
  BY DocumentShape
<1>2. \A c \in Nat : Tokens!At(c) = AtOf(html, c)
  BY <1>1 DEF Tokens!At, AtOf
<1>3. ASSUME NEW c \in 1..Len(html)
      PROVE  html[c] = "<" /\ Tokens!Markup(c).kind # "text" <=> Opening(html, c)
  <2>1. AtOf(html, c) = html[c] /\ Tokens!At(c + 1) = AtOf(html, c + 1)
    BY <1>1, <1>2 DEF AtOf
  <2>2. Tokens!Markup(c).kind # "text" <=> Tokens!At(c + 1) \in Tokens!alpha \cup {"/", "!", "?"}
    BY DEF Tokens!Markup
  <2> QED BY <2>1, <2>2 DEF Opening
<1>4. ASSUME NEW c \in 1..Len(html) + 1, Closing(html, c)
      PROVE  /\ c \in 1..Len(html) /\ Opening(html, c)
             /\ Tokens!Markup(c).kind = "end" /\ Tokens!NameOf(c) = <<"s">>
  <2>1. /\ Tokens!At(c) = "<" /\ Tokens!At(c + 1) = "/" /\ Tokens!At(c + 2) = "s"
        /\ Tokens!At(c + 3) \notin Tokens!alpha /\ c \in Nat
    BY <1>1, <1>2, <1>4 DEF Closing
  <2>2. c + 3 \in 1..Tokens!End /\ c \in 1..Len(html)
    <3>1. c + 2 < Tokens!End
      BY <1>1, <2>1, DocumentShape
    <3> QED BY <1>1, <2>1, <3>1
  <2>3. Opening(html, c)
    BY <1>4 DEF Opening, Closing
  <2>4. "s" \in Tokens!alpha /\ "/" \notin Tokens!alpha
    BY DEF Tokens!alpha
  <2>5. Tokens!Markup(c).kind = "end"
    BY <2>1, <2>4 DEF Tokens!Markup
  <2> QED BY <2>1, <2>2, <2>3, <2>5, NameIsThere
<1> QED BY <1>2, <1>3, <1>4

LEMMA TokensStart ==
  ASSUME Tokens!DocumentAssumption, Tokens!Init PROVE TokensInv
<1>1. html \in Seq(STRING) /\ begin = 1 /\ mpLiteral = Tokens!NoElement /\ mCurrentOffset = 0 /\ nodes = <<>> /\ done = FALSE
  BY DEF Tokens!DocumentAssumption, Tokens!Init
<1>2. Len(html) \in Nat /\ Len(nodes) = 0 /\ nodes \in Seq(Token)
  BY <1>1, LenProperties, EmptySeq
<1>3. Chained(nodes) /\ Answered(nodes) /\ Waiting(nodes, html, begin, mpLiteral) /\ TextEnds(nodes, html, begin, mpLiteral)
  BY <1>2 DEF Chained, Answered, Waiting, TextEnds
<1> QED BY <1>1, <1>2, <1>3 DEF TokensInv

\* No script waits where a token other than its end begins, or a text.
LEMMA NoneWaits ==
  ASSUME TokensInv, begin < Tokens!End, mpLiteral = Tokens!NoElement,
         NEW i \in 1..Len(nodes), Literal(nodes[i]), TextBehind(nodes, i)
  PROVE  /\ nodes[i].name = <<"s">> /\ Opening(html, begin)
         /\ Tokens!Markup(begin).kind = "end" /\ Tokens!NameOf(begin) = <<"s">>
<1>1. html \in Seq(STRING) /\ begin \in 1..Len(html) + 1 /\ begin # Len(html) + 1 /\ Len(html) \in Nat
  BY DocumentShape DEF TokensInv
<1>2. mpLiteral # nodes[i].name[1]
  <2>1. nodes[i].name[1] \in {"s", "t"}
    BY DEF Literal
  <2>2. Tokens!NoElement \notin {"s", "t"}
    BY Zenon DEF Tokens!NoElement
  <2> QED BY <2>1, <2>2
<1>3. nodes[i].name = <<"s">> /\ Closing(html, begin)
  BY <1>1, <1>2, Zenon DEF TokensInv, Waiting
<1> QED BY <1>1, <1>3, PlacesAgree

LEMMA LiteralRead ==
  ASSUME TokensInv, Tokens!ParseLiteral PROVE TokensInv'
<1> DEFINE to == Tokens!LiteralEnd
           n == Len(nodes)
<1>1. /\ html \in Seq(STRING) /\ begin \in 1..Len(html) + 1 /\ Len(html) \in Nat /\ Tokens!End = Len(html) + 1
      /\ mpLiteral \in {"s", "t", Tokens!NoElement} /\ n \in Nat
  BY DocumentShape, LenProperties DEF TokensInv
<1>2. /\ ~done /\ begin < Tokens!End /\ mpLiteral # Tokens!NoElement /\ to > begin
      /\ Tokens!Emit("text", <<>>, to)
      /\ mpLiteral' = IF to = Tokens!End THEN mpLiteral ELSE Tokens!NoElement
  BY DEF Tokens!ParseLiteral
<1>3. to \in begin..Tokens!End /\ (to = Tokens!End \/ Tokens!ClosesLiteral(to))
  BY <1>1, LiteralEnds
<1> HIDE DEF to
<1>4. to \in (begin + 1)..(Len(html) + 1) /\ to \in 1..Len(html) + 1
  BY <1>1, <1>2, <1>3
<1>5. to # Tokens!End => mpLiteral = "s" /\ Closing(html, to) /\ Opening(html, to)
  <2> SUFFICES ASSUME to # Tokens!End PROVE mpLiteral = "s" /\ Closing(html, to) /\ Opening(html, to)
    OBVIOUS
  <2>1. /\ mpLiteral = "s"
        /\ Tokens!At(to) = "<" /\ Tokens!At(to + 1) = "/" /\ Tokens!At(to + 2) = "s"
        /\ Tokens!At(to + 3) \notin Tokens!alpha
    BY <1>1, <1>2, <1>3, <1>4, LiteralCloses
  <2>2. Closing(html, to)
    BY <1>1, <1>4, <2>1, PlacesAgree DEF Closing
  <2> QED BY <1>1, <1>4, <2>1, <2>2, PlacesAgree
<1>6. n > 0 => nodes[n].kind # "text"
  BY <1>1, <1>2 DEF TokensInv, TextEnds
<1>7. /\ html' = html /\ done' = done /\ begin' = to /\ mCurrentOffset' = to - 1
      /\ nodes' \in Seq(Token) /\ Len(nodes') = n + 1
      /\ nodes'[n + 1].kind = "text" /\ nodes'[n + 1].last = to - 1
      /\ \A i \in 1..n : nodes'[i] = nodes[i]
      /\ Chained(nodes') /\ Answered(nodes')
  <2>1. <<>> \in Seq(STRING)
    BY EmptySeq
  <2> HIDE DEF n
  <2> QED BY <1>2, <1>4, <1>6, <2>1, TokenAdded DEF n
<1>8. Waiting(nodes', html, to, mpLiteral')
  <2> SUFFICES ASSUME NEW i \in 1..n + 1, Literal(nodes'[i]), TextBehind(nodes', i), to # Len(html) + 1
               PROVE  mpLiteral' = Tokens!NoElement /\ nodes'[i].name = <<"s">> /\ Closing(html, to)
    BY <1>7 DEF Waiting
  <2>1. i \in 1..n /\ nodes'[i] = nodes[i]
    <3>1. i # n + 1
      BY <1>7 DEF Literal
    <3>2. i \in 1..n
      <4> HIDE DEF n
      <4> QED BY <1>1, <3>1
    <3> QED BY <1>7, <3>2
  <2>2. TextBehind(nodes, i)
    BY <1>1, <1>7 DEF TextBehind
  <2>3. mpLiteral = nodes[i].name[1]
    BY <1>1, <1>2, <2>1, <2>2 DEF TokensInv, Waiting
  <2>4. mpLiteral = "s" /\ Closing(html, to) /\ mpLiteral' = Tokens!NoElement
    <3>1. to # Tokens!End
      BY <1>1
    <3> QED BY <1>2, <1>5, <3>1, Zenon
  <2>5. nodes[i].name = <<"s">>
    <3>1. PICK name : name = nodes[i].name
      OBVIOUS
    <3>2. name \in {<<"s">>, <<"t">>} /\ name[1] = "s"
      BY <2>1, <2>3, <2>4, <3>1 DEF Literal
    <3>3. name = <<"s">>
      BY <3>2
    <3> QED BY <3>1, <3>3
  <2> QED BY <2>1, <2>4, <2>5
<1>9. TextEnds(nodes', html, to, mpLiteral')
  BY <1>1, <1>2, <1>5 DEF TextEnds
<1>10. mpLiteral' \in {"s", "t", Tokens!NoElement}
  BY <1>1, <1>2
<1>11. to = 1 + IF Len(nodes') = 0 THEN 0 ELSE nodes'[Len(nodes')].last
  <2> HIDE DEF n
  <2> QED BY <1>1, <1>4, <1>7
<1> QED BY <1>2, <1>4, <1>7, <1>8, <1>9, <1>10, <1>11 DEF TokensInv

LEMMA LiteralPassed ==
  ASSUME TokensInv, Tokens!EmptyLiteral PROVE TokensInv'
<1>1. /\ html \in Seq(STRING) /\ begin \in 1..Len(html) + 1 /\ Len(html) \in Nat /\ Tokens!End = Len(html) + 1
      /\ mpLiteral \in {"s", "t", Tokens!NoElement}
  BY DocumentShape DEF TokensInv
<1>2. /\ ~done /\ begin < Tokens!End /\ mpLiteral # Tokens!NoElement /\ Tokens!LiteralEnd = begin
      /\ mpLiteral' = Tokens!NoElement /\ html' = html /\ begin' = begin /\ mCurrentOffset' = mCurrentOffset
      /\ nodes' = nodes /\ done' = done
  BY DEF Tokens!EmptyLiteral
<1>3. /\ mpLiteral = "s"
      /\ Tokens!At(begin) = "<" /\ Tokens!At(begin + 1) = "/" /\ Tokens!At(begin + 2) = "s"
      /\ Tokens!At(begin + 3) \notin Tokens!alpha
  BY <1>1, <1>2, LiteralEnds, LiteralCloses
<1>4. Closing(html, begin)
  BY <1>1, <1>3, PlacesAgree DEF Closing
<1>5. Waiting(nodes, html, begin, mpLiteral')
  <2> SUFFICES ASSUME NEW i \in 1..Len(nodes), Literal(nodes[i]), TextBehind(nodes, i)
               PROVE  nodes[i].name = <<"s">>
    BY <1>2, <1>4 DEF Waiting
  <2>1. mpLiteral = nodes[i].name[1]
    BY <1>1, <1>2 DEF TokensInv, Waiting
  <2> QED BY <1>3, <2>1 DEF Literal
<1>6. TextEnds(nodes, html, begin, mpLiteral')
  BY <1>1, <1>2 DEF TokensInv, TextEnds
<1> QED BY <1>2, <1>5, <1>6 DEF TokensInv


LEMMA TextRead ==
  ASSUME TokensInv, Tokens!parseContent PROVE TokensInv'
<1> DEFINE to == Tokens!NextMarkup
           n == Len(nodes)
<1>1. /\ html \in Seq(STRING) /\ begin \in 1..Len(html) + 1 /\ Len(html) \in Nat /\ Tokens!End = Len(html) + 1
      /\ n \in Nat
  BY DocumentShape, LenProperties DEF TokensInv
<1>2. /\ ~done /\ begin < Tokens!End /\ mpLiteral = Tokens!NoElement /\ to > begin
      /\ Tokens!Emit("text", <<>>, to) /\ mpLiteral' = mpLiteral
  BY DEF Tokens!parseContent
<1>3. /\ to \in begin..Tokens!End
      /\ to = Tokens!End \/ (html[to] = "<" /\ Tokens!Markup(to).kind # "text")
      /\ \A k \in begin..to - 1 : html[k] # "<" \/ Tokens!Markup(k).kind = "text"
  BY <1>1, NextMarkupIs
<1> HIDE DEF to
<1>4. to \in (begin + 1)..(Len(html) + 1) /\ begin \in 1..Len(html) /\ begin \in begin..to - 1
  BY <1>1, <1>2, <1>3
<1>5. ~Opening(html, begin)
  BY <1>1, <1>3, <1>4, PlacesAgree
<1>6. to # Tokens!End => Opening(html, to)
  <2> SUFFICES ASSUME to # Tokens!End PROVE Opening(html, to)
    OBVIOUS
  <2>1. to \in 1..Len(html)
    BY <1>1, <1>3
  <2> QED BY <1>1, <1>3, <2>1, PlacesAgree
<1>7. n > 0 => nodes[n].kind # "text"
  BY <1>1, <1>2, <1>5 DEF TokensInv, TextEnds
<1>8. /\ html' = html /\ done' = done /\ begin' = to /\ mCurrentOffset' = to - 1
      /\ nodes' \in Seq(Token) /\ Len(nodes') = n + 1
      /\ nodes'[n + 1].kind = "text" /\ nodes'[n + 1].last = to - 1
      /\ \A i \in 1..n : nodes'[i] = nodes[i]
      /\ Chained(nodes') /\ Answered(nodes')
  <2>1. <<>> \in Seq(STRING)
    BY EmptySeq
  <2> HIDE DEF n
  <2> QED BY <1>2, <1>4, <1>7, <2>1, TokenAdded DEF n
<1>9. Waiting(nodes', html, to, mpLiteral')
  <2> SUFFICES ASSUME NEW i \in 1..n + 1, Literal(nodes'[i]), TextBehind(nodes', i) PROVE FALSE
    BY <1>8 DEF Waiting
  <2>1. i \in 1..n /\ nodes'[i] = nodes[i]
    <3>1. i # n + 1
      BY <1>8 DEF Literal
    <3>2. i \in 1..n
      <4> HIDE DEF n
      <4> QED BY <1>1, <3>1
    <3> QED BY <1>8, <3>2
  <2>2. TextBehind(nodes, i)
    BY <1>1, <1>8 DEF TextBehind
  <2> QED BY <1>2, <1>5, <2>1, <2>2, NoneWaits
<1>10. TextEnds(nodes', html, to, mpLiteral')
  BY <1>1, <1>2, <1>6 DEF TextEnds
<1>11. to = 1 + IF Len(nodes') = 0 THEN 0 ELSE nodes'[Len(nodes')].last
  <2> HIDE DEF n
  <2> QED BY <1>1, <1>4, <1>8
<1>12. mpLiteral' \in {"s", "t", Tokens!NoElement} /\ to \in 1..(Len(html) + 1)
  BY <1>1, <1>2, <1>4
<1> QED BY <1>2, <1>4, <1>8, <1>9, <1>10, <1>11, <1>12 DEF TokensInv

\* A tag or a comment.
LEMMA MarkupRead ==
  ASSUME TokensInv, NEW kind \in {"tag", "end", "comment"}, NEW name \in Seq(STRING),
         ~done, begin < Tokens!End, mpLiteral = Tokens!NoElement, Tokens!NextMarkup = begin,
         Tokens!Markup(begin).kind = kind,
         kind # "comment" => name = Tokens!NameOf(begin),
         Tokens!Emit(kind, name, Tokens!Markup(begin).to),
         mpLiteral' = IF kind = "tag" /\ name \in {<<"s">>, <<"t">>} THEN name[1] ELSE Tokens!NoElement
  PROVE  TokensInv'
<1> DEFINE to == Tokens!Markup(begin).to
           n == Len(nodes)
<1>1. /\ html \in Seq(STRING) /\ begin \in 1..Len(html) + 1 /\ Len(html) \in Nat /\ Tokens!End = Len(html) + 1
      /\ n \in Nat
  BY DocumentShape, LenProperties DEF TokensInv
<1>2. begin \in 1..Len(html)
  BY <1>1
<1>3. to \in (begin + 1)..(Len(html) + 1)
  BY <1>1, <1>2, MarkupEnds
<1> HIDE DEF to
<1>4. ASSUME NEW i \in 1..n, Literal(nodes[i]), TextBehind(nodes, i)
      PROVE  kind = "end" /\ name = nodes[i].name /\ name = <<"s">>
  <2>1. /\ nodes[i].name = <<"s">> /\ Tokens!Markup(begin).kind = "end" /\ Tokens!NameOf(begin) = <<"s">>
    BY <1>4, NoneWaits
  <2> QED BY <2>1
<1>5. /\ html' = html /\ done' = done /\ begin' = to /\ mCurrentOffset' = to - 1
      /\ nodes' \in Seq(Token) /\ Len(nodes') = n + 1
      /\ nodes'[n + 1].kind = kind /\ nodes'[n + 1].name = name /\ nodes'[n + 1].last = to - 1
      /\ \A i \in 1..n : nodes'[i] = nodes[i]
      /\ Chained(nodes') /\ Answered(nodes')
  <2>1. Tokens!Emit(kind, name, to)
    BY DEF to
  <2> HIDE DEF n
  <2> QED BY <1>3, <1>4, <2>1, TokenAdded DEF n
<1>6. Waiting(nodes', html, to, mpLiteral')
  <2> SUFFICES ASSUME NEW i \in 1..n + 1, Literal(nodes'[i]), TextBehind(nodes', i)
               PROVE  i = n + 1 /\ mpLiteral' = nodes'[i].name[1]
    BY <1>5 DEF Waiting
  <2>1. i = n + 1
    <3> SUFFICES ASSUME i # n + 1 PROVE FALSE
      OBVIOUS
    <3>1. n + 1 \in 1..n + 1 /\ n + 1 > i
      <4>1. n \in Nat /\ i \in Nat
        BY <1>1
      <4> HIDE DEF n
      <4> QED BY <4>1
    <3>2. nodes'[n + 1].kind = "text"
      BY <1>5, <3>1 DEF TextBehind
    <3> QED BY <1>5, <3>2
  <2>2. kind = "tag" /\ name \in {<<"s">>, <<"t">>}
    BY <1>5, <2>1 DEF Literal
  <2> QED BY <1>5, <2>1, <2>2
<1>7. TextEnds(nodes', html, to, mpLiteral')
  BY <1>5 DEF TextEnds
<1>8. to = 1 + IF Len(nodes') = 0 THEN 0 ELSE nodes'[Len(nodes')].last
  <2> HIDE DEF n
  <2> QED BY <1>1, <1>3, <1>5
<1>9. mpLiteral' \in {"s", "t", Tokens!NoElement} /\ to \in 1..(Len(html) + 1)
  <2>1. to \in 1..(Len(html) + 1)
    BY <1>1, <1>3
  <2>2. mpLiteral' \in {"s", "t", Tokens!NoElement}
    <3>1. name \in {<<"s">>, <<"t">>} => name[1] \in {"s", "t"}
      OBVIOUS
    <3> QED BY <3>1
  <2> QED BY <2>1, <2>2
<1> QED BY <1>3, <1>5, <1>6, <1>7, <1>8, <1>9 DEF TokensInv

LEMMA TokensStep ==
  ASSUME TokensInv, [Tokens!Next]_Tokens!vars PROVE TokensInv'
<1>1. CASE Tokens!ParseLiteral
  BY <1>1, LiteralRead
<1>2. CASE Tokens!EmptyLiteral
  BY <1>2, LiteralPassed
<1>3. CASE Tokens!parseContent
  BY <1>3, TextRead
<1>4. html \in Seq(STRING) /\ begin \in 1..(Len(html) + 1) /\ Len(html) \in Nat /\ Tokens!End = Len(html) + 1
  BY DocumentShape DEF TokensInv
<1>5. CASE Tokens!parseHtmlTag
  <2> DEFINE kind == Tokens!Markup(begin).kind
             name == Tokens!NameOf(begin)
  <2>1. /\ ~done /\ begin < Tokens!End /\ mpLiteral = Tokens!NoElement /\ Tokens!NextMarkup = begin
        /\ kind \in {"tag", "end"} /\ Tokens!Emit(kind, name, Tokens!Markup(begin).to)
        /\ mpLiteral' = IF kind = "tag" /\ name \in {<<"s">>, <<"t">>} THEN name[1] ELSE Tokens!NoElement
    BY <1>5 DEF Tokens!parseHtmlTag
  <2>2. begin \in 1..Len(html)
    BY <1>4, <2>1
  <2>3. name \in Seq(STRING)
    BY <1>4, <2>1, <2>2, NameIsThere
  <2> QED BY <2>1, <2>3, MarkupRead
<1>6. CASE Tokens!parseComment
  <2>1. /\ ~done /\ begin < Tokens!End /\ mpLiteral = Tokens!NoElement /\ Tokens!NextMarkup = begin
        /\ Tokens!Markup(begin).kind = "comment" /\ Tokens!Emit("comment", <<>>, Tokens!Markup(begin).to)
        /\ mpLiteral' = Tokens!NoElement
    BY <1>6 DEF Tokens!parseComment
  <2>2. <<>> \in Seq(STRING)
    BY EmptySeq
  <2> QED BY <2>1, <2>2, MarkupRead
<1>7. CASE Tokens!endParsing
  <2>1. begin = Tokens!End /\ html' = html /\ begin' = begin /\ mpLiteral' = mpLiteral
        /\ mCurrentOffset' = mCurrentOffset /\ nodes' = nodes
    BY <1>7 DEF Tokens!endParsing
  <2> QED BY <1>4, <2>1 DEF TokensInv
<1>8. CASE UNCHANGED Tokens!vars
  BY <1>8 DEF Tokens!vars, TokensInv
<1> QED BY <1>1, <1>2, <1>3, <1>5, <1>6, <1>7, <1>8 DEF Tokens!Next

\* The parser reads every character of a document once and in order, tells
\* each token its place, cuts no text in two, and lets nothing but the end of
\* a script end it (ParserSax.tcc:43-232).
THEOREM EveryTokenHasItsText ==
  ASSUME Tokens!DocumentAssumption PROVE Tokens!Spec => []Tokens!TokensCoverText
<1>1. Tokens!Init => TokensInv
  BY TokensStart
<1>2. TokensInv /\ [Tokens!Next]_Tokens!vars => TokensInv'
  BY TokensStep
<1>3. TokensInv => Tokens!TokensCoverText
  <2> SUFFICES ASSUME TokensInv PROVE Tokens!TokensCoverText
    OBVIOUS
  <2> DEFINE n == Len(nodes)
  <2>1. n \in Nat /\ DOMAIN nodes = 1..n /\ html \in Seq(STRING) /\ Len(html) \in Nat
    BY LenProperties DEF TokensInv
  <2>2. \A i \in DOMAIN nodes :
          /\ nodes[i].first = (IF i = 1 THEN 1 ELSE nodes[i - 1].last + 1)
          /\ nodes[i].last >= nodes[i].first
          /\ nodes[i].offset = nodes[i].first - 1
          /\ i > 1 /\ nodes[i].kind = "text" => nodes[i - 1].kind # "text"
    BY <2>1 DEF TokensInv, Chained
  <2>3. done => mCurrentOffset = Len(html)
    BY <2>1 DEF TokensInv
  <2>4. \A i, j \in DOMAIN nodes :
          /\ i < j /\ nodes[i].kind = "tag" /\ nodes[i].name \in {<<"s">>, <<"t">>}
          /\ nodes[j].kind # "text" /\ \A k \in i + 1..j - 1 : nodes[k].kind = "text"
          => nodes[j].kind = "end" /\ nodes[j].name = nodes[i].name /\ nodes[i].name = <<"s">>
    <3> SUFFICES ASSUME NEW i \in 1..n, NEW j \in 1..n, i < j, Literal(nodes[i]), nodes[j].kind # "text",
                        \A k \in i + 1..j - 1 : nodes[k].kind = "text"
                 PROVE  nodes[j].kind = "end" /\ nodes[j].name = nodes[i].name /\ nodes[i].name = <<"s">>
      BY <2>1, Zenon DEF Literal
    <3>1. ASSUME NEW k \in 1..n, i < k, k < j PROVE nodes[k].kind = "text"
      <4>1. k \in i + 1..j - 1
        BY <2>1, <3>1
      <4> QED BY <4>1
    <3>2. Answered(nodes)
      BY DEF TokensInv
    <3> QED BY <3>1, <3>2, Zenon DEF Answered
  <2> QED BY <2>2, <2>3, <2>4, Zenon DEF Tokens!TokensCoverText
<1> QED BY <1>1, <1>2, <1>3, PTL DEF Tokens!Spec

-----------------------------------------------------------------------------
(* Dom and TagList: the tree is what the text says.                         *)

CONSTANTS StartTags, MaxTokens, MaxNesting, MaxItems
VARIABLES tree, node, current, parents, parsed, it, parent, open, l1, ended

Tags == INSTANCE TagList WITH t <- tree

\* The parents p of N nodes: each is before its children, and what stands
\* between a node and its child is below the node.
Nested(p, N) ==
  /\ N \in Nat /\ N >= 2 /\ p \in [1..N -> Nat] /\ p[1] = 0 /\ p[2] = 0
  /\ \A m \in 3..N : p[m] >= 2 /\ p[m] < m
  /\ \A m, k \in 3..N : p[m] < k /\ k < m => p[k] >= p[m]

FirstIs(p, N, n, x) ==
  \/ x = 0 /\ \A m \in 3..N : p[m] # n
  \/ x \in 3..N /\ p[x] = n /\ \A m \in 3..N : p[m] = n => x <= m
LastIs(p, N, n, x) ==
  \/ x = 0 /\ \A m \in 3..N : p[m] # n
  \/ x \in 3..N /\ p[x] = n /\ \A m \in 3..N : p[m] = n => m <= x
NextIs(p, N, m, x) ==
  \/ x = 0 /\ \A k \in 3..N : k > m => p[k] # p[m]
  \/ x \in 3..N /\ x > m /\ p[x] = p[m] /\ \A k \in 3..N : m < k /\ k < x => p[k] # p[m]
PrevIs(p, N, m, x) ==
  \/ x = 0 /\ \A k \in 3..N : k < m => p[k] # p[m]
  \/ x \in 3..N /\ x < m /\ p[x] = p[m] /\ \A k \in 3..N : x < k /\ k < m => p[k] # p[m]

\* All five pointers of a tree h say what its parents say.
Links(p, f, l, b, x, N) ==
  /\ Nested(p, N)
  /\ f \in [1..N -> Nat] /\ l \in [1..N -> Nat] /\ b \in [1..N -> Nat] /\ x \in [1..N -> Nat]
  /\ b[1] = 2 /\ x[1] = 0 /\ b[2] = 0 /\ x[2] = 1
  /\ \A n \in 2..N : FirstIs(p, N, n, f[n]) /\ LastIs(p, N, n, l[n])
  /\ \A m \in 3..N : NextIs(p, N, m, x[m]) /\ PrevIs(p, N, m, b[m])
Linked(h, N) ==
  /\ h = [parent |-> h.parent, first |-> h.first, last |-> h.last, prev |-> h.prev, next |-> h.next]
  /\ Links(h.parent, h.first, h.last, h.prev, h.next, N)

\* m hangs below n.
Under(p, n, m) == n < m /\ \A k \in 3..m : n < k => p[k] >= n

LEMMA AsSequence ==
  ASSUME NEW N \in Nat, NEW S, NEW f \in [1..N -> S]
  PROVE  f \in Seq(S) /\ Len(f) = N /\ DOMAIN f = 1..N
<1>1. f \in Seq(S)
  BY SeqDef
<1>2. Len(f) \in Nat /\ 1..Len(f) = 1..N
  BY <1>1, LenProperties
<1>3. Len(f) = N
  <2> DEFINE n == Len(f)
  <2> HIDE DEF n
  <2> SUFFICES n = N
    BY DEF n
  <2>1. n \in Nat /\ 1..n = 1..N
    BY <1>2 DEF n
  <2>2. ASSUME n < N PROVE FALSE
    <3>1. N \in 1..N
      BY <2>1, <2>2
    <3> QED BY <2>1, <2>2, <3>1
  <2>3. ASSUME N < n PROVE FALSE
    <3>1. n \in 1..n
      BY <2>1, <2>3
    <3> QED BY <2>1, <2>3, <3>1
  <2> QED BY <2>1, <2>2, <2>3
<1> QED BY <1>1, <1>3

Longer(N, f, x, S) ==
  /\ Append(f, x) \in [1..N + 1 -> S] /\ Append(f, x)[N + 1] = x
  /\ \A i \in 1..N : Append(f, x)[i] = f[i]
LEMMA Extended ==
  ASSUME NEW N \in Nat, NEW S, NEW f \in [1..N -> S], NEW x \in S
  PROVE  Longer(N, f, x, S)
<1> DEFINE g == Append(f, x)
<1>1. f \in Seq(S) /\ Len(f) = N
  BY AsSequence
<1>2. g \in Seq(S) /\ Len(g) = N + 1 /\ g[N + 1] = x /\ \A i \in 1..N : g[i] = f[i]
  BY <1>1, AppendProperties
<1> HIDE DEF g
<1>3. g \in [1..N + 1 -> S]
  <2>1. g = [i \in 1..Len(g) |-> g[i]] /\ \A i \in 1..Len(g) : g[i] \in S
    BY <1>2, LenProperties, ElementOfSeq
  <2> QED BY <1>2, <2>1
<1> QED BY <1>2, <1>3 DEF g, Longer

-----------------------------------------------------------------------------
\* The nodes from the root to each node.
Up(h) ==
  CHOOSE up : up = [m \in 0..Len(h.parent) |->
                      IF m = Tags!Null THEN <<>> ELSE Append(up[h.parent[m]], m)]

Rises(u, p, N) ==
  /\ u[0] = <<>> /\ \A m \in 0..N : u[m] \in Seq(1..N)
  /\ \A m \in 1..N : p[m] \in 0..N /\ p[m] < m /\ u[m] = Append(u[p[m]], m)

LEMMA UpIs ==
  ASSUME NEW N, NEW h, Nested(h.parent, N)
  PROVE  /\ Rises(Up(h), h.parent, N)
         /\ \A n : Tags!Ancestors(h, n) = Up(h)[h.parent[n]]
<1> DEFINE p == h.parent
           stop == {0}
           val == [m \in 0..N |-> <<>>]
           step == [m \in 0..N |-> [x \in Seq(1..N) |-> Append(x, m)]]
           rank == [m \in 0..N |-> m]
           Ups(f) == f = [m \in 0..Len(h.parent) |->
                            IF m = Tags!Null THEN <<>> ELSE Append(f[h.parent[m]], m)]
<1>1. N \in Nat /\ p \in [1..N -> Nat] /\ Len(p) = N /\ \A m \in 1..N : p[m] \in 0..N /\ p[m] < m
  <2>1. N \in Nat /\ p \in [1..N -> Nat]
    BY DEF Nested
  <2>2. ASSUME NEW m \in 1..N PROVE p[m] \in 0..N /\ p[m] < m
    <3>1. m = 1 \/ m = 2 \/ m \in 3..N
      BY <2>1
    <3> QED BY <2>1, <3>1 DEF Nested
  <2> QED BY <2>1, <2>2, AsSequence
<1> HIDE DEF p
<1>2. <<>> \in Seq(1..N) /\ \A x \in Seq(1..N), m \in 1..N : Append(x, m) \in Seq(1..N)
  BY EmptySeq, AppendProperties
<1>3. Descends(0..N, Seq(1..N), N, rank, stop, val, step, p)
  <2>1. rank \in [0..N -> 0..N] /\ \A d \in 0..N : d \in stop => val[d] \in Seq(1..N)
    BY <1>2
  <2>2. ASSUME NEW d \in 0..N, d \notin stop
        PROVE  step[d] \in [Seq(1..N) -> Seq(1..N)] /\ p[d] \in 0..N /\ rank[p[d]] < rank[d]
    <3>1. d \in 1..N
      BY <1>1, <2>2
    <3>2. step[d] \in [Seq(1..N) -> Seq(1..N)]
      BY <1>2, <3>1
    <3>3. p[d] \in 0..N /\ rank[p[d]] < rank[d]
      BY <1>1, <3>1
    <3> QED BY <3>2, <3>3
  <2> QED BY <2>1, <2>2, Zenon DEF Descends
<1>4. PICK f \in [0..N -> Seq(1..N)] : Descent(f, 0..N, stop, val, step, p)
  <2> HIDE DEF rank, stop, val, step
  <2> QED BY <1>1, <1>2, <1>3, DescentExists
<1>5. ASSUME NEW m \in 0..N PROVE f[m] = IF m = 0 THEN <<>> ELSE Append(f[p[m]], m)
  <2>1. f[m] = IF m \in stop THEN val[m] ELSE step[m][f[p[m]]]
    BY <1>4, Zenon DEF Descent
  <2>2. m # 0 => f[p[m]] \in Seq(1..N)
    BY <1>1
  <2> QED BY <2>1, <2>2
<1>6. Ups(f)
  <2>1. f = [m \in 0..N |-> f[m]]
    BY <1>4
  <2>2. f = [m \in 0..N |-> IF m = 0 THEN <<>> ELSE Append(f[p[m]], m)]
    BY <1>5, <2>1, Zenon
  <2>3. Len(h.parent) = N /\ Tags!Null = 0
    BY <1>1 DEF p, Tags!Null
  <2> QED BY <2>2, <2>3, Zenon DEF p
<1>7. Ups(Up(h))
  BY <1>6, Zenon DEF Up
<1>8. Up(h)[0] = <<>> /\ \A m \in 1..N : Up(h)[m] = Append(Up(h)[p[m]], m)
  <2>1. Up(h) = [m \in 0..N |-> IF m = 0 THEN <<>> ELSE Append(Up(h)[p[m]], m)]
    <3>1. Len(h.parent) = N /\ Tags!Null = 0
      BY <1>1 DEF p, Tags!Null
    <3> QED BY <1>7, <3>1, Zenon DEF p
  <2> DEFINE u == Up(h)
  <2>2. u = [m \in 0..N |-> IF m = 0 THEN <<>> ELSE Append(u[p[m]], m)]
    BY <2>1, Zenon
  <2> HIDE DEF u
  <2>3. u[0] = <<>> /\ \A m \in 1..N : u[m] = Append(u[p[m]], m)
    <3>1. \A m \in 1..N : m \in 0..N /\ m # 0
      BY <1>1
    <3>2. 0 \in 0..N
      BY <1>1
    <3> QED BY <2>2, <3>1, <3>2
  <2> QED BY <2>3 DEF u
<1>9. \A m \in 0..N : Up(h)[m] \in Seq(1..N)
  <2> DEFINE T == {m \in 0..N : \A k \in 0..m : Up(h)[k] \in Seq(1..N)}
  <2>1. 0 \in T
    <3>1. Up(h)[0] \in Seq(1..N) /\ 0 \in 0..N /\ \A k \in 0..0 : k = 0
      BY <1>1, <1>2, <1>8
    <3> QED BY <3>1
  <2>2. ASSUME NEW m \in 1..N, m - 1 \in T PROVE m \in T
    <3>1. p[m] \in 0..m - 1
      BY <1>1
    <3>2. Up(h)[p[m]] \in Seq(1..N)
      BY <2>2, <3>1
    <3>3. Up(h)[m] \in Seq(1..N)
      BY <1>2, <1>8, <3>2
    <3>4. \A k \in 0..m : k = m \/ k \in 0..m - 1
      OBVIOUS
    <3> QED BY <2>2, <3>3, <3>4
  <2>3. \A m \in 0..N : m \in T
    <3> HIDE DEF T
    <3> QED BY <1>1, <2>1, <2>2, Induction
  <2> QED BY <2>3
<1>10. \A n : Tags!Ancestors(h, n) = Up(h)[h.parent[n]]
  BY Zenon DEF Tags!Ancestors, Up
<1> QED BY <1>1, <1>8, <1>9, <1>10 DEF p, Rises

-----------------------------------------------------------------------------
\* A node goes below one that everything behind it is below: the pointers
\* q, g, k, c, y that p, f, l, b, x become.
Appends(p, f, l, b, x, N, n, q, g, k, c, y) ==
  /\ n \in 2..N /\ \A m \in n + 1..N : p[m] >= n
  /\ q \in [1..N + 1 -> Nat] /\ q[N + 1] = n /\ \A m \in 1..N : q[m] = p[m]
  /\ g \in [1..N + 1 -> Nat] /\ g[N + 1] = 0
  /\ \A m \in 1..N : g[m] = IF m = n /\ l[n] = 0 THEN N + 1 ELSE f[m]
  /\ k \in [1..N + 1 -> Nat] /\ k[N + 1] = 0
  /\ \A m \in 1..N : k[m] = IF m = n THEN N + 1 ELSE l[m]
  /\ c \in [1..N + 1 -> Nat] /\ c[N + 1] = l[n] /\ \A m \in 1..N : c[m] = b[m]
  /\ y \in [1..N + 1 -> Nat] /\ y[N + 1] = 0
  /\ \A m \in 1..N : y[m] = IF l[n] # 0 /\ m = l[n] THEN N + 1 ELSE x[m]

LEMMA AppendLinks ==
  ASSUME NEW N, NEW p, NEW f, NEW l, NEW b, NEW x, Links(p, f, l, b, x, N),
         NEW n, NEW q, NEW g, NEW k, NEW c, NEW y, Appends(p, f, l, b, x, N, n, q, g, k, c, y)
  PROVE  Links(q, g, k, c, y, N + 1)
<1>1. N \in Nat /\ N >= 2 /\ n \in 2..N /\ n \in 1..N /\ 1 \in 1..N /\ 2 \in 1..N
  BY DEF Links, Nested, Appends
<1>2. /\ p \in [1..N -> Nat] /\ q \in [1..N + 1 -> Nat] /\ q[N + 1] = n
      /\ \A m \in 1..N : q[m] = p[m]
  BY DEF Links, Nested, Appends
<1>3. /\ \A m \in 3..N : p[m] >= 2 /\ p[m] < m
      /\ \A m, d \in 3..N : p[m] < d /\ d < m => p[d] >= p[m]
  BY DEF Links, Nested
<1>4. \A m \in n + 1..N : p[m] >= n
  BY DEF Appends
<1>5. \A m \in 3..N + 1 : m = N + 1 \/ m \in 3..N
  BY <1>1
<1>6. \A m \in 3..N : m \in 3..N + 1 /\ m \in 1..N /\ q[m] = p[m]
  BY <1>1, <1>2
<1>7. /\ l[n] \in Nat /\ (l[n] = 0 => \A m \in 3..N : p[m] # n)
      /\ l[n] # 0 => l[n] \in 3..N /\ p[l[n]] = n /\ \A m \in 3..N : p[m] = n => m <= l[n]
  <2>1. LastIs(p, N, n, l[n])
    BY <1>1 DEF Links
  <2> QED BY <1>1, <2>1 DEF LastIs
<1>8. Nested(q, N + 1)
  <2>1. ASSUME NEW m \in 3..N + 1 PROVE q[m] >= 2 /\ q[m] < m
    <3>1. CASE m = N + 1
      BY <1>1, <1>2, <3>1
    <3>2. CASE m \in 3..N
      BY <1>3, <1>6, <3>2
    <3> QED BY <1>5, <3>1, <3>2
  <2>2. ASSUME NEW m \in 3..N + 1, NEW d \in 3..N + 1, q[m] < d, d < m PROVE q[d] >= q[m]
    <3>1. d \in 3..N
      BY <1>1, <2>2
    <3>2. CASE m = N + 1
      BY <1>1, <1>2, <1>4, <1>6, <2>2, <3>1, <3>2
    <3>3. CASE m \in 3..N
      BY <1>3, <1>6, <2>2, <3>1, <3>3
    <3> QED BY <1>5, <3>2, <3>3
  <2>3. q[1] = 0 /\ q[2] = 0
    BY <1>1, <1>2 DEF Links, Nested
  <2>4. N + 1 \in Nat /\ N + 1 >= 2
    BY <1>1
  <2> QED BY <1>2, <2>1, <2>2, <2>3, <2>4 DEF Nested
<1>9. ASSUME NEW w \in 2..N + 1 PROVE FirstIs(q, N + 1, w, g[w]) /\ LastIs(q, N + 1, w, k[w])
  <2>1. CASE w = N + 1
    <3>1. \A m \in 3..N + 1 : q[m] # N + 1
      BY <1>1, <1>8 DEF Nested
    <3>2. g[w] = 0 /\ k[w] = 0
      BY <2>1 DEF Appends
    <3> QED BY <2>1, <3>1, <3>2 DEF FirstIs, LastIs
  <2>2. CASE w \in 2..N /\ w # n
    <3>1. FirstIs(p, N, w, f[w]) /\ LastIs(p, N, w, l[w]) /\ f[w] \in Nat /\ l[w] \in Nat
      BY <2>2 DEF Links
    <3>2. g[w] = f[w] /\ k[w] = l[w]
      BY <2>2 DEF Appends
    <3>3. FirstIs(q, N + 1, w, f[w])
      BY <1>1, <1>2, <1>5, <1>6, <2>2, <3>1 DEF FirstIs
    <3>4. LastIs(q, N + 1, w, l[w])
      BY <1>1, <1>2, <1>5, <1>6, <2>2, <3>1 DEF LastIs
    <3> QED BY <3>2, <3>3, <3>4
  <2>3. CASE w = n
    <3>1. FirstIs(p, N, n, f[n]) /\ f[n] \in Nat
      BY <1>1 DEF Links
    <3>2. g[n] = (IF l[n] = 0 THEN N + 1 ELSE f[n]) /\ k[n] = N + 1
      BY <1>1 DEF Appends
    <3>3. LastIs(q, N + 1, n, N + 1)
      BY <1>1, <1>2 DEF LastIs
    <3>4. CASE l[n] = 0
      <4>1. FirstIs(q, N + 1, n, N + 1)
        BY <1>1, <1>2, <1>5, <1>6, <1>7, <3>4 DEF FirstIs
      <4> QED BY <2>3, <3>2, <3>3, <3>4, <4>1
    <3>5. CASE l[n] # 0
      <4>1. FirstIs(q, N + 1, n, f[n])
        BY <1>1, <1>2, <1>5, <1>6, <1>7, <3>1, <3>5 DEF FirstIs
      <4> QED BY <2>3, <3>2, <3>3, <3>5, <4>1
    <3> QED BY <3>4, <3>5
  <2> QED BY <1>1, <2>1, <2>2, <2>3
<1>10. ASSUME NEW m \in 3..N + 1 PROVE NextIs(q, N + 1, m, y[m]) /\ PrevIs(q, N + 1, m, c[m])
  <2>1. CASE m = N + 1
    <3>1. NextIs(q, N + 1, m, 0)
      BY <1>1, <2>1 DEF NextIs
    <3>2. PrevIs(q, N + 1, m, l[n])
      BY <1>1, <1>2, <1>5, <1>6, <1>7, <2>1 DEF PrevIs
    <3>3. y[N + 1] = 0 /\ c[N + 1] = l[n]
      BY DEF Appends
    <3> QED BY <2>1, <3>1, <3>2, <3>3
  <2>2. CASE m \in 3..N
    <3>1. NextIs(p, N, m, x[m]) /\ PrevIs(p, N, m, b[m]) /\ x[m] \in Nat /\ b[m] \in Nat
      BY <1>6, <2>2 DEF Links
    <3>2. c[m] = b[m] /\ y[m] = IF l[n] # 0 /\ m = l[n] THEN N + 1 ELSE x[m]
      BY <1>6, <2>2 DEF Appends
    <3>3. PrevIs(q, N + 1, m, b[m])
      BY <1>1, <1>2, <1>5, <1>6, <2>2, <3>1 DEF PrevIs
    <3>4. CASE l[n] # 0 /\ m = l[n]
      <4>1. NextIs(q, N + 1, m, N + 1)
        BY <1>1, <1>2, <1>5, <1>6, <1>7, <2>2, <3>4 DEF NextIs
      <4> QED BY <3>2, <3>3, <3>4, <4>1
    <3>5. CASE ~(l[n] # 0 /\ m = l[n])
      <4>1. x[m] = 0 => p[m] # n
        <5>1. SUFFICES ASSUME x[m] = 0, p[m] = n PROVE FALSE
          OBVIOUS
        <5>2. l[n] # 0 /\ l[n] \in 3..N /\ p[l[n]] = n /\ m < l[n]
          BY <1>1, <1>7, <2>2, <3>5, <5>1
        <5> QED BY <1>1, <1>2, <2>2, <3>1, <5>1, <5>2 DEF NextIs
      <4>2. NextIs(q, N + 1, m, x[m])
        <5>1. CASE x[m] = 0
          BY <1>1, <1>2, <1>5, <1>6, <2>2, <3>1, <4>1, <5>1 DEF NextIs
        <5>2. CASE x[m] # 0
          BY <1>1, <1>2, <1>5, <1>6, <2>2, <3>1, <5>2 DEF NextIs
        <5> QED BY <5>1, <5>2
      <4> QED BY <3>2, <3>3, <3>5, <4>2
    <3> QED BY <3>4, <3>5
  <2> QED BY <1>5, <2>1, <2>2
<1>11. c[1] = 2 /\ y[1] = 0 /\ c[2] = 0 /\ y[2] = 1
  <2>1. l[n] # 1 /\ l[n] # 2
    BY <1>1, <1>7
  <2>2. \A m \in 1..N : c[m] = b[m] /\ (m # l[n] => y[m] = x[m])
    BY DEF Appends
  <2> QED BY <1>1, <2>1, <2>2 DEF Links
<1>12. /\ g \in [1..N + 1 -> Nat] /\ k \in [1..N + 1 -> Nat]
       /\ c \in [1..N + 1 -> Nat] /\ y \in [1..N + 1 -> Nat]
  BY DEF Appends
<1> QED BY <1>8, <1>9, <1>10, <1>11, <1>12 DEF Links

SetAt(S, f, a, v, g) == g \in [S -> Nat] /\ \A m \in S : g[m] = IF m = a THEN v ELSE f[m]
Altered(f, a, v, g) == g = [f EXCEPT ![a] = v]
LEMMA Assigned ==
  ASSUME NEW S, NEW f \in [S -> Nat], NEW a \in S, NEW v \in Nat, NEW g, Altered(f, a, v, g)
  PROVE  SetAt(S, f, a, v, g)
BY DEF SetAt, Altered

Follows(g, h, N, n) ==
  Linked(g, N + 1) /\ g.parent[N + 1] = n /\ \A m \in 1..N : g.parent[m] = h.parent[m]
LEMMA AppendLinked ==
  ASSUME NEW N, NEW h, Linked(h, N), NEW n \in 2..N, \A k \in n + 1..N : h.parent[k] >= n
  PROVE  Follows(Tags!append_child(h, n), h, N, n)
<1>1. PICK p, f, l, b, x : p = h.parent /\ f = h.first /\ l = h.last /\ b = h.prev /\ x = h.next
  OBVIOUS
<1>2. Links(p, f, l, b, x, N)
  BY <1>1 DEF Linked
<1>3. /\ N \in Nat /\ N >= 2 /\ p \in [1..N -> Nat] /\ f \in [1..N -> Nat] /\ l \in [1..N -> Nat]
      /\ b \in [1..N -> Nat] /\ x \in [1..N -> Nat]
  BY <1>2 DEF Links, Nested
<1>4. Len(p) = N
  BY <1>3, AsSequence
<1> DEFINE f1 == IF l[n] = 0 THEN [f EXCEPT ![n] = N + 1] ELSE f
           k1 == [l EXCEPT ![n] = N + 1]
           x1 == IF l[n] = 0 THEN x ELSE [x EXCEPT ![l[n]] = N + 1]
           q == Append(p, n)
           g == Append(f1, 0)
           k == Append(k1, 0)
           c == Append(b, l[n])
           y == Append(x1, 0)
<1>5. Tags!append_child(h, n) = [parent |-> q, first |-> g, last |-> k, prev |-> c, next |-> y]
  BY <1>1, <1>4, Zenon DEF Tags!append_child, Tags!NewNode, Tags!Null
<1>6. l[n] \in Nat /\ (l[n] # 0 => l[n] \in 1..N)
  <2>1. LastIs(p, N, n, l[n])
    BY <1>2 DEF Links
  <2> QED BY <1>3, <2>1 DEF LastIs
<1> HIDE DEF q, g, k, c, y
<1>0. N + 1 \in Nat /\ n \in 1..N
  BY <1>3
<1>7. f1 \in [1..N -> Nat] /\ \A m \in 1..N : f1[m] = IF m = n /\ l[n] = 0 THEN N + 1 ELSE f[m]
  <2>1. CASE l[n] = 0
    <3>1. f1 = [f EXCEPT ![n] = N + 1]
      BY <2>1, Zenon
    <3>2. Altered(f, n, N + 1, f1)
      BY <3>1, Zenon DEF Altered
    <3> HIDE DEF f1, k1, x1
    <3>3. SetAt(1..N, f, n, N + 1, f1)
      BY <1>3, <1>0, <3>2, Assigned, Zenon
    <3> QED BY <2>1, <3>3 DEF SetAt
  <2>2. CASE l[n] # 0
    <3>1. f1 = f
      BY <2>2, Zenon
    <3> HIDE DEF f1, k1, x1
    <3> QED BY <1>3, <2>2, <3>1
  <2> QED BY <2>1, <2>2
<1>8. k1 \in [1..N -> Nat] /\ \A m \in 1..N : k1[m] = IF m = n THEN N + 1 ELSE l[m]
  <2>1. Altered(l, n, N + 1, k1)
    BY Zenon DEF Altered
  <2> HIDE DEF k1
  <2>2. SetAt(1..N, l, n, N + 1, k1)
    BY <1>3, <1>0, <2>1, Assigned, Zenon
  <2> QED BY <2>2 DEF SetAt
<1>9. x1 \in [1..N -> Nat] /\ \A m \in 1..N : x1[m] = IF l[n] # 0 /\ m = l[n] THEN N + 1 ELSE x[m]
  <2>1. CASE l[n] = 0
    <3>1. x1 = x
      BY <2>1, Zenon
    <3> HIDE DEF f1, k1, x1
    <3> QED BY <1>3, <2>1, <3>1
  <2>2. CASE l[n] # 0
    <3>1. x1 = [x EXCEPT ![l[n]] = N + 1]
      BY <2>2, Zenon
    <3>2. Altered(x, l[n], N + 1, x1)
      BY <3>1, Zenon DEF Altered
    <3> HIDE DEF f1, k1, x1
    <3>3. SetAt(1..N, x, l[n], N + 1, x1)
      BY <1>3, <1>0, <1>6, <2>2, <3>2, Assigned, Zenon
    <3> QED BY <2>2, <3>3 DEF SetAt
  <2> QED BY <2>1, <2>2
<1> HIDE DEF f1, k1, x1, q, g, k, c, y
<1>10. n \in Nat /\ 0 \in Nat
  BY <1>3
<1>11. q \in [1..N + 1 -> Nat] /\ q[N + 1] = n /\ \A m \in 1..N : q[m] = p[m]
  <2>1. Longer(N, p, n, Nat)
    BY <1>3, <1>10, Extended, Zenon
  <2> QED BY <2>1 DEF Longer, q
<1>12. g \in [1..N + 1 -> Nat] /\ g[N + 1] = 0 /\ \A m \in 1..N : g[m] = f1[m]
  <2>1. Longer(N, f1, 0, Nat)
    BY <1>3, <1>7, <1>10, Extended, Zenon
  <2> QED BY <2>1 DEF Longer, g
<1>13. k \in [1..N + 1 -> Nat] /\ k[N + 1] = 0 /\ \A m \in 1..N : k[m] = k1[m]
  <2>1. Longer(N, k1, 0, Nat)
    BY <1>3, <1>8, <1>10, Extended, Zenon
  <2> QED BY <2>1 DEF Longer, k
<1>14. c \in [1..N + 1 -> Nat] /\ c[N + 1] = l[n] /\ \A m \in 1..N : c[m] = b[m]
  <2>1. Longer(N, b, l[n], Nat)
    BY <1>3, <1>6, Extended, Zenon
  <2> QED BY <2>1 DEF Longer, c
<1>15. y \in [1..N + 1 -> Nat] /\ y[N + 1] = 0 /\ \A m \in 1..N : y[m] = x1[m]
  <2>1. Longer(N, x1, 0, Nat)
    BY <1>3, <1>9, <1>10, Extended, Zenon
  <2> QED BY <2>1 DEF Longer, y
<1>16. \A i \in n + 1..N : p[i] >= n
  BY <1>1
<1>17. Appends(p, f, l, b, x, N, n, q, g, k, c, y)
  <2>1. \A m \in 1..N : g[m] = IF m = n /\ l[n] = 0 THEN N + 1 ELSE f[m]
    BY <1>7, <1>12
  <2>2. \A m \in 1..N : k[m] = IF m = n THEN N + 1 ELSE l[m]
    BY <1>8, <1>13
  <2>3. \A m \in 1..N : y[m] = IF l[n] # 0 /\ m = l[n] THEN N + 1 ELSE x[m]
    BY <1>9, <1>15
  <2> QED BY <1>11, <1>12, <1>13, <1>14, <1>15, <1>16, <2>1, <2>2, <2>3, Zenon DEF Appends
<1>18. Linked([parent |-> q, first |-> g, last |-> k, prev |-> c, next |-> y], N + 1)
  BY <1>2, <1>17, AppendLinks DEF Linked
<1> QED BY <1>1, <1>5, <1>11, <1>18 DEF Follows

-----------------------------------------------------------------------------
\* The children of n become its siblings: the pointers q, g, k, c, y that
\* p, f, l, b, x become.
Flattens(p, f, l, b, x, N, n, q, g, k, c, y) ==
  /\ n \in 3..N /\ f[n] # 0
  /\ q \in [1..N -> Nat] /\ \A m \in 1..N : q[m] = IF p[m] = n THEN p[n] ELSE p[m]
  /\ g \in [1..N -> Nat] /\ \A m \in 1..N : g[m] = IF m = n THEN 0 ELSE f[m]
  /\ k \in [1..N -> Nat]
  /\ \A m \in 1..N : k[m] = IF m = n THEN 0 ELSE IF m = p[n] /\ x[n] = 0 THEN l[n] ELSE l[m]
  /\ c \in [1..N -> Nat]
  /\ \A m \in 1..N : c[m] = IF m = f[n] THEN n ELSE IF m = x[n] THEN l[n] ELSE b[m]
  /\ y \in [1..N -> Nat]
  /\ \A m \in 1..N : y[m] = IF m = n THEN f[n] ELSE IF m = l[n] THEN x[n] ELSE x[m]

LEMMA FlattenLinks ==
  ASSUME NEW N, NEW p, NEW f, NEW l, NEW b, NEW x, Links(p, f, l, b, x, N),
         NEW n, NEW q, NEW g, NEW k, NEW c, NEW y, Flattens(p, f, l, b, x, N, n, q, g, k, c, y)
  PROVE  Links(q, g, k, c, y, N)
<1>1. N \in Nat /\ N >= 2 /\ n \in 3..N /\ n \in 2..N /\ n \in 1..N
  BY DEF Links, Nested, Flattens
<1>2. PICK F, L, A, u : F = f[n] /\ L = l[n] /\ A = x[n] /\ u = p[n]
  OBVIOUS
<1>3. p \in [1..N -> Nat] /\ q \in [1..N -> Nat] /\ p[1] = 0 /\ p[2] = 0
  BY DEF Links, Nested, Flattens
<1>4. /\ \A m \in 3..N : p[m] >= 2 /\ p[m] < m
      /\ \A m, d \in 3..N : p[m] < d /\ d < m => p[d] >= p[m]
  BY DEF Links, Nested
<1>5. u \in 2..N /\ u < n /\ u \in Nat
  BY <1>1, <1>2, <1>3, <1>4
<1>6. F \in 3..N /\ p[F] = n /\ \A m \in 3..N : p[m] = n => F <= m
  <2>1. FirstIs(p, N, n, F) /\ F # 0
    BY <1>1, <1>2 DEF Links, Flattens
  <2> QED BY <2>1 DEF FirstIs
<1>7. L \in 3..N /\ p[L] = n /\ \A m \in 3..N : p[m] = n => m <= L
  <2>1. LastIs(p, N, n, L)
    BY <1>1, <1>2 DEF Links
  <2> QED BY <1>6, <2>1 DEF LastIs
<1>8. \/ A = 0 /\ \A m \in 3..N : m > n => p[m] # u
      \/ A \in 3..N /\ A > n /\ p[A] = u /\ \A m \in 3..N : n < m /\ m < A => p[m] # u
  <2>1. NextIs(p, N, n, A)
    BY <1>1, <1>2 DEF Links
  <2> QED BY <1>1, <1>2, <1>5, <2>1 DEF NextIs
<1>9. \A m \in 1..N : q[m] = IF p[m] = n THEN u ELSE p[m]
  BY <1>2 DEF Flattens
<1>10. \A m \in 3..N : m \in 1..N /\ (p[m] = n => n < m)
  BY <1>1, <1>4
<1>11. \A m \in 3..N : /\ q[m] # n /\ (q[m] = u <=> p[m] = n \/ p[m] = u)
                       /\ \A w : w # n /\ w # u => (q[m] = w <=> p[m] = w)
  BY <1>5, <1>9, <1>10
<1>12. ASSUME NEW m \in 3..N, NEW d \in 3..N, p[d] = n, n < m, m < d PROVE p[m] # u /\ p[m] >= n
  <2>1. p[m] >= n
    BY <1>4, <1>12
  <2> QED BY <1>1, <1>3, <1>5, <1>10, <2>1
<1>13. A # 0 => \A m \in 3..N : p[m] = n => m < A
  <2>1. SUFFICES ASSUME A # 0, NEW m \in 3..N, p[m] = n, ~(m < A) PROVE FALSE
    OBVIOUS
  <2>2. A \in 3..N /\ A > n /\ p[A] = u /\ A # m
    BY <1>5, <1>8, <2>1
  <2>3. A < m
    BY <2>1, <2>2
  <2> QED BY <1>12, <2>1, <2>2, <2>3
<1>14. F <= L /\ n < F /\ n < L /\ F \in Nat /\ L \in Nat /\ (A # 0 => L < A /\ F < A /\ A \in 3..N)
  BY <1>6, <1>7, <1>8, <1>10, <1>13
<1>15. Nested(q, N)
  <2>1. ASSUME NEW m \in 3..N PROVE q[m] >= 2 /\ q[m] < m
    <3>1. CASE p[m] = n
      BY <1>1, <1>5, <1>9, <1>10, <3>1
    <3>2. CASE p[m] # n
      BY <1>4, <1>9, <1>10, <3>2
    <3> QED BY <3>1, <3>2
  <2>2. ASSUME NEW m \in 3..N, NEW d \in 3..N, q[m] < d, d < m PROVE q[d] >= q[m]
    <3>1. m \in Nat /\ d \in Nat /\ n \in Nat /\ u \in Nat /\ p[m] \in Nat /\ p[d] \in Nat /\ p[n] \in Nat
      BY <1>1, <1>3, <1>5, <1>10
    <3>2. CASE p[m] # n
      <4>1. q[m] = p[m] /\ p[d] >= p[m]
        BY <1>4, <1>9, <1>10, <2>2, <3>2
      <4>2. CASE p[d] # n
        BY <1>9, <1>10, <4>1, <4>2
      <4>3. CASE p[d] = n
        <5>1. q[d] = u /\ n < d /\ n < m /\ p[m] < n
          BY <1>9, <1>10, <2>2, <3>1, <3>2, <4>1, <4>3
        <5>2. p[n] >= p[m]
          BY <1>1, <1>4, <5>1
        <5> QED BY <1>2, <4>1, <5>1, <5>2
      <4> QED BY <4>2, <4>3
    <3>3. CASE p[m] = n
      <4>1. q[m] = u
        BY <1>9, <1>10, <3>3
      <4>2. CASE d = n
        BY <1>2, <1>5, <1>9, <1>10, <3>1, <4>1, <4>2
      <4>3. CASE d < n
        <5>1. p[d] >= u /\ p[d] # n
          BY <1>1, <1>2, <1>4, <2>2, <3>1, <4>1, <4>3
        <5> QED BY <1>9, <1>10, <4>1, <5>1
      <4>4. CASE d > n
        <5>1. p[d] >= n
          BY <1>1, <1>4, <2>2, <3>3, <4>4
        <5> QED BY <1>5, <1>9, <1>10, <3>1, <4>1, <5>1
      <4> QED BY <3>1, <4>2, <4>3, <4>4
    <3> QED BY <3>2, <3>3
  <2>3. q[1] = 0 /\ q[2] = 0
    BY <1>1, <1>3, <1>9
  <2> QED BY <1>1, <1>3, <2>1, <2>2, <2>3 DEF Nested
<1>16. ASSUME NEW w \in 2..N PROVE FirstIs(q, N, w, g[w]) /\ LastIs(q, N, w, k[w])
  <2>1. FirstIs(p, N, w, f[w]) /\ LastIs(p, N, w, l[w]) /\ f[w] \in Nat /\ l[w] \in Nat
    BY DEF Links
  <2>0. w \in 1..N
    BY <1>1
  <2>2. g[w] = IF w = n THEN 0 ELSE f[w]
    BY <2>0 DEF Flattens
  <2>3. k[w] = IF w = n THEN 0 ELSE IF w = u /\ A = 0 THEN L ELSE l[w]
    BY <1>2, <2>0 DEF Flattens
  <2>4. CASE w = n
    BY <1>11, <2>2, <2>3, <2>4 DEF FirstIs, LastIs
  <2>5. CASE w # n /\ w # u
    <3>1. FirstIs(q, N, w, f[w])
      BY <1>11, <2>1, <2>5 DEF FirstIs
    <3>2. LastIs(q, N, w, l[w])
      BY <1>11, <2>1, <2>5 DEF LastIs
    <3> QED BY <2>2, <2>3, <2>5, <3>1, <3>2
  <2>6. CASE w = u
    <3>1. f[u] \in 3..N /\ p[f[u]] = u /\ \A m \in 3..N : p[m] = u => f[u] <= m
      BY <1>1, <1>2, <2>1, <2>6 DEF FirstIs
    <3>2. FirstIs(q, N, u, f[u])
      <4>1. ASSUME NEW m \in 3..N, q[m] = u PROVE f[u] <= m
        <5>1. f[u] <= n
          BY <1>1, <1>2, <3>1
        <5> QED BY <1>1, <1>10, <1>11, <3>1, <4>1, <5>1
      <4> QED BY <1>11, <3>1, <4>1 DEF FirstIs
    <3>3. l[u] \in 3..N /\ p[l[u]] = u /\ \A m \in 3..N : p[m] = u => m <= l[u]
      BY <1>1, <1>2, <2>1, <2>6 DEF LastIs
    <3>4. CASE A = 0
      <4>1. ASSUME NEW m \in 3..N, q[m] = u PROVE m <= L
        BY <1>1, <1>7, <1>8, <1>11, <1>14, <3>4, <4>1
      <4>2. LastIs(q, N, u, L)
        BY <1>7, <1>11, <4>1 DEF LastIs
      <4> QED BY <1>5, <2>2, <2>3, <2>6, <3>2, <3>4, <4>2
    <3>5. CASE A # 0
      <4>1. ASSUME NEW m \in 3..N, q[m] = u PROVE m <= l[u]
        BY <1>8, <1>11, <1>13, <3>3, <3>5, <4>1
      <4>2. LastIs(q, N, u, l[u])
        BY <1>11, <3>3, <4>1 DEF LastIs
      <4> QED BY <1>5, <2>2, <2>3, <2>6, <3>2, <3>5, <4>2
    <3> QED BY <3>4, <3>5
  <2> QED BY <2>4, <2>5, <2>6
<1>17. ASSUME NEW m \in 3..N PROVE NextIs(q, N, m, y[m])
  <2>1. NextIs(p, N, m, x[m]) /\ x[m] \in Nat
    BY <1>10 DEF Links
  <2>2. y[m] = IF m = n THEN F ELSE IF m = L THEN A ELSE x[m]
    BY <1>2, <1>10 DEF Flattens
  <2>3. CASE m = n
    <3>1. ASSUME NEW d \in 3..N, n < d, d < F PROVE q[d] # u
      BY <1>6, <1>11, <1>12, <3>1
    <3>2. q[n] = u /\ q[F] = u
      BY <1>1, <1>2, <1>6, <1>11
    <3> QED BY <1>6, <1>14, <2>2, <2>3, <3>1, <3>2 DEF NextIs
  <2>4. CASE m = L
    <3>1. m # n /\ q[m] = u
      BY <1>7, <1>11, <1>14, <2>4
    <3>2. ASSUME NEW d \in 3..N, d > L, A # 0 => d < A PROVE q[d] # u
      BY <1>1, <1>7, <1>8, <1>11, <1>14, <3>2
    <3>3. A # 0 => A \in 3..N /\ A > L /\ q[A] = u
      BY <1>8, <1>11, <1>14
    <3> QED BY <2>2, <2>4, <3>1, <3>2, <3>3 DEF NextIs
  <2>5. CASE m # n /\ m # L /\ p[m] = n
    <3>1. x[m] # 0 /\ x[m] \in 3..N /\ x[m] > m /\ p[x[m]] = n
          /\ \A d \in 3..N : m < d /\ d < x[m] => p[d] # n
      <4>1. m < L
        BY <1>7, <2>5
      <4> QED BY <1>7, <2>1, <2>5, <4>1 DEF NextIs
    <3>2. ASSUME NEW d \in 3..N, m < d, d < x[m] PROVE q[d] # u
      BY <1>1, <1>10, <1>11, <1>12, <2>5, <3>1, <3>2
    <3>3. q[m] = u /\ q[x[m]] = u /\ y[m] = x[m]
      BY <1>11, <2>2, <2>5, <3>1
    <3> QED BY <3>1, <3>2, <3>3 DEF NextIs
  <2>6. CASE m # n /\ m # L /\ p[m] = u
    <3>1. q[m] = u /\ y[m] = x[m]
      BY <1>11, <2>2, <2>6
    <3>2. CASE x[m] = 0
      <4>1. \A d \in 3..N : d > m => p[d] # u
        BY <2>1, <2>6, <3>2 DEF NextIs
      <4>2. m > n
        BY <1>1, <1>2, <2>6, <4>1
      <4>3. ASSUME NEW d \in 3..N, d > m PROVE q[d] # u
        BY <1>11, <1>12, <2>6, <4>1, <4>2, <4>3
      <4> QED BY <3>1, <3>2, <4>3 DEF NextIs
    <3>3. CASE x[m] # 0
      <4>1. x[m] \in 3..N /\ x[m] > m /\ p[x[m]] = u /\ \A d \in 3..N : m < d /\ d < x[m] => p[d] # u
        BY <2>1, <2>6, <3>3 DEF NextIs
      <4>2. ASSUME NEW d \in 3..N, m < d, d < x[m], p[d] = n PROVE FALSE
        <5>1. n < d
          BY <1>10, <4>2
        <5>2. ~(n < m)
          BY <1>12, <2>6, <4>2
        <5>3. m < n /\ n < x[m]
          BY <1>1, <2>6, <4>1, <4>2, <5>1, <5>2
        <5> QED BY <1>1, <1>2, <4>1, <5>3
      <4>3. ASSUME NEW d \in 3..N, m < d, d < x[m] PROVE q[d] # u
        BY <1>11, <4>1, <4>2, <4>3
      <4>4. q[x[m]] = u
        BY <1>11, <4>1
      <4> QED BY <3>1, <4>1, <4>3, <4>4 DEF NextIs
    <3> QED BY <3>2, <3>3
  <2>7. CASE m # n /\ m # L /\ p[m] # n /\ p[m] # u
    <3>1. q[m] = p[m] /\ y[m] = x[m] /\ \A d \in 3..N : q[d] = p[m] <=> p[d] = p[m]
      BY <1>9, <1>10, <1>11, <2>2, <2>7
    <3> QED BY <2>1, <3>1 DEF NextIs
  <2> QED BY <2>3, <2>4, <2>5, <2>6, <2>7
<1>18. ASSUME NEW m \in 3..N PROVE PrevIs(q, N, m, c[m])
  <2>1. PrevIs(p, N, m, b[m]) /\ b[m] \in Nat
    BY <1>10 DEF Links
  <2>2. c[m] = IF m = F THEN n ELSE IF m = A THEN L ELSE b[m]
    BY <1>2, <1>10 DEF Flattens
  <2>3. CASE m = F
    <3>1. ASSUME NEW d \in 3..N, n < d, d < F PROVE q[d] # u
      BY <1>6, <1>11, <1>12, <3>1
    <3>2. q[n] = u /\ q[F] = u
      BY <1>1, <1>2, <1>6, <1>11
    <3> QED BY <1>1, <1>14, <2>2, <2>3, <3>1, <3>2 DEF PrevIs
  <2>4. CASE m = A
    <3>1. A # 0 /\ m # F
      BY <1>6, <1>8, <1>14, <2>4
    <3>2. ASSUME NEW d \in 3..N, L < d, d < A PROVE q[d] # u
      BY <1>1, <1>7, <1>8, <1>11, <1>14, <3>1, <3>2
    <3>3. q[A] = u /\ q[L] = u
      BY <1>7, <1>8, <1>11, <3>1
    <3> QED BY <1>7, <1>14, <2>2, <2>4, <3>1, <3>2, <3>3 DEF PrevIs
  <2>5. CASE m # F /\ m # A /\ p[m] = n
    <3>1. b[m] # 0 /\ b[m] \in 3..N /\ b[m] < m /\ p[b[m]] = n
          /\ \A d \in 3..N : b[m] < d /\ d < m => p[d] # n
      <4>1. F < m
        BY <1>6, <2>5
      <4> QED BY <1>6, <2>1, <2>5, <4>1 DEF PrevIs
    <3>2. ASSUME NEW d \in 3..N, b[m] < d, d < m PROVE q[d] # u
      BY <1>1, <1>10, <1>11, <1>12, <2>5, <3>1, <3>2
    <3>3. q[m] = u /\ q[b[m]] = u /\ c[m] = b[m]
      BY <1>11, <2>2, <2>5, <3>1
    <3> QED BY <3>1, <3>2, <3>3 DEF PrevIs
  <2>6. CASE m # F /\ m # A /\ p[m] = u
    <3>1. q[m] = u /\ c[m] = b[m]
      BY <1>11, <2>2, <2>6
    <3>2. CASE b[m] = 0
      <4>1. \A d \in 3..N : d < m => p[d] # u
        BY <2>1, <2>6, <3>2 DEF PrevIs
      <4>2. m <= n
        BY <1>1, <1>2, <2>6, <4>1
      <4>3. ASSUME NEW d \in 3..N, d < m PROVE q[d] # u
        BY <1>1, <1>10, <1>11, <4>1, <4>2, <4>3
      <4> QED BY <3>1, <3>2, <4>3 DEF PrevIs
    <3>3. CASE b[m] # 0
      <4>1. b[m] \in 3..N /\ b[m] < m /\ p[b[m]] = u /\ \A d \in 3..N : b[m] < d /\ d < m => p[d] # u
        BY <2>1, <2>6, <3>3 DEF PrevIs
      <4>2. ASSUME NEW d \in 3..N, b[m] < d, d < m, p[d] = n PROVE FALSE
        <5>1. n < d
          BY <1>10, <4>2
        <5>2. ~(n < b[m])
          BY <1>12, <4>1, <4>2
        <5>3. CASE n = b[m]
          BY <1>1, <1>8, <2>6, <4>1, <4>2, <5>1, <5>3
        <5>4. CASE b[m] < n
          BY <1>1, <1>2, <4>1, <4>2, <5>1, <5>4
        <5> QED BY <1>1, <4>1, <5>2, <5>3, <5>4
      <4>3. ASSUME NEW d \in 3..N, b[m] < d, d < m PROVE q[d] # u
        BY <1>11, <4>1, <4>2, <4>3
      <4>4. q[b[m]] = u
        BY <1>11, <4>1
      <4> QED BY <3>1, <4>1, <4>3, <4>4 DEF PrevIs
    <3> QED BY <3>2, <3>3
  <2>7. CASE m # F /\ m # A /\ p[m] # n /\ p[m] # u
    <3>1. q[m] = p[m] /\ c[m] = b[m] /\ \A d \in 3..N : q[d] = p[m] <=> p[d] = p[m]
      BY <1>9, <1>10, <1>11, <2>2, <2>7
    <3> QED BY <2>1, <3>1 DEF PrevIs
  <2> QED BY <2>3, <2>4, <2>5, <2>6, <2>7
<1>19. c[1] = 2 /\ y[1] = 0 /\ c[2] = 0 /\ y[2] = 1
  <2>1. 1 # n /\ 2 # n /\ F # 1 /\ F # 2 /\ L # 1 /\ L # 2 /\ A # 1 /\ A # 2 /\ 1 \in 1..N /\ 2 \in 1..N
    BY <1>1, <1>8, <1>14
  <2>2. \A m \in 1..N : /\ m # F /\ m # A => c[m] = b[m]
                        /\ m # n /\ m # L => y[m] = x[m]
    BY <1>2 DEF Flattens
  <2> QED BY <2>1, <2>2 DEF Links
<1>20. g \in [1..N -> Nat] /\ k \in [1..N -> Nat] /\ c \in [1..N -> Nat] /\ y \in [1..N -> Nat]
  BY DEF Flattens
<1> QED BY <1>15, <1>16, <1>17, <1>18, <1>19, <1>20 DEF Links

-----------------------------------------------------------------------------
\* A node and the siblings behind it, the last sibling at the end.
Siblings(p, N, m, s) ==
  /\ s \in Seq(1..N) /\ Len(s) >= 1
  /\ \A k \in 1..N : (\E i \in 1..Len(s) : s[i] = k) <=> k \in 3..N /\ k >= m /\ p[k] = p[m]
  /\ LastIs(p, N, p[m], s[Len(s)])

Chains(h) ==
  CHOOSE chain : chain = [m \in 0..Len(h.next) |->
                            IF m = Tags!Null THEN <<>> ELSE <<m>> \o chain[h.next[m]]]

LEMMA ChainsAre ==
  ASSUME NEW N, NEW h, Linked(h, N)
  PROVE  /\ Chains(h)[0] = <<>>
         /\ \A m \in 1..N : h.next[m] \in 0..N /\ Chains(h)[m] = <<m>> \o Chains(h)[h.next[m]]
         /\ \A m \in 0..N : Chains(h)[m] \in Seq(1..N)
         /\ \A n : Tags!Chain(h, n) = Chains(h)[n]
<1> DEFINE x == h.next
           stop == {0}
           val == [m \in 0..N |-> <<>>]
           step == [m \in 0..N |-> [s \in Seq(1..N) |-> <<m>> \o s]]
           rank == [m \in 0..N |-> IF m <= 2 THEN m ELSE N + 3 - m]
           Chain(f) == f = [m \in 0..Len(h.next) |->
                              IF m = Tags!Null THEN <<>> ELSE <<m>> \o f[h.next[m]]]
<1>1. /\ N \in Nat /\ N >= 2 /\ x \in [1..N -> Nat] /\ Len(x) = N
      /\ \A m \in 1..N : x[m] \in 0..N /\ (m = 1 => x[m] = 0) /\ (m = 2 => x[m] = 1)
                         /\ (m >= 3 => x[m] = 0 \/ x[m] > m)
  <2>1. N \in Nat /\ N >= 2 /\ x \in [1..N -> Nat]
    BY DEF Linked, Links, Nested
  <2>2. ASSUME NEW m \in 1..N
        PROVE  x[m] \in 0..N /\ (m = 1 => x[m] = 0) /\ (m = 2 => x[m] = 1)
               /\ (m >= 3 => x[m] = 0 \/ x[m] > m)
    <3>1. CASE m = 1 \/ m = 2
      BY <2>1, <3>1 DEF Linked, Links
    <3>2. CASE m >= 3
      <4>1. m \in 3..N
        BY <2>1, <3>2
      <4>2. NextIs(h.parent, N, m, x[m])
        BY <4>1 DEF Linked, Links
      <4> QED BY <2>1, <4>1, <4>2 DEF NextIs
    <3> QED BY <2>1, <3>1, <3>2
  <2> QED BY <2>1, <2>2, AsSequence
<1> HIDE DEF x
<1>2. <<>> \in Seq(1..N) /\ \A s \in Seq(1..N), m \in 1..N : <<m>> \o s \in Seq(1..N)
  <2>1. \A m \in 1..N : <<m>> \in Seq(1..N)
    OBVIOUS
  <2> QED BY <2>1, EmptySeq, ConcatProperties
<1>11. ASSUME NEW m \in 1..N PROVE x[m] \in 0..N /\ rank[x[m]] < rank[m]
  BY <1>1
<1>3. Descends(0..N, Seq(1..N), N, rank, stop, val, step, x)
  <2>1. rank \in [0..N -> 0..N] /\ \A d \in 0..N : d \in stop => val[d] \in Seq(1..N)
    BY <1>1, <1>2
  <2>2. ASSUME NEW d \in 0..N, d \notin stop
        PROVE  step[d] \in [Seq(1..N) -> Seq(1..N)] /\ x[d] \in 0..N /\ rank[x[d]] < rank[d]
    <3>1. d \in 1..N
      BY <1>1, <2>2
    <3>2. step[d] \in [Seq(1..N) -> Seq(1..N)]
      BY <1>2, <3>1
    <3>3. x[d] \in 0..N /\ rank[x[d]] < rank[d]
      BY <1>11, <3>1
    <3> QED BY <3>2, <3>3
  <2> QED BY <2>1, <2>2, Zenon DEF Descends
<1>4. PICK f \in [0..N -> Seq(1..N)] : Descent(f, 0..N, stop, val, step, x)
  <2> HIDE DEF rank, stop, val, step
  <2>1. N \in Nat
    BY <1>1
  <2>2. <<>> \in Seq(1..N)
    BY <1>2, Zenon
  <2> QED BY <1>3, <2>1, <2>2, DescentExists, Zenon
<1>5. ASSUME NEW m \in 0..N PROVE f[m] = IF m = 0 THEN <<>> ELSE <<m>> \o f[x[m]]
  <2>1. f[m] = IF m \in stop THEN val[m] ELSE step[m][f[x[m]]]
    BY <1>4, Zenon DEF Descent
  <2>2. m # 0 => f[x[m]] \in Seq(1..N)
    BY <1>1
  <2> QED BY <2>1, <2>2
<1>6. Len(h.next) = N /\ Tags!Null = 0
  BY <1>1 DEF x, Tags!Null
<1>7. Chain(Chains(h))
  <2>1. f = [m \in 0..N |-> f[m]]
    BY <1>4
  <2>2. f = [m \in 0..N |-> IF m = 0 THEN <<>> ELSE <<m>> \o f[x[m]]]
    BY <1>5, <2>1, Zenon
  <2>3. Chain(f)
    BY <1>6, <2>2, Zenon DEF x
  <2> QED BY <2>3, Zenon DEF Chains
<1>8. Chains(h)[0] = <<>> /\ \A m \in 1..N : Chains(h)[m] = <<m>> \o Chains(h)[x[m]]
  <2> DEFINE u == Chains(h)
  <2>1. u = [m \in 0..N |-> IF m = 0 THEN <<>> ELSE <<m>> \o u[x[m]]]
    BY <1>6, <1>7, Zenon DEF x
  <2> HIDE DEF u
  <2>2. u[0] = <<>> /\ \A m \in 1..N : u[m] = <<m>> \o u[x[m]]
    <3>1. \A m \in 1..N : m \in 0..N /\ m # 0
      BY <1>1
    <3>2. 0 \in 0..N
      BY <1>1
    <3> QED BY <2>1, <3>1, <3>2
  <2> QED BY <2>2 DEF u
<1>9. \A m \in 0..N : Chains(h)[m] \in Seq(1..N)
  <2> DEFINE T == {j \in 0..N : \A m \in 0..N : rank[m] <= j => Chains(h)[m] \in Seq(1..N)}
  <2>1. \A m \in 0..N : rank[m] \in 0..N /\ (rank[m] <= 0 => m = 0)
    BY <1>1
  <2>2. 0 \in T
    <3>1. Chains(h)[0] \in Seq(1..N) /\ 0 \in 0..N
      BY <1>1, <1>2, <1>8
    <3> HIDE DEF rank
    <3> QED BY <2>1, <3>1
  <2>3. ASSUME NEW j \in 1..N, j - 1 \in T PROVE j \in T
    <3>1. ASSUME NEW m \in 0..N, rank[m] <= j PROVE Chains(h)[m] \in Seq(1..N)
      <4>1. CASE m = 0
        <5>1. Chains(h)[0] \in Seq(1..N)
          BY <1>2, <1>8, Zenon
        <5> QED BY <4>1, <5>1, Zenon
      <4>2. CASE m \in 1..N
        <5>1. x[m] \in 0..N /\ rank[x[m]] < rank[m]
          BY <1>11, <4>2, Zenon
        <5>2. rank[x[m]] <= j - 1
          <6> HIDE DEF rank
          <6> QED BY <2>1, <3>1, <5>1
        <5>3. Chains(h)[x[m]] \in Seq(1..N)
          BY <2>3, <5>1, <5>2
        <5> QED BY <1>2, <1>8, <4>2, <5>3
      <4> QED BY <1>1, <4>1, <4>2
    <3> QED BY <1>1, <3>1
  <2>4. \A j \in 0..N : j \in T
    <3> HIDE DEF T
    <3> QED BY <1>1, <2>2, <2>3, Induction
  <2>5. N \in T
    <3> HIDE DEF T
    <3> QED BY <1>1, <2>4
  <2> HIDE DEF rank
  <2> QED BY <2>1, <2>5
<1>10. \A n : Tags!Chain(h, n) = Chains(h)[n]
  BY Zenon DEF Tags!Chain, Chains
<1> QED BY <1>1, <1>8, <1>9, <1>10 DEF x

LEMMA SiblingsFollow ==
  ASSUME NEW N, NEW h, Linked(h, N)
  PROVE  \A m \in 3..N : Siblings(h.parent, N, m, Chains(h)[m])
<1> DEFINE p == h.parent
           x == h.next
           s == Chains(h)
           T == {j \in 0..N : \A m \in 3..N : m > N - j => Siblings(p, N, m, s[m])}
<1>1. N \in Nat /\ N >= 2 /\ p \in [1..N -> Nat] /\ x \in [1..N -> Nat]
  BY DEF Linked, Links, Nested
<1>2. /\ s[0] = <<>> /\ \A m \in 1..N : x[m] \in 0..N /\ s[m] = <<m>> \o s[x[m]]
      /\ \A m \in 0..N : s[m] \in Seq(1..N)
  BY ChainsAre
<1>3. \A m \in 3..N : NextIs(p, N, m, x[m]) /\ m \in 1..N
  BY DEF Linked, Links
<1> HIDE DEF p, x, s
<1>4. 0 \in T
  BY <1>1
<1>5. ASSUME NEW j \in 1..N, j - 1 \in T PROVE j \in T
  <2>1. ASSUME NEW m \in 3..N, m > N - j PROVE Siblings(p, N, m, s[m])
    <3>1. NextIs(p, N, m, x[m]) /\ x[m] \in 0..N /\ s[m] = <<m>> \o s[x[m]] /\ m \in 1..N
      BY <1>2, <1>3
    <3>2. CASE x[m] = 0
      <4>1. s[m] = <<m>>
        <5>1. <<m>> \in Seq(1..N)
          BY <3>1
        <5>2. <<m>> \o <<>> = <<m>>
          BY <5>1, ConcatEmptySeq
        <5> QED BY <1>2, <3>1, <3>2, <5>2, Zenon
      <4>2. <<m>> \in Seq(1..N) /\ Len(<<m>>) = 1 /\ <<m>>[1] = m
        BY <3>1
      <4>3. \A k \in 3..N : k > m => p[k] # p[m]
        BY <3>1, <3>2 DEF NextIs
      <4>4. LastIs(p, N, p[m], m)
        BY <1>1, <4>3 DEF LastIs
      <4>5. \A k \in 1..N : (\E i \in 1..1 : <<m>>[i] = k) <=> k \in 3..N /\ k >= m /\ p[k] = p[m]
        <5>1. \A k \in 1..N : k \in 3..N /\ k >= m /\ p[k] = p[m] <=> k = m
          BY <1>1, <4>3
        <5>2. \A k \in 1..N : (\E i \in 1..1 : <<m>>[i] = k) <=> k = m
          BY <4>2
        <5> QED BY <5>1, <5>2
      <4> QED BY <4>1, <4>2, <4>4, <4>5 DEF Siblings
    <3>3. CASE x[m] # 0
      <4>1. PICK d \in 3..N : d = x[m]
        BY <3>1, <3>3 DEF NextIs
      <4>2. d > m /\ p[d] = p[m] /\ \A k \in 3..N : m < k /\ k < d => p[k] # p[m]
        BY <3>1, <3>3, <4>1 DEF NextIs
      <4>3. Siblings(p, N, d, s[d])
        <5>1. d > N - (j - 1)
          BY <1>1, <2>1, <4>2
        <5> QED BY <1>5, <5>1
      <4>4. s[d] \in Seq(1..N) /\ Len(s[d]) >= 1 /\ Len(s[d]) \in Nat
        BY <4>3 DEF Siblings
      <4>5. PICK r \in Seq(1..N) : r = s[d]
        BY <4>4
      <4>6. s[m] = <<m>> \o r
        BY <3>1, <4>1, <4>5
      <4>7. /\ <<m>> \o r \in Seq(1..N) /\ Len(<<m>> \o r) = Len(r) + 1
            /\ (<<m>> \o r)[1] = m /\ \A i \in 1..Len(r) : (<<m>> \o r)[i + 1] = r[i]
        <5>1. <<m>> \in Seq(1..N) /\ Len(<<m>>) = 1 /\ <<m>>[1] = m
          BY <3>1
        <5> QED BY <4>4, <4>5, <5>1, ConcatProperties
      <4>8. PICK w : w = <<m>> \o r
        OBVIOUS
      <4>9. w \in Seq(1..N) /\ Len(w) = Len(r) + 1 /\ w[1] = m /\ \A i \in 1..Len(r) : w[i + 1] = r[i]
        BY <4>7, <4>8
      <4>10. Len(r) \in Nat /\ Len(r) >= 1
        BY <4>4, <4>5
      <4>11. LastIs(p, N, p[m], w[Len(w)])
        <5>1. w[Len(w)] = r[Len(r)]
          BY <4>9, <4>10
        <5> QED BY <4>2, <4>3, <4>5, <5>1 DEF Siblings
      <4>12. ASSUME NEW k \in 1..N
             PROVE  (\E i \in 1..Len(w) : w[i] = k) <=> k \in 3..N /\ k >= m /\ p[k] = p[m]
        <5>1. (\E i \in 1..Len(r) : r[i] = k) <=> k \in 3..N /\ k >= d /\ p[k] = p[m]
          BY <4>2, <4>3, <4>5 DEF Siblings
        <5>2. (\E i \in 1..Len(w) : w[i] = k) <=> k = m \/ \E i \in 1..Len(r) : r[i] = k
          <6>1. \A i \in 1..Len(w) : i = 1 \/ i - 1 \in 1..Len(r)
            BY <4>9, <4>10
          <6>2. \A i \in 1..Len(r) : i + 1 \in 1..Len(w) /\ (i + 1) - 1 = i
            BY <4>9, <4>10
          <6>3. \A i \in 1..Len(w) : i # 1 => w[i] = r[i - 1]
            BY <4>9, <4>10, <6>1
          <6>4. 1 \in 1..Len(w)
            BY <4>9, <4>10
          <6>5. ASSUME NEW i \in 1..Len(r), r[i] = k PROVE \E e \in 1..Len(w) : w[e] = k
            BY <4>9, <6>2, <6>5
          <6>6. ASSUME NEW i \in 1..Len(w), w[i] = k PROVE k = m \/ \E e \in 1..Len(r) : r[e] = k
            BY <4>9, <6>1, <6>3, <6>6
          <6> QED BY <4>9, <6>4, <6>5, <6>6
        <5>3. k \in 3..N /\ k >= m /\ p[k] = p[m] <=> k = m \/ (k \in 3..N /\ k >= d /\ p[k] = p[m])
          BY <1>1, <4>2
        <5> QED BY <5>1, <5>2, <5>3
      <4>13. Siblings(p, N, m, w)
        BY <4>9, <4>10, <4>11, <4>12 DEF Siblings
      <4> QED BY <4>6, <4>8, <4>13
    <3> QED BY <3>2, <3>3
  <2> HIDE DEF Siblings
  <2> QED BY <1>1, <2>1
<1>6. \A j \in 0..N : j \in T
  <2> HIDE DEF T
  <2> QED BY <1>1, <1>4, <1>5, Induction
<1>7. N \in T
  <2> HIDE DEF T
  <2> QED BY <1>1, <1>6
<1>8. \A m \in 3..N : Siblings(p, N, m, s[m])
  BY <1>1, <1>7
<1> QED BY <1>8 DEF p, s

KidsOf(h, p, N, n) ==
  \A m \in 1..N : (\E i \in DOMAIN Tags!Kids(h, n) : Tags!Kids(h, n)[i] = m)
                    <=> m \in 3..N /\ p[m] = n
LEMMA KidsAre ==
  ASSUME NEW N, NEW h, Linked(h, N), NEW n \in 2..N, NEW p, p = h.parent
  PROVE  /\ KidsOf(h, p, N, n)
         /\ h.first[n] # 0 => Tags!Kids(h, n)[Len(Tags!Kids(h, n))] = h.last[n]
<1>1. PICK f, s : f = h.first[n] /\ s = Tags!Kids(h, n)
  OBVIOUS
<1>2. FirstIs(p, N, n, f) /\ N \in Nat /\ LastIs(p, N, n, h.last[n])
  BY <1>1 DEF Linked, Links, Nested
<1>3. s = Chains(h)[f]
  BY <1>1, ChainsAre, Zenon DEF Tags!Kids
<1>4. CASE f = 0
  <2>1. s = <<>>
    BY <1>3, <1>4, ChainsAre
  <2>2. DOMAIN s = {}
    BY <2>1
  <2>3. \A m \in 3..N : p[m] # n
    BY <1>2, <1>4 DEF FirstIs
  <2> QED BY <1>1, <1>4, <2>2, <2>3 DEF KidsOf
<1>5. CASE f # 0
  <2>1. f \in 3..N /\ p[f] = n /\ \A m \in 3..N : p[m] = n => f <= m
    BY <1>2, <1>5 DEF FirstIs
  <2>2. Siblings(p, N, f, s)
    BY <1>1, <1>3, <2>1, SiblingsFollow
  <2>3. DOMAIN s = 1..Len(s) /\ LastIs(p, N, n, s[Len(s)])
    BY <2>1, <2>2 DEF Siblings
  <2>4. \A m \in 1..N : (\E i \in 1..Len(s) : s[i] = m) <=> m \in 3..N /\ p[m] = n
    BY <2>1, <2>2 DEF Siblings
  <2>5. ASSUME NEW v, NEW w, LastIs(p, N, n, v), LastIs(p, N, n, w) PROVE v = w
    BY <1>2, <2>1, <2>5 DEF LastIs
  <2>6. s[Len(s)] = h.last[n]
    BY <1>2, <2>3, <2>5
  <2> QED BY <1>1, <2>3, <2>4, <2>6, Zenon DEF KidsOf
<1> QED BY <1>4, <1>5

LEMMA LinksDoAgree ==
  ASSUME NEW N, NEW h, Linked(h, N)
  PROVE  Tags!LinksAgree(h)
<1>1. PICK p, f, l, b, x : p = h.parent /\ f = h.first /\ l = h.last /\ b = h.prev /\ x = h.next
  OBVIOUS
<1>2. Links(p, f, l, b, x, N)
  BY <1>1 DEF Linked
<1>3. N \in Nat /\ N >= 2 /\ p \in [1..N -> Nat] /\ p[1] = 0 /\ p[2] = 0
      /\ \A m \in 3..N : p[m] >= 2 /\ p[m] < m
  BY <1>2 DEF Links, Nested
<1>4. Tags!Nodes(h) = 2..N /\ Tags!Null = 0 /\ Tags!Root = 2
  <2>1. Len(p) = N
    BY <1>3, AsSequence
  <2> QED BY <1>1, <2>1, Zenon DEF Tags!Nodes, Tags!Root, Tags!Null
<1>5. ASSUME NEW n \in 2..N
      PROVE  /\ f[n] = 0 <=> l[n] = 0
             /\ f[n] # 0 => b[f[n]] = 0 /\ Tags!Kids(h, n)[Len(Tags!Kids(h, n))] = l[n]
  <2>1. FirstIs(p, N, n, f[n]) /\ LastIs(p, N, n, l[n])
    BY <1>2 DEF Links
  <2>2. f[n] = 0 <=> l[n] = 0
    BY <2>1 DEF FirstIs, LastIs
  <2>3. ASSUME f[n] # 0 PROVE b[f[n]] = 0
    <3>1. PICK d \in 3..N : d = f[n] /\ p[d] = n /\ \A m \in 3..N : p[m] = n => d <= m
      BY <2>1, <2>3 DEF FirstIs
    <3>2. PrevIs(p, N, d, b[d])
      BY <1>2 DEF Links
    <3> QED BY <3>1, <3>2 DEF PrevIs
  <2>4. f[n] # 0 => Tags!Kids(h, n)[Len(Tags!Kids(h, n))] = l[n]
    BY <1>1, KidsAre
  <2> QED BY <2>2, <2>3, <2>4
<1>6. ASSUME NEW n \in 2..N
      PROVE  /\ x[n] # 0 => b[x[n]] = n /\ p[x[n]] = p[n]
             /\ b[n] # 0 => x[b[n]] = n
  <2>1. CASE n = 2
    <3>1. x[2] = 1 /\ b[1] = 2 /\ b[2] = 0
      BY <1>2 DEF Links
    <3> QED BY <1>3, <2>1, <3>1
  <2>2. CASE n \in 3..N
    <3>1. NextIs(p, N, n, x[n]) /\ PrevIs(p, N, n, b[n])
      BY <1>2, <2>2 DEF Links
    <3>2. ASSUME x[n] # 0 PROVE b[x[n]] = n /\ p[x[n]] = p[n]
      <4>1. PICK d \in 3..N : d = x[n] /\ d > n /\ p[d] = p[n]
                              /\ \A k \in 3..N : n < k /\ k < d => p[k] # p[n]
        BY <3>1, <3>2 DEF NextIs
      <4>2. PrevIs(p, N, d, b[d])
        BY <1>2 DEF Links
      <4> QED BY <2>2, <4>1, <4>2 DEF PrevIs
    <3>3. ASSUME b[n] # 0 PROVE x[b[n]] = n
      <4>1. PICK d \in 3..N : d = b[n] /\ d < n /\ p[d] = p[n]
                              /\ \A k \in 3..N : d < k /\ k < n => p[k] # p[n]
        BY <3>1, <3>3 DEF PrevIs
      <4>2. NextIs(p, N, d, x[d])
        BY <1>2 DEF Links
      <4> QED BY <2>2, <4>1, <4>2 DEF NextIs
    <3> QED BY <3>2, <3>3
  <2> QED BY <1>3, <2>1, <2>2
<1>7. ASSUME NEW n \in 2..N, n # 2
      PROVE  \E i \in DOMAIN Tags!Kids(h, p[n]) : Tags!Kids(h, p[n])[i] = n
  <2>1. n \in 3..N /\ n \in 1..N /\ p[n] \in 2..N
    BY <1>3, <1>7
  <2>2. KidsOf(h, p, N, p[n])
    BY <1>1, <2>1, KidsAre, Zenon
  <2> QED BY <2>1, <2>2, Zenon DEF KidsOf
<1> QED BY <1>1, <1>4, <1>5, <1>6, <1>7, Zenon DEF Tags!LinksAgree

Flattened(w, h, N, n) ==
  Linked(w, N) /\ \A m \in 1..N : w.parent[m] = IF h.parent[m] = n THEN h.parent[n] ELSE h.parent[m]
LEMMA FlattenLinked ==
  ASSUME NEW N, NEW h, Linked(h, N), NEW n \in 3..N
  PROVE  Flattened(Tags!flatten(h, n), h, N, n)
<1>1. PICK p, f, l, b, x : p = h.parent /\ f = h.first /\ l = h.last /\ b = h.prev /\ x = h.next
  OBVIOUS
<1>2. Links(p, f, l, b, x, N)
  BY <1>1 DEF Linked
<1>3. /\ N \in Nat /\ N >= 2 /\ p \in [1..N -> Nat] /\ f \in [1..N -> Nat] /\ l \in [1..N -> Nat]
      /\ b \in [1..N -> Nat] /\ x \in [1..N -> Nat] /\ p[1] = 0 /\ p[2] = 0
  BY <1>2 DEF Links, Nested
<1>9. n \in 1..N /\ n \in 2..N /\ p[n] < n
  BY <1>2, <1>3 DEF Links, Nested
<1>10. \A m \in 1..N : m \in 3..N \/ p[m] # n
  <2>1. \A m \in 1..N : m = 1 \/ m = 2 \/ m \in 3..N
    BY <1>3
  <2>2. p[1] # n /\ p[2] # n
    BY <1>3
  <2> QED BY <2>1, <2>2
<1>4. DOMAIN p = 1..N /\ DOMAIN l = 1..N /\ DOMAIN b = 1..N
  BY <1>3
<1>5. \A m \in 1..N : (\E i \in DOMAIN Tags!Kids(h, n) : Tags!Kids(h, n)[i] = m) <=> p[m] = n
  <2>1. \A m \in 1..N : p[m] = n => m \in 3..N
    BY <1>10
  <2>2. KidsOf(h, p, N, n)
    BY <1>1, <1>9, KidsAre, Zenon
  <2> QED BY <2>1, <2>2, Zenon DEF KidsOf
<1>6. FirstIs(p, N, n, f[n]) /\ LastIs(p, N, n, l[n])
  BY <1>2, <1>9 DEF Links
<1>7. CASE f[n] = 0
  <2>1. Tags!flatten(h, n) = h
    BY <1>1, <1>7, Zenon DEF Tags!flatten, Tags!Null
  <2>2. \A m \in 1..N : p[m] # n
    BY <1>6, <1>7, <1>10 DEF FirstIs
  <2> QED BY <1>1, <2>1, <2>2 DEF Flattened
<1>8. CASE f[n] # 0
  <2> DEFINE q == [m \in 1..N |-> IF \E i \in DOMAIN Tags!Kids(h, n) : Tags!Kids(h, n)[i] = m
                                  THEN p[n] ELSE p[m]]
             y == [x EXCEPT ![l[n]] = IF x[n] # 0 THEN x[n] ELSE @, ![n] = f[n]]
             c == [m \in 1..N |-> IF m = f[n] THEN n ELSE IF m = x[n] THEN l[n] ELSE b[m]]
             k == [m \in 1..N |-> IF m = n THEN 0 ELSE IF m = p[n] /\ x[n] = 0 THEN l[n] ELSE l[m]]
             g == [f EXCEPT ![n] = 0]
  <2>1. Tags!flatten(h, n) = [parent |-> q, next |-> y, prev |-> c, last |-> k, first |-> g]
    BY <1>1, <1>4, <1>8, Zenon DEF Tags!flatten, Tags!Null
  <2>2. l[n] \in 3..N /\ l[n] # n /\ x[l[n]] = 0
    <3>1. l[n] \in 3..N /\ p[l[n]] = n /\ \A m \in 3..N : p[m] = n => m <= l[n]
      BY <1>6, <1>8 DEF FirstIs, LastIs
    <3>2. NextIs(p, N, l[n], x[l[n]])
      BY <1>2, <3>1 DEF Links
    <3>3. x[l[n]] = 0
      <4>1. PICK d \in 3..N : d = l[n]
        BY <3>1
      <4>2. NextIs(p, N, d, x[d]) /\ p[d] = n
        BY <3>1, <3>2, <4>1
      <4>3. x[d] # 0 => x[d] \in 3..N /\ x[d] > d /\ p[x[d]] = n
        BY <4>2 DEF NextIs
      <4>4. ASSUME NEW e \in 3..N, p[e] = n PROVE ~(e > d)
        <5>1. e <= d
          BY <3>1, <4>1, <4>4
        <5> QED BY <1>3, <5>1
      <4>5. x[d] = 0
        <5>1. ASSUME x[d] # 0 PROVE FALSE
          <6>1. PICK e \in 3..N : e = x[d] /\ e > d /\ p[e] = n
            BY <4>3, <5>1
          <6> QED BY <4>4, <6>1, Zenon
        <5> QED BY <5>1
      <4> QED BY <4>1, <4>5
    <3>4. p[n] # n
      BY <1>3, <1>9
    <3> QED BY <3>1, <3>3, <3>4
  <2>3. q \in [1..N -> Nat] /\ \A m \in 1..N : q[m] = IF p[m] = n THEN p[n] ELSE p[m]
    <3>1. q = [m \in 1..N |-> IF p[m] = n THEN p[n] ELSE p[m]]
      BY <1>5
    <3> HIDE DEF q
    <3> QED BY <1>3, <1>9, <3>1
  <2>4. y \in [1..N -> Nat] /\ \A m \in 1..N : y[m] = IF m = n THEN f[n] ELSE IF m = l[n] THEN x[n] ELSE x[m]
    <3>1. l[n] \in 1..N
      BY <1>3, <1>9, <2>2
    <3>2. y = [m \in 1..N |-> IF m = n THEN f[n] ELSE IF m = l[n] THEN (IF x[n] # 0 THEN x[n] ELSE x[l[n]]) ELSE x[m]]
      BY <1>3, <1>9, <2>2, <3>1
    <3> HIDE DEF y
    <3> QED BY <1>3, <1>9, <2>2, <3>2
  <2>5. c \in [1..N -> Nat] /\ \A m \in 1..N : c[m] = IF m = f[n] THEN n ELSE IF m = x[n] THEN l[n] ELSE b[m]
    BY <1>3, <1>9, <2>2
  <2>6. k \in [1..N -> Nat] /\ \A m \in 1..N : k[m] = IF m = n THEN 0 ELSE IF m = p[n] /\ x[n] = 0 THEN l[n] ELSE l[m]
    BY <1>3, <1>9, <2>2
  <2>7. g \in [1..N -> Nat] /\ \A m \in 1..N : g[m] = IF m = n THEN 0 ELSE f[m]
    BY <1>3, <1>9
  <2> HIDE DEF q, y, c, k, g
  <2>8. Flattens(p, f, l, b, x, N, n, q, g, k, c, y)
    BY <1>8, <2>3, <2>4, <2>5, <2>6, <2>7, Zenon DEF Flattens
  <2>9. Linked([parent |-> q, next |-> y, prev |-> c, last |-> k, first |-> g], N)
    BY <1>2, <2>8, FlattenLinks DEF Linked
  <2> QED BY <1>1, <2>1, <2>3, <2>9 DEF Flattened
<1> QED BY <1>7, <1>8

-----------------------------------------------------------------------------
\* The path from the root to a node.
LEMMA UnderParent ==
  ASSUME NEW N, NEW p, Nested(p, N), NEW m \in 3..N, NEW n \in 2..N
  PROVE  Under(p, n, m) <=> n = p[m] \/ Under(p, n, p[m])
<1>1. /\ N \in Nat /\ p \in [1..N -> Nat] /\ p[m] \in Nat /\ p[m] >= 2 /\ p[m] < m
      /\ \A k \in 3..N : p[m] < k /\ k < m => p[k] >= p[m]
  BY DEF Nested
<1>2. \A k \in 3..m : k \in 3..N /\ p[k] \in Nat
  BY <1>1
<1>3. ASSUME Under(p, n, m) PROVE n = p[m] \/ Under(p, n, p[m])
  <2>1. n < m /\ \A k \in 3..m : n < k => p[k] >= n
    BY <1>3 DEF Under
  <2>2. p[m] >= n
    BY <2>1
  <2>3. CASE n # p[m]
    <3>1. \A k \in 3..p[m] : k \in 3..m
      BY <1>1
    <3> QED BY <1>1, <2>1, <2>2, <2>3, <3>1 DEF Under
  <2> QED BY <2>3
<1>4. ASSUME n = p[m] \/ Under(p, n, p[m]) PROVE Under(p, n, m)
  <2>1. n <= p[m] /\ \A k \in 3..p[m] : n < k => p[k] >= n
    BY <1>1, <1>4 DEF Under
  <2>2. ASSUME NEW k \in 3..m, n < k PROVE p[k] >= n
    <3>1. CASE k = m
      BY <2>1, <3>1
    <3>2. CASE k # m /\ p[m] < k
      BY <1>1, <1>2, <2>1, <2>2, <3>2
    <3>3. CASE k <= p[m]
      BY <1>1, <2>1, <2>2, <3>3
    <3> QED BY <1>1, <3>1, <3>2, <3>3
  <2> QED BY <1>1, <2>1, <2>2 DEF Under
<1> QED BY <1>3, <1>4

PathIs(u, p, N, m, s) ==
  /\ s \in Seq(1..N) /\ Len(s) \in Nat /\ Len(s) >= 1 /\ s[1] = 2 /\ s[Len(s)] = m
  /\ \A j \in 1..Len(s) : s[j] \in 2..N
  /\ \A j \in 2..Len(s) : s[j] \in 3..N /\ p[s[j]] = s[j - 1]
  /\ \A i, j \in 1..Len(s) : i < j => s[i] < s[j]
  /\ \A n \in 2..N : (\E j \in 1..Len(s) : s[j] = n) <=> n = m \/ Under(p, n, m)
  /\ \A j \in 1..Len(s) : Len(u[s[j]]) = j /\ \A i \in 1..j : u[s[j]][i] = s[i]

LEMMA PathsAre ==
  ASSUME NEW N, NEW h, NEW p, p = h.parent, Nested(p, N), NEW m \in 2..N
  PROVE  PathIs(Up(h), p, N, m, Up(h)[m])
<1> DEFINE u == Up(h)
           Good(d) == PathIs(u, p, N, d, u[d])
           T == {j \in 0..N : \A d \in 2..N : d <= j => Good(d)}
<1>1. N \in Nat /\ N >= 2 /\ p \in [1..N -> Nat] /\ p[2] = 0
      /\ \A d \in 3..N : p[d] \in 2..N /\ p[d] < d
  <2>1. N \in Nat /\ N >= 2 /\ p \in [1..N -> Nat] /\ p[2] = 0 /\ \A d \in 3..N : p[d] >= 2 /\ p[d] < d
    BY DEF Nested
  <2> QED BY <2>1
<1>2. u[0] = <<>> /\ (\A d \in 1..N : u[d] = Append(u[p[d]], d)) /\ \A d \in 0..N : u[d] \in Seq(1..N)
  BY UpIs DEF Rises
<1> HIDE DEF u
<1>3. Good(2)
  <2>1. u[2] = <<2>>
    <3>1. 2 \in 1..N
      BY <1>1
    <3>2. u[2] = Append(u[0], 2)
      BY <1>1, <1>2, <3>1, Zenon
    <3>3. u[2] = Append(<<>>, 2)
      BY <1>2, <3>2, Zenon
    <3> QED BY <3>3
  <2>2. u[2] \in Seq(1..N) /\ Len(u[2]) = 1 /\ u[2][1] = 2
    BY <1>1, <1>2, <2>1
  <2>3. \A n \in 2..N : ~Under(p, n, 2)
    BY <1>1 DEF Under
  <2>4. \A j \in 1..1 : j = 1
    OBVIOUS
  <2> QED BY <1>1, <2>2, <2>3, <2>4 DEF PathIs
<1>4. ASSUME NEW d \in 3..N, Good(p[d]) PROVE Good(d)
  <2>1. p[d] \in 2..N /\ p[d] < d /\ d \in 1..N /\ p[d] \in 0..N
    BY <1>1
  <2>2. PICK r \in Seq(1..N) : r = u[p[d]]
    BY <1>2, <2>1
  <2>3. PICK s : s = u[d]
    OBVIOUS
  <2>4. PathIs(u, p, N, p[d], r)
    BY <1>4, <2>2
  <2>5. Len(r) \in Nat /\ Len(r) >= 1 /\ r[1] = 2 /\ r[Len(r)] = p[d]
    BY <2>4 DEF PathIs
  <2>6. s \in Seq(1..N) /\ Len(s) = Len(r) + 1 /\ s[Len(r) + 1] = d /\ \A j \in 1..Len(r) : s[j] = r[j]
    <3>1. s = Append(r, d)
      BY <1>2, <2>1, <2>2, <2>3
    <3> QED BY <2>1, <3>1, AppendProperties
  <2>7. \A j \in 1..Len(s) : j = Len(s) \/ j \in 1..Len(r)
    BY <2>5, <2>6
  <2>8. /\ Len(s) \in Nat /\ Len(s) >= 1 /\ s[1] = 2 /\ s[Len(s)] = d /\ Len(s) # 1
    BY <2>5, <2>6
  <2>9. \A j \in 1..Len(s) : s[j] \in 2..N
    BY <2>4, <2>6, <2>7 DEF PathIs
  <2>10. ASSUME NEW j \in 2..Len(s) PROVE s[j] \in 3..N /\ p[s[j]] = s[j - 1]
    <3>1. CASE j = Len(s)
      <4>1. j - 1 = Len(r) /\ Len(r) \in 1..Len(r)
        BY <2>5, <2>6, <3>1
      <4>2. s[j] = d /\ s[j - 1] = p[d]
        BY <2>5, <2>6, <2>8, <3>1, <4>1
      <4> QED BY <4>2
    <3>2. CASE j # Len(s)
      <4>1. j \in 2..Len(r) /\ j \in 1..Len(r) /\ j - 1 \in 1..Len(r)
        BY <2>5, <2>6, <3>2
      <4>2. r[j] \in 3..N /\ p[r[j]] = r[j - 1]
        BY <2>4, <4>1 DEF PathIs
      <4> QED BY <2>6, <4>1, <4>2
    <3> QED BY <3>1, <3>2
  <2>11. ASSUME NEW i \in 1..Len(s), NEW j \in 1..Len(s), i < j PROVE s[i] < s[j]
    <3>1. i \in 1..Len(r)
      BY <2>5, <2>6, <2>11
    <3>2. \A a, b \in 1..Len(r) : a < b => r[a] < r[b]
      BY <2>4 DEF PathIs
    <3>3. CASE j \in 1..Len(r)
      BY <2>6, <2>11, <3>1, <3>2, <3>3
    <3>4. CASE j = Len(s)
      <4>1. i = Len(r) \/ r[i] < r[Len(r)]
        BY <2>5, <3>1, <3>2
      <4>2. r[i] \in 2..N
        BY <2>4, <3>1 DEF PathIs
      <4>3. s[i] = r[i] /\ s[j] = d
        BY <2>6, <2>8, <3>1, <3>4
      <4>4. r[i] <= p[d]
        <5>1. CASE i = Len(r)
          BY <1>1, <2>1, <2>5, <5>1
        <5>2. CASE r[i] < r[Len(r)]
          <6>1. r[i] < p[d]
            BY <2>5, <5>2
          <6>2. r[i] \in Nat /\ p[d] \in Nat
            BY <2>1, <4>2
          <6> QED BY <6>1, <6>2
        <5> QED BY <4>1, <5>1, <5>2
      <4>5. r[i] \in Nat /\ p[d] \in Nat /\ d \in Nat
        <5>1. r[i] \in Nat /\ p[d] \in Nat
          BY <2>1, <4>2
        <5>2. d \in Nat
          BY <1>1
        <5> QED BY <5>1, <5>2, Zenon
      <4> QED BY <2>1, <4>3, <4>4, <4>5
    <3> QED BY <2>7, <3>3, <3>4
  <2>12. ASSUME NEW n \in 2..N PROVE (\E j \in 1..Len(s) : s[j] = n) <=> n = d \/ Under(p, n, d)
    <3>1. (\E j \in 1..Len(r) : r[j] = n) <=> n = p[d] \/ Under(p, n, p[d])
      BY <2>4 DEF PathIs
    <3>2. Under(p, n, d) <=> n = p[d] \/ Under(p, n, p[d])
      BY UnderParent
    <3>3. (\E j \in 1..Len(s) : s[j] = n) <=> n = d \/ \E j \in 1..Len(r) : r[j] = n
      <4>1. Len(s) \in 1..Len(s) /\ \A j \in 1..Len(r) : j \in 1..Len(s)
        BY <2>5, <2>6
      <4> QED BY <2>6, <2>7, <2>8, <4>1
    <3> QED BY <3>1, <3>2, <3>3
  <2>13. ASSUME NEW j \in 1..Len(s) PROVE Len(u[s[j]]) = j /\ \A i \in 1..j : u[s[j]][i] = s[i]
    <3>1. CASE j = Len(s)
      BY <2>3, <2>8, <3>1
    <3>2. CASE j \in 1..Len(r)
      <4>1. Len(u[r[j]]) = j /\ \A i \in 1..j : u[r[j]][i] = r[i]
        BY <2>4, <3>2 DEF PathIs
      <4>2. \A i \in 1..j : i \in 1..Len(r)
        BY <2>5, <3>2
      <4> QED BY <2>6, <3>2, <4>1, <4>2
    <3> QED BY <2>7, <3>1, <3>2
  <2> QED BY <2>3, <2>6, <2>8, <2>9, <2>10, <2>11, <2>12, <2>13, Zenon DEF PathIs
<1> HIDE DEF Good
<1>5. 0 \in T
  BY <1>1
<1>6. ASSUME NEW j \in 1..N, j - 1 \in T PROVE j \in T
  <2>1. ASSUME NEW d \in 2..N, d <= j PROVE Good(d)
    <3>1. CASE d = 2
      BY <1>3, <3>1
    <3>2. CASE d \in 3..N
      <4>1. p[d] \in 2..N /\ p[d] <= j - 1
        BY <1>1, <2>1, <3>2
      <4>2. Good(p[d])
        BY <1>6, <4>1
      <4> QED BY <1>4, <3>2, <4>2
    <3> QED BY <1>1, <3>1, <3>2
  <2> QED BY <1>1, <2>1
<1>7. \A j \in 0..N : j \in T
  <2> HIDE DEF T
  <2> QED BY <1>1, <1>5, <1>6, Induction
<1>8. N \in T
  <2> HIDE DEF T
  <2> QED BY <1>1, <1>7
<1>9. Good(m)
  BY <1>1, <1>8
<1> QED BY <1>9 DEF Good, u

\* It depends on the parents of the nodes before that one only.
SameUpTo(q, g, h) == \A m \in 1..q : g.parent[m] = h.parent[m]
SamePaths(q, g, h) == \A m \in 0..q : Up(g)[m] = Up(h)[m]
LEMMA SamePath ==
  ASSUME NEW N, NEW M, NEW h, NEW g, NEW q \in Nat, q <= N, q <= M,
         Nested(h.parent, N), Nested(g.parent, M), SameUpTo(q, g, h)
  PROVE  SamePaths(q, g, h)
<1> DEFINE T == {j \in 0..q : \A m \in 0..j : Up(g)[m] = Up(h)[m]}
<1>1. N \in Nat /\ M \in Nat /\ \A m \in 1..q : m \in 1..N /\ m \in 1..M
  BY DEF Nested
<1>2. Rises(Up(h), h.parent, N) /\ Rises(Up(g), g.parent, M)
  BY UpIs, Zenon
<1>3. Up(g)[0] = <<>> /\ Up(h)[0] = <<>>
  BY <1>2, Zenon DEF Rises
<1>4. ASSUME NEW m \in 1..q
      PROVE  /\ h.parent[m] \in 0..m - 1
             /\ Up(g)[m] = Append(Up(g)[h.parent[m]], m) /\ Up(h)[m] = Append(Up(h)[h.parent[m]], m)
  <2>1. m \in 1..N /\ m \in 1..M /\ g.parent[m] = h.parent[m]
    BY <1>1 DEF SameUpTo
  <2>2. h.parent[m] \in 0..N /\ h.parent[m] < m
    BY <1>2, <2>1, Zenon DEF Rises
  <2>3. Up(g)[m] = Append(Up(g)[g.parent[m]], m) /\ Up(h)[m] = Append(Up(h)[h.parent[m]], m)
    BY <1>2, <2>1, Zenon DEF Rises
  <2> QED BY <1>1, <2>1, <2>2, <2>3
<1>5. 0 \in T
  BY <1>3
<1>6. ASSUME NEW j \in 1..q, j - 1 \in T PROVE j \in T
  <2>1. h.parent[j] \in 0..j - 1
    BY <1>4
  <2>2. Up(g)[j] = Up(h)[j]
    BY <1>4, <1>6, <2>1
  <2>3. \A m \in 0..j : m = j \/ m \in 0..j - 1
    OBVIOUS
  <2> QED BY <1>6, <2>2, <2>3
<1>7. \A j \in 0..q : j \in T
  <2> HIDE DEF T
  <2> QED BY <1>5, <1>6, Induction
<1>8. q \in T
  <2> HIDE DEF T
  <2> QED BY <1>7
<1> QED BY <1>8 DEF SamePaths

-----------------------------------------------------------------------------
\* All nodes of a path behind the c-th are flattened, the last one first:
\* their children become those of the c-th.
Trees(N) ==
  {h \in [parent : [1..N -> Nat], first : [1..N -> Nat], last : [1..N -> Nat],
          prev : [1..N -> Nat], next : [1..N -> Nat]] : Linked(h, N)}

LEMMA TreesAre ==
  ASSUME NEW N, NEW h
  PROVE  h \in Trees(N) <=> Linked(h, N)
<1>1. h \in Trees(N) => Linked(h, N)
  BY Zenon DEF Trees
<1>2. ASSUME Linked(h, N) PROVE h \in Trees(N)
  <2>1. PICK p, f, l, b, x : p = h.parent /\ f = h.first /\ l = h.last /\ b = h.prev /\ x = h.next
    OBVIOUS
  <2>2. /\ p \in [1..N -> Nat] /\ f \in [1..N -> Nat] /\ l \in [1..N -> Nat]
        /\ b \in [1..N -> Nat] /\ x \in [1..N -> Nat]
    BY <1>2, <2>1 DEF Linked, Links, Nested
  <2>3. h = [parent |-> p, first |-> f, last |-> l, prev |-> b, next |-> x]
    BY <1>2, <2>1 DEF Linked
  <2>4. h \in [parent : [1..N -> Nat], first : [1..N -> Nat], last : [1..N -> Nat],
               prev : [1..N -> Nat], next : [1..N -> Nat]]
    BY <2>2, <2>3
  <2> QED BY <1>2, <2>4, Zenon DEF Trees
<1> QED BY <1>1, <1>2

\* The parents after s steps.
Gathered(q, p, N, v, s) ==
  \A m \in 1..N : q[m] = IF \E j \in Len(v) - s + 1..Len(v) : p[m] = v[j] THEN v[Len(v) - s] ELSE p[m]

Moved(w, q, N, d) == \A m \in 1..N : w[m] = IF q[m] = d THEN q[d] ELSE q[m]
Climbs(p, N, v) ==
  /\ Len(v) \in Nat /\ \A j \in 2..Len(v) : v[j] \in 3..N /\ p[v[j]] = v[j - 1]
  /\ \A i, j \in 1..Len(v) : i < j => v[i] < v[j]

LEMMA GatherOne ==
  ASSUME NEW N \in Nat, NEW p, NEW q, NEW w, NEW v, Climbs(p, N, v),
         NEW s \in Nat, s + 2 <= Len(v), Gathered(q, p, N, v, s), Moved(w, q, N, v[Len(v) - s])
  PROVE  Gathered(w, p, N, v, s + 1)
<1> DEFINE L == Len(v)
<1>1. PICK e \in 2..L : e = L - s
  BY DEF Climbs
<1>2. e = L - s /\ L - s + 1 = e + 1 /\ L - (s + 1) + 1 = e /\ L - (s + 1) = e - 1 /\ e - 1 \in 1..L /\ e \in 1..L
  BY <1>1 DEF Climbs
<1> HIDE DEF L
<1>3. L \in Nat /\ v[e] \in 3..N /\ p[v[e]] = v[e - 1] /\ \A i, j \in 1..L : i < j => v[i] < v[j]
  BY <1>1 DEF L, Climbs
<1>4. \A m \in 1..N : q[m] = IF \E j \in e + 1..L : p[m] = v[j] THEN v[e] ELSE p[m]
  BY <1>2 DEF Gathered, L
<1>5. \A m \in 1..N : w[m] = IF q[m] = v[e] THEN q[v[e]] ELSE q[m]
  BY <1>2 DEF L, Moved
<1>6. \A j \in e..L : j \in 1..L
  BY <1>2, <1>3
<1>7. ASSUME NEW j \in e..L PROVE v[e - 1] # v[j]
  <2>1. v[e - 1] < v[j] /\ j \in 2..L
    BY <1>2, <1>3, <1>6
  <2>2. v[j] \in Nat
    BY <2>1 DEF L, Climbs
  <2> QED BY <2>1, <2>2
<1>8. q[v[e]] = v[e - 1]
  <2>1. v[e] \in 1..N
    BY <1>3
  <2>2. \A j \in e + 1..L : j \in e..L
    BY <1>2, <1>3
  <2>3. ~ \E j \in e + 1..L : p[v[e]] = v[j]
    BY <1>3, <1>7, <2>2
  <2> QED BY <1>3, <1>4, <2>1, <2>3
<1>9. ASSUME NEW m \in 1..N PROVE w[m] = IF \E j \in e..L : p[m] = v[j] THEN v[e - 1] ELSE p[m]
  <2>1. w[m] = IF q[m] = v[e] THEN v[e - 1] ELSE q[m]
    BY <1>5, <1>8
  <2>2. CASE \E j \in e + 1..L : p[m] = v[j]
    <3>1. q[m] = v[e]
      BY <1>4, <2>2
    <3>2. \E j \in e..L : p[m] = v[j]
      BY <1>2, <1>3, <2>2
    <3> QED BY <2>1, <3>1, <3>2, Zenon
  <2>3. CASE ~ \E j \in e + 1..L : p[m] = v[j]
    <3>1. q[m] = p[m]
      BY <1>4, <2>3
    <3>2. (\E j \in e..L : p[m] = v[j]) <=> p[m] = v[e]
      <4>1. \A j \in e..L : j = e \/ j \in e + 1..L
        BY <1>2, <1>3
      <4>2. e \in e..L
        BY <1>2, <1>3
      <4> QED BY <2>3, <4>1, <4>2
    <3> QED BY <2>1, <3>1, <3>2, Zenon
  <2> QED BY <2>2, <2>3
<1> QED BY <1>2, <1>9 DEF Gathered, L

RestOf(path, v, c) == Len(path) = Len(v) - c /\ \A y \in 1..Len(path) : path[y] = v[c + y]
LEMMA FlattenedAll ==
  ASSUME NEW N, Linked(tree, N), NEW m \in 2..N, NEW v, v = Up(tree)[m], NEW c \in 1..Len(v),
         NEW path, RestOf(path, v, c)
  PROVE  /\ Linked(Tags!FlattenAll(path), N)
         /\ Gathered(Tags!FlattenAll(path).parent, tree.parent, N, v, Len(v) - c)
<1> DEFINE p == tree.parent
           L == Len(v)
           n == Len(path)
           step == [i \in 1..n |-> [h \in Trees(N) |-> Tags!flatten(h, path[n + 1 - i])]]
           Flat(f) == f = [i \in 0..Len(path) |->
                             IF i = 0 THEN tree ELSE Tags!flatten(f[i - 1], path[Len(path) + 1 - i])]
           flat == CHOOSE f : Flat(f)
<1>1. Nested(p, N) /\ N \in Nat
  BY DEF Linked, Links, Nested
<1>2. PathIs(Up(tree), p, N, m, v)
  BY <1>1, PathsAre
<1>3. /\ L \in Nat /\ n \in Nat /\ n = L - c /\ c \in 1..L
      /\ \A j \in 2..L : v[j] \in 3..N /\ p[v[j]] = v[j - 1]
      /\ \A i, j \in 1..L : i < j => v[i] < v[j]
  <2>1. L \in Nat /\ c \in 1..L
    BY <1>2, Zenon DEF PathIs
  <2>2. n = L - c
    BY Zenon DEF RestOf
  <2>3. /\ \A j \in 2..L : v[j] \in 3..N /\ p[v[j]] = v[j - 1]
        /\ \A i, j \in 1..L : i < j => v[i] < v[j]
    BY <1>2, Zenon DEF PathIs
  <2>4. n \in Nat
    <3> HIDE DEF n, L
    <3> QED BY <2>1, <2>2
  <2> QED BY <2>1, <2>2, <2>3, <2>4, Zenon
<1>4. ASSUME NEW i \in 1..n PROVE path[n + 1 - i] = v[L - (i - 1)] /\ path[n + 1 - i] \in 3..N
  <2>1. n + 1 - i \in 1..n /\ c + (n + 1 - i) = L - (i - 1) /\ L - (i - 1) \in 2..L
    BY <1>3
  <2>2. path[n + 1 - i] = v[L - (i - 1)]
    <3>1. path[n + 1 - i] = v[c + (n + 1 - i)]
      BY <2>1, Zenon DEF RestOf
    <3> QED BY <2>1, <3>1, Zenon
  <2> QED BY <1>3, <2>1, <2>2
<1> HIDE DEF L, n, p
<1>5. PICK f : Iterates(f, n, tree, step) /\ \A i \in 0..n : f[i] \in Trees(N)
  <2>1. StepsIn(Trees(N), n, step)
    <3>1. \A i \in 1..n, h \in Trees(N) : Tags!flatten(h, path[n + 1 - i]) \in Trees(N)
      BY <1>4, TreesAre, FlattenLinked DEF Flattened
    <3> QED BY <3>1 DEF StepsIn
  <2>2. tree \in Trees(N)
    BY TreesAre
  <2> HIDE DEF step
  <2> QED BY <1>3, <2>1, <2>2, Iteration
<1>6. Flat(f)
  <2>1. f = [i \in 0..n |-> f[i]] /\ f[0] = tree
    BY <1>5 DEF Iterates
  <2>2. \A i \in 1..n : f[i] = Tags!flatten(f[i - 1], path[n + 1 - i])
    <3>1. ASSUME NEW i \in 1..n PROVE f[i] = step[i][f[i - 1]] /\ f[i - 1] \in Trees(N)
      <4>1. i - 1 \in 0..n
        BY <1>3
      <4> HIDE DEF step
      <4> QED BY <1>5, <4>1, Zenon DEF Iterates
    <3> QED BY <3>1
  <2>3. \A i \in 0..n : f[i] = IF i = 0 THEN tree ELSE Tags!flatten(f[i - 1], path[n + 1 - i])
    <3>1. \A i \in 0..n : i = 0 \/ i \in 1..n
      BY <1>3
    <3> QED BY <2>1, <2>2, <3>1, Zenon
  <2>4. f = [i \in 0..n |-> IF i = 0 THEN tree ELSE Tags!flatten(f[i - 1], path[n + 1 - i])]
    BY <2>1, <2>3, Zenon
  <2> QED BY <2>4, Zenon DEF n
<1>7. Flat(flat)
  BY <1>6, Zenon
<1>8. Tags!FlattenAll(path) = flat[n]
  BY Zenon DEF Tags!FlattenAll, n
<1>9. /\ flat[0] = tree
      /\ \A i \in 1..n : flat[i] = Tags!flatten(flat[i - 1], path[n + 1 - i])
  <2>1. flat = [i \in 0..n |-> IF i = 0 THEN tree ELSE Tags!flatten(flat[i - 1], path[n + 1 - i])]
    BY <1>7, Zenon DEF n
  <2> HIDE DEF flat
  <2>2. 0 \in 0..n /\ \A i \in 1..n : i \in 0..n /\ i # 0
    BY <1>3
  <2> QED BY <2>1, <2>2
<1> HIDE DEF flat
<1> DEFINE T == {s \in 0..n : Linked(flat[s], N) /\ Gathered(flat[s].parent, p, N, v, s)}
<1>10. 0 \in T
  <2>1. ~ \E j \in L - 0 + 1..L : TRUE
    BY <1>3
  <2>2. Gathered(p, p, N, v, 0)
    BY <2>1 DEF Gathered, L
  <2> QED BY <1>3, <1>9, <2>2 DEF p
<1>11. ASSUME NEW i \in 1..n, i - 1 \in T PROVE i \in T
  <2>1. PICK s \in Nat : s = i - 1
    OBVIOUS
  <2>2. PICK g, d : g = flat[s] /\ d = path[n + 1 - i]
    OBVIOUS
  <2>3. Linked(g, N) /\ Gathered(g.parent, p, N, v, s) /\ flat[i] = Tags!flatten(g, d)
    BY <1>9, <1>11, <2>1, <2>2
  <2>4. d \in 3..N /\ d = v[L - s] /\ s + 2 <= L
    BY <1>3, <1>4, <2>1, <2>2
  <2>5. /\ Linked(flat[i], N)
        /\ \A k \in 1..N : flat[i].parent[k] = IF g.parent[k] = d THEN g.parent[d] ELSE g.parent[k]
    <3>1. Flattened(Tags!flatten(g, d), g, N, d)
      BY <2>3, <2>4, FlattenLinked, Zenon
    <3>2. Flattened(flat[i], g, N, d)
      BY <2>3, <3>1, Zenon
    <3> QED BY <3>2, Zenon DEF Flattened
  <2>6. Gathered(flat[i].parent, p, N, v, s + 1)
    <3>1. PICK q, w : q = g.parent /\ w = flat[i].parent
      OBVIOUS
    <3>2. Gathered(q, p, N, v, s) /\ s + 2 <= Len(v) /\ Len(v) \in Nat
      BY <1>3, <2>3, <2>4, <3>1 DEF L
    <3>3. Moved(w, q, N, v[Len(v) - s])
      BY <2>4, <2>5, <3>1, Zenon DEF L, Moved
    <3>4. Climbs(p, N, v)
      BY <1>3, Zenon DEF L, Climbs
    <3>5. Gathered(w, p, N, v, s + 1)
      BY <1>1, <3>2, <3>3, <3>4, GatherOne, Zenon
    <3> QED BY <3>1, <3>5
  <2>7. s + 1 = i /\ i \in 0..n
    BY <1>3, <2>1
  <2> QED BY <2>5, <2>6, <2>7
<1>12. \A i \in 0..n : i \in T
  <2> HIDE DEF T
  <2> QED BY <1>3, <1>10, <1>11, Induction
<1>13. n \in T
  <2> HIDE DEF T
  <2> QED BY <1>3, <1>12
<1> QED BY <1>3, <1>8, <1>13 DEF L, p

-----------------------------------------------------------------------------
\* How deep the nodes are after a step.
OneMore(u, p, N, m) ==
  /\ p[m] \in 0..N /\ p[m] < m /\ Len(u[p[m]]) \in Nat
  /\ Len(u[m]) = Len(u[p[m]]) + 1
LEMMA LongerByOne ==
  ASSUME NEW N, NEW h, NEW p, p = h.parent, Nested(p, N), NEW m \in 1..N
  PROVE  OneMore(Up(h), p, N, m)
<1>1. Rises(Up(h), p, N)
  BY UpIs, Zenon
<1>2. p[m] \in 0..N /\ p[m] < m /\ Up(h)[m] = Append(Up(h)[p[m]], m) /\ Up(h)[p[m]] \in Seq(1..N)
  BY <1>1, Zenon DEF Rises
<1> QED BY <1>2, AppendProperties, LenProperties DEF OneMore

LEMMA PathsGrow ==
  ASSUME NEW N, NEW h, Linked(h, N), NEW n \in 2..N, NEW g, Follows(g, h, N, n)
  PROVE  SamePaths(N, g, h) /\ Up(g)[N + 1] = Append(Up(h)[n], N + 1)
<1>1. Nested(h.parent, N) /\ Nested(g.parent, N + 1) /\ N \in Nat
  BY DEF Linked, Links, Nested, Follows
<1>2. SamePaths(N, g, h)
  <2>1. N <= N /\ N <= N + 1
    BY <1>1
  <2>2. SameUpTo(N, g, h)
    BY DEF SameUpTo, Follows
  <2> QED BY <1>1, <2>1, <2>2, SamePath, Zenon
<1>3. Rises(Up(g), g.parent, N + 1)
  BY <1>1, UpIs
<1>4. N + 1 \in 1..N + 1 /\ n \in 0..N /\ g.parent[N + 1] = n
  BY <1>1 DEF Follows
<1>5. Up(g)[N + 1] = Append(Up(g)[n], N + 1)
  BY <1>3, <1>4, Zenon DEF Rises
<1> QED BY <1>2, <1>4, <1>5, Zenon DEF SamePaths

Upto(q, p, d) == \A m \in 1..d : q[m] = p[m]
Lifted(q, p, u, N, d) == \A m \in 1..N : q[m] = p[m] \/ (q[m] = d /\ Len(u[d]) <= Len(u[p[m]]))
NoDeeper(w, u, N, d) == (\A m \in 0..d : w[m] = u[m]) /\ \A m \in 1..N : Len(w[m]) <= Len(u[m])
LEMMA NotDeeper ==
  ASSUME NEW N, NEW h, NEW p, p = h.parent, Nested(p, N), NEW g, NEW q, q = g.parent, Nested(q, N),
         NEW d \in 2..N, Upto(q, p, d), Lifted(q, p, Up(h), N, d)
  PROVE  NoDeeper(Up(g), Up(h), N, d)
<1> DEFINE T == {j \in 0..N : \A m \in 0..j : Len(Up(g)[m]) <= Len(Up(h)[m])}
<1>1. N \in Nat /\ N >= 2 /\ d \in Nat /\ d <= N /\ d \in 0..d /\ d \in 1..N
  BY DEF Nested
<1>2. \A m \in 0..d : Up(g)[m] = Up(h)[m]
  <2>1. Nested(h.parent, N) /\ Nested(g.parent, N) /\ SameUpTo(d, g, h)
    BY Zenon DEF SameUpTo, Upto
  <2>2. SamePaths(d, g, h)
    BY <1>1, <2>1, SamePath, Zenon
  <2> QED BY <2>2 DEF SamePaths
<1>3. Rises(Up(h), p, N) /\ Rises(Up(g), q, N)
  BY UpIs, Zenon
<1>4. \A m \in 0..N : Len(Up(h)[m]) \in Nat /\ Len(Up(g)[m]) \in Nat
  BY <1>3, LenProperties DEF Rises
<1>5. 0 \in T
  <2>1. Up(h)[0] = <<>> /\ Up(g)[0] = <<>>
    BY <1>3, Zenon DEF Rises
  <2>2. \A m \in 0..0 : m = 0
    OBVIOUS
  <2>3. 0 \in 0..N
    BY <1>1
  <2> QED BY <1>4, <2>1, <2>2, <2>3
<1>6. ASSUME NEW j \in 1..N, j - 1 \in T PROVE j \in T
  <2>1. /\ p[j] \in 0..N /\ p[j] < j /\ Len(Up(h)[j]) = Len(Up(h)[p[j]]) + 1
        /\ q[j] \in 0..N /\ q[j] < j /\ Len(Up(g)[j]) = Len(Up(g)[q[j]]) + 1
    <3>1. OneMore(Up(h), p, N, j) /\ OneMore(Up(g), q, N, j)
      BY LongerByOne, Zenon
    <3> QED BY <3>1 DEF OneMore
  <2>2. Len(Up(g)[q[j]]) <= Len(Up(h)[q[j]])
    <3>1. q[j] \in 0..j - 1
      BY <2>1
    <3> QED BY <1>6, <3>1
  <2>3. Len(Up(g)[q[j]]) <= Len(Up(h)[p[j]])
    <3>1. CASE q[j] = p[j]
      BY <2>2, <3>1
    <3>2. CASE q[j] = d /\ Len(Up(h)[d]) <= Len(Up(h)[p[j]])
      <4>1. Len(Up(h)[d]) \in Nat /\ Len(Up(h)[p[j]]) \in Nat /\ Len(Up(g)[d]) \in Nat
        BY <1>1, <1>4, <2>1
      <4> QED BY <2>2, <3>2, <4>1
    <3> QED BY <3>1, <3>2, Zenon DEF Lifted
  <2>4. Len(Up(g)[j]) <= Len(Up(h)[j])
    BY <1>4, <2>1, <2>3
  <2>5. \A m \in 0..j : m = j \/ m \in 0..j - 1
    OBVIOUS
  <2> QED BY <1>1, <1>6, <2>4, <2>5
<1>7. \A j \in 0..N : j \in T
  <2> HIDE DEF T
  <2> QED BY <1>1, <1>5, <1>6, Induction
<1>8. N \in T
  <2> HIDE DEF T
  <2> QED BY <1>1, <1>7
<1>9. \A m \in 1..N : Len(Up(g)[m]) <= Len(Up(h)[m])
  <2>1. \A m \in 1..N : m \in 0..N
    BY <1>1
  <2> QED BY <1>8, <2>1, Zenon
<1> QED BY <1>2, <1>9, Zenon DEF NoDeeper

-----------------------------------------------------------------------------
\* What holds of a document while it is parsed: the pointers agree, all that
\* is behind the current node is below it, the path to it has the names that
\* are counted, no node is too deep, a closed tag holds what stands before
\* its end, and what is left open stands around the current node.
TagNames == {tag.name : tag \in StartTags} \cup {"root", "text", "comment"}
Kinds == {"root", "text", "comment", "tag", "end"}
DomNode ==
  [kind : Kinds, name : TagNames, offset : Nat, length : Nat, closed : BOOLEAN,
   hidden : {tag.hidden : tag \in StartTags} \cup {FALSE}]

Rightmost(p, N, n) == \A k \in n + 1..N : p[k] >= n
Closes(p, N, n, e, cur) ==
  /\ e \in n + 1..N /\ (\A m \in n + 1..e - 1 : p[m] >= n) /\ p[e] < n
  /\ cur < n \/ cur >= e
Named(v, nd, ps) ==
  /\ ps \in Seq(TagNames) /\ Len(ps) <= MaxNesting /\ Len(v) = Len(ps) + 1
  /\ \A j \in 1..Len(ps) : nd[v[j + 1]].name = ps[j]
Around(p, nd, cur, m) == p[m] = 2 \/ nd[p[m]].closed \/ p[m] = cur \/ Under(p, p[m], cur)

Planned(h, nd) ==
  /\ nd \in Seq(DomNode) /\ Linked(h, Len(nd))
  /\ \A m \in 3..Len(nd) : nd[m].offset = m - 3
  /\ \A m \in 1..Len(nd) : Len(Up(h)[m]) <= MaxNesting + 2
Suits(h, nd, cur, ps) ==
  /\ Planned(h, nd)
  /\ cur \in 2..Len(nd) /\ Rightmost(h.parent, Len(nd), cur)
  /\ Named(Up(h)[cur], nd, ps)
  /\ \A m \in 3..Len(nd) :
       nd[m].closed => Closes(h.parent, Len(nd), m, m + nd[m].length - 1, cur)
  /\ \A m \in 3..Len(nd) : Around(h.parent, nd, cur, m)

SameUpto(q, p, N) == \A m \in 1..N : q[m] = p[m]
LEMMA RightmostGrows ==
  ASSUME NEW N \in Nat, NEW c \in 1..N, NEW p, NEW q,
         Rightmost(p, N, c), SameUpto(q, p, N), q[N + 1] = c
  PROVE  Rightmost(q, N + 1, c)
<1>1. \A k \in c + 1..N + 1 : k = N + 1 \/ (k \in c + 1..N /\ k \in 1..N)
  OBVIOUS
<1> QED BY <1>1 DEF Rightmost, SameUpto

LEMMA PathIsUp ==
  ASSUME NEW N, Linked(tree, N), current \in 2..N, NEW v, v = Up(tree)[current]
  PROVE  /\ v \in Seq(1..N) /\ Len(v) \in Nat /\ Len(v) >= 1
         /\ Tags!Path \in Seq(1..N) /\ Len(Tags!Path) = Len(v) - 1
         /\ \A i \in 1..Len(v) - 1 : Tags!Path[i] = v[i + 1]
         /\ DOMAIN Tags!Path = 1..Len(v) - 1
<1>1. Nested(tree.parent, N) /\ N \in Nat
  BY DEF Linked, Links, Nested
<1>2. Rises(Up(tree), tree.parent, N) /\ Tags!Ancestors(tree, current) = Up(tree)[tree.parent[current]]
  BY <1>1, UpIs
<1>3. current \in 1..N
  BY <1>1
<1>4. Append(Tags!Ancestors(tree, current), current) = v
  BY <1>2, <1>3, Zenon DEF Rises
<1>5. Tags!Path = Tail(v)
  BY <1>4, Zenon DEF Tags!Path
<1>6. PathIs(Up(tree), tree.parent, N, current, v)
  BY <1>1, PathsAre, Zenon
<1>7. v \in Seq(1..N) /\ Len(v) \in Nat /\ Len(v) >= 1
  BY <1>6, Zenon DEF PathIs
<1>8. v # <<>>
  BY <1>7
<1>9. Tail(v) \in Seq(1..N) /\ Len(Tail(v)) = Len(v) - 1 /\ \A i \in 1..Len(Tail(v)) : Tail(v)[i] = v[i + 1]
  BY <1>7, <1>8, HeadTailProperties
<1>10. DOMAIN Tail(v) = 1..Len(Tail(v))
  BY <1>9
<1> QED BY <1>5, <1>7, <1>9, <1>10

LEMMA FittingTree ==
  ASSUME MaxNesting \in Nat, Suits(tree, node, current, parents)
  PROVE  Tags!TreeFitsText /\ Tags!BudgetBoundsDepth
<1>1. PICK N, p, u : N = Len(node) /\ p = tree.parent /\ u = Up(tree)
  OBVIOUS
<1>2. Linked(tree, N) /\ Nested(p, N) /\ N \in Nat /\ N >= 2 /\ current \in 2..N /\ p \in [1..N -> Nat]
      /\ \A m \in 3..N : p[m] >= 2 /\ p[m] < m
  BY <1>1 DEF Suits, Planned, Linked, Links, Nested
<1>3. Tags!Nodes(tree) = 2..N /\ Tags!Null = 0 /\ Tags!Root = 2
  <2>1. Len(p) = N
    BY <1>2, AsSequence
  <2> QED BY <1>1, <2>1, Zenon DEF Tags!Nodes, Tags!Root, Tags!Null
<1>4. \A m \in 2..N : Tags!Ancestors(tree, m) = u[p[m]]
  BY <1>1, <1>2, UpIs
<1>5. ASSUME NEW m \in 2..N PROVE PathIs(u, p, N, m, u[m])
  BY <1>1, <1>2, PathsAre
<1>6. Tags!LinksAgree(tree)
  BY <1>2, LinksDoAgree
<1>7. ASSUME NEW n \in 3..N, NEW m \in 2..N
      PROVE  (\E i \in DOMAIN Tags!Ancestors(tree, m) : Tags!Ancestors(tree, m)[i] = n) <=> m \in 3..N /\ Under(p, n, m)
  <2>1. CASE m = 2
    <3>1. Tags!Ancestors(tree, 2) = <<>>
      <4>1. Rises(u, p, N) /\ p[2] = 0
        BY <1>1, <1>2, UpIs DEF Nested
      <4> QED BY <1>4, <2>1, <4>1 DEF Rises
    <3> QED BY <1>2, <2>1, <3>1
  <2>2. CASE m \in 3..N
    <3>1. p[m] \in 2..N
      BY <1>2, <2>2
    <3>2. PathIs(u, p, N, p[m], u[p[m]])
      BY <1>5, <3>1
    <3>3. PICK s : s = u[p[m]]
      OBVIOUS
    <3>0. n \in 2..N
      BY <1>2
    <3>4. s \in Seq(1..N) /\ ((\E j \in 1..Len(s) : s[j] = n) <=> n = p[m] \/ Under(p, n, p[m]))
      BY <3>0, <3>2, <3>3 DEF PathIs
    <3>5. DOMAIN s = 1..Len(s)
      BY <3>4
    <3>6. Under(p, n, m) <=> n = p[m] \/ Under(p, n, p[m])
      BY <1>2, <2>2, <3>0, UnderParent
    <3> QED BY <1>4, <2>2, <3>3, <3>4, <3>5, <3>6
  <2> QED BY <1>2, <2>1, <2>2
<1>8. ASSUME NEW n \in 3..N, node[n].closed
      PROVE  Tags!Below(tree, n) =
               {m \in (2..N) \ {2} : /\ node[m].offset > node[n].offset
                                     /\ node[m].offset < node[n].offset + node[n].length - 1}
  <2>1. PICK e : e = n + node[n].length - 1
    OBVIOUS
  <2>2. Closes(p, N, n, e, current)
    BY <1>1, <1>8, <2>1 DEF Suits, Planned
  <2>3. e \in n + 1..N /\ (\A m \in n + 1..e - 1 : p[m] >= n) /\ p[e] < n
    BY <2>2 DEF Closes
  <2>4. \A m \in 3..N : node[m].offset = m - 3
    BY <1>1 DEF Suits, Planned
  <2>5. node[n].length \in Nat
    <3>1. node[n] \in DomNode
      BY <1>1, ElementOfSeq DEF Suits, Planned
    <3> QED BY <3>1 DEF DomNode
  <2>6. ASSUME NEW m \in 3..N PROVE Under(p, n, m) <=> n < m /\ m < e
    <3>1. ASSUME n < m, m < e PROVE Under(p, n, m)
      <4>1. \A k \in 3..m : n < k => k \in n + 1..e - 1
        BY <1>2, <2>3, <3>1
      <4> QED BY <2>3, <3>1, <4>1 DEF Under
    <3>2. ASSUME Under(p, n, m) PROVE n < m /\ m < e
      <4>1. n < m /\ \A k \in 3..m : n < k => p[k] >= n
        BY <3>2 DEF Under
      <4>2. ASSUME e <= m PROVE FALSE
        <5>1. e \in 3..m /\ n < e
          BY <1>2, <2>3, <4>2
        <5>2. p[e] >= n /\ p[e] \in Nat
          BY <1>2, <4>1, <5>1
        <5> QED BY <2>3, <5>2
      <4> QED BY <1>2, <2>3, <4>1, <4>2
    <3> QED BY <3>1, <3>2
  <2>7. ASSUME NEW m \in 3..N
        PROVE  (/\ node[m].offset > node[n].offset
                /\ node[m].offset < node[n].offset + node[n].length - 1) <=> n < m /\ m < e
    <3>1. node[m].offset = m - 3 /\ node[n].offset = n - 3
      BY <2>4
    <3>2. PICK l \in Nat : l = node[n].length
      BY <2>5
    <3>3. n \in Nat /\ m \in Nat /\ e = n + l - 1
      BY <1>2, <2>1, <3>2
    <3>4. (m - 3 > n - 3 /\ m - 3 < n - 3 + l - 1) <=> n < m /\ m < e
      BY <3>3
    <3> QED BY <3>1, <3>2, <3>4
  <2>8. Tags!Below(tree, n) = {m \in 2..N : m \in 3..N /\ Under(p, n, m)}
    <3>1. Tags!Below(tree, n) =
            {m \in 2..N : \E i \in DOMAIN Tags!Ancestors(tree, m) : Tags!Ancestors(tree, m)[i] = n}
      BY <1>3, Zenon DEF Tags!Below
    <3> QED BY <1>7, <3>1, Zenon
  <2>9. \A m \in 2..N : m # 2 <=> m \in 3..N
    BY <1>2
  <2>10. \A m \in 2..N : m \in 3..N /\ Under(p, n, m) <=>
           m # 2 /\ node[m].offset > node[n].offset
           /\ node[m].offset < node[n].offset + node[n].length - 1
    BY <2>6, <2>7, <2>9, Zenon
  <2>11. {m \in 2..N : m \in 3..N /\ Under(p, n, m)} =
           {m \in (2..N) \ {2} : /\ node[m].offset > node[n].offset
                                 /\ node[m].offset < node[n].offset + node[n].length - 1}
    BY <2>10, Zenon
  <2> QED BY <2>8, <2>11, Zenon
<1>9. ASSUME NEW n \in 2..N, tree.first[n] # 0
      PROVE  n = 2 \/ node[n].closed \/ n = current \/ \E i \in DOMAIN Tags!Path : Tags!Path[i] = n
  <2>1. FirstIs(p, N, n, tree.first[n])
    BY <1>1, <1>2 DEF Linked, Links
  <2>2. PICK m \in 3..N : p[m] = n
    BY <1>9, <2>1 DEF FirstIs
  <2>3. Around(p, node, current, m)
    BY <1>1 DEF Suits, Planned
  <2>4. CASE n # 2 /\ Under(p, n, current)
    <3>1. PICK v : v = u[current]
      OBVIOUS
    <3>2. PathIs(u, p, N, current, v)
      BY <1>2, <1>5, <3>1
    <3>3. \E j \in 1..Len(v) : v[j] = n
      BY <2>4, <3>2 DEF PathIs
    <3>4. v[1] = 2 /\ Len(v) \in Nat
      BY <3>2 DEF PathIs
    <3>5. PICK j \in 1..Len(v) : v[j] = n
      BY <3>3
    <3>6. j # 1 /\ j - 1 \in 1..Len(v) - 1 /\ (j - 1) + 1 = j
      BY <2>4, <3>4, <3>5
    <3>7. /\ \A i \in 1..Len(v) - 1 : Tags!Path[i] = v[i + 1]
          /\ DOMAIN Tags!Path = 1..Len(v) - 1
      BY <1>1, <1>2, <3>1, PathIsUp
    <3>8. Tags!Path[j - 1] = n
      BY <3>5, <3>6, <3>7
    <3> QED BY <3>6, <3>7, <3>8
  <2> QED BY <2>2, <2>3, <2>4 DEF Around
<1>10. Tags!TreeFitsText
  <2>1. \A n \in (2..N) \ {2} : n \in 3..N
    BY <1>2
  <2> QED BY <1>3, <1>6, <1>8, <1>9, <2>1, Zenon DEF Tags!TreeFitsText
<1>11. ASSUME NEW m \in 2..N PROVE Tags!depth(tree, m) \in Nat /\ Len(u[m]) = Tags!depth(tree, m) + 1
  <2>1. OneMore(u, p, N, m)
    BY <1>1, <1>2, LongerByOne
  <2> QED BY <1>4, <2>1 DEF OneMore, Tags!depth
<1>12. Tags!depth(tree, current) = Len(parents)
  <2>1. Len(u[current]) = Len(parents) + 1 /\ Len(parents) \in Nat
    BY <1>1, LenProperties DEF Suits, Planned, Named
  <2> QED BY <1>2, <1>11, <2>1
<1>13. \A m \in 2..N : Tags!depth(tree, m) <= MaxNesting + 1
  <2>1. \A m \in 2..N : Len(u[m]) <= MaxNesting + 2
    BY <1>1, <1>2 DEF Suits, Planned
  <2> QED BY <1>11, <2>1
<1> QED BY <1>3, <1>10, <1>12, <1>13, Zenon DEF Tags!BudgetBoundsDepth

-----------------------------------------------------------------------------
\* The parents q, nodes md and paths w once a token was appended below n.
Grown(q, p, md, nd, w, u, N, n, tok) ==
  /\ N \in Nat /\ N >= 2 /\ Nested(p, N) /\ Nested(q, N + 1)
  /\ q[N + 1] = n /\ \A m \in 1..N : q[m] = p[m]
  /\ Len(md) = N + 1 /\ md[N + 1] = tok /\ \A m \in 1..N : md[m] = nd[m]
  /\ w[N + 1] = Append(u[n], N + 1) /\ \A m \in 1..N : w[m] = u[m] /\ u[m] \in Seq(1..N)

LEMMA AppendPlanned ==
  ASSUME MaxNesting \in Nat, NEW h, NEW nd, Planned(h, nd), NEW n, n \in 2..Len(nd),
         Rightmost(h.parent, Len(nd), n), Len(Up(h)[n]) <= MaxNesting + 1,
         NEW tok \in DomNode, tok.offset = Len(nd) - 2, NEW g, g = Tags!append_child(h, n)
  PROVE  /\ Planned(g, Append(nd, tok))
         /\ Grown(g.parent, h.parent, Append(nd, tok), nd, Up(g), Up(h), Len(nd), n, tok)
<1>1. PICK N, p, md : N = Len(nd) /\ p = h.parent /\ md = Append(nd, tok)
  OBVIOUS
<1>2. nd \in Seq(DomNode) /\ Linked(h, N) /\ Nested(p, N) /\ N \in Nat /\ N >= 2 /\ n \in 2..N /\ n \in 1..N
  <2>1. nd \in Seq(DomNode) /\ Linked(h, N)
    BY <1>1 DEF Planned
  <2>2. Nested(p, N) /\ N \in Nat /\ N >= 2
    BY <1>1, <2>1 DEF Linked, Links, Nested
  <2>3. n \in 2..N /\ n \in 1..N
    BY <1>1, <2>2
  <2> QED BY <2>1, <2>2, <2>3
<1>3. md \in Seq(DomNode) /\ Len(md) = N + 1 /\ md[N + 1] = tok /\ \A m \in 1..N : md[m] = nd[m]
  BY <1>1, <1>2, AppendProperties
<1>4. Linked(g, N + 1) /\ g.parent[N + 1] = n /\ \A m \in 1..N : g.parent[m] = h.parent[m]
  <2>1. \A k \in n + 1..N : h.parent[k] >= n
    BY <1>1 DEF Rightmost
  <2>2. Follows(Tags!append_child(h, n), h, N, n)
    BY <1>2, <2>1, AppendLinked
  <2> QED BY <2>2 DEF Follows
<1>5. (\A m \in 0..N : Up(g)[m] = Up(h)[m]) /\ Up(g)[N + 1] = Append(Up(h)[n], N + 1)
  <2>1. Follows(g, h, N, n)
    BY <1>4 DEF Follows
  <2>2. SamePaths(N, g, h) /\ Up(g)[N + 1] = Append(Up(h)[n], N + 1)
    BY <1>2, <2>1, PathsGrow, Zenon
  <2> QED BY <2>2 DEF SamePaths
<1>6. \A m \in 1..N : Up(h)[m] \in Seq(1..N) /\ Len(Up(h)[m]) \in Nat
  <2>1. Rises(Up(h), p, N)
    BY <1>1, <1>2, UpIs
  <2> QED BY <1>2, <2>1, LenProperties DEF Rises
<1>7. Nested(g.parent, N + 1)
  BY <1>4 DEF Linked, Links
<1>8. Grown(g.parent, p, md, nd, Up(g), Up(h), N, n, tok)
  <2>1. \A m \in 1..N : Up(g)[m] = Up(h)[m]
    <3>1. \A m \in 1..N : m \in 0..N
      BY <1>2
    <3> QED BY <1>5, <3>1
  <2> QED BY <1>1, <1>2, <1>3, <1>4, <1>5, <1>6, <1>7, <2>1, Zenon DEF Grown
<1>9. \A m \in 3..N + 1 : md[m].offset = m - 3
  <2>1. \A m \in 3..N : nd[m].offset = m - 3
    BY <1>1 DEF Planned
  <2>2. \A m \in 3..N + 1 : m = N + 1 \/ (m \in 3..N /\ m \in 1..N)
    BY <1>2
  <2>3. tok.offset = (N + 1) - 3
    BY <1>1, <1>2
  <2> QED BY <1>3, <2>1, <2>2, <2>3
<1>10. \A m \in 1..N + 1 : Len(Up(g)[m]) <= MaxNesting + 2
  <2>1. \A m \in 1..N : Len(Up(h)[m]) <= MaxNesting + 2
    BY <1>1 DEF Planned
  <2>2. \A m \in 1..N + 1 : m = N + 1 \/ (m \in 1..N /\ m \in 0..N)
    BY <1>2
  <2>3. Len(Up(g)[N + 1]) <= MaxNesting + 2
    <3>1. PICK s \in Seq(1..N) : s = Up(h)[n] /\ Len(s) \in Nat
      BY <1>2, <1>6
    <3>2. Len(Append(s, N + 1)) = Len(s) + 1
      <4>1. s \in Seq(Nat)
        <5>1. s = [i \in 1..Len(s) |-> s[i]] /\ \A i \in 1..Len(s) : s[i] \in 1..N
          BY <3>1, LenProperties, ElementOfSeq
        <5>2. s \in [1..Len(s) -> Nat]
          BY <5>1
        <5> QED BY <3>1, <5>2, SeqDef
      <4> QED BY <1>2, <4>1, AppendProperties
    <3> QED BY <1>5, <3>1, <3>2
  <2> QED BY <1>5, <2>1, <2>2, <2>3
<1> QED BY <1>1, <1>3, <1>4, <1>8, <1>9, <1>10 DEF Planned

\* What was closed stays so, and the new node stands below n.
KeptAround(q, p, md, nd, N) == \A m \in 3..N : q[m] = p[m] /\ q[m] \in 2..N /\ md[q[m]] = nd[p[m]]
KeptClosed(q, p, N, cur, to) ==
  \A m \in 3..N, e \in 3..N :
    (cur < m \/ cur >= e => to < m \/ to >= e) /\ Closes(p, N, m, e, cur) => Closes(q, N + 1, m, e, to)
KeptUnder(q, p, N, n) ==
  \A k \in 2..N : /\ Under(q, k, n) <=> Under(p, k, n)
                  /\ Under(q, k, N + 1) <=> k = n \/ Under(p, k, n)
LEMMA GrownAround ==
  ASSUME NEW q, NEW p, NEW md, NEW nd, NEW w, NEW u, NEW N, NEW n, n \in 2..N, NEW tok,
         Grown(q, p, md, nd, w, u, N, n, tok)
  PROVE  /\ KeptAround(q, p, md, nd, N) /\ KeptUnder(q, p, N, n)
         /\ \A cur \in 2..N, to \in 2..N + 1 : KeptClosed(q, p, N, cur, to)
<1>1. /\ N \in Nat /\ N >= 2 /\ Nested(p, N) /\ Nested(q, N + 1)
      /\ q[N + 1] = n /\ \A m \in 1..N : q[m] = p[m]
      /\ md[N + 1] = tok /\ \A m \in 1..N : md[m] = nd[m]
  BY DEF Grown
<1>2. \A m \in 3..N : m \in 1..N /\ p[m] \in 2..N /\ p[m] \in 1..N
  <2>1. p \in [1..N -> Nat] /\ \A m \in 3..N : p[m] >= 2 /\ p[m] < m
    BY <1>1 DEF Nested
  <2> QED BY <1>1, <2>1
<1>3. \A m \in 3..N : q[m] = p[m] /\ q[m] \in 2..N /\ md[q[m]] = nd[p[m]]
  BY <1>1, <1>2
<1>4. ASSUME NEW m \in 3..N, NEW e \in 3..N, NEW cur \in 2..N, NEW to \in 2..N + 1,
             cur < m \/ cur >= e => to < m \/ to >= e, Closes(p, N, m, e, cur)
      PROVE  Closes(q, N + 1, m, e, to)
  <2>1. e \in m + 1..N /\ (\A k \in m + 1..e - 1 : p[k] >= m) /\ p[e] < m /\ (to < m \/ to >= e)
    BY <1>4 DEF Closes
  <2>2. \A k \in m + 1..e - 1 : k \in 3..N
    BY <1>1, <2>1
  <2>3. e \in m + 1..N + 1
    BY <1>1, <2>1
  <2> QED BY <1>3, <2>1, <2>2, <2>3 DEF Closes
<1>5. \A k \in 2..N : Under(q, k, n) <=> Under(p, k, n)
  <2>1. \A i \in 3..n : i \in 3..N
    BY <1>1
  <2> QED BY <1>3, <2>1 DEF Under
<1>6. \A k \in 2..N : Under(q, k, N + 1) <=> k = n \/ Under(p, k, n)
  <2>1. N + 1 \in 3..N + 1 /\ \A k \in 2..N : k \in 2..N + 1
    BY <1>1
  <2> QED BY <1>1, <1>5, <2>1, UnderParent
<1>7. \A cur \in 2..N, to \in 2..N + 1 : KeptClosed(q, p, N, cur, to)
  BY <1>4, Zenon DEF KeptClosed
<1> QED BY <1>3, <1>5, <1>6, <1>7, Zenon DEF KeptAround, KeptUnder

\* The current node takes a token that has no children, or one that becomes
\* the current node.
LEMMA FittingIs ==
  ASSUME MaxNesting \in Nat, NEW h, NEW nd, NEW cur, NEW ps, Suits(h, nd, cur, ps),
         NEW N, N = Len(nd), NEW p, p = h.parent, NEW v, v = Up(h)[cur]
  PROVE  /\ N \in Nat /\ N >= 2 /\ Nested(p, N) /\ cur \in 2..N /\ Rightmost(p, N, cur)
         /\ v \in Seq(1..N) /\ PathIs(Up(h), p, N, cur, v) /\ Named(v, nd, ps)
         /\ Len(ps) \in Nat /\ Len(v) = Len(ps) + 1 /\ Len(v) <= MaxNesting + 1
<1>1. N \in Nat /\ N >= 2 /\ Nested(p, N) /\ cur \in 2..N /\ Rightmost(p, N, cur) /\ Named(v, nd, ps)
  BY DEF Suits, Planned, Linked, Links, Nested
<1>2. PathIs(Up(h), p, N, cur, v)
  BY <1>1, PathsAre, Zenon
<1>3. v \in Seq(1..N)
  BY <1>2, Zenon DEF PathIs
<1>4. Len(ps) \in Nat /\ Len(v) = Len(ps) + 1 /\ Len(v) <= MaxNesting + 1
  <2>1. ps \in Seq(TagNames) /\ Len(ps) <= MaxNesting /\ Len(v) = Len(ps) + 1
    BY <1>1, Zenon DEF Named
  <2>2. Len(ps) \in Nat
    BY <2>1, LenProperties
  <2> QED BY <2>1, <2>2
<1> QED BY <1>1, <1>2, <1>3, <1>4

LEMMA LeafFits ==
  ASSUME MaxNesting \in Nat, NEW h, NEW nd, NEW cur, NEW ps, Suits(h, nd, cur, ps),
         NEW tok \in DomNode, tok.offset = Len(nd) - 2, ~tok.closed
  PROVE  Suits(Tags!append_child(h, cur), Append(nd, tok), cur, ps)
<1>1. PICK N, p, v, g, q, md : /\ N = Len(nd) /\ p = h.parent /\ v = Up(h)[cur]
                               /\ g = Tags!append_child(h, cur) /\ q = g.parent /\ md = Append(nd, tok)
  OBVIOUS
<1>2. /\ N \in Nat /\ N >= 2 /\ cur \in 2..N /\ Rightmost(p, N, cur) /\ v \in Seq(1..N) /\ Named(v, nd, ps)
      /\ Len(ps) \in Nat /\ Len(v) = Len(ps) + 1 /\ Len(v) <= MaxNesting + 1
  BY <1>1, FittingIs
<1>3. Planned(g, md) /\ Grown(q, p, md, nd, Up(g), Up(h), N, cur, tok)
  BY <1>1, <1>2, AppendPlanned DEF Suits
<1>4. /\ Len(md) = N + 1 /\ q[N + 1] = cur /\ md[N + 1] = tok
      /\ \A m \in 1..N : q[m] = p[m] /\ md[m] = nd[m] /\ Up(g)[m] = Up(h)[m]
  BY <1>3 DEF Grown
<1>5. /\ \A m \in 3..N : q[m] = p[m] /\ q[m] \in 2..N /\ md[q[m]] = nd[p[m]]
      /\ \A m \in 3..N, e \in 3..N : Closes(p, N, m, e, cur) => Closes(q, N + 1, m, e, cur)
      /\ \A k \in 2..N : Under(q, k, cur) <=> Under(p, k, cur)
  <2>1. cur \in 2..N + 1
    BY <1>2
  <2>2. KeptAround(q, p, md, nd, N) /\ KeptUnder(q, p, N, cur) /\ KeptClosed(q, p, N, cur, cur)
    BY <1>2, <1>3, <2>1, GrownAround, Zenon
  <2> QED BY <2>2, Zenon DEF KeptAround, KeptUnder, KeptClosed
<1>6. \A m \in 3..N + 1 : m = N + 1 \/ (m \in 3..N /\ m \in 1..N)
  BY <1>2
<1>7. Rightmost(q, N + 1, cur)
  <2>1. N \in Nat /\ cur \in 1..N /\ Rightmost(p, N, cur)
    BY <1>2
  <2>2. SameUpto(q, p, N) /\ q[N + 1] = cur
    BY <1>4, Zenon DEF SameUpto
  <2> QED BY <2>1, <2>2, RightmostGrows, Zenon
<1>8. Named(Up(g)[cur], md, ps)
  <2>1. Up(g)[cur] = v
    BY <1>1, <1>2, <1>4
  <2>2. \A j \in 1..Len(ps) : v[j + 1] \in 1..N
    <3>1. \A j \in 1..Len(ps) : j + 1 \in 1..Len(v)
      BY <1>2
    <3> QED BY <1>2, <3>1, ElementOfSeq
  <2> QED BY <1>2, <1>4, <2>1, <2>2 DEF Named
<1>9. ASSUME NEW m \in 3..N + 1, md[m].closed PROVE Closes(q, N + 1, m, m + md[m].length - 1, cur)
  <2>1. m \in 3..N /\ md[m] = nd[m]
    BY <1>4, <1>6, <1>9
  <2>2. Closes(p, N, m, m + nd[m].length - 1, cur)
    BY <1>1, <1>9, <2>1 DEF Suits
  <2>3. m + nd[m].length - 1 \in 3..N
    <3>1. m + nd[m].length - 1 \in m + 1..N
      BY <2>2 DEF Closes
    <3>2. PICK e \in m + 1..N : e = m + nd[m].length - 1
      BY <3>1
    <3>3. e \in 3..N
      BY <1>2, <2>1
    <3> QED BY <3>2, <3>3
  <2> QED BY <1>5, <2>1, <2>2, <2>3
<1>10. ASSUME NEW m \in 3..N + 1 PROVE Around(q, md, cur, m)
  <2>1. CASE m = N + 1
    BY <1>4, <2>1 DEF Around
  <2>2. CASE m \in 3..N
    <3>1. Around(p, nd, cur, m)
      BY <1>1, <2>2 DEF Suits
    <3> QED BY <1>5, <2>2, <3>1 DEF Around
  <2> QED BY <1>6, <2>1, <2>2
<1>11. cur \in 2..N + 1
  BY <1>2
<1>12. Suits(g, md, cur, ps)
  BY <1>1, <1>3, <1>4, <1>7, <1>8, <1>9, <1>10, <1>11 DEF Suits
<1> QED BY <1>1, <1>12

LEMMA OpenFits ==
  ASSUME MaxNesting \in Nat, NEW h, NEW nd, NEW cur, NEW ps, Suits(h, nd, cur, ps),
         NEW tok \in DomNode, tok.offset = Len(nd) - 2, ~tok.closed, Len(Append(ps, tok.name)) <= MaxNesting
  PROVE  Suits(Tags!append_child(h, cur), Append(nd, tok), Len(nd) + 1, Append(ps, tok.name))
<1>1. PICK N, p, v, g, q, md : /\ N = Len(nd) /\ p = h.parent /\ v = Up(h)[cur]
                               /\ g = Tags!append_child(h, cur) /\ q = g.parent /\ md = Append(nd, tok)
  OBVIOUS
<1>2. /\ N \in Nat /\ N >= 2 /\ cur \in 2..N /\ Rightmost(p, N, cur) /\ v \in Seq(1..N) /\ Named(v, nd, ps)
      /\ Len(ps) \in Nat /\ Len(v) = Len(ps) + 1 /\ Len(v) <= MaxNesting + 1
  BY <1>1, FittingIs
<1>3. Planned(g, md) /\ Grown(q, p, md, nd, Up(g), Up(h), N, cur, tok)
  BY <1>1, <1>2, AppendPlanned DEF Suits
<1>4. /\ Len(md) = N + 1 /\ q[N + 1] = cur /\ md[N + 1] = tok /\ Up(g)[N + 1] = Append(v, N + 1)
      /\ \A m \in 1..N : q[m] = p[m] /\ md[m] = nd[m]
  BY <1>1, <1>3 DEF Grown
<1>5. /\ \A m \in 3..N : q[m] = p[m] /\ q[m] \in 2..N /\ md[q[m]] = nd[p[m]]
      /\ \A m \in 3..N, e \in 3..N : Closes(p, N, m, e, cur) => Closes(q, N + 1, m, e, N + 1)
      /\ \A k \in 2..N : Under(q, k, N + 1) <=> k = cur \/ Under(p, k, cur)
  <2>1. N + 1 \in 2..N + 1 /\ \A e \in 3..N : N + 1 >= e
    BY <1>2
  <2>2. KeptAround(q, p, md, nd, N) /\ KeptUnder(q, p, N, cur) /\ KeptClosed(q, p, N, cur, N + 1)
    BY <1>2, <1>3, <2>1, GrownAround, Zenon
  <2> QED BY <2>1, <2>2, Zenon DEF KeptAround, KeptUnder, KeptClosed
<1>6. \A m \in 3..N + 1 : m = N + 1 \/ (m \in 3..N /\ m \in 1..N)
  BY <1>2
<1>7. Rightmost(q, N + 1, N + 1)
  BY <1>2 DEF Rightmost
<1>8. Named(Up(g)[N + 1], md, Append(ps, tok.name))
  <2>1. ps \in Seq(TagNames) /\ tok.name \in TagNames /\ \A j \in 1..Len(ps) : nd[v[j + 1]].name = ps[j]
    BY <1>2 DEF Named, DomNode
  <2>2. PICK r, w : r = Append(ps, tok.name) /\ w = Append(v, N + 1)
    OBVIOUS
  <2>3. /\ r \in Seq(TagNames) /\ Len(r) = Len(ps) + 1 /\ r[Len(ps) + 1] = tok.name
        /\ \A j \in 1..Len(ps) : r[j] = ps[j]
    BY <2>1, <2>2, AppendProperties
  <2>4. Len(w) = Len(v) + 1 /\ w[Len(v) + 1] = N + 1 /\ \A j \in 1..Len(v) : w[j] = v[j]
    <3>1. v \in Seq(Nat)
      <4>1. v = [i \in 1..Len(v) |-> v[i]] /\ \A i \in 1..Len(v) : v[i] \in 1..N
        BY <1>2, LenProperties, ElementOfSeq
      <4>2. v \in [1..Len(v) -> Nat]
        BY <4>1
      <4> QED BY <1>2, <4>2, SeqDef
    <3> QED BY <1>2, <2>2, <3>1, AppendProperties
  <2>5. ASSUME NEW j \in 1..Len(r) PROVE md[w[j + 1]].name = r[j]
    <3>1. CASE j = Len(ps) + 1
      <4>1. w[j + 1] = N + 1
        BY <1>2, <2>4, <3>1
      <4> QED BY <1>4, <2>3, <3>1, <4>1
    <3>2. CASE j \in 1..Len(ps)
      <4>1. j + 1 \in 1..Len(v)
        BY <1>2, <3>2
      <4>2. v[j + 1] \in 1..N /\ w[j + 1] = v[j + 1]
        BY <1>2, <2>4, <4>1, ElementOfSeq
      <4> QED BY <1>4, <2>1, <2>3, <3>2, <4>2
    <3> QED BY <1>2, <2>3, <3>1, <3>2
  <2>6. Len(w) = Len(r) + 1 /\ Len(r) <= MaxNesting
    BY <1>2, <2>2, <2>3, <2>4
  <2> QED BY <1>4, <2>2, <2>3, <2>5, <2>6 DEF Named
<1>9. ASSUME NEW m \in 3..N + 1, md[m].closed PROVE Closes(q, N + 1, m, m + md[m].length - 1, N + 1)
  <2>1. m \in 3..N /\ md[m] = nd[m]
    BY <1>4, <1>6, <1>9
  <2>2. Closes(p, N, m, m + nd[m].length - 1, cur)
    BY <1>1, <1>9, <2>1 DEF Suits
  <2>3. m + nd[m].length - 1 \in 3..N
    <3>1. m + nd[m].length - 1 \in m + 1..N
      BY <2>2 DEF Closes
    <3>2. PICK e \in m + 1..N : e = m + nd[m].length - 1
      BY <3>1
    <3>3. e \in 3..N
      BY <1>2, <2>1
    <3> QED BY <3>2, <3>3
  <2> QED BY <1>5, <2>1, <2>2, <2>3
<1>10. ASSUME NEW m \in 3..N + 1 PROVE Around(q, md, N + 1, m)
  <2>1. CASE m = N + 1
    BY <1>2, <1>4, <1>5, <2>1 DEF Around
  <2>2. CASE m \in 3..N
    <3>1. Around(p, nd, cur, m)
      BY <1>1, <2>2 DEF Suits
    <3> QED BY <1>5, <2>2, <3>1 DEF Around
  <2> QED BY <1>6, <2>1, <2>2
<1>11. N + 1 \in 2..N + 1
  BY <1>2
<1>12. Suits(g, md, N + 1, Append(ps, tok.name))
  BY <1>1, <1>3, <1>4, <1>7, <1>8, <1>9, <1>10, <1>11 DEF Suits
<1> QED BY <1>1, <1>12

-----------------------------------------------------------------------------
\* An end was found: of the path v to the current node the c-th is closed, what
\* is open inside it is flattened, and its parent becomes the current node.
Way(u, p, N, cur, v, c, tag, to) ==
  /\ N \in Nat /\ Nested(p, N) /\ cur \in 2..N /\ Rightmost(p, N, cur)
  /\ PathIs(u, p, N, cur, v) /\ c \in 2..Len(v) /\ tag = v[c] /\ to = v[c - 1]
Folded(q, p, N, v, c) ==
  \A m \in 1..N : q[m] = IF \E j \in c + 1..Len(v) : p[m] = v[j] THEN v[c] ELSE p[m]
Open(p, k, cur) == k = cur \/ Under(p, k, cur)

LEMMA GatheredFolds ==
  ASSUME NEW q, NEW p, NEW N, NEW v, Len(v) \in Nat, NEW c \in 1..Len(v), Gathered(q, p, N, v, Len(v) - c)
  PROVE  Folded(q, p, N, v, c)
<1>1. Len(v) - (Len(v) - c) = c
  OBVIOUS
<1> QED BY <1>1 DEF Gathered, Folded

WaySimple(p, N, cur, v, c, tag, to) ==
  /\ N \in Nat /\ N >= 2 /\ p \in [1..N -> Nat] /\ p[1] = 0 /\ p[2] = 0
  /\ tag \in 3..N /\ to \in 2..N /\ cur \in 2..N /\ p[tag] = to /\ to < tag /\ tag <= cur
  /\ Len(v) \in Nat /\ c \in 2..Len(v) /\ tag = v[c] /\ to = v[c - 1]
  /\ Open(p, tag, cur)
WayNodes(p, N, cur, v, c, tag) ==
  \A j \in c + 1..Len(v) : v[j] \in 3..N /\ tag < v[j] /\ Open(p, v[j], cur)
LEMMA WayIs ==
  ASSUME NEW u, NEW p, NEW N, NEW cur, NEW v, NEW c, NEW tag, NEW to, Way(u, p, N, cur, v, c, tag, to)
  PROVE  WaySimple(p, N, cur, v, c, tag, to) /\ WayNodes(p, N, cur, v, c, tag)
<1>1. N \in Nat /\ N >= 2 /\ p \in [1..N -> Nat] /\ p[1] = 0 /\ p[2] = 0 /\ cur \in 2..N
  BY DEF Way, Nested
<1>2. PathIs(u, p, N, cur, v) /\ c \in 2..Len(v) /\ tag = v[c] /\ to = v[c - 1]
  BY DEF Way
<1>3. /\ Len(v) \in Nat /\ v[Len(v)] = cur
      /\ \A j \in 1..Len(v) : v[j] \in 2..N
      /\ \A j \in 2..Len(v) : v[j] \in 3..N /\ p[v[j]] = v[j - 1]
      /\ \A i, j \in 1..Len(v) : i < j => v[i] < v[j]
  BY <1>2 DEF PathIs
<1>4. \A j \in 1..Len(v) : Open(p, v[j], cur)
  <2>1. \A n \in 2..N : (\E j \in 1..Len(v) : v[j] = n) <=> n = cur \/ Under(p, n, cur)
    BY <1>2 DEF PathIs
  <2> QED BY <1>3, <2>1, Zenon DEF Open
<1>5. c \in 1..Len(v) /\ c - 1 \in 1..Len(v) /\ c - 1 < c /\ Len(v) \in 1..Len(v)
  BY <1>2, <1>3
<1>6. tag \in 3..N /\ to \in 2..N /\ p[tag] = to /\ to < tag
  BY <1>2, <1>3, <1>5
<1>7. tag <= cur
  <2>1. c = Len(v) \/ v[c] < v[Len(v)]
    BY <1>2, <1>3, <1>5
  <2>2. CASE c = Len(v)
    BY <1>2, <1>3, <1>6, <2>2
  <2>3. CASE v[c] < v[Len(v)]
    <3>1. tag < cur
      BY <1>2, <1>3, <2>3
    <3> QED BY <1>1, <1>6, <3>1
  <2> QED BY <2>1, <2>2, <2>3
<1>8. WayNodes(p, N, cur, v, c, tag)
  <2>1. \A j \in c + 1..Len(v) : j \in 1..Len(v) /\ j \in 2..Len(v) /\ c < j
    BY <1>2, <1>3
  <2> QED BY <1>2, <1>3, <1>4, <1>5, <2>1, Zenon DEF WayNodes
<1>9. Open(p, tag, cur)
  BY <1>2, <1>4, <1>5, Zenon
<1> QED BY <1>1, <1>2, <1>3, <1>6, <1>7, <1>8, <1>9, Zenon DEF WaySimple

Below(q, p, N, tag) == \A m \in tag + 1..N : p[m] >= tag /\ q[m] >= tag
Either(q, p, N, tag, cur) ==
  \A m \in 1..N : q[m] = p[m] \/ (q[m] = tag /\ p[m] \in 3..N /\ tag < p[m] /\ Open(p, p[m], cur))
Rest(q, p, N, tag, to, cur) ==
  \A m \in 3..N : q[m] = p[m] /\ Open(p, p[m], cur) => p[m] = tag \/ Open(p, p[m], to)

LEMMA FoldedUpto ==
  ASSUME NEW q, NEW p, NEW N, NEW cur, NEW v, NEW c, NEW tag, NEW to, Nested(p, N),
         WaySimple(p, N, cur, v, c, tag, to), WayNodes(p, N, cur, v, c, tag), Folded(q, p, N, v, c)
  PROVE  Upto(q, p, tag) /\ Either(q, p, N, tag, cur)
<1>1. ASSUME NEW m \in 1..tag PROVE q[m] = p[m]
  <2>1. m \in 1..N /\ p[m] \in Nat /\ p[m] <= m /\ m <= tag /\ tag \in Nat
    <3>1. N \in Nat /\ tag \in 3..N /\ p[1] = 0 /\ p[2] = 0 /\ p \in [1..N -> Nat]
      BY DEF WaySimple
    <3>2. \A k \in 3..N : p[k] < k
      BY DEF Nested
    <3>3. m = 1 \/ m = 2 \/ m \in 3..N
      BY <3>1
    <3>4. m \in 1..N /\ p[m] \in Nat
      BY <3>1
    <3> QED BY <3>1, <3>2, <3>3, <3>4
  <2>2. ASSUME NEW j \in c + 1..Len(v), p[m] = v[j] PROVE FALSE
    <3>1. v[j] \in 3..N /\ tag < v[j]
      BY DEF WayNodes
    <3> QED BY <2>1, <2>2, <3>1
  <2> QED BY <2>1, <2>2 DEF Folded
<1>2. ASSUME NEW m \in 1..N, q[m] # p[m]
      PROVE  q[m] = tag /\ p[m] \in 3..N /\ tag < p[m] /\ Open(p, p[m], cur)
  <2>1. tag = v[c]
    BY DEF WaySimple
  <2>2. PICK j \in c + 1..Len(v) : p[m] = v[j]
    BY <1>2, Zenon DEF Folded
  <2>3. q[m] = v[c]
    BY <2>2, Zenon DEF Folded
  <2> QED BY <2>1, <2>2, <2>3, Zenon DEF WayNodes
<1> QED BY <1>1, <1>2, Zenon DEF Upto, Either

LEMMA FoldedBelow ==
  ASSUME NEW q, NEW p, NEW N, NEW cur, NEW v, NEW c, NEW tag, NEW to, Rightmost(p, N, cur),
         WaySimple(p, N, cur, v, c, tag, to), Either(q, p, N, tag, cur)
  PROVE  Below(q, p, N, tag)
<1>1. N \in Nat /\ tag \in 3..N /\ cur \in 2..N /\ tag <= cur /\ p \in [1..N -> Nat] /\ Open(p, tag, cur)
  BY DEF WaySimple
<1>2. ASSUME NEW m \in tag + 1..N PROVE p[m] >= tag
  <2>1. m \in 1..N /\ p[m] \in Nat
    BY <1>1
  <2>2. CASE m <= cur
    <3>1. m \in 3..cur /\ tag < m /\ tag # cur
      BY <1>1, <2>2
    <3>2. Under(p, tag, cur)
      BY <1>1, <3>1 DEF Open
    <3> QED BY <3>1, <3>2 DEF Under
  <2>3. CASE cur < m
    <3>1. m \in cur + 1..N
      BY <1>1, <2>3
    <3>2. p[m] >= cur
      BY <3>1 DEF Rightmost
    <3> QED BY <1>1, <2>1, <3>2
  <2> QED BY <1>1, <2>2, <2>3
<1>3. ASSUME NEW m \in tag + 1..N PROVE q[m] >= tag
  <2>1. m \in 1..N
    BY <1>1
  <2>2. q[m] = p[m] \/ q[m] = tag
    BY <2>1 DEF Either
  <2> QED BY <1>1, <1>2, <2>2
<1> QED BY <1>2, <1>3 DEF Below

LEMMA FoldedRest ==
  ASSUME NEW u, NEW q, NEW p, NEW N, NEW cur, NEW v, NEW c, NEW tag, NEW to, NEW w,
         Way(u, p, N, cur, v, c, tag, to), Folded(q, p, N, v, c), PathIs(u, p, N, to, w), w = u[to]
  PROVE  Rest(q, p, N, tag, to, cur)
<1>1. WaySimple(p, N, cur, v, c, tag, to) /\ WayNodes(p, N, cur, v, c, tag)
  BY WayIs, Zenon
<1>2. /\ N \in Nat /\ p \in [1..N -> Nat] /\ Len(v) \in Nat /\ c \in 2..Len(v) /\ tag = v[c] /\ to = v[c - 1]
      /\ to \in 2..N
  BY <1>1 DEF WaySimple
<1>3. c - 1 \in 1..Len(v)
  BY <1>2
<1>4. Len(w) = c - 1 /\ \A i \in 1..c - 1 : w[i] = v[i]
  <2>1. PathIs(u, p, N, cur, v)
    BY DEF Way
  <2>2. \A j \in 1..Len(v) : Len(u[v[j]]) = j /\ \A i \in 1..j : u[v[j]][i] = v[i]
    BY <2>1 DEF PathIs
  <2> QED BY <1>2, <1>3, <2>2
<1>5. ASSUME NEW m \in 3..N, q[m] = p[m], Open(p, p[m], cur) PROVE p[m] = tag \/ Open(p, p[m], to)
  <2>1. p[m] \in 2..N /\ m \in 1..N
    <3>1. p[m] >= 2 /\ p[m] < m /\ p[m] \in Nat
      <4>1. m \in 1..N
        BY <1>2
      <4> QED BY <1>2, <4>1 DEF Way, Nested
    <3> QED BY <1>2, <3>1
  <2>2. PICK k \in 2..N : k = p[m]
    BY <2>1
  <2>3. PICK j \in 1..Len(v) : v[j] = k
    <3>1. PathIs(u, p, N, cur, v)
      BY DEF Way
    <3>2. (\E j \in 1..Len(v) : v[j] = k) <=> k = cur \/ Under(p, k, cur)
      BY <3>1 DEF PathIs
    <3> QED BY <1>5, <2>2, <3>2 DEF Open
  <2>4. CASE c < j
    <3>1. j \in c + 1..Len(v)
      BY <1>2, <2>4
    <3>2. q[m] = v[c]
      BY <2>1, <2>2, <2>3, <3>1 DEF Folded
    <3> QED BY <1>2, <1>5, <3>2
  <2>5. CASE j = c
    BY <1>2, <2>2, <2>3, <2>5
  <2>6. CASE j < c
    <3>1. j \in 1..c - 1 /\ j \in 1..Len(w)
      BY <1>2, <1>4, <2>6
    <3>2. w[j] = k
      BY <1>4, <2>3, <3>1
    <3>3. k = to \/ Under(p, k, to)
      BY <3>1, <3>2 DEF PathIs
    <3> QED BY <2>2, <3>3 DEF Open
  <2> QED BY <1>2, <2>4, <2>5, <2>6
<1> QED BY <1>5, Zenon DEF Rest

\* No open node begins inside a tag that was closed.
LEMMA NotAcross ==
  ASSUME NEW N, NEW p, Nested(p, N), NEW m \in 3..N, NEW e, NEW cur \in 2..N, Closes(p, N, m, e, cur),
         NEW x \in 2..N, Open(p, x, cur)
  PROVE  x < m \/ x >= e
<1>1. N \in Nat /\ p \in [1..N -> Nat]
  BY DEF Nested
<1>2. e \in m + 1..N /\ p[e] < m /\ (cur < m \/ cur >= e)
  BY DEF Closes
<1>3. e \in 1..N /\ e \in 3..N /\ p[e] \in Nat
  BY <1>1, <1>2
<1>4. ASSUME m <= x, x < e PROVE FALSE
  <2>1. CASE x = cur
    BY <1>1, <1>2, <1>3, <1>4, <2>1
  <2>2. CASE Under(p, x, cur)
    <3>1. x < cur /\ \A k \in 3..cur : x < k => p[k] >= x
      BY <2>2 DEF Under
    <3>2. e \in 3..cur
      BY <1>1, <1>2, <1>3, <1>4, <3>1
    <3>3. p[e] >= x
      BY <1>4, <3>1, <3>2
    <3> QED BY <1>1, <1>2, <1>3, <1>4, <3>3
  <2> QED BY <2>1, <2>2 DEF Open
<1> QED BY <1>1, <1>2, <1>4

LEMMA FoldedClosed ==
  ASSUME NEW q, NEW p, NEW N, NEW cur, NEW v, NEW c, NEW tag, NEW to, Nested(p, N),
         WaySimple(p, N, cur, v, c, tag, to), Either(q, p, N, tag, cur),
         NEW m \in 3..N, NEW e, Closes(p, N, m, e, cur)
  PROVE  Closes(q, N, m, e, to)
<1>1. N \in Nat /\ p \in [1..N -> Nat] /\ tag \in 3..N /\ to \in 2..N /\ cur \in 2..N /\ to < tag /\ tag <= cur
      /\ p[tag] = to /\ Open(p, tag, cur)
  BY DEF WaySimple
<1>2. e \in m + 1..N /\ (\A k \in m + 1..e - 1 : p[k] >= m) /\ p[e] < m /\ (cur < m \/ cur >= e)
  BY DEF Closes
<1>3. ASSUME NEW k \in m + 1..e - 1 PROVE q[k] >= m
  <2>1. k \in 1..N /\ k \in 3..N /\ k < e /\ p[k] >= m /\ e \in 3..N
    BY <1>1, <1>2
  <2>2. CASE q[k] = p[k]
    BY <2>1, <2>2
  <2>3. CASE q[k] = tag /\ p[k] \in 3..N /\ tag < p[k] /\ Open(p, p[k], cur)
    <3>1. PICK x \in 3..N : x = p[k]
      BY <2>3
    <3>2. x < k
      BY <2>1, <3>1 DEF Nested
    <3>3. x < m \/ x >= e
      <4>1. x \in 2..N /\ cur \in 2..N
        BY <1>1
      <4>2. Open(p, x, cur)
        BY <2>3, <3>1
      <4> QED BY <4>1, <4>2, NotAcross, Zenon
    <3> QED BY <1>1, <2>1, <3>1, <3>2, <3>3
  <2> QED BY <2>1, <2>2, <2>3 DEF Either
<1>4. q[e] < m
  <2>1. e \in 1..N
    BY <1>1, <1>2
  <2>2. CASE q[e] = tag /\ p[e] \in 3..N /\ tag < p[e]
    BY <1>1, <1>2, <2>2
  <2> QED BY <1>2, <2>1, <2>2 DEF Either
<1>5. to < m \/ to >= e
  <2>1. Open(p, to, cur)
    <3>1. Under(p, to, cur)
      <4>1. CASE tag = cur
        <5>1. cur \in 3..N
          BY <1>1, <4>1
        <5> QED BY <1>1, <4>1, <5>1, UnderParent
      <4>2. CASE tag # cur
        <5>1. Under(p, tag, cur)
          BY <1>1, <4>2 DEF Open
        <5>2. tag < cur /\ \A k \in 3..cur : tag < k => p[k] >= tag
          BY <5>1 DEF Under
        <5>3. ASSUME NEW k \in 3..cur, to < k PROVE p[k] >= to
          <6>1. k \in 3..N /\ k \in 1..N /\ p[k] \in Nat
            BY <1>1
          <6>2. CASE tag < k
            BY <1>1, <5>2, <6>1, <6>2
          <6>3. CASE k = tag
            BY <1>1, <6>3
          <6>4. CASE k < tag
            BY <1>1, <5>3, <6>1, <6>4 DEF Nested
          <6> QED BY <1>1, <6>2, <6>3, <6>4
        <5> QED BY <1>1, <5>2, <5>3 DEF Under
      <4> QED BY <4>1, <4>2
    <3> QED BY <3>1 DEF Open
  <2> QED BY <1>1, <2>1, NotAcross, Zenon
<1> QED BY <1>2, <1>3, <1>4, <1>5 DEF Closes

\* The current node may move to the parent of the tag.
LEMMA FoldedRightmost ==
  ASSUME NEW q, NEW p, NEW N, NEW cur, NEW v, NEW c, NEW tag, NEW to, Nested(p, N),
         WaySimple(p, N, cur, v, c, tag, to), Upto(q, p, tag), Either(q, p, N, tag, cur), Below(q, p, N, tag)
  PROVE  Rightmost(q, N, to)
<1>1. N \in Nat /\ p \in [1..N -> Nat] /\ tag \in 3..N /\ to \in 2..N /\ to < tag /\ p[tag] = to
  BY DEF WaySimple
<1>2. ASSUME NEW k \in to + 1..N PROVE q[k] >= to
  <2>1. k \in 1..N /\ k \in 3..N /\ to < k
    BY <1>1
  <2>2. CASE k <= tag
    <3>1. k \in 1..tag
      BY <2>1, <2>2
    <3>2. q[k] = p[k]
      BY <3>1 DEF Upto
    <3>3. k = tag \/ p[k] >= to
      BY <1>1, <2>1, <2>2 DEF Nested
    <3> QED BY <1>1, <3>2, <3>3
  <2>3. CASE tag < k
    <3>1. k \in tag + 1..N
      BY <1>1, <2>1, <2>3
    <3>2. q[k] >= tag
      BY <3>1 DEF Below
    <3>3. q[k] \in Nat
      <4>1. p[k] \in Nat /\ (q[k] = p[k] \/ q[k] = tag)
        BY <1>1, <2>1, Zenon DEF Either
      <4> QED BY <1>1, <4>1
    <3> QED BY <1>1, <3>2, <3>3
  <2> QED BY <1>1, <2>1, <2>2, <2>3
<1> QED BY <1>2 DEF Rightmost

LEMMA FoldedAround ==
  ASSUME NEW q, NEW p, NEW N, NEW cur, NEW v, NEW c, NEW tag, NEW to, Nested(p, N),
         WaySimple(p, N, cur, v, c, tag, to), Upto(q, p, tag), Either(q, p, N, tag, cur),
         Rest(q, p, N, tag, to, cur), NEW nd, NEW md, md[tag].closed,
         \A k \in 1..N : nd[k].closed => md[k].closed,
         NEW m \in 3..N, Around(p, nd, cur, m)
  PROVE  Around(q, md, to, m)
<1>1. N \in Nat /\ p \in [1..N -> Nat] /\ tag \in 3..N /\ to \in 2..N /\ to < tag
  BY DEF WaySimple
<1>2. m \in 1..N /\ p[m] \in Nat /\ p[m] >= 2 /\ p[m] < m
  BY <1>1 DEF Nested
<1>3. CASE q[m] = tag
  BY <1>3 DEF Around
<1>4. CASE q[m] # tag
  <2>1. q[m] = p[m]
    BY <1>2, <1>4, Zenon DEF Either
  <2>2. CASE nd[p[m]].closed
    <3>1. p[m] \in 1..N
      BY <1>1, <1>2
    <3> QED BY <2>1, <2>2, <3>1 DEF Around
  <2>3. CASE Open(p, p[m], cur)
    <3>1. p[m] = to \/ Under(p, p[m], to)
      BY <1>4, <2>1, <2>3, Zenon DEF Rest, Open
    <3>2. Under(p, p[m], to) => Under(q, p[m], to)
      <4>1. \A k \in 3..to : k \in 1..tag
        BY <1>1
      <4> QED BY <4>1 DEF Under, Upto
    <3> QED BY <2>1, <3>1, <3>2 DEF Around
  <2> QED BY <2>1, <2>2, <2>3 DEF Around, Open
<1> QED BY <1>3, <1>4

\* The nodes md once the tag was closed with length l.
Marked(md, nd, N, tag, l) ==
  /\ md \in Seq(DomNode) /\ Len(md) = N /\ md[tag].closed /\ md[tag].length = l
  /\ \A k \in 1..N : /\ md[k].name = nd[k].name /\ md[k].offset = nd[k].offset
                     /\ (k # tag => md[k] = nd[k]) /\ (nd[k].closed => md[k].closed)

LEMMA MarkedIs ==
  ASSUME NEW nd \in Seq(DomNode), NEW tag \in 1..Len(nd), NEW l \in Nat
  PROVE  Marked([nd EXCEPT ![tag].length = l, ![tag].closed = TRUE], nd, Len(nd), tag, l)
<1> DEFINE N == Len(nd)
           md == [nd EXCEPT ![tag].length = l, ![tag].closed = TRUE]
           new == [nd[tag] EXCEPT !.length = l, !.closed = TRUE]
<1>1. N \in Nat /\ nd \in [1..N -> DomNode]
  BY LenProperties
<1>2. nd[tag] \in DomNode
  BY ElementOfSeq
<1>3. /\ new \in DomNode /\ new.name = nd[tag].name /\ new.offset = nd[tag].offset
      /\ new.length = l /\ new.closed = TRUE
  BY <1>2 DEF DomNode
<1>4. md = [k \in 1..N |-> IF k = tag THEN new ELSE nd[k]]
  BY <1>1, <1>2 DEF DomNode
<1> HIDE DEF N, md, new
<1>5. md \in [1..N -> DomNode] /\ \A k \in 1..N : md[k] = IF k = tag THEN new ELSE nd[k]
  BY <1>1, <1>3, <1>4
<1>6. md \in Seq(DomNode) /\ Len(md) = N
  BY <1>1, <1>5, AsSequence
<1>7. tag \in 1..N
  BY DEF N
<1> QED BY <1>3, <1>5, <1>6, <1>7 DEF Marked, md, N

LEMMA EndPlanned ==
  ASSUME MaxNesting \in Nat, NEW h, NEW nd, Planned(h, nd), NEW g, NEW md, NEW N, N = Len(nd),
         NEW p, p = h.parent, NEW q, q = g.parent, Linked(g, N), NEW u, u = Up(h),
         NEW cur, NEW v, NEW c, NEW tag, NEW to, NEW l, Way(u, p, N, cur, v, c, tag, to),
         Folded(q, p, N, v, c), Upto(q, p, tag), Marked(md, nd, N, tag, l)
  PROVE  Planned(g, md) /\ SamePaths(tag, g, h)
<1>1. WaySimple(p, N, cur, v, c, tag, to)
  BY WayIs, Zenon
<1>2. N \in Nat /\ tag \in 2..N /\ Len(v) \in Nat /\ c \in 2..Len(v) /\ tag = v[c]
  BY <1>1 DEF WaySimple
<1>3. Nested(p, N) /\ Nested(q, N)
  BY DEF Way, Linked, Links
<1>4. \A j \in 1..Len(v) : Len(u[v[j]]) = j
  BY DEF Way, PathIs
<1>5. \A m \in 1..N : q[m] = p[m] \/ (q[m] = tag /\ Len(u[tag]) <= Len(u[p[m]]))
  <2>1. ASSUME NEW m \in 1..N, NEW j \in c + 1..Len(v), p[m] = v[j] PROVE Len(u[tag]) <= Len(u[p[m]])
    <3>1. j \in 1..Len(v) /\ c \in 1..Len(v) /\ c <= j
      BY <1>2
    <3>2. Len(u[tag]) = c /\ Len(u[p[m]]) = j
      BY <1>2, <1>4, <2>1, <3>1
    <3> QED BY <3>1, <3>2
  <2> QED BY <1>2, <2>1, Zenon DEF Folded
<1>6. /\ \A m \in 0..tag : Up(g)[m] = Up(h)[m]
      /\ \A m \in 1..N : Len(Up(g)[m]) <= Len(Up(h)[m])
  <2>1. Lifted(q, p, Up(h), N, tag)
    BY <1>5, Zenon DEF Lifted
  <2>2. NoDeeper(Up(g), Up(h), N, tag)
    BY <1>2, <1>3, <2>1, NotDeeper, Zenon
  <2> QED BY <2>2 DEF NoDeeper
<1>7. \A m \in 1..N : Len(Up(g)[m]) <= MaxNesting + 2
  <2>1. \A m \in 1..N : Len(Up(h)[m]) <= MaxNesting + 2
    BY DEF Planned
  <2>2. \A m \in 1..N : Len(Up(h)[m]) \in Nat /\ Len(Up(g)[m]) \in Nat
    <3>1. Rises(Up(h), p, N) /\ Rises(Up(g), q, N)
      BY <1>3, UpIs, Zenon
    <3>2. \A m \in 1..N : m \in 0..N
      BY <1>2
    <3> QED BY <3>1, <3>2, LenProperties DEF Rises
  <2> QED BY <1>6, <2>1, <2>2
<1>8. \A m \in 3..N : md[m].offset = m - 3
  <2>1. \A m \in 3..N : nd[m].offset = m - 3 /\ m \in 1..N
    BY <1>2 DEF Planned
  <2> QED BY <2>1 DEF Marked
<1>9. md \in Seq(DomNode) /\ Len(md) = N
  BY DEF Marked
<1> QED BY <1>6, <1>7, <1>8, <1>9, Zenon DEF Planned, SamePaths

WayNumbers(N, v, c, tag, to) ==
  /\ tag \in 3..N /\ tag \in 2..N /\ tag \in 1..N /\ to \in 2..N /\ to \in 1..N /\ to \in 0..tag /\ to < tag
  /\ to \in 2..N + 1 /\ Len(v) \in Nat /\ c \in 2..Len(v) /\ c \in 1..Len(v) /\ c - 1 \in 1..Len(v)
LEMMA WayCounts ==
  ASSUME NEW p, NEW N, NEW cur, NEW v, NEW c, NEW tag, NEW to, WaySimple(p, N, cur, v, c, tag, to)
  PROVE  WayNumbers(N, v, c, tag, to)
<1>1. N \in Nat /\ tag \in 3..N /\ to \in 2..N /\ to < tag /\ Len(v) \in Nat /\ c \in 2..Len(v)
  BY Zenon DEF WaySimple
<1>2. c \in 1..Len(v) /\ c - 1 \in 1..Len(v)
  BY <1>1
<1>3. tag \in 2..N /\ tag \in 1..N /\ to \in 1..N /\ to \in 0..tag /\ to \in 2..N + 1
  BY <1>1
<1> QED BY <1>1, <1>2, <1>3, Zenon DEF WayNumbers

LEMMA EndCloses ==
  ASSUME NEW N \in Nat, NEW p, NEW q, NEW r, NEW tag \in 3..N, NEW to, to < tag, Below(q, p, N, tag),
         r[N + 1] = to, \A m \in 1..N : r[m] = q[m], to \in 2..N
  PROVE  Closes(r, N + 1, tag, N + 1, to)
<1>1. \A k \in tag + 1..N : k \in 1..N /\ q[k] >= tag
  BY DEF Below
<1>2. N + 1 \in tag + 1..N + 1 /\ \A k \in tag + 1..N + 1 - 1 : k \in tag + 1..N
  OBVIOUS
<1>3. \A k \in tag + 1..N + 1 - 1 : r[k] >= tag
  BY <1>1, <1>2
<1> QED BY <1>2, <1>3 DEF Closes

EndPath(w, v, c) == Len(w) = c - 1 /\ \A i \in 1..c - 1 : w[i] = v[i]
LEMMA EndPathIs ==
  ASSUME NEW u, NEW p, NEW N, NEW cur, NEW v, PathIs(u, p, N, cur, v), NEW c, c - 1 \in 1..Len(v),
         NEW to, to = v[c - 1], NEW w, w = u[to]
  PROVE  EndPath(w, v, c)
<1>1. \A j \in 1..Len(v) : Len(u[v[j]]) = j /\ \A i \in 1..j : u[v[j]][i] = v[i]
  BY DEF PathIs
<1> QED BY <1>1, Zenon DEF EndPath

SameNames(md, nd, N) == \A k \in 1..N : md[k].name = nd[k].name
LEMMA EndNamed ==
  ASSUME MaxNesting \in Nat, NEW nd, NEW md, NEW ps, NEW N \in Nat, NEW v \in Seq(1..N), Named(v, nd, ps), NEW c \in 2..Len(v),
         NEW w, EndPath(w, v, c), SameNames(md, nd, N)
  PROVE  Named(w, md, SubSeq(ps, 1, c - 2)) /\ Len(w) <= MaxNesting + 1
<1>1. /\ ps \in Seq(TagNames) /\ Len(ps) <= MaxNesting /\ Len(v) = Len(ps) + 1 /\ Len(v) \in Nat
      /\ \A j \in 1..Len(ps) : nd[v[j + 1]].name = ps[j]
  BY LenProperties DEF Named
<1>2. Len(ps) \in Nat /\ c - 2 \in 0..Len(ps)
  <2>1. Len(ps) \in Nat
    BY <1>1, LenProperties
  <2> QED BY <1>1, <2>1
<1>3. PICK r : r = SubSeq(ps, 1, c - 2)
  OBVIOUS
<1>4. r \in Seq(TagNames) /\ Len(r) = c - 2 /\ \A j \in 1..c - 2 : r[j] = ps[j]
  <2>1. \A i \in 1..c - 2 : i \in 1..Len(ps) /\ ps[i] \in TagNames
    <3>1. \A i \in 1..c - 2 : i \in 1..Len(ps)
      BY <1>2
    <3> QED BY <1>1, <3>1, ElementOfSeq
  <2>2. /\ r \in Seq(TagNames) /\ Len(r) = IF 1 <= c - 2 THEN c - 2 - 1 + 1 ELSE 0
        /\ \A i \in 1..c - 2 - 1 + 1 : r[i] = ps[1 + i - 1]
    BY <1>2, <1>3, <2>1, SubSeqProperties
  <2>3. c - 2 - 1 + 1 = c - 2 /\ \A i \in 1..c - 2 : 1 + i - 1 = i
    BY <1>2
  <2> QED BY <1>2, <2>2, <2>3
<1>5. Len(w) = c - 1 /\ \A i \in 1..c - 1 : w[i] = v[i]
  BY DEF EndPath
<1>6. ASSUME NEW j \in 1..c - 2 PROVE md[w[j + 1]].name = r[j]
  <2>1. j + 1 \in 1..c - 1 /\ j + 1 \in 1..Len(v) /\ j \in 1..Len(ps)
    <3>1. PICK n : n = Len(ps) /\ Len(v) = n + 1 /\ n \in Nat /\ c - 2 \in 0..n
      BY <1>1, <1>2, Zenon
    <3>2. j + 1 \in 1..c - 1 /\ j + 1 \in 1..n + 1 /\ j \in 1..n
      BY <3>1
    <3> QED BY <3>1, <3>2, Zenon
  <2>2. w[j + 1] = v[j + 1] /\ v[j + 1] \in 1..N
    BY <1>5, <2>1, ElementOfSeq
  <2> QED BY <1>1, <1>4, <2>1, <2>2 DEF SameNames
<1>7. Len(r) <= MaxNesting /\ Len(w) = Len(r) + 1 /\ c - 1 <= MaxNesting + 1
  <2>1. c - 2 <= MaxNesting
    <3>1. PICK d \in Nat : d = Len(ps)
      BY <1>2
    <3> QED BY <1>1, <1>2, <3>1
  <2> QED BY <1>2, <1>4, <1>5, <2>1
<1> QED BY <1>3, <1>4, <1>5, <1>6, <1>7 DEF Named

Here(h, nd, cur, N, p, u, v) == N = Len(nd) /\ p = h.parent /\ u = Up(h) /\ v = u[cur]
LEMMA EndFits ==
  ASSUME MaxNesting \in Nat, NEW h, NEW nd, NEW cur, NEW ps, Suits(h, nd, cur, ps),
         NEW N, NEW p, NEW u, NEW v, Here(h, nd, cur, N, p, u, v), NEW c, NEW tag, NEW to,
         Way(u, p, N, cur, v, c, tag, to),
         NEW g, Linked(g, N), Gathered(g.parent, p, N, v, Len(v) - c),
         NEW md, Marked(md, nd, N, tag, N + 2 - tag),
         NEW end \in DomNode, end.offset = N - 2, ~end.closed
  PROVE  Suits(Tags!append_child(g, to), Append(md, end), to, SubSeq(ps, 1, c - 2))
<1>1. PICK q, w, f, r, me, rs :
        /\ q = g.parent /\ w = u[to] /\ f = Tags!append_child(g, to) /\ r = f.parent
        /\ me = Append(md, end) /\ rs = SubSeq(ps, 1, c - 2)
  OBVIOUS
<1>0. N = Len(nd) /\ p = h.parent /\ u = Up(h) /\ v = u[cur]
  BY Zenon DEF Here
<1>2. /\ N \in Nat /\ N >= 2 /\ Nested(p, N) /\ cur \in 2..N /\ Rightmost(p, N, cur) /\ v \in Seq(1..N)
      /\ PathIs(u, p, N, cur, v) /\ Named(v, nd, ps)
  BY <1>0, FittingIs
<1>3. Way(u, p, N, cur, v, c, tag, to)
  OBVIOUS
<1>4. WaySimple(p, N, cur, v, c, tag, to) /\ WayNodes(p, N, cur, v, c, tag)
  BY <1>3, WayIs, Zenon
<1>5. /\ tag \in 3..N /\ tag \in 2..N /\ tag \in 1..N /\ to \in 2..N /\ to \in 1..N /\ to \in 0..tag /\ to < tag
      /\ to \in 2..N + 1 /\ Len(v) \in Nat /\ c \in 2..Len(v) /\ c \in 1..Len(v) /\ c - 1 \in 1..Len(v)
  BY <1>4, WayCounts, Zenon DEF WayNumbers
<1>6. Folded(q, p, N, v, c)
  BY <1>1, <1>5, GatheredFolds, Zenon
<1>7. Upto(q, p, tag) /\ Either(q, p, N, tag, cur)
  BY <1>2, <1>4, <1>6, FoldedUpto, Zenon
<1>8. Below(q, p, N, tag)
  BY <1>2, <1>4, <1>7, FoldedBelow, Zenon
<1>9. PathIs(u, p, N, to, w)
  BY <1>0, <1>1, <1>2, <1>5, PathsAre, Zenon
<1>10. Rest(q, p, N, tag, to, cur)
  BY <1>1, <1>3, <1>6, <1>9, FoldedRest, Zenon
<1>11. Planned(g, md) /\ Up(g)[to] = w
  <2>1. Planned(h, nd)
    BY Zenon DEF Suits
  <2>2. Planned(g, md) /\ SamePaths(tag, g, h)
    BY <1>0, <1>1, <1>3, <1>6, <1>7, <2>1, EndPlanned, Zenon
  <2> QED BY <1>0, <1>1, <1>5, <2>2, Zenon DEF SamePaths
<1>12. Rightmost(q, N, to)
  BY <1>2, <1>4, <1>7, <1>8, FoldedRightmost, Zenon
<1>13. EndPath(w, v, c)
  BY <1>1, <1>2, <1>3, <1>5, EndPathIs, Zenon DEF Way
<1>14. Named(w, md, rs) /\ Len(w) <= MaxNesting + 1
  <2>1. SameNames(md, nd, N)
    BY Zenon DEF SameNames, Marked
  <2> QED BY <1>1, <1>2, <1>5, <1>13, <2>1, EndNamed, Zenon
<1>15. Planned(f, me) /\ Grown(r, q, me, md, Up(f), Up(g), N, to, end)
  <2>1. Len(md) = N
    BY Zenon DEF Marked
  <2> QED BY <1>1, <1>5, <1>11, <1>12, <1>14, <2>1, AppendPlanned, Zenon
<1>16. /\ Len(me) = N + 1 /\ r[N + 1] = to /\ me[N + 1] = end
       /\ \A m \in 1..N : r[m] = q[m] /\ me[m] = md[m] /\ Up(f)[m] = Up(g)[m]
  BY <1>15 DEF Grown
<1>17. KeptAround(r, q, me, md, N) /\ KeptUnder(r, q, N, to) /\ KeptClosed(r, q, N, to, to)
  BY <1>5, <1>15, GrownAround, Zenon
<1>18. \A m \in 3..N + 1 : m = N + 1 \/ (m \in 3..N /\ m \in 1..N)
  BY <1>2
<1>19. Rightmost(r, N + 1, to)
  <2>1. \A k \in to + 1..N + 1 : k = N + 1 \/ (k \in to + 1..N /\ k \in 1..N)
    BY <1>2, <1>5
  <2> QED BY <1>5, <1>12, <1>16, <2>1 DEF Rightmost
<1>20. Named(Up(f)[to], me, rs)
  <2>1. Up(f)[to] = w
    BY <1>5, <1>11, <1>16
  <2>2. \A j \in 1..Len(rs) : w[j + 1] \in 1..N
    <3>1. w \in Seq(1..N) /\ Len(w) = Len(rs) + 1 /\ rs \in Seq(TagNames)
      BY <1>9, <1>14, Zenon DEF PathIs, Named
    <3>2. Len(rs) \in Nat
      BY <3>1, LenProperties
    <3>3. \A j \in 1..Len(rs) : j + 1 \in 1..Len(w)
      BY <3>1, <3>2
    <3> QED BY <3>1, <3>3, ElementOfSeq
  <2> QED BY <1>14, <1>16, <2>1, <2>2 DEF Named
<1>21. ASSUME NEW m \in 3..N + 1, me[m].closed PROVE Closes(r, N + 1, m, m + me[m].length - 1, to)
  <2>1. m \in 3..N /\ m \in 1..N /\ me[m] = md[m]
    BY <1>16, <1>18, <1>21
  <2>2. CASE m = tag
    <3>1. m + me[m].length - 1 = N + 1
      <4>1. me[m].length = N + 2 - tag
        BY <2>1, <2>2 DEF Marked
      <4> QED BY <1>2, <1>5, <2>2, <4>1
    <3>2. Closes(r, N + 1, tag, N + 1, to)
      BY <1>2, <1>5, <1>8, <1>16, EndCloses, Zenon
    <3> QED BY <2>2, <3>1, <3>2
  <2>3. CASE m # tag
    <3>1. md[m] = nd[m]
      BY <2>1, <2>3, Zenon DEF Marked
    <3>2. PICK e : e = m + nd[m].length - 1
      OBVIOUS
    <3>3. Closes(p, N, m, e, cur)
      BY <1>0, <1>21, <2>1, <3>1, <3>2, Zenon DEF Suits
    <3>4. Closes(q, N, m, e, to)
      BY <1>2, <1>4, <1>7, <2>1, <3>3, FoldedClosed, Zenon
    <3>5. e \in 3..N
      <4>1. e \in m + 1..N
        BY <3>3 DEF Closes
      <4> QED BY <1>2, <2>1, <4>1
    <3>6. Closes(r, N + 1, m, e, to)
      BY <1>17, <2>1, <3>4, <3>5, Zenon DEF KeptClosed
    <3> QED BY <2>1, <3>1, <3>2, <3>6
  <2> QED BY <2>2, <2>3
<1>22. ASSUME NEW m \in 3..N + 1 PROVE Around(r, me, to, m)
  <2>1. CASE m = N + 1
    BY <1>16, <2>1 DEF Around
  <2>2. CASE m \in 3..N
    <3>1. Around(p, nd, cur, m)
      BY <1>0, <2>2, Zenon DEF Suits
    <3>2. md[tag].closed /\ \A k \in 1..N : nd[k].closed => md[k].closed
      BY Zenon DEF Marked
    <3>3. Around(q, md, to, m)
      BY <1>2, <1>4, <1>7, <1>10, <2>2, <3>1, <3>2, FoldedAround, Zenon
    <3>4. r[m] = q[m] /\ r[m] \in 2..N /\ me[r[m]] = md[q[m]]
      BY <1>17, <2>2, Zenon DEF KeptAround
    <3>5. Under(r, r[m], to) <=> Under(q, q[m], to)
      BY <1>17, <3>4, Zenon DEF KeptUnder
    <3> QED BY <3>3, <3>4, <3>5, Zenon DEF Around
  <2> QED BY <1>18, <2>1, <2>2
<1>23. Suits(f, me, to, rs)
  <2>1. Planned(f, me) /\ to \in 2..Len(me) /\ Rightmost(r, Len(me), to)
    BY <1>15, <1>16, <1>19, <1>5
  <2>2. \A m \in 3..Len(me) : me[m].closed => Closes(r, Len(me), m, m + me[m].length - 1, to)
    BY <1>16, <1>21
  <2>3. \A m \in 3..Len(me) : Around(r, me, to, m)
    BY <1>16, <1>22
  <2> QED BY <1>1, <1>20, <2>1, <2>2, <2>3, Zenon DEF Suits
<1> QED BY <1>1, <1>23, Zenon

LEMMA MatchWay ==
  ASSUME NEW u, NEW p, NEW N, NEW cur, NEW v, N \in Nat, Nested(p, N), cur \in 2..N, Rightmost(p, N, cur),
         PathIs(u, p, N, cur, v), NEW i \in Nat, i >= 1, i < Len(v)
  PROVE  Way(u, p, N, cur, v, i + 1, v[i + 1], p[v[i + 1]])
<1>1. PICK c : c = i + 1
  OBVIOUS
<1>2. Len(v) \in Nat /\ \A j \in 2..Len(v) : p[v[j]] = v[j - 1]
  BY DEF PathIs
<1>3. c \in 2..Len(v)
  BY <1>1, <1>2
<1>4. p[v[c]] = v[c - 1]
  BY <1>2, <1>3
<1>5. Way(u, p, N, cur, v, c, v[c], p[v[c]])
  BY <1>3, <1>4, Zenon DEF Way
<1> QED BY <1>1, <1>5, Zenon

LEMMA MatchRest ==
  ASSUME NEW N, NEW n \in Nat, NEW path \in Seq(1..N), Len(path) = n, NEW v, Len(v) = n + 1,
         \A k \in 1..n : path[k] = v[k + 1], NEW i \in 1..n
  PROVE  RestOf(SubSeq(path, i + 1, Len(path)), v, i + 1)
<1>1. \A k \in i + 1..n : k \in 1..n
  OBVIOUS
<1>2. \A k \in i + 1..n : path[k] \in 1..N
  BY <1>1, ElementOfSeq
<1>3. PICK r : r = SubSeq(path, i + 1, n)
  OBVIOUS
<1>4. /\ Len(r) = IF i + 1 <= n THEN n - (i + 1) + 1 ELSE 0
      /\ \A k \in 1..n - (i + 1) + 1 : r[k] = path[i + 1 + k - 1]
  <2>1. i + 1 \in Int /\ n \in Int
    OBVIOUS
  <2> QED BY <1>2, <1>3, <2>1, SubSeqProperties
<1>5. Len(r) = n - i /\ n - (i + 1) + 1 = n - i /\ Len(v) - (i + 1) = n - i
  BY <1>4
<1>6. ASSUME NEW y \in 1..n - i PROVE r[y] = v[i + 1 + y]
  <2>1. i + 1 + y - 1 = i + y /\ i + y \in 1..n /\ i + y + 1 = i + 1 + y
    OBVIOUS
  <2>2. r[y] = path[i + y]
    BY <1>4, <1>5, <2>1
  <2>3. path[i + y] = v[i + y + 1]
    BY <2>1
  <2> QED BY <2>1, <2>2, <2>3
<1> QED BY <1>3, <1>5, <1>6 DEF RestOf

\* What an end is called is looked for on the path and in what is counted.
LEMMA MatchesAre ==
  ASSUME MaxNesting \in Nat, Suits(tree, node, current, parents),
         NEW N, NEW p, NEW u, NEW v, Here(tree, node, current, N, p, u, v), NEW name
  PROVE  Tags!Matches(name) = {k \in DOMAIN parents : parents[k] = name}
<1>0. N = Len(node) /\ p = tree.parent /\ u = Up(tree) /\ v = u[current]
  BY Zenon DEF Here
<1>1. /\ N \in Nat /\ current \in 2..N /\ Named(v, node, parents)
      /\ Len(parents) \in Nat /\ Len(v) = Len(parents) + 1
  BY <1>0, FittingIs
<1>2. PICK path, n : path = Tags!Path /\ n = Len(parents)
  OBVIOUS
<1>3. DOMAIN path = 1..n /\ \A k \in 1..n : path[k] = v[k + 1]
  <2>1. Linked(tree, N)
    BY <1>0, Zenon DEF Suits, Planned
  <2>2. DOMAIN path = 1..Len(v) - 1 /\ \A k \in 1..Len(v) - 1 : path[k] = v[k + 1]
    BY <1>0, <1>1, <1>2, <2>1, PathIsUp
  <2>3. Len(v) - 1 = n
    BY <1>1, <1>2
  <2> QED BY <2>2, <2>3
<1>4. \A k \in 1..n : node[path[k]].name = parents[k]
  BY <1>1, <1>2, <1>3 DEF Named
<1>5. DOMAIN parents = 1..n
  BY <1>1, <1>2 DEF Named
<1>6. Tags!Matches(name) = {k \in 1..n : node[path[k]].name = name}
  BY <1>2, <1>3, Zenon DEF Tags!Matches
<1> QED BY <1>4, <1>5, <1>6

\* The tag an end belongs to, on the path and in what is counted.
LEMMA MatchIs ==
  ASSUME MaxNesting \in Nat, Suits(tree, node, current, parents),
         NEW N, NEW p, NEW u, NEW v, Here(tree, node, current, N, p, u, v),
         NEW name, Tags!Matches(name) # {}, NEW i, i = Tags!Innermost(Tags!Matches(name))
  PROVE  /\ Way(u, p, N, current, v, i + 1, Tags!Path[i], p[Tags!Path[i]])
         /\ RestOf(SubSeq(Tags!Path, i + 1, Len(Tags!Path)), v, i + 1)
         /\ Tags!PopParents(name) = SubSeq(parents, 1, i - 1) /\ i \in Nat
<1> DEFINE set == Tags!Matches(name)
<1>0. N = Len(node) /\ p = tree.parent /\ u = Up(tree) /\ v = u[current]
  BY Zenon DEF Here
<1>1. /\ N \in Nat /\ N >= 2 /\ Nested(p, N) /\ current \in 2..N /\ Rightmost(p, N, current) /\ v \in Seq(1..N)
      /\ PathIs(u, p, N, current, v) /\ Named(v, node, parents)
      /\ Len(parents) \in Nat /\ Len(v) = Len(parents) + 1
  BY <1>0, FittingIs
<1>2. PICK path, n : path = Tags!Path /\ n = Len(parents)
  OBVIOUS
<1>3. path \in Seq(1..N) /\ Len(path) = n /\ DOMAIN path = 1..n /\ \A k \in 1..n : path[k] = v[k + 1]
  <2>1. Linked(tree, N)
    BY <1>0, Zenon DEF Suits, Planned
  <2>2. /\ path \in Seq(1..N) /\ Len(path) = Len(v) - 1 /\ DOMAIN path = 1..Len(v) - 1
        /\ \A k \in 1..Len(v) - 1 : path[k] = v[k + 1]
    BY <1>0, <1>1, <1>2, <2>1, PathIsUp
  <2>3. Len(v) - 1 = n
    BY <1>1, <1>2
  <2> QED BY <2>2, <2>3
<1>4. set = {k \in 1..n : parents[k] = name} /\ DOMAIN parents = 1..n
  <2>1. set = {k \in DOMAIN parents : parents[k] = name}
    BY MatchesAre, Zenon
  <2>2. DOMAIN parents = 1..n
    BY <1>1, <1>2 DEF Named
  <2> QED BY <2>1, <2>2, Zenon
<1>5. i \in set
  <2>1. n \in Nat /\ set \in SUBSET (1..n) /\ set # {}
    BY <1>1, <1>2, <1>4
  <2>2. \E x \in set : \A j \in set : j <= x
    <3> HIDE DEF set
    <3>1. Max(set) \in set /\ \A j \in set : Max(set) >= j
      BY <2>1, Greatest
    <3>2. \A j \in set : j \in Nat
      BY <2>1
    <3>3. \A j \in set : j <= Max(set)
      BY <3>1, <3>2
    <3> QED BY <3>1, <3>3, Zenon
  <2> QED BY <2>2, Zenon DEF Tags!Innermost
<1>6. PICK k \in 1..n : k = i
  BY <1>4, <1>5
<1>7. path[k] = v[k + 1] /\ k \in Nat /\ k >= 1 /\ k < Len(v)
  BY <1>1, <1>2, <1>3, <1>6
<1>8. Way(u, p, N, current, v, k + 1, path[k], p[path[k]])
  BY <1>1, <1>7, MatchWay
<1>9. RestOf(SubSeq(path, k + 1, Len(path)), v, k + 1)
  BY <1>1, <1>2, <1>3, <1>6, MatchRest
<1>10. Tags!PopParents(name) = SubSeq(parents, 1, i - 1)
  BY <1>4, Zenon DEF Tags!PopParents
<1> QED BY <1>2, <1>6, <1>7, <1>8, <1>9, <1>10, Zenon

LEMMA TokenIs ==
  ASSUME NEW kind \in Kinds, NEW name \in TagNames, NEW o \in Nat, NEW l \in Nat, NEW c \in BOOLEAN,
         NEW b, b \in {tag.hidden : tag \in StartTags} \cup {FALSE}
  PROVE  [kind |-> kind, name |-> name, offset |-> o, length |-> l, closed |-> c, hidden |-> b] \in DomNode
<1> DEFINE hidings == {tag.hidden : tag \in StartTags} \cup {FALSE}
<1>1. b \in hidings
  OBVIOUS
<1> HIDE DEF hidings
<1>2. [kind |-> kind, name |-> name, offset |-> o, length |-> l, closed |-> c, hidden |-> b]
        \in [kind : Kinds, name : TagNames, offset : Nat, length : Nat, closed : BOOLEAN, hidden : hidings]
  BY <1>1, Zenon
<1> QED BY <1>2, Zenon DEF DomNode, hidings

LEMMA FoundIs ==
  ASSUME NEW N \in Nat, N >= 2, Len(node) = N, NEW kind \in Kinds, NEW name \in TagNames
  PROVE  /\ Tags!Found(kind, name) \in DomNode /\ Tags!Found(kind, name).offset = N - 2
         /\ Tags!Found(kind, name).length = 1 /\ Tags!Found(kind, name).closed = FALSE
         /\ Tags!Found(kind, name).name = name
         /\ Tags!Found(kind, name) =
              [kind |-> kind, name |-> name, offset |-> N - 2, length |-> 1, closed |-> FALSE, hidden |-> FALSE]
<1>1. Tags!mCurrentOffset = N - 2 /\ N - 2 \in Nat
  BY DEF Tags!mCurrentOffset
<1>2. Tags!Found(kind, name) =
        [Tags!Blank EXCEPT !.kind = kind, !.name = name, !.offset = N - 2, !.length = 1]
  BY <1>1, Zenon DEF Tags!Found
<1>3. PICK root : Tags!Blank = [kind |-> root, name |-> root, offset |-> 0, length |-> 0, closed |-> FALSE, hidden |-> FALSE]
  BY Zenon DEF Tags!Blank
<1>4. Tags!Found(kind, name) =
        [kind |-> kind, name |-> name, offset |-> N - 2, length |-> 1, closed |-> FALSE, hidden |-> FALSE]
  BY <1>2, <1>3
<1>5. [kind |-> kind, name |-> name, offset |-> N - 2, length |-> 1, closed |-> FALSE, hidden |-> FALSE] \in DomNode
  BY <1>1, TokenIs, Zenon
<1> QED BY <1>4, <1>5

-----------------------------------------------------------------------------
\* Every callback keeps it.
TreeFits == Suits(tree, node, current, parents)

LEMMA NodesAre ==
  ASSUME MaxNesting \in Nat, TreeFits, NEW N, N = Len(node)
  PROVE  /\ N \in Nat /\ N >= 2 /\ node \in Seq(DomNode) /\ current \in 2..N
         /\ Tags!Null = 0 /\ Tags!Root = 2 /\ Tags!NewNode(tree) = N + 1
<1>1. N \in Nat /\ N >= 2 /\ current \in 2..N
  BY FittingIs DEF TreeFits
<1>2. node \in Seq(DomNode) /\ Nested(tree.parent, N)
  BY Zenon DEF TreeFits, Suits, Planned, Linked, Links
<1>3. Len(tree.parent) = N
  BY <1>2, AsSequence DEF Nested
<1> QED BY <1>1, <1>2, <1>3, Zenon DEF Tags!Null, Tags!Root, Tags!NewNode

LEMMA TextKeeps ==
  ASSUME MaxNesting \in Nat, TreeFits, NEW kind \in {"text", "comment"}, Tags!FoundText(kind)
  PROVE  TreeFits'
<1>1. PICK N, tok : N = Len(node) /\ tok = Tags!Found(kind, kind)
  OBVIOUS
<1>2. N \in Nat /\ N >= 2
  BY <1>1, NodesAre
<1>3. kind \in Kinds /\ kind \in TagNames
  BY Zenon DEF Kinds, TagNames
<1>4. tok \in DomNode /\ tok.offset = Len(node) - 2 /\ ~tok.closed
  BY <1>1, <1>2, <1>3, FoundIs
<1>5. Suits(Tags!append_child(tree, current), Append(node, tok), current, parents)
  BY <1>4, LeafFits, Zenon DEF TreeFits
<1>6. /\ tree' = Tags!append_child(tree, current) /\ node' = Append(node, tok)
      /\ current' = current /\ parents' = parents
  BY <1>1, Zenon DEF Tags!FoundText
<1> QED BY <1>5, <1>6, Zenon DEF TreeFits

LEMMA TagKeeps ==
  ASSUME MaxNesting \in Nat, TreeFits, NEW tag \in StartTags, Tags!FoundTag(tag)
  PROVE  TreeFits'
<1>1. PICK N, found, tok : /\ N = Len(node) /\ found = Tags!Found("tag", tag.name)
                           /\ tok = [found EXCEPT !.hidden = tag.hidden]
  OBVIOUS
<1>2. N \in Nat /\ N >= 2 /\ Tags!NewNode(tree) = N + 1
  BY <1>1, NodesAre
<1>3. PICK kind \in Kinds : kind = "tag"
  BY Zenon DEF Kinds
<1>4. PICK name \in TagNames : name = tag.name
  BY Zenon DEF TagNames
<1>5. PICK b : b = tag.hidden /\ b \in {start.hidden : start \in StartTags} \cup {FALSE}
  BY Zenon
<1>6. tok = [kind |-> kind, name |-> name, offset |-> N - 2, length |-> 1, closed |-> FALSE, hidden |-> b]
  <2>1. found = Tags!Found(kind, name)
    BY <1>1, <1>3, <1>4, Zenon
  <2>2. found = [kind |-> kind, name |-> name, offset |-> N - 2, length |-> 1, closed |-> FALSE, hidden |-> FALSE]
    BY <1>1, <1>2, <2>1, FoundIs, Zenon
  <2>3. tok = [found EXCEPT !.hidden = b]
    BY <1>1, <1>5
  <2> QED BY <2>2, <2>3
<1>7. tok \in DomNode /\ tok.offset = Len(node) - 2 /\ ~tok.closed /\ tok.name = tag.name
  <2>1. N - 2 \in Nat
    BY <1>2
  <2>2. tok \in DomNode
    BY <1>5, <1>6, <2>1, TokenIs, Zenon
  <2> QED BY <1>1, <1>4, <1>6, <2>2
<1>8. tree' = Tags!append_child(tree, current) /\ node' = Append(node, tok)
  BY <1>1, Zenon DEF Tags!FoundTag
<1>9. CASE tag.void
  <2>1. current' = current /\ parents' = parents
    BY <1>9, Zenon DEF Tags!FoundTag
  <2>2. Suits(Tags!append_child(tree, current), Append(node, tok), current, parents)
    BY <1>7, LeafFits, Zenon DEF TreeFits
  <2> QED BY <1>8, <2>1, <2>2, Zenon DEF TreeFits
<1>10. CASE ~tag.void
  <2>1. current' = Len(node) + 1 /\ parents' = Append(parents, tok.name) /\ Len(Append(parents, tok.name)) <= MaxNesting
    BY <1>1, <1>2, <1>7, <1>10, Zenon DEF Tags!FoundTag
  <2>2. Suits(Tags!append_child(tree, current), Append(node, tok), Len(node) + 1, Append(parents, tok.name))
    BY <1>7, <2>1, OpenFits, Zenon DEF TreeFits
  <2> QED BY <1>8, <2>1, <2>2, Zenon DEF TreeFits
<1> QED BY <1>9, <1>10

LEMMA EndKeeps ==
  ASSUME MaxNesting \in Nat, TreeFits, NEW name \in TagNames, Tags!FoundEnd(name)
  PROVE  TreeFits'
<1>1. PICK N, p, u, v, i, c, tag, to, end, path :
        /\ N = Len(node) /\ p = tree.parent /\ u = Up(tree) /\ v = u[current]
        /\ i = Tags!Innermost(Tags!Matches(name)) /\ c = i + 1 /\ tag = Tags!Path[i] /\ to = p[tag]
        /\ end = Tags!Found("end", name) /\ path = SubSeq(Tags!Path, i + 1, Len(Tags!Path))
  OBVIOUS
<1>2. Here(tree, node, current, N, p, u, v)
  BY <1>1, Zenon DEF Here
<1>3. Tags!Matches(name) # {}
  BY Zenon DEF Tags!FoundEnd
<1>4. /\ Way(u, p, N, current, v, c, tag, to) /\ RestOf(path, v, c)
      /\ Tags!PopParents(name) = SubSeq(parents, 1, i - 1) /\ i \in Nat
  BY <1>1, <1>2, <1>3, MatchIs, Zenon DEF TreeFits
<1>5. PICK g, md : /\ g = Tags!FlattenAll(path)
                   /\ md = [node EXCEPT ![tag].length = end.offset + end.length - node[tag].offset, ![tag].closed = TRUE]
  OBVIOUS
<1>6. /\ current' = to /\ tree' = Tags!append_child(g, to) /\ node' = Append(md, end)
      /\ parents' = SubSeq(parents, 1, i - 1)
  BY <1>1, <1>4, <1>5, Zenon DEF Tags!FoundEnd
<1>7. N \in Nat /\ N >= 2 /\ node \in Seq(DomNode) /\ current \in 2..N
  BY <1>1, NodesAre
<1>8. end \in DomNode /\ end.offset = N - 2 /\ end.length = 1 /\ ~end.closed
  <2>1. "end" \in Kinds
    BY Zenon DEF Kinds
  <2> QED BY <1>1, <1>7, <2>1, FoundIs
<1>9. WaySimple(p, N, current, v, c, tag, to)
  BY <1>4, WayIs, Zenon
<1>10. WayNumbers(N, v, c, tag, to)
  BY <1>9, WayCounts, Zenon
<1>11. tag \in 3..N /\ tag \in 1..N /\ c \in 1..Len(v)
  BY <1>10, Zenon DEF WayNumbers
<1>12. end.offset + end.length - node[tag].offset = N + 2 - tag /\ N + 2 - tag \in Nat
  <2>1. node[tag].offset = tag - 3
    BY <1>1, <1>11, Zenon DEF TreeFits, Suits, Planned
  <2> QED BY <1>7, <1>8, <1>11, <2>1
<1>13. Marked(md, node, N, tag, N + 2 - tag)
  BY <1>1, <1>5, <1>7, <1>11, <1>12, MarkedIs, Zenon
<1>14. Linked(tree, N)
  BY <1>1, Zenon DEF TreeFits, Suits, Planned
<1>15. Linked(g, N) /\ Gathered(g.parent, p, N, v, Len(v) - c)
  BY <1>1, <1>4, <1>5, <1>7, <1>11, <1>14, FlattenedAll, Zenon
<1>16. Suits(Tags!append_child(g, to), Append(md, end), to, SubSeq(parents, 1, c - 2))
  BY <1>2, <1>4, <1>8, <1>13, <1>15, EndFits, Zenon DEF TreeFits
<1>17. c - 2 = i - 1
  BY <1>1, <1>4
<1> QED BY <1>6, <1>16, <1>17, Zenon DEF TreeFits

\* An end without a tag takes nothing from what is counted.
LEMMA UnmatchedKeeps ==
  ASSUME MaxNesting \in Nat, TreeFits, NEW name \in TagNames, Tags!FoundUnmatchedEnd(name)
  PROVE  TreeFits'
<1>1. PICK N, p, u, v, tok : /\ N = Len(node) /\ p = tree.parent /\ u = Up(tree) /\ v = u[current]
                             /\ tok = Tags!Found("comment", name)
  OBVIOUS
<1>2. N \in Nat /\ N >= 2
  BY <1>1, NodesAre
<1>3. tok \in DomNode /\ tok.offset = Len(node) - 2 /\ ~tok.closed
  <2>1. "comment" \in Kinds
    BY Zenon DEF Kinds
  <2> QED BY <1>1, <1>2, <2>1, FoundIs
<1>4. Suits(Tags!append_child(tree, current), Append(node, tok), current, parents)
  BY <1>3, LeafFits, Zenon DEF TreeFits
<1>5. Here(tree, node, current, N, p, u, v)
  BY <1>1, Zenon DEF Here
<1>6. Tags!Matches(name) = {k \in DOMAIN parents : parents[k] = name}
  BY <1>5, MatchesAre, Zenon DEF TreeFits
<1>7. Tags!PopParents(name) = parents
  <2>1. Tags!Matches(name) = {}
    BY Zenon DEF Tags!FoundUnmatchedEnd
  <2> QED BY <1>6, <2>1, Zenon DEF Tags!PopParents
<1>8. /\ tree' = Tags!append_child(tree, current) /\ node' = Append(node, tok)
      /\ current' = current /\ parents' = parents
  BY <1>1, <1>7, Zenon DEF Tags!FoundUnmatchedEnd
<1> QED BY <1>4, <1>8, Zenon DEF TreeFits

LEMMA LastKeeps ==
  ASSUME MaxNesting \in Nat, TreeFits, Tags!EndParsing
  PROVE  TreeFits'
<1>1. PICK N, p, v, l, md : /\ N = Len(node) /\ p = tree.parent /\ v = Up(tree)[current] /\ l = N - 2
                            /\ md = [node EXCEPT ![2].length = l]
  OBVIOUS
<1>2. N \in Nat /\ N >= 2 /\ node \in Seq(DomNode) /\ current \in 2..N /\ Tags!Root = 2
  BY <1>1, NodesAre
<1>3. tree' = tree /\ node' = md /\ current' = current /\ parents' = parents
  BY <1>1, <1>2, Zenon DEF Tags!EndParsing, Tags!mCurrentOffset
<1>4. /\ md \in Seq(DomNode) /\ Len(md) = N
      /\ \A k \in 1..N : /\ md[k].name = node[k].name /\ md[k].offset = node[k].offset
                         /\ md[k].closed = node[k].closed /\ (k # 2 => md[k] = node[k])
  <2> DEFINE new == [node[2] EXCEPT !.length = l]
  <2>1. node \in [1..N -> DomNode] /\ 2 \in 1..N /\ l \in Nat
    BY <1>1, <1>2, LenProperties
  <2>2. node[2] \in DomNode
    BY <2>1
  <2>3. new \in DomNode /\ new.name = node[2].name /\ new.offset = node[2].offset /\ new.closed = node[2].closed
    BY <2>1, <2>2 DEF DomNode
  <2>4. md = [k \in 1..N |-> IF k = 2 THEN new ELSE node[k]]
    BY <1>1, <2>1
  <2> HIDE DEF new
  <2>5. md \in [1..N -> DomNode] /\ \A k \in 1..N : md[k] = IF k = 2 THEN new ELSE node[k]
    BY <2>1, <2>3, <2>4
  <2>6. md \in Seq(DomNode) /\ Len(md) = N
    BY <1>2, <2>5, AsSequence
  <2> QED BY <2>3, <2>5, <2>6
<1>5. /\ Nested(p, N) /\ v \in Seq(1..N) /\ Named(v, node, parents)
      /\ Len(parents) \in Nat /\ Len(v) = Len(parents) + 1
  BY <1>1, FittingIs DEF TreeFits
<1>6. Named(v, md, parents)
  <2>1. \A j \in 1..Len(parents) : v[j + 1] \in 1..N
    <3>1. \A j \in 1..Len(parents) : j + 1 \in 1..Len(v)
      BY <1>5
    <3> QED BY <1>5, <3>1, ElementOfSeq
  <2> QED BY <1>4, <1>5, <2>1 DEF Named
<1>7. \A m \in 3..N : m \in 1..N /\ m # 2 /\ p[m] \in 1..N
  <2>1. p \in [1..N -> Nat] /\ \A m \in 3..N : p[m] >= 2 /\ p[m] < m
    BY <1>5 DEF Nested
  <2> QED BY <1>2, <2>1
<1>8. /\ Linked(tree, N) /\ Rightmost(p, N, current)
      /\ \A m \in 3..N : node[m].offset = m - 3 /\ Around(p, node, current, m)
      /\ \A m \in 1..N : Len(Up(tree)[m]) <= MaxNesting + 2
      /\ \A m \in 3..N : node[m].closed => Closes(p, N, m, m + node[m].length - 1, current)
  BY <1>1, Zenon DEF TreeFits, Suits, Planned
<1>9. Planned(tree, md)
  <2>1. \A m \in 3..N : md[m].offset = m - 3
    BY <1>4, <1>7, <1>8
  <2> QED BY <1>4, <1>8, <2>1, Zenon DEF Planned
<1>10. \A m \in 3..N : Around(p, md, current, m)
  BY <1>4, <1>7, <1>8, Zenon DEF Around
<1>11. \A m \in 3..N : md[m].closed => Closes(p, N, m, m + md[m].length - 1, current)
  BY <1>4, <1>7, <1>8, Zenon
<1>12. Suits(tree, md, current, parents)
  BY <1>1, <1>2, <1>4, <1>6, <1>8, <1>9, <1>10, <1>11, Zenon DEF Suits
<1> QED BY <1>3, <1>12, Zenon DEF TreeFits

LEMMA PlantedFits ==
  ASSUME MaxNesting \in Nat, Tags!DomInit
  PROVE  TreeFits
<1>1. PICK root : root = Tags!Blank
  OBVIOUS
<1>2. tree = Tags!Planted /\ node = <<root, root>> /\ current = 2 /\ parents = <<>>
  BY <1>1, Zenon DEF Tags!DomInit, Tags!Root
<1>3. tree = [parent |-> <<0, 0>>, first |-> <<0, 0>>, last |-> <<0, 0>>, prev |-> <<2, 0>>, next |-> <<0, 1>>]
  BY <1>2, Zenon DEF Tags!Planted, Tags!Null, Tags!Root, Tags!Feet
<1>4. PICK p : p = tree.parent
  OBVIOUS
<1>5. p = <<0, 0>> /\ Nested(p, 2)
  BY <1>3, <1>4 DEF Nested
<1>6. Linked(tree, 2)
  <2>1. \A n \in 2..2 : FirstIs(p, 2, n, 0) /\ LastIs(p, 2, n, 0)
    BY DEF FirstIs, LastIs
  <2>2. Links(<<0, 0>>, <<0, 0>>, <<0, 0>>, <<2, 0>>, <<0, 1>>, 2)
    BY <1>5, <2>1 DEF Links
  <2> QED BY <1>3, <2>2 DEF Linked
<1>7. root \in DomNode
  <2>1. PICK kind \in Kinds, name \in TagNames : kind = "root" /\ name = "root"
    BY Zenon DEF Kinds, TagNames
  <2>2. root = [kind |-> kind, name |-> name, offset |-> 0, length |-> 0, closed |-> FALSE, hidden |-> FALSE]
    BY <1>1, <2>1, Zenon DEF Tags!Blank
  <2> QED BY <2>2, TokenIs
<1>8. node \in Seq(DomNode) /\ Len(node) = 2
  BY <1>2, <1>7
<1>9. Rises(Up(tree), p, 2)
  BY <1>4, <1>5, UpIs
<1>10. Up(tree)[1] = <<1>> /\ Up(tree)[2] = <<2>>
  <2>1. p[1] = 0 /\ p[2] = 0 /\ 1 \in 1..2 /\ 2 \in 1..2
    BY <1>5
  <2>2. Up(tree)[1] = Append(<<>>, 1) /\ Up(tree)[2] = Append(<<>>, 2)
    BY <1>9, <2>1, Zenon DEF Rises
  <2> QED BY <2>2
<1>11. Named(Up(tree)[current], node, parents)
  <2>1. PICK v : v = Up(tree)[2]
    OBVIOUS
  <2>2. Len(v) = 1
    BY <1>10, <2>1
  <2>3. PICK ps : ps = <<>> /\ ps \in Seq(TagNames) /\ Len(ps) = 0
    BY EmptySeq
  <2>4. Named(v, node, ps)
    <3>1. \A j \in 1..0 : FALSE
      OBVIOUS
    <3> QED BY <2>2, <2>3, <3>1 DEF Named
  <2> QED BY <1>2, <2>1, <2>3, <2>4, Zenon
<1>12. Planned(tree, node)
  <2>1. \A m \in 1..2 : m = 1 \/ m = 2
    OBVIOUS
  <2>2. \A m \in 1..2 : Len(Up(tree)[m]) <= MaxNesting + 2
    <3>1. Len(<<1>>) = 1 /\ Len(<<2>>) = 1
      OBVIOUS
    <3>2. Len(Up(tree)[1]) = 1 /\ Len(Up(tree)[2]) = 1
      BY <1>10, <3>1, Zenon
    <3>3. 1 <= MaxNesting + 2
      OBVIOUS
    <3> QED BY <2>1, <3>2, <3>3
  <2> QED BY <1>6, <1>8, <2>2 DEF Planned
<1>13. Rightmost(p, 2, 2) /\ 2 \in 2..2 /\ ~ \E m \in 3..2 : TRUE
  BY DEF Rightmost
<1>14. \A m \in 3..Len(node) : FALSE
  BY <1>8
<1>15. current \in 2..Len(node) /\ Rightmost(tree.parent, Len(node), current)
  BY <1>2, <1>4, <1>8, <1>13
<1> QED BY <1>11, <1>12, <1>14, <1>15, Zenon DEF TreeFits, Suits

LEMMA DomKeeps ==
  ASSUME MaxNesting \in Nat, TreeFits, Tags!DomNext
  PROVE  TreeFits'
<1>1. \A tag \in StartTags : tag.name \in TagNames
  BY Zenon DEF TagNames
<1>2. CASE Tags!FoundText("text")
  BY <1>2, TextKeeps, Zenon
<1>3. CASE Tags!FoundText("comment")
  BY <1>3, TextKeeps, Zenon
<1>4. CASE \E tag \in StartTags : Tags!FoundTag(tag)
  BY <1>4, TagKeeps, Zenon
<1>5. CASE \E tag \in StartTags : Tags!FoundEnd(tag.name)
  BY <1>1, <1>5, EndKeeps, Zenon
<1>6. CASE \E tag \in StartTags : Tags!FoundUnmatchedEnd(tag.name)
  BY <1>1, <1>6, UnmatchedKeeps, Zenon
<1>7. CASE Tags!EndParsing
  BY <1>7, LastKeeps, Zenon
<1> QED BY <1>2, <1>3, <1>4, <1>5, <1>6, <1>7, Zenon DEF Tags!DomNext

\* A page's tree is what its text says, and no deeper than was counted before it
\* was parsed, whatever the tags and however badly they are nested
\* (ParserDom.cpp:41-130, tree.h, safety.cpp:86-128).
THEOREM TreeIsTheText ==
  Tags!DomAssumption => (Tags!Spec => [](Tags!TreeFitsText /\ Tags!BudgetBoundsDepth))
<1> SUFFICES ASSUME Tags!DomAssumption PROVE Tags!Spec => [](Tags!TreeFitsText /\ Tags!BudgetBoundsDepth)
  OBVIOUS
<1>1. MaxNesting \in Nat
  BY DEF Tags!DomAssumption
<1>2. Tags!Init => TreeFits
  BY <1>1, PlantedFits, Zenon DEF Tags!Init
<1>3. TreeFits /\ [Tags!Next]_(Tags!vars) => TreeFits'
  <2> SUFFICES ASSUME TreeFits, [Tags!Next]_(Tags!vars) PROVE TreeFits'
    OBVIOUS
  <2>1. CASE Tags!Parse
    BY <1>1, <2>1, DomKeeps, Zenon DEF Tags!Parse
  <2>2. CASE UNCHANGED Tags!domVars
    BY <2>2, Zenon DEF Tags!domVars, TreeFits
  <2>3. Tags!SkipScript \/ Tags!PassComment \/ Tags!ListText \/ Tags!SkipHidden \/ Tags!OpenTag
          \/ Tags!CloseTag => UNCHANGED Tags!domVars
    BY Zenon DEF Tags!SkipScript, Tags!PassComment, Tags!ListText, Tags!SkipHidden, Tags!OpenTag,
                 Tags!CloseTag, Tags!Iteration
  <2>4. Tags!Leave => UNCHANGED Tags!domVars
    BY Zenon DEF Tags!Leave
  <2>5. UNCHANGED Tags!vars => UNCHANGED Tags!domVars
    BY Zenon DEF Tags!vars
  <2> QED BY <2>1, <2>2, <2>3, <2>4, <2>5, Zenon DEF Tags!Next
<1>4. TreeFits => Tags!TreeFitsText /\ Tags!BudgetBoundsDepth
  BY <1>1, FittingTree, Zenon DEF TreeFits
<1> QED BY <1>2, <1>3, <1>4, PTL DEF Tags!Spec

=============================================================================
