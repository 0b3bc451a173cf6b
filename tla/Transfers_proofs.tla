-------------------------- MODULE Transfers_proofs --------------------------
(***************************************************************************)
(* Downloads for any jobs, destinations and limits: each job has one owner,*)
(* only whole files get a final name, and what a download moves aside is   *)
(* what its user agreed to replace.                                        *)
(***************************************************************************)
EXTENDS Transfers, SequenceTheorems, FiniteSetTheorems, Recursion, TLAPS

\* The download thread holds a job.
Busy == {"open", "bar", "add", "refuse", "close", "stat", "displace", "publish", "unbar"}

\* Queue, map and hand are disjoint, and the queue holds no job twice.
Owned ==
  /\ \A i, k \in 1..Len(queue) : queue[i] = queue[k] => i = k
  /\ ToSet(queue) \cap active = {}
  /\ current \notin ToSet(queue) \cup active
  /\ heap = ToSet(queue) \cup active \cup ({current} \ {NoJob})
  /\ IsFiniteSet(active)

\* Where the two threads are, and the flags they stop each other with.
Stages ==
  /\ current # NoJob <=> pc \in Busy
  /\ pc \in {"open", "bar", "add", "refuse"} => Cardinality(active) < MaxActive
  /\ asked # NoJob <=> menu = "add"
  /\ asked \notin heap /\ asked \notin fresh /\ fresh \cap heap = {}
  /\ menu = "boot" => ~stop /\ ~ready /\ pc = "wait"
  /\ ready <=> manager
  /\ ~ready => heap = {}
  /\ pc = "done" => ~ready
  /\ loop = "shutdown" => stop
  /\ pc \in {"drain", "free"} => loop = "shutdown" /\ active = {}
  /\ pc = "free" => heap = {}

JobInv == TypeOK /\ Owned /\ Stages

-----------------------------------------------------------------------------
(* The queue.                                                              *)

LEMMA Entered ==
  ASSUME NEW S, NEW q \in Seq(S), NEW e \in S, e \notin ToSet(q),
         \A i, k \in 1..Len(q) : q[i] = q[k] => i = k
  PROVE  LET r == Append(q, e) IN
         /\ r \in Seq(S) /\ Len(r) = Len(q) + 1
         /\ ToSet(r) = ToSet(q) \cup {e}
         /\ \A i, k \in 1..Len(r) : r[i] = r[k] => i = k
<1> DEFINE r == Append(q, e)
<1>1. /\ r \in Seq(S) /\ Len(r) = Len(q) + 1 /\ Len(q) \in Nat
      /\ \A i \in 1..Len(q) : r[i] = q[i]
      /\ r[Len(q) + 1] = e
      /\ DOMAIN r = 1..(Len(q) + 1) /\ DOMAIN q = 1..Len(q)
  BY AppendProperties, LenProperties
<1> HIDE DEF r
<1>2. \A i \in 1..(Len(q) + 1) : i = Len(q) + 1 \/ i \in 1..Len(q)
  BY <1>1
<1>3. \A i \in 1..Len(q) : q[i] # e
  BY <1>1 DEF ToSet
<1>4. ToSet(r) = ToSet(q) \cup {e}
  <2>1. ToSet(r) \subseteq ToSet(q) \cup {e}
    BY <1>1, <1>2 DEF ToSet
  <2>2. ToSet(q) \subseteq ToSet(r)
    BY <1>1 DEF ToSet
  <2>3. e \in ToSet(r)
    BY <1>1 DEF ToSet
  <2> QED BY <2>1, <2>2, <2>3
<1>5. \A i, k \in 1..Len(r) : r[i] = r[k] => i = k
  BY <1>1, <1>2, <1>3
<1> QED BY <1>1, <1>4, <1>5 DEF r

LEMMA Taken ==
  ASSUME NEW S, NEW q \in Seq(S), q # <<>>,
         \A i, k \in 1..Len(q) : q[i] = q[k] => i = k
  PROVE  /\ Head(q) \in ToSet(q) /\ Head(q) \in S
         /\ Tail(q) \in Seq(S) /\ Len(Tail(q)) = Len(q) - 1
         /\ ToSet(Tail(q)) = ToSet(q) \ {Head(q)}
         /\ \A i, k \in 1..Len(Tail(q)) : Tail(q)[i] = Tail(q)[k] => i = k
<1> DEFINE r == Tail(q)
<1>1. /\ Head(q) \in S /\ r \in Seq(S) /\ Len(r) = Len(q) - 1
      /\ \A i \in 1..Len(r) : r[i] = q[i + 1]
  BY HeadTailProperties
<1>2. Head(q) = q[1] /\ Len(q) \in Nat /\ Len(q) >= 1 /\ DOMAIN q = 1..Len(q)
  BY EmptySeq, LenProperties
<1>3. DOMAIN r = 1..Len(r)
  BY <1>1, LenProperties
<1> HIDE DEF r
<1>4. \A i \in 1..Len(r) : i + 1 \in 1..Len(q) /\ i + 1 # 1
  BY <1>1, <1>2
<1>5. \A i \in 1..Len(q) : i = 1 \/ i - 1 \in 1..Len(r)
  BY <1>1, <1>2
<1>6. ToSet(r) \subseteq ToSet(q) \ {Head(q)}
  BY <1>1, <1>2, <1>3, <1>4 DEF ToSet
<1>7. ASSUME NEW x \in ToSet(q), x # Head(q) PROVE x \in ToSet(r)
  <2>1. PICK i \in 1..Len(q) : x = q[i]
    BY <1>2 DEF ToSet
  <2>2. i - 1 \in 1..Len(r) /\ r[i - 1] = q[i - 1 + 1] /\ i - 1 + 1 = i
    BY <1>1, <1>2, <1>5, <1>7, <2>1
  <2> QED BY <1>3, <2>1, <2>2 DEF ToSet
<1>8. Head(q) \in ToSet(q)
  BY <1>2 DEF ToSet
<1>9. \A i, k \in 1..Len(r) : r[i] = r[k] => i = k
  <2> SUFFICES ASSUME NEW i \in 1..Len(r), NEW k \in 1..Len(r), r[i] = r[k] PROVE i = k
    OBVIOUS
  <2>1. i + 1 = k + 1
    BY <1>1, <1>4
  <2> QED BY <2>1
<1> QED BY <1>1, <1>6, <1>7, <1>8, <1>9 DEF r

LEMMA Empty ==
  /\ <<>> \in Seq(Jobs) /\ Len(<<>>) = 0 /\ ToSet(<<>>) = {}
  /\ IsFiniteSet({}) /\ Cardinality({}) = 0
  BY EmptySeq, FS_EmptySet DEF ToSet

-----------------------------------------------------------------------------
(* Ownership.                                                              *)

LEMMA InitJobs == Init => JobInv
<1> SUFFICES ASSUME Init PROVE JobInv
  OBVIOUS
<1>1. /\ Nothing \in Contents /\ UserFile \in Contents
      /\ MaxActive \in Nat /\ MaxQueue \in Nat /\ 0 <= MaxActive /\ 0 <= MaxQueue
  BY LimitsAssumption DEF Contents, Nothing, UserFile
<1>2. TypeOK
  <2>1. fs \in [Files -> [dest : Contents, part : Contents, bak : Contents]]
    BY <1>1 DEF Init
  <2>2. agreed \in [Jobs -> Contents] /\ overwrite \in [Jobs -> BOOLEAN] /\ bar \in [Jobs -> Bars \cup {NoBar}]
        /\ result \in [Jobs -> {"none", "ok", "error"}]
    BY <1>1 DEF Init, Boot
  <2>3. queue \in Seq(Jobs) /\ Len(queue) <= MaxQueue /\ Cardinality(active) <= MaxActive
    BY <1>1, Empty DEF Init, Boot
  <2> QED BY <2>1, <2>2, <2>3 DEF Init, Boot, TypeOK
<1>3. Owned
  BY Empty DEF Init, Boot, Owned
<1>4. Stages
  BY JobsAssumption DEF Init, Boot, Stages, Busy
<1> QED BY <1>2, <1>3, <1>4 DEF JobInv

LEMMA RestartJobs == JobInv /\ Restart => JobInv'
<1> SUFFICES ASSUME JobInv, Restart PROVE JobInv'
  OBVIOUS
<1>1. /\ Nothing \in Contents
      /\ MaxActive \in Nat /\ MaxQueue \in Nat /\ 0 <= MaxActive /\ 0 <= MaxQueue
  BY LimitsAssumption DEF Contents, Nothing
<1>2. TypeOK'
  <2>1. fs' \in [Files -> [dest : Contents, part : Contents, bak : Contents]] /\ fresh' \subseteq Jobs
    BY DEF Restart, JobInv, TypeOK
  <2>2. agreed' \in [Jobs -> Contents] /\ overwrite' \in [Jobs -> BOOLEAN] /\ bar' \in [Jobs -> Bars \cup {NoBar}]
        /\ result' \in [Jobs -> {"none", "ok", "error"}]
    BY <1>1 DEF Restart
  <2>3. queue' \in Seq(Jobs) /\ Len(queue') <= MaxQueue /\ Cardinality(active') <= MaxActive
    BY <1>1, Empty DEF Restart
  <2> QED BY <2>1, <2>2, <2>3 DEF Restart, TypeOK
<1>3. Owned'
  BY Empty DEF Restart, Owned
<1>4. Stages'
  BY JobsAssumption DEF Restart, Stages, Busy, JobInv, TypeOK
<1> QED BY <1>2, <1>3, <1>4 DEF JobInv

\* The menu thread, the pointer, and what keeps every job where it is.
LEMMA MenuJobs == JobInv /\ (Menu \/ Gui \/ UNCHANGED vars) => JobInv'
<1> SUFFICES ASSUME JobInv, Menu \/ Gui \/ UNCHANGED vars PROVE JobInv'
  OBVIOUS
<1> USE JobsAssumption DEF JobInv
<1>1. CASE InitTransfers
  <2>1. TypeOK'
    <3>1. /\ menu' \in {"boot", "menu", "add", "exit"}
          /\ stop' \in BOOLEAN /\ ready' \in BOOLEAN /\ manager' \in BOOLEAN
      BY <1>1 DEF InitTransfers, TypeOK
    <3>2. UNCHANGED <<fs, asked, overwrite, agreed, fresh, heap, queue, active, current, result, bar, shown,
                      clicked, pc, loop>>
      BY <1>1 DEF InitTransfers, jobVars, barVars
    <3> QED BY <3>1, <3>2 DEF TypeOK
  <2>2. Owned'
    BY <1>1 DEF InitTransfers, Owned, jobVars
  <2>3. Stages'
    BY <1>1 DEF InitTransfers, Stages, jobVars, Busy
  <2> QED BY <2>1, <2>2, <2>3
<1>2. ASSUME NEW j \in Jobs, Ask(j) PROVE JobInv'
  <2>1. TypeOK'
    <3>1. fs[Dest[j]].dest \in Contents
      BY <1>2 DEF TypeOK
    <3>2. agreed' \in [Jobs -> Contents] /\ overwrite' \in [Jobs -> BOOLEAN]
      BY <1>2, <3>1 DEF Ask, TypeOK
    <3> QED BY <1>2, <3>2 DEF Ask, TypeOK, jobVars, barVars, lifeVars
  <2>2. Owned'
    BY <1>2 DEF Ask, Owned, jobVars
  <2>3. Stages'
    BY <1>2 DEF Ask, Stages, jobVars, lifeVars, Busy
  <2> QED BY <2>1, <2>2, <2>3
<1>3. CASE AddRefused
  <2>1. TypeOK'
    BY <1>3 DEF AddRefused, TypeOK, jobVars, barVars, lifeVars
  <2>2. Owned'
    BY <1>3 DEF AddRefused, Owned, jobVars
  <2>3. Stages'
    <3> NoJob \notin heap /\ NoJob \notin fresh
      BY DEF TypeOK
    <3> QED BY <1>3 DEF AddRefused, Stages, jobVars, lifeVars, Busy
  <2> QED BY <2>1, <2>2, <2>3
<1>4. CASE AddDownload
  <2>1. /\ asked \in Jobs /\ asked \notin heap /\ asked \notin fresh /\ ready /\ ~stop
        /\ queue \in Seq(Jobs) /\ Len(queue) < MaxQueue /\ Len(queue) \in Nat
        /\ asked \notin ToSet(queue)
    BY <1>4, LenProperties DEF AddDownload, TypeOK, Stages, Owned
  <2>2. /\ queue' \in Seq(Jobs) /\ Len(queue') = Len(queue) + 1
        /\ ToSet(queue') = ToSet(queue) \cup {asked}
        /\ \A i, k \in 1..Len(queue') : queue'[i] = queue'[k] => i = k
    BY <1>4, <2>1, Entered DEF AddDownload, Owned
  <2>3. TypeOK'
    <3>1. Len(queue') <= MaxQueue
      BY <2>1, <2>2, LimitsAssumption
    <3> QED BY <1>4, <2>1, <2>2, <3>1 DEF AddDownload, TypeOK, barVars, lifeVars
  <2>4. Owned'
    BY <1>4, <2>1, <2>2 DEF AddDownload, Owned
  <2>5. Stages'
    <3> NoJob \notin heap /\ NoJob \notin fresh
      BY DEF TypeOK
    <3> QED BY <1>4, <2>1 DEF AddDownload, Stages, lifeVars, Busy
  <2> QED BY <2>3, <2>4, <2>5
<1>5. CASE StopDownload
  <2>1. TypeOK'
    BY <1>5 DEF StopDownload, TypeOK, jobVars, barVars
  <2>2. Owned'
    BY <1>5 DEF StopDownload, Owned, jobVars
  <2>3. Stages'
    BY <1>5 DEF StopDownload, Stages, jobVars, Busy
  <2> QED BY <2>1, <2>2, <2>3
<1>6. ASSUME NEW b \in Bars, ClickCancel(b) PROVE JobInv'
  <2>1. TypeOK'
    BY <1>6 DEF ClickCancel, TypeOK, menuVars, jobVars, lifeVars
  <2>2. Owned'
    BY <1>6 DEF ClickCancel, Owned, jobVars
  <2>3. Stages'
    BY <1>6 DEF ClickCancel, Stages, menuVars, jobVars, lifeVars, Busy
  <2> QED BY <2>1, <2>2, <2>3
<1>7. CASE UNCHANGED vars
  <2>1. TypeOK'
    BY <1>7 DEF vars, TypeOK, fileVars, menuVars, jobVars, barVars, lifeVars
  <2>2. Owned'
    BY <1>7 DEF vars, Owned, jobVars
  <2>3. Stages'
    BY <1>7 DEF vars, Stages, menuVars, jobVars, lifeVars, Busy
  <2> QED BY <2>1, <2>2, <2>3
<1> QED BY <1>1, <1>2, <1>3, <1>4, <1>5, <1>6, <1>7 DEF Menu, Gui

\* The steps of the download thread that leave every job where it is.
LEMMA StandingJobs ==
  ASSUME JobInv, UNCHANGED <<menuVars, heap, queue, active, current, ready, manager, stop>>,
         fs' \in [Files -> [dest : Contents, part : Contents, bak : Contents]],
         result' \in [Jobs -> {"none", "ok", "error"}],
         bar' \in [Jobs -> Bars \cup {NoBar}], shown' \subseteq Bars, clicked' \subseteq Bars,
         pc' \in {"wait", "top", "fill", "open", "bar", "add", "refuse", "perform",
                  "complete", "close", "stat", "displace", "publish", "unbar",
                  "drain", "free", "done"},
         loop' \in {"collect", "failall", "shutdown"},
         pc \in Busy <=> pc' \in Busy,
         pc' \in {"open", "bar", "add", "refuse"} => pc \in {"open", "bar", "add"},
         menu = "boot" => pc' = "wait",
         pc' = "done" => ~ready,
         loop' = "shutdown" => stop,
         pc' \in {"drain", "free"} => loop' = "shutdown" /\ active = {},
         pc' # "free"
  PROVE  JobInv'
<1>1. TypeOK'
  BY DEF JobInv, TypeOK, menuVars
<1>2. Owned'
  BY DEF JobInv, Owned
<1>3. Stages'
  BY DEF JobInv, Stages, menuVars
<1> QED BY <1>1, <1>2, <1>3 DEF JobInv

\* Renames and writes keep the volume a volume.
LEMMA FsType ==
  ASSUME TypeOK, NEW f \in Files, NEW c \in Contents, NEW d \in Contents
  PROVE  /\ [fs EXCEPT ![f].part = c] \in [Files -> [dest : Contents, part : Contents, bak : Contents]]
         /\ [fs EXCEPT ![f].bak = c, ![f].dest = d]
              \in [Files -> [dest : Contents, part : Contents, bak : Contents]]
         /\ [fs EXCEPT ![f].dest = c, ![f].part = d]
              \in [Files -> [dest : Contents, part : Contents, bak : Contents]]
<1> DEFINE Volume == [dest : Contents, part : Contents, bak : Contents]
<1>1. \A v \in Volume, x \in Contents :
        /\ [v EXCEPT !.part = x] \in Volume /\ [v EXCEPT !.bak = x] \in Volume
        /\ [v EXCEPT !.dest = x] \in Volume
  OBVIOUS
<1>2. fs \in [Files -> Volume]
  BY DEF TypeOK
<1> HIDE DEF Volume
<1>3. \A g \in [Files -> Volume], x \in Contents :
        /\ [g EXCEPT ![f].part = x] \in [Files -> Volume]
        /\ [g EXCEPT ![f].bak = x] \in [Files -> Volume]
        /\ [g EXCEPT ![f].dest = x] \in [Files -> Volume]
  BY <1>1
<1>4. [fs EXCEPT ![f].bak = c, ![f].dest = d] \in [Files -> Volume]
  <2> DEFINE moved == [fs EXCEPT ![f].bak = c]
  <2>1. moved \in [Files -> Volume]
    BY <1>2, <1>3
  <2>2. [moved EXCEPT ![f].dest = d] \in [Files -> Volume]
    <3> HIDE DEF moved
    <3> QED BY <1>3, <2>1
  <2> QED BY <2>2
<1>5. [fs EXCEPT ![f].dest = c, ![f].part = d] \in [Files -> Volume]
  <2> DEFINE moved == [fs EXCEPT ![f].dest = c]
  <2>1. moved \in [Files -> Volume]
    BY <1>2, <1>3
  <2>2. [moved EXCEPT ![f].part = d] \in [Files -> Volume]
    <3> HIDE DEF moved
    <3> QED BY <1>3, <2>1
  <2> QED BY <2>2
<1> QED BY <1>2, <1>3, <1>4, <1>5 DEF Volume

LEMMA DownloadJobs == JobInv /\ Download => JobInv'
<1> SUFFICES ASSUME JobInv, Download PROVE JobInv'
  OBVIOUS
<1> USE DEF Busy
<1>t. TypeOK /\ Owned /\ Stages
  BY DEF JobInv
<1>c. current # NoJob => current \in Jobs /\ Dest[current] \in Files
  BY <1>t, JobsAssumption DEF TypeOK
<1>k. /\ Nothing \in Contents
      /\ current \in Jobs => Part(current) \in Contents /\ Full(current) \in Contents
      /\ \A f \in Files : fs[f].dest \in Contents /\ fs[f].part \in Contents
  BY <1>t DEF Contents, Nothing, Part, Full, TypeOK
<1>1. CASE Begin \/ Top \/ FillDone \/ Performed \/ CommitFails \/ StatDest
  <2> UNCHANGED <<menuVars, heap, queue, active, current, ready, manager, stop, fs, result, bar, shown,
                  clicked>>
    BY <1>1 DEF Begin, Top, FillDone, Performed, CommitFails, StatDest, menuVars, jobVars, barVars, lifeVars
  <2>1. /\ pc \in Busy <=> pc' \in Busy
        /\ pc' \in {"top", "done", "complete", "fill", "perform", "unbar", "publish", "displace"}
        /\ pc' = "done" => ~ready
        /\ pc = "wait" => ready \/ stop
    BY <1>1 DEF Begin, Top, FillDone, Performed, CommitFails, StatDest
  <2>2. loop' \in {"collect", "failall", "shutdown"} /\ (loop' = "shutdown" => stop)
    BY <1>1, <1>t DEF Begin, Top, FillDone, Performed, CommitFails, StatDest, TypeOK, Stages
  <2> QED BY <1>t, <2>1, <2>2, StandingJobs DEF TypeOK, Stages
<1>11. CASE LoopDone
  <2> UNCHANGED <<menuVars, heap, queue, active, current, ready, manager, stop, fs, result, bar, shown,
                  clicked>>
    BY <1>11 DEF LoopDone, menuVars, jobVars, barVars, lifeVars
  <2>1. pc = "complete" /\ loop \in {"collect", "failall", "shutdown"}
    BY <1>11, <1>t DEF LoopDone, TypeOK
  <2>2. \/ loop = "collect" /\ pc' = "top" /\ loop' = loop
        \/ loop = "failall" /\ pc' = "complete" /\ loop' = "collect"
        \/ loop = "shutdown" /\ pc' = "drain" /\ loop' = loop /\ active = {}
    <3>1. CASE loop = "collect"
      BY <1>11, <3>1 DEF LoopDone
    <3>2. CASE loop = "failall"
      BY <1>11, <3>2 DEF LoopDone
    <3>3. CASE loop = "shutdown"
      BY <1>11, <3>3 DEF LoopDone, ToComplete
    <3> QED BY <2>1, <3>1, <3>2, <3>3
  <2> QED BY <1>t, <2>1, <2>2, StandingJobs DEF TypeOK, Stages
<1>2. CASE OpenPart \/ Close \/ Displace \/ Publish
  <2> /\ UNCHANGED <<menuVars, heap, queue, active, current, ready, manager, stop, result,
                     bar, shown, clicked, loop>>
      /\ pc \in Busy /\ pc' \in Busy
      /\ pc' \in {"open", "bar", "add", "refuse"} => pc = "open"
    BY <1>2 DEF OpenPart, Close, Displace, Publish, menuVars, jobVars, barVars, lifeVars
  <2>1. fs' \in [Files -> [dest : Contents, part : Contents, bak : Contents]]
    <3> DEFINE here == Dest[current]
    <3>0. current \in Jobs /\ here \in Files
      BY <1>t, <1>c DEF Stages
    <3>1. CASE OpenPart
      <4>1. fs' = fs \/ fs' = [fs EXCEPT ![here].part = Part(current)]
        BY <3>1 DEF OpenPart
      <4> HIDE DEF here
      <4>2. [fs EXCEPT ![here].part = Part(current)]
              \in [Files -> [dest : Contents, part : Contents, bak : Contents]]
        BY <1>t, <1>k, <3>0, FsType
      <4> QED BY <1>t, <4>1, <4>2 DEF TypeOK
    <3>2. CASE Close
      <4>1. fs' = fs \/ fs' = [fs EXCEPT ![here].part = Full(current)]
        BY <3>2 DEF Close
      <4> HIDE DEF here
      <4>2. [fs EXCEPT ![here].part = Full(current)]
              \in [Files -> [dest : Contents, part : Contents, bak : Contents]]
        BY <1>t, <1>k, <3>0, FsType
      <4> QED BY <1>t, <4>1, <4>2 DEF TypeOK
    <3>3. CASE Displace
      <4>1. fs' = [fs EXCEPT ![here].bak = fs[here].dest, ![here].dest = Nothing]
        BY <3>3 DEF Displace
      <4> HIDE DEF here
      <4>2. fs[here].dest \in Contents
        BY <1>k, <3>0
      <4> QED BY <1>t, <1>k, <3>0, <4>1, <4>2, FsType
    <3>4. CASE Publish
      <4>1. fs' = [fs EXCEPT ![here].dest = fs[here].part, ![here].part = Nothing]
        BY <3>4 DEF Publish
      <4> HIDE DEF here
      <4>2. fs[here].part \in Contents
        BY <1>k, <3>0
      <4> QED BY <1>t, <1>k, <3>0, <4>1, <4>2, FsType
    <3> QED BY <1>2, <3>1, <3>2, <3>3, <3>4
  <2> QED BY <1>t, <2>1, StandingJobs DEF TypeOK, Stages
<1>3. CASE CreateBar
  <2> /\ UNCHANGED <<fs, menuVars, heap, queue, active, current, ready, manager, stop, result, loop>>
      /\ pc = "bar" /\ pc' \in {"add", "refuse"} /\ current \in Jobs
    BY <1>3, <1>t, <1>c DEF CreateBar, jobVars, lifeVars, Stages
  <2>1. bar' \in [Jobs -> Bars \cup {NoBar}] /\ shown' \subseteq Bars /\ clicked' \subseteq Bars
    BY <1>3, <1>t DEF CreateBar, TypeOK, barVars
  <2> QED BY <1>t, <2>1, StandingJobs DEF TypeOK, Stages
<1>4. CASE AddHandle
  <2>1. pc = "add" /\ current \in Jobs /\ Cardinality(active) < MaxActive /\ current \notin active
    BY <1>4, <1>t, <1>c DEF AddHandle, Stages, Owned
  <2>2. CASE RemoveBar(current) /\ pc' = "refuse" /\ UNCHANGED <<active, result, current>>
    <3> UNCHANGED <<fs, menuVars, heap, queue, active, current, ready, manager, stop, result, loop>>
      BY <1>4, <2>2 DEF AddHandle, lifeVars
    <3>1. bar' \in [Jobs -> Bars \cup {NoBar}] /\ shown' \subseteq Bars /\ clicked' \subseteq Bars
      BY <2>1, <2>2, <1>t DEF RemoveBar, TypeOK
    <3> QED BY <1>t, <2>1, <2>2, <3>1, StandingJobs DEF TypeOK, Stages
  <2>3. CASE /\ active' = active \cup {current}
             /\ result' = [result EXCEPT ![current] = "none"]
             /\ current' = NoJob
             /\ pc' = "fill"
             /\ UNCHANGED barVars
    <3>1. IsFiniteSet(active') /\ Cardinality(active') <= MaxActive
      <4>1. IsFiniteSet(active) /\ Cardinality(active) \in Nat
        BY <1>t, FS_CardinalityType DEF Owned
      <4>2. IsFiniteSet(active') /\ Cardinality(active') = Cardinality(active) + 1
        BY <2>1, <2>3, <4>1, FS_AddElement
      <4> QED BY <2>1, <4>1, <4>2, LimitsAssumption
    <3>2. TypeOK'
      BY <1>4, <1>t, <2>1, <2>3, <3>1 DEF AddHandle, TypeOK, menuVars, barVars, lifeVars
    <3>3. Owned'
      BY <1>4, <1>t, <2>1, <2>3, <3>1, JobsAssumption DEF AddHandle, Owned, TypeOK
    <3>4. Stages'
      BY <1>4, <1>t, <2>1, <2>3 DEF AddHandle, Stages, menuVars, lifeVars
    <3> QED BY <3>2, <3>3, <3>4 DEF JobInv
  <2> QED BY <1>4, <2>2, <2>3 DEF AddHandle
<1>5. ASSUME NEW j \in Jobs, Finish(j) PROVE JobInv'
  <2> /\ UNCHANGED <<fs, menuVars, heap, queue, active, current, ready, manager, stop, bar, shown,
                     clicked, pc, loop>>
      /\ pc = "perform"
    BY <1>5 DEF Finish, barVars, lifeVars
  <2>1. result' \in [Jobs -> {"none", "ok", "error"}]
    BY <1>5, <1>t DEF Finish, TypeOK
  <2> QED BY <1>t, <2>1, StandingJobs DEF TypeOK, Stages
<1>6. CASE Pop
  <2>1. /\ Head(queue) \in ToSet(queue) /\ Head(queue) \in Jobs
        /\ Tail(queue) \in Seq(Jobs) /\ Len(Tail(queue)) = Len(queue) - 1
        /\ ToSet(Tail(queue)) = ToSet(queue) \ {Head(queue)}
        /\ \A i, k \in 1..Len(Tail(queue)) : Tail(queue)[i] = Tail(queue)[k] => i = k
    BY <1>6, <1>t, Taken DEF Pop, TypeOK, Owned
  <2>2. Cardinality(active) < MaxActive
    BY <1>6, <1>t, FS_CardinalityType, LimitsAssumption DEF Pop, TypeOK, Owned
  <2>3. pc = "fill" /\ current = NoJob /\ pc' = "open" /\ current' = Head(queue) /\ queue' = Tail(queue)
        /\ UNCHANGED <<fs, menuVars, heap, active, result, barVars, lifeVars, loop>>
    BY <1>6, <1>t DEF Pop, Stages
  <2>4. TypeOK'
    <3> Len(queue') <= MaxQueue
      BY <1>t, <2>1, <2>3, LenProperties, LimitsAssumption DEF TypeOK
    <3> QED BY <1>t, <2>1, <2>3 DEF TypeOK, menuVars, barVars, lifeVars
  <2>5. Owned'
    BY <1>t, <2>1, <2>3, JobsAssumption DEF Owned
  <2>6. Stages'
    BY <1>t, <2>1, <2>2, <2>3, JobsAssumption DEF Stages, menuVars, lifeVars
  <2> QED BY <2>4, <2>5, <2>6 DEF JobInv
<1>7. CASE Refuse \/ Release
  <2>1. /\ pc \in Busy /\ current \in Jobs /\ current' = NoJob /\ heap' = heap \ {current}
        /\ pc' \in {"fill", "complete"}
        /\ UNCHANGED <<fs, menuVars, queue, active, result, lifeVars, loop>>
    BY <1>7, <1>t, <1>c DEF Refuse, Release, Stages
  <2>2. bar' \in [Jobs -> Bars \cup {NoBar}] /\ shown' \subseteq Bars /\ clicked' \subseteq Bars
    BY <1>7, <1>t, <2>1 DEF Refuse, Release, RemoveBar, TypeOK, barVars
  <2>3. TypeOK'
    BY <1>t, <2>1, <2>2 DEF TypeOK, menuVars, lifeVars
  <2>4. Owned'
    BY <1>t, <2>1, JobsAssumption DEF Owned, TypeOK
  <2>5. Stages'
    BY <1>t, <2>1 DEF Stages, menuVars, lifeVars
  <2> QED BY <2>3, <2>4, <2>5 DEF JobInv
<1>8. ASSUME NEW j \in Jobs, Complete(j) PROVE JobInv'
  <2>1. /\ pc = "complete" /\ j \in active /\ active' = active \ {j} /\ current' = j /\ pc' = "close"
        /\ current = NoJob
        /\ UNCHANGED <<fs, menuVars, heap, queue, barVars, lifeVars, loop>>
    BY <1>8, <1>t DEF Complete, ToComplete, Stages
  <2>2. result' \in [Jobs -> {"none", "ok", "error"}]
    BY <1>8, <1>t DEF Complete, TypeOK
  <2>3. IsFiniteSet(active') /\ Cardinality(active') <= MaxActive
    <3>1. IsFiniteSet(active) /\ Cardinality(active) \in Nat /\ Cardinality(active) <= MaxActive
      BY <1>t, FS_CardinalityType DEF Owned, TypeOK
    <3>2. IsFiniteSet(active') /\ Cardinality(active') = Cardinality(active) - 1
      BY <2>1, <3>1, FS_RemoveElement
    <3> QED BY <3>1, <3>2, LimitsAssumption
  <2>4. TypeOK'
    BY <1>t, <2>1, <2>2, <2>3 DEF TypeOK, menuVars, barVars, lifeVars
  <2>5. Owned'
    BY <1>t, <2>1, <2>3, JobsAssumption DEF Owned
  <2>6. Stages'
    BY <1>t, <2>1, JobsAssumption DEF Stages, menuVars, lifeVars
  <2> QED BY <2>4, <2>5, <2>6 DEF JobInv
<1>9. CASE Drain
  <2>1. /\ pc = "drain" /\ active = {} /\ current = NoJob /\ stop
        /\ heap' = {} /\ queue' = <<>> /\ pc' = "free"
        /\ UNCHANGED <<fs, menuVars, active, current, result, barVars, lifeVars, loop>>
    BY <1>9, <1>t DEF Drain, Stages, Owned
  <2>2. TypeOK'
    <3> 0 <= MaxQueue
      BY LimitsAssumption
    <3> QED BY <1>t, <2>1, Empty DEF TypeOK, menuVars, barVars, lifeVars
  <2>3. Owned'
    BY <1>t, <2>1, Empty DEF Owned
  <2>4. Stages'
    BY <1>t, <2>1 DEF Stages, menuVars, lifeVars
  <2> QED BY <2>2, <2>3, <2>4 DEF JobInv
<1>10. CASE Free
  <2>1. TypeOK'
    BY <1>10, <1>t DEF Free, TypeOK, menuVars, jobVars, barVars
  <2>2. Owned'
    BY <1>10, <1>t DEF Free, Owned, jobVars
  <2>3. Stages'
    BY <1>10, <1>t DEF Free, Stages, menuVars, jobVars
  <2> QED BY <2>1, <2>2, <2>3 DEF JobInv
<1> QED BY <1>1, <1>2, <1>3, <1>4, <1>5, <1>6, <1>7, <1>8, <1>9, <1>10, <1>11 DEF Download

LEMMA JobStep == JobInv /\ [Next]_vars => JobInv'
BY MenuJobs, DownloadJobs, RestartJobs DEF Next

\* Distinct entries: as many jobs as places.
LEMMA QueueSize ==
  ASSUME NEW S, NEW q \in Seq(S), \A i, k \in 1..Len(q) : q[i] = q[k] => i = k
  PROVE  IsFiniteSet(ToSet(q)) /\ Cardinality(ToSet(q)) = Len(q)
<1>1. Len(q) \in Nat /\ DOMAIN q = 1..Len(q) /\ q \in [1..Len(q) -> S]
  BY LenProperties
<1>2. q \in Bijection(1..Len(q), ToSet(q))
  BY <1>1 DEF Bijection, Injection, Surjection, IsInjective, ToSet
<1>3. IsFiniteSet(1..Len(q)) /\ Cardinality(1..Len(q)) = Len(q)
  BY <1>1, FS_Interval
<1> QED BY <1>2, <1>3, FS_Bijection DEF ExistsBijection

LEMMA DisjointSize ==
  ASSUME NEW S, NEW T, IsFiniteSet(S), IsFiniteSet(T), S \cap T = {}
  PROVE  IsFiniteSet(S \cup T) /\ Cardinality(S \cup T) = Cardinality(S) + Cardinality(T)
<1>1. IsFiniteSet(S \cup T) /\ Cardinality(S \cup T) = Cardinality(S) + Cardinality(T) - Cardinality({})
  BY FS_Union
<1>2. Cardinality(S) \in Nat /\ Cardinality(T) \in Nat /\ Cardinality({}) = 0
  BY FS_CardinalityType, FS_EmptySet
<1> QED BY <1>1, <1>2

\* Each allocated job is in exactly one place, and a thread that is done left
\* none behind.
THEOREM EveryJobOwnedOnce == Spec => []OwnedOnce
<1>1. JobInv => OwnedOnce
  <2> SUFFICES ASSUME JobInv PROVE OwnedOnce
    OBVIOUS
  <2>1. TypeOK /\ Owned /\ Stages
    BY DEF JobInv
  <2> DEFINE hand == {current} \ {NoJob}
             inHand == IF current = NoJob THEN 0 ELSE 1
  <2>2. IsFiniteSet(hand) /\ Cardinality(hand) = inHand
    <3>1. CASE current = NoJob
      <4> hand = {}
        BY <3>1
      <4> QED BY <3>1, FS_EmptySet
    <3>2. CASE current # NoJob
      <4> hand = {current}
        BY <3>2
      <4> QED BY <3>2, FS_Singleton
    <3> QED BY <3>1, <3>2
  <2>3. IsFiniteSet(ToSet(queue)) /\ Cardinality(ToSet(queue)) = Len(queue) /\ Len(queue) \in Nat
    BY <2>1, QueueSize, LenProperties DEF TypeOK, Owned
  <2>4. IsFiniteSet(active) /\ Cardinality(active) \in Nat
    BY <2>1, FS_CardinalityType DEF Owned
  <2>5. /\ IsFiniteSet(ToSet(queue) \cup active)
        /\ Cardinality(ToSet(queue) \cup active) = Len(queue) + Cardinality(active)
    <3> ToSet(queue) \cap active = {}
      BY <2>1 DEF Owned
    <3> QED BY <2>3, <2>4, DisjointSize
  <2>6. Cardinality((ToSet(queue) \cup active) \cup hand) = Len(queue) + Cardinality(active) + inHand
    <3> (ToSet(queue) \cup active) \cap hand = {}
      BY <2>1 DEF Owned
    <3> HIDE DEF hand, inHand
    <3>1. Cardinality((ToSet(queue) \cup active) \cup hand)
            = Cardinality(ToSet(queue) \cup active) + Cardinality(hand)
      BY <2>2, <2>5, DisjointSize
    <3> QED BY <2>2, <2>5, <3>1
  <2>7. heap = (ToSet(queue) \cup active) \cup hand
    BY <2>1 DEF Owned
  <2>8. pc = "done" => heap = {} /\ ~manager /\ ~ready /\ active = {}
    BY <2>1 DEF Owned, Stages
  <2> QED BY <2>1, <2>6, <2>7, <2>8 DEF OwnedOnce, Owned
<1> QED BY <1>1, InitJobs, JobStep, PTL DEF Spec

-----------------------------------------------------------------------------
(* The files.                                                              *)

\* A job with a handle, or on its way to or from one, is the one whose bytes
\* are in the .part; and commit knows at each call what stands at the names.
Held ==
  /\ \A j \in active : fs[Dest[j]].part = Part(j)
  /\ pc \in {"bar", "add", "close"} => fs[Dest[current]].part = Part(current)
  /\ pc \in {"stat", "displace", "publish"} => fs[Dest[current]].part = Full(current)
  /\ pc = "displace" => /\ fs[Dest[current]].dest # Nothing /\ fs[Dest[current]].bak = Nothing
                        /\ overwrite[current]
  /\ pc = "publish" => fs[Dest[current]].dest = Nothing

\* What a user agreed to replace stands where he saw it as long as nothing was
\* moved aside there.
Agreed ==
  \A j \in heap \cup ({asked} \ {NoJob}) :
    overwrite[j] => /\ agreed[j] # Nothing
                    /\ fs[Dest[j]].dest = agreed[j] \/ fs[Dest[j]].bak # Nothing

FileInv == Held /\ Agreed /\ OnlyWholeFilesPublished

LEMMA Kinds ==
  /\ \A i, j : Part(i) # Full(j) /\ Part(i) # Nothing /\ Full(i) # Nothing
  /\ \A i, j : Part(i) = Part(j) => i = j
  /\ \A j : Part(j).kind = "part" /\ Part(j).job = j
  /\ \A j : Full(j).kind = "full"
  /\ Nothing.kind = "none" /\ UserFile.kind = "user"
  BY DEF Part, Full, Nothing, UserFile

\* The steps that leave the volume alone, and no new job to commit.
LEMMA StandingFiles ==
  ASSUME JobInv, FileInv, UNCHANGED <<fs, overwrite, agreed>>, active' \subseteq active,
         heap' \cup ({asked'} \ {NoJob}) \subseteq heap \cup ({asked} \ {NoJob}),
         \/ pc' = pc /\ current' = current
         \/ pc' \notin {"bar", "add", "close", "stat", "displace", "publish"}
  PROVE  FileInv'
<1>1. Held'
  <2>1. CASE pc' = pc /\ current' = current
    BY <2>1 DEF FileInv, Held
  <2>2. CASE pc' \notin {"bar", "add", "close", "stat", "displace", "publish"}
    BY <2>2 DEF FileInv, Held
  <2> QED BY <2>1, <2>2
<1>2. Agreed'
  BY DEF FileInv, Agreed
<1>3. OnlyWholeFilesPublished'
  BY DEF FileInv, OnlyWholeFilesPublished
<1> QED BY <1>1, <1>2, <1>3 DEF FileInv

LEMMA MenuFiles == JobInv /\ FileInv /\ (Menu \/ Gui \/ Restart \/ UNCHANGED vars) => FileInv'
<1> SUFFICES ASSUME JobInv, FileInv, Menu \/ Gui \/ Restart \/ UNCHANGED vars PROVE FileInv'
  OBVIOUS
<1>t. TypeOK /\ Owned /\ Stages
  BY DEF JobInv
<1>1. CASE InitTransfers \/ StopDownload \/ (\E b \in Bars : ClickCancel(b)) \/ UNCHANGED vars
  <2> UNCHANGED <<fs, overwrite, agreed, active, heap, asked, pc, current>>
    BY <1>1 DEF InitTransfers, StopDownload, ClickCancel, vars, fileVars, menuVars, jobVars
  <2> QED BY StandingFiles
<1>2. ASSUME NEW j \in Jobs, Ask(j) PROVE FileInv'
  <2>1. /\ j \notin heap /\ asked = NoJob /\ asked' = j /\ Dest[j] \in Files
        /\ overwrite' = [overwrite EXCEPT ![j] = fs[Dest[j]].dest # Nothing]
        /\ agreed' = [agreed EXCEPT ![j] = fs[Dest[j]].dest]
        /\ UNCHANGED <<fs, heap, queue, active, current, pc>>
    BY <1>2, <1>t, JobsAssumption DEF Ask, Stages, jobVars
  <2>2. current # j
    BY <1>t, <2>1, JobsAssumption DEF Owned
  <2>3. Held'
    <3>1. pc = "displace" => current \in Jobs
      BY <1>t DEF Stages, TypeOK, Busy
    <3>2. pc = "displace" => overwrite'[current] = overwrite[current]
      BY <1>t, <2>1, <2>2, <3>1 DEF TypeOK
    <3> QED BY <2>1, <3>2 DEF FileInv, Held
  <2>4. Agreed'
    <3>1. heap \subseteq Jobs
      BY <1>t DEF TypeOK
    <3>2. \A i \in heap : overwrite'[i] = overwrite[i] /\ agreed'[i] = agreed[i]
      BY <1>t, <2>1, <3>1 DEF TypeOK
    <3>3. overwrite'[j] => agreed'[j] # Nothing /\ fs[Dest[j]].dest = agreed'[j]
      BY <1>t, <2>1 DEF TypeOK
    <3> QED BY <2>1, <3>2, <3>3 DEF FileInv, Agreed
  <2> QED BY <2>1, <2>3, <2>4 DEF FileInv, OnlyWholeFilesPublished
<1>3. CASE AddRefused
  <2> UNCHANGED <<fs, overwrite, agreed, active, heap, pc, current>> /\ asked' = NoJob
    BY <1>3 DEF AddRefused, jobVars
  <2> QED BY StandingFiles
<1>4. CASE AddDownload
  <2> /\ UNCHANGED <<fs, overwrite, agreed, active, pc, current>> /\ asked' = NoJob
      /\ heap' = heap \cup {asked} /\ asked # NoJob
    BY <1>4, <1>t DEF AddDownload, Stages
  <2> QED BY StandingFiles
<1>5. CASE Restart
  BY <1>5 DEF Restart, FileInv, Held, Agreed, OnlyWholeFilesPublished
<1> QED BY <1>1, <1>2, <1>3, <1>4, <1>5 DEF Menu, Gui

\* The bytes of the job at hand are written, or change their name.
LEMMA WriteFiles == JobInv /\ FileInv /\ (OpenPart \/ Close \/ Displace \/ Publish) => FileInv'
<1> SUFFICES ASSUME JobInv, FileInv, OpenPart \/ Close \/ Displace \/ Publish PROVE FileInv'
  OBVIOUS
<1> DEFINE here == Dest[current]
<1>t. TypeOK /\ Owned /\ Stages /\ Held /\ Agreed /\ OnlyWholeFilesPublished
  BY DEF JobInv, FileInv
<1>c. /\ current \in Jobs /\ here \in Files /\ current \in heap /\ current \notin active
      /\ \A j \in active : j \in Jobs /\ Dest[j] \in Files
      /\ \A j \in heap \cup ({asked} \ {NoJob}) : j \in Jobs /\ Dest[j] \in Files
  <2>1. current # NoJob
    BY <1>t DEF OpenPart, Close, Displace, Publish, Stages, Busy
  <2> QED BY <1>t, <2>1, JobsAssumption DEF TypeOK, Owned
<1>s. UNCHANGED <<overwrite, agreed, asked, active, heap, current>>
  BY DEF OpenPart, Close, Displace, Publish, menuVars, jobVars
<1>1. CASE pc' \in {"refuse", "unbar"} /\ fs' = fs
  BY <1>s, <1>1, StandingFiles
\* Another job of the same destination is not running: its bytes would be in
\* the .part.
<1>2. ASSUME NEW c, fs' = [fs EXCEPT ![here].part = c],
             \/ pc = "open" /\ fs[here].part = Nothing /\ pc' = "bar" /\ c = Part(current)
             \/ pc = "close" /\ pc' = "stat" /\ c = Full(current)
      PROVE  FileInv'
  <2> HIDE DEF here
  <2>1. /\ \A g \in Files : g # here => fs'[g] = fs[g]
        /\ fs'[here].part = c /\ fs'[here].dest = fs[here].dest /\ fs'[here].bak = fs[here].bak
    BY <1>t, <1>c, <1>2 DEF TypeOK
  <2>2. \A j \in active : Dest[j] # here
    <3> SUFFICES ASSUME NEW j \in active, Dest[j] = here PROVE FALSE
      OBVIOUS
    <3>1. fs[here].part = Part(j)
      BY <1>t DEF Held
    <3>2. fs[here].part \in {Nothing, Part(current)}
      BY <1>t, <1>2 DEF Held, here
    <3> QED BY <1>c, <3>1, <3>2, Kinds
  <2>3. Held'
    BY <1>t, <1>c, <1>s, <1>2, <2>1, <2>2 DEF Held, here
  <2>4. Agreed'
    <3> \A g \in Files : fs'[g].dest = fs[g].dest /\ fs'[g].bak = fs[g].bak
      BY <2>1
    <3> QED BY <1>t, <1>c, <1>s DEF Agreed
  <2>5. OnlyWholeFilesPublished'
    BY <1>t, <2>1 DEF OnlyWholeFilesPublished
  <2> QED BY <2>3, <2>4, <2>5 DEF FileInv
<1>3. CASE Displace
  <2>1. /\ fs' = [fs EXCEPT ![here].bak = fs[here].dest, ![here].dest = Nothing]
        /\ pc = "displace" /\ pc' = "publish"
    BY <1>3 DEF Displace
  <2> HIDE DEF here
  <2>2. /\ \A g \in Files : g # here => fs'[g] = fs[g]
        /\ fs'[here].part = fs[here].part /\ fs'[here].dest = Nothing /\ fs'[here].bak = fs[here].dest
    BY <1>t, <1>c, <2>1 DEF TypeOK
  <2>3. fs[here].dest # Nothing /\ fs[here].part = Full(current)
    BY <1>t, <2>1 DEF Held, here
  <2>4. Held'
    <3> \A g \in Files : fs'[g].part = fs[g].part
      BY <2>2
    <3> QED BY <1>t, <1>c, <1>s, <2>1, <2>2, <2>3 DEF Held, here
  <2>5. Agreed'
    BY <1>t, <1>c, <1>s, <2>2, <2>3 DEF Agreed
  <2>6. OnlyWholeFilesPublished'
    BY <1>t, <1>c, <2>2, Kinds DEF OnlyWholeFilesPublished
  <2> QED BY <2>4, <2>5, <2>6 DEF FileInv
<1>4. CASE Publish
  <2>1. /\ fs' = [fs EXCEPT ![here].dest = fs[here].part, ![here].part = Nothing]
        /\ pc = "publish" /\ pc' = "unbar"
    BY <1>4 DEF Publish
  <2> HIDE DEF here
  <2>2. /\ \A g \in Files : g # here => fs'[g] = fs[g]
        /\ fs'[here].part = Nothing /\ fs'[here].dest = fs[here].part /\ fs'[here].bak = fs[here].bak
    BY <1>t, <1>c, <2>1 DEF TypeOK
  <2>3. fs[here].dest = Nothing /\ fs[here].part = Full(current)
    BY <1>t, <2>1 DEF Held, here
  <2>4. \A j \in active : Dest[j] # here
    BY <1>t, <2>3, Kinds DEF Held
  <2>5. Held'
    BY <1>t, <1>c, <1>s, <2>1, <2>2, <2>4 DEF Held
  <2>6. Agreed'
    BY <1>t, <1>c, <1>s, <2>2, <2>3 DEF Agreed
  <2>7. OnlyWholeFilesPublished'
    BY <1>t, <1>c, <2>2, <2>3, Kinds DEF OnlyWholeFilesPublished
  <2> QED BY <2>5, <2>6, <2>7 DEF FileInv
<1>5. CASE OpenPart
  BY <1>1, <1>2, <1>5 DEF OpenPart
<1>6. CASE Close
  BY <1>1, <1>2, <1>6 DEF Close
<1> QED BY <1>3, <1>4, <1>5, <1>6

LEMMA DownloadFiles == JobInv /\ FileInv /\ Download => FileInv'
<1> SUFFICES ASSUME JobInv, FileInv, Download PROVE FileInv'
  OBVIOUS
<1>t. TypeOK /\ Owned /\ Stages /\ Held
  BY DEF JobInv, FileInv
<1>1. CASE Begin \/ Top \/ FillDone \/ Performed \/ LoopDone \/ CommitFails \/ (\E j \in Jobs : Finish(j))
           \/ Free \/ Drain \/ Pop \/ Refuse \/ Release
  <2>1. UNCHANGED <<fs, overwrite, agreed, asked, active>> /\ heap' \subseteq heap
    BY <1>1 DEF Begin, Top, FillDone, Performed, LoopDone, CommitFails, Finish, Free, Drain, Pop, Refuse,
                Release, menuVars, jobVars
  <2>2. \/ pc' = pc /\ current' = current
        \/ pc' \notin {"bar", "add", "close", "stat", "displace", "publish"}
    <3>1. CASE LoopDone
      BY <1>t, <3>1 DEF LoopDone, TypeOK
    <3>2. CASE ~LoopDone
      BY <1>1, <3>2 DEF Begin, Top, FillDone, Performed, CommitFails, Finish, Free, Drain, Pop, Refuse,
                        Release
    <3> QED BY <3>1, <3>2
  <2> QED BY <2>1, <2>2, StandingFiles
<1>2. CASE CreateBar
  <2>1. /\ UNCHANGED <<fs, overwrite, agreed, asked, active, heap, current>>
        /\ pc = "bar" /\ pc' \in {"add", "refuse"}
    BY <1>2 DEF CreateBar, menuVars, jobVars
  <2> QED BY <2>1 DEF FileInv, Held, Agreed, OnlyWholeFilesPublished
<1>3. CASE AddHandle
  <2>1. UNCHANGED <<fs, overwrite, agreed, asked, heap>> /\ pc = "add"
    BY <1>3 DEF AddHandle, menuVars
  <2>2. CASE active' = active \cup {current} /\ pc' = "fill"
    BY <1>t, <2>1, <2>2 DEF FileInv, Held, Agreed, OnlyWholeFilesPublished
  <2>3. CASE active' = active /\ pc' = "refuse"
    BY <2>1, <2>3, StandingFiles
  <2> QED BY <1>3, <2>2, <2>3 DEF AddHandle
<1>4. ASSUME NEW j \in Jobs, Complete(j) PROVE FileInv'
  <2>1. /\ UNCHANGED <<fs, overwrite, agreed, asked, heap>>
        /\ j \in active /\ active' = active \ {j} /\ current' = j /\ pc' = "close"
    BY <1>4 DEF Complete, ToComplete, menuVars
  <2> QED BY <1>t, <2>1 DEF FileInv, Held, Agreed, OnlyWholeFilesPublished
<1>5. CASE StatDest
  <2>1. /\ UNCHANGED <<fs, overwrite, agreed, asked, active, heap, current>> /\ pc = "stat"
        /\ \/ fs[Dest[current]].dest = Nothing /\ pc' = "publish"
           \/ /\ fs[Dest[current]].dest # Nothing /\ overwrite[current]
              /\ fs[Dest[current]].bak = Nothing /\ pc' = "displace"
    BY <1>5 DEF StatDest, menuVars, jobVars
  <2> QED BY <1>t, <2>1 DEF FileInv, Held, Agreed, OnlyWholeFilesPublished
<1>6. CASE OpenPart \/ Close \/ Displace \/ Publish
  BY <1>6, WriteFiles
<1> QED BY <1>1, <1>2, <1>3, <1>4, <1>5, <1>6 DEF Download

LEMMA InitFiles == Init => FileInv
<1> SUFFICES ASSUME Init PROVE FileInv
  OBVIOUS
<1>1. \A f \in Files : fs[f].dest \in {UserFile, Nothing} /\ fs[f].bak = Nothing
  BY DEF Init
<1>2. OnlyWholeFilesPublished
  BY <1>1, Kinds DEF OnlyWholeFilesPublished
<1> QED BY <1>2 DEF Init, Boot, FileInv, Held, Agreed

LEMMA FileStep == JobInv /\ FileInv /\ [Next]_vars => FileInv'
BY MenuFiles, DownloadFiles DEF Next

\* A destination and a backup never hold a part of a file.
THEOREM OnlyWhole == Spec => []OnlyWholeFilesPublished
<1>1. FileInv => OnlyWholeFilesPublished
  BY DEF FileInv
<1> QED BY <1>1, InitJobs, JobStep, InitFiles, FileStep, PTL DEF Spec

-----------------------------------------------------------------------------
\* What may become of the three names of a destination.
Preserved(v, w) ==
  LET after == {w.dest, w.part, w.bak} \ {Nothing} IN
  /\ v.dest \in after \cup {Nothing}
  /\ v.bak \in after \cup {Nothing}
  /\ v.part.kind = "full" => v.part \in after
  /\ v.part.kind = "part" => after \cap {v.part, Full(v.part.job)} # {}

LEMMA StandingPreserved == ASSUME NEW v, NEW w, w.dest = v.dest, w.part = v.part, w.bak = v.bak
                           PROVE  Preserved(v, w)
  BY Kinds DEF Preserved

\* No step takes a file from the volume, and what is moved aside is what the
\* user of the download agreed to replace.
THEOREM AgreedFiles == Spec => OnlyAgreedFilesDisplaced
<1>1. JobInv /\ FileInv /\ [Next]_vars =>
        /\ \A f \in Files : fs'[f].bak # fs[f].bak => fs[f].dest = agreed[current] /\ overwrite[current]
        /\ \A f \in Files : Preserved(fs[f], fs'[f])
  <2> SUFFICES ASSUME JobInv, FileInv, [Next]_vars, NEW f \in Files
               PROVE  /\ fs'[f].bak # fs[f].bak => fs[f].dest = agreed[current] /\ overwrite[current]
                      /\ Preserved(fs[f], fs'[f])
    OBVIOUS
  <2> DEFINE here == Dest[current]
  <2>t. TypeOK /\ Owned /\ Stages /\ Held /\ Agreed
    BY DEF JobInv, FileInv
  <2>1. CASE fs' = fs
    BY <2>1, StandingPreserved
  <2>2. CASE OpenPart \/ Close \/ Displace \/ Publish
    <3>c. current \in Jobs /\ here \in Files /\ current \in heap
      <4>1. current # NoJob
        BY <2>t, <2>2 DEF OpenPart, Close, Displace, Publish, Stages, Busy
      <4> QED BY <2>t, <4>1, JobsAssumption DEF TypeOK, Owned
    <3>1. CASE OpenPart /\ fs' # fs
      <4>1. fs' = [fs EXCEPT ![here].part = Part(current)] /\ fs[here].part = Nothing
        BY <3>1 DEF OpenPart
      <4> HIDE DEF here
      <4>2. /\ \A g \in Files : g # here => fs'[g] = fs[g]
            /\ fs'[here].part = Part(current) /\ fs'[here].dest = fs[here].dest /\ fs'[here].bak = fs[here].bak
        BY <2>t, <3>c, <4>1 DEF TypeOK
      <4> QED BY <4>1, <4>2, StandingPreserved, Kinds DEF Preserved
    <3>2. CASE Close /\ fs' # fs
      <4>1. fs' = [fs EXCEPT ![here].part = Full(current)] /\ fs[here].part = Part(current)
        BY <2>t, <3>2 DEF Close, Held
      <4> HIDE DEF here
      <4>2. /\ \A g \in Files : g # here => fs'[g] = fs[g]
            /\ fs'[here].part = Full(current) /\ fs'[here].dest = fs[here].dest /\ fs'[here].bak = fs[here].bak
        BY <2>t, <3>c, <4>1 DEF TypeOK
      <4> QED BY <4>1, <4>2, StandingPreserved, Kinds DEF Preserved
    <3>3. CASE Displace
      <4>1. fs' = [fs EXCEPT ![here].bak = fs[here].dest, ![here].dest = Nothing] /\ pc = "displace"
        BY <3>3 DEF Displace
      <4>2. fs[here].dest = agreed[current] /\ overwrite[current] /\ fs[here].bak = Nothing
            /\ fs[here].part = Full(current) /\ fs[here].dest # Nothing
        BY <2>t, <3>c, <4>1 DEF Held, Agreed
      <4> HIDE DEF here
      <4>3. /\ \A g \in Files : g # here => fs'[g] = fs[g]
            /\ fs'[here].part = fs[here].part /\ fs'[here].dest = Nothing /\ fs'[here].bak = fs[here].dest
        BY <2>t, <3>c, <4>1 DEF TypeOK
      <4> QED BY <4>2, <4>3, StandingPreserved, Kinds DEF Preserved
    <3>4. CASE Publish
      <4>1. fs' = [fs EXCEPT ![here].dest = fs[here].part, ![here].part = Nothing] /\ pc = "publish"
        BY <3>4 DEF Publish
      <4>2. fs[here].dest = Nothing /\ fs[here].part = Full(current)
        BY <2>t, <4>1 DEF Held
      <4> HIDE DEF here
      <4>3. /\ \A g \in Files : g # here => fs'[g] = fs[g]
            /\ fs'[here].part = Nothing /\ fs'[here].dest = fs[here].part /\ fs'[here].bak = fs[here].bak
        BY <2>t, <3>c, <4>1 DEF TypeOK
      <4> QED BY <4>2, <4>3, StandingPreserved, Kinds DEF Preserved
    <3> QED BY <2>1, <2>2, <3>1, <3>2, <3>3, <3>4
  <2> QED BY <2>1, <2>2 DEF Next, Menu, Gui, Download, Restart, InitTransfers, Ask, AddRefused, AddDownload,
             StopDownload, ClickCancel, Begin, Top, Pop, FillDone, CreateBar, AddHandle, Refuse, Performed,
             LoopDone, CommitFails, StatDest, Release, Drain, Free, Finish, Complete, vars, fileVars
<1> QED BY <1>1, InitJobs, JobStep, InitFiles, FileStep, PTL
    DEF Spec, OnlyAgreedFilesDisplaced, Preserved

-----------------------------------------------------------------------------
(* The bars.                                                               *)

Running ==
  active \cup IF pc \in {"add", "close", "stat", "displace", "publish", "unbar"} THEN {current} ELSE {}

\* Each running job has a bar, no two have the same, and no other job has one.
BarInv ==
  /\ shown = {bar[j] : j \in Running}
  /\ \A j \in Running : bar[j] \in Bars
  /\ \A i, k \in Running : bar[i] = bar[k] => i = k
  /\ \A j \in Jobs \ Running : bar[j] = NoBar

LEMMA StandingBars ==
  ASSUME BarInv, UNCHANGED <<shown, bar>>, Running' = Running
  PROVE  BarInv'
  BY DEF BarInv

LEMMA BarGone ==
  ASSUME JobInv, BarInv, pc \in {"add", "unbar"}, RemoveBar(current), active' = active,
         pc' \in {"refuse", "complete"}
  PROVE  BarInv'
<1>1. /\ current \in Jobs /\ current \notin active /\ bar \in [Jobs -> Bars \cup {NoBar}]
      /\ Running = active \cup {current} /\ Running' = active /\ active \subseteq Jobs
  BY DEF JobInv, TypeOK, Owned, Stages, Busy, Running
<1>2. /\ bar'[current] = NoBar /\ \A j \in Jobs \ {current} : bar'[j] = bar[j]
      /\ shown' = shown \ {bar[current]}
  BY <1>1 DEF RemoveBar
<1>3. shown' = {bar'[j] : j \in active}
  <2>1. \A j \in active : bar[j] # bar[current] /\ bar'[j] = bar[j]
    BY <1>1, <1>2 DEF BarInv
  <2>2. shown = {bar[j] : j \in active} \cup {bar[current]}
    BY <1>1 DEF BarInv
  <2> QED BY <1>2, <2>1, <2>2
<1>4. /\ \A j \in active : bar'[j] \in Bars
      /\ \A i, k \in active : bar'[i] = bar'[k] => i = k
      /\ \A j \in Jobs \ active : bar'[j] = NoBar
  BY <1>1, <1>2 DEF BarInv
<1> QED BY <1>1, <1>3, <1>4 DEF BarInv

LEMMA BarStep == JobInv /\ BarInv /\ [Next]_vars => BarInv'
<1> SUFFICES ASSUME JobInv, BarInv, [Next]_vars PROVE BarInv'
  OBVIOUS
<1>t. TypeOK /\ Owned /\ Stages
  BY DEF JobInv
<1>1. CASE Menu \/ Gui \/ UNCHANGED vars
  <2> UNCHANGED <<shown, bar, active, pc, current>>
    BY <1>1 DEF Menu, Gui, InitTransfers, Ask, AddRefused, AddDownload, StopDownload, ClickCancel, jobVars,
                barVars, vars
  <2> QED BY StandingBars DEF Running
<1>2. CASE Restart
  BY <1>2 DEF Restart, BarInv, Running
<1>3. CASE \/ Begin \/ Top \/ FillDone \/ OpenPart \/ Performed \/ Close \/ CommitFails \/ StatDest
           \/ Displace \/ Publish \/ (\E j \in Jobs : Finish(j))
  <2> /\ UNCHANGED <<shown, bar, active, current>>
      /\ pc \in {"add", "close", "stat", "displace", "publish", "unbar"}
           <=> pc' \in {"add", "close", "stat", "displace", "publish", "unbar"}
    BY <1>3 DEF Begin, Top, FillDone, OpenPart, Performed, Close, CommitFails, StatDest, Displace, Publish,
                Finish, jobVars, barVars
  <2> QED BY StandingBars DEF Running
<1>4. CASE LoopDone
  <2> UNCHANGED <<shown, bar, active>> /\ pc = "complete" /\ pc' \in {"complete", "top", "drain"}
    BY <1>4, <1>t DEF LoopDone, jobVars, barVars, TypeOK
  <2> QED BY StandingBars DEF Running
<1>5. CASE Pop \/ Refuse \/ Drain \/ Free
  <2> /\ UNCHANGED <<shown, bar, active>>
      /\ pc \in {"fill", "refuse", "drain", "free"} /\ pc' \in {"open", "fill", "free", "done"}
    BY <1>5 DEF Pop, Refuse, Drain, Free, jobVars, barVars
  <2> QED BY StandingBars DEF Running
<1>6. CASE CreateBar
  <2>1. CASE pc' = "refuse" /\ UNCHANGED barVars
    <3> UNCHANGED <<shown, bar, active>> /\ pc = "bar"
      BY <1>6, <2>1 DEF CreateBar, jobVars, barVars
    <3> QED BY <2>1, StandingBars DEF Running
  <2>2. ASSUME NEW b \in Bars \ shown, bar' = [bar EXCEPT ![current] = b], shown' = shown \cup {b},
               pc' = "add"
        PROVE  BarInv'
    <3>1. /\ current \in Jobs /\ current \notin active /\ active \subseteq Jobs
          /\ bar \in [Jobs -> Bars \cup {NoBar}] /\ Running = active /\ Running' = active \cup {current}
      BY <1>6, <1>t, <2>2 DEF CreateBar, TypeOK, Owned, Stages, Busy, Running, jobVars
    <3>2. bar'[current] = b /\ \A j \in Jobs \ {current} : bar'[j] = bar[j]
      BY <2>2, <3>1
    <3>3. \A j \in active : bar[j] \in shown /\ bar'[j] = bar[j]
      BY <3>1, <3>2 DEF BarInv
    <3>4. shown' = {bar'[j] : j \in active \cup {current}}
      BY <2>2, <3>1, <3>2, <3>3 DEF BarInv
    <3>5. /\ \A j \in active \cup {current} : bar'[j] \in Bars
          /\ \A i, k \in active \cup {current} : bar'[i] = bar'[k] => i = k
          /\ \A j \in Jobs \ (active \cup {current}) : bar'[j] = NoBar
      BY <2>2, <3>1, <3>2, <3>3 DEF BarInv
    <3> QED BY <3>1, <3>4, <3>5 DEF BarInv
  <2> QED BY <1>6, <2>1, <2>2 DEF CreateBar
<1>7. CASE AddHandle
  <2>1. CASE active' = active \cup {current} /\ pc' = "fill" /\ UNCHANGED barVars
    <3> pc = "add" /\ UNCHANGED <<shown, bar>>
      BY <1>7, <2>1 DEF AddHandle, barVars
    <3> QED BY <2>1, StandingBars DEF Running
  <2>2. CASE RemoveBar(current) /\ pc' = "refuse" /\ active' = active
    BY <1>7, <2>2, BarGone DEF AddHandle
  <2> QED BY <1>7, <2>1, <2>2 DEF AddHandle
<1>8. ASSUME NEW j \in Jobs, Complete(j) PROVE BarInv'
  <2> /\ UNCHANGED <<shown, bar>> /\ pc = "complete" /\ pc' = "close" /\ j \in active
      /\ active' = active \ {j} /\ current' = j
    BY <1>8 DEF Complete, ToComplete, barVars
  <2> QED BY StandingBars DEF Running
<1>9. CASE Release
  BY <1>9, BarGone DEF Release
<1> QED BY <1>1, <1>2, <1>3, <1>4, <1>5, <1>6, <1>7, <1>8, <1>9 DEF Next, Download

\* The visible bars are those of the running jobs, one each, and a job taken
\* from the queue finds a hidden one, for every MAXD up to MAXB.
THEOREM BarsFit == Spec => []BarsMatchJobs
<1>1. Init => BarInv
  BY DEF Init, Boot, BarInv, Running
<1>2. JobInv /\ BarInv => BarsMatchJobs
  <2> SUFFICES ASSUME JobInv, BarInv PROVE BarsMatchJobs
    OBVIOUS
  <2>t. TypeOK /\ Owned /\ Stages
    BY DEF JobInv
  <2>1. IsFiniteSet(Running)
    <3>1. IsFiniteSet(active \cup {current})
      BY <2>t, FS_AddElement DEF Owned
    <3> QED BY <2>t, <3>1 DEF Owned, Running
  <2>2. Cardinality(shown) = Cardinality(Running)
    <3> DEFINE f == [j \in Running |-> bar[j]]
    <3>1. f \in Bijection(Running, shown)
      BY DEF BarInv, Bijection, Injection, Surjection, IsInjective
    <3> QED BY <2>1, <3>1, FS_Bijection DEF ExistsBijection
  <2>3. ASSUME pc = "bar", shown = Bars PROVE FALSE
    <3>1. Cardinality(Bars) = MaxBars
      BY FS_Interval, LimitsAssumption DEF Bars
    <3>2. Cardinality(Running) = Cardinality(active) /\ Cardinality(active) < MaxActive
      BY <2>t, <2>3 DEF Running, Stages
    <3>3. Cardinality(active) \in Nat
      BY <2>t, FS_CardinalityType DEF Owned
    <3> QED BY <2>2, <2>3, <3>1, <3>2, <3>3, LimitsAssumption
  <2> QED BY <2>2, <2>3 DEF BarsMatchJobs, BarInv, Running
<1> QED BY <1>1, <1>2, InitJobs, JobStep, BarStep, PTL DEF Spec

-----------------------------------------------------------------------------
(* FileBrowser: the path that is chosen lies in a folder that is there.     *)

CONSTANTS Folders, Typed, UserFolder, Order, FILE_PAGESIZE, MaxEntries, MaxPath
VARIABLES folders, swapped, rootdir, dir, browserList, selIndex, pageIndex, lines, phase, wasDir, temp, chosen

Chooser == INSTANCE FileBrowser

Devices == {"sd", "usb"}
FolderSet == [dev : Devices, dir : Seq(Chooser!Names)]
Listed == {Chooser!Entry("..", TRUE)} \cup [name : Chooser!Names, isdir : BOOLEAN]

\* Any two entries of a folder are in an order.
LEMMA EntriesAreOrdered ==
  ASSUME Chooser!BrowserAssumption, NEW x \in Listed, NEW y \in Listed
  PROVE  /\ x # y => Chooser!Before(x, y) \/ Chooser!Before(y, x)
         /\ ~Chooser!Before(x, x)
         /\ \A z \in Listed : Chooser!Before(x, y) /\ Chooser!Before(y, z) => Chooser!Before(x, z)
<1>1. ASSUME NEW z \in Listed
      PROVE  /\ z = [name |-> z.name, isdir |-> z.isdir]
             /\ z.name = ".." => z.isdir = TRUE
             /\ z.isdir \in BOOLEAN
             /\ z.name # ".." => z.name \in Chooser!Names
  <2>1. ".." \notin Chooser!Names
    BY DEF Chooser!BrowserAssumption
  <2>2. CASE z = [name |-> "..", isdir |-> TRUE]
    BY <2>2
  <2>3. CASE z \in [name : Chooser!Names, isdir : BOOLEAN]
    BY <2>1, <2>3
  <2> QED BY <2>2, <2>3 DEF Listed, Chooser!Entry
<1>2. /\ \A m, n \in Chooser!Names : m # n => (<<m, n>> \in Order <=> <<n, m>> \notin Order)
      /\ \A m, n, p \in Chooser!Names : <<m, n>> \in Order /\ <<n, p>> \in Order => <<m, p>> \in Order
      /\ \A n \in Chooser!Names : <<n, n>> \notin Order
  BY DEF Chooser!BrowserAssumption
<1>3. x # y => Chooser!Before(x, y) \/ Chooser!Before(y, x)
  <2>1. x # y => x.name # y.name \/ x.isdir # y.isdir
    BY <1>1
  <2> QED BY <1>1, <1>2, <2>1 DEF Chooser!Before
<1>4. ~Chooser!Before(x, x)
  BY <1>1, <1>2 DEF Chooser!Before
<1>5. ASSUME NEW z \in Listed, Chooser!Before(x, y), Chooser!Before(y, z) PROVE Chooser!Before(x, z)
  BY <1>1, <1>2, <1>5 DEF Chooser!Before
<1> QED BY <1>3, <1>4, <1>5

LEMMA Counted == ASSUME NEW S PROVE Chooser!Cardinality(S) = Cardinality(S)
  BY DEF Chooser!Cardinality, Cardinality

\* A folder that lists something has a last entry,
LEMMA LastEntry ==
  ASSUME Chooser!BrowserAssumption, NEW U \in SUBSET Listed, IsFiniteSet(U), U # {}
  PROVE  \E m \in U : \A y \in U \ {m} : Chooser!Before(y, m)
<1> DEFINE n == Cardinality(U)
           HasLast(S) == \E m \in S : \A y \in S \ {m} : Chooser!Before(y, m)
           T == {k \in 0..n : \A S \in SUBSET U : Cardinality(S) = k /\ S # {} => HasLast(S)}
<1>1. n \in Nat /\ \A S \in SUBSET U : IsFiniteSet(S) /\ Cardinality(S) \in Nat
  BY FS_CardinalityType, FS_Subset
<1>2. 0 \in T
  <2>1. \A S \in SUBSET U : Cardinality(S) = 0 => S = {}
    BY <1>1, FS_EmptySet
  <2> QED BY <1>1, <2>1
<1>3. ASSUME NEW k \in 1..n, k - 1 \in T PROVE k \in T
  <2> SUFFICES ASSUME NEW S \in SUBSET U, Cardinality(S) = k, S # {} PROVE HasLast(S)
    BY <1>1
  <2>1. PICK x \in S : TRUE
    OBVIOUS
  <2> DEFINE R == S \ {x}
  <2>2. R \in SUBSET U /\ Cardinality(R) = k - 1
    BY <1>1, <2>1, FS_RemoveElement
  <2>3. CASE R = {}
    BY <2>1, <2>3
  <2>4. CASE R # {}
    <3>1. PICK m \in R : \A y \in R \ {m} : Chooser!Before(y, m)
      BY <1>3, <2>2, <2>4
    <3>2. m \in Listed /\ x \in Listed /\ m # x /\ \A y \in S : y \in Listed
      BY <2>1
    <3>3. CASE Chooser!Before(x, m)
      <4>1. \A y \in S \ {m} : Chooser!Before(y, m)
        BY <3>1, <3>3
      <4> QED BY <4>1
    <3>4. CASE Chooser!Before(m, x)
      <4>1. \A y \in R \ {m} : Chooser!Before(y, x)
        BY <3>1, <3>2, <3>4, EntriesAreOrdered
      <4>2. \A y \in S \ {x} : Chooser!Before(y, x)
        BY <3>4, <4>1
      <4> QED BY <2>1, <4>2
    <3> QED BY <3>2, <3>3, <3>4, EntriesAreOrdered
  <2> QED BY <2>3, <2>4
<1>4. \A k \in 0..n : k \in T
  <2> HIDE DEF T, n
  <2> QED BY <1>1, <1>2, <1>3, Induction
<1>5. n \in T /\ U \in SUBSET U
  BY <1>1, <1>4
<1> QED BY <1>5

InOrder(q, S) ==
  /\ q \in [1..Cardinality(S) -> S]
  /\ \A i, j \in 1..Cardinality(S) : i < j => Chooser!Before(q[i], q[j])

\* so its entries can be sorted,
LEMMA OrderExists ==
  ASSUME Chooser!BrowserAssumption, NEW U \in SUBSET Listed, IsFiniteSet(U)
  PROVE  \E q : InOrder(q, U)
<1> DEFINE n == Cardinality(U)
           T == {k \in 0..n : \A S \in SUBSET U : Cardinality(S) = k => \E q : InOrder(q, S)}
<1>1. n \in Nat /\ \A S \in SUBSET U : IsFiniteSet(S) /\ Cardinality(S) \in Nat
  BY FS_CardinalityType, FS_Subset
<1>2. 0 \in T
  <2> SUFFICES ASSUME NEW S \in SUBSET U, Cardinality(S) = 0 PROVE \E q : InOrder(q, S)
    BY <1>1
  <2>1. InOrder([i \in {} |-> i], S)
    BY DEF InOrder
  <2> QED BY <2>1
<1>3. ASSUME NEW k \in 1..n, k - 1 \in T PROVE k \in T
  <2> SUFFICES ASSUME NEW S \in SUBSET U, Cardinality(S) = k PROVE \E q : InOrder(q, S)
    BY <1>1
  <2>1. S # {}
    BY <1>1, FS_EmptySet
  <2>2. PICK m \in S : \A y \in S \ {m} : Chooser!Before(y, m)
    BY <1>1, <2>1, LastEntry
  <2> DEFINE R == S \ {m}
  <2>3. R \in SUBSET U /\ Cardinality(R) = k - 1
    BY <1>1, <2>2, FS_RemoveElement
  <2>4. PICK q : InOrder(q, R)
    BY <1>3, <2>3
  <2> DEFINE p == [i \in 1..k |-> IF i = k THEN m ELSE q[i]]
  <2>5. \A i \in 1..(k - 1) : q[i] \in R
    BY <2>3, <2>4 DEF InOrder
  <2>6. \A i \in 1..k : i # k => i \in 1..(k - 1)
    BY <1>1
  <2>7. \A i \in 1..k : p[i] \in S
    BY <2>2, <2>5, <2>6
  <2>8. ASSUME NEW i \in 1..k, NEW j \in 1..k, i < j PROVE Chooser!Before(p[i], p[j])
    <3>1. i \in 1..(k - 1) /\ p[i] = q[i] /\ q[i] \in R
      BY <2>5, <2>8
    <3>2. CASE j = k
      BY <2>2, <3>1, <3>2
    <3>3. CASE j # k
      BY <2>3, <2>4, <2>6, <2>8, <3>1, <3>3 DEF InOrder
    <3> QED BY <3>2, <3>3
  <2> QED BY <2>7, <2>8 DEF InOrder
<1>4. \A k \in 0..n : k \in T
  <2> HIDE DEF T, n
  <2> QED BY <1>1, <1>2, <1>3, Induction
<1>5. n \in T /\ U \in SUBSET U
  BY <1>1, <1>4
<1> QED BY <1>5

\* and are all in what the sort returns.
LEMMA SortedList ==
  ASSUME Chooser!BrowserAssumption, NEW S \in SUBSET Listed, IsFiniteSet(S), NEW q, q = Chooser!Sorted(S)
  PROVE  /\ q \in Seq(Listed)
         /\ \A i, j \in 1..Len(q) : i < j => Chooser!Before(q[i], q[j])
         /\ Chooser!ToSet(q) = S
<1> DEFINE n == Cardinality(S)
<1>1. n \in Nat
  BY FS_CardinalityType
<1>2. InOrder(q, S)
  <2> DEFINE Q(r) == r \in [1..n -> S] /\ \A i, j \in 1..n : i < j => Chooser!Before(r[i], r[j])
  <2>1. q = CHOOSE r \in [1..n -> S] : \A i, j \in 1..n : i < j => Chooser!Before(r[i], r[j])
    BY Counted DEF Chooser!Sorted
  <2>2. \E r \in [1..n -> S] : \A i, j \in 1..n : i < j => Chooser!Before(r[i], r[j])
    BY OrderExists DEF InOrder
  <2> QED BY <2>1, <2>2, Zenon DEF InOrder
<1>3. q \in [1..n -> S] /\ \A i, j \in 1..n : i < j => Chooser!Before(q[i], q[j])
  BY <1>2 DEF InOrder
<1> HIDE DEF n
<1>4. q \in Seq(S) /\ Len(q) = n /\ q \in Seq(Listed)
  <2>1. q \in [1..n -> Listed]
    BY <1>3
  <2> QED BY <1>1, <1>3, <2>1
<1>5. \A i, j \in 1..n : q[i] = q[j] => i = j
  <2>1. ASSUME NEW i \in 1..n, NEW j \in 1..n, i < j, q[i] = q[j] PROVE FALSE
    BY <1>3, <2>1, EntriesAreOrdered
  <2>2. \A i, j \in 1..n : i < j \/ j < i \/ i = j
    BY <1>1
  <2> QED BY <2>1, <2>2
<1>6. q \in Injection(1..n, S)
  BY <1>3, <1>5 DEF Injection, IsInjective
<1>7. Cardinality(1..n) = Cardinality(S)
  BY <1>1, FS_Interval DEF n
<1>8. q \in Surjection(1..n, S)
  BY <1>6, <1>7, FS_Injection
<1>9. DOMAIN q = 1..n
  BY <1>3
<1> QED BY <1>3, <1>4, <1>8, <1>9 DEF Surjection, Chooser!ToSet

\* The reader stops at a number of entries.
LEMMA SomeEntries ==
  ASSUME NEW S, IsFiniteSet(S), NEW k \in 0..Cardinality(S)
  PROVE  \E R \in SUBSET S : Cardinality(R) = k
<1> DEFINE n == Cardinality(S)
           T == {i \in 0..n : \E R \in SUBSET S : Cardinality(R) = n - i}
<1>1. n \in Nat
  BY FS_CardinalityType
<1>2. 0 \in T
  BY <1>1
<1>3. ASSUME NEW i \in 1..n, i - 1 \in T PROVE i \in T
  <2>1. PICK R \in SUBSET S : Cardinality(R) = n - (i - 1)
    BY <1>3
  <2>2. IsFiniteSet(R) /\ R # {}
    BY <1>1, <2>1, FS_Subset, FS_EmptySet
  <2>3. PICK x \in R : TRUE
    BY <2>2
  <2>4. Cardinality(R \ {x}) = Cardinality(R) - 1 /\ R \ {x} \in SUBSET S
    BY <2>2, <2>3, FS_RemoveElement
  <2>5. (n - (i - 1)) - 1 = n - i /\ i \in 0..n
    <3> HIDE DEF n
    <3> QED BY <1>1
  <2> HIDE DEF n
  <2> QED BY <2>1, <2>4, <2>5
<1>4. \A i \in 0..n : i \in T
  <2> HIDE DEF T, n
  <2> QED BY <1>1, <1>2, <1>3, Induction
<1>5. n - k \in 0..n /\ n - (n - k) = k
  BY <1>1
<1>6. n - k \in T
  BY <1>4, <1>5
<1> QED BY <1>5, <1>6

\* The image of a finite set.
LEMMA FiniteImage ==
  ASSUME NEW G, IsFiniteSet(G), NEW h, h = [g \in G |-> h[g]]
  PROVE  IsFiniteSet({h[g] : g \in G})
<1> DEFINE H == {h[g] : g \in G}
<1>1. h \in Surjection(G, H)
  BY DEF Surjection
<1> QED BY <1>1, FS_Surjection

FoldersInv == folders \subseteq FolderSet /\ IsFiniteSet(folders)

\* What a folder has is finite and can be sorted.
LEMMA EntriesListed ==
  ASSUME Chooser!BrowserAssumption, FoldersInv, NEW d, NEW f
  PROVE  Chooser!Entries(d, f) \subseteq Listed /\ IsFiniteSet(Chooser!Entries(d, f))
<1> DEFINE up == IF f = <<>> THEN {} ELSE {Chooser!Entry("..", TRUE)}
           G == {g \in folders : g.dev = d /\ g.dir # <<>> /\ Chooser!Front(g.dir) = f}
           h == [g \in G |-> Chooser!Entry(g.dir[Len(g.dir)], TRUE)]
           K == {g \in Chooser!Held : g.dev = d /\ g.dir = f}
           l == [g \in K |-> Chooser!Entry(g.name, FALSE)]
<1>1. Chooser!Entries(d, f) = up \cup {h[g] : g \in G} \cup {l[g] : g \in K}
  BY DEF Chooser!Entries
<1>2. up \subseteq Listed /\ IsFiniteSet(up)
  BY FS_EmptySet, FS_Singleton DEF Listed
<1>3. {h[g] : g \in G} \subseteq Listed
  <2> SUFFICES ASSUME NEW g \in G PROVE Chooser!Entry(g.dir[Len(g.dir)], TRUE) \in Listed
    OBVIOUS
  <2>1. g.dir \in Seq(Chooser!Names) /\ g.dir # <<>>
    BY DEF FoldersInv, FolderSet
  <2>2. g.dir[Len(g.dir)] \in Chooser!Names
    BY <2>1, EmptySeq, LenProperties, ElementOfSeq
  <2> QED BY <2>2 DEF Listed, Chooser!Entry
<1>4. {l[g] : g \in K} \subseteq Listed
  <2> SUFFICES ASSUME NEW g \in K PROVE Chooser!Entry(g.name, FALSE) \in Listed
    OBVIOUS
  <2>1. g.name \in Chooser!Names
    BY DEF Chooser!Held, Chooser!BrowserAssumption
  <2> QED BY <2>1 DEF Listed, Chooser!Entry
<1>5. IsFiniteSet(G) /\ IsFiniteSet(K)
  <2>1. G \in SUBSET folders /\ K \in SUBSET Files
    BY DEF Chooser!Held
  <2>2. IsFiniteSet(Files)
    BY DEF Chooser!BrowserAssumption, Chooser!IsFiniteSet, IsFiniteSet
  <2> QED BY <2>1, <2>2, FS_Subset DEF FoldersInv
<1>6. IsFiniteSet({h[g] : g \in G}) /\ IsFiniteSet({l[g] : g \in K})
  <2>1. h = [g \in G |-> h[g]] /\ l = [g \in K |-> l[g]]
    OBVIOUS
  <2> HIDE DEF G, K, h, l
  <2> QED BY <1>5, <2>1, FiniteImage
<1> HIDE DEF up, G, K, h, l
<1> QED BY <1>1, <1>2, <1>3, <1>4, <1>6, FS_Union

\* The listing of a folder.
LEMMA Parsed ==
  ASSUME Chooser!BrowserAssumption, FoldersInv, NEW d \in Devices, NEW f \in Seq(Chooser!Names),
         NEW p, p = Chooser!ParseDirectory(d, f)
  PROVE  /\ p.root = d /\ p.dir \in Seq(Chooser!Names) /\ p.list \in Seq(Listed)
         /\ \A i, j \in 1..Len(p.list) : i < j => Chooser!Before(p.list[i], p.list[j])
         /\ d \in Chooser!Present =>
              /\ Chooser!Exists(d, p.dir)
              /\ Cardinality(Chooser!Entries(d, p.dir)) <= MaxEntries =>
                   Chooser!ToSet(p.list) = Chooser!Entries(d, p.dir)
<1> DEFINE opened == IF Chooser!Exists(d, f) THEN f ELSE <<>>
           E == Chooser!Entries(d, opened)
           n == Cardinality(E)
           k == IF Chooser!Cardinality(E) > MaxEntries THEN MaxEntries ELSE Chooser!Cardinality(E)
           read == CHOOSE s \in SUBSET E : Chooser!Cardinality(s) = k
<1>1. opened \in Seq(Chooser!Names)
  BY EmptySeq
<1>2. p = [root |-> d, dir |-> opened, ok |-> d \in Chooser!Present,
           list |-> IF d \in Chooser!Present THEN Chooser!Sorted(read) ELSE <<>>]
  BY DEF Chooser!ParseDirectory
<1>3. E \subseteq Listed /\ IsFiniteSet(E)
  BY EntriesListed
<1>4. n \in Nat /\ MaxEntries \in Nat /\ k \in 0..n /\ (n <= MaxEntries => k = n)
  <2>1. n \in Nat /\ MaxEntries \in Nat
    BY <1>3, FS_CardinalityType DEF Chooser!BrowserAssumption
  <2>2. k = IF n > MaxEntries THEN MaxEntries ELSE n
    BY Counted
  <2> HIDE DEF n, k
  <2> QED BY <2>1, <2>2
<1> HIDE DEF opened, E, k
<1>5. read \in SUBSET E /\ Cardinality(read) = k
  <2>1. \E s \in SUBSET E : Chooser!Cardinality(s) = k
    BY <1>3, <1>4, SomeEntries, Counted
  <2> QED BY <2>1, Counted
<1>6. read \in SUBSET Listed /\ IsFiniteSet(read) /\ (k = n => read = E)
  BY <1>3, <1>5, FS_Subset
<1> HIDE DEF read
<1>7. p.root = d /\ p.dir = opened /\ p.list = IF d \in Chooser!Present THEN Chooser!Sorted(read) ELSE <<>>
  BY <1>2
<1>8. CASE d \notin Chooser!Present
  <2>1. p.list = <<>> /\ Len(p.list) = 0 /\ p.list \in Seq(Listed)
    BY <1>7, <1>8, EmptySeq
  <2> QED BY <1>1, <1>7, <1>8, <2>1
<1>9. CASE d \in Chooser!Present
  <2>1. /\ p.list \in Seq(Listed) /\ Chooser!ToSet(p.list) = read
        /\ \A i, j \in 1..Len(p.list) : i < j => Chooser!Before(p.list[i], p.list[j])
    BY <1>6, <1>7, <1>9, SortedList
  <2>2. Chooser!Exists(d, opened)
    BY <1>9 DEF Chooser!Present, opened
  <2> QED BY <1>1, <1>4, <1>6, <1>7, <2>1, <2>2 DEF E
<1> QED BY <1>8, <1>9

\* The list on display has what its folder has, sorted; something of it is
\* selected.
ListInv ==
  /\ rootdir \in Devices /\ dir \in Seq(Chooser!Names) /\ browserList \in Seq(Listed)
  /\ selIndex \in Nat /\ pageIndex \in Nat
  /\ browserList # <<>> => selIndex \in 1..Len(browserList) /\ pageIndex < Len(browserList)
  /\ \A i, j \in 1..Len(browserList) : i < j => Chooser!Before(browserList[i], browserList[j])

IsThere ==
  rootdir \in Chooser!Present \ swapped =>
    /\ Chooser!Exists(rootdir, dir)
    /\ Cardinality(Chooser!Entries(rootdir, dir)) <= MaxEntries =>
         Chooser!ToSet(browserList) = Chooser!Entries(rootdir, dir)

LeadsSomewhere == chosen # Chooser!NoPath /\ chosen.dev \in Chooser!Present => Chooser!Exists(chosen.dev, chosen.dir)

BrowserInv ==
  /\ phase \in {"closed", "loop", "read"} /\ FoldersInv /\ ListInv
  /\ phase # "closed" =>
       /\ temp.dev = rootdir /\ temp.dir \in Seq(Chooser!Names) /\ chosen = Chooser!NoPath
       /\ IsThere
  /\ LeadsSomewhere

\* What is not read again stays as it is there.
LEMMA StaysThere ==
  ASSUME folders' = folders, swapped' = swapped
  PROVE  /\ FoldersInv => FoldersInv'
         /\ chosen' = chosen /\ LeadsSomewhere => LeadsSomewhere'
         /\ rootdir' = rootdir /\ dir' = dir /\ browserList' = browserList /\ IsThere => IsThere'
<1>1. \A d, f : /\ Chooser!Exists(d, f)' = Chooser!Exists(d, f)
                /\ Chooser!Entries(d, f)' = Chooser!Entries(d, f)
                /\ Chooser!Present' = Chooser!Present
  BY DEF Chooser!Exists, Chooser!Entries, Chooser!Held, Chooser!Present
<1>2. chosen' = chosen /\ LeadsSomewhere => LeadsSomewhere'
  BY DEF LeadsSomewhere, Chooser!Exists, Chooser!Present
<1>3. rootdir' = rootdir /\ dir' = dir /\ browserList' = browserList /\ IsThere => IsThere'
  BY DEF IsThere, Chooser!Exists, Chooser!Entries, Chooser!Held, Chooser!Present
<1> QED BY <1>2, <1>3 DEF FoldersInv

LEMMA SameList ==
  ASSUME ListInv, rootdir' = rootdir, dir' = dir, browserList' = browserList, selIndex' = selIndex,
         pageIndex' = pageIndex
  PROVE  ListInv'
  BY DEF ListInv, Chooser!Before

\* A folder that is read and shown.
LEMMA ReadAgain ==
  ASSUME Chooser!BrowserAssumption, FoldersInv, folders' = folders, swapped' = swapped,
         NEW d \in Devices, NEW f \in Seq(Chooser!Names), NEW p, p = Chooser!ParseDirectory(d, f), Chooser!Show(p)
  PROVE  ListInv' /\ IsThere' /\ rootdir' = d /\ dir' = p.dir /\ browserList' = p.list
<1>1. rootdir' = p.root /\ dir' = p.dir /\ browserList' = p.list /\ selIndex' = 1 /\ pageIndex' = 0
  BY DEF Chooser!Show
<1>2. /\ p.root = d /\ p.dir \in Seq(Chooser!Names) /\ p.list \in Seq(Listed)
      /\ \A i, j \in 1..Len(p.list) : i < j => Chooser!Before(p.list[i], p.list[j])
      /\ d \in Chooser!Present =>
           /\ Chooser!Exists(d, p.dir)
           /\ Cardinality(Chooser!Entries(d, p.dir)) <= MaxEntries =>
                Chooser!ToSet(p.list) = Chooser!Entries(d, p.dir)
  BY Parsed
<1>3. p.list # <<>> => Len(p.list) \in Nat \ {0}
  BY <1>2, LenProperties, EmptySeq
<1>4. ListInv'
  BY <1>1, <1>2, <1>3 DEF ListInv, Chooser!Before
<1>5. IsThere'
  BY <1>1, <1>2 DEF IsThere, Chooser!Exists, Chooser!Entries, Chooser!Held, Chooser!Present
<1> QED BY <1>1, <1>2, <1>4, <1>5

LEMMA AtOpen ==
  ASSUME Chooser!BrowserAssumption, BrowserInv, Chooser!Open
  PROVE  BrowserInv'
<1> DEFINE user == Chooser!ParseDirectory(UserFolder.dev, UserFolder.dir)
           d == IF "sd" \in Chooser!Present THEN "sd" ELSE "usb"
<1>1. UserFolder.dev \in Devices /\ UserFolder.dir \in Seq(Chooser!Names)
  BY DEF Chooser!BrowserAssumption, Devices
<1>2. d \in Devices /\ <<>> \in Seq(Chooser!Names)
  BY EmptySeq DEF Devices
<1>3. folders' = folders /\ swapped' = swapped /\ phase' = "loop" /\ chosen' = Chooser!NoPath /\ FoldersInv
  BY DEF Chooser!Open, BrowserInv
<1>4. \/ Chooser!Show(user) /\ temp' = Chooser!Path(UserFolder.dev, UserFolder.dir, "")
      \/ Chooser!Show(Chooser!ParseDirectory(d, <<>>)) /\ temp' = Chooser!Path(d, <<>>, "")
  BY DEF Chooser!Open, Chooser!BrowseDevice
<1> HIDE DEF user, d
<1>5. ListInv' /\ IsThere' /\ temp'.dev = rootdir' /\ temp'.dir \in Seq(Chooser!Names)
  <2>1. CASE Chooser!Show(user) /\ temp' = Chooser!Path(UserFolder.dev, UserFolder.dir, "")
    BY <1>1, <1>3, <2>1, ReadAgain DEF user, Chooser!Path
  <2>2. CASE Chooser!Show(Chooser!ParseDirectory(d, <<>>)) /\ temp' = Chooser!Path(d, <<>>, "")
    BY <1>2, <1>3, <2>2, ReadAgain DEF Chooser!Path
  <2> QED BY <1>4, <2>1, <2>2
<1> QED BY <1>3, <1>5, StaysThere DEF BrowserInv, LeadsSomewhere

LEMMA AtDevice ==
  ASSUME Chooser!BrowserAssumption, BrowserInv, Chooser!InsertDEV
  PROVE  BrowserInv'
<1>1. PICK d \in Devices : Chooser!Show(Chooser!ParseDirectory(d, <<>>)) /\ temp' = Chooser!Path(d, <<>>, "")
  BY DEF Chooser!InsertDEV, Chooser!BrowseDevice, Devices
<1>2. folders' = folders /\ swapped' = swapped /\ phase' = phase /\ phase = "loop" /\ chosen' = chosen
  BY DEF Chooser!InsertDEV
<1>3. FoldersInv /\ chosen = Chooser!NoPath /\ LeadsSomewhere /\ <<>> \in Seq(Chooser!Names)
  BY <1>2, EmptySeq DEF BrowserInv
<1>4. ListInv' /\ IsThere' /\ temp'.dev = rootdir' /\ temp'.dir \in Seq(Chooser!Names)
  BY <1>1, <1>2, <1>3, ReadAgain DEF Chooser!Path
<1> QED BY <1>2, <1>3, <1>4, StaysThere DEF BrowserInv

LEMMA AtFolder ==
  ASSUME Chooser!BrowserAssumption, BrowserInv, Chooser!ChangeFolder
  PROVE  BrowserInv'
<1> DEFINE e == browserList[selIndex]
           f == Chooser!UpdateDirName(e)
           listing == Chooser!ParseDirectory(rootdir, f)
<1>1. /\ folders' = folders /\ swapped' = swapped /\ phase = "read" /\ chosen' = chosen /\ browserList # <<>>
      /\ FoldersInv /\ ListInv /\ IsThere /\ temp.dev = rootdir /\ temp.dir \in Seq(Chooser!Names)
      /\ chosen = Chooser!NoPath /\ LeadsSomewhere
  BY DEF Chooser!ChangeFolder, BrowserInv
<1>2. Chooser!Selected = e /\ rootdir \in Devices /\ dir \in Seq(Chooser!Names) /\ e \in Listed
  <2>1. browserList \in Seq(Listed) /\ selIndex \in 1..Len(browserList)
    BY <1>1 DEF ListInv
  <2> QED BY <1>1, <2>1, ElementOfSeq DEF Chooser!Selected, ListInv
<1>3. f \in Seq(Chooser!Names)
  <2>1. CASE e.name = ".."
    <3>1. f = SubSeq(dir, 1, Len(dir) - 1)
      BY <2>1 DEF Chooser!UpdateDirName, Chooser!Front
    <3>2. SubSeq(dir, 1, Len(dir) - 1) \in Seq(Chooser!Names)
      <4>1. Len(dir) \in Nat /\ \A i \in 1..Len(dir) - 1 : dir[i] \in Chooser!Names
        BY <1>2, LenProperties, ElementOfSeq
      <4> QED BY <4>1, SubSeqProperties
    <3> QED BY <3>1, <3>2
  <2>2. CASE e.name # ".."
    <3>1. e.name \in Chooser!Names
      BY <1>2, <2>2 DEF Listed, Chooser!Entry
    <3>2. f = Append(dir, e.name)
      BY <2>2 DEF Chooser!UpdateDirName
    <3> QED BY <1>2, <3>1, <3>2, AppendProperties
  <2> QED BY <2>1, <2>2
<1> HIDE DEF f, e
<1>4. \/ /\ UNCHANGED Chooser!browser /\ phase' = "loop" /\ temp' = Chooser!Path(rootdir, dir, "")
      \/ /\ Chooser!Show(listing)
         /\ \/ phase' = "closed"
            \/ phase' = "loop" /\ temp' = Chooser!Path(rootdir, listing.dir, "")
  BY <1>2 DEF Chooser!ChangeFolder, f
<1> HIDE DEF listing
<1>5. CASE UNCHANGED Chooser!browser /\ phase' = "loop" /\ temp' = Chooser!Path(rootdir, dir, "")
  <2>1. rootdir' = rootdir /\ dir' = dir /\ browserList' = browserList /\ selIndex' = selIndex /\ pageIndex' = pageIndex
    BY <1>5 DEF Chooser!browser
  <2>2. temp'.dev = rootdir' /\ temp'.dir \in Seq(Chooser!Names)
    BY <1>2, <1>5, <2>1 DEF Chooser!Path
  <2> QED BY <1>1, <1>5, <2>1, <2>2, SameList, StaysThere DEF BrowserInv
<1>6. CASE /\ Chooser!Show(listing)
           /\ \/ phase' = "closed"
              \/ phase' = "loop" /\ temp' = Chooser!Path(rootdir, listing.dir, "")
  <2>1. ListInv' /\ IsThere' /\ rootdir' = rootdir /\ dir' = listing.dir
    BY <1>1, <1>2, <1>3, <1>6, ReadAgain DEF listing
  <2>2. phase' = "loop" => temp'.dev = rootdir' /\ temp'.dir \in Seq(Chooser!Names)
    <3>1. dir' \in Seq(Chooser!Names)
      BY <2>1 DEF ListInv
    <3>2. \E n : phase' = "loop" => temp' = Chooser!Path(rootdir, listing.dir, n)
      <4>1. CASE phase' = "loop" /\ temp' = Chooser!Path(rootdir, listing.dir, "")
        BY <4>1, Zenon
      <4>2. CASE phase' = "closed"
        BY <4>2
      <4> QED BY <1>6, <4>1, <4>2, Zenon
    <3> QED BY <2>1, <3>1, <3>2 DEF Chooser!Path
  <2> QED BY <1>1, <1>6, <2>1, <2>2, StaysThere DEF BrowserInv
<1> QED BY <1>4, <1>5, <1>6

LEMMA AtOk ==
  ASSUME Chooser!BrowserAssumption, BrowserInv, Chooser!Ok
  PROVE  BrowserInv'
<1> DEFINE missing == {f \in Chooser!Parents(temp.dir) : ~Chooser!Exists(temp.dev, f)}
<1>1. /\ swapped' = swapped /\ rootdir' = rootdir /\ dir' = dir /\ browserList' = browserList
      /\ selIndex' = selIndex /\ pageIndex' = pageIndex /\ phase' = "closed"
      /\ FoldersInv /\ ListInv /\ temp.dir \in Seq(Chooser!Names) /\ temp.dev \in Devices
  BY DEF Chooser!Ok, Chooser!browser, BrowserInv, ListInv
<1>2. PICK made : /\ made \in {{}} \cup {{g \in missing : Len(g) <= n} : n \in 1..Len(temp.dir)}
                  /\ folders' = folders \cup {[dev |-> temp.dev, dir |-> f] : f \in made}
                  /\ chosen' = IF temp.dev \in Chooser!Present /\ made = missing THEN temp ELSE Chooser!NoPath
  BY DEF Chooser!Ok, Chooser!CreateSubfolder
<1>3. made \subseteq missing
  BY <1>2
<1>4. ASSUME NEW n \in 1..Len(temp.dir) PROVE SubSeq(temp.dir, 1, n) \in Seq(Chooser!Names)
  <2>1. Len(temp.dir) \in Nat /\ \A i \in 1..n : temp.dir[i] \in Chooser!Names
    BY <1>1, LenProperties, ElementOfSeq
  <2> QED BY <1>1, <2>1, SubSeqProperties
<1>5. Chooser!Parents(temp.dir) = {SubSeq(temp.dir, 1, n) : n \in 1..Len(temp.dir)}
  BY DEF Chooser!Parents
<1>6. FoldersInv'
  <2> DEFINE Deep == {n \in 1..Len(temp.dir) : SubSeq(temp.dir, 1, n) \in made}
             h == [n \in Deep |-> [dev |-> temp.dev, dir |-> SubSeq(temp.dir, 1, n)]]
  <2>1. {[dev |-> temp.dev, dir |-> f] : f \in made} = {h[n] : n \in Deep}
    BY <1>3, <1>5
  <2>2. {[dev |-> temp.dev, dir |-> f] : f \in made} \subseteq FolderSet
    BY <1>1, <1>3, <1>4, <1>5 DEF FolderSet
  <2>3. IsFiniteSet(Deep)
    <3>1. Len(temp.dir) \in Nat /\ Deep \in SUBSET (1..Len(temp.dir))
      BY <1>1, LenProperties
    <3>2. IsFiniteSet(1..Len(temp.dir))
      BY <3>1, FS_Interval
    <3> QED BY <3>1, <3>2, FS_Subset
  <2>4. IsFiniteSet({h[n] : n \in Deep})
    <3>1. h = [n \in Deep |-> h[n]]
      OBVIOUS
    <3> HIDE DEF h, Deep
    <3> QED BY <2>3, <3>1, FiniteImage
  <2> HIDE DEF h, Deep
  <2> QED BY <1>1, <1>2, <2>1, <2>2, <2>4, FS_Union DEF FoldersInv
<1>7. LeadsSomewhere'
  <2> SUFFICES ASSUME chosen' # Chooser!NoPath PROVE Chooser!Exists(temp.dev, temp.dir)' /\ chosen' = temp /\ temp' = temp
    BY DEF LeadsSomewhere, Chooser!Exists
  <2>1. chosen' = temp /\ temp.dev \in Chooser!Present /\ made = missing /\ temp' = temp
    BY <1>2 DEF Chooser!Ok
  <2>2. [dev |-> temp.dev, dir |-> temp.dir] \in folders'
    <3>1. CASE temp.dir = <<>>
      BY <1>2, <2>1, <3>1 DEF Chooser!Present, Chooser!Exists
    <3>2. CASE temp.dir # <<>>
      <4>1. Len(temp.dir) \in 1..Len(temp.dir)
        BY <1>1, <3>2, LenProperties, EmptySeq
      <4>2. SubSeq(temp.dir, 1, Len(temp.dir)) = temp.dir
        BY <1>1
      <4>3. temp.dir \in Chooser!Parents(temp.dir)
        BY <1>5, <4>1, <4>2
      <4> QED BY <1>2, <2>1, <4>3 DEF Chooser!Exists
    <3> QED BY <3>1, <3>2
  <2> QED BY <2>1, <2>2 DEF Chooser!Exists
<1>8. ListInv'
  BY <1>1, SameList
<1> QED BY <1>1, <1>6, <1>7, <1>8 DEF BrowserInv

LEMMA AtPointer ==
  ASSUME Chooser!BrowserAssumption, BrowserInv,
         \/ Chooser!InsertURL \/ Chooser!TakeFile \/ Chooser!Cancel \/ Chooser!Redraw \/ Chooser!Page
         \/ \E i \in 1..FILE_PAGESIZE : Chooser!ReadIsDir(i) \/ Chooser!Select(i)
  PROVE  BrowserInv'
<1>1. /\ folders' = folders /\ swapped' = swapped /\ rootdir' = rootdir /\ dir' = dir /\ browserList' = browserList
      /\ chosen' = chosen /\ phase' \in {"closed", "loop", "read"} /\ phase # "closed"
  BY DEF BrowserInv, Chooser!InsertURL, Chooser!TakeFile, Chooser!Cancel, Chooser!Redraw, Chooser!Page,
         Chooser!ReadIsDir, Chooser!Select, Chooser!browser
<1>2. /\ FoldersInv /\ ListInv /\ temp.dev = rootdir /\ temp.dir \in Seq(Chooser!Names) /\ chosen = Chooser!NoPath
      /\ IsThere /\ LeadsSomewhere
  BY <1>1 DEF BrowserInv
<1>3. temp'.dev = rootdir' /\ temp'.dir \in Seq(Chooser!Names)
  <2>1. CASE temp' = temp
    BY <1>1, <1>2, <2>1
  <2>2. CASE Chooser!InsertURL
    <3>1. PICK t \in Typed : temp' = Chooser!Path(temp.dev, t.dir, t.name)
      BY <2>2 DEF Chooser!InsertURL
    <3>2. t.dir \in Seq(Chooser!Names)
      BY DEF Chooser!BrowserAssumption
    <3> QED BY <1>1, <1>2, <3>1, <3>2 DEF Chooser!Path
  <2>3. CASE temp' = Chooser!Path(rootdir, dir, Chooser!Selected.name)
    BY <1>1, <1>2, <2>3 DEF Chooser!Path, ListInv
  <2> QED BY <2>1, <2>2, <2>3 DEF Chooser!TakeFile, Chooser!Cancel, Chooser!Redraw, Chooser!Page,
             Chooser!ReadIsDir, Chooser!Select
<1>4. ListInv'
  <2>1. CASE selIndex' = selIndex /\ pageIndex' = pageIndex
    BY <1>1, <1>2, <2>1, SameList
  <2>2. FILE_PAGESIZE \in Nat \ {0} /\ Len(browserList) \in Nat /\ selIndex \in Nat /\ pageIndex \in Nat
        /\ (browserList # <<>> => selIndex \in 1..Len(browserList) /\ pageIndex < Len(browserList))
    BY <1>2, LenProperties DEF ListInv, Chooser!BrowserAssumption
  <2>3. ASSUME NEW i \in 1..FILE_PAGESIZE, Chooser!Select(i) PROVE ListInv'
    <3>1. pageIndex + i <= Len(browserList) /\ selIndex' = pageIndex + i /\ pageIndex' = pageIndex
      BY <2>3 DEF Chooser!Select
    <3>2. selIndex' \in Nat /\ selIndex' \in 1..Len(browserList)
      BY <2>2, <3>1
    <3> QED BY <1>1, <1>2, <2>2, <3>1, <3>2 DEF ListInv, Chooser!Before
  <2>4. CASE Chooser!Page
    <3>1. Len(browserList) > FILE_PAGESIZE /\ pageIndex' \in {0, Len(browserList) - FILE_PAGESIZE} /\ selIndex' = selIndex
      BY <2>4 DEF Chooser!Page
    <3>2. pageIndex' \in Nat /\ pageIndex' < Len(browserList)
      BY <2>2, <3>1
    <3> QED BY <1>1, <1>2, <2>2, <3>1, <3>2 DEF ListInv, Chooser!Before
  <2> QED BY <2>1, <2>3, <2>4 DEF Chooser!InsertURL, Chooser!TakeFile, Chooser!Cancel, Chooser!Redraw,
             Chooser!ReadIsDir, Chooser!browser
<1> QED BY <1>1, <1>2, <1>3, <1>4, StaysThere DEF BrowserInv

LEMMA AtCard ==
  ASSUME Chooser!BrowserAssumption, BrowserInv, NEW d \in Devices, Chooser!TakeOut(d) \/ Chooser!Exchange(d)
  PROVE  BrowserInv'
<1>1. /\ rootdir' = rootdir /\ dir' = dir /\ browserList' = browserList /\ selIndex' = selIndex /\ pageIndex' = pageIndex
      /\ chosen' = chosen /\ phase' = phase /\ phase # "closed" /\ temp' = temp
  BY DEF Chooser!TakeOut, Chooser!Exchange, Chooser!browser
<1>2. /\ FoldersInv /\ ListInv /\ temp.dev = rootdir /\ temp.dir \in Seq(Chooser!Names) /\ chosen = Chooser!NoPath
      /\ IsThere /\ LeadsSomewhere
  BY <1>1 DEF BrowserInv
<1> DEFINE others == {f \in folders : f.dev # d}
<1>3. \/ folders' = others /\ swapped' = swapped
      \/ folders' = others \cup {[dev |-> d, dir |-> <<>>]} /\ swapped' = swapped \cup {d}
  BY DEF Chooser!TakeOut, Chooser!Exchange
<1>4. FoldersInv'
  <2>1. others \in SUBSET folders /\ <<>> \in Seq(Chooser!Names)
    BY EmptySeq
  <2>2. IsFiniteSet(others)
    BY <1>2, <2>1, FS_Subset DEF FoldersInv
  <2>3. IsFiniteSet(others \cup {[dev |-> d, dir |-> <<>>]})
    BY <2>2, FS_AddElement
  <2>4. [dev |-> d, dir |-> <<>>] \in FolderSet
    BY <2>1 DEF FolderSet
  <2> QED BY <1>2, <1>3, <2>1, <2>2, <2>3, <2>4 DEF FoldersInv
<1>5. IsThere'
  <2>1. CASE rootdir = d
    <3>1. d \notin Chooser!Present' \ swapped'
      <4>1. CASE folders' = others /\ swapped' = swapped
        BY <4>1 DEF Chooser!Present, Chooser!Exists
      <4>2. CASE swapped' = swapped \cup {d}
        BY <4>2
      <4> QED BY <1>3, <4>1, <4>2
    <3> QED BY <1>1, <2>1, <3>1 DEF IsThere
  <2>2. CASE rootdir # d
    <3>1. \A f : Chooser!Exists(rootdir, f)' <=> Chooser!Exists(rootdir, f)
      BY <1>1, <1>3, <2>2 DEF Chooser!Exists
    <3>2. rootdir \in Chooser!Present' \ swapped' <=> rootdir \in Chooser!Present \ swapped
      BY <1>1, <1>3, <2>2, <3>1 DEF Chooser!Present
    <3>3. Chooser!Entries(rootdir, dir)' = Chooser!Entries(rootdir, dir)
      <4>1. {g \in Chooser!Held : g.dev = rootdir /\ g.dir = dir}' = {g \in Chooser!Held : g.dev = rootdir /\ g.dir = dir}
        BY <1>1, <1>3, <2>2 DEF Chooser!Held
      <4>2. {g \in folders : g.dev = rootdir /\ g.dir # <<>> /\ Chooser!Front(g.dir) = dir}'
            = {g \in folders : g.dev = rootdir /\ g.dir # <<>> /\ Chooser!Front(g.dir) = dir}
        BY <1>1, <1>3, <2>2
      <4> QED BY <1>1, <4>1, <4>2 DEF Chooser!Entries
    <3>4. Chooser!Exists(rootdir, dir)' <=> Chooser!Exists(rootdir, dir)
      BY <1>1, <3>1 DEF Chooser!Exists
    <3> QED BY <1>1, <1>2, <3>2, <3>3, <3>4 DEF IsThere, Chooser!ToSet
  <2> QED BY <2>1, <2>2
<1>6. ListInv'
  BY <1>1, <1>2, SameList
<1>7. LeadsSomewhere'
  BY <1>1, <1>2 DEF LeadsSomewhere, Chooser!NoPath
<1>8. phase' \in {"closed", "loop", "read"}
  BY <1>1 DEF BrowserInv
<1> QED BY <1>1, <1>2, <1>4, <1>5, <1>6, <1>7, <1>8 DEF BrowserInv, Chooser!NoPath

\* Whatever the pointer selects and whatever is taken out, the selected entry
\* is one of a list that is sorted and, up to its limit, complete, and the
\* path that is chosen lies in a folder that is there
\* (filebrowser.cpp:57-233, fileop.cpp:139-381).
THEOREM ChoosesWhatIsThere == ASSUME Chooser!BrowserAssumption PROVE Chooser!Spec => []Chooser!BrowserStaysOnDevice
<1>1. Chooser!Init => BrowserInv
  <2> SUFFICES ASSUME Chooser!Init PROVE BrowserInv
    OBVIOUS
  <2>1. browserList = <<>> /\ Len(<<>>) = 0 /\ <<>> \in Seq(Listed) /\ <<>> \in Seq(Chooser!Names)
    BY EmptySeq DEF Chooser!Init
  <2>2. ListInv
    BY <2>1 DEF Chooser!Init, ListInv, Devices
  <2>3. FoldersInv
    <3>1. folders \in SUBSET Folders
      BY DEF Chooser!Init
    <3>2. IsFiniteSet(Folders) /\ Folders \subseteq FolderSet
      BY DEF Chooser!BrowserAssumption, Chooser!IsFiniteSet, IsFiniteSet, FolderSet, Devices
    <3> QED BY <3>1, <3>2, FS_Subset DEF FoldersInv
  <2> QED BY <2>2, <2>3 DEF Chooser!Init, BrowserInv, LeadsSomewhere
<1>2. BrowserInv /\ [Chooser!Next]_Chooser!vars => BrowserInv'
  <2> SUFFICES ASSUME BrowserInv, [Chooser!Next]_Chooser!vars PROVE BrowserInv'
    OBVIOUS
  <2>1. CASE UNCHANGED Chooser!vars
    <3>1. /\ folders' = folders /\ swapped' = swapped /\ rootdir' = rootdir /\ dir' = dir /\ browserList' = browserList
          /\ selIndex' = selIndex /\ pageIndex' = pageIndex /\ phase' = phase /\ temp' = temp /\ chosen' = chosen
      BY <2>1 DEF Chooser!vars, Chooser!browser
    <3>2. FoldersInv' /\ ListInv' /\ LeadsSomewhere'
      BY <3>1, SameList, StaysThere DEF BrowserInv
    <3> QED BY <3>1, <3>2, StaysThere DEF BrowserInv
  <2>2. CASE Chooser!Next
    BY <2>2, AtOpen, AtDevice, AtFolder, AtOk, AtPointer, AtCard DEF Chooser!Next, Devices
  <2> QED BY <2>1, <2>2
<1>3. BrowserInv => Chooser!BrowserStaysOnDevice
  <2> SUFFICES ASSUME BrowserInv PROVE Chooser!BrowserStaysOnDevice
    OBVIOUS
  <2>1. browserList \in Seq(Listed) /\ DOMAIN browserList = 1..Len(browserList)
    BY LenProperties DEF BrowserInv, ListInv
  <2> QED BY <2>1, Counted DEF BrowserInv, ListInv, IsThere, LeadsSomewhere, Chooser!BrowserStaysOnDevice
<1> QED BY <1>1, <1>2, <1>3, PTL DEF Chooser!Spec

=============================================================================
