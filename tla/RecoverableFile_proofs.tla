---------------------- MODULE RecoverableFile_proofs ----------------------
(***************************************************************************)
(* Proofs about RecoverableFile, for every loader and any number of        *)
(* generations.                                                            *)
(***************************************************************************)
EXTENDS RecoverableFile, TLAPS

LEMMA Entry ==
  ASSUME NEW g \in Nat
  PROVE  /\ None \in Entries /\ Folder \in Entries
         /\ Stub(g) \in Entries /\ Torn(g) \in Entries /\ Whole(g) \in Entries
  BY DEF Entries, Kinds, None, Folder, Stub, Torn, Whole

LEMMA InitInv == Init => IndInv
<1> SUFFICES ASSUME Init PROVE IndInv
  OBVIOUS
<1>1. PICK live \in {None, Folder, Whole(1)}, bak \in {None, Folder} :
        /\ disk = [n \in Names |-> CASE n = "live" -> live
                                     [] n = "new"  -> None
                                     [] n = "bak"  -> bak]
        /\ staged = live.gen
        /\ acked = live.gen
  BY DEF Init
<1>2. disk["live"] = live /\ disk["new"] = None /\ disk["bak"] = bak
  BY <1>1 DEF Names
<1>3. /\ live \in Entries /\ bak \in Entries /\ None \in Entries
      /\ live.gen \in {0, 1} /\ bak.gen = 0 /\ None.gen = 0
  BY DEF Entries, Kinds, None, Folder, Whole
<1>4. pc = "idle" /\ running = FALSE /\ view = 0 /\ writable = FALSE
  BY DEF Init
<1>5. disk \in [Names -> Entries]
  BY <1>1, <1>2, <1>3 DEF Names
<1>6. TypeOK
  <2>1. staged \in Nat /\ acked \in 0..staged /\ view \in 0..staged
    BY <1>1, <1>3, <1>4
  <2>2. \A n \in Names : disk[n].gen <= staged
    BY <1>1, <1>2, <1>3 DEF Names
  <2>3. running \in BOOLEAN /\ writable \in BOOLEAN /\ pc \in Steps
    BY <1>4 DEF Steps
  <2> QED
    BY <1>5, <2>1, <2>2, <2>3 DEF TypeOK
<1>a. \/ live \in {None, Folder} /\ acked = 0
      \/ live = Whole(1) /\ acked = 1
  <2>1. None.gen = 0 /\ Folder.gen = 0 /\ Whole(1).gen = 1
    BY DEF None, Folder, Whole
  <2> QED
    BY <1>1, <2>1
<1>7. LiveShape
  BY <1>2, <1>a DEF LiveShape
<1>8. BackupShape /\ NewShape
  BY <1>2 DEF BackupShape, NewShape
<1>9. LiveMissing
  BY <1>2, <1>a DEF LiveMissing, IsWhole, Whole
<1>10. AtCall
  BY <1>4 DEF AtCall
<1> QED
  BY <1>6, <1>7, <1>8, <1>9, <1>10 DEF IndInv

LEMMA FoundIsName ==
  ASSUME NEW bad \in SUBSET Names
  PROVE  Found(disk, bad) \in SUBSET Names
<1> USE DEF Found, FirstOf, Names
<1>1. CASE Loader = "settings"
  BY <1>1 DEF FoundSettings
<1>2. CASE Loader = "bookmarks"
  BY <1>2 DEF FoundFavorites
<1>3. CASE Loader = "history"
  BY <1>3 DEF FoundList
<1> QED
  BY <1>1, <1>2, <1>3, LoaderAssumption

\* Whatever reads fail, a loader hands over nothing or one of the entries.
LEMMA LoadedGeneration ==
  ASSUME TypeOK, NEW bad \in SUBSET Names
  PROVE  Loaded(disk, bad).gen \in 0..staged
<1>1. CASE Found(disk, bad) = {}
  BY <1>1 DEF Loaded, None, TypeOK
<1>2. CASE Found(disk, bad) # {}
  <2>1. (CHOOSE n \in Found(disk, bad) : TRUE) \in Names
    BY <1>2, FoundIsName
  <2> QED
    BY <1>2, <2>1 DEF Loaded, TypeOK, Entries
<1> QED
  BY <1>1, <1>2

LEMMA MayWriteBoolean ==
  ASSUME NEW bad PROVE MayWrite(disk, bad) \in BOOLEAN
BY DEF MayWrite

LEMMA NextInv == IndInv /\ [Next]_vars => IndInv'
<1> SUFFICES ASSUME IndInv, [Next]_vars PROVE IndInv'
  OBVIOUS
<1> USE DEF IndInv, TypeOK, LiveShape, BackupShape, NewShape, LiveMissing, AtCall,
            Names, Entries, Kinds, Steps, None, Folder, Stub, Torn, Whole,
            Exists, IsRegular, IsWhole, Rename
<1>0. CASE Start
  <2>1. PICK bad \in SUBSET Names :
          view' = Loaded(disk, bad).gen /\ writable' = MayWrite(disk, bad)
    BY <1>0 DEF Start
  <2>2. view' \in 0..staged /\ writable' \in BOOLEAN
    BY <2>1, LoadedGeneration, MayWriteBoolean
  <2>3. running' = TRUE /\ UNCHANGED <<disk, pc, staged, acked>>
    BY <1>0 DEF Start
  <2>4. TypeOK'
    BY <2>2, <2>3
  <2>5. LiveShape' /\ BackupShape' /\ NewShape' /\ LiveMissing' /\ AtCall'
    BY <2>3
  <2> QED
    BY <2>4, <2>5
<1>1. CASE Stop
  <2>1. TypeOK'
    <3>1. running' \in BOOLEAN /\ writable' \in BOOLEAN /\ pc' \in Steps
      BY <1>1 DEF Stop
    <3> QED
      BY <1>1, <3>1 DEF Stop
  <2>2. LiveShape' /\ BackupShape' /\ NewShape' /\ LiveMissing'
    BY <1>1 DEF Stop
  <2>3. AtCall'
    BY <1>1 DEF Stop
  <2> QED
    BY <2>1, <2>2, <2>3
<1>2. CASE OpenPending
  BY <1>2 DEF OpenPending
<1>3. CASE WriteSome
  BY <1>3 DEF WriteSome
<1>4. CASE WriteDone
  BY <1>4 DEF WriteDone
<1>5. CASE WriteFailed
  BY <1>5 DEF WriteFailed
<1>6. CASE StatLive
  BY <1>6 DEF StatLive
<1>7. CASE DropBackup
  BY <1>7 DEF DropBackup
<1>8. CASE MoveLive
  BY <1>8 DEF MoveLive
<1>9. CASE Publish
  BY <1>9 DEF Publish
<1>10. CASE Fail
  BY <1>10 DEF Fail
<1>11. ASSUME NEW n \in {"new", "bak"}, UserRestores(n) PROVE IndInv'
  BY <1>11 DEF UserRestores
<1>12. CASE UserRemovesNew
  BY <1>12 DEF UserRemovesNew
<1>13. ASSUME NEW n \in {"live", "bak"}, UserRemovesFolder(n) PROVE IndInv'
  BY <1>13 DEF UserRemovesFolder
<1>14. CASE UNCHANGED vars
  BY <1>14 DEF vars
<1> QED
  BY <1>0, <1>1, <1>2, <1>3, <1>4, <1>5, <1>6, <1>7, <1>8, <1>9, <1>10, <1>11,
     <1>12, <1>13, <1>14 DEF Next, Save, User

\* Every reachable state satisfies the inductive invariant.
THEOREM Invariance == Spec => []IndInv
  BY InitInv, NextInv, PTL DEF Spec

\* No crash point and no failing call of writeRecoverable loses the last
\* acknowledged generation.
THEOREM AckedSurvives == Spec => []AckedGenerationSurvives
<1>1. IndInv => AckedGenerationSurvives
  BY DEF IndInv, LiveShape, LiveMissing, AckedGenerationSurvives, IsWhole, None,
         Folder, Whole
<1> QED
  BY <1>1, Invariance, PTL

\* A half-written generation never reaches the live name or the backup.
THEOREM OnlyWholePublished == Spec => []OnlyWholeGenerationsPublished
<1>1. IndInv => OnlyWholeGenerationsPublished
  BY DEF IndInv, LiveShape, BackupShape, OnlyWholeGenerationsPublished, IsWhole,
         None, Folder, Whole
<1> QED
  BY <1>1, Invariance, PTL

\* The settings and bookmarks loaders, run after any crash, find the
\* acknowledged generation or a complete later one.
THEOREM RestartLoads ==
  ASSUME Loader # "history" PROVE Spec => []RestartLoadsAcked
<1>1. ASSUME IndInv, acked # 0
      PROVE  IsWhole(Loaded(disk, {})) /\ Loaded(disk, {}).gen >= acked
  <2> USE <1>1 DEF IndInv
  <2>1. CASE IsWhole(disk["live"])
    <3>1. Found(disk, {}) = {"live"}
      BY <2>1, LoaderAssumption DEF Found, FoundSettings, FoundFavorites, FirstOf,
                                    Names, IsWhole
    <3>2. Loaded(disk, {}) = disk["live"]
      BY <3>1 DEF Loaded
    <3>3. disk["live"] = Whole(acked)
      BY <2>1 DEF LiveShape, IsWhole, None, Folder
    <3> QED
      BY <3>2, <3>3, <2>1 DEF Whole, TypeOK
  <2>2. CASE ~IsWhole(disk["live"])
    <3>1. disk["live"].kind \notin {"torn", "whole"}
      BY <2>2 DEF LiveShape, IsWhole, None, Folder, Whole
    <3>2. IsWhole(disk["new"])
      BY <1>1, <2>2 DEF LiveMissing
    <3>3. Found(disk, {}) = {"new"}
      BY <3>1, <3>2, <2>2, LoaderAssumption
         DEF Found, FoundSettings, FoundFavorites, FirstOf, Names, IsWhole
    <3>4. Loaded(disk, {}) = disk["new"]
      BY <3>3 DEF Loaded
    <3>5. disk["new"] # None
      BY <3>2 DEF IsWhole, None
    <3>6. disk["new"].gen = staged /\ acked < staged
      BY <3>5 DEF NewShape, Stub, Torn, Whole
    <3> QED
      BY <3>2, <3>4, <3>6 DEF TypeOK
  <2> QED
    BY <2>1, <2>2
<1>2. IndInv => RestartLoadsAcked
  BY <1>1 DEF RestartLoadsAcked
<1> QED
  BY <1>2, Invariance, PTL

\* A backup is dropped only when the live file is the acknowledged one and
\* its successor is complete.
THEOREM RetiredLate == Spec => RetiredOnlyAfterSuccessor
<1> DEFINE Retired == \A n \in {"live", "bak"} :
        running /\ IsWhole(disk[n]) /\ (\A m \in Names : disk'[m] # disk[n])
          => /\ disk["live"] = Whole(acked)
             /\ disk["new"] = Whole(staged)
             /\ disk[n].gen < acked
<1>1. ASSUME IndInv, [Next]_vars PROVE [Retired]_vars
  <2> SUFFICES ASSUME NEW n \in {"live", "bak"}, running, IsWhole(disk[n]),
                      \A m \in Names : disk'[m] # disk[n]
               PROVE  /\ disk["live"] = Whole(acked)
                      /\ disk["new"] = Whole(staged)
                      /\ disk[n].gen < acked
    OBVIOUS
  <2> USE <1>1 DEF IndInv, TypeOK, Names
  <2>1. disk' # disk
    OBVIOUS
  <2>2. CASE DropBackup
    <3>1. n = "bak"
      BY <2>2 DEF DropBackup
    <3>2. IsWhole(disk["live"]) /\ IsWhole(disk["new"])
      BY <2>2 DEF DropBackup, AtCall
    <3>3. disk["live"] = Whole(acked) /\ disk["new"] = Whole(staged)
      BY <3>2 DEF LiveShape, NewShape, IsWhole, None, Folder, Stub, Torn, Whole
    <3> QED
      BY <3>1, <3>2, <3>3 DEF BackupShape, IsWhole, None, Folder
  <2>3. ~OpenPending /\ ~WriteSome /\ ~WriteDone /\ ~WriteFailed
    BY DEF OpenPending, WriteSome, WriteDone, WriteFailed
  <2>4. ~MoveLive
    <3> SUFFICES ASSUME MoveLive PROVE FALSE
      OBVIOUS
    <3>1. disk["bak"] = None
      BY DEF MoveLive, AtCall
    <3>2. disk'["bak"] = disk["live"]
      BY DEF MoveLive, Rename
    <3> QED
      BY <3>1, <3>2 DEF IsWhole, None
  <2>5. ~Publish
    <3> SUFFICES ASSUME Publish PROVE FALSE
      OBVIOUS
    <3>1. disk["live"] = None
      BY DEF Publish, AtCall
    <3>2. disk'["bak"] = disk["bak"]
      BY DEF Publish, Rename
    <3> QED
      BY <3>1, <3>2 DEF IsWhole, None
  <2>6. ~Start /\ ~Stop /\ ~StatLive /\ ~Fail /\ ~UNCHANGED vars
    BY <2>1 DEF Start, Stop, StatLive, Fail, vars
  <2>7. ~User
    BY DEF User, UserRestores, UserRemovesNew, UserRemovesFolder
  <2> QED
    BY <2>2, <2>3, <2>4, <2>5, <2>6, <2>7 DEF Next, Save
<1> QED
  BY <1>1, Invariance, PTL DEF Spec, RetiredOnlyAfterSuccessor

-----------------------------------------------------------------------------
(* What a session may write.  A session allowed to save works from the     *)
(* acknowledged generation; settings and history may also start from       *)
(* defaults when the live name is absent.                                  *)

ViewInv ==
  running /\ writable => \/ view = acked
                         \/ view = 0 /\ Loader # "bookmarks"

LEMMA WritableStart ==
  ASSUME IndInv, NEW bad \in SUBSET Names, MayWrite(disk, bad)
  PROVE  \/ Loaded(disk, bad).gen = acked
         \/ Loaded(disk, bad).gen = 0 /\ Loader # "bookmarks"
<1>1. \/ Found(disk, bad) = {"live"} /\ IsWhole(disk["live"])
      \/ Found(disk, bad) = {} /\ Loader # "bookmarks"
      \/ Found(disk, bad) = {} /\ \A n \in Names : ~Exists(disk[n])
  <2>1. CASE Loader = "settings"
    <3>1. \/ FoundSettings(disk, bad) = {"live"}
          \/ FoundSettings(disk, bad) = {}
      BY <2>1 DEF MayWrite, MayWriteSettings
    <3>2. FoundSettings(disk, bad) = {"live"} => disk["live"].kind \in {"torn", "whole"}
      BY DEF FoundSettings, FirstOf
    <3>3. disk["live"].kind # "torn"
      BY DEF IndInv, LiveShape, None, Folder, Whole
    <3> QED
      BY <2>1, <3>1, <3>2, <3>3 DEF Found, IsWhole
  <2>2. CASE Loader = "bookmarks"
    <3>1. FoundFavorites(disk, bad) = {"live"} => IsWhole(disk["live"])
      BY DEF FoundFavorites, FirstOf
    <3> QED
      BY <2>2, <3>1 DEF MayWrite, MayWriteFavorites, Found
  <2>3. CASE Loader = "history"
    BY <2>3 DEF MayWrite, MayWriteList, Found
  <2> QED
    BY <2>1, <2>2, <2>3, LoaderAssumption
<1>2. CASE Found(disk, bad) = {"live"} /\ IsWhole(disk["live"])
  BY <1>2 DEF Loaded, IndInv, LiveShape, IsWhole, None, Folder, Whole
<1>3. CASE Found(disk, bad) = {} /\ Loader # "bookmarks"
  BY <1>3 DEF Loaded, None
<1>4. CASE Found(disk, bad) = {} /\ \A n \in Names : ~Exists(disk[n])
  <2>1. ~IsWhole(disk["live"]) /\ ~IsWhole(disk["new"])
    BY <1>4 DEF Names, Exists, IsWhole
  <2>2. acked = 0
    BY <2>1 DEF IndInv, LiveMissing
  <2> QED
    BY <1>4, <2>2 DEF Loaded, None
<1> QED
  BY <1>1, <1>2, <1>3, <1>4

LEMMA ViewInvariance == Spec => []ViewInv
<1>1. Init => ViewInv
  BY DEF Init, ViewInv
<1>2. IndInv /\ ViewInv /\ [Next]_vars => ViewInv'
  <2> SUFFICES ASSUME IndInv, ViewInv, [Next]_vars PROVE ViewInv'
    OBVIOUS
  <2>1. CASE Start
    <3>1. PICK bad \in SUBSET Names :
            view' = Loaded(disk, bad).gen /\ writable' = MayWrite(disk, bad)
      BY <2>1 DEF Start
    <3> QED
      BY <2>1, <3>1, WritableStart DEF Start, ViewInv
  <2>2. CASE Stop \/ User
    BY <2>2 DEF Stop, User, UserRestores, UserRemovesNew, UserRemovesFolder, ViewInv
  <2>3. CASE Publish
    BY <2>3 DEF Publish, ViewInv
  <2>4. CASE (Save /\ ~Publish) \/ UNCHANGED vars
    BY <2>4 DEF Save, OpenPending, WriteSome, WriteDone, WriteFailed, StatLive,
                DropBackup, MoveLive, Fail, vars, ViewInv
  <2> QED
    BY <2>1, <2>2, <2>3, <2>4 DEF Next
<1> QED
  BY <1>1, <1>2, Invariance, PTL DEF Spec

\* No bookmarks session that may save started without the acknowledged
\* bookmarks, whichever reads failed.
THEOREM BookmarksNotReset ==
  ASSUME Loader = "bookmarks" PROVE Spec => []NoSilentReset
<1>1. IndInv /\ ViewInv => NoSilentReset
  BY DEF IndInv, TypeOK, ViewInv, NoSilentReset
<1> QED
  BY <1>1, Invariance, ViewInvariance, PTL

\* A session working from a recovered generation never touches the volume.
THEOREM RecoveredReadOnly == Spec => RecoveredStateReadOnly
<1>1. ASSUME IndInv, ViewInv, [Next]_vars, running, pc = "idle", view # 0,
             view # disk["live"].gen, running'
      PROVE  UNCHANGED disk
  <2>1. ~OpenPending
    <3> SUFFICES ASSUME OpenPending PROVE FALSE
      OBVIOUS
    <3>1. writable /\ ~IsWhole(disk["new"])
      BY DEF OpenPending, Exists, IsWhole
    <3>2. view = acked
      BY <1>1, <3>1 DEF ViewInv
    <3>3. disk["live"] = Whole(acked)
      BY <1>1, <3>1, <3>2 DEF IndInv, LiveMissing, LiveShape, IsWhole, None, Folder
    <3> QED
      BY <1>1, <3>2, <3>3 DEF Whole
  <2>2. ~User /\ ~Start
    BY <1>1 DEF User, UserRestores, UserRemovesNew, UserRemovesFolder, Start
  <2> QED
    BY <1>1, <2>1, <2>2
       DEF Next, Save, Stop, WriteSome, WriteDone, WriteFailed, StatLive,
           DropBackup, MoveLive, Publish, Fail, vars
<1>2. IndInv /\ ViewInv /\ [Next]_vars
        => [running /\ pc = "idle" /\ view # 0 /\ view # disk["live"].gen /\ running'
              => UNCHANGED disk]_vars
  BY <1>1
<1> QED
  BY <1>2, Invariance, ViewInvariance, PTL DEF Spec, RecoveredStateReadOnly

-----------------------------------------------------------------------------
(* The refinement.  The register's value is the generation a start would   *)
(* find; each system call is one of its steps or a stutter.                *)

\* What the value is, case by case, in a state of IndInv.
ValueIs ==
  /\ IsWhole(disk["live"]) => Latest(disk) = acked
  /\ ~IsWhole(disk["live"]) /\ IsWhole(disk["new"]) => Latest(disk) = staged
  /\ ~IsWhole(disk["live"]) /\ ~IsWhole(disk["new"]) => Latest(disk) = 0 /\ acked = 0

LEMMA LatestValue == IndInv => ValueIs
<1> SUFFICES ASSUME IndInv PROVE ValueIs
  OBVIOUS
<1> USE DEF IndInv, Latest, ValueIs
<1>1. CASE IsWhole(disk["live"])
  BY <1>1 DEF LiveShape, IsWhole, None, Folder, Whole
<1>2. CASE ~IsWhole(disk["live"]) /\ IsWhole(disk["new"])
  BY <1>2 DEF NewShape, IsWhole, None, Stub, Torn, Whole
<1>3. CASE ~IsWhole(disk["live"]) /\ ~IsWhole(disk["new"])
  <2>1. acked = 0
    BY <1>3 DEF LiveMissing
  <2>2. disk["bak"].gen = 0
    BY <2>1 DEF BackupShape, None, Folder
  <2> QED
    BY <1>3, <2>1, <2>2
<1> QED
  BY <1>1, <1>2, <1>3

LEMMA InitRefines == Init => Register!Init
<1> SUFFICES ASSUME Init PROVE Register!Init
  OBVIOUS
<1>1. IndInv
  BY InitInv
<1>2. pc = "idle" /\ running = FALSE /\ staged = acked /\ disk["new"] = None
  BY DEF Init, Names
<1>3. Latest(disk) = staged
  BY <1>1, <1>2, LatestValue DEF ValueIs, IsWhole, None
<1> QED
  BY <1>1, <1>2, <1>3 DEF Register!Init, IndInv, TypeOK

LEMMA StepRefines ==
  IndInv /\ [Next]_vars => [Register!Next]_(Register!regVars)
<1> SUFFICES ASSUME IndInv, [Next]_vars
             PROVE  [Register!Next]_(Register!regVars)
  OBVIOUS
<1>1. IndInv'
  BY NextInv
<1>2. ValueIs
  BY LatestValue
<1>3. ValueIs'
  BY <1>1, LatestValue, PTL
<1>4. acked \in Nat /\ staged \in Nat /\ acked <= staged /\ running \in BOOLEAN
  BY DEF IndInv, TypeOK
<1>5. disk \in [Names -> Entries]
  BY DEF IndInv, TypeOK
<1> DEFINE offeredVal == IF pc = "idle" THEN 0 ELSE staged
<1> USE DEF Names
<1>10. CASE Start
  <2>1. Latest(disk)' = Latest(disk)
    BY <1>10 DEF Start, Latest
  <2>2. Register!Boot
    BY <1>10, <2>1 DEF Start, Register!Boot, IndInv, AtCall
  <2> QED
    BY <2>2 DEF Register!Next
<1>11. CASE Stop
  <2>1. Latest(disk)' = Latest(disk)
    BY <1>11 DEF Stop, Latest
  <2>2. Register!Crash
    BY <1>11, <2>1 DEF Stop, Register!Crash
  <2> QED
    BY <2>2 DEF Register!Next
<1>12. CASE OpenPending
  <2>1. disk'["live"] = disk["live"] /\ disk'["bak"] = disk["bak"]
    BY <1>5, <1>12 DEF OpenPending
  <2>2. ~IsWhole(disk["new"]) /\ ~IsWhole(disk'["new"])
    BY <1>5, <1>12 DEF OpenPending, IsWhole, Exists, Stub
  <2>3. Latest(disk)' = Latest(disk)
    BY <2>1, <2>2 DEF Latest
  <2>4. Register!Offer
    BY <1>12, <2>3, <1>4 DEF OpenPending, Register!Offer
  <2> QED
    BY <2>4 DEF Register!Next
<1>13. CASE WriteSome
  <2>1. ~IsWhole(disk["new"]) /\ ~IsWhole(disk'["new"])
    BY <1>5, <1>13 DEF WriteSome, IndInv, AtCall, IsWhole, Stub, Torn
  <2>2. disk'["live"] = disk["live"] /\ disk'["bak"] = disk["bak"]
    BY <1>5, <1>13 DEF WriteSome
  <2>3. Latest(disk)' = Latest(disk)
    BY <2>1, <2>2 DEF Latest
  <2> QED
    BY <1>13, <2>3 DEF WriteSome, Register!regVars
<1>14. CASE WriteDone
  <2>1. disk'["live"] = disk["live"] /\ IsWhole(disk'["new"])
    BY <1>5, <1>14 DEF WriteDone, IsWhole, Whole
  <2>2. UNCHANGED <<staged, acked, running>> /\ pc = "write" /\ pc' = "stat" /\ running
    BY <1>14 DEF WriteDone, IndInv, AtCall
  <2>3. ~IsWhole(disk["new"]) /\ acked < staged
    BY <1>14 DEF WriteDone, IndInv, AtCall, NewShape, IsWhole, None, Stub, Torn
  <2>4. CASE IsWhole(disk["live"])
    <3>1. Latest(disk)' = Latest(disk)
      BY <2>1, <2>2, <2>4, <1>2, <1>3 DEF ValueIs
    <3> QED
      BY <3>1, <2>2 DEF Register!regVars
  <2>5. CASE ~IsWhole(disk["live"])
    <3>1. Latest(disk)' = staged /\ Latest(disk) = 0
      BY <2>1, <2>2, <2>3, <2>5, <1>2, <1>3 DEF ValueIs
    <3>2. Register!Take
      BY <3>1, <2>2, <2>3, <1>4 DEF Register!Take
    <3> QED
      BY <3>2 DEF Register!Next
  <2> QED
    BY <2>4, <2>5
<1>15. CASE WriteFailed
  <2>1. ~IsWhole(disk["new"]) /\ ~IsWhole(disk'["new"])
    BY <1>5, <1>15 DEF WriteFailed, IndInv, AtCall, IsWhole, Stub, Torn, None
  <2>2. disk'["live"] = disk["live"] /\ disk'["bak"] = disk["bak"]
    BY <1>5, <1>15 DEF WriteFailed
  <2>3. Latest(disk)' = Latest(disk)
    BY <2>1, <2>2 DEF Latest
  <2>4. staged # 0 /\ running
    BY <1>4, <1>15 DEF WriteFailed, IndInv, AtCall, NewShape, Stub, Torn, None
  <2>5. Register!AnswerFalse
    BY <1>15, <2>3, <2>4 DEF WriteFailed, Register!AnswerFalse
  <2> QED
    BY <2>5 DEF Register!Next
<1>16. CASE StatLive
  <2>1. Latest(disk)' = Latest(disk)
    BY <1>16 DEF StatLive, Latest
  <2> QED
    BY <1>16, <2>1 DEF StatLive, Register!regVars
<1>17. CASE DropBackup
  <2>1. IsWhole(disk["live"]) /\ disk'["live"] = disk["live"]
    BY <1>5, <1>17 DEF DropBackup, IndInv, AtCall
  <2>2. Latest(disk)' = Latest(disk)
    BY <2>1 DEF Latest
  <2> QED
    BY <1>17, <2>2 DEF DropBackup, Register!regVars
<1>18. CASE MoveLive
  <2>1. IsWhole(disk["live"]) /\ IsWhole(disk["new"]) /\ running
    BY <1>18 DEF MoveLive, IndInv, AtCall
  <2>2. disk'["live"] = None /\ disk'["new"] = disk["new"]
    BY <1>5, <1>18 DEF MoveLive, Rename
  <2>3. Latest(disk) = acked /\ Latest(disk)' = staged'
    BY <2>1, <2>2, <1>2, <1>3 DEF ValueIs, IsWhole, None
  <2>4. acked < staged
    BY <2>1 DEF IndInv, NewShape, IsWhole, None
  <2>5. Register!Take
    BY <1>18, <2>1, <2>3, <2>4, <1>4 DEF MoveLive, Register!Take
  <2> QED
    BY <2>5 DEF Register!Next
<1>19. CASE Publish
  <2>1. ~IsWhole(disk["live"]) /\ IsWhole(disk["new"]) /\ running
    BY <1>19 DEF Publish, IndInv, AtCall, IsWhole, None
  <2>2. disk'["live"] = disk["new"]
    BY <1>5, <1>19 DEF Publish, Rename
  <2>3. Latest(disk) = staged /\ Latest(disk)' = acked'
    BY <2>1, <2>2, <1>2, <1>3 DEF ValueIs
  <2>4. staged # 0
    BY <2>1, <1>4 DEF IndInv, NewShape, IsWhole, None
  <2>5. Register!AnswerTrue
    BY <1>19, <2>1, <2>3, <2>4 DEF Publish, Register!AnswerTrue
  <2> QED
    BY <2>5 DEF Register!Next
<1>20. CASE Fail
  <2>1. Latest(disk)' = Latest(disk)
    BY <1>20 DEF Fail, Latest
  <2>2. IsWhole(disk["new"]) /\ running
    BY <1>20 DEF Fail, IndInv, AtCall
  <2>3. staged # 0
    BY <2>2, <1>4 DEF IndInv, NewShape, IsWhole, None
  <2>4. Register!AnswerFalse
    BY <1>20, <2>1, <2>2, <2>3 DEF Fail, Register!AnswerFalse
  <2> QED
    BY <2>4 DEF Register!Next
<1>21. ASSUME NEW n \in {"new", "bak"}, UserRestores(n)
       PROVE  Register!Choose
  <2>1. IsWhole(disk'["live"]) /\ acked' = disk[n].gen
    BY <1>5, <1>21 DEF UserRestores, Rename
  <2>2. Latest(disk)' = acked'
    BY <2>1, <1>3 DEF ValueIs
  <2>3. acked' \in acked..staged
    <3>1. CASE n = "new"
      BY <3>1, <2>1, <1>4, <1>21
         DEF UserRestores, IndInv, NewShape, IsWhole, None, Stub, Torn, Whole
    <3>2. CASE n = "bak"
      <4>1. disk["bak"].gen \in 1..acked
        BY <3>2, <1>21 DEF UserRestores, IndInv, BackupShape, IsWhole, None, Folder
      <4>2. disk["bak"] = Whole(acked)
        BY <4>1, <1>21, <1>4 DEF UserRestores, IndInv, LiveMissing, IsWhole, Exists
      <4> QED
        BY <4>2, <3>2, <2>1, <1>4 DEF Whole
    <3> QED
      BY <3>1, <3>2, <1>21
  <2>4. ~running /\ UNCHANGED <<pc, staged, running>>
    BY <1>21 DEF UserRestores
  <2> QED
    BY <2>2, <2>3, <2>4 DEF Register!Choose
<1>22. CASE UserRemovesNew
  <2>1. Latest(disk)' = Latest(disk)
    <3>1. disk'["live"] = disk["live"] /\ disk'["new"] = None
      BY <1>5, <1>22 DEF UserRemovesNew
    <3>2. CASE IsWhole(disk["live"])
      BY <3>1, <3>2, <1>2, <1>3, <1>22 DEF ValueIs, UserRemovesNew
    <3>3. CASE ~IsWhole(disk["live"])
      BY <3>1, <3>3, <1>2, <1>3, <1>22 DEF ValueIs, UserRemovesNew, IsWhole, None
    <3> QED
      BY <3>2, <3>3
  <2> QED
    BY <1>22, <2>1 DEF UserRemovesNew, Register!regVars
<1>23. ASSUME NEW n \in {"live", "bak"}, UserRemovesFolder(n)
       PROVE  UNCHANGED Register!regVars
  <2>1. UNCHANGED <<pc, staged, acked, running>>
    BY <1>23 DEF UserRemovesFolder
  <2>2. disk' = [disk EXCEPT ![n] = None] /\ disk[n] = Folder
    BY <1>23 DEF UserRemovesFolder
  <2>3. /\ IsWhole(disk'["live"]) <=> IsWhole(disk["live"])
        /\ disk'["new"] = disk["new"]
    BY <1>5, <2>2 DEF IsWhole, None, Folder
  <2>4. Latest(disk)' = Latest(disk)
    BY <2>1, <2>3, <1>2, <1>3 DEF ValueIs
  <2> QED
    BY <2>1, <2>4 DEF Register!regVars
<1>24. CASE UNCHANGED vars
  BY <1>24 DEF vars, Latest, Register!regVars
<1> QED
  BY <1>10, <1>11, <1>12, <1>13, <1>14, <1>15, <1>16, <1>17, <1>18, <1>19, <1>20,
     <1>21, <1>22, <1>23, <1>24 DEF Next, Save, User, Register!Next

\* writeRecoverable, its loaders and the repairs implement the register.
THEOREM Refinement == Spec => ImplementsRegister
<1>1. Spec => []IndInv
  BY Invariance
<1> QED
  BY <1>1, InitRefines, StepRefines, PTL
     DEF Spec, ImplementsRegister, Register!Spec

-----------------------------------------------------------------------------
(* A save as one step, as Session and Bookmarks take it.  `before` is the  *)
(* volume that the save under way found; no step reads it.                 *)

VARIABLE before

Watch == before' = IF pc' = "idle" THEN disk' ELSE before
WatchedNext == Next /\ Watch
WatchedSpec == Init /\ before = disk /\ [][WatchedNext]_<<vars, before>>

\* writeRecoverable returns, or the power goes while it runs.
SaveEnds == pc # "idle" /\ pc' = "idle"

\* What a save of generation v that found d may leave, and answer.
Leaves(d, v, e, ok) ==
  /\ d \in [Names -> Entries] /\ e \in [Names -> Entries]
  /\ d["new"] = None
  /\ \/ /\ ok /\ e["live"] = Whole(v) /\ e["new"] = None
        /\ e["bak"] = IF Exists(d["live"]) THEN d["live"] ELSE d["bak"]
     \/ ~ok /\ e = d
     \/ /\ ~ok /\ e["live"] = d["live"] /\ e["bak"] = d["bak"]
        /\ e["new"] \in {Stub(v), Torn(v), Whole(v)}
     \/ /\ ~ok /\ IsWhole(d["live"]) /\ e["new"] = Whole(v)
        /\ \/ e["live"] = d["live"] /\ e["bak"] = None
           \/ e["live"] = None /\ e["bak"] = d["live"]

\* What the calls of a save have done to the volume it found.
Stages ==
  /\ before \in [Names -> Entries]
  /\ pc = "idle" => disk = before
  /\ pc # "idle" =>
       /\ before["new"] = None /\ acked < staged
       /\ pc = "write" => disk["new"] \in {Stub(staged), Torn(staged)}
       /\ pc # "write" => disk["new"] = Whole(staged)
       /\ pc \in {"write", "stat", "dropBackup"} => disk["live"] = before["live"] /\ disk["bak"] = before["bak"]
       /\ pc = "dropBackup" => IsWhole(disk["live"])
       /\ pc = "moveLive" => disk["live"] = before["live"] /\ IsWhole(disk["live"]) /\ disk["bak"] = None
       /\ pc = "publish" =>
            /\ disk["live"] = None
            /\ \/ before["live"] = None /\ disk["bak"] = before["bak"]
               \/ IsWhole(before["live"]) /\ disk["bak"] = before["live"]

LEMMA SameNames ==
  ASSUME NEW d \in [Names -> Entries], NEW e \in [Names -> Entries],
         d["live"] = e["live"], d["new"] = e["new"], d["bak"] = e["bak"]
  PROVE  d = e
<1>1. \A n \in Names : d[n] = e[n]
  BY DEF Names
<1> QED BY <1>1

LEMMA StagesInit == Init /\ before = disk => Stages
  BY InitInv DEF Init, Stages, IndInv, TypeOK

LEMMA StagesStep ==
  ASSUME IndInv, IndInv', Stages, [WatchedNext]_<<vars, before>>
  PROVE  Stages' /\ (SaveEnds => Leaves(before, staged, disk', acked' # acked))
<1> DEFINE Goal == Stages' /\ (SaveEnds => Leaves(before, staged, disk', acked' # acked))
<1>1. /\ disk \in [Names -> Entries] /\ disk' \in [Names -> Entries] /\ before \in [Names -> Entries]
      /\ acked \in Nat /\ staged \in Nat /\ acked <= staged
  BY DEF IndInv, TypeOK, Stages
<1>2. ASSUME Watch, pc = "idle", pc' = "idle" PROVE Goal
  BY <1>1, <1>2 DEF Watch, Stages, SaveEnds
<1>3. ASSUME Watch, pc' # "idle" PROVE before' = before /\ ~SaveEnds
  BY <1>3 DEF Watch, SaveEnds
<1>4. ASSUME Watch, pc # "idle", pc' = "idle", Leaves(before, staged, disk', acked' # acked) PROVE Goal
  BY <1>1, <1>4 DEF Watch, Stages
<1>5. ASSUME Watch, pc # "idle", pc' = "idle", UNCHANGED <<acked, disk>> PROVE Goal
  <2>1. Leaves(before, staged, disk', FALSE)
    <3>1. pc \in {"write", "stat", "dropBackup", "moveLive", "publish"}
      BY <1>5 DEF IndInv, TypeOK, Steps
    <3>2. before["new"] = None
      BY <1>5 DEF Stages
    <3>3. CASE pc \in {"write", "stat", "dropBackup"}
      <4>1. disk["live"] = before["live"] /\ disk["bak"] = before["bak"]
        BY <3>3 DEF Stages
      <4>2. disk["new"] \in {Stub(staged), Torn(staged), Whole(staged)}
        BY <1>5 DEF Stages
      <4> QED BY <1>1, <1>5, <3>2, <4>1, <4>2 DEF Leaves
    <3>4. CASE pc = "moveLive"
      <4>1. disk["live"] = before["live"] /\ IsWhole(before["live"]) /\ disk["bak"] = None /\ disk["new"] = Whole(staged)
        BY <3>4 DEF Stages
      <4> QED BY <1>1, <1>5, <3>2, <4>1 DEF Leaves
    <3>5. CASE pc = "publish"
      <4>1. disk["live"] = None /\ disk["new"] = Whole(staged)
            /\ \/ before["live"] = None /\ disk["bak"] = before["bak"]
               \/ IsWhole(before["live"]) /\ disk["bak"] = before["live"]
        BY <3>5 DEF Stages
      <4>2. CASE IsWhole(before["live"]) /\ disk["bak"] = before["live"]
        BY <1>1, <1>5, <3>2, <4>1, <4>2 DEF Leaves
      <4>3. CASE before["live"] = None /\ disk["bak"] = before["bak"]
        BY <1>1, <1>5, <3>2, <4>1, <4>3 DEF Leaves
      <4> QED BY <4>1, <4>2, <4>3
    <3> QED BY <3>1, <3>3, <3>4, <3>5
  <2>2. (acked' # acked) = FALSE
    BY <1>5
  <2> QED BY <1>4, <1>5, <2>1, <2>2
<1>6. CASE Next /\ Watch
  <2>1. CASE Start \/ User
    <3>1. pc = "idle" /\ pc' = "idle"
      BY <2>1 DEF Start, User, UserRestores, UserRemovesNew, UserRemovesFolder, IndInv, AtCall
    <3> QED BY <1>2, <1>6, <3>1
  <2>2. CASE Stop
    <3>1. pc' = "idle" /\ UNCHANGED <<disk, acked>>
      BY <2>2 DEF Stop
    <3> QED BY <1>2, <1>5, <1>6, <3>1
  <2>3. CASE Fail
    <3>1. pc # "idle" /\ pc' = "idle" /\ UNCHANGED <<disk, acked>>
      BY <2>3 DEF Fail
    <3> QED BY <1>5, <1>6, <3>1
  <2>4. CASE OpenPending
    <3>1. pc = "idle" /\ pc' = "write" /\ ~Exists(disk["new"]) /\ staged' = staged + 1 /\ acked' = acked
          /\ disk' = [disk EXCEPT !["new"] = Stub(staged')]
      BY <2>4 DEF OpenPending
    <3>2. before' = before /\ disk = before
      BY <1>3, <1>6, <3>1 DEF Stages
    <3>3. before["new"] = None
      BY <3>1, <3>2 DEF IndInv, NewShape, Exists, Stub, Torn, Whole
    <3>4. disk'["new"] = Stub(staged') /\ disk'["live"] = before["live"] /\ disk'["bak"] = before["bak"]
      BY <1>1, <3>1, <3>2 DEF Names
    <3> QED BY <1>1, <1>3, <1>6, <3>1, <3>2, <3>3, <3>4 DEF Stages
  <2>5. CASE WriteSome \/ WriteDone
    <3>1. pc = "write" /\ pc' \in {"write", "stat"} /\ UNCHANGED <<staged, acked>>
          /\ disk' = [disk EXCEPT !["new"] = IF pc' = "write" THEN Torn(staged) ELSE Whole(staged)]
      BY <2>5 DEF WriteSome, WriteDone
    <3>2. disk'["new"] = (IF pc' = "write" THEN Torn(staged) ELSE Whole(staged))
          /\ disk'["live"] = disk["live"] /\ disk'["bak"] = disk["bak"]
      BY <1>1, <3>1 DEF Names
    <3> QED BY <1>1, <1>3, <1>6, <3>1, <3>2 DEF Stages
  <2>6. CASE WriteFailed
    <3>1. pc = "write" /\ pc' = "idle" /\ UNCHANGED <<staged, acked>>
          /\ disk' \in {disk, [disk EXCEPT !["new"] = None]}
      BY <2>6 DEF WriteFailed
    <3>2. CASE disk' = disk
      BY <1>5, <1>6, <3>1, <3>2
    <3>3. CASE disk' = [disk EXCEPT !["new"] = None]
      <4>1. disk'["new"] = before["new"] /\ disk'["live"] = before["live"] /\ disk'["bak"] = before["bak"]
            /\ before["new"] = None
        BY <1>1, <3>1, <3>3 DEF Stages, Names
      <4>2. disk' = before
        BY <1>1, <4>1, SameNames
      <4>3. Leaves(before, staged, disk', FALSE)
        BY <1>1, <4>1, <4>2 DEF Leaves
      <4>4. (acked' # acked) = FALSE
        BY <3>1
      <4> QED BY <1>4, <1>6, <3>1, <4>3, <4>4
    <3> QED BY <3>1, <3>2, <3>3
  <2>7. CASE StatLive
    <3>1. pc = "stat" /\ UNCHANGED <<disk, staged, acked>>
          /\ \/ IsRegular(disk["live"]) /\ pc' = "dropBackup"
             \/ ~Exists(disk["live"]) /\ pc' = "publish"
      BY <2>7 DEF StatLive
    <3>2. disk["live"] = None \/ disk["live"] = Folder \/ disk["live"] = Whole(acked)
      BY DEF IndInv, LiveShape
    <3>3. CASE pc' = "dropBackup"
      <4>1. IsWhole(disk["live"])
        BY <3>1, <3>2, <3>3 DEF IsRegular, IsWhole, None, Folder, Whole
      <4> QED BY <1>1, <1>3, <1>6, <3>1, <3>3, <4>1 DEF Stages
    <3>4. CASE pc' = "publish"
      <4>1. disk["live"] = None
        BY <3>1, <3>2, <3>4 DEF Exists, None, Folder, Whole
      <4> QED BY <1>1, <1>3, <1>6, <3>1, <3>4, <4>1 DEF Stages
    <3> QED BY <3>1, <3>3, <3>4
  <2>8. CASE DropBackup
    <3>1. pc = "dropBackup" /\ pc' = "moveLive" /\ UNCHANGED <<staged, acked>> /\ disk' = [disk EXCEPT !["bak"] = None]
      BY <2>8 DEF DropBackup
    <3>2. disk'["bak"] = None /\ disk'["live"] = disk["live"] /\ disk'["new"] = disk["new"]
      BY <1>1, <3>1 DEF Names
    <3> QED BY <1>1, <1>3, <1>6, <3>1, <3>2 DEF Stages
  <2>9. CASE MoveLive
    <3>1. pc = "moveLive" /\ pc' = "publish" /\ UNCHANGED <<staged, acked>> /\ disk' = Rename(disk, "live", "bak")
      BY <2>9 DEF MoveLive
    <3>2. disk'["bak"] = disk["live"] /\ disk'["live"] = None /\ disk'["new"] = disk["new"]
      BY <1>1, <3>1 DEF Names, Rename
    <3> QED BY <1>1, <1>3, <1>6, <3>1, <3>2 DEF Stages
  <2>10. CASE Publish
    <3>1. pc = "publish" /\ pc' = "idle" /\ acked' = staged /\ disk' = Rename(disk, "new", "live")
      BY <2>10 DEF Publish
    <3>2. disk'["live"] = Whole(staged) /\ disk'["new"] = None /\ disk'["bak"] = disk["bak"]
      BY <1>1, <3>1 DEF Names, Rename, Stages
    <3>3. disk["bak"] = IF Exists(before["live"]) THEN before["live"] ELSE before["bak"]
      BY <3>1 DEF Stages, Exists, IsWhole, None
    <3>4. (acked' # acked) = TRUE /\ before["new"] = None
      BY <1>1, <3>1 DEF Stages
    <3>5. Leaves(before, staged, disk', TRUE)
      BY <1>1, <3>2, <3>3, <3>4 DEF Leaves
    <3> QED BY <1>4, <1>6, <3>1, <3>4, <3>5
  <2> QED BY <1>6, <2>1, <2>2, <2>3, <2>4, <2>5, <2>6, <2>7, <2>8, <2>9, <2>10 DEF Next, Save
<1>7. CASE UNCHANGED <<vars, before>>
  BY <1>7 DEF vars, Stages, SaveEnds
<1> QED BY <1>6, <1>7 DEF WatchedNext

LEMMA Watching == WatchedSpec => []IndInv
<1>1. [WatchedNext]_<<vars, before>> => [Next]_vars
  BY DEF WatchedNext
<1>2. WatchedSpec => Spec
  BY <1>1, PTL DEF WatchedSpec, Spec
<1> QED BY <1>2, Invariance, PTL

\* However a save ends, whichever of its calls failed and wherever the power
\* went, the volume is one of few that the one before it and the generation
\* saved decide (file_io.cpp:63-89).
THEOREM SavesAreOneStep ==
  WatchedSpec => [][SaveEnds => Leaves(before, staged, disk', acked' # acked)]_<<vars, before>>
<1>2. WatchedSpec => []Stages
  <2>1. Init /\ before = disk => Stages
    BY StagesInit
  <2>2. IndInv /\ IndInv' /\ Stages /\ [WatchedNext]_<<vars, before>> => Stages'
    BY StagesStep
  <2> QED BY <2>1, <2>2, Watching, PTL DEF WatchedSpec
<1>3. IndInv /\ IndInv' /\ Stages /\ [WatchedNext]_<<vars, before>>
        => [SaveEnds => Leaves(before, staged, disk', acked' # acked)]_<<vars, before>>
  BY StagesStep
<1> QED BY <1>2, <1>3, Watching, PTL DEF WatchedSpec
=============================================================================
