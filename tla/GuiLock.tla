------------------------------ MODULE GuiLock ------------------------------
(***************************************************************************)
(* The GUI lock (src/ui/menu.cpp): a recursive mutex of libogc with an     *)
(* owner and a depth beside it.  A thread may call ResumeGui without ever  *)
(* having called HaltGui, and MainMenu does; the owner and the depth are   *)
(* what keeps such a call from letting go of another thread's lock.  They  *)
(* are plain variables, written only after the mutex is taken.             *)
(***************************************************************************)
EXTENDS Naturals

CONSTANTS Threads, NoThread,
  MaxDepth      \* bound: how deep a thread nests its critical sections

ASSUME ThreadsAssumption == NoThread \notin Threads

VARIABLES
  holder, count,       \* the mutex: who holds it, and how often
  guiOwner, guiDepth,
  at                   \* where each thread stands in HaltGui or ResumeGui

lockVars == <<holder, count, guiOwner, guiDepth, at>>

Calls == {"out", "locked", "owned", "leaving", "unlock"}

LockInit ==
  /\ holder = NoThread /\ count = 0
  /\ guiOwner = NoThread /\ guiDepth = 0
  /\ at = [t \in Threads |-> "out"]

-----------------------------------------------------------------------------
\* HaltGui: LWP_MutexLock returns.  HaltGuiEx ends here too, or gives up.
Lock(t) ==
  /\ at[t] = "out"
  /\ holder = NoThread \/ (holder = t /\ count < MaxDepth)
  /\ holder' = t
  /\ count' = count + 1
  /\ at' = [at EXCEPT ![t] = "locked"]
  /\ UNCHANGED <<guiOwner, guiDepth>>

SetOwner(t) ==
  /\ at[t] = "locked"
  /\ guiOwner' = t
  /\ at' = [at EXCEPT ![t] = "owned"]
  /\ UNCHANGED <<holder, count, guiDepth>>

Deepen(t) ==
  /\ at[t] = "owned"
  /\ guiDepth' = guiDepth + 1
  /\ at' = [at EXCEPT ![t] = "out"]
  /\ UNCHANGED <<holder, count, guiOwner>>

\* Mutant: any thread may end a critical section.
ResumeGui_AnyThread(t) ==
  /\ at[t] = "out"
  /\ at' = [at EXCEPT ![t] = IF guiDepth > 0 THEN "leaving" ELSE "out"]
  /\ UNCHANGED <<holder, count, guiOwner, guiDepth>>

\* A call of ResumeGui, by whomever.
ResumeGui(t) ==
  /\ at[t] = "out"
  /\ at' = [at EXCEPT ![t] = IF guiOwner = t /\ guiDepth > 0 THEN "leaving" ELSE "out"]
  /\ UNCHANGED <<holder, count, guiOwner, guiDepth>>

Shrink(t) ==
  /\ at[t] = "leaving"
  /\ guiDepth' = guiDepth - 1
  /\ guiOwner' = IF guiDepth = 1 THEN NoThread ELSE guiOwner
  /\ at' = [at EXCEPT ![t] = "unlock"]
  /\ UNCHANGED <<holder, count>>

Unlock(t) ==
  /\ at[t] = "unlock"
  /\ count' = count - 1
  /\ holder' = IF count = 1 THEN NoThread ELSE holder
  /\ at' = [at EXCEPT ![t] = "out"]
  /\ UNCHANGED <<guiOwner, guiDepth>>

\* What a thread does inside a call once it got the mutex.
InCall(t) == SetOwner(t) \/ Deepen(t) \/ Shrink(t) \/ Unlock(t)

LockNext == \E t \in Threads : Lock(t) \/ ResumeGui(t) \/ InCall(t)

LockSpec == LockInit /\ [][LockNext]_lockVars

-----------------------------------------------------------------------------
LockTypeOK ==
  /\ holder \in Threads \cup {NoThread}
  /\ count \in Nat
  /\ guiOwner \in Threads \cup {NoThread}
  /\ guiDepth \in Nat
  /\ at \in [Threads -> Calls]

\* Only the holder of the mutex is inside a call, or thinks it owns the lock.
OnlyHolder ==
  /\ \A t \in Threads : at[t] # "out" => holder = t
  /\ guiOwner # NoThread => guiOwner = holder
  /\ holder = NoThread <=> count = 0

\* The depth counts the critical sections of the holder, less the one that
\* is just being entered or left.
DepthCounts ==
  /\ holder = NoThread => guiDepth = 0
  /\ holder \in Threads =>
       /\ guiDepth = IF at[holder] \in {"out", "leaving"} THEN count ELSE count - 1
       /\ guiOwner = holder <=> guiDepth > 0 \/ at[holder] = "owned"

\* The lock cannot be lost or kept: owner and depth agree with the mutex at
\* every instruction, so that a ResumeGui of a thread outside every critical
\* section (MainMenu's last line) frees nobody's lock, and the one that ends
\* the outermost section frees its own.
LockConsistent == LockTypeOK /\ OnlyHolder /\ DepthCounts
=============================================================================
