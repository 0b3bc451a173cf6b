-------------------------- MODULE DurableRegister --------------------------
(***************************************************************************)
(* What a file kept in generations promises: one value that survives       *)
(* crashes.  A save offers a newer value; at one instant the value jumps   *)
(* to it, or never does; an answer "true" means it did, and only a later   *)
(* save or the user can then replace it.  0 stands for no value.           *)
(***************************************************************************)
EXTENDS Naturals

VARIABLES
  value,     \* what a restart would find
  offered,   \* the value of the save under way, 0 between saves
  newest,    \* the newest value ever offered
  promised,  \* the last value a save answered "true" for
  up         \* the program runs

regVars == <<value, offered, newest, promised, up>>

Init ==
  /\ value \in Nat
  /\ offered = 0
  /\ newest = value
  /\ promised = value
  /\ up = FALSE

Boot ==
  /\ ~up
  /\ up' = TRUE
  /\ UNCHANGED <<value, offered, newest, promised>>

Offer ==
  /\ up /\ offered = 0
  /\ offered' = newest + 1
  /\ newest' = newest + 1
  /\ UNCHANGED <<value, promised, up>>

\* The instant from which a restart finds the offered value.
Take ==
  /\ up /\ offered # 0 /\ value # offered
  /\ value' = offered
  /\ UNCHANGED <<offered, newest, promised, up>>

AnswerTrue ==
  /\ up /\ offered # 0 /\ value = offered
  /\ promised' = offered
  /\ offered' = 0
  /\ UNCHANGED <<value, newest, up>>

\* The save answered "false": the value was taken or it was not.
AnswerFalse ==
  /\ up /\ offered # 0
  /\ offered' = 0
  /\ UNCHANGED <<value, newest, promised, up>>

Crash ==
  /\ up
  /\ up' = FALSE
  /\ offered' = 0
  /\ UNCHANGED <<value, newest, promised>>

\* Between runs the user settles on a value the volume still has.
Choose ==
  /\ ~up
  /\ \E v \in promised..newest :
        /\ value' = v
        /\ promised' = v
  /\ UNCHANGED <<offered, newest, up>>

Next == Boot \/ Offer \/ Take \/ AnswerTrue \/ AnswerFalse \/ Crash \/ Choose

Spec == Init /\ [][Next]_regVars
=============================================================================
