------------------------------- MODULE Trail -------------------------------
(***************************************************************************)
(* What the history promises to the menus: the last MaxTrail pages in the  *)
(* order they were visited, and the one the user stands on.  A visit       *)
(* forgets what lay ahead; Back and Forward lose nothing.  A session that  *)
(* began without the trail of the one before does not replace it.          *)
(***************************************************************************)
EXTENDS Naturals, Sequences

CONSTANTS Urls, MaxTrail

VARIABLES
  trail, at,    \* at = 0: no history
  saved, keeps  \* the trail before this session, and whether this one replaces it

Init == trail = <<>> /\ at = 0 /\ saved = <<>> /\ keeps = TRUE

Visit == \E u \in Urls :
  LET walked == Append(SubSeq(trail, 1, at), u)
      surplus == IF Len(walked) > MaxTrail THEN Len(walked) - MaxTrail ELSE 0
  IN /\ at > 0 => trail[at] # u
     /\ trail' = SubSeq(walked, surplus + 1, Len(walked))
     /\ at' = Len(walked) - surplus
     /\ UNCHANGED <<saved, keeps>>

Back    == at > 1 /\ at' = at - 1 /\ UNCHANGED <<trail, saved, keeps>>
Forward == at < Len(trail) /\ at' = at + 1 /\ UNCHANGED <<trail, saved, keeps>>

Last == IF keeps THEN trail ELSE saved
Forget == trail' = <<>> /\ at' = 0 /\ saved' = Last /\ keeps' = FALSE

\* A start puts the user on the last page of the trail that was kept, or on
\* none if it cannot be read, and then keeps that trail as it is.
Restart ==
  /\ saved' = Last /\ keeps' \in BOOLEAN
  /\ trail' = (IF keeps' THEN Last ELSE <<>>) /\ at' = Len(trail')

Spec == Init /\ [][Visit \/ Back \/ Forward \/ Forget \/ Restart]_<<trail, at, saved, keeps>>
=============================================================================
