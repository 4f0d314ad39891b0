--------------------------- MODULE SharedCounter ---------------------------
(***************************************************************************)
(* What a counter promises, on all three stacks: many displays of one      *)
(* count.  The count goes up by ones, and only while something displays    *)
(* it.  A display that appears begins with the count of that moment; from  *)
(* then on it may lag behind and skip values, but never goes back and is   *)
(* never ahead of the count.                                               *)
(***************************************************************************)
EXTENDS Naturals

CONSTANT Displays    \* what can show the count

VARIABLES count,     \* the count
          viewers,   \* the displays on screen
          shown      \* shown[d]: what d shows, or showed last

sharedVars == <<count, viewers, shown>>

SharedInit ==
    /\ count = 0
    /\ viewers = {}
    /\ shown \in [Displays -> Nat]

\* One more, counted for those who are watching.
Increment ==
    /\ viewers # {}
    /\ count' = count + 1
    /\ UNCHANGED <<viewers, shown>>

\* What d may show next: something newer than it does, or the present count.
MayShow(d) == IF d \in viewers THEN shown[d]..count ELSE {count}

\* Displays appear, disappear and catch up.
Redraw ==
    /\ viewers' \subseteq Displays
    /\ shown' \in [Displays -> Nat]
    /\ \A d \in viewers' : shown'[d] \in MayShow(d)
    /\ UNCHANGED count

SharedNext == Increment \/ Redraw

SharedSpec == SharedInit /\ [][SharedNext]_sharedVars

=============================================================================
