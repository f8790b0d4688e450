------------------------------ MODULE DraftView ------------------------------
(***************************************************************************)
(* What the draft preview promises the person typing.  The values the      *)
(* composer has held are numbered; shown is the number of the value whose  *)
(* translation is on screen, 0 when there is none.  Once the composer was  *)
(* cleared or its text sent, no translation of an earlier value comes      *)
(* back, and between two clearings the preview only moves forward.         *)
(* DraftClient implements it.                                              *)
(***************************************************************************)
EXTENDS Naturals

VARIABLES
    count,      \* how many values the composer has held
    cleared,    \* number of the value that last invalidated the drafts
    shown       \* number of the value whose draft is shown, 0 for none

view == <<count, cleared, shown>>

Init == count = 0 /\ cleared = 0 /\ shown = 0

Type ==
    /\ count' = count + 1
    /\ UNCHANGED <<cleared, shown>>

Clear ==
    /\ count' = count + 1
    /\ cleared' = count'
    /\ shown' = 0

\* Another conversation is put on screen.
Hide ==
    /\ count' = count + 1
    /\ shown' = 0
    /\ UNCHANGED cleared

Show ==
    /\ shown' \in 1..count
    /\ shown' > cleared /\ shown' > shown
    /\ UNCHANGED <<count, cleared>>

Next == Type \/ Clear \/ Hide \/ Show

Spec == Init /\ [][Next]_view
=============================================================================
