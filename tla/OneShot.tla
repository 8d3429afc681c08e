------------------------------ MODULE OneShot ------------------------------
(***************************************************************************)
(* What a future and a promise promise their readers: a cell that is        *)
(* settled at most once, and readers that all see the value it was settled  *)
(* with.  A reader with a time limit may give up while the cell is empty.   *)
(***************************************************************************)
CONSTANTS Readers, Outcomes, None, TimedOut

VARIABLES cell, read

Init ==
    /\ cell = None
    /\ read = [r \in Readers |-> None]

Settle ==
    /\ cell = None
    /\ cell' \in Outcomes
    /\ UNCHANGED read

Read(r) ==
    /\ cell # None /\ read[r] = None
    /\ read' = [read EXCEPT ![r] = cell]
    /\ UNCHANGED cell

GiveUp(r) ==
    /\ cell = None /\ read[r] = None
    /\ read' = [read EXCEPT ![r] = TimedOut]
    /\ UNCHANGED cell

\* A reader may also settle the cell and read it in one step: a deref that
\* runs the body itself.
SettleAndRead(r) ==
    /\ cell = None /\ read[r] = None
    /\ cell' \in Outcomes
    /\ read' = [read EXCEPT ![r] = cell']

Next == Settle \/ \E r \in Readers : Read(r) \/ GiveUp(r) \/ SettleAndRead(r)

Spec == Init /\ [][Next]_<<cell, read>>
=============================================================================
