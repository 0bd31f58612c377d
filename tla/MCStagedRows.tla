---------------------------- MODULE MCStagedRows ----------------------------
(* A small instance of StagedRows for TLC: the users and the other clients  *)
(* take MaxEvents steps, calls and reads as many as they need.              *)
EXTENDS StagedRows

CONSTANTS u, v, MaxEvents
MCKeys == 1..2
MCVals == {u, v}

VARIABLE left  \* events left

\* No row, or one; the names of the values do not matter.
MCInit ==
    /\ Init /\ left = MaxEvents
    /\ stored[2] = None /\ stored[1] \in {None, [c \in Cols |-> u]}

MCEvent == StageStep \/ submitDrafts \/ ImportStep \/ ForeignStep
MCWork == (CommitStep \/ ReadStep) /\ UNCHANGED left

MCNext ==
    \/ left > 0 /\ left' = left - 1 /\ MCEvent
    \/ MCWork
    \/ left = 0 /\ UNCHANGED <<vars, left>>

MCSpec == MCInit /\ [][MCNext]_<<vars, left>> /\ WF_<<vars, left>>(CommitStep /\ UNCHANGED left)
=============================================================================
