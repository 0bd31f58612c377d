---------------------------- MODULE MCStudioTabs ----------------------------
(* A small instance of StudioTabs for TLC: two connections with one table   *)
(* each, one of them drawn, and one pair to compare.  A client whose scope  *)
(* never moves takes MaxStill events; one whose scope does takes MaxEvents, *)
(* and one more when it moves at once and the server answers at once.  That *)
(* is enough for a snapshot to leave out the active tab and keep two others,*)
(* and for three events to come between a change and its answer.  Answers   *)
(* are not counted.                                                         *)
EXTENDS StudioTabs

CONSTANTS c1, c2, MaxEvents, MaxStill
MCConns == {c1, c2}
MCErds == {c1}
MCDiffs == {<<c1, c2>>}

VARIABLE left  \* events left

MCInit ==
    /\ Init
    /\ left \in IF moves = 0 THEN {MaxEvents, MaxEvents + 1} ELSE {MaxStill}

MCNext ==
    \/ /\ left > 0 /\ (left > MaxEvents /\ moves = 0 => ScopeStep)
       /\ left = MaxEvents /\ moves > 0 /\ moves < MaxMoves => saving = Null
       /\ EventStep /\ left' = left - 1
    \/ AnswerStep /\ UNCHANGED left
    \/ left = 0 /\ UNCHANGED <<vars, left>>

MCSpec == MCInit /\ [][MCNext]_<<vars, left>>
=============================================================================
