-------------------------- MODULE MCBehaviorWindow --------------------------
(* Model-checking instance of BehaviorWindow: a window of three, three       *)
(* abnormal actions of two behaviours, and confidences on both sides of the  *)
(* threshold.                                                                *)
EXTENDS BehaviorWindow, TLC

MCDetection ==
    {[action |-> "SAFE_DRIVING", confidence |-> 7500],
     [action |-> "GPS_OPERATING", confidence |-> 7500],
     [action |-> "TALKING_PASSENGER", confidence |-> 9000],
     [action |-> "SMOKING", confidence |-> 9000],
     [action |-> "SMOKING", confidence |-> 7499]}

Symmetry == Permutations(Frame)
=============================================================================
