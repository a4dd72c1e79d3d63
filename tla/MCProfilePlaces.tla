-------------------------- MODULE MCProfilePlaces --------------------------
(* Model-checking instance of ProfilePlaces: a profile with a home and a     *)
(* favourite, and three requests.                                            *)
EXTENDS ProfilePlaces, TLC

CONSTANTS home, favorite

MCData ==
    {[pid |-> None, lat |-> 1, lon |-> 1], [pid |-> None, lat |-> 1, lon |-> 2],
     [pid |-> 7, lat |-> 1, lon |-> 1], [pid |-> None, lat |-> 91, lon |-> 1]}

MCPatch == {[lon |-> 2], [lat |-> None]}

MCExisting ==
    [p \in Place |->
        CASE p = home -> [type |-> "HOME", pid |-> None, lat |-> 2, lon |-> 1]
          [] p = favorite ->
                [type |-> "FAVORITE", pid |-> None, lat |-> 1, lon |-> 1]
          [] OTHER -> Absent]

Symmetry ==
    Permutations(Request) \cup Permutations(Place \ {home, favorite})
=============================================================================
