-------------------------- MODULE BehaviorEpisodes --------------------------
(***************************************************************************)
(* What the sliding window promises to those who store its transitions     *)
(* (app/services/behavior_event_service.py): episodes that do not overlap. *)
(* An episode starts when none is under way, may turn into one of another  *)
(* behaviour, and is cleared once.                                         *)
(***************************************************************************)
CONSTANTS Behavior,  \* behaviours an episode can be of
          None

VARIABLES episode,   \* the behaviour under way, None when there is none
          told       \* the last transition told

Init == episode = None /\ told = "NONE"

Start ==
    /\ episode = None
    /\ episode' \in Behavior
    /\ told' = "STARTED"

Turn ==
    /\ episode # None
    /\ episode' \in Behavior
    /\ told' = "UPDATED"

Clear ==
    /\ episode # None
    /\ episode' = None
    /\ told' = "CLEARED"

\* A new connection forgets the episode.
Forget == episode' = None /\ told' = "NONE"

Next == Start \/ Turn \/ Clear \/ Forget

Spec == Init /\ [][Next]_<<episode, told>>
=============================================================================
