------------------------- MODULE MCProfileSessions --------------------------
(* Model-checking instance of ProfileSessions: requests, profile ids and    *)
(* session ids are interchangeable.                                        *)
EXTENDS ProfileSessions, TLC

Symmetry ==
    Permutations(Request) \cup Permutations(Profile) \cup Permutations(Session)
=============================================================================
