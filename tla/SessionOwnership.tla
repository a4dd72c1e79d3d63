-------------------------- MODULE SessionOwnership --------------------------
(***************************************************************************)
(* What the realtime layer promises about one driving session, with no     *)
(* generation, queue, lock or task in sight: at most one connection owns   *)
(* the session, ownership is never given back to a connection that lost    *)
(* it, and the detection state of the session never mixes the results of   *)
(* two connections: only the owner contributes, and only to a state that   *)
(* holds nobody else's results.                                            *)
(***************************************************************************)
CONSTANTS Conn,   \* the connections that may ever own the session
          NoConn  \* nobody owns it

VARIABLES owner,        \* the owning connection
          retired,      \* connections that owned the session and lost it
          contributors  \* whose results the session's state holds

vars == <<owner, retired, contributors>>

Init == owner = NoConn /\ retired = {} /\ contributors = {}

Retire == retired' = retired \cup ({owner} \ {NoConn})

\* A new connection takes the session; the state may be reset with it or later.
TakeOver == \E c \in Conn \ (retired \cup {owner}) :
    /\ owner' = c
    /\ Retire
    /\ contributors' \in {contributors, {}}

\* The owner leaves and the state goes with it.
Release ==
    /\ owner # NoConn
    /\ owner' = NoConn
    /\ Retire
    /\ contributors' = {}

Reset ==
    /\ contributors' = {}
    /\ UNCHANGED <<owner, retired>>

Contribute ==
    /\ owner # NoConn
    /\ contributors \subseteq {owner}
    /\ contributors' = {owner}
    /\ UNCHANGED <<owner, retired>>

Next == TakeOver \/ Release \/ Reset \/ Contribute

Spec == Init /\ [][Next]_vars
============================================================================
