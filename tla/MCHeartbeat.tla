---------------------------- MODULE MCHeartbeat -----------------------------
(* Model-checking instance of Heartbeat: a tick is five seconds, and one of *)
(* two clients answers its PINGs in time.                                   *)
EXTENDS Heartbeat

CONSTANTS c1, c2

TwoConnections == {c1, c2}
OnePrompt == {c1}
=============================================================================
