--------------------------- MODULE MCFramePairing ---------------------------
(* Model-checking instance of FramePairing: MaxGeneration bounds how many   *)
(* messages the client sends.                                               *)
EXTENDS FramePairing
=============================================================================
