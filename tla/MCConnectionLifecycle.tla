----------------------- MODULE MCConnectionLifecycle -----------------------
(* Model-checking instance of ConnectionLifecycle: connections are model    *)
(* values that play the same role, hence the symmetry of the safety run.    *)
EXTENDS ConnectionLifecycle, TLC

Symmetry == Permutations(Conn)
============================================================================
