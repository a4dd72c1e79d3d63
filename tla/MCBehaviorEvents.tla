-------------------------- MODULE MCBehaviorEvents --------------------------
(* Model-checking instance of BehaviorEvents: the types and the event ids   *)
(* are interchangeable.                                                    *)
EXTENDS BehaviorEvents, TLC

Symmetry == Permutations(Type) \cup Permutations(Event)
=============================================================================
