--------------------------- MODULE MCAgentRuntime ---------------------------
(* Model-checking instance of AgentRuntime: one session with two events of  *)
(* the same behaviour.                                                     *)
EXTENDS AgentRuntime, TLC

MCSessionOf == [e \in Event |-> CHOOSE s \in Session : TRUE]
MCBehaviorOf == [e \in Event |-> CHOOSE b \in Behavior : TRUE]

\* Requests, conversations and the two events are interchangeable.
Symmetry ==
    Permutations(Request) \cup Permutations(Conversation) \cup Permutations(Event)
=============================================================================
