--------------------------- MODULE MCAgentSession ---------------------------
(* Instances of AgentSession for TLC. *)
EXTENDS AgentSession, TLC

CONSTANTS c1, c2, c3, a1, a2

NoFaults == [k \in Fault |-> 0]
OneOfEach == [k \in Fault |-> 1]

Symmetry == Permutations(Conn) \cup Permutations(Admin)
=============================================================================
