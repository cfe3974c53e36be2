-------------------------- MODULE MCScriptDispatch --------------------------
(* Instances of ScriptDispatch for TLC. *)
EXTENDS ScriptDispatch

CONSTANTS r1, r2, c1, c2

NoFaults == [k \in Fault |-> 0]
\* A lost connection, a send that raises and a backend crash.
LinkFaults == [k \in Fault |-> IF k = "restart" THEN 0 ELSE 1]
\* A lost connection, an agent restart and a backend crash.
LiveFaults == [k \in Fault |-> IF k = "send" THEN 0 ELSE 1]

TargetR1 == [c \in Canceller |-> r1]
NoGroups == {}
GroupOfTwo == {{r1, r2}}
=============================================================================
