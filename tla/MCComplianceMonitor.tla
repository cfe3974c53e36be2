------------------------ MODULE MCComplianceMonitor ------------------------
(* Instances of ComplianceMonitor for TLC. *)
EXTENDS ComplianceMonitor, TLC

\* nvidia counts cards from 0, the database rows from 1.
FromOne == [c \in Card |-> c + 1]

\* a1 and a2 hold a card each, by the ids of the backend, for as long as the
\* clock runs; or a1 has the first card until time 1, and a2 has nothing.
Hold(g, to) == [linked |-> TRUE, res |-> {[gpu |-> g, from |-> 0, to |-> to, acting |-> TRUE]}]
TwoTables ==
    {[a \in Account |-> IF a = "a1" THEN Hold(2, MaxClock + 1) ELSE Hold(1, MaxClock + 1)],
     [a \in Account |-> IF a = "a1" THEN Hold(1, 1) ELSE [linked |-> TRUE, res |-> {}]]}

\* Preemption kills after grace; a hung card is reported; the rest is off.
Strict ==
    [key \in Key |->
        CASE key = "preempt_others_reservation" -> [enabled |-> TRUE, severity |-> "auto_kill", grace |-> 2]
          [] key = "gpu_hang" -> [enabled |-> TRUE, severity |-> "warn", grace |-> 0]
          [] OTHER -> [enabled |-> FALSE, severity |-> "notify", grace |-> 0]]
StrictOnly == {Strict}
=============================================================================
