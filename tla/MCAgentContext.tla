--------------------------- MODULE MCAgentContext ---------------------------
(* Instances of AgentContext for TLC. *)
EXTENDS AgentContext, TLC

\* Two of the eight keys, and the profiles in use, as in _PROFILE_PRESETS.
Keys == {"preempt_others_reservation", "no_reservation_occupy"}
Profiles == {"standard"}
Presets ==
    [p \in Profiles |-> [k \in Keys |->
        CASE p = "strict" /\ k = "preempt_others_reservation" -> "auto_kill"
          [] p = "standard" /\ k = "no_reservation_occupy" -> "notify"
          [] OTHER -> "warn"]]
Edits == {[key |-> "preempt_others_reservation", enabled |-> None, severity |-> "auto_kill"],
          [key |-> "no_reservation_occupy", enabled |-> FALSE, severity |-> None]}
MayKill == {"preempt_others_reservation"}

Symmetry == Permutations(Request) \cup Permutations(Connection)
=============================================================================
