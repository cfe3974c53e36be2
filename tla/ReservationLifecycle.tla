------------------------ MODULE ReservationLifecycle ------------------------
(***************************************************************************)
(* What reservation_service promises about one reservation row, whoever    *)
(* acts on it: the two state machines _ALLOWED_TRANSITIONS (status) and    *)
(* _ALLOWED_SCRIPT_TRANSITIONS (script_status), and how they constrain     *)
(* each other.  One transaction (a scheduler tick) may take a row along    *)
(* several edges, and may move several rows, so a step relates the         *)
(* committed rows before and after a transaction.                          *)
(***************************************************************************)
EXTENDS FiniteSets

CONSTANTS Res      \* reservation ids

VARIABLES status,        \* Reservation.status
          scriptStatus   \* Reservation.script_status ("null" for NULL)

lifecycleVars == <<status, scriptStatus>>

Terminal == {"completed", "cancelled", "failed"}
Status == {"scheduled", "active"} \cup Terminal
ScriptDone == {"completed", "failed", "killed"}
ScriptStatus == {"null", "running"} \cup ScriptDone

\* _ALLOWED_TRANSITIONS: the statuses one edge away.
AllowedTransitions(a) ==
    CASE a = "scheduled" -> {"active", "cancelled"}
      [] a = "active" -> Terminal
      [] OTHER -> {}

\* The edges one transaction can take: none, one, or scheduled -> active -> b.
Reaches(a, b) ==
    \/ a = b
    \/ b \in AllowedTransitions(a)
    \/ a = "scheduled" /\ b \in AllowedTransitions("active")

\* _ALLOWED_SCRIPT_TRANSITIONS.
AllowedScriptTransitions(a) ==
    CASE a = "null" -> {"running"}
      [] a = "running" -> ScriptDone
      [] OTHER -> {}

(***************************************************************************)
(* One row over one transaction.  A script is fired only on a row that is  *)
(* active when the transaction commits; a row completes only if its script *)
(* did not fail and was not killed; a row fails only on behalf of a script *)
(* that was fired and did not complete.                                    *)
(***************************************************************************)
RowStep(r) ==
    LET a == status[r]
        b == status'[r]
        s == scriptStatus[r]
        t == scriptStatus'[r]
    IN  /\ Reaches(a, b)
        /\ t = s \/ t \in AllowedScriptTransitions(s)
        /\ (s = "null" /\ t # "null") => b = "active"
        /\ (b = "completed" /\ a # b) => t \notin {"failed", "killed"}
        /\ (b = "failed" /\ a # b) => t \in {"running", "failed", "killed"}

LifecycleInit ==
    /\ status = [r \in Res |-> "scheduled"]
    /\ scriptStatus = [r \in Res |-> "null"]

LifecycleNext ==
    /\ status' \in [Res -> Status]
    /\ scriptStatus' \in [Res -> ScriptStatus]
    /\ \A r \in Res : RowStep(r)

LifecycleSpec == LifecycleInit /\ [][LifecycleNext]_lifecycleVars
=============================================================================
