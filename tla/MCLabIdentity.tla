--------------------------- MODULE MCLabIdentity ---------------------------
(* Instances of LabIdentity for TLC. *)
EXTENDS LabIdentity, TLC

CONSTANTS a1, a2, l1

\* A lab with an admin and a user whom an older release invited and who has no
\* password yet; the name u1 is still free.
SmallLab ==
    [u \in User |->
        CASE u = a1 -> [lab |-> l1, role |-> "lab_admin", active |-> TRUE, password |-> TRUE, via |-> None]
          [] u = a2 -> [lab |-> l1, role |-> "user", active |-> TRUE, password |-> FALSE, via |-> None]
          [] OTHER  -> NoRow]

Symmetry == Permutations(Request)
=============================================================================
