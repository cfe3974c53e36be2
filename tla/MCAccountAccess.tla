-------------------------- MODULE MCAccountAccess --------------------------
(* Instances of AccountAccess for TLC. *)
EXTENDS AccountAccess, TLC

CONSTANTS u1, a1, w1, w2, w3

OneKey == {1}
OneOwner == [k \in OneKey |-> u1]

OnePending == <<[user |-> u1, acct |-> a1, status |-> "pending"]>>

Symmetry == Permutations(Request)
=============================================================================
