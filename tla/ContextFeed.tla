---------------------------- MODULE ContextFeed ----------------------------
(***************************************************************************)
(* What an agent may rely on about the context it is given, whatever is    *)
(* lost, repeated or overtaken on the way: it knows nothing after a start, *)
(* and what it holds is one policy table and, for every capability switch, *)
(* a position that the backend has committed.                              *)
(***************************************************************************)
CONSTANTS Cap, None

VARIABLES
    policyPast, capPast,  \* what has been committed so far
    policyCache, gate     \* what the agent holds

feed == <<policyPast, capPast, policyCache, gate>>
past == <<policyPast, capPast>>

FeedInit ==
    /\ policyCache = None
    /\ gate = [c \in Cap |-> None]

\* The backend commits something: what was committed before stays committed.
Commit ==
    /\ policyPast \subseteq policyPast' /\ capPast \subseteq capPast'
    /\ UNCHANGED <<policyCache, gate>>

\* The agent replaces one of its caches as a whole.
HearPolicy == policyCache' \in policyPast /\ UNCHANGED <<past, gate>>
HearSwitches ==
    /\ DOMAIN gate' = Cap
    /\ \A c \in Cap : <<c, gate'[c]>> \in capPast
    /\ UNCHANGED <<past, policyCache>>

\* The agent process ends and starts again.
Forget ==
    /\ policyCache' = None
    /\ gate' = [c \in Cap |-> None]
    /\ UNCHANGED past

FeedNext == Commit \/ HearPolicy \/ HearSwitches \/ Forget

FeedSpec == FeedInit /\ [][FeedNext]_feed
=============================================================================
