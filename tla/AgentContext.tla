---------------------------- MODULE AgentContext ----------------------------
(***************************************************************************)
(* The rules an agent works by and how it gets them: the policy rows and   *)
(* the capability switches of one server, the requests that change them,   *)
(* the pushes that follow a change, a connect or an approval, and what the *)
(* agent holds (policies.py, servers.py, agent_policy_service, the sync    *)
(* services, agent_ws, ws_client).                                         *)
(*                                                                         *)
(* A push reads the table and then sends: other coroutines run in between. *)
(* Frames arrive in the order they are sent and the agent applies each at  *)
(* once, so a frame on its way counts as not yet sent, and one that the    *)
(* connection swallows as sent after the connection was lost.              *)
(* A request reads when it arrives (its snapshot) and writes, when it      *)
(* commits, the columns that differ from what it read.                     *)
(*                                                                         *)
(* Abstractions.  A policy row is its two columns that steer the agent,    *)
(* enabled and severity; thresholds, grace and notes are written the same  *)
(* way.  The link table, pushed after the two, is in ComplianceMonitor.    *)
(* Permissions, validation and the acknowledgements (nothing depends on    *)
(* them) are left out.                                                     *)
(***************************************************************************)
EXTENDS Naturals, Sequences

CONSTANTS
    Key,         \* POLICY_KEYS
    Profile,     \* profile names
    Preset,      \* the severity each profile gives each key
    Settable,    \* keys that may be set to auto_kill
    Edit,        \* bodies of policy updates: a key and the columns given
    Cap,         \* capability switches
    Request,     \* HTTP requests
    Connection,  \* WebSocket connections of the agent, each used once
    MaxFaults,   \* bound on transactions that fail
    None         \* NULL, nobody, not known

Severity == {"log_only", "notify", "warn", "auto_kill"}
PolicyRow == [enabled : BOOLEAN, severity : Severity]
PolicyTable == [Key -> PolicyRow \cup {None}]
Subject == {"cap", "policy"}
Switches == [Cap -> BOOLEAN]
Frame == [on : {"cap"}, value : Switches] \cup [on : {"policy"}, value : PolicyTable]

ASSUME ContextAssumption ==
    /\ "standard" \in Profile
    /\ Preset \in [Profile -> [Key -> Severity]]
    /\ None \notin PolicyRow \cup PolicyTable \cup BOOLEAN \cup Connection \cup Cap \cup Frame
    /\ Edit \subseteq [key : Key, enabled : BOOLEAN \cup {None}, severity : Severity \cup {None}]
    /\ None \notin Severity
    /\ MaxFaults \in Nat
    /\ Request \cap Connection = {}

VARIABLES
    approved,                       \* server.approved_at is set
    policy, caps,                   \* the agent_policy and agent_capability rows
    policyPast, capPast,            \* history: what has been committed so far
    pool,                           \* agent_hub: the connection frames are sent on
    line,                           \* the connection the agent reads from
    policyCache, gate,              \* what the agent holds
    pc, job,                        \* the requests and the connection handlers
    faults,                         \* how many transactions have failed
    excused                         \* history: subjects for which a push failed or
                                    \* was overtaken by a commit

vars == <<approved, policy, caps, policyPast, capPast, pool, line,
          policyCache, gate, pc, job, faults, excused>>
db == <<approved, policy, caps, policyPast, capPast>>
agent == <<policyCache, gate>>
network == <<pool, line>>

Process == Request \cup Connection

\* seen: the policy table as the request read it; set: the policy rows it
\* changes; own: the switch the session of the request has in its identity map;
\* todo: what is still to be pushed; frame: what has been read and not yet sent.
Job == [kind : {"none", "policy", "switch", "approve", "connect"}, seen : PolicyTable,
        set : PolicyTable, cap : Cap \cup {None}, value : BOOLEAN, was : BOOLEAN,
        todo : Seq(Subject), frame : Frame \cup {None}]

NoRows == [k \in Key |-> None]
NewJob(kind) == [kind |-> kind, seen |-> NoRows, set |-> NoRows, cap |-> None, value |-> FALSE,
                 was |-> FALSE, todo |-> <<>>, frame |-> None]

AllOfIt == <<"cap", "policy">>

-----------------------------------------------------------------------------
(* Requests: arrival *)

Arrive(w, j) ==
    /\ pc[w] = "new"
    /\ pc' = [pc EXCEPT ![w] = "commit"]
    /\ job' = [job EXCEPT ![w] = j]
    /\ UNCHANGED <<db, network, agent, faults, excused>>

\* The row a missing key gets: the preset's.
PresetRow(p, k) == [enabled |-> TRUE, severity |-> Preset[p][k]]

\* update_one: auto_kill is for some keys only; a missing row is inserted with
\* the standard preset first; then the columns that were given are set.
UpdatePolicy(w, e) ==
    LET base == IF policy[e.key] = None THEN PresetRow("standard", e.key) ELSE policy[e.key]
        row  == [enabled  |-> IF e.enabled = None THEN base.enabled ELSE e.enabled,
                 severity |-> IF e.severity = None THEN base.severity ELSE e.severity]
    IN  /\ e.severity = "auto_kill" => e.key \in Settable
        /\ Arrive(w, [NewJob("policy") EXCEPT !.seen = policy, !.set[e.key] = row])

\* switch_profile, or seed_default_profile when there are no rows: every row
\* gets the profile's severity, a missing row is inserted.
SwitchProfile(w, p) ==
    Arrive(w, [NewJob("policy") EXCEPT
        !.seen = policy,
        !.set = [k \in Key |-> IF policy[k] = None THEN PresetRow(p, k)
                               ELSE [policy[k] EXCEPT !.severity = Preset[p][k]]]])

\* update_capability.
FlipSwitch(w, c, v) ==
    Arrive(w, [NewJob("switch") EXCEPT !.cap = c, !.value = v, !.was = caps[c]])

\* approve_server may be repeated.
Approve(w) == Arrive(w, NewJob("approve"))

-----------------------------------------------------------------------------
(* Requests: commit *)

\* Another process has read the subject and not sent it, or has committed its
\* own position of this switch and not read the table yet.
Overtakes(w, s, c) ==
    \E v \in Process \ {w} :
        \/ pc[v] = "send" /\ job[v].frame.on = s
        \/ pc[v] = "push" /\ s = "cap" /\ job[v].cap = c

Excuse(w, s, c) == excused' = IF Overtakes(w, s, c) THEN excused \cup {s} ELSE excused

\* What the UPDATE or INSERT leaves of row k: columns that differ from the row
\* that was read are written, the others keep what is committed by now.
Merged(now, seen, new) ==
    IF new = None THEN now
    ELSE IF seen = None THEN new
    ELSE [enabled  |-> IF new.enabled = seen.enabled THEN now.enabled ELSE new.enabled,
          severity |-> IF new.severity = seen.severity THEN now.severity ELSE new.severity]

\* An INSERT of a key that another request has inserted since.
Duplicate(j) == \E k \in Key : j.set[k] # None /\ j.seen[k] = None /\ policy[k] # None

CommitPolicy(w) ==
    LET j == job[w]
        table == [k \in Key |-> Merged(policy[k], j.seen[k], j.set[k])]
    IN  /\ pc[w] = "commit" /\ j.kind = "policy"
        /\ ~Duplicate(j)
        /\ policy' = table
        /\ policyPast' = policyPast \cup {table}
        /\ pc' = [pc EXCEPT ![w] = "push"]
        /\ job' = [job EXCEPT ![w].todo = <<"policy">>]
        /\ Excuse(w, "policy", None)
        /\ UNCHANGED <<approved, caps, capPast, network, agent, faults>>

\* Mutation: the flip is committed and the agent not told.
FlipUntold(w) ==
    LET j == job[w]
    IN  /\ pc[w] = "commit" /\ j.kind = "switch"
        /\ caps' = [caps EXCEPT ![j.cap] = IF j.value = j.was THEN @ ELSE j.value]
        /\ capPast' = capPast \cup {<<j.cap, caps'[j.cap]>>}
        /\ pc' = [pc EXCEPT ![w] = "done"]
        /\ Excuse(w, "cap", j.cap)
        /\ UNCHANGED <<approved, policy, policyPast, network, agent, job, faults>>

CommitSwitch(w) ==
    LET j == job[w]
    IN  /\ pc[w] = "commit" /\ j.kind = "switch"
        /\ caps' = [caps EXCEPT ![j.cap] = IF j.value = j.was THEN @ ELSE j.value]
        /\ capPast' = capPast \cup {<<j.cap, caps'[j.cap]>>}
        /\ pc' = [pc EXCEPT ![w] = "push"]
        /\ job' = [job EXCEPT ![w].todo = <<"cap">>]
        /\ excused' = IF Overtakes(w, "cap", j.cap) \/ caps'[j.cap] # j.value
                      THEN excused \cup {"cap"} ELSE excused
        /\ UNCHANGED <<approved, policy, policyPast, network, agent, faults>>

\* The route commits; _push_agent_context_after_approval then looks whether the
\* agent is connected.
CommitApproval(w) ==
    /\ pc[w] = "commit" /\ job[w].kind = "approve"
    /\ approved' = TRUE
    /\ pc' = [pc EXCEPT ![w] = "approved"]
    /\ UNCHANGED <<policy, caps, policyPast, capPast, network, agent, job, faults, excused>>

AfterApproval(w) ==
    /\ pc[w] = "approved"
    /\ pc' = [pc EXCEPT ![w] = "push"]
    /\ job' = [job EXCEPT ![w].todo = IF pool = None THEN <<>> ELSE AllOfIt]
    /\ UNCHANGED <<db, network, agent, faults, excused>>

\* A conflict or a lost database: rolled back.
RollBack(w) ==
    /\ pc[w] = "commit"
    /\ \/ job[w].kind = "policy" /\ Duplicate(job[w]) /\ UNCHANGED faults
       \/ faults < MaxFaults /\ faults' = faults + 1
    /\ pc' = [pc EXCEPT ![w] = "done"]
    /\ job' = [job EXCEPT ![w] = NewJob("none")]
    /\ UNCHANGED <<db, network, agent, excused>>

-----------------------------------------------------------------------------
(* Pushes *)

\* Mutation: the policies are read from the session of the request.
SessionPolicy(w) ==
    IF job[w].kind = "policy"
    THEN [k \in Key |-> Merged(job[w].seen[k], job[w].seen[k], job[w].set[k])]
    ELSE policy

\* policy_sync_service.compose_payload, always in a session of its own.
PolicyPayload(w) == policy

\* Mutation: only the flipped switch is sent.
OwnSwitchOnly(w) == [c \in {job[w].cap} |-> job[w].value]

\* capability_sync_service.compose_payload: after a flip it runs in the session
\* of the request, which shows the flipped row as the request wrote it.
SwitchPayload(w) == [c \in Cap |-> IF c = job[w].cap THEN job[w].value ELSE caps[c]]

Payload(w, s) ==
    [on |-> s, value |-> IF s = "cap" THEN SwitchPayload(w) ELSE PolicyPayload(w)]

\* Nothing is sent on connect when the server has no policy rows.
Compose(w) ==
    /\ pc[w] = "push" /\ job[w].todo # <<>>
    /\ LET s == Head(job[w].todo)
       IN  IF s = "policy" /\ policy = NoRows
           THEN /\ job' = [job EXCEPT ![w].todo = Tail(@)]
                /\ UNCHANGED pc
           ELSE /\ job' = [job EXCEPT ![w].todo = Tail(@), ![w].frame = Payload(w, s)]
                /\ pc' = [pc EXCEPT ![w] = "send"]
    /\ UNCHANGED <<db, network, agent, faults, excused>>

\* _invoke_handler: the agent applies a frame as a whole.
Hear(m) ==
    \/ m.on = "cap" /\ gate' = m.value /\ UNCHANGED policyCache
    \/ m.on = "policy" /\ policyCache' = m.value /\ UNCHANGED gate

\* The frame goes to whatever connection is registered now, and arrives if that
\* is the one the agent reads from.
Send(w) ==
    /\ pc[w] = "send"
    /\ IF pool # None /\ pool = line THEN Hear(job[w].frame) ELSE UNCHANGED agent
    /\ pc' = [pc EXCEPT ![w] = "push"]
    /\ job' = [job EXCEPT ![w].frame = None]
    /\ UNCHANGED <<db, network, faults, excused>>

\* An exception while reading: logged, and on to the next subject.
PushFails(w) ==
    /\ pc[w] = "push" /\ job[w].todo # <<>>
    /\ faults < MaxFaults /\ faults' = faults + 1
    /\ job' = [job EXCEPT ![w].todo = Tail(@)]
    /\ excused' = excused \cup {Head(job[w].todo)}
    /\ UNCHANGED <<db, network, agent, pc>>

\* The request answers; the handler of a connection enters its receive loop.
Pushed(w) ==
    /\ pc[w] = "push" /\ job[w].todo = <<>>
    /\ pc' = [pc EXCEPT ![w] = IF w \in Connection THEN "serve" ELSE "done"]
    /\ job' = [job EXCEPT ![w] = NewJob("none")]
    /\ UNCHANGED <<db, network, agent, faults, excused>>

-----------------------------------------------------------------------------
(* The agent and its connection *)

\* agent_ws: the connection is accepted and registered before the handler reads
\* whether the server is approved.
Connect(h) ==
    /\ pc[h] = "new" /\ line = None
    /\ line' = h /\ pool' = h
    /\ pc' = [pc EXCEPT ![h] = "opened"]
    /\ UNCHANGED <<db, agent, job, faults, excused>>

ReadApproved(h) ==
    /\ h \in Connection /\ pc[h] = "opened"
    /\ pc' = [pc EXCEPT ![h] = "push"]
    /\ job' = [job EXCEPT ![h] = [NewJob("connect") EXCEPT !.todo = IF approved THEN AllOfIt ELSE <<>>]]
    /\ UNCHANGED <<db, network, agent, faults, excused>>

Disconnect ==
    /\ line # None
    /\ line' = None
    /\ UNCHANGED <<db, pool, agent, pc, job, faults, excused>>

\* The agent process ends: its caches are in memory only.
Restart ==
    /\ line' = None
    /\ policyCache' = None
    /\ gate' = [c \in Cap |-> None]
    /\ UNCHANGED <<db, pool, pc, job, faults, excused>>

\* The handler notices that its connection is gone.
HandlerEnds(h) ==
    /\ pc[h] = "serve" /\ line # h
    /\ pc' = [pc EXCEPT ![h] = "done"]
    /\ pool' = IF pool = h THEN None ELSE pool
    /\ UNCHANGED <<db, line, agent, job, faults, excused>>

-----------------------------------------------------------------------------
Init ==
    /\ approved \in BOOLEAN
    /\ policy = NoRows /\ policyPast = {NoRows}
    /\ caps = [c \in Cap |-> FALSE] /\ capPast = Cap \X {FALSE}
    /\ pool = None /\ line = None
    /\ policyCache = None
    /\ gate = [c \in Cap |-> None]
    /\ pc = [w \in Process |-> "new"]
    /\ job = [w \in Process |-> NewJob("none")]
    /\ faults = 0 /\ excused = {}

RequestStep(w) ==
    \/ \E e \in Edit : UpdatePolicy(w, e)
    \/ \E p \in Profile : SwitchProfile(w, p)
    \/ \E c \in Cap, v \in BOOLEAN : FlipSwitch(w, c, v)
    \/ Approve(w)
    \/ CommitPolicy(w) \/ CommitSwitch(w) \/ CommitApproval(w) \/ AfterApproval(w)
    \/ RollBack(w)

PushStep(w) == Compose(w) \/ Send(w) \/ PushFails(w) \/ Pushed(w)

Next ==
    \/ \E w \in Request : RequestStep(w)
    \/ \E w \in Process : PushStep(w)
    \/ \E h \in Connection : Connect(h) \/ ReadApproved(h) \/ HandlerEnds(h)
    \/ Disconnect \/ Restart

Spec == Init /\ [][Next]_vars

-----------------------------------------------------------------------------
(* Properties *)

\* The tables, the frames and the caches keep their types.
TypeOK ==
    /\ approved \in BOOLEAN
    /\ policy \in PolicyTable /\ caps \in Switches
    /\ policyPast \subseteq PolicyTable
    /\ capPast \subseteq Cap \X BOOLEAN
    /\ pool \in Connection \cup {None} /\ line \in Connection \cup {None}
    /\ policyCache \in PolicyTable \cup {None}
    /\ gate \in [Cap -> BOOLEAN \cup {None}]
    /\ pc \in [Process -> {"new", "commit", "approved", "opened", "push", "send", "serve", "done"}]
    /\ job \in [Process -> Job]
    /\ faults \in 0..MaxFaults /\ excused \subseteq Subject

Feed == INSTANCE ContextFeed WITH
    Cap <- Cap, None <- None,
    policyPast <- policyPast, capPast <- capPast, policyCache <- policyCache, gate <- gate

\* "Commit before pushing so the agent never sees a row we later roll back"
\* (policies.py): whatever overlaps, is lost or restarts, each cache holds one
\* table as it was once committed, never a mixture and never an attempt.
FollowsFeed == Feed!FeedSpec

\* Nothing is under way, and the agent listens where the backend sends.
Quiet ==
    /\ line # None /\ pool = line /\ pc[line] = "serve"
    /\ \A w \in Process : pc[w] \in {"new", "serve", "done"}

\* "so its gate updates without waiting for a reconnect" (servers.py): when all
\* is quiet, an approved agent has the switches and the policies of the
\* database, whichever of connecting, approving and changing came first, unless
\* a push failed or another change overtook it.
InStep ==
    Quiet /\ approved =>
        /\ "cap" \in excused \/ gate = caps
        /\ "policy" \in excused \/ policy = NoRows \/ policyCache = policy
=============================================================================
