---------------------------- MODULE AgentSession ----------------------------
(***************************************************************************)
(* One server and its agent's connections: the /ws/agent handler step by   *)
(* step (agent_ws.py), the connection pool (agent_hub.py), the approval    *)
(* route with its context push (api/v1/servers.py, server_service.py) and  *)
(* deletion.  Handlers and routes are coroutines of one process: they      *)
(* interleave at their awaits, and each database transaction is a snapshot *)
(* read followed by a write of the columns that were changed.              *)
(*                                                                         *)
(* Abstractions.  Each member of Conn is one WebSocket, used once; an      *)
(* agent that reconnects while the backend still holds its old socket is   *)
(* two of them at once.  The agent presents a valid token.  Of the context *)
(* frames only their kind is kept.                                         *)
(***************************************************************************)
EXTENDS Naturals, Sequences

CONSTANTS
    Conn,       \* WebSocket connections of the agent
    Admin,      \* POST /servers/{id}/approve requests
    None,       \* no connection
    MaxFaults   \* bound on each kind of fault

Fault == {"crash", "db"}

ASSUME SessionAssumption ==
    /\ Conn \cap Admin = {}
    /\ None \notin Conn
    /\ MaxFaults \in [Fault -> Nat]

VARIABLES
    row,      \* the server's row
    pool,     \* agent_hub.pool._connections[server_id]
    open,     \* the sockets that are open
    pc,       \* where each handler and each approval is
    snap,     \* the row as its transaction has read it
    online,   \* is_connected, as an approval has found it
    step,     \* the context item to be sent next
    sent,     \* the context items written to a socket
    last,     \* history: the connection registered last
    failed,   \* history: context items whose composition raised
    faults    \* faults so far, by kind

vars == <<row, pool, open, pc, snap, online, step, sent, last, failed, faults>>

Proc == Conn \cup Admin

\* What an approved agent is sent, in this order.
Context == <<"urls", "capability", "policy", "link_cache">>
Item == {Context[i] : i \in DOMAIN Context}

Status == {"pending", "online", "offline", "maintenance"}
Row == [enrolled : BOOLEAN, approved : BOOLEAN, active : BOOLEAN, status : Status]

\* The row create_server inserts; also a snapshot that is not (or no longer) in
\* use.
NewRow == [enrolled |-> FALSE, approved |-> FALSE, active |-> TRUE, status |-> "pending"]

\* approved_at IS NOT NULL and is_active.
Approved(r) == r.approved /\ r.active

\* Between the pool registration and the `finally` of the handler.
Serving == {"greet", "greeting", "sync", "loop", "beating"}

-----------------------------------------------------------------------------
(* The connection handler: agent_ws *)

\* Phase 1, authenticate_agent: an inactive server is refused before accept;
\* the first connection binds its token to the row.
Connect(c) ==
    /\ pc[c] = "new"
    /\ row.active
    /\ row' = [row EXCEPT !.enrolled = TRUE]
    /\ open' = open \cup {c}
    /\ pc' = [pc EXCEPT ![c] = "register"]
    /\ UNCHANGED <<pool, snap, online, step, sent, last, failed, faults>>

\* The assignment that ends pool.register.
Enter(c) ==
    /\ pool' = c
    /\ last' = c
    /\ pc' = [pc EXCEPT ![c] = "greet"]

\* pool.register with no entry: no await, so nothing comes between.
Register(c) ==
    /\ pc[c] = "register"
    /\ pool = None
    /\ Enter(c)
    /\ UNCHANGED <<row, open, snap, online, step, sent, failed, faults>>

\* pool.register with an entry: that socket is closed, and while the close is
\* awaited everything else may run.
Kick(c) ==
    /\ pc[c] = "register"
    /\ pool # None
    /\ open' = open \ {pool}
    /\ pc' = [pc EXCEPT ![c] = "kick"]
    /\ UNCHANGED <<row, pool, snap, online, step, sent, last, failed, faults>>

\* The close has returned: the entry is overwritten, whoever put it there.
KickDone(c) ==
    /\ pc[c] = "kick"
    /\ Enter(c)
    /\ UNCHANGED <<row, open, snap, online, step, sent, failed, faults>>

\* mark_heartbeat, on connecting and for every heartbeat frame: the read.
HeartbeatRead(c) ==
    /\ pc[c] = "greet" \/ (pc[c] = "loop" /\ c \in open)
    /\ snap' = [snap EXCEPT ![c] = row]
    /\ pc' = [pc EXCEPT ![c] = IF @ = "greet" THEN "greeting" ELSE "beating"]
    /\ UNCHANGED <<row, pool, open, online, step, sent, last, failed, faults>>

\* Slip: the status is written on connecting only.
QuietHeartbeat(c) ==
    /\ pc[c] \in {"greeting", "beating"}
    /\ row' = [row EXCEPT !.status = IF pc[c] = "greeting" /\ Approved(snap[c])
                                     THEN "online" ELSE @]
    /\ pc' = [pc EXCEPT ![c] = IF @ = "greeting" /\ Approved(snap[c]) THEN "sync" ELSE "loop"]
    /\ snap' = [snap EXCEPT ![c] = NewRow]
    /\ UNCHANGED <<pool, open, online, step, sent, last, failed, faults>>

\* mark_heartbeat, the write: an approved server that was not online becomes
\* online.  A greeting that found the server approved goes on to the context.
HeartbeatWrite(c) ==
    /\ pc[c] \in {"greeting", "beating"}
    /\ row' = [row EXCEPT !.status = IF Approved(snap[c]) /\ snap[c].status # "online"
                                     THEN "online" ELSE @]
    /\ pc' = [pc EXCEPT ![c] = IF @ = "greeting" /\ Approved(snap[c]) THEN "sync" ELSE "loop"]
    /\ snap' = [snap EXCEPT ![c] = NewRow]
    /\ UNCHANGED <<pool, open, online, step, sent, last, failed, faults>>

\* After the last context item a handler enters its receive loop and an
\* approval answers.
NextItem(p) ==
    /\ step' = [step EXCEPT ![p] = IF @ < Len(Context) THEN @ + 1 ELSE 1]
    /\ pc' = [pc EXCEPT ![p] = IF step[p] < Len(Context) THEN "sync"
                               ELSE IF p \in Conn THEN "loop" ELSE "done"]

\* push_update_urls and the three send_on_connect: one item, to whichever
\* socket is in the pool by now.  A send to a closed socket is suppressed.
PushContext(p) ==
    /\ pc[p] = "sync"
    /\ sent' = [c \in Conn |-> IF c = pool /\ c \in open
                               THEN sent[c] \cup {Context[step[p]]} ELSE sent[c]]
    /\ NextItem(p)
    /\ UNCHANGED <<row, pool, open, snap, online, last, failed, faults>>

\* Slip: the entry is deleted without looking whose it is.
UnregisterAny(c) == pool' = None

\* pool.unregister: only if the entry is still this socket.
Unregister(c) == pool' = IF pool = c THEN None ELSE pool

\* The receive loop notices the disconnect; `finally` starts.
Disconnect(c) ==
    /\ pc[c] = "loop"
    /\ c \notin open
    /\ Unregister(c)
    /\ pc' = [pc EXCEPT ![c] = "ended"]
    /\ UNCHANGED <<row, open, snap, online, step, sent, last, failed, faults>>

\* _mark_offline: read, and write if the server was approved and online.
MarkOfflineRead(c) ==
    /\ pc[c] = "ended"
    /\ pc' = [pc EXCEPT ![c] = IF row.approved /\ row.status = "online"
                               THEN "marking" ELSE "done"]
    /\ UNCHANGED <<row, pool, open, snap, online, step, sent, last, failed, faults>>

MarkOfflineWrite(c) ==
    /\ pc[c] = "marking"
    /\ row' = [row EXCEPT !.status = "offline"]
    /\ pc' = [pc EXCEPT ![c] = "done"]
    /\ UNCHANGED <<pool, open, snap, online, step, sent, last, failed, faults>>

-----------------------------------------------------------------------------
(* Approval and deletion: api/v1/servers.py and server_service.py *)

\* The request's first query (its login check) fixes the snapshot in which
\* get_server will read the row.
ApproveRead(a) ==
    /\ pc[a] = "new"
    /\ snap' = [snap EXCEPT ![a] = row]
    /\ pc' = [pc EXCEPT ![a] = "read"]
    /\ UNCHANGED <<row, pool, open, online, step, sent, last, failed, faults>>

\* is_connected is evaluated; a deleted server, or one that has never phoned
\* home, is refused.
ApproveCheck(a) ==
    /\ pc[a] = "read"
    /\ online' = [online EXCEPT ![a] = pool # None]
    /\ pc' = [pc EXCEPT ![a] = IF snap[a].active /\ snap[a].enrolled THEN "commit" ELSE "done"]
    /\ UNCHANGED <<row, pool, open, snap, step, sent, last, failed, faults>>

\* The status an approval decides on: what it was if it may not be touched.
ApprovedStatus(a) ==
    IF snap[a].approved /\ snap[a].status = "maintenance" THEN snap[a].status
    ELSE IF online[a] THEN "online" ELSE "offline"

\* The flush and the commit: columns that did not change are not written.
ApproveCommit(a) ==
    /\ pc[a] = "commit"
    /\ row' = [row EXCEPT !.approved = TRUE,
                          !.status = IF ApprovedStatus(a) # snap[a].status
                                     THEN ApprovedStatus(a) ELSE @]
    /\ pc' = [pc EXCEPT ![a] = "committed"]
    /\ snap' = [snap EXCEPT ![a] = NewRow]
    /\ UNCHANGED <<pool, open, online, step, sent, last, failed, faults>>

\* Slip: the answer of the first look at the pool is used again.
PushIfItWasOnline(a) ==
    /\ pc[a] = "committed"
    /\ pc' = [pc EXCEPT ![a] = IF online[a] THEN "sync" ELSE "done"]
    /\ UNCHANGED <<row, pool, open, snap, online, step, sent, last, failed, faults>>

\* _push_agent_context_after_approval: nothing to do for an offline agent.
PushAfterApproval(a) ==
    /\ pc[a] = "committed"
    /\ pc' = [pc EXCEPT ![a] = IF pool = None THEN "done" ELSE "sync"]
    /\ UNCHANGED <<row, pool, open, snap, online, step, sent, last, failed, faults>>

\* Slip: a status outside ck_server_status.
DeleteMisspelt ==
    /\ row' = [row EXCEPT !.active = FALSE, !.status = "deleted"]
    /\ UNCHANGED <<pool, open, pc, snap, online, step, sent, last, failed, faults>>

\* delete_server: the row is deactivated; a live connection is left alone.
Delete ==
    /\ row' = [row EXCEPT !.active = FALSE, !.status = "maintenance"]
    /\ UNCHANGED <<pool, open, pc, snap, online, step, sent, last, failed, faults>>

-----------------------------------------------------------------------------
(* Faults *)

Counted(kind) ==
    /\ faults[kind] < MaxFaults[kind]
    /\ faults' = [faults EXCEPT ![kind] = @ + 1]

\* The agent goes away, or the network does.
Close(c) ==
    /\ c \in open
    /\ open' = open \ {c}
    /\ UNCHANGED <<row, pool, pc, snap, online, step, sent, last, failed, faults>>

\* The greeting's transaction fails.  This is before the handler's `try`: the
\* coroutine dies with its socket still in the pool.
GreetingFails(c) ==
    /\ pc[c] = "greeting"
    /\ Counted("db")
    /\ open' = open \ {c}
    /\ pc' = [pc EXCEPT ![c] = "lost"]
    /\ UNCHANGED <<row, pool, snap, online, step, sent, last, failed>>

\* A heartbeat's transaction fails: `finally` runs.
HeartbeatFails(c) ==
    /\ pc[c] = "beating"
    /\ Counted("db")
    /\ Unregister(c)
    /\ open' = open \ {c}
    /\ pc' = [pc EXCEPT ![c] = "ended"]
    /\ UNCHANGED <<row, snap, online, step, sent, last, failed>>

\* Marking the server offline, or an approval, fails and is rolled back.
CommitFails(p) ==
    /\ pc[p] \in {"marking", "commit"}
    /\ Counted("db")
    /\ pc' = [pc EXCEPT ![p] = "done"]
    /\ UNCHANGED <<row, pool, open, snap, online, step, sent, last, failed>>

\* A context item cannot be composed: logged, and the next one is tried.
PushFails(p) ==
    /\ pc[p] = "sync"
    /\ Counted("db")
    /\ failed' = failed \cup {Context[step[p]]}
    /\ NextItem(p)
    /\ UNCHANGED <<row, pool, open, snap, online, sent, last>>

\* The backend restarts: sockets, pool and coroutines are gone.
BackendCrash ==
    /\ Counted("crash")
    /\ pool' = None
    /\ open' = {}
    /\ last' = None
    /\ pc' = [p \in Proc |-> IF pc[p] = "new" THEN "new" ELSE "done"]
    /\ snap' = [p \in Proc |-> NewRow]
    /\ online' = [a \in Admin |-> FALSE]
    /\ step' = [p \in Proc |-> 1]
    /\ sent' = [c \in Conn |-> {}]
    /\ UNCHANGED <<row, failed>>

-----------------------------------------------------------------------------
Init ==
    /\ row = NewRow
    /\ pool = None
    /\ open = {}
    /\ pc = [p \in Proc |-> "new"]
    /\ snap = [p \in Proc |-> NewRow]
    /\ online = [a \in Admin |-> FALSE]
    /\ step = [p \in Proc |-> 1]
    /\ sent = [c \in Conn |-> {}]
    /\ last = None
    /\ failed = {}
    /\ faults = [k \in Fault |-> 0]

Handler(c) ==
    \/ Register(c) \/ Kick(c) \/ KickDone(c) \/ HeartbeatRead(c) \/ HeartbeatWrite(c)
    \/ PushContext(c) \/ Disconnect(c) \/ MarkOfflineRead(c) \/ MarkOfflineWrite(c)
Approval(a) ==
    ApproveCheck(a) \/ ApproveCommit(a) \/ PushAfterApproval(a) \/ PushContext(a)

Next ==
    \/ \E c \in Conn : Connect(c) \/ Handler(c) \/ Close(c)
    \/ \E c \in Conn : GreetingFails(c) \/ HeartbeatFails(c)
    \/ \E a \in Admin : ApproveRead(a) \/ Approval(a)
    \/ \E p \in Proc : CommitFails(p) \/ PushFails(p)
    \/ Delete \/ BackendCrash

Spec == Init /\ [][Next]_vars

(***************************************************************************)
(* Fairness: asyncio runs every coroutine that can go on, and a connected  *)
(* agent sends its periodic heartbeat.  Nothing is assumed of the network  *)
(* or of administrators.                                                   *)
(***************************************************************************)
FairSpec == /\ Spec
            /\ \A c \in Conn : WF_vars(Handler(c))
            /\ \A a \in Admin : WF_vars(Approval(a))

-----------------------------------------------------------------------------
(* Properties *)

\* The row's status comes from ck_server_status, the pool and the coroutines
\* keep their shape.
TypeOK ==
    /\ row \in Row
    /\ pool \in Conn \cup {None}
    /\ open \subseteq Conn
    /\ pc \in [Proc -> {"new", "register", "kick", "ended", "marking", "lost", "done",
                        "read", "commit", "committed"} \cup Serving]
    /\ snap \in [Proc -> Row]
    /\ online \in [Admin -> BOOLEAN]
    /\ step \in [Proc -> DOMAIN Context]
    /\ sent \in [Conn -> SUBSET Item]
    /\ last \in Conn \cup {None}
    /\ failed \subseteq Item
    /\ faults \in [Fault -> Nat]

\* The pool holds exactly the connection that registered last, for as long as
\* its handler serves it: the clean-up of a kicked connection, in whatever
\* order it runs, never takes its successor out of the pool, and a handler
\* that has ended leaves nothing behind (unless it died in its greeting).
PoolIsCurrent ==
    pool = IF last # None /\ pc[last] \in Serving \cup {"lost"} THEN last ELSE None

\* An approval that has not finished handing over the context.
Approving == \E a \in Admin : pc[a] \in {"committed", "sync"}

\* An agent that is connected to an approved server has been sent its whole
\* context, in whatever order the approval and the connection happened: one
\* of the two sees the other.
ContextDelivered ==
    \A c \in Conn :
        pool = c /\ c \in open /\ pc[c] \in {"loop", "beating"} /\ Approved(row) /\ ~Approving
            => Item \ failed \subseteq sent[c]

\* The connection c is the agent's, and will stay so until it is closed.
Established(c) == pool = c /\ c \in open /\ pc[c] \in {"loop", "beating"} /\ Approved(row)

\* A server whose agent stays connected ends up online for good, although a
\* kicked handler or an approval may have written offline after the greeting.
StatusConverges == \A c \in Conn : <>[]Established(c) => <>[](row.status = "online")
=============================================================================
