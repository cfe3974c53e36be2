--------------------------- MODULE ScriptDispatch ---------------------------
(***************************************************************************)
(* A reservation's script, from the scheduler tick that fires it to the    *)
(* end of the reservation: the tick and its watchdog                       *)
(* (reservation_scheduler.py), the fire-and-forget dispatch tasks and      *)
(* their RPC (agent_rpc.py), the agent's ScriptRunner (script_runner.py),  *)
(* the lifecycle pushes (script_lifecycle_service.py), cancellation of one *)
(* reservation (api/v1/reservations.py, with the pending-kill registry)    *)
(* and of a group, over one agent connection that can drop, and with       *)
(* crashes of the backend and restarts of the agent.                       *)
(*                                                                         *)
(* Time is abstracted to what the code compares: how far a reservation has *)
(* got (phase) and whether its dispatch marker is older than               *)
(* WATCHDOG_STUCK_SECONDS.  A database transaction is one step: the tick   *)
(* runs at SERIALIZABLE (assuming that it stays on the connection that was *)
(* told so), the lifecycle handlers write columns of one row, and the      *)
(* cancel transaction's snapshot read is a step of its own.                *)
(***************************************************************************)
EXTENDS Naturals, Sequences, FiniteSets

CONSTANTS
    Res,             \* reservations on the one server modelled
    Scripted,        \* those with a script (script IS NOT NULL)
    Groups,          \* reservation groups: sets of reservations
    Canceller,       \* DELETE /reservations/{id} requests
    Target,          \* the reservation each of them names
    None,            \* no canceller
    MaxAttempts,     \* WATCHDOG_MAX_DISPATCH_ATTEMPTS (3 in the code)
    SlowAgent,       \* may an answer take longer than the RPC timeout?
    AgentMayReject,  \* may the agent refuse a script (capability, user, sudo)?
    MaxFaults        \* bound on each kind of fault

Fault == {"drop", "send", "crash", "restart"}

ASSUME ResAssumption ==
    /\ Scripted \subseteq Res
    /\ Groups \subseteq SUBSET Res
    /\ Res \cap Canceller = {}
    /\ None \notin Canceller
    /\ Target \in [Canceller -> Res]
ASSUME LimitAssumption ==
    /\ MaxAttempts \in Nat \ {0}
    /\ SlowAgent \in BOOLEAN
    /\ AgentMayReject \in BOOLEAN
    /\ MaxFaults \in [Fault -> Nat]

VARIABLES
    phase,         \* [Res -> 0..3] before start_at, started, trigger due, ended
    status,        \* Reservation.status
    scriptStatus,  \* Reservation.script_status
    marker,        \* Reservation.script_dispatch_started_at: null, fresh, stale
    startedSeen,   \* is a lifecycle.started audit row there?
    failures,      \* number of dispatch_attempt_failed audit rows
    task,          \* _dispatch_one of a reservation: none, queued, sent
    calls,         \* RPCs sent on behalf of a reservation or a canceller
    cancel,        \* where a cancel request is
    pendingKill,   \* _PENDING_KILLS: whose event is registered
    eventSet,      \* the cancellers whose asyncio.Event is set
    up,            \* is the agent's WebSocket registered in agent_hub?
    toAgent,       \* frames on their way to the agent, in order
    toBackend,     \* frames on their way to the backend, in order
    running,       \* ScriptRunner._running, with the state of the process
    execs,         \* history: processes started for a reservation
    faults         \* faults so far, by kind

vars == <<phase, status, scriptStatus, marker, startedSeen, failures, task,
          calls, cancel, pendingKill, eventSet, up, toAgent, toBackend,
          running, execs, faults>>
rowVars == <<status, scriptStatus, marker, startedSeen, failures>>
cancelVars == <<cancel, pendingKill, eventSet>>
linkVars == <<up, toAgent, toBackend>>
agentVars == <<running, execs>>

Terminal == {"completed", "cancelled", "failed"}
ScriptDone == {"completed", "failed", "killed"}

Owner == Res \cup Canceller
Call == Owner \X Nat
Request == [type : {"execute", "cancel"}, res : Res, call : Call]
Push == [type : {"started"}, res : Res]
        \cup [type : {"finished"}, res : Res, outcome : ScriptDone]
Reply == [type : {"reply"}, call : Call, ok : BOOLEAN]

\* Awaiting the agent's answer, or its script.finished: the waits of
\* cancel_active_with_running_script.
Waiting == {"rpc", "wait"}
CancelPc == {"idle", "plain", "kill", "commit", "done"} \cup Waiting

-----------------------------------------------------------------------------
(* The scheduler: reservation_scheduler.py *)

\* Time passes; a late tick may find that several instants have gone by.
AdvanceClock(r) ==
    /\ \E p \in (phase[r] + 1)..3 : phase' = [phase EXCEPT ![r] = p]
    /\ UNCHANGED <<rowVars, task, calls, cancelVars, linkVars, agentVars, faults>>

\* Slip: a watchdog delay below the RPC timeout.
ImpatientWatchdog(r) ==
    /\ marker[r] = "fresh"
    /\ marker' = [marker EXCEPT ![r] = "stale"]
    /\ UNCHANGED <<phase, status, scriptStatus, startedSeen, failures, task,
                   calls, cancelVars, linkVars, agentVars, faults>>

\* 60 s pass since the dispatch.  The task of that dispatch is over by then:
\* it gives up after 10 s.
MarkerAges(r) ==
    /\ marker[r] = "fresh"
    /\ task[r] = "none"
    /\ marker' = [marker EXCEPT ![r] = "stale"]
    /\ UNCHANGED <<phase, status, scriptStatus, startedSeen, failures, task,
                   calls, cancelVars, linkVars, agentVars, faults>>

\* _promote_due_scheduled: start_at has arrived.
Promotes(r) == status[r] = "scheduled" /\ phase[r] >= 1

\* Active as the later parts of the same tick see it.
NowActive(r) == status[r] = "active" \/ Promotes(r)

\* _close_due_active: end_at has arrived.
Closes(r) == NowActive(r) /\ phase[r] = 3

\* Slip: the script's outcome copied into the reservation's status.
CopiesScriptStatus(r) ==
    IF scriptStatus[r] \in {"failed", "killed"} THEN scriptStatus[r] ELSE "completed"

ClosingStatus(r) ==
    IF scriptStatus[r] \in {"failed", "killed"} THEN "failed" ELSE "completed"

\* _dispatch_due_scripts: the trigger has arrived and the script was never fired.
Dispatches(r) ==
    /\ NowActive(r) /\ ~Closes(r)
    /\ r \in Scripted
    /\ phase[r] >= 2
    /\ scriptStatus[r] = "null"

\* _retry_stuck_dispatches: its query, and its three outcomes.
Stuck(r) ==
    /\ NowActive(r) /\ ~Closes(r)
    /\ scriptStatus[r] = "running"
    /\ marker[r] = "stale"
Heals(r) == Stuck(r) /\ startedSeen[r]
\* Slip: one failure short of the limit at which retries stop.
GivesUpLate(r) == Stuck(r) /\ ~startedSeen[r] /\ failures[r] > MaxAttempts
GivesUp(r) == Stuck(r) /\ ~startedSeen[r] /\ failures[r] >= MaxAttempts
\* Slip: one attempt too many.
RetriesOnceMore(r) == Stuck(r) /\ ~startedSeen[r] /\ failures[r] <= MaxAttempts
Retries(r) == Stuck(r) /\ ~startedSeen[r] /\ failures[r] < MaxAttempts

(***************************************************************************)
(* reservation_tick: one SERIALIZABLE transaction over all rows, then one  *)
(* fire-and-forget task per dispatch and per retry.                        *)
(***************************************************************************)
Tick ==
    /\ \E r \in Res : Promotes(r) \/ Closes(r) \/ Dispatches(r) \/ Stuck(r)
    /\ status' = [r \in Res |-> IF Closes(r) THEN ClosingStatus(r)
                                ELSE IF GivesUp(r) THEN "failed"
                                ELSE IF Promotes(r) THEN "active"
                                ELSE status[r]]
    /\ scriptStatus' = [r \in Res |-> IF Dispatches(r) THEN "running"
                                      ELSE scriptStatus[r]]
    /\ marker' = [r \in Res |-> IF Dispatches(r) \/ Retries(r) THEN "fresh"
                                ELSE IF Heals(r) THEN "null"
                                ELSE marker[r]]
    /\ task' = [r \in Res |-> IF Dispatches(r) \/ Retries(r) THEN "queued"
                              ELSE task[r]]
    /\ UNCHANGED <<phase, startedSeen, failures, calls, cancelVars, linkVars,
                   agentVars, faults>>

-----------------------------------------------------------------------------
(* Dispatch tasks: _dispatch_one over agent_rpc.request_response *)

\* The correlation id of the owner's latest call, and of its next one.
LastCall(o) == <<o, calls[o]>>
NextCall(o) == <<o, calls[o] + 1>>

\* The frame and its answer are still on their way.
Outstanding(call) ==
    \/ \E i \in 1..Len(toAgent) : toAgent[i].call = call
    \/ \E i \in 1..Len(toBackend) :
           toBackend[i].type = "reply" /\ toBackend[i].call = call

\* RPC timeouts: the answer is lost, or slower than the timeout.
MayTimeOut(call) == SlowAgent \/ ~Outstanding(call)

\* _record_dispatch_attempt_failed, in a transaction of its own.
RecordAttemptFailed(r) == failures' = [failures EXCEPT ![r] = @ + 1]

\* The task runs: the agent is offline, or the frame leaves.
TaskSend(r) ==
    /\ task[r] = "queued"
    /\ calls' = [calls EXCEPT ![r] = @ + 1]
    /\ \/ /\ ~up
          /\ task' = [task EXCEPT ![r] = "none"]
          /\ RecordAttemptFailed(r)
          /\ UNCHANGED toAgent
       \/ /\ up
          /\ task' = [task EXCEPT ![r] = "sent"]
          /\ toAgent' = Append(toAgent, [type |-> "execute", res |-> r,
                                         call |-> NextCall(r)])
          /\ UNCHANGED failures
    /\ UNCHANGED <<phase, status, scriptStatus, marker, startedSeen, cancelVars,
                   up, toBackend, agentVars, faults>>

\* No answer within 10 s.
DispatchTimeout(r) ==
    /\ task[r] = "sent"
    /\ MayTimeOut(LastCall(r))
    /\ task' = [task EXCEPT ![r] = "none"]
    /\ RecordAttemptFailed(r)
    /\ UNCHANGED <<phase, status, scriptStatus, marker, startedSeen, calls,
                   cancelVars, linkVars, agentVars, faults>>

\* The socket is broken but still registered: send_text raises an exception
\* that _dispatch_one does not catch, so the attempt is never recorded.
SendRaises(r) ==
    /\ task[r] = "queued"
    /\ up
    /\ faults["send"] < MaxFaults["send"]
    /\ calls' = [calls EXCEPT ![r] = @ + 1]
    /\ task' = [task EXCEPT ![r] = "none"]
    /\ faults' = [faults EXCEPT !["send"] = @ + 1]
    /\ UNCHANGED <<phase, rowVars, cancelVars, linkVars, agentVars>>

-----------------------------------------------------------------------------
(* The agent: script_runner.py behind ws_client.py's frame pump *)

\* push_envelope: without a connection the event is dropped.
PushFrames(frames) == toBackend' = IF up THEN toBackend \o frames ELSE toBackend

ReplyTo(m, ok) == [type |-> "reply", call |-> m.call, ok |-> ok]

\* ScriptRunner.execute, one frame at a time: refused, or a process is
\* started, script.started is pushed and the call is acknowledged.
AgentExecute ==
    /\ up /\ toAgent # <<>>
    /\ LET m == Head(toAgent)
       IN  /\ m.type = "execute"
           /\ \/ /\ AgentMayReject \/ running[m.res] # "none"
                 /\ PushFrames(<<ReplyTo(m, FALSE)>>)
                 /\ UNCHANGED agentVars
              \/ /\ running[m.res] = "none"
                 /\ running' = [running EXCEPT ![m.res] = "running"]
                 /\ execs' = [execs EXCEPT ![m.res] = @ + 1]
                 /\ PushFrames(<<[type |-> "started", res |-> m.res],
                                 ReplyTo(m, TRUE)>>)
    /\ toAgent' = Tail(toAgent)
    /\ UNCHANGED <<phase, rowVars, task, calls, cancelVars, up, faults>>

\* ScriptRunner.cancel: a live process gets SIGTERM and, from now on, counts
\* as killed by corelab however it ends.  The answer is always ok.
AgentCancel ==
    /\ up /\ toAgent # <<>>
    /\ LET m == Head(toAgent)
       IN  /\ m.type = "cancel"
           /\ running' = [running EXCEPT ![m.res] = IF @ = "running"
                                                    THEN "killing" ELSE @]
           /\ PushFrames(<<ReplyTo(m, TRUE)>>)
    /\ toAgent' = Tail(toAgent)
    /\ UNCHANGED <<phase, rowVars, task, calls, cancelVars, up, execs, faults>>

\* A process ends: by itself, by max_runtime, or by SIGTERM / SIGKILL.
ProcessEnds(r, outcome) ==
    /\ \/ running[r] = "running"
       \/ running[r] = "killing" /\ outcome = "killed"
    /\ running' = [running EXCEPT ![r] = outcome]
    /\ UNCHANGED <<phase, rowVars, task, calls, cancelVars, linkVars, execs, faults>>

\* The end of _await_and_push: the event leaves, the entry is popped.
PushFinished(r) ==
    /\ running[r] \in ScriptDone
    /\ PushFrames(<<[type |-> "finished", res |-> r, outcome |-> running[r]]>>)
    /\ running' = [running EXCEPT ![r] = "none"]
    /\ UNCHANGED <<phase, rowVars, task, calls, cancelVars, up, toAgent, execs, faults>>

-----------------------------------------------------------------------------
(* The backend's receive loop: agent_ws.py *)

\* The next frame, taken off the connection.
Receive(type) ==
    /\ up /\ toBackend # <<>>
    /\ Head(toBackend).type = type
    /\ toBackend' = Tail(toBackend)
    /\ UNCHANGED <<up, toAgent>>

\* Slip: the start is neither audited nor cleared from the watchdog's list.
StartUnrecorded ==
    /\ Receive("started")
    /\ UNCHANGED <<phase, rowVars, task, calls, cancelVars, agentVars, faults>>

\* on_script_started: stops the watchdog; stale for a script that is over.
OnScriptStarted ==
    /\ Receive("started")
    /\ LET r == Head(toBackend).res
           live == scriptStatus[r] \in {"null", "running"}
       IN  /\ scriptStatus' = [scriptStatus EXCEPT ![r] = IF live THEN "running" ELSE @]
           /\ marker' = [marker EXCEPT ![r] = IF scriptStatus[r] = "running"
                                              THEN "null" ELSE @]
           /\ startedSeen' = [startedSeen EXCEPT ![r] = @ \/ live]
    /\ UNCHANGED <<phase, status, failures, task, calls, cancelVars, agentVars, faults>>

\* _signal_lifecycle_kill: sets the one event registered for r.
SignalLifecycleKill(r) == eventSet' = eventSet \cup ({pendingKill[r]} \ {None})

\* on_script_finished: the outcome is recorded once, and a kill wakes the
\* cancel that waits for it.
OnScriptFinished ==
    /\ Receive("finished")
    /\ LET m == Head(toBackend)
       IN  /\ scriptStatus' = [scriptStatus EXCEPT ![m.res] =
                                  IF @ = "running" THEN m.outcome ELSE @]
           /\ IF m.outcome = "killed" THEN SignalLifecycleKill(m.res)
              ELSE UNCHANGED eventSet
    /\ UNCHANGED <<phase, status, marker, startedSeen, failures, task, calls,
                   cancel, pendingKill, agentVars, faults>>

\* deliver_response: the answer reaches the call it names while that call is
\* still awaited; otherwise it is dropped.
DeliverResponse ==
    /\ Receive("reply")
    /\ LET m == Head(toBackend)
           Awaited(o) == LastCall(o) = m.call
       IN  /\ task' = [r \in Res |-> IF task[r] = "sent" /\ Awaited(r)
                                     THEN "none" ELSE task[r]]
           /\ failures' = [r \in Res |-> IF task[r] = "sent" /\ Awaited(r) /\ ~m.ok
                                         THEN failures[r] + 1 ELSE failures[r]]
           /\ cancel' = [c \in Canceller |-> IF cancel[c] = "rpc" /\ Awaited(c)
                                             THEN "wait" ELSE cancel[c]]
    /\ UNCHANGED <<phase, status, scriptStatus, marker, startedSeen, calls,
                   pendingKill, eventSet, agentVars, faults>>

-----------------------------------------------------------------------------
(* Cancelling: api/v1/reservations.py, cancel_active_with_running_script and *)
(* cancel_reservation / cancel_group                                         *)

\* The request reads the row and decides, on that snapshot, whether the
\* script must be stopped first.
CancelRead(c) ==
    /\ cancel[c] = "idle"
    /\ cancel' = [cancel EXCEPT ![c] =
                    IF status[Target[c]] = "active" /\ scriptStatus[Target[c]] = "running"
                    THEN "kill" ELSE "plain"]
    /\ UNCHANGED <<phase, rowVars, task, calls, pendingKill, eventSet, linkVars,
                   agentVars, faults>>

\* The `finally` of the orchestration pops the entry of the reservation,
\* whoever registered it.
DiscardPendingKill(c) == pendingKill' = [pendingKill EXCEPT ![Target[c]] = None]

\* The kill path registers its event and sends backend.script.cancel; with
\* no agent connected, or a send that raises, the request fails.
CancelSend(c) ==
    /\ cancel[c] = "kill"
    /\ \/ /\ ~up \/ MaxFaults["send"] > 0
          /\ cancel' = [cancel EXCEPT ![c] = "done"]
          /\ DiscardPendingKill(c)
          /\ UNCHANGED <<toAgent, calls>>
       \/ /\ up
          /\ cancel' = [cancel EXCEPT ![c] = "rpc"]
          /\ pendingKill' = [pendingKill EXCEPT ![Target[c]] = c]
          /\ calls' = [calls EXCEPT ![c] = @ + 1]
          /\ toAgent' = Append(toAgent, [type |-> "cancel", res |-> Target[c],
                                         call |-> NextCall(c)])
    /\ UNCHANGED <<phase, rowVars, task, eventSet, up, toBackend, agentVars, faults>>

\* No answer within CANCEL_RPC_TIMEOUT_SECONDS: 503, the row stays active.
CancelRpcTimeout(c) ==
    /\ cancel[c] = "rpc"
    /\ MayTimeOut(LastCall(c))
    /\ cancel' = [cancel EXCEPT ![c] = "done"]
    /\ DiscardPendingKill(c)
    /\ UNCHANGED <<phase, rowVars, task, calls, eventSet, linkVars, agentVars, faults>>

\* event.wait returns.
CancelWake(c) ==
    /\ cancel[c] = "wait"
    /\ c \in eventSet
    /\ cancel' = [cancel EXCEPT ![c] = "commit"]
    /\ UNCHANGED <<phase, rowVars, task, calls, pendingKill, eventSet, linkVars,
                   agentVars, faults>>

\* Slip: a timed-out wait taken for a confirmation.
TimeoutConfirms(c) ==
    /\ cancel[c] = "wait"
    /\ cancel' = [cancel EXCEPT ![c] = "commit"]
    /\ UNCHANGED <<phase, rowVars, task, calls, pendingKill, eventSet, linkVars,
                   agentVars, faults>>

\* Slip: event.wait() without a timeout.
WaitsForEver(c) == FALSE /\ UNCHANGED vars

\* Slip: the timeout finds its wait through the registry.
TimesOutByEntry(c) ==
    /\ cancel[c] = "wait" /\ c \notin eventSet /\ pendingKill[Target[c]] = c
    /\ cancel' = [cancel EXCEPT ![c] = "done"]
    /\ DiscardPendingKill(c)
    /\ UNCHANGED <<phase, rowVars, task, calls, eventSet, linkVars, agentVars, faults>>

\* No script.finished within PENDING_KILL_TIMEOUT_SECONDS: 504, the row
\* stays active.
CancelWaitTimeout(c) ==
    /\ cancel[c] = "wait"
    /\ c \notin eventSet
    /\ cancel' = [cancel EXCEPT ![c] = "done"]
    /\ DiscardPendingKill(c)
    /\ UNCHANGED <<phase, rowVars, task, calls, eventSet, linkVars, agentVars, faults>>

\* Slip: no terminal guard after the wait.
CommitUnguarded(c) ==
    /\ cancel[c] \in {"plain", "commit"}
    /\ status' = [status EXCEPT ![Target[c]] = "cancelled"]
    /\ IF cancel[c] = "commit" THEN DiscardPendingKill(c) ELSE UNCHANGED pendingKill
    /\ cancel' = [cancel EXCEPT ![c] = "done"]
    /\ UNCHANGED <<phase, scriptStatus, marker, startedSeen, failures, task, calls,
                   eventSet, linkVars, agentVars, faults>>

\* cancel_reservation: a locking read, refused on a terminal row.
CancelCommit(c) ==
    /\ cancel[c] \in {"plain", "commit"}
    /\ status' = [status EXCEPT ![Target[c]] = IF @ \in Terminal THEN @ ELSE "cancelled"]
    /\ IF cancel[c] = "commit" THEN DiscardPendingKill(c) ELSE UNCHANGED pendingKill
    /\ cancel' = [cancel EXCEPT ![c] = "done"]
    /\ UNCHANGED <<phase, scriptStatus, marker, startedSeen, failures, task, calls,
                   eventSet, linkVars, agentVars, faults>>

\* cancel_group: all live rows of the group, or none when one of them has a
\* running script.
CancelGroup(g) ==
    LET rows == {r \in g : status[r] \notin Terminal}
    IN  /\ rows # {}
        /\ \A r \in rows : ~(status[r] = "active" /\ scriptStatus[r] = "running")
        /\ status' = [r \in Res |-> IF r \in rows THEN "cancelled" ELSE status[r]]
        /\ UNCHANGED <<phase, scriptStatus, marker, startedSeen, failures, task, calls,
                       cancelVars, linkVars, agentVars, faults>>

-----------------------------------------------------------------------------
(* Faults *)

Counted(kind) ==
    /\ faults[kind] < MaxFaults[kind]
    /\ faults' = [faults EXCEPT ![kind] = @ + 1]

\* The connection ends and what was in transit is lost.  (A frame that was
\* received before is one the other side has already handled.)
Disconnected == up' = FALSE /\ toAgent' = <<>> /\ toBackend' = <<>>

Drop ==
    /\ up
    /\ Counted("drop")
    /\ Disconnected
    /\ UNCHANGED <<phase, rowVars, task, calls, cancelVars, agentVars>>

Reconnect ==
    /\ ~up
    /\ up' = TRUE
    /\ UNCHANGED <<phase, rowVars, task, calls, cancelVars, toAgent, toBackend,
                   agentVars, faults>>

\* The agent process restarts: _running is gone, nothing is pushed.
AgentRestart ==
    /\ Counted("restart")
    /\ Disconnected
    /\ running' = [r \in Res |-> "none"]
    /\ UNCHANGED <<phase, rowVars, task, calls, cancelVars, execs>>

\* The backend process restarts: tasks, awaited calls, open requests and the
\* registry are gone, the database is not.
BackendCrash ==
    /\ Counted("crash")
    /\ Disconnected
    /\ task' = [r \in Res |-> "none"]
    /\ cancel' = [c \in Canceller |-> IF cancel[c] = "idle" THEN "idle" ELSE "done"]
    /\ pendingKill' = [r \in Res |-> None]
    /\ UNCHANGED <<phase, rowVars, calls, eventSet, agentVars>>

-----------------------------------------------------------------------------
Init ==
    /\ phase = [r \in Res |-> 0]
    /\ status = [r \in Res |-> "scheduled"]
    /\ scriptStatus = [r \in Res |-> "null"]
    /\ marker = [r \in Res |-> "null"]
    /\ startedSeen = [r \in Res |-> FALSE]
    /\ failures = [r \in Res |-> 0]
    /\ task = [r \in Res |-> "none"]
    /\ calls = [o \in Owner |-> 0]
    /\ cancel = [c \in Canceller |-> "idle"]
    /\ pendingKill = [r \in Res |-> None]
    /\ eventSet = {}
    /\ up = TRUE
    /\ toAgent = <<>>
    /\ toBackend = <<>>
    /\ running = [r \in Res |-> "none"]
    /\ execs = [r \in Res |-> 0]
    /\ faults = [k \in Fault |-> 0]

Scheduler(r) == AdvanceClock(r) \/ MarkerAges(r)
Dispatcher(r) == TaskSend(r) \/ DispatchTimeout(r) \/ SendRaises(r)
Runner(r) == PushFinished(r) \/ \E o \in ScriptDone : ProcessEnds(r, o)
Agent == AgentExecute \/ AgentCancel
ReceiveLoop == OnScriptStarted \/ OnScriptFinished \/ DeliverResponse
CancelStep(c) == \/ CancelSend(c) \/ CancelRpcTimeout(c) \/ CancelWake(c)
                 \/ CancelWaitTimeout(c) \/ CancelCommit(c)
Faults == Drop \/ AgentRestart \/ BackendCrash

Next ==
    \/ Tick \/ Agent \/ ReceiveLoop \/ Reconnect \/ Faults
    \/ \E r \in Res : Scheduler(r) \/ Dispatcher(r) \/ Runner(r)
    \/ \E c \in Canceller : CancelRead(c) \/ CancelStep(c)
    \/ \E g \in Groups : CancelGroup(g)

Spec == Init /\ [][Next]_vars

(***************************************************************************)
(* Fairness: the tick is an interval job, asyncio runs every ready task    *)
(* and every timer, the agent pumps its frames, a signalled process ends   *)
(* (SIGKILL follows SIGTERM).  Nothing is assumed of users, of the length  *)
(* of a reservation, of scripts left alone, or of the network.             *)
(***************************************************************************)
Fairness ==
    /\ WF_vars(Tick) /\ WF_vars(Agent) /\ WF_vars(ReceiveLoop)
    /\ \A r \in Res : /\ WF_vars(MarkerAges(r))
                      /\ WF_vars(TaskSend(r)) /\ WF_vars(DispatchTimeout(r))
                      /\ WF_vars(PushFinished(r))
                      /\ WF_vars(running[r] = "killing" /\ ProcessEnds(r, "killed"))
    /\ \A c \in Canceller : WF_vars(CancelStep(c))

FairSpec == Spec /\ Fairness

-----------------------------------------------------------------------------
(* Properties *)

\* Every variable keeps its shape: statuses and outcomes come from the
\* enumerations of the models, frames are the three kinds of the protocol.
TypeOK ==
    /\ phase \in [Res -> 0..3]
    /\ status \in [Res -> {"scheduled", "active"} \cup Terminal]
    /\ scriptStatus \in [Res -> {"null", "running"} \cup ScriptDone]
    /\ marker \in [Res -> {"null", "fresh", "stale"}]
    /\ startedSeen \in [Res -> BOOLEAN]
    /\ failures \in [Res -> Nat]
    /\ task \in [Res -> {"none", "queued", "sent"}]
    /\ calls \in [Owner -> Nat]
    /\ cancel \in [Canceller -> CancelPc]
    /\ pendingKill \in [Res -> Canceller \cup {None}]
    /\ eventSet \subseteq Canceller
    /\ up \in BOOLEAN
    /\ toAgent \in Seq(Request)
    /\ toBackend \in Seq(Push \cup Reply)
    /\ running \in [Res -> {"none", "running", "killing"} \cup ScriptDone]
    /\ execs \in [Res -> Nat]
    /\ faults \in [Fault -> Nat]

\* Whatever is lost, delayed or crashes, the rows move only along the state
\* machines of reservation_service and their joint rules: a late started or
\* finished push, a tick or a cancel never revives a row or a script, and
\* never fires a script on a row that is not active.
Lifecycle == INSTANCE ReservationLifecycle WITH
                 Res <- Res, status <- status, scriptStatus <- scriptStatus
FollowsLifecycle == Lifecycle!LifecycleSpec

\* The watchdog's chain ends: a script is sent at most MaxAttempts times,
\* plus once for each attempt whose failure could not be recorded (the
\* backend crashed, or send_text raised).
SendBound ==
    \A r \in Res : calls[r] <= MaxAttempts + faults["crash"] + faults["send"]

\* A cancel that stopped the script first commits only once the row shows
\* that script as over: the wake-up is never ahead of the outcome.
KillConfirmed ==
    \A c \in Canceller :
        cancel[c] = "commit" => scriptStatus[Target[c]] \in ScriptDone

\* An execution of r's script is possible or under way at the agent.
AtAgent(r) ==
    \/ running[r] \in {"running", "killing"}
    \/ \E i \in 1..Len(toAgent) : toAgent[i].type = "execute" /\ toAgent[i].res = r

\* (No message is lost or slow.)  The scheduler, its watchdog and the agent
\* together run a script at most once, however often the agent refuses it.
AtMostOnceExecution == \A r \in Res : execs[r] <= 1

\* (No message is lost or slow.)  When the platform has made up its mind that
\* a script is over (its outcome is recorded, the watchdog gave it up, or a
\* cancel is about to commit on the kill path), the agent neither runs it nor
\* is about to.
OverMeansIdle ==
    \A r \in Res :
        \/ scriptStatus[r] \in ScriptDone
        \/ status[r] = "failed"
        \/ \E c \in Canceller : Target[c] = r /\ cancel[c] = "commit"
        => ~AtAgent(r) /\ task[r] = "none"

\* A dispatch does not stay in flight for ever: the script starts, ends, or
\* the watchdog gives it up, even if the agent never comes back.
DispatchResolves ==
    \A r \in Res :
        marker[r] # "null" ~>
            marker[r] = "null" \/ scriptStatus[r] # "running" \/ status[r] \in Terminal

\* Every cancel request is answered: when another cancel of the same reservation
\* has taken its registry entry, so that the event it waits for is never set
\* (_pending_script_finished), and when the connection drops for good, the agent
\* restarts or the backend crashes under it.
CancelSettles == \A c \in Canceller : cancel[c] # "idle" ~> cancel[c] = "done"
=============================================================================
