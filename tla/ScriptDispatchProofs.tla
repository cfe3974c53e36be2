------------------------ MODULE ScriptDispatchProofs ------------------------
(***************************************************************************)
(* Proofs about ScriptDispatch, for any number of reservations, cancels,   *)
(* attempts and faults.  Whatever goes wrong, the rows follow              *)
(* ReservationLifecycle, a cancel on the kill path commits only after the  *)
(* outcome of the script is in the row, and no script is sent more often   *)
(* than the watchdog allows.  All three rest on one fact: nothing about a  *)
(* script is under way, in a task, in a frame or at the agent, before the  *)
(* tick that fires it has committed.                                       *)
(*                                                                         *)
(* While nothing goes wrong (Reliable), a script runs at most once and is  *)
(* idle when its row says it is over.  That rests on where a script is: in *)
(* one task, in one frame of one queue, or at the agent, with everything   *)
(* that is said about its end behind everything said about its start.      *)
(***************************************************************************)
EXTENDS ScriptDispatch, SequenceTheorems, TLAPS

Fired(r) == scriptStatus[r] # "null"

\* A task, a process or a frame about a script exists only once it was fired.
FiredFirst ==
    /\ \A r \in Res : status[r] = "scheduled" => ~Fired(r)
    /\ \A r \in Res : task[r] # "none" \/ running[r] # "none" => Fired(r)
    /\ \A i \in 1..Len(toAgent) :
           toAgent[i].type = "execute" => Fired(toAgent[i].res)
    /\ \A i \in 1..Len(toBackend) :
           toBackend[i].type \in {"started", "finished"} => Fired(toBackend[i].res)

\* The registry: an entry belongs to a cancel of that reservation, an event
\* is set only when the script's outcome is recorded, and only a set event
\* lets the kill path go on.
KillRegistry ==
    /\ \A r \in Res : pendingKill[r] # None => Target[pendingKill[r]] = r
    /\ \A c \in eventSet : scriptStatus[Target[c]] \in ScriptDone
    /\ \A c \in Canceller : cancel[c] = "commit" => c \in eventSet

DispatchInv == TypeOK /\ FiredFirst /\ KillRegistry

-----------------------------------------------------------------------------
\* Taking the first frame off a queue.
LEMMA TailFrames ==
    ASSUME NEW S, NEW q \in Seq(S), q # <<>>
    PROVE  /\ Head(q) \in S /\ Head(q) = q[1] /\ 1 \in 1..Len(q)
           /\ Tail(q) \in Seq(S)
           /\ \A i \in 1..Len(Tail(q)) : i + 1 \in 1..Len(q) /\ Tail(q)[i] = q[i + 1]
  OBVIOUS

\* Adding frames at the end of a queue: each frame is an old or a new one.
LEMMA ConcatFrames ==
    ASSUME NEW S, NEW q \in Seq(S), NEW p \in Seq(S)
    PROVE  /\ q \o p \in Seq(S)
           /\ \A i \in 1..Len(q \o p) :
                  \/ i \in 1..Len(q) /\ (q \o p)[i] = q[i]
                  \/ \E j \in 1..Len(p) : (q \o p)[i] = p[j]
<1>1. q \o p \in Seq(S) /\ Len(q \o p) = Len(q) + Len(p)
  BY ConcatProperties
<1>2. ASSUME NEW i \in 1..Len(q \o p)
      PROVE  \/ i \in 1..Len(q) /\ (q \o p)[i] = q[i]
             \/ \E j \in 1..Len(p) : (q \o p)[i] = p[j]
  <2>1. CASE i <= Len(q)
    BY <1>1, <2>1
  <2>2. CASE i > Len(q)
    <3>1. i - Len(q) \in 1..Len(p) /\ (q \o p)[i] = p[i - Len(q)]
      BY <1>1, <2>2
    <3> QED BY <3>1
  <2> QED BY <1>1, <2>1, <2>2
<1> QED BY <1>1, <1>2

\* The same for one frame.
LEMMA AppendFrame ==
    ASSUME NEW S, NEW q \in Seq(S), NEW m \in S
    PROVE  /\ Append(q, m) \in Seq(S)
           /\ \A i \in 1..Len(Append(q, m)) :
                  \/ i \in 1..Len(q) /\ Append(q, m)[i] = q[i]
                  \/ Append(q, m)[i] = m
  OBVIOUS

\* Sequences of one and of two elements.
LEMMA ShortSequences ==
    ASSUME NEW S, NEW a \in S, NEW b \in S
    PROVE  <<a>> \in Seq(S) /\ <<a, b>> \in Seq(S)
  OBVIOUS

-----------------------------------------------------------------------------
(* Type correctness, one action at a time.                                 *)

\* The steps of the clock, the tick and the dispatch tasks.
LEMMA SchedulerTypes ==
    ASSUME TypeOK,
           Tick \/ \E r \in Res : Scheduler(r) \/ Dispatcher(r)
    PROVE  TypeOK'
<1> USE ResAssumption, LimitAssumption
<1>1. CASE Tick
  BY <1>1 DEF TypeOK, Tick, ClosingStatus, Terminal, cancelVars, linkVars, agentVars
<1>2. ASSUME NEW r \in Res, AdvanceClock(r) PROVE TypeOK'
  <2>1. phase' \in [Res -> 0..3]
    <3>1. PICK p \in (phase[r] + 1)..3 : phase' = [phase EXCEPT ![r] = p]
      BY <1>2 DEF AdvanceClock
    <3>2. phase[r] \in 0..3 /\ phase \in [Res -> 0..3]
      BY DEF TypeOK
    <3>3. p \in 0..3
      BY <3>2
    <3> QED BY <3>1, <3>2, <3>3
  <2> QED BY <1>2, <2>1 DEF TypeOK, AdvanceClock, rowVars, cancelVars, linkVars, agentVars
<1>3. ASSUME NEW r \in Res, MarkerAges(r) PROVE TypeOK'
  BY <1>3 DEF TypeOK, MarkerAges, cancelVars, linkVars, agentVars
<1>4. ASSUME NEW r \in Res, TaskSend(r) PROVE TypeOK'
  <2>1. r \in Owner /\ calls[r] + 1 \in Nat /\ failures[r] + 1 \in Nat
    BY DEF TypeOK, Owner
  <2>2. [type |-> "execute", res |-> r, call |-> NextCall(r)] \in Request
    BY <2>1 DEF Request, Call, NextCall
  <2>3. toAgent' \in Seq(Request)
    <3>1. Append(toAgent, [type |-> "execute", res |-> r, call |-> NextCall(r)]) \in Seq(Request)
      BY <2>2, AppendFrame DEF TypeOK
    <3> QED BY <1>4, <3>1 DEF TypeOK, TaskSend
  <2>4. calls' \in [Owner -> Nat]
    <3>1. calls' = [calls EXCEPT ![r] = calls[r] + 1] /\ calls \in [Owner -> Nat]
      BY <1>4 DEF TypeOK, TaskSend
    <3> QED BY <2>1, <3>1
  <2>6. failures' \in [Res -> Nat]
    <3>1. /\ failures' = failures \/ failures' = [failures EXCEPT ![r] = failures[r] + 1]
          /\ failures \in [Res -> Nat]
      BY <1>4 DEF TypeOK, TaskSend, RecordAttemptFailed
    <3> QED BY <2>1, <3>1
  <2>5. task' \in [Res -> {"none", "queued", "sent"}]
    <3>1. task' = [task EXCEPT ![r] = "none"] \/ task' = [task EXCEPT ![r] = "sent"]
      BY <1>4 DEF TaskSend
    <3>2. task \in [Res -> {"none", "queued", "sent"}]
      BY DEF TypeOK
    <3>3. CASE task' = [task EXCEPT ![r] = "none"]
      BY ONLY <3>2, <3>3
    <3>4. CASE task' = [task EXCEPT ![r] = "sent"]
      BY ONLY <3>2, <3>4
    <3> QED BY <3>1, <3>3, <3>4
  <2> QED BY <1>4, <2>3, <2>4, <2>5, <2>6 DEF TypeOK, TaskSend, cancelVars, agentVars
<1>5. ASSUME NEW r \in Res, DispatchTimeout(r) PROVE TypeOK'
  BY <1>5 DEF TypeOK, DispatchTimeout, RecordAttemptFailed, cancelVars, linkVars, agentVars
<1>6. ASSUME NEW r \in Res, SendRaises(r) PROVE TypeOK'
  <2>1. calls' = [calls EXCEPT ![r] = calls[r] + 1] /\ calls \in [Owner -> Nat]
    BY <1>6 DEF TypeOK, SendRaises
  <2>2. r \in Owner
    BY DEF Owner
  <2>3. calls' \in [Owner -> Nat]
    BY <2>1, <2>2
  <2>4. faults' \in [Fault -> Nat] /\ task' \in [Res -> {"none", "queued", "sent"}]
    BY <1>6 DEF TypeOK, SendRaises, Fault
  <2> QED BY <1>6, <2>3, <2>4 DEF TypeOK, SendRaises, rowVars, cancelVars, linkVars, agentVars
<1> QED BY <1>1, <1>2, <1>3, <1>4, <1>5, <1>6 DEF Scheduler, Dispatcher

\* Frames the agent sends are of the protocol.
LEMMA PushedFrames ==
    ASSUME TypeOK, NEW p \in Seq(Push \cup Reply), PushFrames(p)
    PROVE  toBackend' \in Seq(Push \cup Reply)
  BY ConcatFrames DEF TypeOK, PushFrames

\* The steps of the agent.
LEMMA AgentTypes ==
    ASSUME TypeOK, Agent \/ \E r \in Res : Runner(r)
    PROVE  TypeOK'
<1>1. CASE Agent
  <2> DEFINE m == Head(toAgent)
  <2>1. m \in Request /\ Tail(toAgent) \in Seq(Request)
    BY <1>1, TailFrames DEF TypeOK, Agent, AgentExecute, AgentCancel
  <2>2. m.res \in Res /\ m.call \in Call
    BY <2>1 DEF Request
  <2>3. ReplyTo(m, TRUE) \in Reply /\ ReplyTo(m, FALSE) \in Reply
    BY <2>2 DEF ReplyTo, Reply
  <2>4. [type |-> "started", res |-> m.res] \in Push
    BY <2>2 DEF Push
  <2> HIDE DEF m
  <2>5. /\ <<ReplyTo(m, TRUE)>> \in Seq(Push \cup Reply)
        /\ <<ReplyTo(m, FALSE)>> \in Seq(Push \cup Reply)
        /\ <<[type |-> "started", res |-> m.res], ReplyTo(m, TRUE)>> \in Seq(Push \cup Reply)
    <3> DEFINE F == Push \cup Reply
    <3>1. /\ ReplyTo(m, TRUE) \in F /\ ReplyTo(m, FALSE) \in F
          /\ [type |-> "started", res |-> m.res] \in F
      BY <2>3, <2>4
    <3> HIDE DEF F
    <3>2. /\ <<ReplyTo(m, TRUE)>> \in Seq(F) /\ <<ReplyTo(m, FALSE)>> \in Seq(F)
          /\ <<[type |-> "started", res |-> m.res], ReplyTo(m, TRUE)>> \in Seq(F)
      BY <3>1, ShortSequences
    <3> QED BY <3>2 DEF F
  <2>6. CASE AgentExecute
    <3>1. toBackend' \in Seq(Push \cup Reply)
      BY <2>5, <2>6, PushedFrames DEF AgentExecute, m
    <3>2. /\ running' \in [Res -> {"none", "running", "killing"} \cup ScriptDone]
          /\ execs' \in [Res -> Nat]
      <4>1. CASE UNCHANGED agentVars
        BY <4>1 DEF TypeOK, agentVars
      <4>2. CASE /\ running' = [running EXCEPT ![m.res] = "running"]
                 /\ execs' = [execs EXCEPT ![m.res] = execs[m.res] + 1]
        BY <2>2, <4>2 DEF TypeOK
      <4> QED BY <2>6, <4>1, <4>2 DEF AgentExecute, m
    <3> QED BY <2>1, <2>6, <3>1, <3>2 DEF TypeOK, AgentExecute, rowVars, cancelVars, m
  <2>7. CASE AgentCancel
    <3>1. toBackend' \in Seq(Push \cup Reply)
      BY <2>5, <2>7, PushedFrames DEF AgentCancel, m
    <3>2. running' \in [Res -> {"none", "running", "killing"} \cup ScriptDone]
      BY <2>2, <2>7 DEF AgentCancel, TypeOK, m
    <3> QED BY <2>1, <2>7, <3>1, <3>2 DEF TypeOK, AgentCancel, rowVars, cancelVars, m
  <2> QED BY <1>1, <2>6, <2>7 DEF Agent
<1>2. ASSUME NEW r \in Res, PushFinished(r) PROVE TypeOK'
  <2>1. [type |-> "finished", res |-> r, outcome |-> running[r]] \in Push
    BY <1>2 DEF PushFinished, Push
  <2>2. <<[type |-> "finished", res |-> r, outcome |-> running[r]]>> \in Seq(Push \cup Reply)
    BY <2>1
  <2>3. toBackend' \in Seq(Push \cup Reply)
    BY <1>2, <2>2, PushedFrames DEF PushFinished
  <2> QED BY <1>2, <2>3 DEF TypeOK, PushFinished, rowVars, cancelVars
<1>3. ASSUME NEW r \in Res, NEW o \in ScriptDone, ProcessEnds(r, o) PROVE TypeOK'
  BY <1>3 DEF TypeOK, ProcessEnds, rowVars, cancelVars, linkVars
<1> QED BY <1>1, <1>2, <1>3 DEF Runner

\* The head of the backend's queue and what is left of it.
LEMMA ReceivedFrame ==
    ASSUME TypeOK, NEW type, Receive(type)
    PROVE  /\ Head(toBackend) \in Push \cup Reply
           /\ Head(toBackend) = toBackend[1] /\ 1 \in 1..Len(toBackend)
           /\ toBackend' \in Seq(Push \cup Reply)
           /\ \A i \in 1..Len(toBackend') :
                  i + 1 \in 1..Len(toBackend) /\ toBackend'[i] = toBackend[i + 1]
  BY TailFrames DEF TypeOK, Receive

\* The steps of the backend's receive loop.
LEMMA ReceiveTypes ==
    ASSUME TypeOK, ReceiveLoop
    PROVE  TypeOK'
<1>1. CASE OnScriptStarted
  <2>1. Receive("started") /\ Head(toBackend).type = "started"
    BY <1>1 DEF OnScriptStarted, Receive
  <2>2. Head(toBackend).res \in Res /\ toBackend' \in Seq(Push \cup Reply)
    BY <2>1, ReceivedFrame DEF Push, Reply
  <2> QED BY <1>1, <2>2 DEF TypeOK, OnScriptStarted, Receive, cancelVars, agentVars
<1>2. CASE OnScriptFinished
  <2>1. Receive("finished") /\ Head(toBackend).type = "finished"
    BY <1>2 DEF OnScriptFinished, Receive
  <2>2. /\ Head(toBackend).res \in Res /\ Head(toBackend).outcome \in ScriptDone
        /\ toBackend' \in Seq(Push \cup Reply)
    BY <2>1, ReceivedFrame DEF Push, Reply
  <2>3. eventSet' \subseteq Canceller
    BY <1>2, <2>2 DEF TypeOK, OnScriptFinished, SignalLifecycleKill
  <2> QED BY <1>2, <2>2, <2>3 DEF TypeOK, OnScriptFinished, Receive, agentVars
<1>3. CASE DeliverResponse
  <2>1. toBackend' \in Seq(Push \cup Reply)
    BY <1>3, ReceivedFrame DEF DeliverResponse
  <2>2. failures' \in [Res -> Nat]
    BY <1>3 DEF TypeOK, DeliverResponse
  <2>3. cancel' \in [Canceller -> CancelPc]
    BY <1>3 DEF TypeOK, DeliverResponse, CancelPc, Waiting
  <2> QED BY <1>3, <2>1, <2>2, <2>3 DEF TypeOK, DeliverResponse, Receive, agentVars
<1> QED BY <1>1, <1>2, <1>3 DEF ReceiveLoop

\* The steps of the cancel requests.
LEMMA CancelTypes ==
    ASSUME TypeOK,
           \/ \E c \in Canceller : CancelRead(c) \/ CancelStep(c)
           \/ \E g \in Groups : CancelGroup(g)
    PROVE  TypeOK'
<1> USE ResAssumption
<1>1. ASSUME NEW c \in Canceller, CancelRead(c) PROVE TypeOK'
  BY <1>1 DEF TypeOK, CancelRead, CancelPc, rowVars, linkVars, agentVars
<1>2. ASSUME NEW c \in Canceller, CancelSend(c) PROVE TypeOK'
  <2>1. c \in Owner /\ calls[c] + 1 \in Nat /\ Target[c] \in Res
    BY DEF TypeOK, Owner
  <2>2. [type |-> "cancel", res |-> Target[c], call |-> NextCall(c)] \in Request
    BY <2>1 DEF Request, Call, NextCall
  <2>3. toAgent' \in Seq(Request)
    <3>1. Append(toAgent, [type |-> "cancel", res |-> Target[c], call |-> NextCall(c)])
            \in Seq(Request)
      BY <2>2, AppendFrame DEF TypeOK
    <3> QED BY <1>2, <3>1 DEF TypeOK, CancelSend
  <2>4. calls' \in [Owner -> Nat]
    <3>1. /\ calls' = calls \/ calls' = [calls EXCEPT ![c] = calls[c] + 1]
          /\ calls \in [Owner -> Nat]
      BY <1>2 DEF TypeOK, CancelSend
    <3> QED BY <2>1, <3>1
  <2>5. cancel' \in [Canceller -> CancelPc]
    <3>1. cancel' = [cancel EXCEPT ![c] = "done"] \/ cancel' = [cancel EXCEPT ![c] = "rpc"]
      BY <1>2 DEF CancelSend
    <3>2. cancel \in [Canceller -> CancelPc] /\ "done" \in CancelPc /\ "rpc" \in CancelPc
      BY DEF TypeOK, CancelPc, Waiting
    <3>3. CASE cancel' = [cancel EXCEPT ![c] = "done"]
      BY ONLY <3>2, <3>3
    <3>4. CASE cancel' = [cancel EXCEPT ![c] = "rpc"]
      BY ONLY <3>2, <3>4
    <3> QED BY <3>1, <3>3, <3>4
  <2>6. pendingKill' \in [Res -> Canceller \cup {None}]
    <3>1. CASE pendingKill' = [pendingKill EXCEPT ![Target[c]] = None]
      BY <2>1, <3>1 DEF TypeOK
    <3>2. CASE pendingKill' = [pendingKill EXCEPT ![Target[c]] = c]
      BY <2>1, <3>2 DEF TypeOK
    <3> QED BY <1>2, <3>1, <3>2 DEF CancelSend, DiscardPendingKill
  <2> QED BY <1>2, <2>3, <2>4, <2>5, <2>6 DEF TypeOK, CancelSend, rowVars, agentVars
<1>3. ASSUME NEW c \in Canceller,
             CancelRpcTimeout(c) \/ CancelWake(c) \/ CancelWaitTimeout(c)
      PROVE  TypeOK'
  <2>1. pendingKill' = pendingKill \/ pendingKill' = [pendingKill EXCEPT ![Target[c]] = None]
    BY <1>3 DEF CancelRpcTimeout, CancelWake, CancelWaitTimeout, DiscardPendingKill
  <2>2. pendingKill' \in [Res -> Canceller \cup {None}]
    BY <2>1 DEF TypeOK
  <2>3. \E pc \in CancelPc : cancel' = [cancel EXCEPT ![c] = pc]
    BY <1>3 DEF CancelRpcTimeout, CancelWake, CancelWaitTimeout, CancelPc
  <2>4. cancel' \in [Canceller -> CancelPc]
    BY <2>3 DEF TypeOK
  <2>5. UNCHANGED <<phase, rowVars, task, calls, eventSet, linkVars, agentVars, faults>>
    BY <1>3 DEF CancelRpcTimeout, CancelWake, CancelWaitTimeout
  <2> QED BY <2>2, <2>4, <2>5 DEF TypeOK, rowVars, linkVars, agentVars
<1>4. ASSUME NEW c \in Canceller, CancelCommit(c) PROVE TypeOK'
  <2>1. status' \in [Res -> {"scheduled", "active"} \cup Terminal]
    BY <1>4 DEF TypeOK, CancelCommit, Terminal
  <2>2. pendingKill' = pendingKill \/ pendingKill' = [pendingKill EXCEPT ![Target[c]] = None]
    BY <1>4 DEF CancelCommit, DiscardPendingKill
  <2>3. pendingKill' \in [Res -> Canceller \cup {None}]
    BY <2>2 DEF TypeOK
  <2>4. cancel' \in [Canceller -> CancelPc]
    BY <1>4 DEF TypeOK, CancelCommit, CancelPc
  <2>5. UNCHANGED <<phase, scriptStatus, marker, startedSeen, failures, task, calls,
                    eventSet, linkVars, agentVars, faults>>
    BY <1>4 DEF CancelCommit
  <2> QED BY <2>1, <2>3, <2>4, <2>5 DEF TypeOK, linkVars, agentVars
<1>5. ASSUME NEW g \in Groups, CancelGroup(g) PROVE TypeOK'
  BY <1>5 DEF TypeOK, CancelGroup, Terminal, cancelVars, linkVars, agentVars
<1> QED BY <1>1, <1>2, <1>3, <1>4, <1>5 DEF CancelStep

\* Faults and reconnections.
LEMMA FaultTypes ==
    ASSUME TypeOK, Faults \/ Reconnect
    PROVE  TypeOK'
<1>1. CASE Faults
  <2>1. faults' \in [Fault -> Nat]
    BY <1>1 DEF TypeOK, Faults, Drop, AgentRestart, BackendCrash, Counted
  <2>2. up' \in BOOLEAN /\ toAgent' \in Seq(Request) /\ toBackend' \in Seq(Push \cup Reply)
    <3>1. up' = FALSE /\ toAgent' = <<>> /\ toBackend' = <<>>
      BY <1>1 DEF Faults, Drop, AgentRestart, BackendCrash, Disconnected
    <3>2. \A S : <<>> \in Seq(S)
      OBVIOUS
    <3> QED BY <3>1, <3>2
  <2>3. CASE Drop
    BY <2>1, <2>2, <2>3 DEF TypeOK, Drop, rowVars, cancelVars, agentVars
  <2>4. CASE AgentRestart
    BY <2>1, <2>2, <2>4 DEF TypeOK, AgentRestart, rowVars, cancelVars
  <2>5. CASE BackendCrash
    BY <2>1, <2>2, <2>5 DEF TypeOK, BackendCrash, CancelPc, rowVars, agentVars
  <2> QED BY <1>1, <2>3, <2>4, <2>5 DEF Faults
<1>2. CASE Reconnect
  BY <1>2 DEF TypeOK, Reconnect, rowVars, cancelVars, agentVars
<1> QED BY <1>1, <1>2

\* Every step keeps the types.
LEMMA DispatchTypeStep ==
    ASSUME TypeOK, [Next]_vars
    PROVE  TypeOK'
<1>1. CASE Next
  BY <1>1, SchedulerTypes, AgentTypes, ReceiveTypes, CancelTypes, FaultTypes DEF Next
<1>2. CASE UNCHANGED vars
  BY <1>2 DEF TypeOK, vars
<1> QED BY <1>1, <1>2

-----------------------------------------------------------------------------
(* Nothing about a script is under way before it is fired.                 *)

\* The actions that leave script_status alone.
LEMMA ScriptUntouched ==
    ASSUME Next
    PROVE  scriptStatus' = scriptStatus \/ Tick \/ OnScriptStarted \/ OnScriptFinished
<1>1. ASSUME NEW r \in Res, Scheduler(r) \/ Dispatcher(r) \/ Runner(r)
      PROVE  scriptStatus' = scriptStatus
  BY <1>1 DEF Scheduler, Dispatcher, Runner, AdvanceClock, MarkerAges, TaskSend,
              DispatchTimeout, SendRaises, PushFinished, ProcessEnds, rowVars
<1>2. ASSUME NEW c \in Canceller, CancelRead(c) \/ CancelStep(c)
      PROVE  scriptStatus' = scriptStatus
  BY <1>2 DEF CancelStep, CancelRead, CancelSend, CancelRpcTimeout, CancelWake,
              CancelWaitTimeout, CancelCommit, rowVars
<1>3. ASSUME NEW g \in Groups, CancelGroup(g) PROVE scriptStatus' = scriptStatus
  BY <1>3 DEF CancelGroup
<1>4. CASE Agent \/ Reconnect \/ Faults \/ DeliverResponse
  BY <1>4 DEF Agent, AgentExecute, AgentCancel, Reconnect, Faults, Drop, AgentRestart,
              BackendCrash, DeliverResponse, rowVars
<1> QED BY <1>1, <1>2, <1>3, <1>4 DEF Next, ReceiveLoop

\* How script_status moves: by the tick that fires the script, and by the
\* first finished event; a started event finds it fired already.
LEMMA ScriptSteps ==
    ASSUME TypeOK, FiredFirst, [Next]_vars, NEW r \in Res
    PROVE  \/ scriptStatus'[r] = scriptStatus[r]
           \/ Tick /\ Dispatches(r) /\ scriptStatus'[r] = "running"
           \/ /\ OnScriptFinished
              /\ scriptStatus[r] = "running" /\ scriptStatus'[r] \in ScriptDone
<1>1. CASE Tick
  BY <1>1 DEF Tick
<1>2. CASE OnScriptStarted
  <2>1. Receive("started") /\ Head(toBackend).type = "started"
    BY <1>2 DEF OnScriptStarted, Receive
  <2>2. Head(toBackend).res \in Res /\ Fired(Head(toBackend).res)
    BY <2>1, ReceivedFrame DEF FiredFirst, Push, Reply
  <2> QED BY <1>2, <2>2 DEF OnScriptStarted, TypeOK, Fired
<1>3. CASE OnScriptFinished
  <2>1. Receive("finished") /\ Head(toBackend).type = "finished"
    BY <1>3 DEF OnScriptFinished, Receive
  <2>2. Head(toBackend).res \in Res /\ Head(toBackend).outcome \in ScriptDone
    BY <2>1, ReceivedFrame DEF Push, Reply
  <2> QED BY <1>3, <2>2 DEF OnScriptFinished, TypeOK
<1>4. CASE scriptStatus' = scriptStatus
  BY <1>4
<1>5. CASE UNCHANGED vars
  BY <1>5 DEF vars
<1> QED BY <1>1, <1>2, <1>3, <1>4, <1>5, ScriptUntouched

\* A script that was fired stays fired, and one that is over stays over.
LEMMA FiredForGood ==
    ASSUME TypeOK, FiredFirst, [Next]_vars, NEW r \in Res
    PROVE  /\ Fired(r) => Fired(r)'
           /\ scriptStatus[r] \in ScriptDone => scriptStatus'[r] = scriptStatus[r]
<1>1. Dispatches(r) => scriptStatus[r] = "null"
  BY DEF Dispatches
<1> QED BY <1>1, ScriptSteps DEF Fired, ScriptDone

\* How status moves, whatever script_status does.
LEMMA StatusSteps ==
    ASSUME TypeOK, [Next]_vars, NEW r \in Res
    PROVE  \/ status'[r] = status[r] /\ ~(Tick /\ Dispatches(r))
           \/ /\ Tick
              /\ \/ Closes(r) /\ status'[r] = ClosingStatus(r)
                 \/ GivesUp(r) /\ ~Closes(r) /\ status'[r] = "failed"
                 \/ NowActive(r) /\ ~Closes(r) /\ ~GivesUp(r) /\ status'[r] = "active"
           \/ /\ scriptStatus' = scriptStatus
              /\ status[r] \notin Terminal /\ status'[r] = "cancelled"
<1>1. CASE Tick
  <2>1. status'[r] = IF Closes(r) THEN ClosingStatus(r)
                     ELSE IF GivesUp(r) THEN "failed"
                     ELSE IF Promotes(r) THEN "active" ELSE status[r]
    BY <1>1 DEF Tick
  <2>2. Dispatches(r) => NowActive(r) /\ ~Closes(r)
    BY DEF Dispatches
  <2>3. NowActive(r) /\ ~Promotes(r) => status[r] = "active"
    BY DEF NowActive
  <2>4. Promotes(r) => NowActive(r)
    BY DEF NowActive
  <2> QED BY <1>1, <2>1, <2>2, <2>3, <2>4
<1>2. ASSUME NEW c \in Canceller, CancelCommit(c)
      PROVE  /\ scriptStatus' = scriptStatus
             /\ \/ status'[r] = status[r]
                \/ status[r] \notin Terminal /\ status'[r] = "cancelled"
  BY <1>2, ResAssumption DEF CancelCommit, TypeOK
<1>3. ASSUME NEW g \in Groups, CancelGroup(g)
      PROVE  /\ scriptStatus' = scriptStatus
             /\ \/ status'[r] = status[r]
                \/ status[r] \notin Terminal /\ status'[r] = "cancelled"
  BY <1>3 DEF CancelGroup, TypeOK
<1>4. ASSUME NEW q \in Res, Scheduler(q) \/ Dispatcher(q) \/ Runner(q)
      PROVE  status' = status
  BY <1>4 DEF Scheduler, Dispatcher, Runner, AdvanceClock, MarkerAges, TaskSend,
              DispatchTimeout, SendRaises, PushFinished, ProcessEnds, rowVars
<1>5. ASSUME NEW c \in Canceller, CancelRead(c) \/ CancelStep(c), ~CancelCommit(c)
      PROVE  status' = status
  BY <1>5 DEF CancelStep, CancelRead, CancelSend, CancelRpcTimeout, CancelWake,
              CancelWaitTimeout, rowVars
<1>6. ASSUME Agent \/ ReceiveLoop \/ Reconnect \/ Faults PROVE status' = status
  BY <1>6 DEF Agent, AgentExecute, AgentCancel, ReceiveLoop, OnScriptStarted,
              OnScriptFinished, DeliverResponse, Reconnect, Faults, Drop, AgentRestart,
              BackendCrash, rowVars
<1>7. ASSUME UNCHANGED vars PROVE status' = status
  BY <1>7 DEF vars
<1>8. \/ Tick
      \/ status' = status
      \/ \E c \in Canceller : CancelCommit(c)
      \/ \E g \in Groups : CancelGroup(g)
  BY <1>4, <1>5, <1>6, <1>7 DEF Next
<1> QED BY <1>1, <1>2, <1>3, <1>8

\* A task is started only for a script the same tick finds or makes fired.
LEMMA TasksFired ==
    ASSUME TypeOK, FiredFirst, [Next]_vars, NEW r \in Res, task'[r] # "none"
    PROVE  Fired(r)'
<1>1. CASE Tick
  <2>1. CASE Dispatches(r)
    BY <1>1, <2>1 DEF Tick, Fired
  <2>2. CASE Retries(r)
    <3>1. Fired(r)
      BY <2>2 DEF Retries, Stuck, Fired
    <3> QED BY <3>1, FiredForGood
  <2>3. CASE ~Dispatches(r) /\ ~Retries(r)
    <3>1. task'[r] = task[r]
      BY <1>1, <2>3 DEF Tick
    <3> QED BY <3>1, FiredForGood DEF FiredFirst
  <2> QED BY <2>1, <2>2, <2>3
<1>2. CASE task[r] # "none"
  BY <1>2, FiredForGood DEF FiredFirst
<1>3. ASSUME ~Tick, task[r] = "none" PROVE task'[r] = "none"
  <2>1. ASSUME NEW q \in Res, Scheduler(q) \/ Dispatcher(q) \/ Runner(q)
        PROVE  task'[r] = "none"
    BY <1>3, <2>1 DEF Scheduler, Dispatcher, Runner, AdvanceClock, MarkerAges, TaskSend,
              DispatchTimeout, SendRaises, PushFinished, ProcessEnds, TypeOK
  <2>2. ASSUME NEW c \in Canceller, CancelRead(c) \/ CancelStep(c) PROVE task' = task
    BY <2>2 DEF CancelStep, CancelRead, CancelSend, CancelRpcTimeout, CancelWake,
              CancelWaitTimeout, CancelCommit
  <2>3. ASSUME NEW g \in Groups, CancelGroup(g) PROVE task' = task
    BY <2>3 DEF CancelGroup
  <2>4. ASSUME Agent \/ ReceiveLoop \/ Reconnect \/ Faults PROVE task'[r] = "none"
    BY <1>3, <2>4 DEF Agent, AgentExecute, AgentCancel, ReceiveLoop, OnScriptStarted,
              OnScriptFinished, DeliverResponse, Reconnect, Faults, Drop, AgentRestart,
              BackendCrash
  <2>5. ASSUME UNCHANGED vars PROVE task' = task
    BY <2>5 DEF vars
  <2> QED BY <1>3, <2>1, <2>2, <2>3, <2>4, <2>5 DEF Next
<1> QED BY <1>1, <1>2, <1>3

\* Who starts a process, sends a frame to the agent, or sends one back.
LEMMA AgentUntouched ==
    ASSUME [Next]_vars
    PROVE  /\ running' = running \/ Agent \/ AgentRestart \/ \E r \in Res : Runner(r)
           /\ \/ toAgent' = toAgent \/ toAgent' = <<>> \/ Agent
              \/ \E r \in Res : TaskSend(r)
              \/ \E c \in Canceller : CancelSend(c)
           /\ \/ toBackend' = toBackend \/ toBackend' = <<>> \/ Agent \/ ReceiveLoop
              \/ \E r \in Res : PushFinished(r)
<1>1. ASSUME Tick PROVE UNCHANGED <<running, toAgent, toBackend>>
  BY <1>1 DEF Tick, linkVars, agentVars
<1>2. ASSUME NEW r \in Res, Scheduler(r) \/ Dispatcher(r)
      PROVE  /\ running' = running /\ toBackend' = toBackend
             /\ toAgent' = toAgent \/ TaskSend(r)
  BY <1>2 DEF Scheduler, Dispatcher, AdvanceClock, MarkerAges, TaskSend,
              DispatchTimeout, SendRaises, linkVars, agentVars
<1>3. ASSUME NEW r \in Res, Runner(r)
      PROVE  toAgent' = toAgent /\ (toBackend' = toBackend \/ PushFinished(r))
  BY <1>3 DEF Runner, PushFinished, ProcessEnds, linkVars
<1>4. ASSUME NEW c \in Canceller, CancelRead(c) \/ CancelStep(c)
      PROVE  /\ running' = running /\ toBackend' = toBackend
             /\ toAgent' = toAgent \/ CancelSend(c)
  BY <1>4 DEF CancelStep, CancelRead, CancelSend, CancelRpcTimeout, CancelWake,
              CancelWaitTimeout, CancelCommit, linkVars, agentVars
<1>5. ASSUME NEW g \in Groups, CancelGroup(g) PROVE UNCHANGED <<running, toAgent, toBackend>>
  BY <1>5 DEF CancelGroup, linkVars, agentVars
<1>6. ASSUME ReceiveLoop PROVE UNCHANGED <<running, toAgent>>
  BY <1>6 DEF ReceiveLoop, OnScriptStarted, OnScriptFinished, DeliverResponse, Receive,
              agentVars
<1>7. ASSUME Faults \/ Reconnect
      PROVE  /\ running' = running \/ AgentRestart
             /\ toAgent' = toAgent \/ toAgent' = <<>>
             /\ toBackend' = toBackend \/ toBackend' = <<>>
  BY <1>7 DEF Faults, Reconnect, Drop, AgentRestart, BackendCrash, Disconnected, agentVars
<1>8. ASSUME UNCHANGED vars PROVE UNCHANGED <<running, toAgent, toBackend>>
  BY <1>8 DEF vars
<1> QED BY <1>1, <1>2, <1>3, <1>4, <1>5, <1>6, <1>7, <1>8 DEF Next

\* The frame the agent handles, and the queue it leaves.
LEMMA HandledFrame ==
    ASSUME TypeOK, Agent
    PROVE  /\ Head(toAgent) \in Request /\ Head(toAgent).res \in Res
           /\ Head(toAgent) = toAgent[1] /\ 1 \in 1..Len(toAgent)
           /\ toAgent' = Tail(toAgent)
           /\ \A i \in 1..Len(toAgent') :
                  i + 1 \in 1..Len(toAgent) /\ toAgent'[i] = toAgent[i + 1]
<1>1. toAgent # <<>> /\ toAgent' = Tail(toAgent) /\ toAgent \in Seq(Request)
  BY DEF TypeOK, Agent, AgentExecute, AgentCancel
<1>2. Head(toAgent) \in Request
  BY <1>1, TailFrames
<1> QED BY <1>1, <1>2, TailFrames DEF Request

\* A process is started only by an execute frame.
LEMMA ProcessesFired ==
    ASSUME TypeOK, FiredFirst, [Next]_vars, NEW r \in Res, running'[r] # "none"
    PROVE  Fired(r)'
<1>1. CASE running[r] # "none"
  BY <1>1, FiredForGood DEF FiredFirst
<1>2. CASE running[r] = "none"
  <2>1. ~AgentRestart /\ ~(\E q \in Res : Runner(q)) /\ running' # running
    BY <1>2 DEF AgentRestart, Runner, PushFinished, ProcessEnds, TypeOK, ScriptDone
  <2>2. Agent
    BY <2>1, AgentUntouched
  <2>3. Head(toAgent).type = "execute" /\ Head(toAgent).res = r
    BY <1>2, <2>2, HandledFrame DEF Agent, AgentExecute, AgentCancel, agentVars, TypeOK
  <2>4. Fired(r)
    BY <2>2, <2>3, HandledFrame DEF FiredFirst
  <2> QED BY <2>4, FiredForGood
<1> QED BY <1>1, <1>2

\* An execute frame leaves only from a task.
LEMMA RequestsFired ==
    ASSUME TypeOK, FiredFirst, [Next]_vars,
           NEW i \in 1..Len(toAgent'), toAgent'[i].type = "execute"
    PROVE  scriptStatus'[toAgent'[i].res] # "null"
<1>1. ASSUME NEW j \in 1..Len(toAgent), toAgent'[i] = toAgent[j]
      PROVE  scriptStatus'[toAgent'[i].res] # "null"
  <2>1. toAgent[j].res \in Res /\ Fired(toAgent[j].res)
    <3>1. toAgent[j] \in Request /\ toAgent[j].type = "execute"
      BY <1>1 DEF TypeOK
    <3> QED BY <3>1 DEF FiredFirst, Request
  <2>2. PICK r \in Res : r = toAgent[j].res
    BY <2>1
  <2>3. Fired(r)'
    BY <2>1, <2>2, FiredForGood
  <2> QED BY <1>1, <2>2, <2>3 DEF Fired
<1>2. CASE toAgent' = toAgent
  BY <1>1, <1>2
<1>3. CASE toAgent' = <<>>
  BY <1>3
<1>4. CASE Agent
  BY <1>1, <1>4, HandledFrame
<1>5. ASSUME NEW r \in Res, TaskSend(r), toAgent' # toAgent PROVE scriptStatus'[toAgent'[i].res] # "null"
  <2> DEFINE m == [type |-> "execute", res |-> r, call |-> NextCall(r)]
  <2>1. toAgent' = Append(toAgent, m) /\ task[r] # "none"
    BY <1>5 DEF TaskSend
  <2>2. CASE toAgent'[i] = m
    <3>1. Fired(r)'
      BY <2>1, FiredForGood DEF FiredFirst
    <3> QED BY <2>2, <3>1 DEF Fired
  <2>3. CASE toAgent'[i] # m
    <3> HIDE DEF m
    <3>1. i \in 1..Len(toAgent) /\ toAgent'[i] = toAgent[i]
      BY <2>1, <2>3 DEF TypeOK
    <3> QED BY <1>1, <3>1
  <2> QED BY <2>2, <2>3
<1>6. ASSUME NEW c \in Canceller, CancelSend(c), toAgent' # toAgent PROVE scriptStatus'[toAgent'[i].res] # "null"
  <2> DEFINE m == [type |-> "cancel", res |-> Target[c], call |-> NextCall(c)]
  <2>1. toAgent' = Append(toAgent, m)
    BY <1>6 DEF CancelSend
  <2>2. m.type # "execute"
    OBVIOUS
  <2> HIDE DEF m
  <2>3. i \in 1..Len(toAgent) /\ toAgent'[i] = toAgent[i]
    BY <2>1, <2>2 DEF TypeOK
  <2> QED BY <1>1, <2>3
<1> QED BY <1>2, <1>3, <1>4, <1>5, <1>6, AgentUntouched

\* What the agent pushes is about a script it was asked to run.
LEMMA PushedAfterFired ==
    ASSUME TypeOK, FiredFirst, Agent, NEW i \in 1..Len(toBackend')
    PROVE  \/ i \in 1..Len(toBackend) /\ toBackend'[i] = toBackend[i]
           \/ toBackend'[i].type = "reply"
           \/ \E r \in Res : toBackend'[i] = [type |-> "started", res |-> r] /\ Fired(r)
<1> DEFINE m == Head(toAgent)
           F == Push \cup Reply
<1>1. /\ m \in Request /\ m.res \in Res /\ m.call \in Call
      /\ m.type = "execute" => Fired(m.res)
  BY HandledFrame DEF FiredFirst, Request
<1>2. PICK st : st = [type |-> "started", res |-> m.res]
  OBVIOUS
<1>3. PICK yes, no : yes = ReplyTo(m, TRUE) /\ no = ReplyTo(m, FALSE)
  OBVIOUS
<1>4. st \in F /\ yes \in F /\ no \in F /\ yes.type = "reply" /\ no.type = "reply"
  BY <1>1, <1>2, <1>3 DEF Push, Reply, ReplyTo
<1>5. \/ toBackend' = toBackend
      \/ toBackend' = toBackend \o <<yes>>
      \/ toBackend' = toBackend \o <<no>>
      \/ toBackend' = toBackend \o <<st, yes>> /\ m.type = "execute"
  BY <1>2, <1>3 DEF Agent, AgentExecute, AgentCancel, PushFrames
<1> HIDE DEF F
<1>6. /\ toBackend \in Seq(F)
      /\ <<yes>> \in Seq(F) /\ <<no>> \in Seq(F) /\ <<st, yes>> \in Seq(F)
  BY <1>4, ShortSequences DEF TypeOK, F
<1> HIDE DEF m
<1>7. \/ i \in 1..Len(toBackend) /\ toBackend'[i] = toBackend[i]
      \/ toBackend'[i] \in {yes, no}
      \/ toBackend'[i] = st /\ m.type = "execute"
  <2>1. CASE toBackend' = toBackend
    BY <2>1
  <2>2. CASE toBackend' = toBackend \o <<yes>>
    BY <1>6, <2>2, ConcatFrames
  <2>3. CASE toBackend' = toBackend \o <<no>>
    BY <1>6, <2>3, ConcatFrames
  <2>4. CASE toBackend' = toBackend \o <<st, yes>> /\ m.type = "execute"
    <3>1. \A j \in 1..Len(<<st, yes>>) : <<st, yes>>[j] \in {st, yes}
      OBVIOUS
    <3> QED BY <1>6, <2>4, <3>1, ConcatFrames
  <2> QED BY <1>5, <2>1, <2>2, <2>3, <2>4
<1> QED BY <1>1, <1>2, <1>4, <1>7

\* A sequence with one more frame at its end holds the old frames and that one.
LEMMA AppendedFrame ==
    ASSUME NEW S, NEW q \in Seq(S), NEW f \in S, NEW i \in 1..Len(q \o <<f>>)
    PROVE  \/ (q \o <<f>>)[i] = f
           \/ i \in 1..Len(q) /\ (q \o <<f>>)[i] = q[i]
<1>1. <<f>> \in Seq(S) /\ \A j \in 1..Len(<<f>>) : <<f>>[j] = f
  BY ShortSequences
<1> QED BY <1>1, ConcatFrames

\* A started or finished event is about a script that was fired.
LEMMA EventsFired ==
    ASSUME TypeOK, FiredFirst, [Next]_vars,
           NEW i \in 1..Len(toBackend'), toBackend'[i].type \in {"started", "finished"}
    PROVE  scriptStatus'[toBackend'[i].res] # "null"
<1>1. ASSUME NEW j \in 1..Len(toBackend), toBackend'[i] = toBackend[j]
      PROVE  scriptStatus'[toBackend'[i].res] # "null"
  <2>1. toBackend[j].res \in Res /\ Fired(toBackend[j].res)
    <3>1. /\ toBackend[j] \in Push \cup Reply
          /\ toBackend[j].type \in {"started", "finished"}
      BY <1>1 DEF TypeOK
    <3> QED BY <3>1 DEF FiredFirst, Push, Reply
  <2>2. PICK r \in Res : r = toBackend[j].res
    BY <2>1
  <2>3. Fired(r)'
    BY <2>1, <2>2, FiredForGood
  <2> QED BY <1>1, <2>2, <2>3 DEF Fired
<1>2. CASE toBackend' = toBackend
  BY <1>1, <1>2
<1>3. CASE toBackend' = <<>>
  BY <1>3
<1>4. CASE Agent
  <2>1. CASE \E r \in Res : toBackend'[i] = [type |-> "started", res |-> r] /\ Fired(r)
    <3>1. PICK r \in Res : toBackend'[i] = [type |-> "started", res |-> r] /\ Fired(r)
      BY <2>1
    <3>2. Fired(r)'
      BY <3>1, FiredForGood
    <3> QED BY <3>1, <3>2 DEF Fired
  <2> QED BY <1>1, <1>4, <2>1, PushedAfterFired
<1>5. CASE ReceiveLoop
  <2>1. \E t : Receive(t)
    BY <1>5 DEF ReceiveLoop, OnScriptStarted, OnScriptFinished, DeliverResponse
  <2> QED BY <1>1, <2>1, ReceivedFrame
<1>6. ASSUME NEW r \in Res, PushFinished(r) PROVE scriptStatus'[toBackend'[i].res] # "null"
  <2>1. Fired(r)'
    BY <1>6, FiredForGood DEF PushFinished, FiredFirst, ScriptDone
  <2>2. PICK f : f = [type |-> "finished", res |-> r, outcome |-> running[r]]
    OBVIOUS
  <2>3. f \in Push /\ f.res = r
    BY <1>6, <2>2 DEF PushFinished, Push
  <2>4. toBackend' = toBackend \/ toBackend' = toBackend \o <<f>>
    BY <1>6, <2>2 DEF PushFinished, PushFrames
  <2>5. CASE toBackend' = toBackend \o <<f>>
    <3> DEFINE F == Push \cup Reply
    <3>0. f \in F /\ toBackend \in Seq(F)
      BY <2>3 DEF TypeOK
    <3> HIDE DEF F
    <3>1. i \in 1..Len(toBackend \o <<f>>)
      BY <2>5
    <3>2. \/ toBackend'[i] = f
          \/ i \in 1..Len(toBackend) /\ toBackend'[i] = toBackend[i]
      BY <2>5, <3>0, <3>1, AppendedFrame
    <3> QED BY <1>1, <2>1, <2>3, <3>2 DEF Fired
  <2> QED BY <1>2, <2>4, <2>5
<1> QED BY <1>2, <1>3, <1>4, <1>5, <1>6, AgentUntouched

\* FiredFirst is kept by every step.
LEMMA FiredStep ==
    ASSUME TypeOK, FiredFirst, [Next]_vars
    PROVE  FiredFirst'
<1>1. ASSUME NEW r \in Res, status'[r] = "scheduled" PROVE ~Fired(r)'
  <2>1. status[r] = "scheduled" /\ ~(Tick /\ Dispatches(r))
    BY <1>1, StatusSteps DEF ClosingStatus
  <2> QED BY <2>1, ScriptSteps DEF FiredFirst, Fired
<1> QED BY <1>1, TasksFired, ProcessesFired, RequestsFired, EventsFired DEF FiredFirst, Fired

-----------------------------------------------------------------------------
(* The pending-kill registry.                                              *)

\* The conditions on the registry are kept by every step.
LEMMA RegistryStep ==
    ASSUME TypeOK, FiredFirst, KillRegistry, [Next]_vars
    PROVE  KillRegistry'
<1> USE ResAssumption
<1>1. ASSUME NEW r \in Res, pendingKill'[r] # None PROVE Target[pendingKill'[r]] = r
  <2>1. CASE pendingKill'[r] = pendingKill[r]
    BY <1>1, <2>1 DEF KillRegistry
  <2>2. CASE pendingKill'[r] # pendingKill[r]
    <3>1. ASSUME NEW c \in Canceller, CancelSend(c) PROVE Target[pendingKill'[r]] = r
      BY <1>1, <2>2, <3>1 DEF CancelSend, DiscardPendingKill, TypeOK
    <3>2. ASSUME NEW c \in Canceller, CancelRead(c) \/ CancelStep(c), ~CancelSend(c)
          PROVE  pendingKill'[r] \in {pendingKill[r], None}
      BY <3>2 DEF CancelStep, CancelRead, CancelRpcTimeout, CancelWake, CancelWaitTimeout,
                  CancelCommit, DiscardPendingKill, TypeOK
    <3>3. ASSUME NEW g \in Groups, CancelGroup(g) PROVE pendingKill' = pendingKill
      BY <3>3 DEF CancelGroup, cancelVars
    <3>4. ASSUME NEW q \in Res, Scheduler(q) \/ Dispatcher(q) \/ Runner(q)
          PROVE  pendingKill' = pendingKill
      BY <3>4 DEF Scheduler, Dispatcher, Runner, AdvanceClock, MarkerAges, TaskSend,
                  DispatchTimeout, SendRaises, PushFinished, ProcessEnds, cancelVars
    <3>5. ASSUME Tick \/ Agent \/ ReceiveLoop \/ Reconnect \/ Faults
          PROVE  pendingKill'[r] \in {pendingKill[r], None}
      BY <3>5 DEF Tick, Agent, AgentExecute, AgentCancel, ReceiveLoop, OnScriptStarted,
                  OnScriptFinished, DeliverResponse, Reconnect, Faults, Drop, AgentRestart,
                  BackendCrash, cancelVars
    <3>6. ASSUME UNCHANGED vars PROVE pendingKill' = pendingKill
      BY <3>6 DEF vars
    <3> QED BY <1>1, <2>2, <3>1, <3>2, <3>3, <3>4, <3>5, <3>6 DEF Next
  <2> QED BY <2>1, <2>2
<1>2. ASSUME NEW c \in eventSet' PROVE scriptStatus'[Target[c]] \in ScriptDone
  <2>1. c \in Canceller /\ Target[c] \in Res
    BY DispatchTypeStep DEF TypeOK
  <2>2. CASE c \in eventSet
    BY <2>1, <2>2, FiredForGood DEF KillRegistry
  <2>3. CASE OnScriptFinished /\ c \notin eventSet
    <3>1. Receive("finished") /\ Head(toBackend).type = "finished"
      BY <2>3 DEF OnScriptFinished, Receive
    <3>2. /\ Head(toBackend).res \in Res /\ Fired(Head(toBackend).res)
          /\ Head(toBackend).outcome \in ScriptDone
      BY <3>1, ReceivedFrame DEF FiredFirst, Push, Reply
    <3>3. pendingKill[Head(toBackend).res] = c
      BY <2>3 DEF OnScriptFinished, SignalLifecycleKill
    <3>4. Target[c] = Head(toBackend).res
      BY <2>1, <3>2, <3>3 DEF KillRegistry
    <3> QED BY <2>3, <3>2, <3>4 DEF OnScriptFinished, TypeOK, Fired
  <2>4. eventSet' = eventSet \/ OnScriptFinished
    <3>1. ASSUME NEW d \in Canceller, CancelRead(d) \/ CancelStep(d) PROVE eventSet' = eventSet
      BY <3>1 DEF CancelStep, CancelRead, CancelSend, CancelRpcTimeout, CancelWake,
                  CancelWaitTimeout, CancelCommit
    <3>2. ASSUME NEW g \in Groups, CancelGroup(g) PROVE eventSet' = eventSet
      BY <3>2 DEF CancelGroup, cancelVars
    <3>3. ASSUME NEW q \in Res, Scheduler(q) \/ Dispatcher(q) \/ Runner(q)
          PROVE  eventSet' = eventSet
      BY <3>3 DEF Scheduler, Dispatcher, Runner, AdvanceClock, MarkerAges, TaskSend,
                  DispatchTimeout, SendRaises, PushFinished, ProcessEnds, cancelVars
    <3>4. ASSUME Tick \/ Agent \/ ReceiveLoop \/ Reconnect \/ Faults
          PROVE  eventSet' = eventSet \/ OnScriptFinished
      BY <3>4 DEF Tick, Agent, AgentExecute, AgentCancel, ReceiveLoop, OnScriptStarted,
                  DeliverResponse, Reconnect, Faults, Drop, AgentRestart,
                  BackendCrash, cancelVars
    <3>5. ASSUME UNCHANGED vars PROVE eventSet' = eventSet
      BY <3>5 DEF vars
    <3> QED BY <3>1, <3>2, <3>3, <3>4, <3>5 DEF Next
  <2> QED BY <2>2, <2>3, <2>4
<1>3. ASSUME NEW c \in Canceller, cancel'[c] = "commit" PROVE c \in eventSet'
  <2>1. eventSet \subseteq eventSet'
    <3>1. ASSUME NEW d \in Canceller, CancelRead(d) \/ CancelStep(d) PROVE eventSet' = eventSet
      BY <3>1 DEF CancelStep, CancelRead, CancelSend, CancelRpcTimeout, CancelWake,
                  CancelWaitTimeout, CancelCommit
    <3>2. ASSUME NEW g \in Groups, CancelGroup(g) PROVE eventSet' = eventSet
      BY <3>2 DEF CancelGroup, cancelVars
    <3>3. ASSUME NEW q \in Res, Scheduler(q) \/ Dispatcher(q) \/ Runner(q)
          PROVE  eventSet' = eventSet
      BY <3>3 DEF Scheduler, Dispatcher, Runner, AdvanceClock, MarkerAges, TaskSend,
                  DispatchTimeout, SendRaises, PushFinished, ProcessEnds, cancelVars
    <3>4. ASSUME Tick \/ Agent \/ ReceiveLoop \/ Reconnect \/ Faults
          PROVE  eventSet \subseteq eventSet'
      BY <3>4 DEF Tick, Agent, AgentExecute, AgentCancel, ReceiveLoop, OnScriptStarted,
                  OnScriptFinished, SignalLifecycleKill, DeliverResponse, Reconnect, Faults,
                  Drop, AgentRestart, BackendCrash, cancelVars
    <3>5. ASSUME UNCHANGED vars PROVE eventSet' = eventSet
      BY <3>5 DEF vars
    <3> QED BY <3>1, <3>2, <3>3, <3>4, <3>5 DEF Next
  <2>2. CASE cancel[c] = "commit"
    BY <2>1, <2>2 DEF KillRegistry
  <2>3. CASE cancel[c] # "commit"
    <3>1. ASSUME NEW d \in Canceller, CancelRead(d) \/ CancelStep(d) PROVE c \in eventSet
      BY <1>3, <2>3, <3>1 DEF CancelStep, CancelRead, CancelSend, CancelRpcTimeout, CancelWake,
                  CancelWaitTimeout, CancelCommit, TypeOK
    <3>2. ASSUME NEW g \in Groups, CancelGroup(g) PROVE cancel' = cancel
      BY <3>2 DEF CancelGroup, cancelVars
    <3>3. ASSUME NEW q \in Res, Scheduler(q) \/ Dispatcher(q) \/ Runner(q)
          PROVE  cancel' = cancel
      BY <3>3 DEF Scheduler, Dispatcher, Runner, AdvanceClock, MarkerAges, TaskSend,
                  DispatchTimeout, SendRaises, PushFinished, ProcessEnds, cancelVars
    <3>4. ASSUME Tick \/ Agent \/ ReceiveLoop \/ Reconnect \/ Faults
          PROVE  cancel'[c] # "commit"
      BY <2>3, <3>4 DEF Tick, Agent, AgentExecute, AgentCancel, ReceiveLoop, OnScriptStarted,
                  OnScriptFinished, DeliverResponse, Reconnect, Faults,
                  Drop, AgentRestart, BackendCrash, cancelVars
    <3>5. ASSUME UNCHANGED vars PROVE cancel' = cancel
      BY <3>5 DEF vars
    <3> QED BY <1>3, <2>1, <2>3, <3>1, <3>2, <3>3, <3>4, <3>5 DEF Next
  <2> QED BY <2>2, <2>3
<1> QED BY <1>1, <1>2, <1>3 DEF KillRegistry

-----------------------------------------------------------------------------
(* The theorems.                                                           *)

\* The invariant holds initially.
LEMMA DispatchInit == Init => DispatchInv
<1> SUFFICES ASSUME Init PROVE DispatchInv
  OBVIOUS
<1>1. TypeOK
  BY DEF Init, TypeOK, CancelPc
<1>2. FiredFirst
  BY DEF Init, FiredFirst, Fired
<1>3. KillRegistry
  BY DEF Init, KillRegistry
<1> QED BY <1>1, <1>2, <1>3 DEF DispatchInv

\* The invariant is inductive.
LEMMA DispatchStep == DispatchInv /\ [Next]_vars => DispatchInv'
  BY DispatchTypeStep, FiredStep, RegistryStep DEF DispatchInv

\* Every variable keeps its type, with any faults.
THEOREM DispatchTypeCorrect == Spec => []TypeOK
<1>1. DispatchInv => TypeOK
  BY DEF DispatchInv
<1> QED BY <1>1, DispatchInit, DispatchStep, PTL DEF Spec

\* A cancel on the kill path commits only when the row shows the script as
\* over, for any number of cancels that share and discard registry entries.
THEOREM KillIsConfirmed == Spec => []KillConfirmed
<1>1. DispatchInv => KillConfirmed
  BY DEF DispatchInv, KillRegistry, KillConfirmed
<1> QED BY <1>1, DispatchInit, DispatchStep, PTL DEF Spec

\* One step of the system is one transaction of the state machines.
LEMMA LifecycleStep ==
    ASSUME DispatchInv, [Next]_vars
    PROVE  Lifecycle!LifecycleNext
<1>1. TypeOK /\ TypeOK' /\ FiredFirst
  BY DispatchStep DEF DispatchInv
<1>2. /\ status' \in [Res -> Lifecycle!Status]
      /\ scriptStatus' \in [Res -> Lifecycle!ScriptStatus]
  BY <1>1 DEF TypeOK, Terminal, ScriptDone, Lifecycle!Status, Lifecycle!ScriptStatus,
              Lifecycle!Terminal, Lifecycle!ScriptDone
<1>3. ASSUME NEW r \in Res PROVE Lifecycle!RowStep(r)
  <2> DEFINE a == status[r]  b == status'[r]  s == scriptStatus[r]  t == scriptStatus'[r]
  <2>0. /\ a \in {"scheduled", "active"} \cup Terminal
        /\ s \in {"null", "running"} \cup ScriptDone
        /\ a = "scheduled" => s = "null"
    BY <1>1 DEF TypeOK, FiredFirst, Fired
  <2>1. \/ t = s
        \/ Tick /\ Dispatches(r) /\ t = "running"
        \/ OnScriptFinished /\ s = "running" /\ t \in ScriptDone
    BY <1>1, ScriptSteps
  <2>2. OnScriptFinished => b = a
    BY DEF OnScriptFinished
  <2>3. \/ b = a /\ ~(Tick /\ Dispatches(r))
        \/ /\ Tick
           /\ \/ Closes(r) /\ b = ClosingStatus(r)
              \/ GivesUp(r) /\ ~Closes(r) /\ b = "failed"
              \/ NowActive(r) /\ ~Closes(r) /\ ~GivesUp(r) /\ b = "active"
        \/ t = s /\ a \notin Terminal /\ b = "cancelled"
    BY <1>1, StatusSteps
  <2>4. /\ Closes(r) => NowActive(r)
        /\ GivesUp(r) => NowActive(r) /\ s = "running"
        /\ Dispatches(r) => s = "null" /\ NowActive(r) /\ ~Closes(r)
        /\ NowActive(r) => a \in {"scheduled", "active"}
        /\ ClosingStatus(r) = IF s \in {"failed", "killed"} THEN "failed" ELSE "completed"
    BY DEF Closes, GivesUp, Stuck, Dispatches, NowActive, Promotes, ClosingStatus
  <2>5. Lifecycle!Reaches(a, b)
    BY <2>0, <2>3, <2>4 DEF Lifecycle!Reaches, Lifecycle!AllowedTransitions,
                            Lifecycle!Terminal, Terminal
  <2>6. t = s \/ t \in Lifecycle!AllowedScriptTransitions(s)
    BY <2>1, <2>4 DEF Lifecycle!AllowedScriptTransitions, Lifecycle!ScriptDone, ScriptDone
  <2>7. (s = "null" /\ t # "null") => b = "active"
    BY <2>1, <2>3, <2>4
  <2>8. (b = "completed" /\ a # b) => t \notin {"failed", "killed"}
    BY <2>1, <2>2, <2>3, <2>4 DEF ScriptDone
  <2>9. (b = "failed" /\ a # b) => t \in {"running", "failed", "killed"}
    BY <2>1, <2>2, <2>3, <2>4 DEF ScriptDone
  <2> QED BY <2>5, <2>6, <2>7, <2>8, <2>9 DEF Lifecycle!RowStep
<1> QED BY <1>2, <1>3 DEF Lifecycle!LifecycleNext

\* With any loss, delay, duplication of dispatches, crash or restart, the
\* reservation rows follow the state machines of reservation_service and
\* their joint rules.
THEOREM RowsFollowLifecycle == Spec => FollowsLifecycle
<1>1. Init => Lifecycle!LifecycleInit
  BY DEF Init, Lifecycle!LifecycleInit
<1>2. DispatchInv /\ [Next]_vars => [Lifecycle!LifecycleNext]_(Lifecycle!lifecycleVars)
  BY LifecycleStep
<1> QED BY <1>1, <1>2, DispatchInit, DispatchStep, PTL
        DEF Spec, FollowsLifecycle, Lifecycle!LifecycleSpec
-----------------------------------------------------------------------------
(***************************************************************************)
(* How often a script is sent.  Every call is paid for: by a recorded      *)
(* failure, by a fault that kept the failure from being recorded, or by    *)
(* the one attempt that is under way or was answered.  An attempt that was *)
(* answered settles the script, since the agent pushes script.started      *)
(* ahead of its answer and the connection keeps the order, so the watchdog *)
(* never retries it.                                                       *)
(***************************************************************************)

\* The watchdog does not retry r any more: its start or its end is known.
Settled(r) == startedSeen[r] \/ scriptStatus[r] \in ScriptDone

\* The attempts whose failure could not be recorded.
Unrecorded == faults["crash"] + faults["send"]

\* The calls made for r, with the one its task is about to make.
Attempts(r) == IF task[r] = "queued" THEN calls[r] + 1 ELSE calls[r]

\* An attempt is under way; all attempts failed; or one of them succeeded.
Budget(r) ==
    \/ /\ task[r] # "none"
       /\ Attempts(r) <= failures[r] + 1 + Unrecorded
       /\ failures[r] < MaxAttempts
    \/ /\ task[r] = "none"
       /\ calls[r] <= failures[r] + Unrecorded
       /\ failures[r] <= MaxAttempts
    \/ /\ task[r] = "none"
       /\ Settled(r)
       /\ calls[r] <= MaxAttempts + Unrecorded

\* A call of a dispatch names the reservation, a call of a cancel does not.
CallsNamed ==
    \A i \in 1..Len(toAgent) :
        /\ toAgent[i].type = "execute" => toAgent[i].call[1] = toAgent[i].res
        /\ toAgent[i].type = "cancel" => toAgent[i].call[1] \in Canceller

IsAccept(f, r) == f.type = "reply" /\ f.ok /\ f.call[1] = r
IsStart(f, r) == f.type = "started" /\ f.res = r

\* The acceptance of a dispatch of r is preceded by the start of r.
StartFirst ==
    \A r \in Res : \A i \in 1..Len(toBackend) :
        IsAccept(toBackend[i], r) =>
            Settled(r) \/ \E j \in 1..(i - 1) : IsStart(toBackend[j], r)

\* The marker does not age while the task of its dispatch is there, and a
\* script that was not fired was not tried.
MarkersFresh == \A r \in Res : task[r] # "none" => marker[r] # "stale"
Untried == \A r \in Res : scriptStatus[r] = "null" => calls[r] = 0 /\ failures[r] = 0

SendInv ==
    /\ CallsNamed /\ StartFirst /\ MarkersFresh /\ Untried
    /\ \A r \in Res : Budget(r)

\* A script whose start or end is known stays so.
LEMMA SettledForGood ==
    ASSUME TypeOK, FiredFirst, [Next]_vars, NEW r \in Res, Settled(r)
    PROVE  Settled(r)'
<1>1. startedSeen[r] => startedSeen'[r]
  <2>1. ASSUME NEW q \in Res, Scheduler(q) \/ Dispatcher(q) \/ Runner(q)
        PROVE  startedSeen' = startedSeen
    BY <2>1 DEF Scheduler, Dispatcher, Runner, AdvanceClock, MarkerAges, TaskSend,
                DispatchTimeout, SendRaises, PushFinished, ProcessEnds, rowVars
  <2>2. ASSUME NEW c \in Canceller, CancelRead(c) \/ CancelStep(c)
        PROVE  startedSeen' = startedSeen
    BY <2>2 DEF CancelStep, CancelRead, CancelSend, CancelRpcTimeout, CancelWake,
                CancelWaitTimeout, CancelCommit, rowVars
  <2>3. ASSUME NEW g \in Groups, CancelGroup(g) PROVE startedSeen' = startedSeen
    BY <2>3 DEF CancelGroup
  <2>4. ASSUME Tick \/ Agent \/ Reconnect \/ Faults \/ OnScriptFinished \/ DeliverResponse
        PROVE  startedSeen' = startedSeen
    BY <2>4 DEF Tick, Agent, AgentExecute, AgentCancel, Reconnect, Faults, Drop, AgentRestart,
                BackendCrash, OnScriptFinished, DeliverResponse, rowVars
  <2>5. ASSUME OnScriptStarted PROVE startedSeen[r] => startedSeen'[r]
    BY <2>5 DEF OnScriptStarted, TypeOK
  <2>6. ASSUME UNCHANGED vars PROVE startedSeen' = startedSeen
    BY <2>6 DEF vars
  <2> QED BY <2>1, <2>2, <2>3, <2>4, <2>5, <2>6 DEF Next, ReceiveLoop
<1>2. scriptStatus[r] \in ScriptDone => scriptStatus'[r] \in ScriptDone
  BY FiredForGood
<1> QED BY <1>1, <1>2 DEF Settled

\* Who touches the task, the calls and the failures of a reservation, or the
\* faults that count.
LEMMA CountersUntouched ==
    ASSUME TypeOK, [Next]_vars, NEW r \in Res
    PROVE  \/ /\ task'[r] = task[r] /\ calls'[r] = calls[r] /\ failures'[r] = failures[r]
              /\ Unrecorded' = Unrecorded
           \/ Tick \/ DeliverResponse \/ BackendCrash
           \/ \E q \in Res : Dispatcher(q)
<1> DEFINE Same == UNCHANGED <<task, calls, failures>> /\ Unrecorded' = Unrecorded
<1>1. ASSUME NEW q \in Res, Scheduler(q) \/ Runner(q) PROVE Same
  BY <1>1 DEF Scheduler, Runner, AdvanceClock, MarkerAges, PushFinished, ProcessEnds, rowVars,
              Unrecorded
<1>2. ASSUME NEW c \in Canceller, CancelRead(c) \/ CancelStep(c)
      PROVE  /\ UNCHANGED <<task, failures>> /\ Unrecorded' = Unrecorded
             /\ calls'[r] = calls[r]
  <2>1. c # r /\ c \in Owner /\ r \in Owner
    BY ResAssumption DEF Owner
  <2>2. calls' = calls \/ calls' = [calls EXCEPT ![c] = calls[c] + 1]
    BY <1>2 DEF CancelStep, CancelRead, CancelSend, CancelRpcTimeout, CancelWake,
                CancelWaitTimeout, CancelCommit
  <2>3. UNCHANGED <<task, failures, faults>>
    BY <1>2 DEF CancelStep, CancelRead, CancelSend, CancelRpcTimeout, CancelWake,
                CancelWaitTimeout, CancelCommit, rowVars
  <2> QED BY <2>1, <2>2, <2>3 DEF TypeOK, Unrecorded
<1>3. ASSUME NEW g \in Groups, CancelGroup(g) PROVE Same
  BY <1>3 DEF CancelGroup, Unrecorded
<1>4. ASSUME Agent \/ Reconnect \/ OnScriptStarted \/ OnScriptFinished PROVE Same
  BY <1>4 DEF Agent, AgentExecute, AgentCancel, Reconnect, OnScriptStarted, OnScriptFinished,
              rowVars, Unrecorded
<1>5. ASSUME Drop \/ AgentRestart PROVE Same
  <2>1. /\ UNCHANGED <<task, calls, failures>>
        /\ \/ faults' = [faults EXCEPT !["drop"] = @ + 1]
           \/ faults' = [faults EXCEPT !["restart"] = @ + 1]
    BY <1>5 DEF Drop, AgentRestart, Counted, rowVars
  <2> QED BY <2>1 DEF Unrecorded, TypeOK, Fault
<1>6. ASSUME UNCHANGED vars PROVE Same
  BY <1>6 DEF vars, Unrecorded
<1> QED BY <1>1, <1>2, <1>3, <1>4, <1>5, <1>6 DEF Next, ReceiveLoop, Faults
\* Frames to the agent keep naming the one who sent them.
LEMMA CallsNamedStep ==
    ASSUME TypeOK, CallsNamed, [Next]_vars
    PROVE  CallsNamed'
<1> DEFINE Named(f) == /\ f.type = "execute" => f.call[1] = f.res
                       /\ f.type = "cancel" => f.call[1] \in Canceller
<1>0. \A j \in 1..Len(toAgent) : Named(toAgent[j])
  BY DEF CallsNamed
<1> SUFFICES ASSUME NEW i \in 1..Len(toAgent') PROVE Named(toAgent'[i])
  BY DEF CallsNamed
<1>1. CASE toAgent' = toAgent
  BY <1>0, <1>1
<1>2. CASE toAgent' = <<>>
  BY <1>2
<1>3. CASE Agent
  BY <1>0, <1>3, HandledFrame
<1>4. ASSUME NEW m \in Request, Named(m), toAgent' = Append(toAgent, m)
      PROVE  Named(toAgent'[i])
  <2> HIDE DEF Named
  <2>1. \/ i \in 1..Len(toAgent) /\ toAgent'[i] = toAgent[i]
        \/ toAgent'[i] = m
    BY <1>4 DEF TypeOK
  <2> QED BY <1>0, <1>4, <2>1
<1>5. ASSUME NEW r \in Res, TaskSend(r), toAgent' # toAgent PROVE Named(toAgent'[i])
  <2>1. PICK m : m = [type |-> "execute", res |-> r, call |-> NextCall(r)]
    OBVIOUS
  <2>2. m \in Request /\ Named(m)
    BY <2>1 DEF Request, Call, NextCall, Owner, TypeOK
  <2>3. toAgent' = Append(toAgent, m)
    BY <1>5, <2>1 DEF TaskSend
  <2> QED BY <1>4, <2>2, <2>3
<1>6. ASSUME NEW c \in Canceller, CancelSend(c), toAgent' # toAgent PROVE Named(toAgent'[i])
  <2>1. PICK m : m = [type |-> "cancel", res |-> Target[c], call |-> NextCall(c)]
    OBVIOUS
  <2>2. m \in Request /\ Named(m)
    BY <2>1, ResAssumption DEF Request, Call, NextCall, Owner, TypeOK
  <2>3. toAgent' = Append(toAgent, m)
    BY <1>6, <2>1 DEF CancelSend
  <2> QED BY <1>4, <2>2, <2>3
<1> QED BY <1>1, <1>2, <1>3, <1>5, <1>6, AgentUntouched

\* Every new task comes with a fresh marker, and a marker ages without a task.
LEMMA MarkersStep ==
    ASSUME TypeOK, MarkersFresh, [Next]_vars
    PROVE  MarkersFresh'
<1> SUFFICES ASSUME NEW r \in Res, task'[r] # "none" PROVE marker'[r] # "stale"
  BY DEF MarkersFresh
<1>1. CASE Tick
  BY <1>1 DEF Tick, MarkersFresh
<1>2. ASSUME NEW q \in Res, Scheduler(q) PROVE marker'[r] # "stale"
  BY <1>2 DEF Scheduler, AdvanceClock, MarkerAges, rowVars, TypeOK, MarkersFresh
<1>3. CASE OnScriptStarted
  BY <1>3 DEF OnScriptStarted, TypeOK, MarkersFresh
<1>4. ASSUME marker' = marker, task[r] # "none" PROVE marker'[r] # "stale"
  BY <1>4 DEF MarkersFresh
<1>5. ASSUME NEW q \in Res, Dispatcher(q) \/ Runner(q)
      PROVE  marker' = marker /\ task[r] # "none"
  BY <1>5 DEF Dispatcher, Runner, TaskSend, DispatchTimeout, SendRaises, PushFinished,
              ProcessEnds, rowVars, TypeOK
<1>6. ASSUME NEW c \in Canceller, CancelRead(c) \/ CancelStep(c)
      PROVE  marker' = marker /\ task[r] # "none"
  BY <1>6 DEF CancelStep, CancelRead, CancelSend, CancelRpcTimeout, CancelWake,
              CancelWaitTimeout, CancelCommit, rowVars
<1>7. ASSUME NEW g \in Groups, CancelGroup(g) PROVE marker' = marker /\ task[r] # "none"
  BY <1>7 DEF CancelGroup
<1>8. ASSUME Agent \/ Reconnect \/ Faults \/ OnScriptFinished \/ DeliverResponse
      PROVE  marker' = marker /\ task[r] # "none"
  BY <1>8 DEF Agent, AgentExecute, AgentCancel, Reconnect, Faults, Drop, AgentRestart,
              BackendCrash, OnScriptFinished, DeliverResponse, rowVars
<1>9. ASSUME UNCHANGED vars PROVE marker' = marker /\ task[r] # "none"
  BY <1>9 DEF vars
<1> QED BY <1>1, <1>2, <1>3, <1>4, <1>5, <1>6, <1>7, <1>8, <1>9 DEF Next, ReceiveLoop

\* A script that was not fired has no task, so nothing counts for it.
LEMMA UntriedStep ==
    ASSUME TypeOK, FiredFirst, Untried, [Next]_vars
    PROVE  Untried'
<1> SUFFICES ASSUME NEW r \in Res, scriptStatus'[r] = "null"
             PROVE  calls'[r] = 0 /\ failures'[r] = 0
  BY DEF Untried
<1>1. ~Fired(r) /\ task[r] = "none" /\ calls[r] = 0 /\ failures[r] = 0
  BY FiredForGood DEF Fired, FiredFirst, Untried
<1>2. CASE Tick
  BY <1>1, <1>2 DEF Tick
<1>3. CASE DeliverResponse
  BY <1>1, <1>3 DEF DeliverResponse
<1>4. CASE BackendCrash
  BY <1>1, <1>4 DEF BackendCrash, rowVars
<1>5. ASSUME NEW q \in Res, Dispatcher(q) PROVE calls'[r] = 0 /\ failures'[r] = 0
  <2>1. q # r /\ q \in Owner /\ r \in Owner
    BY <1>1, <1>5 DEF Dispatcher, TaskSend, DispatchTimeout, SendRaises, Owner
  <2> QED BY <1>1, <1>5, <2>1 DEF Dispatcher, TaskSend, DispatchTimeout, SendRaises,
                                  RecordAttemptFailed, rowVars, TypeOK
<1> QED BY <1>1, <1>2, <1>3, <1>4, <1>5, CountersUntouched

\* Frames added at the end of a queue leave the others at their places.
LEMMA AddedFrames ==
    ASSUME NEW S, NEW q \in Seq(S), NEW a \in S, NEW b \in S
    PROVE  /\ Len(q \o <<a>>) = Len(q) + 1 /\ (q \o <<a>>)[Len(q) + 1] = a
           /\ \A i \in 1..Len(q) : (q \o <<a>>)[i] = q[i]
           /\ Len(q \o <<a, b>>) = Len(q) + 2
           /\ (q \o <<a, b>>)[Len(q) + 1] = a /\ (q \o <<a, b>>)[Len(q) + 2] = b
           /\ \A i \in 1..Len(q) : (q \o <<a, b>>)[i] = q[i]
  OBVIOUS

\* The agent announces a start before it accepts the call, and the backend
\* takes the frames in order, so the start is known when the answer arrives.
LEMMA StartFirstStep ==
    ASSUME TypeOK, FiredFirst, CallsNamed, StartFirst, [Next]_vars
    PROVE  StartFirst'
<1> SUFFICES ASSUME NEW r \in Res, NEW i \in 1..Len(toBackend'),
                    IsAccept(toBackend'[i], r), ~Settled(r)'
             PROVE  \E j \in 1..(i - 1) : IsStart(toBackend'[j], r)
  BY DEF StartFirst, IsAccept, IsStart
<1>0. ~Settled(r)
  BY SettledForGood
<1>1. ASSUME NEW k \in 1..Len(toBackend), toBackend[k] = toBackend'[i]
      PROVE  \E j \in 1..(k - 1) : IsStart(toBackend[j], r)
  BY <1>0, <1>1 DEF StartFirst
<1>2. CASE toBackend' = toBackend
  BY <1>1, <1>2
<1>3. CASE toBackend' = <<>>
  BY <1>3
<1>4. ASSUME i \in 1..Len(toBackend), \A j \in 1..Len(toBackend) : toBackend'[j] = toBackend[j]
      PROVE  \E j \in 1..(i - 1) : IsStart(toBackend'[j], r)
  <2>1. PICK j \in 1..(i - 1) : IsStart(toBackend[j], r)
    BY <1>1, <1>4
  <2>2. toBackend \in Seq(Push \cup Reply)
    BY DEF TypeOK
  <2>3. Len(toBackend) \in Nat
    BY <2>2
  <2>4. j \in 1..Len(toBackend)
    BY <1>4, <2>3
  <2> QED BY <1>4, <2>1, <2>4
<1>5. CASE ReceiveLoop
  <2>1. PICK t : Receive(t)
    BY <1>5 DEF ReceiveLoop, OnScriptStarted, OnScriptFinished, DeliverResponse
  <2>2. /\ i + 1 \in 1..Len(toBackend) /\ toBackend'[i] = toBackend[i + 1]
        /\ \A k \in 1..Len(toBackend') : toBackend'[k] = toBackend[k + 1]
    BY <2>1, ReceivedFrame
  <2>3. PICK j \in 1..((i + 1) - 1) : IsStart(toBackend[j], r)
    BY <1>1, <2>2
  <2>4. j # 1
    <3>1. ASSUME j = 1 PROVE Settled(r)'
      <4>1. Head(toBackend).type = "started" /\ Head(toBackend).res = r
        BY <2>1, <2>3, <3>1, ReceivedFrame DEF IsStart
      <4>2. OnScriptStarted
        BY <1>5, <4>1 DEF ReceiveLoop, OnScriptFinished, DeliverResponse, Receive
      <4> QED BY <4>1, <4>2 DEF OnScriptStarted, Settled, TypeOK, ScriptDone
    <3> QED BY <3>1
  <2>5. toBackend' \in Seq(Push \cup Reply)
    BY DispatchTypeStep DEF TypeOK
  <2>6. Len(toBackend') \in Nat
    BY <2>5
  <2>7. j - 1 \in 1..(i - 1) /\ j - 1 \in 1..Len(toBackend') /\ (j - 1) + 1 = j
    BY <2>3, <2>4, <2>6
  <2>8. IsStart(toBackend'[j - 1], r)
    BY <2>2, <2>3, <2>7
  <2> QED BY <2>7, <2>8
<1> DEFINE F == Push \cup Reply
<1>6. toBackend \in Seq(F) /\ Len(toBackend) \in Nat
  BY DEF TypeOK
<1>7. ASSUME NEW f \in F, ~IsAccept(f, r), toBackend' = toBackend \o <<f>>
      PROVE  \E j \in 1..(i - 1) : IsStart(toBackend'[j], r)
  <2> HIDE DEF F
  <2>1. /\ Len(toBackend') = Len(toBackend) + 1 /\ toBackend'[Len(toBackend) + 1] = f
        /\ \A k \in 1..Len(toBackend) : toBackend'[k] = toBackend[k]
    BY <1>6, <1>7, AddedFrames
  <2>2. i # Len(toBackend) + 1
    BY <1>7, <2>1
  <2>3. i \in 1..Len(toBackend)
    BY <1>6, <2>1, <2>2
  <2> QED BY <1>4, <2>1, <2>3
<1>8. ASSUME NEW q \in Res, PushFinished(q)
      PROVE  \E j \in 1..(i - 1) : IsStart(toBackend'[j], r)
  <2>1. PICK f : f = [type |-> "finished", res |-> q, outcome |-> running[q]]
    OBVIOUS
  <2>2. f \in Push /\ ~IsAccept(f, r)
    BY <1>8, <2>1 DEF PushFinished, Push, IsAccept
  <2>3. toBackend' = toBackend \/ toBackend' = toBackend \o <<f>>
    BY <1>8, <2>1 DEF PushFinished, PushFrames
  <2> QED BY <1>2, <1>7, <2>2, <2>3
<1>9. CASE Agent
  <2>1. PICK m : m = Head(toAgent)
    OBVIOUS
  <2>2. /\ m \in Request /\ m.res \in Res /\ m.call \in Call
        /\ m.type = "execute" => m.call[1] = m.res
        /\ m.type = "cancel" => m.call[1] \in Canceller
    <3>1. m = toAgent[1] /\ 1 \in 1..Len(toAgent) /\ m \in Request
      BY <1>9, <2>1, HandledFrame
    <3> QED BY <3>1 DEF CallsNamed, Request
  <2>3. PICK st : st = [type |-> "started", res |-> m.res]
    OBVIOUS
  <2>4. PICK yes, no : yes = ReplyTo(m, TRUE) /\ no = ReplyTo(m, FALSE)
    OBVIOUS
  <2>5. /\ st \in F /\ yes \in F /\ no \in F
        /\ IsStart(st, m.res) /\ ~IsAccept(st, r) /\ ~IsAccept(no, r)
    BY <2>2, <2>3, <2>4 DEF Push, Reply, ReplyTo, IsStart, IsAccept
  <2>6. \/ toBackend' = toBackend
        \/ toBackend' = toBackend \o <<yes>> /\ m.type = "cancel"
        \/ toBackend' = toBackend \o <<no>>
        \/ toBackend' = toBackend \o <<st, yes>> /\ m.type = "execute"
    BY <1>9, <2>1, <2>3, <2>4 DEF Agent, AgentExecute, AgentCancel, PushFrames
  <2>7. CASE toBackend' = toBackend \o <<yes>> /\ m.type = "cancel"
    <3>1. ~IsAccept(yes, r)
      BY <2>2, <2>4, <2>7, ResAssumption DEF IsAccept, ReplyTo
    <3> QED BY <1>7, <2>5, <2>7, <3>1
  <2>8. CASE toBackend' = toBackend \o <<st, yes>> /\ m.type = "execute"
    <3> HIDE DEF F
    <3>1. /\ Len(toBackend') = Len(toBackend) + 2
          /\ toBackend'[Len(toBackend) + 1] = st /\ toBackend'[Len(toBackend) + 2] = yes
          /\ \A k \in 1..Len(toBackend) : toBackend'[k] = toBackend[k]
      BY <1>6, <2>5, <2>8, AddedFrames
    <3>2. CASE i \in 1..Len(toBackend)
      BY <1>4, <3>1, <3>2
    <3>3. CASE i = Len(toBackend) + 2
      <4>1. m.res = r
        BY <2>2, <2>4, <2>8, <3>1, <3>3 DEF IsAccept, ReplyTo
      <4>2. Len(toBackend) + 1 \in 1..(i - 1)
        BY <1>6, <3>3
      <4> QED BY <2>5, <3>1, <4>1, <4>2
    <3>4. i # Len(toBackend) + 1
      BY <2>5, <3>1
    <3> QED BY <1>6, <3>1, <3>2, <3>3, <3>4
  <2> QED BY <1>2, <1>7, <2>5, <2>6, <2>7, <2>8
<1> QED BY <1>2, <1>3, <1>5, <1>8, <1>9, AgentUntouched
\* Every step keeps the account of r's attempts.
LEMMA BudgetStep ==
    ASSUME TypeOK, FiredFirst, SendInv, [Next]_vars, NEW r \in Res
    PROVE  Budget(r)'
<1> USE LimitAssumption
<1>0. /\ Budget(r)
      /\ task[r] \in {"none", "queued", "sent"}
      /\ calls[r] \in Nat /\ failures[r] \in Nat /\ Unrecorded \in Nat /\ MaxAttempts \in Nat \ {0}
      /\ r \in Owner
  BY DEF SendInv, TypeOK, Owner, Unrecorded, Fault
<1>s. Settled(r) => Settled(r)'
  BY SettledForGood
<1>1. CASE /\ task'[r] = task[r] /\ calls'[r] = calls[r] /\ failures'[r] = failures[r]
           /\ Unrecorded' = Unrecorded
  <2>1. Attempts(r)' = Attempts(r)
    BY <1>1 DEF Attempts
  <2> QED BY <1>0, <1>s, <1>1, <2>1 DEF Budget
<1>2. CASE Tick
  <2>1. /\ calls'[r] = calls[r] /\ failures'[r] = failures[r] /\ Unrecorded' = Unrecorded
        /\ task'[r] = IF Dispatches(r) \/ Retries(r) THEN "queued" ELSE task[r]
    BY <1>2 DEF Tick, Unrecorded
  <2>2. CASE ~Dispatches(r) /\ ~Retries(r)
    BY <1>1, <2>1, <2>2
  <2>3. CASE Dispatches(r)
    <3>1. calls[r] = 0 /\ failures[r] = 0
      BY <2>3 DEF Dispatches, SendInv, Untried
    <3> QED BY <1>0, <2>1, <2>3, <3>1 DEF Budget, Attempts
  <2>4. CASE Retries(r)
    <3>1. task[r] = "none" /\ ~Settled(r) /\ failures[r] < MaxAttempts
      BY <2>4 DEF Retries, Stuck, SendInv, MarkersFresh, Settled, ScriptDone
    <3> QED BY <1>0, <2>1, <2>4, <3>1 DEF Budget, Attempts
  <2> QED BY <2>2, <2>3, <2>4
<1>3. ASSUME NEW q \in Res, TaskSend(q) PROVE Budget(r)'
  <2>1. Unrecorded' = Unrecorded /\ q \in Owner
    BY <1>3 DEF TaskSend, Unrecorded, Owner
  <2>2. CASE q # r
    <3>1. task'[r] = task[r] /\ calls'[r] = calls[r] /\ failures'[r] = failures[r]
      BY <1>0, <1>3, <2>1, <2>2 DEF TaskSend, RecordAttemptFailed, TypeOK
    <3> QED BY <1>1, <2>1, <3>1
  <2>3. CASE q = r
    <3>1. /\ task[r] = "queued" /\ calls'[r] = calls[r] + 1
          /\ \/ task'[r] = "none" /\ failures'[r] = failures[r] + 1
             \/ task'[r] = "sent" /\ failures'[r] = failures[r]
      BY <1>0, <1>3, <2>3 DEF TaskSend, RecordAttemptFailed, TypeOK
    <3> QED BY <1>0, <2>1, <3>1 DEF Budget, Attempts
  <2> QED BY <2>2, <2>3
<1>4. ASSUME NEW q \in Res, DispatchTimeout(q) PROVE Budget(r)'
  <2>1. Unrecorded' = Unrecorded /\ calls'[r] = calls[r]
    BY <1>4 DEF DispatchTimeout, Unrecorded
  <2>2. CASE q # r
    <3>1. task'[r] = task[r] /\ failures'[r] = failures[r]
      BY <1>0, <1>4, <2>2 DEF DispatchTimeout, RecordAttemptFailed, TypeOK
    <3> QED BY <1>1, <2>1, <3>1
  <2>3. CASE q = r
    <3>1. task[r] = "sent" /\ task'[r] = "none" /\ failures'[r] = failures[r] + 1
      BY <1>0, <1>4, <2>3 DEF DispatchTimeout, RecordAttemptFailed, TypeOK
    <3> QED BY <1>0, <2>1, <3>1 DEF Budget, Attempts
  <2> QED BY <2>2, <2>3
<1>5. ASSUME NEW q \in Res, SendRaises(q) PROVE Budget(r)'
  <2>1. Unrecorded' = Unrecorded + 1 /\ failures'[r] = failures[r] /\ q \in Owner
    <3>1. /\ faults' = [faults EXCEPT !["send"] = faults["send"] + 1]
          /\ faults \in [Fault -> Nat] /\ failures' = failures /\ q \in Owner
      BY <1>5 DEF SendRaises, TypeOK, rowVars, Owner
    <3> QED BY <3>1 DEF Unrecorded, Fault
  <2>2. CASE q # r
    <3>1. task'[r] = task[r] /\ calls'[r] = calls[r]
      BY <1>0, <1>5, <2>1, <2>2 DEF SendRaises, TypeOK
    <3>2. Attempts(r)' = Attempts(r) /\ Attempts(r) \in Nat
      BY <1>0, <3>1 DEF Attempts
    <3> QED BY <1>0, <1>s, <2>1, <3>1, <3>2 DEF Budget
  <2>3. CASE q = r
    <3>1. task[r] = "queued" /\ task'[r] = "none" /\ calls'[r] = calls[r] + 1
      BY <1>0, <1>5, <2>3 DEF SendRaises, TypeOK
    <3> QED BY <1>0, <2>1, <3>1 DEF Budget, Attempts
  <2> QED BY <2>2, <2>3
<1>6. CASE DeliverResponse
  <2>1. PICK m : m = Head(toBackend)
    OBVIOUS
  <2>2. /\ calls'[r] = calls[r] /\ Unrecorded' = Unrecorded
        /\ task'[r] = IF task[r] = "sent" /\ LastCall(r) = m.call THEN "none" ELSE task[r]
        /\ failures'[r] = IF task[r] = "sent" /\ LastCall(r) = m.call /\ ~m.ok
                          THEN failures[r] + 1 ELSE failures[r]
    BY <1>6, <2>1 DEF DeliverResponse, Unrecorded
  <2>3. CASE ~(task[r] = "sent" /\ LastCall(r) = m.call)
    BY <1>1, <2>2, <2>3
  <2>4. CASE task[r] = "sent" /\ LastCall(r) = m.call /\ ~m.ok
    BY <1>0, <2>2, <2>4 DEF Budget, Attempts
  <2>5. CASE task[r] = "sent" /\ LastCall(r) = m.call /\ m.ok
    <3>1. m = toBackend[1] /\ 1 \in 1..Len(toBackend) /\ m.type = "reply"
      BY <1>6, <2>1, ReceivedFrame DEF DeliverResponse, Receive
    <3>2. IsAccept(toBackend[1], r)
      BY <2>5, <3>1 DEF IsAccept, LastCall
    <3>3. Settled(r)
      BY <3>1, <3>2 DEF SendInv, StartFirst
    <3> QED BY <1>0, <1>s, <2>2, <2>5, <3>3 DEF Budget, Attempts
  <2> QED BY <2>3, <2>4, <2>5
<1>7. CASE BackendCrash
  <2>1. /\ task'[r] = "none" /\ calls'[r] = calls[r] /\ failures'[r] = failures[r]
        /\ Unrecorded' = Unrecorded + 1
    <3>1. /\ faults' = [faults EXCEPT !["crash"] = faults["crash"] + 1]
          /\ faults \in [Fault -> Nat]
      BY <1>7 DEF BackendCrash, Counted, TypeOK
    <3>2. Unrecorded' = Unrecorded + 1
      BY <3>1 DEF Unrecorded, Fault
    <3> QED BY <1>7, <3>2 DEF BackendCrash, rowVars
  <2> QED BY <1>0, <1>s, <2>1 DEF Budget, Attempts
<1> QED BY <1>1, <1>2, <1>3, <1>4, <1>5, <1>6, <1>7, CountersUntouched DEF Dispatcher

\* The account is in order initially.
LEMMA SendInit == Init => SendInv
<1> SUFFICES ASSUME Init PROVE SendInv
  OBVIOUS
<1>1. CallsNamed /\ StartFirst
  BY DEF Init, CallsNamed, StartFirst
<1>2. MarkersFresh /\ Untried
  BY DEF Init, MarkersFresh, Untried, Owner
<1>3. ASSUME NEW r \in Res PROVE Budget(r)
  <2>1. task[r] = "none" /\ calls[r] = 0 /\ failures[r] = 0 /\ Unrecorded = 0
    BY DEF Init, Owner, Unrecorded, Fault
  <2> QED BY <2>1, LimitAssumption DEF Budget
<1> QED BY <1>1, <1>2, <1>3 DEF SendInv

\* The account is kept by every step.
LEMMA SendStep == DispatchInv /\ SendInv /\ [Next]_vars => SendInv'
<1> SUFFICES ASSUME DispatchInv, SendInv, [Next]_vars PROVE SendInv'
  OBVIOUS
<1>1. TypeOK /\ FiredFirst
  BY DEF DispatchInv
<1>2. CallsNamed' /\ StartFirst' /\ MarkersFresh' /\ Untried'
  BY <1>1, CallsNamedStep, StartFirstStep, MarkersStep, UntriedStep DEF SendInv
<1>3. \A r \in Res : Budget(r)'
  BY <1>1, BudgetStep
<1> QED BY <1>2, <1>3 DEF SendInv

\* Whatever is lost, late or crashes, the watchdog and the dispatch tasks
\* together send a script at most MaxAttempts times, plus once for each
\* attempt whose failure the backend could not record.
THEOREM SendsAreBounded == Spec => []SendBound
<1>1. DispatchInv /\ SendInv => SendBound
  <2> SUFFICES ASSUME DispatchInv, SendInv, NEW r \in Res
               PROVE  calls[r] <= MaxAttempts + faults["crash"] + faults["send"]
    BY DEF SendBound
  <2>1. /\ Budget(r) /\ calls[r] \in Nat /\ failures[r] \in Nat
        /\ faults["crash"] \in Nat /\ faults["send"] \in Nat /\ MaxAttempts \in Nat
    BY LimitAssumption DEF SendInv, DispatchInv, TypeOK, Owner, Fault
  <2>2. calls[r] <= MaxAttempts + Unrecorded
    <3>1. Unrecorded \in Nat
      BY <2>1 DEF Unrecorded
    <3> QED BY <2>1, <3>1 DEF Budget, Attempts
  <2> QED BY <2>1, <2>2 DEF Unrecorded
<1> QED BY <1>1, DispatchInit, DispatchStep, SendInit, SendStep, PTL DEF Spec
-----------------------------------------------------------------------------
(***************************************************************************)
(* Without faults and with answers inside the RPC timeout, a script runs   *)
(* at most once, and a script that is over is over at the agent too.  The  *)
(* argument follows one dispatch through the two queues: the execute frame *)
(* is replaced by its answer, a start goes ahead of that answer and the    *)
(* end comes after it, so the next attempt finds either nothing or a       *)
(* script whose start is known.                                            *)
(***************************************************************************)
Reliable == ~SlowAgent /\ \A k \in Fault : MaxFaults[k] = 0

Frame == Push \cup Reply

\* What a queue holds: a frame of A; at most one of them; a frame of B ahead
\* of every frame of A.
Occurs(q, A) == \E i \in 1..Len(q) : q[i] \in A
Once(q, A) == \A i, j \in 1..Len(q) : q[i] \in A /\ q[j] \in A => i = j
Ahead(q, A, B) == \A i \in 1..Len(q) : q[i] \in A => \E j \in 1..(i - 1) : q[j] \in B

\* The execute frames of r, those of an earlier call among them, the answers
\* to its latest call and to later ones, and the events about it.
Executes(r) == {m \in Request : m.type = "execute" /\ m.res = r}
Outdated(r) == {m \in Executes(r) : m.call # LastCall(r)}
Answers(r) == {f \in Frame : f.type = "reply" /\ f.call = LastCall(r)}
Future(r) == {f \in Frame : f.type = "reply" /\ f.call[1] = r /\ f.call[2] > calls[r]}
Starts(r) == {f \in Frame : f.type = "started" /\ f.res = r}
Finishes(r) == {f \in Frame : f.type = "finished" /\ f.res = r}

\* A dispatch on its way to the agent, and its answer on the way back.
OnTheWay(r) ==
    /\ Once(toAgent, Executes(r)) /\ ~Occurs(toAgent, Outdated(r))
    /\ ~Occurs(toBackend, Future(r))
    /\ Occurs(toAgent, Executes(r)) =>
           task[r] = "sent" /\ execs[r] = 0 /\ ~Occurs(toBackend, Answers(r))
    /\ task[r] = "sent" =>
           Occurs(toAgent, Executes(r)) \/ Occurs(toBackend, Answers(r))

\* Once the process was started, no further dispatch is made: the answer
\* follows the start.
RanOnce(r) ==
    execs[r] # 0 =>
        /\ execs[r] = 1 /\ Fired(r) /\ task[r] # "queued"
        /\ task[r] = "none" => Settled(r)
        /\ Settled(r) \/ Ahead(toBackend, Answers(r), Starts(r))

\* The end of the process comes after its answer, and the end of the script
\* after both.
EndsLast(r) ==
    /\ running[r] # "none" => execs[r] # 0
    /\ Occurs(toBackend, Finishes(r)) => execs[r] # 0 /\ running[r] = "none"
    /\ task[r] = "sent" => Ahead(toBackend, Finishes(r), Answers(r))
    /\ scriptStatus[r] \in ScriptDone =>
           execs[r] # 0 /\ running[r] = "none" /\ task[r] = "none"
    /\ status[r] = "failed" =>
           task[r] = "none" /\ (scriptStatus[r] \in ScriptDone \/ execs[r] = 0)

RunInv == up /\ \A r \in Res : OnTheWay(r) /\ RanOnce(r) /\ EndsLast(r)

\* What a queue holds after one or two frames were added.
LEMMA QueueGrows ==
    ASSUME NEW S, NEW q \in Seq(S), NEW a \in S, NEW b \in S, NEW A, NEW B
    PROVE  /\ Occurs(q \o <<a>>, A) <=> Occurs(q, A) \/ a \in A
           /\ Occurs(q \o <<a, b>>, A) <=> Occurs(q, A) \/ a \in A \/ b \in A
           /\ Ahead(q, A, B) /\ (a \notin A \/ Occurs(q, B)) => Ahead(q \o <<a>>, A, B)
           /\ Ahead(q, A, B) /\ a \in B /\ a \notin A => Ahead(q \o <<a, b>>, A, B)
           /\ Ahead(q, A, B) /\ a \notin A /\ b \notin A => Ahead(q \o <<a, b>>, A, B)
           /\ ~Occurs(q, A) => Ahead(q, A, B)
<1> DEFINE n == Len(q)  s == q \o <<a>>  t == q \o <<a, b>>
<1>1. /\ n \in Nat
      /\ Len(s) = n + 1 /\ s[n + 1] = a /\ \A i \in 1..n : s[i] = q[i]
      /\ Len(t) = n + 2 /\ t[n + 1] = a /\ t[n + 2] = b /\ \A i \in 1..n : t[i] = q[i]
  BY AddedFrames
<1>2. /\ \A i \in 1..Len(s) : i \in 1..n \/ i = n + 1
      /\ \A i \in 1..Len(t) : i \in 1..n \/ i = n + 1 \/ i = n + 2
      /\ 1..n \subseteq 1..Len(s) /\ 1..n \subseteq 1..Len(t)
      /\ n + 1 \in 1..Len(s) /\ n + 1 \in 1..Len(t) /\ n + 2 \in 1..Len(t)
      /\ \A i \in 1..n : \A j \in 1..(i - 1) : j \in 1..n
      /\ 1..n \subseteq 1..((n + 1) - 1) /\ 1..n \subseteq 1..((n + 2) - 1)
      /\ n + 1 \in 1..((n + 2) - 1)
  BY <1>1
<1> HIDE DEF n, s, t
<1>3. Occurs(s, A) <=> Occurs(q, A) \/ a \in A
  BY <1>1, <1>2 DEF Occurs, n
<1>4. Occurs(t, A) <=> Occurs(q, A) \/ a \in A \/ b \in A
  BY <1>1, <1>2 DEF Occurs, n
<1>5. ASSUME Ahead(q, A, B), a \notin A \/ Occurs(q, B) PROVE Ahead(s, A, B)
  <2> SUFFICES ASSUME NEW i \in 1..Len(s), s[i] \in A PROVE \E j \in 1..(i - 1) : s[j] \in B
    BY DEF Ahead
  <2>1. CASE i \in 1..n
    BY <1>1, <1>2, <1>5, <2>1 DEF Ahead, n
  <2>2. CASE i = n + 1
    <3>1. PICK j \in 1..n : q[j] \in B
      BY <1>1, <1>5, <2>2 DEF Occurs, n
    <3> QED BY <1>1, <1>2, <2>2, <3>1
  <2> QED BY <1>2, <2>1, <2>2
<1>6. ASSUME Ahead(q, A, B), a \notin A, a \in B \/ b \notin A PROVE Ahead(t, A, B)
  <2> SUFFICES ASSUME NEW i \in 1..Len(t), t[i] \in A PROVE \E j \in 1..(i - 1) : t[j] \in B
    BY DEF Ahead
  <2>1. CASE i \in 1..n
    BY <1>1, <1>2, <1>6, <2>1 DEF Ahead, n
  <2>2. CASE i = n + 2
    BY <1>1, <1>2, <1>6, <2>2
  <2> QED BY <1>1, <1>2, <1>6, <2>1, <2>2
<1>7. ~Occurs(q, A) => Ahead(q, A, B)
  BY DEF Occurs, Ahead
<1> QED BY <1>3, <1>4, <1>5, <1>6, <1>7 DEF s, t

\* What is left of it after the first frame was taken.
LEMMA QueueShrinks ==
    ASSUME NEW S, NEW q \in Seq(S), q # <<>>, NEW A, NEW B
    PROVE  /\ Occurs(q, A) <=> Head(q) \in A \/ Occurs(Tail(q), A)
           /\ Once(q, A) => Once(Tail(q), A)
           /\ Once(q, A) /\ Head(q) \in A => ~Occurs(Tail(q), A)
           /\ Ahead(q, A, B) /\ Head(q) \notin B => Ahead(Tail(q), A, B)
           /\ Ahead(q, A, B) => Head(q) \notin A
<1> DEFINE t == Tail(q)  n == Len(t)
<1>1. /\ Len(q) = n + 1 /\ n \in Nat /\ Head(q) = q[1]
      /\ \A i \in 1..n : t[i] = q[i + 1]
  OBVIOUS
<1>2. /\ \A i \in 1..Len(q) : i = 1 \/ (i - 1 \in 1..n /\ (i - 1) + 1 = i)
      /\ \A i \in 1..n : i + 1 \in 1..Len(q) /\ i + 1 # 1
      /\ 1 \in 1..Len(q)
  BY <1>1
<1>3. \A i \in 1..Len(q) : i = 1 \/ t[i - 1] = q[i]
  BY <1>1, <1>2
<1> HIDE DEF t, n
<1>4. Occurs(q, A) <=> Head(q) \in A \/ Occurs(t, A)
  BY <1>1, <1>2, <1>3 DEF Occurs, n
<1>5. ASSUME Once(q, A) PROVE Once(t, A)
  <2> SUFFICES ASSUME NEW i \in 1..Len(t), NEW j \in 1..Len(t), t[i] \in A, t[j] \in A
               PROVE  i = j
    BY DEF Once
  <2>1. i + 1 = j + 1
    BY <1>1, <1>2, <1>5 DEF Once, n
  <2> QED BY <2>1
<1>6. ASSUME Once(q, A), Head(q) \in A PROVE ~Occurs(t, A)
  BY <1>1, <1>2, <1>6 DEF Once, Occurs, n
<1>7. ASSUME Ahead(q, A, B), Head(q) \notin B PROVE Ahead(t, A, B)
  <2> SUFFICES ASSUME NEW i \in 1..n, t[i] \in A PROVE \E j \in 1..(i - 1) : t[j] \in B
    BY DEF Ahead, n
  <2>1. PICK j \in 1..((i + 1) - 1) : q[j] \in B
    BY <1>1, <1>2, <1>7 DEF Ahead
  <2>2. j # 1 /\ j \in 1..Len(q)
    BY <1>1, <1>7, <2>1
  <2>3. j - 1 \in 1..(i - 1)
    BY <2>1, <2>2
  <2> QED BY <1>3, <2>1, <2>2, <2>3
<1>8. ASSUME Ahead(q, A, B) PROVE Head(q) \notin A
  <2>1. 1..(1 - 1) = {}
    OBVIOUS
  <2> QED BY <1>1, <1>2, <1>8, <2>1 DEF Ahead
<1> QED BY <1>4, <1>5, <1>6, <1>7, <1>8 DEF t

\* A frame appended to the requests.
LEMMA RequestsGrow ==
    ASSUME NEW S, NEW q \in Seq(S), NEW a \in S, NEW A
    PROVE  /\ Occurs(Append(q, a), A) <=> Occurs(q, A) \/ a \in A
           /\ Once(q, A) /\ (a \notin A \/ ~Occurs(q, A)) => Once(Append(q, a), A)
<1> DEFINE n == Len(q)  s == Append(q, a)
<1>1. n \in Nat /\ Len(s) = n + 1 /\ s[n + 1] = a /\ \A i \in 1..n : s[i] = q[i]
  OBVIOUS
<1>2. /\ \A i \in 1..Len(s) : i \in 1..n \/ i = n + 1
      /\ 1..n \subseteq 1..Len(s) /\ n + 1 \in 1..Len(s)
  BY <1>1
<1> HIDE DEF n, s
<1>3. Occurs(s, A) <=> Occurs(q, A) \/ a \in A
  BY <1>1, <1>2 DEF Occurs, n
<1>4. ASSUME Once(q, A), a \notin A \/ ~Occurs(q, A) PROVE Once(s, A)
  BY <1>1, <1>2, <1>4 DEF Once, Occurs, n
<1> QED BY <1>3, <1>4 DEF s
\* With no faults allowed, the connection stays up and no send fails.
LEMMA NoFaults ==
    ASSUME Reliable, TypeOK, up, [Next]_vars
    PROVE  /\ up' /\ ~Faults /\ ~Reconnect
           /\ \A q \in Res : ~SendRaises(q)
<1>1. /\ \A k \in Fault : faults[k] \in Nat /\ MaxFaults[k] = 0
      /\ "drop" \in Fault /\ "send" \in Fault /\ "crash" \in Fault /\ "restart" \in Fault
  BY DEF Reliable, TypeOK, Fault
<1>2. ~Faults /\ \A q \in Res : ~SendRaises(q)
  BY <1>1 DEF Faults, Drop, AgentRestart, BackendCrash, Counted, SendRaises
<1>3. ~Reconnect
  BY DEF Reconnect
<1>4. up' = up
  <2>1. ASSUME NEW q \in Res, Scheduler(q) \/ Dispatcher(q) \/ Runner(q) PROVE up' = up
    BY <2>1 DEF Scheduler, Dispatcher, Runner, AdvanceClock, MarkerAges, TaskSend,
                DispatchTimeout, SendRaises, PushFinished, ProcessEnds, linkVars
  <2>2. ASSUME NEW c \in Canceller, CancelRead(c) \/ CancelStep(c) PROVE up' = up
    BY <2>2 DEF CancelStep, CancelRead, CancelSend, CancelRpcTimeout, CancelWake,
                CancelWaitTimeout, CancelCommit, linkVars
  <2>3. ASSUME NEW g \in Groups, CancelGroup(g) PROVE up' = up
    BY <2>3 DEF CancelGroup, linkVars
  <2>4. ASSUME Tick \/ Agent \/ ReceiveLoop PROVE up' = up
    BY <2>4 DEF Tick, Agent, AgentExecute, AgentCancel, ReceiveLoop, OnScriptStarted,
                OnScriptFinished, DeliverResponse, Receive, linkVars
  <2>5. ASSUME UNCHANGED vars PROVE up' = up
    BY <2>5 DEF vars
  <2> QED BY <1>2, <1>3, <2>1, <2>2, <2>3, <2>4, <2>5 DEF Next
<1> QED BY <1>2, <1>3, <1>4

\* No answer is late: a task that waits has its frame or its answer under way.
LEMMA NoTimeouts ==
    ASSUME Reliable, TypeOK, NEW r \in Res, OnTheWay(r)
    PROVE  ~DispatchTimeout(r)
<1> SUFFICES ASSUME task[r] = "sent" PROVE Outstanding(LastCall(r))
  BY DEF DispatchTimeout, MayTimeOut, Reliable
<1>1. CASE Occurs(toAgent, Executes(r))
  <2>1. PICK i \in 1..Len(toAgent) : toAgent[i] \in Executes(r)
    BY <1>1 DEF Occurs
  <2>2. toAgent[i] \notin Outdated(r)
    BY DEF OnTheWay, Occurs
  <2>3. toAgent[i].call = LastCall(r)
    BY <2>1, <2>2 DEF Outdated
  <2> QED BY <2>3 DEF Outstanding
<1>2. CASE Occurs(toBackend, Answers(r))
  BY <1>2 DEF Occurs, Answers, Outstanding
<1> QED BY <1>1, <1>2 DEF OnTheWay

\* The sets of frames of r depend on nothing but its calls.
LEMMA FramesUntouched ==
    ASSUME NEW r \in Res, calls'[r] = calls[r]
    PROVE  /\ Outdated(r)' = Outdated(r) /\ Answers(r)' = Answers(r)
           /\ Future(r)' = Future(r)
  BY DEF Outdated, Answers, Future, LastCall

\* A step that leaves the queues, the agent, the tasks and the scripts alone
\* and fails no reservation.
LEMMA QuietTrack ==
    ASSUME NEW r \in Res, OnTheWay(r), RanOnce(r), EndsLast(r), calls'[r] = calls[r],
           UNCHANGED <<toAgent, toBackend, running, execs, task, scriptStatus, startedSeen>>,
           status'[r] = "failed" => status[r] = "failed"
    PROVE  OnTheWay(r)' /\ RanOnce(r)' /\ EndsLast(r)'
<1>1. Settled(r)' = Settled(r) /\ Fired(r)' = Fired(r)
  BY DEF Settled, Fired
<1>2. OnTheWay(r)'
  BY FramesUntouched DEF OnTheWay
<1>3. RanOnce(r)'
  BY <1>1, FramesUntouched DEF RanOnce
<1>4. EndsLast(r)'
  BY FramesUntouched DEF EndsLast
<1> QED BY <1>2, <1>3, <1>4

\* The tick: it fires or retries only a script without a task that has not
\* been run, and fails only such a script or one that is over.
LEMMA TickTrack ==
    ASSUME TypeOK, FiredFirst, MarkersFresh, Tick, NEW r \in Res,
           OnTheWay(r), RanOnce(r), EndsLast(r)
    PROVE  OnTheWay(r)' /\ RanOnce(r)' /\ EndsLast(r)'
<1>1. /\ UNCHANGED <<toAgent, toBackend, running, execs, startedSeen>> /\ calls'[r] = calls[r]
      /\ task'[r] = IF Dispatches(r) \/ Retries(r) THEN "queued" ELSE task[r]
      /\ scriptStatus'[r] = IF Dispatches(r) THEN "running" ELSE scriptStatus[r]
      /\ status'[r] = IF Closes(r) THEN ClosingStatus(r)
                      ELSE IF GivesUp(r) THEN "failed"
                      ELSE IF Promotes(r) THEN "active" ELSE status[r]
  BY DEF Tick, linkVars, agentVars
<1>2. Dispatches(r) \/ Stuck(r) => task[r] = "none" /\ status[r] # "failed" /\ ~Closes(r)
  BY DEF Dispatches, Stuck, FiredFirst, Fired, MarkersFresh, NowActive, Promotes
<1>3. Dispatches(r) \/ Retries(r) \/ GivesUp(r) => execs[r] = 0 /\ scriptStatus[r] \notin ScriptDone
  <2>1. CASE Dispatches(r)
    BY <2>1 DEF Dispatches, RanOnce, Fired, ScriptDone
  <2>2. CASE Retries(r) \/ GivesUp(r)
    <3>1. Stuck(r) /\ ~Settled(r) /\ scriptStatus[r] \notin ScriptDone
      BY <2>2 DEF Retries, GivesUp, Stuck, Settled, ScriptDone
    <3> QED BY <1>2, <3>1 DEF RanOnce
  <2> QED BY <2>1, <2>2
<1>4. GivesUp(r) => Stuck(r) /\ ~Retries(r) /\ ~Dispatches(r)
  BY LimitAssumption DEF GivesUp, Retries, Dispatches, Stuck, TypeOK
<1>5. Retries(r) => Stuck(r)
  BY DEF Retries
<1>6. OnTheWay(r)'
  BY <1>1, <1>2, <1>5, FramesUntouched DEF OnTheWay
<1>7. RanOnce(r)'
  <2> SUFFICES ASSUME execs[r] # 0 PROVE RanOnce(r)'
    BY <1>1 DEF RanOnce
  <2>1. task'[r] = task[r] /\ scriptStatus'[r] = scriptStatus[r] /\ startedSeen'[r] = startedSeen[r]
    BY <1>1, <1>3
  <2>2. Settled(r)' = Settled(r) /\ Fired(r)' = Fired(r)
    BY <2>1 DEF Settled, Fired
  <2> QED BY <1>1, <2>1, <2>2, FramesUntouched DEF RanOnce
<1>8. EndsLast(r)'
  <2>1. Dispatches(r) \/ Retries(r) => ~Closes(r)
    BY <1>2, <1>5
  <2>2. status'[r] = "failed" => /\ task'[r] = "none"
                                 /\ scriptStatus'[r] \in ScriptDone \/ execs[r] = 0
    <3>1. CASE Closes(r)
      BY <1>1, <2>1, <3>1 DEF ClosingStatus, EndsLast, ScriptDone
    <3>2. CASE GivesUp(r) /\ ~Closes(r)
      BY <1>1, <1>2, <1>3, <1>4, <3>2
    <3>3. CASE ~Closes(r) /\ ~GivesUp(r)
      BY <1>1, <1>2, <1>5, <3>3 DEF EndsLast
    <3> QED BY <3>1, <3>2, <3>3
  <2>3. scriptStatus'[r] \in ScriptDone =>
          scriptStatus[r] \in ScriptDone /\ task'[r] = task[r]
    BY <1>1, <1>3 DEF ScriptDone
  <2>4. task'[r] = "sent" => task[r] = "sent"
    BY <1>1
  <2> QED BY <1>1, <2>2, <2>3, <2>4, FramesUntouched DEF EndsLast
<1> QED BY <1>6, <1>7, <1>8
\* A task sends its frame: nothing else of r is on its way.
LEMMA SendTrack ==
    ASSUME TypeOK, up, NEW q \in Res, TaskSend(q), NEW r \in Res,
           OnTheWay(r), RanOnce(r), EndsLast(r)
    PROVE  OnTheWay(r)' /\ RanOnce(r)' /\ EndsLast(r)'
<1>1. PICK m : m = [type |-> "execute", res |-> q, call |-> NextCall(q)]
  OBVIOUS
<1>2. /\ UNCHANGED <<toBackend, running, execs, scriptStatus, startedSeen, status>>
      /\ toAgent' = Append(toAgent, m) /\ task[q] = "queued"
      /\ task' = [task EXCEPT ![q] = "sent"]
      /\ calls' = [calls EXCEPT ![q] = calls[q] + 1]
  BY <1>1 DEF TaskSend, agentVars
<1>3. /\ m \in Request /\ m.type = "execute" /\ m.res = q /\ m.call = NextCall(q)
      /\ q \in Owner /\ r \in Owner /\ calls[r] \in Nat /\ toAgent \in Seq(Request)
  BY <1>1 DEF Request, Call, NextCall, Owner, TypeOK
<1>4. Settled(r)' = Settled(r) /\ Fired(r)' = Fired(r)
  BY <1>2 DEF Settled, Fired
<1>5. CASE q # r
  <2>1. calls'[r] = calls[r] /\ task'[r] = task[r] /\ m \notin Executes(r) /\ m \notin Outdated(r)
    BY <1>2, <1>3, <1>5 DEF TypeOK, Executes, Outdated
  <2>2. /\ Occurs(toAgent', Executes(r)) <=> Occurs(toAgent, Executes(r))
        /\ Occurs(toAgent', Outdated(r)) <=> Occurs(toAgent, Outdated(r))
        /\ Once(toAgent, Executes(r)) => Once(toAgent', Executes(r))
    BY <1>2, <1>3, <2>1, RequestsGrow
  <2>3. OnTheWay(r)'
    BY <1>2, <2>1, <2>2, FramesUntouched DEF OnTheWay
  <2>4. RanOnce(r)'
    BY <1>2, <1>4, <2>1, FramesUntouched DEF RanOnce
  <2>5. EndsLast(r)'
    BY <1>2, <2>1, FramesUntouched DEF EndsLast
  <2> QED BY <2>3, <2>4, <2>5
<1>6. CASE q = r
  <2>1. /\ calls'[r] = calls[r] + 1 /\ task'[r] = "sent" /\ task[r] = "queued"
        /\ m \in Executes(r) /\ m \notin Outdated(r)'
    BY <1>2, <1>3, <1>6 DEF TypeOK, Executes, Outdated, NextCall, LastCall
  <2>2. execs[r] = 0 /\ ~Occurs(toAgent, Executes(r))
    BY <2>1 DEF OnTheWay, RanOnce
  <2>3. /\ Occurs(toAgent', Executes(r)) /\ Once(toAgent', Executes(r))
        /\ ~Occurs(toAgent', Outdated(r)')
    <3>1. ~Occurs(toAgent, Outdated(r)')
      BY <2>2 DEF Outdated, Occurs
    <3> QED BY <1>2, <1>3, <2>1, <2>2, <3>1, RequestsGrow DEF OnTheWay
  <2>4. Answers(r)' \subseteq Future(r) /\ Future(r)' \subseteq Future(r)
    BY <1>3, <2>1 DEF Answers, Future, LastCall, Frame, Push, Reply, Call
  <2>5. ~Occurs(toBackend', Answers(r)') /\ ~Occurs(toBackend', Future(r)')
    BY <1>2, <2>4 DEF OnTheWay, Occurs
  <2>6. ~Occurs(toBackend', Finishes(r)) /\ Ahead(toBackend', Finishes(r), Answers(r)')
    BY <1>2, <2>2 DEF EndsLast, Occurs, Ahead
  <2>7. OnTheWay(r)'
    BY <1>2, <2>1, <2>2, <2>3, <2>5 DEF OnTheWay
  <2>8. RanOnce(r)'
    BY <1>2, <2>2 DEF RanOnce
  <2>9. EndsLast(r)'
    BY <1>2, <2>1, <2>6 DEF EndsLast, ScriptDone
  <2> QED BY <2>7, <2>8, <2>9
<1> QED BY <1>5, <1>6

\* A cancel sends its frame, which names no dispatch.
LEMMA CancelTrack ==
    ASSUME TypeOK, NEW c \in Canceller, CancelSend(c), NEW r \in Res,
           OnTheWay(r), RanOnce(r), EndsLast(r)
    PROVE  OnTheWay(r)' /\ RanOnce(r)' /\ EndsLast(r)'
<1>1. PICK m : m = [type |-> "cancel", res |-> Target[c], call |-> NextCall(c)]
  OBVIOUS
<1>2. /\ UNCHANGED <<toBackend, running, execs, task, scriptStatus, startedSeen, status>>
      /\ toAgent' = toAgent \/ toAgent' = Append(toAgent, m)
      /\ calls' = calls \/ calls' = [calls EXCEPT ![c] = calls[c] + 1]
  BY <1>1 DEF CancelSend, agentVars, rowVars
<1>3. calls'[r] = calls[r]
  BY <1>2, ResAssumption DEF TypeOK, Owner
<1>4. /\ m \in Request /\ m \notin Executes(r) /\ m \notin Outdated(r)
      /\ toAgent \in Seq(Request)
  BY <1>1, ResAssumption DEF Request, Call, NextCall, Owner, TypeOK, Executes, Outdated
<1>5. /\ Occurs(toAgent', Executes(r)) <=> Occurs(toAgent, Executes(r))
      /\ Occurs(toAgent', Outdated(r)) <=> Occurs(toAgent, Outdated(r))
      /\ Once(toAgent, Executes(r)) => Once(toAgent', Executes(r))
  <2>1. CASE toAgent' = toAgent
    BY <2>1
  <2>2. CASE toAgent' = Append(toAgent, m)
    BY <1>4, <2>2, RequestsGrow
  <2> QED BY <1>2, <2>1, <2>2
<1>6. Settled(r)' = Settled(r) /\ Fired(r)' = Fired(r)
  BY <1>2 DEF Settled, Fired
<1>7. OnTheWay(r)'
  BY <1>2, <1>3, <1>5, FramesUntouched DEF OnTheWay
<1>8. RanOnce(r)'
  BY <1>2, <1>3, <1>6, FramesUntouched DEF RanOnce
<1>9. EndsLast(r)'
  BY <1>2, <1>3, FramesUntouched DEF EndsLast
<1> QED BY <1>7, <1>8, <1>9

\* The frames about r that leave the agent's queue when its first frame does.
LEMMA HeadTaken ==
    ASSUME TypeOK, Agent, NEW r \in Res
    PROVE  /\ Occurs(toAgent, Executes(r)) <=>
                  Head(toAgent) \in Executes(r) \/ Occurs(toAgent', Executes(r))
           /\ Occurs(toAgent', Outdated(r)) => Occurs(toAgent, Outdated(r))
           /\ Head(toAgent) \in Outdated(r) => Occurs(toAgent, Outdated(r))
           /\ Once(toAgent, Executes(r)) => Once(toAgent', Executes(r))
           /\ Once(toAgent, Executes(r)) /\ Head(toAgent) \in Executes(r) =>
                  ~Occurs(toAgent', Executes(r))
<1>1. toAgent # <<>> /\ toAgent' = Tail(toAgent) /\ toAgent \in Seq(Request)
  BY DEF TypeOK, Agent, AgentExecute, AgentCancel
<1> QED BY <1>1, QueueShrinks

\* The agent answers a cancel.
LEMMA AgentCancelTrack ==
    ASSUME TypeOK, up, CallsNamed, AgentCancel, NEW r \in Res,
           OnTheWay(r), RanOnce(r), EndsLast(r)
    PROVE  OnTheWay(r)' /\ RanOnce(r)' /\ EndsLast(r)'
<1>1. PICK m : m = Head(toAgent)
  OBVIOUS
<1>2. PICK f : f = ReplyTo(m, TRUE)
  OBVIOUS
<1>3. /\ UNCHANGED <<execs, task, scriptStatus, startedSeen, status, calls>>
      /\ toBackend' = toBackend \o <<f>> /\ m.type = "cancel" /\ Agent
      /\ running' = [running EXCEPT ![m.res] = IF @ = "running" THEN "killing" ELSE @]
  BY <1>1, <1>2 DEF AgentCancel, Agent, PushFrames, rowVars
<1>4. m \in Request /\ m.call[1] \in Canceller /\ m \notin Executes(r)
  BY <1>1, <1>3, HandledFrame DEF CallsNamed, Executes
<1>5. /\ f \in Frame /\ f \notin Answers(r) /\ f \notin Future(r) /\ f \notin Finishes(r)
      /\ toBackend \in Seq(Frame)
  <2>1. m.call[1] # r /\ m.call \in Call /\ LastCall(r)[1] = r
    BY <1>4, ResAssumption DEF Request, LastCall
  <2> QED BY <1>2, <2>1 DEF Frame, Reply, ReplyTo, Answers, Future, Finishes, TypeOK
<1>a. \A A, B : /\ Occurs(toBackend', A) <=> Occurs(toBackend, A) \/ f \in A
                /\ Ahead(toBackend, A, B) /\ (f \notin A \/ Occurs(toBackend, B))
                     => Ahead(toBackend', A, B)
  BY <1>3, <1>5, QueueGrows
<1>6. /\ Occurs(toBackend', Answers(r)) <=> Occurs(toBackend, Answers(r))
      /\ Occurs(toBackend', Future(r)) <=> Occurs(toBackend, Future(r))
      /\ Occurs(toBackend', Finishes(r)) <=> Occurs(toBackend, Finishes(r))
      /\ Ahead(toBackend, Answers(r), Starts(r)) => Ahead(toBackend', Answers(r), Starts(r))
      /\ Ahead(toBackend, Finishes(r), Answers(r)) => Ahead(toBackend', Finishes(r), Answers(r))
  BY <1>5, <1>a
<1>7. Settled(r)' = Settled(r) /\ Fired(r)' = Fired(r) /\ (running'[r] # "none" <=> running[r] # "none")
  BY <1>3 DEF Settled, Fired, TypeOK
<1>8. OnTheWay(r)'
  BY <1>1, <1>3, <1>4, <1>6, FramesUntouched, HeadTaken DEF OnTheWay
<1>9. RanOnce(r)'
  BY <1>3, <1>6, <1>7, FramesUntouched DEF RanOnce
<1>10. EndsLast(r)'
  BY <1>3, <1>6, <1>7, FramesUntouched DEF EndsLast
<1> QED BY <1>8, <1>9, <1>10

\* The agent refuses or runs a script: the execute frame is replaced by its
\* answer, after the start if the script runs.
LEMMA ExecuteTrack ==
    ASSUME TypeOK, up, FiredFirst, AgentExecute, \A q \in Res : OnTheWay(q),
           NEW r \in Res, RanOnce(r), EndsLast(r)
    PROVE  OnTheWay(r)' /\ RanOnce(r)' /\ EndsLast(r)'
<1>0. OnTheWay(r) /\ Agent
  BY DEF Agent
<1>1. PICK m : m = Head(toAgent)
  OBVIOUS
<1>2. PICK st : st = [type |-> "started", res |-> m.res]
  OBVIOUS
<1>3. PICK yes, no : yes = ReplyTo(m, TRUE) /\ no = ReplyTo(m, FALSE)
  OBVIOUS
<1>4. /\ UNCHANGED <<task, scriptStatus, startedSeen, status, calls>> /\ m.type = "execute"
      /\ \/ toBackend' = toBackend \o <<no>> /\ UNCHANGED <<running, execs>>
         \/ /\ toBackend' = toBackend \o <<st, yes>>
            /\ running' = [running EXCEPT ![m.res] = "running"]
            /\ execs' = [execs EXCEPT ![m.res] = execs[m.res] + 1]
  BY <1>1, <1>2, <1>3 DEF AgentExecute, PushFrames, rowVars, agentVars
<1>5. m \in Request /\ m.res \in Res /\ m \in Executes(m.res) /\ m.call = LastCall(m.res)
  <2>1. m \in Request /\ m.res \in Res /\ m \in Executes(m.res)
    BY <1>0, <1>1, <1>4, HandledFrame DEF Executes
  <2>2. m \notin Outdated(m.res)
    BY <1>0, <1>1, <2>1, HeadTaken DEF OnTheWay
  <2> QED BY <2>1, <2>2 DEF Outdated
<1>6. /\ st \in Frame /\ yes \in Frame /\ no \in Frame /\ toBackend \in Seq(Frame)
      /\ st \notin Answers(r) /\ st \notin Future(r) /\ st \notin Finishes(r)
      /\ yes \notin Future(r) /\ yes \notin Finishes(r)
      /\ no \notin Future(r) /\ no \notin Finishes(r)
  <2>1. m.call \in Call /\ (m.call[1] = r => m.call[2] = calls[r]) /\ calls[r] \in Nat
    <3>1. m.call \in Call /\ calls[r] \in Nat
      BY <1>5 DEF Request, TypeOK, Owner
    <3>2. m.call = <<m.res, calls[m.res]>>
      BY <1>5 DEF LastCall
    <3>3. m.call[1] = m.res /\ m.call[2] = calls[m.res]
      BY <3>2
    <3> QED BY <3>1, <3>3
  <2>2. ~(calls[r] > calls[r])
    BY <2>1
  <2> QED BY <1>2, <1>3, <1>5, <2>1, <2>2 DEF Frame, Push, Reply, ReplyTo, Answers, Future, Finishes, TypeOK
<1>7. Settled(r)' = Settled(r) /\ Fired(r)' = Fired(r)
  BY <1>4 DEF Settled, Fired
<1>a. ASSUME toBackend' = toBackend \o <<no>>
      PROVE  \A A, B : /\ Occurs(toBackend', A) <=> Occurs(toBackend, A) \/ no \in A
                       /\ Ahead(toBackend, A, B) /\ no \notin A => Ahead(toBackend', A, B)
  BY <1>6, <1>a, QueueGrows
<1>b. ASSUME toBackend' = toBackend \o <<st, yes>>
      PROVE  \A A, B : /\ Occurs(toBackend', A) <=> Occurs(toBackend, A) \/ st \in A \/ yes \in A
                       /\ Ahead(toBackend, A, B) /\ st \notin A /\ yes \notin A
                            => Ahead(toBackend', A, B)
                       /\ Ahead(toBackend, A, B) /\ st \in B /\ st \notin A
                            => Ahead(toBackend', A, B)
  BY <1>6, <1>b, QueueGrows
<1>8. /\ Occurs(toBackend', Future(r)) <=> Occurs(toBackend, Future(r))
      /\ Occurs(toBackend', Finishes(r)) <=> Occurs(toBackend, Finishes(r))
      /\ Ahead(toBackend, Finishes(r), Answers(r)) => Ahead(toBackend', Finishes(r), Answers(r))
      /\ Occurs(toBackend, Answers(r)) => Occurs(toBackend', Answers(r))
  <2>1. CASE toBackend' = toBackend \o <<no>>
    BY <1>6, <1>a, <2>1
  <2>2. CASE toBackend' = toBackend \o <<st, yes>>
    BY <1>6, <1>b, <2>2
  <2> QED BY <1>4, <2>1, <2>2
<1>9. CASE m.res # r
  <2>1. m \notin Executes(r) /\ yes \notin Answers(r) /\ no \notin Answers(r)
    BY <1>3, <1>5, <1>9 DEF Executes, Answers, ReplyTo, LastCall
  <2>2. running'[r] = running[r] /\ execs'[r] = execs[r]
    BY <1>4, <1>5, <1>9 DEF TypeOK
  <2>3. /\ Occurs(toBackend', Answers(r)) <=> Occurs(toBackend, Answers(r))
        /\ Ahead(toBackend, Answers(r), Starts(r)) => Ahead(toBackend', Answers(r), Starts(r))
    <3>1. CASE toBackend' = toBackend \o <<no>>
      BY <1>6, <1>a, <2>1, <3>1
    <3>2. CASE toBackend' = toBackend \o <<st, yes>>
      BY <1>6, <1>b, <2>1, <3>2
    <3> QED BY <1>4, <3>1, <3>2
  <2>4. OnTheWay(r)'
    BY <1>0, <1>1, <1>4, <1>8, <2>1, <2>2, <2>3, FramesUntouched, HeadTaken DEF OnTheWay
  <2>5. RanOnce(r)'
    BY <1>4, <1>7, <2>2, <2>3, FramesUntouched DEF RanOnce
  <2>6. EndsLast(r)'
    BY <1>4, <1>8, <2>2, FramesUntouched DEF EndsLast
  <2> QED BY <2>4, <2>5, <2>6
<1>10. CASE m.res = r
  <2>1. Occurs(toAgent, Executes(r)) /\ m \in Executes(r)
    BY <1>0, <1>1, <1>5, <1>10, HeadTaken
  <2>2. /\ task[r] = "sent" /\ execs[r] = 0 /\ ~Occurs(toBackend, Answers(r))
        /\ Once(toAgent, Executes(r))
    BY <1>0, <2>1 DEF OnTheWay
  <2>3. ~Occurs(toAgent', Executes(r))
    BY <1>0, <1>1, <2>1, <2>2, HeadTaken
  <2>4. yes \in Answers(r) /\ no \in Answers(r) /\ st \in Starts(r)
    BY <1>2, <1>3, <1>5, <1>6, <1>10 DEF Answers, Starts, ReplyTo
  <2>5. Occurs(toBackend', Answers(r))
    <3>1. CASE toBackend' = toBackend \o <<no>>
      BY <1>a, <2>4, <3>1
    <3>2. CASE toBackend' = toBackend \o <<st, yes>>
      BY <1>b, <2>4, <3>2
    <3> QED BY <1>4, <3>1, <3>2
  <2>6. OnTheWay(r)'
    BY <1>0, <1>1, <1>4, <1>8, <2>2, <2>3, <2>5, FramesUntouched, HeadTaken DEF OnTheWay
  <2>7. RanOnce(r)'
    <3>1. CASE UNCHANGED <<running, execs>>
      BY <2>2, <3>1 DEF RanOnce
    <3>2. CASE /\ toBackend' = toBackend \o <<st, yes>>
               /\ execs' = [execs EXCEPT ![m.res] = execs[m.res] + 1]
      <4>1. Ahead(toBackend', Answers(r), Starts(r))
        <5>1. Ahead(toBackend, Answers(r), Starts(r))
          BY <2>2 DEF Occurs, Ahead
        <5> QED BY <1>6, <1>b, <2>4, <3>2, <5>1
      <4>2. execs'[r] = 1 /\ Fired(r)
        BY <1>10, <2>2, <3>2 DEF TypeOK, FiredFirst
      <4> QED BY <1>4, <1>7, <2>2, <4>1, <4>2, FramesUntouched DEF RanOnce
    <3> QED BY <1>4, <3>1, <3>2
  <2>8. EndsLast(r)'
    <3>1. /\ scriptStatus[r] \notin ScriptDone /\ status[r] # "failed"
          /\ ~Occurs(toBackend, Finishes(r)) /\ running[r] = "none"
      BY <2>2 DEF EndsLast
    <3>2. running'[r] # "none" => execs'[r] # 0
      BY <1>4, <1>10, <2>2, <3>1 DEF TypeOK
    <3> QED BY <1>4, <1>8, <2>2, <3>1, <3>2, FramesUntouched DEF EndsLast
  <2> QED BY <2>6, <2>7, <2>8
<1> QED BY <1>9, <1>10
\* A process ends by itself: nothing is said about it yet.
LEMMA ProcessTrack ==
    ASSUME TypeOK, NEW q \in Res, NEW o \in ScriptDone, ProcessEnds(q, o), NEW r \in Res,
           OnTheWay(r), RanOnce(r), EndsLast(r)
    PROVE  OnTheWay(r)' /\ RanOnce(r)' /\ EndsLast(r)'
<1>1. /\ UNCHANGED <<toAgent, toBackend, execs, task, scriptStatus, startedSeen, status, calls>>
      /\ running' = [running EXCEPT ![q] = o] /\ running[q] # "none"
  BY DEF ProcessEnds, rowVars, linkVars
<1>2. running'[r] = running[r] \/ running[r] # "none"
  BY <1>1 DEF TypeOK
<1>3. Settled(r)' = Settled(r) /\ Fired(r)' = Fired(r)
  BY <1>1 DEF Settled, Fired
<1>4. OnTheWay(r)'
  BY <1>1, FramesUntouched DEF OnTheWay
<1>5. RanOnce(r)'
  BY <1>1, <1>3, FramesUntouched DEF RanOnce
<1>6. EndsLast(r)'
  BY <1>1, <1>2, FramesUntouched DEF EndsLast
<1> QED BY <1>4, <1>5, <1>6

\* The end of a process is pushed: its answer is in the queue or was taken.
LEMMA PushTrack ==
    ASSUME TypeOK, up, NEW q \in Res, PushFinished(q), NEW r \in Res,
           OnTheWay(r), RanOnce(r), EndsLast(r)
    PROVE  OnTheWay(r)' /\ RanOnce(r)' /\ EndsLast(r)'
<1>1. PICK f : f = [type |-> "finished", res |-> q, outcome |-> running[q]]
  OBVIOUS
<1>2. /\ UNCHANGED <<toAgent, execs, task, scriptStatus, startedSeen, status, calls>>
      /\ running' = [running EXCEPT ![q] = "none"] /\ running[q] # "none"
      /\ toBackend' = toBackend \o <<f>>
  BY <1>1 DEF PushFinished, PushFrames, rowVars, ScriptDone
<1>3. /\ f \in Frame /\ f \notin Answers(r) /\ f \notin Future(r) /\ toBackend \in Seq(Frame)
      /\ q # r => f \notin Finishes(r)
  BY <1>1 DEF PushFinished, Frame, Push, Answers, Future, Finishes, TypeOK
<1>a. \A A, B : /\ Occurs(toBackend', A) <=> Occurs(toBackend, A) \/ f \in A
                /\ Ahead(toBackend, A, B) /\ (f \notin A \/ Occurs(toBackend, B))
                     => Ahead(toBackend', A, B)
  BY <1>2, <1>3, QueueGrows
<1>4. /\ Occurs(toBackend', Answers(r)) <=> Occurs(toBackend, Answers(r))
      /\ Occurs(toBackend', Future(r)) <=> Occurs(toBackend, Future(r))
      /\ Ahead(toBackend, Answers(r), Starts(r)) => Ahead(toBackend', Answers(r), Starts(r))
  BY <1>3, <1>a
<1>5. Settled(r)' = Settled(r) /\ Fired(r)' = Fired(r)
  BY <1>2 DEF Settled, Fired
<1>6. OnTheWay(r)'
  BY <1>2, <1>4, FramesUntouched DEF OnTheWay
<1>7. RanOnce(r)'
  BY <1>2, <1>4, <1>5, FramesUntouched DEF RanOnce
<1>8. CASE q # r
  <2>1. running'[r] = running[r]
    BY <1>2, <1>8 DEF TypeOK
  <2>2. /\ Occurs(toBackend', Finishes(r)) <=> Occurs(toBackend, Finishes(r))
        /\ Ahead(toBackend, Finishes(r), Answers(r)) => Ahead(toBackend', Finishes(r), Answers(r))
    BY <1>3, <1>8, <1>a
  <2>3. EndsLast(r)'
    BY <1>2, <2>1, <2>2, FramesUntouched DEF EndsLast
  <2> QED BY <1>6, <1>7, <2>3
<1>9. CASE q = r
  <2>1. execs[r] # 0 /\ running'[r] = "none" /\ ~Occurs(toBackend, Finishes(r))
    BY <1>2, <1>9 DEF EndsLast, TypeOK
  <2>2. task[r] = "sent" => Occurs(toBackend, Answers(r))
    BY <2>1 DEF OnTheWay
  <2>3. task[r] = "sent" => Ahead(toBackend', Finishes(r), Answers(r))
    BY <2>2, <1>a DEF EndsLast
  <2>4. EndsLast(r)'
    BY <1>2, <2>1, <2>3, FramesUntouched DEF EndsLast
  <2> QED BY <1>6, <1>7, <2>4
<1> QED BY <1>8, <1>9

\* The frames about r that leave the backend's queue when its first frame does.
LEMMA FrameTaken ==
    ASSUME TypeOK, NEW type, Receive(type), NEW A, NEW B
    PROVE  /\ Head(toBackend) \in Frame /\ Head(toBackend).type = type
           /\ toAgent' = toAgent
           /\ Occurs(toBackend, A) <=> Head(toBackend) \in A \/ Occurs(toBackend', A)
           /\ Ahead(toBackend, A, B) /\ Head(toBackend) \notin B => Ahead(toBackend', A, B)
           /\ Ahead(toBackend, A, B) => Head(toBackend) \notin A
<1>1. /\ toBackend # <<>> /\ toBackend' = Tail(toBackend) /\ toBackend \in Seq(Frame)
      /\ Head(toBackend).type = type /\ toAgent' = toAgent
  BY DEF Receive, TypeOK, Frame
<1>2. Head(toBackend) \in Frame
  BY <1>1, TailFrames
<1> QED BY <1>1, <1>2, QueueShrinks

\* A start arrives: from now on it is known.
LEMMA StartTrack ==
    ASSUME TypeOK, FiredFirst, OnScriptStarted, NEW r \in Res,
           OnTheWay(r), RanOnce(r), EndsLast(r)
    PROVE  OnTheWay(r)' /\ RanOnce(r)' /\ EndsLast(r)'
<1>1. PICK f : f = Head(toBackend)
  OBVIOUS
<1>2. Receive("started") /\ UNCHANGED <<execs, running, task, status, calls>>
  BY DEF OnScriptStarted, agentVars
<1>3. /\ f \in Frame /\ f.type = "started" /\ f.res \in Res /\ Fired(f.res)
      /\ f \notin Answers(r) /\ f \notin Finishes(r) /\ f \notin Future(r)
  <2>1. f \in Frame /\ f.type = "started" /\ f = toBackend[1] /\ 1 \in 1..Len(toBackend)
    BY <1>1, <1>2, FrameTaken, ReceivedFrame
  <2> QED BY <2>1 DEF Frame, Push, Reply, Answers, Finishes, Future, FiredFirst
<1>4. /\ scriptStatus' = [scriptStatus EXCEPT ![f.res] =
                             IF scriptStatus[f.res] \in {"null", "running"} THEN "running" ELSE @]
      /\ startedSeen' = [startedSeen EXCEPT ![f.res] =
                             @ \/ scriptStatus[f.res] \in {"null", "running"}]
  BY <1>1 DEF OnScriptStarted
<1>5. scriptStatus'[r] = scriptStatus[r] /\ Fired(r)' = Fired(r)
  BY <1>3, <1>4 DEF TypeOK, Fired
<1>6. (Settled(r) => Settled(r)') /\ (f.res = r => Settled(r)')
  <2>1. scriptStatus[r] \in {"null", "running"} \cup ScriptDone
    BY DEF TypeOK
  <2> QED BY <1>3, <1>4, <1>5, <2>1 DEF Settled, TypeOK
<1>7. /\ Occurs(toBackend', Answers(r)) <=> Occurs(toBackend, Answers(r))
      /\ Occurs(toBackend', Future(r)) <=> Occurs(toBackend, Future(r))
      /\ Occurs(toBackend', Finishes(r)) <=> Occurs(toBackend, Finishes(r))
      /\ Ahead(toBackend, Finishes(r), Answers(r)) => Ahead(toBackend', Finishes(r), Answers(r))
      /\ toAgent' = toAgent
  BY <1>1, <1>2, <1>3, FrameTaken
<1>8. f.res # r /\ Ahead(toBackend, Answers(r), Starts(r)) => Ahead(toBackend', Answers(r), Starts(r))
  BY <1>1, <1>2, FrameTaken DEF Starts
<1>9. OnTheWay(r)'
  BY <1>2, <1>7, FramesUntouched DEF OnTheWay
<1>10. RanOnce(r)'
  BY <1>2, <1>5, <1>6, <1>8, FramesUntouched DEF RanOnce
<1>11. EndsLast(r)'
  BY <1>2, <1>5, <1>7, FramesUntouched DEF EndsLast
<1> QED BY <1>9, <1>10, <1>11

\* An end arrives: the answer was taken before it, so no task waits.
LEMMA FinishTrack ==
    ASSUME TypeOK, FiredFirst, OnScriptFinished, NEW r \in Res,
           OnTheWay(r), RanOnce(r), EndsLast(r)
    PROVE  OnTheWay(r)' /\ RanOnce(r)' /\ EndsLast(r)'
<1>1. PICK f : f = Head(toBackend)
  OBVIOUS
<1>2. Receive("finished") /\ UNCHANGED <<execs, running, task, status, calls, startedSeen>>
  BY DEF OnScriptFinished, agentVars
<1>3. /\ f \in Frame /\ f.type = "finished" /\ f.res \in Res /\ f.outcome \in ScriptDone
      /\ f \notin Answers(r) /\ f \notin Starts(r) /\ f \notin Future(r)
  <2>1. f \in Frame /\ f.type = "finished"
    BY <1>1, <1>2, FrameTaken
  <2> QED BY <2>1 DEF Frame, Push, Reply, Answers, Starts, Future
<1>4. scriptStatus' = [scriptStatus EXCEPT ![f.res] = IF @ = "running" THEN f.outcome ELSE @]
  BY <1>1 DEF OnScriptFinished
<1>5. /\ scriptStatus'[r] = scriptStatus[r] \/ (f.res = r /\ scriptStatus'[r] \in ScriptDone)
      /\ scriptStatus[r] \in ScriptDone => scriptStatus'[r] \in ScriptDone
  BY <1>3, <1>4 DEF TypeOK, ScriptDone
<1>6. (Settled(r) => Settled(r)') /\ (Fired(r) => Fired(r)')
  BY <1>2, <1>5 DEF Settled, Fired, ScriptDone
<1>7. /\ Occurs(toBackend', Answers(r)) <=> Occurs(toBackend, Answers(r))
      /\ Occurs(toBackend', Future(r)) <=> Occurs(toBackend, Future(r))
      /\ Occurs(toBackend', Finishes(r)) => Occurs(toBackend, Finishes(r))
      /\ Ahead(toBackend, Finishes(r), Answers(r)) => Ahead(toBackend', Finishes(r), Answers(r))
      /\ Ahead(toBackend, Answers(r), Starts(r)) => Ahead(toBackend', Answers(r), Starts(r))
      /\ toAgent' = toAgent
  BY <1>1, <1>2, <1>3, FrameTaken
<1>8. f.res = r => execs[r] # 0 /\ running[r] = "none" /\ task[r] = "none"
  <2> SUFFICES ASSUME f.res = r PROVE execs[r] # 0 /\ running[r] = "none" /\ task[r] = "none"
    OBVIOUS
  <2>1. f \in Finishes(r)
    BY <1>3 DEF Finishes
  <2>2. Occurs(toBackend, Finishes(r)) /\ ~Ahead(toBackend, Finishes(r), Answers(r))
    BY <1>1, <1>2, <2>1, FrameTaken
  <2> QED BY <2>2 DEF EndsLast, RanOnce, TypeOK
<1>9. OnTheWay(r)'
  BY <1>2, <1>7, FramesUntouched DEF OnTheWay
<1>10. RanOnce(r)'
  BY <1>2, <1>6, <1>7, FramesUntouched DEF RanOnce
<1>11. EndsLast(r)'
  BY <1>2, <1>5, <1>7, <1>8, FramesUntouched DEF EndsLast
<1> QED BY <1>9, <1>10, <1>11

\* An answer arrives: the call that waits for it is over, and if the script
\* runs, its start was taken before.
LEMMA ReplyTrack ==
    ASSUME TypeOK, DeliverResponse, NEW r \in Res, OnTheWay(r), RanOnce(r), EndsLast(r)
    PROVE  OnTheWay(r)' /\ RanOnce(r)' /\ EndsLast(r)'
<1>1. PICK f : f = Head(toBackend)
  OBVIOUS
<1>2. /\ Receive("reply")
      /\ UNCHANGED <<execs, running, scriptStatus, status, calls, startedSeen>>
      /\ task'[r] = IF task[r] = "sent" /\ LastCall(r) = f.call THEN "none" ELSE task[r]
  BY <1>1 DEF DeliverResponse, agentVars
<1>3. /\ f \in Frame /\ f.type = "reply" /\ f \notin Finishes(r) /\ f \notin Starts(r)
      /\ f \in Answers(r) <=> LastCall(r) = f.call
  <2>1. f \in Frame /\ f.type = "reply"
    BY <1>1, <1>2, FrameTaken
  <2> QED BY <2>1 DEF Answers, Starts, Finishes
<1>4. Settled(r)' = Settled(r) /\ Fired(r)' = Fired(r)
  BY <1>2 DEF Settled, Fired
<1>5. /\ Occurs(toBackend, Answers(r)) <=> f \in Answers(r) \/ Occurs(toBackend', Answers(r))
      /\ Occurs(toBackend', Future(r)) => Occurs(toBackend, Future(r))
      /\ Occurs(toBackend', Finishes(r)) => Occurs(toBackend, Finishes(r))
      /\ /\ Ahead(toBackend, Finishes(r), Answers(r)) /\ f \notin Answers(r)
         => Ahead(toBackend', Finishes(r), Answers(r))
      /\ Ahead(toBackend, Answers(r), Starts(r)) => Ahead(toBackend', Answers(r), Starts(r))
      /\ Ahead(toBackend, Answers(r), Starts(r)) => f \notin Answers(r)
      /\ toAgent' = toAgent
  BY <1>1, <1>2, <1>3, FrameTaken
<1>6. OnTheWay(r)'
  BY <1>2, <1>3, <1>5, FramesUntouched DEF OnTheWay
<1>7. RanOnce(r)'
  <2>1. CASE f \in Answers(r) /\ execs[r] # 0
    <3>1. Settled(r)
      BY <1>5, <2>1 DEF RanOnce
    <3>2. task'[r] # "queued"
      BY <1>2, <2>1 DEF RanOnce
    <3> QED BY <1>2, <1>4, <2>1, <3>1, <3>2 DEF RanOnce
  <2>2. CASE f \notin Answers(r)
    <3>1. task'[r] = task[r]
      BY <1>2, <1>3, <2>2
    <3> QED BY <1>2, <1>4, <1>5, <3>1, FramesUntouched DEF RanOnce
  <2>3. CASE execs[r] = 0
    BY <1>2, <2>3 DEF RanOnce
  <2> QED BY <2>1, <2>2, <2>3
<1>8. EndsLast(r)'
  <2>1. task'[r] = "sent" => task[r] = "sent" /\ f \notin Answers(r)
    BY <1>2, <1>3
  <2>2. task[r] = "none" => task'[r] = "none"
    BY <1>2
  <2> QED BY <1>2, <1>5, <2>1, <2>2, FramesUntouched DEF EndsLast
<1> QED BY <1>6, <1>7, <1>8

\* The steps that touch none of this.
LEMMA OtherSteps ==
    ASSUME TypeOK, NEW r \in Res,
           \/ UNCHANGED vars
           \/ \E q \in Res : Scheduler(q)
           \/ \E c \in Canceller : (CancelRead(c) \/ CancelStep(c)) /\ ~CancelSend(c)
           \/ \E g \in Groups : CancelGroup(g)
    PROVE  /\ UNCHANGED <<toAgent, toBackend, running, execs, task, calls, scriptStatus,
                          startedSeen>>
           /\ status'[r] = "failed" => status[r] = "failed"
<1>1. ASSUME UNCHANGED vars
      PROVE  UNCHANGED <<toAgent, toBackend, running, execs, task, calls, scriptStatus,
                         startedSeen, status>>
  BY <1>1 DEF vars
<1>2. ASSUME NEW q \in Res, Scheduler(q)
      PROVE  UNCHANGED <<toAgent, toBackend, running, execs, task, calls, scriptStatus,
                         startedSeen, status>>
  BY <1>2 DEF Scheduler, AdvanceClock, MarkerAges, rowVars, linkVars, agentVars
<1>3. ASSUME NEW c \in Canceller, (CancelRead(c) \/ CancelStep(c)) /\ ~CancelSend(c)
      PROVE  /\ UNCHANGED <<toAgent, toBackend, running, execs, task, calls, scriptStatus,
                            startedSeen>>
             /\ status'[r] = "failed" => status[r] = "failed"
  <2>1. CASE CancelCommit(c)
    BY <2>1 DEF CancelCommit, linkVars, agentVars, TypeOK
  <2>2. CASE CancelRead(c) \/ CancelRpcTimeout(c) \/ CancelWake(c) \/ CancelWaitTimeout(c)
    BY <2>2 DEF CancelRead, CancelRpcTimeout, CancelWake, CancelWaitTimeout, rowVars, linkVars,
                agentVars
  <2> QED BY <1>3, <2>1, <2>2 DEF CancelStep
<1>4. ASSUME NEW g \in Groups, CancelGroup(g)
      PROVE  /\ UNCHANGED <<toAgent, toBackend, running, execs, task, calls, scriptStatus,
                            startedSeen>>
             /\ status'[r] = "failed" => status[r] = "failed"
  BY <1>4 DEF CancelGroup, linkVars, agentVars
<1> QED BY <1>1, <1>2, <1>3, <1>4

\* The dispatch of every reservation stays on track.
LEMMA RunStep == Reliable /\ DispatchInv /\ SendInv /\ RunInv /\ [Next]_vars => RunInv'
<1> SUFFICES ASSUME Reliable, DispatchInv, SendInv, RunInv, [Next]_vars PROVE RunInv'
  OBVIOUS
<1>1. TypeOK /\ FiredFirst /\ CallsNamed /\ MarkersFresh /\ up
  BY DEF DispatchInv, SendInv, RunInv
<1>2. up' /\ ~Faults /\ ~Reconnect /\ \A q \in Res : ~SendRaises(q) /\ ~DispatchTimeout(q)
  BY <1>1, NoFaults, NoTimeouts DEF RunInv
<1>3. ASSUME NEW r \in Res PROVE OnTheWay(r)' /\ RanOnce(r)' /\ EndsLast(r)'
  <2>0. OnTheWay(r) /\ RanOnce(r) /\ EndsLast(r) /\ \A q \in Res : OnTheWay(q)
    BY DEF RunInv
  <2>1. CASE Tick
    BY <1>1, <2>0, <2>1, TickTrack
  <2>2. CASE Agent
    BY <1>1, <2>0, <2>2, ExecuteTrack, AgentCancelTrack DEF Agent
  <2>3. CASE ReceiveLoop
    BY <1>1, <2>0, <2>3, StartTrack, FinishTrack, ReplyTrack DEF ReceiveLoop
  <2>4. ASSUME NEW q \in Res, Dispatcher(q) PROVE OnTheWay(r)' /\ RanOnce(r)' /\ EndsLast(r)'
    BY <1>1, <1>2, <2>0, <2>4, SendTrack DEF Dispatcher
  <2>5. ASSUME NEW q \in Res, Runner(q) PROVE OnTheWay(r)' /\ RanOnce(r)' /\ EndsLast(r)'
    BY <1>1, <2>0, <2>5, PushTrack, ProcessTrack DEF Runner
  <2>6. ASSUME NEW c \in Canceller, CancelSend(c)
        PROVE  OnTheWay(r)' /\ RanOnce(r)' /\ EndsLast(r)'
    BY <1>1, <2>0, <2>6, CancelTrack
  <2>7. CASE \/ UNCHANGED vars
             \/ \E q \in Res : Scheduler(q)
             \/ \E c \in Canceller : (CancelRead(c) \/ CancelStep(c)) /\ ~CancelSend(c)
             \/ \E g \in Groups : CancelGroup(g)
    <3>1. /\ UNCHANGED <<toAgent, toBackend, running, execs, task, calls, scriptStatus,
                         startedSeen>>
          /\ status'[r] = "failed" => status[r] = "failed"
      BY <1>1, <2>7, OtherSteps
    <3> QED BY <2>0, <3>1, QuietTrack
  <2> QED BY <1>2, <2>1, <2>2, <2>3, <2>4, <2>5, <2>6, <2>7 DEF Next
<1> QED BY <1>2, <1>3 DEF RunInv

\* Nothing is under way initially.
LEMMA RunInit == Init => RunInv
<1> SUFFICES ASSUME Init, NEW r \in Res PROVE OnTheWay(r) /\ RanOnce(r) /\ EndsLast(r)
  BY DEF Init, RunInv
<1>1. toAgent = <<>> /\ toBackend = <<>>
  BY DEF Init
<1>2. \A A, B : ~Occurs(<<>>, A) /\ Once(<<>>, A) /\ Ahead(<<>>, A, B)
  BY DEF Occurs, Once, Ahead
<1>3. OnTheWay(r)
  BY <1>1, <1>2 DEF Init, OnTheWay
<1>4. RanOnce(r)
  BY DEF Init, RanOnce
<1>5. EndsLast(r)
  BY <1>1, <1>2 DEF Init, EndsLast, ScriptDone
<1> QED BY <1>3, <1>4, <1>5

\* When no message is lost or slow, the tick, its watchdog and the agent
\* start the process of a script at most once, however often the agent
\* refuses it and however late the ticks are.
THEOREM ScriptsRunOnce == Reliable => (Spec => []AtMostOnceExecution)
<1> SUFFICES ASSUME Reliable PROVE Spec => []AtMostOnceExecution
  OBVIOUS
<1>1. DispatchInv /\ SendInv /\ RunInv /\ [Next]_vars => RunInv'
  BY RunStep
<1>2. DispatchInv /\ RunInv => AtMostOnceExecution
  <2> SUFFICES ASSUME RunInv, NEW r \in Res, DispatchInv PROVE execs[r] <= 1
    BY DEF AtMostOnceExecution
  <2>1. RanOnce(r) /\ execs[r] \in Nat
    BY DEF RunInv, DispatchInv, TypeOK
  <2> QED BY <2>1 DEF RanOnce
<1> QED BY <1>1, <1>2, DispatchInit, DispatchStep, SendInit, SendStep, RunInit, PTL DEF Spec

\* When no message is lost or slow, a script the platform takes for over (its
\* outcome is recorded, the watchdog gave it up, or a confirmed cancel is
\* about to commit) is neither run by the agent nor about to be.
THEOREM OverIsIdle == Reliable => (Spec => []OverMeansIdle)
<1> SUFFICES ASSUME Reliable PROVE Spec => []OverMeansIdle
  OBVIOUS
<1>1. DispatchInv /\ SendInv /\ RunInv /\ [Next]_vars => RunInv'
  BY RunStep
<1>2. DispatchInv /\ RunInv => OverMeansIdle
  <2> SUFFICES ASSUME DispatchInv, RunInv, NEW r \in Res,
                      \/ scriptStatus[r] \in ScriptDone
                      \/ status[r] = "failed"
                      \/ \E c \in Canceller : Target[c] = r /\ cancel[c] = "commit"
               PROVE  ~AtAgent(r) /\ task[r] = "none"
    BY DEF OverMeansIdle
  <2>1. OnTheWay(r) /\ RanOnce(r) /\ EndsLast(r) /\ toAgent \in Seq(Request)
    BY DEF RunInv, DispatchInv, TypeOK
  <2>2. scriptStatus[r] \in ScriptDone \/ status[r] = "failed"
    BY DEF DispatchInv, KillRegistry
  <2>3. task[r] = "none" /\ running[r] = "none"
    BY <2>1, <2>2 DEF EndsLast
  <2>4. ~Occurs(toAgent, Executes(r))
    BY <2>1, <2>3 DEF OnTheWay
  <2>5. \A i \in 1..Len(toAgent) : toAgent[i] \in Request /\ toAgent[i] \notin Executes(r)
    BY <2>1, <2>4 DEF Occurs
  <2> QED BY <2>3, <2>5 DEF AtAgent, Executes
<1> QED BY <1>1, <1>2, DispatchInit, DispatchStep, SendInit, SendStep, RunInit, PTL DEF Spec
=============================================================================
