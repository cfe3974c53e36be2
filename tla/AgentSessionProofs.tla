------------------------- MODULE AgentSessionProofs -------------------------
(***************************************************************************)
(* Proofs about AgentSession, for every set of connections and approvals   *)
(* and any number of faults.  The result is ContextDelivered: a handler    *)
(* registers its socket before it reads whether the server is approved,    *)
(* and an approval commits before it looks at the pool, so one of the two  *)
(* sees the other.  The inductive invariant names, for each item that has  *)
(* not been sent yet, who is still going to send it.                       *)
(***************************************************************************)
EXTENDS AgentSession, TLAPS

\* A coroutine that is not sending context will start with the first item.
StepFresh == \A p \in Proc : pc[p] # "sync" => step[p] = 1

\* The handler of c has yet to send item i, having found the server approved.
HandlerWill(c, i) ==
    \/ pc[c] = "greeting" /\ Approved(snap[c])
    \/ pc[c] = "sync" /\ step[c] <= i

\* Some approval has yet to send item i.
ApprovalWill(i) ==
    \E a \in Admin : pc[a] = "committed" \/ (pc[a] = "sync" /\ step[a] <= i)

\* Every item of the context of the connection in the pool has been sent (or
\* could not be composed), or somebody is still going to send it.
Delivery ==
    \A c \in Conn :
        pool = c /\ c \in open /\ Approved(row) /\ pc[c] \in Serving \ {"greet"} =>
            \A i \in DOMAIN Context :
                Context[i] \in sent[c] \cup failed \/ HandlerWill(c, i) \/ ApprovalWill(i)

SessionInv == TypeOK /\ StepFresh /\ PoolIsCurrent /\ Delivery

-----------------------------------------------------------------------------
\* The context as the provers need it: four items.
LEMMA ContextFacts ==
    /\ DOMAIN Context = 1..4
    /\ Len(Context) = 4
    /\ \A i \in DOMAIN Context : Context[i] \in Item
BY DEF Context, Item

\* A server is created with a well-formed row.
LEMMA NewRowType == NewRow \in Row
BY DEF NewRow, Row, Status

\* The initial state satisfies the inductive invariant.
LEMMA SessionInit == Init => SessionInv
<1> SUFFICES ASSUME Init PROVE SessionInv
  OBVIOUS
<1> USE SessionAssumption DEF Init, Proc
<1>1. TypeOK
  BY ContextFacts, NewRowType DEF TypeOK, Fault
<1>2. StepFresh
  BY DEF StepFresh
<1>3. PoolIsCurrent
  BY DEF PoolIsCurrent
<1>4. Delivery
  BY DEF Delivery
<1> QED BY <1>1, <1>2, <1>3, <1>4 DEF SessionInv

\* Every step keeps the types.
LEMMA SessionTypeStep ==
    ASSUME TypeOK, [Next]_vars
    PROVE  TypeOK'
<1> USE SessionAssumption, NewRowType, ContextFacts DEF TypeOK, Proc, Serving
<1>1. ASSUME NEW c \in Conn, Connect(c) \/ Close(c) PROVE TypeOK'
  <2>1. CASE Connect(c)
    BY <2>1 DEF Connect, Row
  <2>2. CASE Close(c)
    BY <2>2 DEF Close
  <2> QED BY <1>1, <2>1, <2>2
<1>2. ASSUME NEW c \in Conn, Register(c) \/ Kick(c) \/ KickDone(c) PROVE TypeOK'
  BY <1>2 DEF Register, Kick, KickDone, Enter
<1>3. ASSUME NEW c \in Conn, HeartbeatRead(c) \/ HeartbeatWrite(c) PROVE TypeOK'
  <2>1. CASE HeartbeatRead(c)
    BY <2>1 DEF HeartbeatRead
  <2>2. CASE HeartbeatWrite(c)
    <3>1. row' \in Row
      BY <2>2 DEF HeartbeatWrite, Row, Status
    <3> QED BY <2>2, <3>1 DEF HeartbeatWrite
  <2> QED BY <1>3, <2>1, <2>2
<1>4. ASSUME NEW p \in Proc, PushContext(p) \/ PushFails(p) PROVE TypeOK'
  <2>1. step' \in [Proc -> DOMAIN Context]
    BY <1>4 DEF PushContext, PushFails, NextItem
  <2>2. pc' = [pc EXCEPT ![p] = IF step[p] < Len(Context) THEN "sync"
                               ELSE IF p \in Conn THEN "loop" ELSE "done"]
    BY <1>4 DEF PushContext, PushFails, NextItem
  <2>3. CASE PushContext(p)
    BY <2>1, <2>2, <2>3 DEF PushContext
  <2>4. CASE PushFails(p)
    BY <2>1, <2>2, <2>4 DEF PushFails, Counted, Fault
  <2> QED BY <1>4, <2>3, <2>4
<1>5. ASSUME NEW c \in Conn, Disconnect(c) \/ MarkOfflineRead(c) \/ MarkOfflineWrite(c)
      PROVE TypeOK'
  <2>1. CASE Disconnect(c) \/ MarkOfflineRead(c)
    BY <2>1 DEF Disconnect, Unregister, MarkOfflineRead
  <2>2. CASE MarkOfflineWrite(c)
    BY <2>2 DEF MarkOfflineWrite, Row, Status
  <2> QED BY <1>5, <2>1, <2>2
<1>6. ASSUME NEW a \in Admin, ApproveRead(a) \/ ApproveCheck(a) \/ PushAfterApproval(a)
      PROVE TypeOK'
  <2>1. CASE ApproveRead(a) \/ PushAfterApproval(a)
    BY <2>1 DEF ApproveRead, PushAfterApproval
  <2>2. CASE ApproveCheck(a)
    <3>1. online' \in [Admin -> BOOLEAN]
      <4>1. online' = [online EXCEPT ![a] = pool # None]
        BY <2>2 DEF ApproveCheck
      <4>2. (pool # None) \in BOOLEAN
        OBVIOUS
      <4>3. online \in [Admin -> BOOLEAN]
        OBVIOUS
      <4> HIDE DEF TypeOK
      <4> QED BY ONLY <4>1, <4>2, <4>3, Zenon
    <3> QED BY <2>2, <3>1 DEF ApproveCheck
  <2> QED BY <1>6, <2>1, <2>2
<1>7. ASSUME NEW a \in Admin, ApproveCommit(a) PROVE TypeOK'
  BY <1>7 DEF ApproveCommit, ApprovedStatus, Row, Status
<1>8. CASE Delete
  BY <1>8 DEF Delete, Row, Status
<1>9. ASSUME NEW c \in Conn, GreetingFails(c) \/ HeartbeatFails(c) PROVE TypeOK'
  BY <1>9 DEF GreetingFails, HeartbeatFails, Unregister, Counted, Fault
<1>10. ASSUME NEW p \in Proc, CommitFails(p) PROVE TypeOK'
  BY <1>10 DEF CommitFails, Counted, Fault
<1>11. CASE BackendCrash
  BY <1>11 DEF BackendCrash, Counted, Fault
<1>12. CASE UNCHANGED vars
  BY <1>12 DEF vars
<1> QED BY <1>1, <1>2, <1>3, <1>4, <1>5, <1>6, <1>7, <1>8, <1>9, <1>10, <1>11, <1>12
        DEF Next, Handler, Approval

\* A coroutine enters the context push with its first item to send, and
\* leaves it after the last.
LEMMA StepFreshStep ==
    ASSUME TypeOK, StepFresh, [Next]_vars
    PROVE  StepFresh'
<1> USE SessionAssumption, ContextFacts DEF TypeOK, StepFresh, Proc
<1>1. ASSUME NEW p \in Proc, PushContext(p) \/ PushFails(p) PROVE StepFresh'
  BY <1>1 DEF PushContext, PushFails, NextItem
<1>2. ASSUME step' = step, \A q \in Proc : pc[q] = "sync" => pc'[q] = "sync"
      PROVE StepFresh'
  BY <1>2
<1>3. ASSUME NEW c \in Conn,
             \/ Connect(c) \/ Register(c) \/ Kick(c) \/ KickDone(c)
             \/ HeartbeatRead(c) \/ HeartbeatWrite(c) \/ Disconnect(c)
             \/ MarkOfflineRead(c) \/ MarkOfflineWrite(c)
             \/ Close(c) \/ GreetingFails(c) \/ HeartbeatFails(c)
      PROVE StepFresh'
  BY <1>2, <1>3 DEF Connect, Register, Kick, KickDone, Enter, HeartbeatRead, HeartbeatWrite,
                    Disconnect, MarkOfflineRead, MarkOfflineWrite, Close, GreetingFails,
                    HeartbeatFails
<1>4. ASSUME NEW a \in Admin, \/ ApproveRead(a) \/ ApproveCheck(a) \/ ApproveCommit(a)
                              \/ PushAfterApproval(a)
      PROVE StepFresh'
  BY <1>2, <1>4 DEF ApproveRead, ApproveCheck, ApproveCommit, PushAfterApproval
<1>5. ASSUME NEW p \in Proc, CommitFails(p) PROVE StepFresh'
  BY <1>2, <1>5 DEF CommitFails
<1>6. CASE Delete \/ UNCHANGED vars
  BY <1>2, <1>6 DEF Delete, vars
<1>7. CASE BackendCrash
  BY <1>7 DEF BackendCrash
<1> QED BY <1>1, <1>3, <1>4, <1>5, <1>6, <1>7 DEF Next, Handler, Approval

\* The pool follows the connection that registered last.
LEMMA PoolStep ==
    ASSUME TypeOK, PoolIsCurrent, [Next]_vars
    PROVE  PoolIsCurrent'
<1> USE SessionAssumption DEF TypeOK, PoolIsCurrent, Proc, Serving
<1>1. ASSUME pool' = pool, last' = last,
             \A c \in Conn : pc[c] \in Serving \cup {"lost"} <=> pc'[c] \in Serving \cup {"lost"}
      PROVE PoolIsCurrent'
  BY <1>1
<1>2. ASSUME NEW c \in Conn, Register(c) \/ KickDone(c) PROVE PoolIsCurrent'
  BY <1>2 DEF Register, KickDone, Enter
<1>3. ASSUME NEW c \in Conn, Disconnect(c) \/ HeartbeatFails(c) PROVE PoolIsCurrent'
  BY <1>3 DEF Disconnect, HeartbeatFails, Unregister
<1>4. ASSUME NEW c \in Conn,
             \/ Connect(c) \/ Kick(c) \/ HeartbeatRead(c) \/ HeartbeatWrite(c)
             \/ MarkOfflineRead(c) \/ MarkOfflineWrite(c) \/ Close(c) \/ GreetingFails(c)
      PROVE PoolIsCurrent'
  BY <1>1, <1>4 DEF Connect, Kick, HeartbeatRead, HeartbeatWrite, MarkOfflineRead,
                    MarkOfflineWrite, Close, GreetingFails
<1>5. ASSUME NEW p \in Proc, PushContext(p) \/ PushFails(p) \/ CommitFails(p)
      PROVE PoolIsCurrent'
  BY <1>1, <1>5 DEF PushContext, PushFails, CommitFails, NextItem
<1>6. ASSUME NEW a \in Admin, \/ ApproveRead(a) \/ ApproveCheck(a) \/ ApproveCommit(a)
                              \/ PushAfterApproval(a)
      PROVE PoolIsCurrent'
  BY <1>1, <1>6 DEF ApproveRead, ApproveCheck, ApproveCommit, PushAfterApproval
<1>7. CASE Delete \/ UNCHANGED vars
  BY <1>1, <1>7 DEF Delete, vars
<1>8. CASE BackendCrash
  BY <1>8 DEF BackendCrash
<1> QED BY <1>2, <1>3, <1>4, <1>5, <1>6, <1>7, <1>8 DEF Next, Handler, Approval

\* No step loses an item: it is sent, or somebody is still going to send it.
LEMMA DeliveryStep ==
    ASSUME TypeOK, StepFresh, Delivery, [Next]_vars
    PROVE  Delivery'
<1> USE SessionAssumption, ContextFacts DEF TypeOK, Proc, Serving
<1> SUFFICES ASSUME NEW c \in Conn, pool' = c, c \in open', Approved(row)',
                    pc'[c] \in Serving \ {"greet"}, NEW i \in DOMAIN Context
             PROVE  \/ Context[i] \in sent'[c] \cup failed'
                    \/ HandlerWill(c, i)' \/ ApprovalWill(i)'
  BY DEF Delivery
<1> DEFINE Held == pool = c /\ c \in open /\ Approved(row) /\ pc[c] \in Serving \ {"greet"}
\* What the invariant says before the step.
<1>1. ASSUME Held
      PROVE  Context[i] \in sent[c] \cup failed \/ HandlerWill(c, i) \/ ApprovalWill(i)
  BY <1>1 DEF Delivery
\* A step that changes neither what was sent nor who is going to send.
<1>2. ASSUME Held, sent' = sent, failed' = failed,
             pc'[c] = pc[c], step'[c] = step[c], snap'[c] = snap[c],
             \A a \in Admin : pc[a] \in {"committed", "sync"} =>
                               pc'[a] = pc[a] /\ step'[a] = step[a]
      PROVE  \/ Context[i] \in sent'[c] \cup failed'
             \/ HandlerWill(c, i)' \/ ApprovalWill(i)'
  BY <1>1, <1>2 DEF HandlerWill, ApprovalWill, Approved
<1>3. ASSUME NEW d \in Conn, Connect(d) PROVE HandlerWill(c, i)' \/ ApprovalWill(i)'
             \/ Context[i] \in sent'[c] \cup failed'
  BY <1>2, <1>3 DEF Connect, Approved, Row
<1>4. ASSUME NEW d \in Conn, Register(d) \/ KickDone(d) PROVE FALSE
  BY <1>4 DEF Register, KickDone, Enter
<1>5. ASSUME NEW d \in Conn, Kick(d) \/ Close(d) \/ Disconnect(d) \/ MarkOfflineRead(d)
                              \/ MarkOfflineWrite(d) \/ GreetingFails(d) \/ HeartbeatFails(d)
      PROVE  \/ Context[i] \in sent'[c] \cup failed'
             \/ HandlerWill(c, i)' \/ ApprovalWill(i)'
  BY <1>2, <1>5 DEF Kick, Close, Disconnect, Unregister, MarkOfflineRead, MarkOfflineWrite,
                    GreetingFails, HeartbeatFails, Approved, Row
<1>6. ASSUME NEW d \in Conn, HeartbeatRead(d)
      PROVE  \/ Context[i] \in sent'[c] \cup failed'
             \/ HandlerWill(c, i)' \/ ApprovalWill(i)'
  <2>1. CASE d = c /\ pc[c] = "greet"
    BY <1>6, <2>1 DEF HeartbeatRead, HandlerWill, Approved
  <2>2. CASE d = c /\ pc[c] = "loop"
    BY <1>1, <1>6, <2>2 DEF HeartbeatRead, HandlerWill, ApprovalWill, Approved
  <2>3. CASE d # c
    BY <1>2, <1>6, <2>3 DEF HeartbeatRead, Approved
  <2> QED BY <1>6, <2>1, <2>2, <2>3 DEF HeartbeatRead
<1>7. ASSUME NEW d \in Conn, HeartbeatWrite(d)
      PROVE  \/ Context[i] \in sent'[c] \cup failed'
             \/ HandlerWill(c, i)' \/ ApprovalWill(i)'
  <2>1. row' = [row EXCEPT !.status = row'.status]
    BY <1>7 DEF HeartbeatWrite, Row
  <2>2. Approved(row)
    BY <2>1 DEF Approved, Row
  <2>3. CASE d = c
    <3>1. Held
      BY <1>7, <2>2, <2>3 DEF HeartbeatWrite
    <3>2. CASE pc'[c] = "sync"
      <4>1. step'[c] = 1
        BY <1>7, <2>3 DEF HeartbeatWrite, StepFresh
      <4>2. step'[c] <= i
        BY <4>1
      <4> QED BY <3>2, <4>2 DEF HandlerWill
    <3>3. CASE pc'[c] # "sync"
      BY <1>1, <1>7, <2>3, <3>1, <3>3 DEF HeartbeatWrite, HandlerWill, ApprovalWill
    <3> QED BY <3>2, <3>3
  <2>4. CASE d # c
    BY <1>2, <1>7, <2>2, <2>4 DEF HeartbeatWrite
  <2> QED BY <2>3, <2>4
<1>8. ASSUME NEW p \in Proc, PushContext(p) \/ PushFails(p)
      PROVE  \/ Context[i] \in sent'[c] \cup failed'
             \/ HandlerWill(c, i)' \/ ApprovalWill(i)'
  <2>1. Held
    BY <1>8 DEF PushContext, PushFails, NextItem
  <2>2. CASE step[p] = i
    BY <1>8, <2>1, <2>2 DEF PushContext, PushFails
  <2>3. CASE step[p] # i
    <3>1. sent[c] \subseteq sent'[c] /\ failed \subseteq failed'
      BY <1>8 DEF PushContext, PushFails
    <3>2. \A q \in Proc : pc[q] = "sync" /\ step[q] <= i => pc'[q] = "sync" /\ step'[q] <= i
      BY <1>8, <2>3 DEF PushContext, PushFails, NextItem
    <3>3. \A q \in Proc : pc[q] \in {"committed", "greeting"} => pc'[q] = pc[q]
      BY <1>8 DEF PushContext, PushFails, NextItem
    <3>4. snap' = snap
      BY <1>8 DEF PushContext, PushFails
    <3> QED BY <1>1, <2>1, <3>1, <3>2, <3>3, <3>4 DEF HandlerWill, ApprovalWill, Approved
  <2> QED BY <2>2, <2>3
<1>9. ASSUME NEW a \in Admin, ApproveRead(a) \/ ApproveCheck(a) \/ CommitFails(a)
      PROVE  \/ Context[i] \in sent'[c] \cup failed'
             \/ HandlerWill(c, i)' \/ ApprovalWill(i)'
  BY <1>2, <1>9 DEF ApproveRead, ApproveCheck, CommitFails, Approved
<1>10. ASSUME NEW a \in Admin, ApproveCommit(a) PROVE ApprovalWill(i)'
  BY <1>10 DEF ApproveCommit, ApprovalWill
<1>11. ASSUME NEW a \in Admin, PushAfterApproval(a) PROVE ApprovalWill(i)'
  <2>1. pc'[a] = "sync" /\ step'[a] = 1
    BY <1>11 DEF PushAfterApproval, StepFresh
  <2> QED BY <2>1 DEF ApprovalWill
<1>12. ASSUME NEW d \in Conn, CommitFails(d)
      PROVE  \/ Context[i] \in sent'[c] \cup failed'
             \/ HandlerWill(c, i)' \/ ApprovalWill(i)'
  BY <1>2, <1>12 DEF CommitFails, Approved
<1>13. CASE Delete
  BY <1>13 DEF Delete, Approved, Row
<1>14. CASE BackendCrash
  BY <1>14 DEF BackendCrash
<1>15. CASE UNCHANGED vars
  BY <1>2, <1>15 DEF vars, Approved
<1> QED BY <1>3, <1>4, <1>5, <1>6, <1>7, <1>8, <1>9, <1>10, <1>11, <1>12, <1>13, <1>14, <1>15
        DEF Next, Handler, Approval

\* The invariant is inductive.
LEMMA SessionStep == SessionInv /\ [Next]_vars => SessionInv'
BY SessionTypeStep, StepFreshStep, PoolStep, DeliveryStep DEF SessionInv

-----------------------------------------------------------------------------
\* The row, the pool and the coroutines of agent_ws and of the approval route
\* keep their types.
THEOREM SessionTypeCorrect == Spec => []TypeOK
<1>1. SessionInv => TypeOK
  BY DEF SessionInv
<1> QED BY SessionInit, SessionStep, <1>1, PTL DEF Spec

\* agent_hub's pool always holds the connection that registered last, and no
\* other, however kicks, disconnects and clean-ups interleave.
THEOREM PoolStaysCurrent == Spec => []PoolIsCurrent
<1>1. SessionInv => PoolIsCurrent
  BY DEF SessionInv
<1> QED BY SessionInit, SessionStep, <1>1, PTL DEF Spec

\* When nothing is left to send, everything has been sent.
LEMMA DeliveryDone == SessionInv => ContextDelivered
<1> SUFFICES ASSUME SessionInv, NEW c \in Conn,
                    pool = c, c \in open, pc[c] \in {"loop", "beating"}, Approved(row),
                    ~Approving
             PROVE  Item \ failed \subseteq sent[c]
  BY DEF ContextDelivered
<1>1. \A i \in DOMAIN Context : Context[i] \in sent[c] \cup failed
  BY DEF SessionInv, Delivery, Serving, HandlerWill, ApprovalWill, Approving
<1> QED BY <1>1 DEF Item

\* Whatever the order of connecting, approving and reconnecting, the agent of
\* an approved server has been sent its context: register-then-read in
\* agent_ws meets commit-then-look in the approval route.
THEOREM ContextIsDelivered == Spec => []ContextDelivered
BY SessionInit, SessionStep, DeliveryDone, PTL DEF Spec
=============================================================================
