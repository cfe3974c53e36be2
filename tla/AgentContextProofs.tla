------------------------- MODULE AgentContextProofs -------------------------
(***************************************************************************)
(* Proofs about AgentContext, for any sets of keys, switches, requests and *)
(* connections and any number of failures.  The result is that the agent's *)
(* caches follow ContextFeed: the inductive invariant says that what has   *)
(* been read for a push, and the position a request will report of the     *)
(* switch it flipped, have been committed, and that rows of the policy     *)
(* table never go away, so that a late UPDATE finds the row it read.       *)
(*                                                                         *)
(* That the agent ends in step needs a second one, about debts: as long as *)
(* an approved agent listens, each subject is either with the agent as it  *)
(* is in the database, or owed by a process that will still read it, or    *)
(* has read it and not sent it; and what has been read is still current,   *)
(* unless the subject was excused.                                         *)
(***************************************************************************)
EXTENDS AgentContext, TLAPS

\* Everything in the frame has been committed.
InPast(m) ==
    /\ m.on = "cap" => \A c \in Cap : <<c, m.value[c]>> \in capPast
    /\ m.on = "policy" => m.value \in policyPast

\* What a process may rely on: its own flip was committed, what it has read
\* was committed, and the rows it read are still there.
JobOK(p, j) ==
    /\ j.kind = "switch" => j.cap \in Cap /\ <<j.cap, j.was>> \in capPast
    /\ j.kind # "switch" => j.cap = None
    /\ p = "approved" => j.kind = "approve"
    /\ p \in {"push", "send"} /\ j.kind = "switch" => <<j.cap, j.value>> \in capPast
    /\ p = "send" => j.frame # None /\ InPast(j.frame)
    /\ \A k \in Key : j.seen[k] # None => policy[k] # None

Jobs == \A w \in Process : JobOK(pc[w], job[w])

\* What is committed now is part of what has been committed.
Present == policy \in policyPast /\ \A c \in Cap : <<c, caps[c]>> \in capPast

ContextInv == TypeOK /\ Present /\ Jobs

Pc == {"new", "commit", "approved", "opened", "push", "send", "serve", "done"}

-----------------------------------------------------------------------------
(* Steps of one process *)

\* A request that has nothing in hand.
LEMMA NewJobFacts ==
    ASSUME NEW k \in {"none", "policy", "switch", "approve", "connect"}
    PROVE  /\ NewJob(k) \in Job /\ NewJob(k).kind = k /\ NewJob(k).cap = None
           /\ NewJob(k).frame = None /\ NewJob(k).todo = <<>>
           /\ \A x \in Key : NewJob(k).seen[x] = None /\ NewJob(k).set[x] = None
<1>1. NoRows \in PolicyTable /\ <<>> \in Seq(Subject)
  BY DEF NoRows, PolicyTable
<1>2. /\ NewJob(k) = [kind |-> k, seen |-> NoRows, set |-> NoRows, cap |-> None, value |-> FALSE,
                      was |-> FALSE, todo |-> <<>>, frame |-> None]
  BY DEF NewJob
<1>3. NewJob(k) \in Job
  BY <1>1, <1>2 DEF Job
<1> QED BY <1>2, <1>3 DEF NoRows

\* What there is to be pushed.
LEMMA TodoTypes == <<>> \in Seq(Subject) /\ AllOfIt \in Seq(Subject)
<1>1. "cap" \in Subject /\ "policy" \in Subject
  BY DEF Subject
<1> QED BY <1>1 DEF AllOfIt

\* What one process relies on stays true when others commit.
LEMMA JobStays ==
    ASSUME ContextInv, NEW v \in Process, pc'[v] = pc[v], job'[v] = job[v],
           policyPast \subseteq policyPast', capPast \subseteq capPast',
           \A k \in Key : policy[k] # None => policy'[k] # None
    PROVE  JobOK(pc[v], job[v])'
<1>1. JobOK(pc[v], job[v])
  BY DEF ContextInv, Jobs
<1> QED BY <1>1 DEF JobOK, InPast

\* A process moves on; the tables stay as they are.
LEMMA MoveStep ==
    ASSUME ContextInv, NEW w \in Process, NEW p \in Pc, NEW j \in Job,
           pc' = [pc EXCEPT ![w] = p], job' = [job EXCEPT ![w] = j],
           UNCHANGED <<policy, caps, policyPast, capPast>>, JobOK(p, j),
           approved' \in BOOLEAN, pool' \in Connection \cup {None}, line' \in Connection \cup {None},
           policyCache' \in PolicyTable \cup {None}, gate' \in [Cap -> BOOLEAN \cup {None}],
           faults' \in 0..MaxFaults, excused' \subseteq Subject
    PROVE  ContextInv'
<1>1. pc \in [Process -> Pc] /\ job \in [Process -> Job]
  BY DEF ContextInv, TypeOK, Pc
<1>2. pc' \in [Process -> Pc] /\ job' \in [Process -> Job] /\ pc'[w] = p /\ job'[w] = j
  BY <1>1
<1>3. \A v \in Process \ {w} : pc'[v] = pc[v] /\ job'[v] = job[v]
  BY <1>1
<1>4. TypeOK'
  BY <1>2 DEF ContextInv, TypeOK, Pc
<1>5. JobOK(pc[w], job[w])'
  BY <1>2 DEF JobOK, InPast
<1>6. ASSUME NEW v \in Process \ {w} PROVE JobOK(pc[v], job[v])'
  BY <1>3, JobStays
<1> QED BY <1>4, <1>5, <1>6 DEF ContextInv, Jobs, Present

\* A request arrives and reads.
LEMMA ArriveStep ==
    ASSUME ContextInv, NEW w \in Process, NEW j \in Job, Arrive(w, j), JobOK("commit", j)
    PROVE  ContextInv'
BY MoveStep DEF Arrive, ContextInv, TypeOK, Pc, db, network, agent

\* The four requests.
LEMMA RequestArrives ==
    ASSUME ContextInv, NEW w \in Process,
           \/ \E e \in Edit : UpdatePolicy(w, e)
           \/ \E p \in Profile : SwitchProfile(w, p)
           \/ \E c \in Cap, v \in BOOLEAN : FlipSwitch(w, c, v)
           \/ Approve(w)
    PROVE  ContextInv'
<1>t. policy \in PolicyTable /\ caps \in Switches
  BY DEF ContextInv, TypeOK
<1>p. \A p \in Profile, k \in Key : PresetRow(p, k) \in PolicyRow
  BY ContextAssumption DEF PresetRow, PolicyRow
<1>1. ASSUME NEW set \in PolicyTable, Arrive(w, [NewJob("policy") EXCEPT !.seen = policy, !.set = set])
      PROVE  ContextInv'
  <2> DEFINE n == NewJob("policy")
             j == [n EXCEPT !.seen = policy, !.set = set]
  <2>1. n \in Job /\ n.kind = "policy" /\ n.cap = None
    BY NewJobFacts
  <2> HIDE DEF n
  <2>2. j \in Job /\ j.kind = "policy" /\ j.cap = None /\ j.seen = policy
    BY <1>t, <2>1 DEF Job
  <2>3. Arrive(w, j)
    BY <1>1 DEF n
  <2> HIDE DEF j
  <2>4. JobOK("commit", j)
    BY <2>2 DEF JobOK
  <2> QED BY <2>2, <2>3, <2>4, ArriveStep
<1>2. ASSUME NEW e \in Edit, UpdatePolicy(w, e) PROVE ContextInv'
  <2> DEFINE base == IF policy[e.key] = None THEN PresetRow("standard", e.key) ELSE policy[e.key]
             row  == [enabled  |-> IF e.enabled = None THEN base.enabled ELSE e.enabled,
                      severity |-> IF e.severity = None THEN base.severity ELSE e.severity]
             set  == [NoRows EXCEPT ![e.key] = row]
  <2>1. /\ e.key \in Key /\ e.enabled \in BOOLEAN \cup {None} /\ e.severity \in Severity \cup {None}
        /\ "standard" \in Profile
    BY ContextAssumption
  <2>2. base \in PolicyRow
    BY <1>t, <1>p, <2>1 DEF PolicyTable
  <2> HIDE DEF base
  <2>3. row \in PolicyRow
    BY <2>1, <2>2 DEF PolicyRow
  <2>4. set \in PolicyTable
    BY <2>1, <2>3 DEF NoRows, PolicyTable
  <2>5. [NewJob("policy") EXCEPT !.seen = policy, !.set[e.key] = row]
            = [NewJob("policy") EXCEPT !.seen = policy, !.set = set]
    BY DEF NewJob
  <2>6. Arrive(w, [NewJob("policy") EXCEPT !.seen = policy, !.set[e.key] = row])
    BY <1>2 DEF UpdatePolicy, base
  <2> QED BY <1>1, <2>4, <2>5, <2>6
<1>3. ASSUME NEW p \in Profile, SwitchProfile(w, p) PROVE ContextInv'
  <2> DEFINE set == [k \in Key |-> IF policy[k] = None THEN PresetRow(p, k)
                                   ELSE [policy[k] EXCEPT !.severity = Preset[p][k]]]
  <2>1. ASSUME NEW k \in Key, policy[k] # None
        PROVE  [policy[k] EXCEPT !.severity = Preset[p][k]] \in PolicyRow
    <3>1. policy[k] \in PolicyRow /\ Preset[p][k] \in Severity
      BY <1>t, <2>1, ContextAssumption DEF PolicyTable
    <3> QED BY <3>1 DEF PolicyRow
  <2>2. set \in PolicyTable
    BY <1>p, <2>1 DEF PolicyTable
  <2> QED BY <1>1, <1>3, <2>2 DEF SwitchProfile
<1>4. ASSUME NEW c \in Cap, NEW v \in BOOLEAN, FlipSwitch(w, c, v) PROVE ContextInv'
  <2> DEFINE n == NewJob("switch")
             j == [n EXCEPT !.cap = c, !.value = v, !.was = caps[c]]
  <2>1. n \in Job /\ n.kind = "switch" /\ \A x \in Key : n.seen[x] = None
    BY NewJobFacts
  <2>2. Arrive(w, j)
    BY <1>4 DEF FlipSwitch
  <2> HIDE DEF n
  <2>3. caps[c] \in BOOLEAN
    BY <1>t DEF Switches
  <2>4. /\ j \in Job /\ j.kind = "switch" /\ j.cap = c /\ j.was = caps[c] /\ j.seen = n.seen
    BY <2>1, <2>3 DEF Job
  <2> HIDE DEF j
  <2>5. JobOK("commit", j)
    BY <2>1, <2>4 DEF JobOK, ContextInv, Present
  <2> QED BY <2>2, <2>4, <2>5, ArriveStep
<1>5. CASE Approve(w)
  <2>1. JobOK("commit", NewJob("approve"))
    BY NewJobFacts DEF JobOK
  <2> QED BY <1>5, <2>1, NewJobFacts, ArriveStep DEF Approve
<1> QED BY <1>2, <1>3, <1>4, <1>5

\* A commit: what was committed before stays so, and rows stay.
LEMMA CommitStep ==
    ASSUME ContextInv, NEW w \in Process, NEW j \in Job,
           pc' = [pc EXCEPT ![w] = "push"], job' = [job EXCEPT ![w] = j],
           policy' \in PolicyTable, caps' \in Switches,
           policyPast' \subseteq PolicyTable, capPast' \subseteq Cap \X BOOLEAN,
           policyPast \subseteq policyPast', capPast \subseteq capPast',
           \A k \in Key : policy[k] # None => policy'[k] # None,
           Present', JobOK("push", j)',
           excused' \subseteq Subject,
           UNCHANGED <<approved, network, agent, faults>>
    PROVE  ContextInv'
<1>1. pc \in [Process -> Pc] /\ job \in [Process -> Job]
  BY DEF ContextInv, TypeOK, Pc
<1>2. pc' \in [Process -> Pc] /\ job' \in [Process -> Job] /\ pc'[w] = "push" /\ job'[w] = j
  BY <1>1 DEF Pc
<1>3. \A v \in Process \ {w} : pc'[v] = pc[v] /\ job'[v] = job[v]
  BY <1>1
<1>4. TypeOK'
  BY <1>2 DEF ContextInv, TypeOK, Pc, network, agent
<1>5. JobOK(pc[w], job[w])'
  BY <1>2 DEF JobOK
<1>6. ASSUME NEW v \in Process \ {w} PROVE JobOK(pc[v], job[v])'
  BY <1>3, JobStays
<1> QED BY <1>4, <1>5, <1>6 DEF ContextInv, Jobs

\* CommitPolicy: the columns that were written and those that were not make up
\* rows.
LEMMA CommitPolicyStep ==
    ASSUME ContextInv, NEW w \in Process, CommitPolicy(w)
    PROVE  ContextInv' /\ Feed!Commit
<1> DEFINE n == job[w]
           table == [k \in Key |-> Merged(policy[k], n.seen[k], n.set[k])]
           j == [n EXCEPT !.todo = <<"policy">>]
<1>0. /\ n \in Job /\ job \in [Process -> Job] /\ JobOK("commit", n) /\ n.kind = "policy"
      /\ policy \in PolicyTable /\ caps \in Switches
      /\ policyPast \subseteq PolicyTable /\ capPast \subseteq Cap \X BOOLEAN
  BY DEF ContextInv, TypeOK, Jobs, CommitPolicy
<1>1. n.seen \in PolicyTable /\ n.set \in PolicyTable
  BY <1>0 DEF Job
<1>2. ASSUME NEW k \in Key
      PROVE  /\ Merged(policy[k], n.seen[k], n.set[k]) \in PolicyRow \cup {None}
             /\ policy[k] # None => Merged(policy[k], n.seen[k], n.set[k]) # None
  <2>1. /\ policy[k] \in PolicyRow \cup {None} /\ n.seen[k] \in PolicyRow \cup {None}
        /\ n.set[k] \in PolicyRow \cup {None} /\ (n.seen[k] # None => policy[k] # None)
    BY <1>0, <1>1 DEF PolicyTable, JobOK
  <2>2. None \notin PolicyRow
    BY ContextAssumption
  <2> HIDE DEF n
  <2>3. CASE n.set[k] = None \/ n.seen[k] = None
    BY <2>1, <2>3 DEF Merged
  <2>4. CASE n.set[k] # None /\ n.seen[k] # None
    <3>1. Merged(policy[k], n.seen[k], n.set[k]) \in PolicyRow
      BY <2>1, <2>4 DEF Merged, PolicyRow
    <3> QED BY <2>2, <3>1
  <2> QED BY <2>3, <2>4
<1>3. /\ pc' = [pc EXCEPT ![w] = "push"] /\ job' = [job EXCEPT ![w] = j]
      /\ policy' = table /\ policyPast' = policyPast \cup {table}
      /\ UNCHANGED <<approved, caps, capPast, network, agent, faults>>
  BY <1>0 DEF CommitPolicy
<1>4. excused' \subseteq Subject
  BY DEF CommitPolicy, Excuse, ContextInv, TypeOK, Subject
<1>5. table \in PolicyTable /\ \A k \in Key : policy[k] # None => table[k] # None
  BY <1>2 DEF PolicyTable
<1>6. <<"policy">> \in Seq(Subject)
  BY DEF Subject
<1> HIDE DEF n, table
<1>7. /\ j \in Job /\ j.kind = "policy" /\ j.cap = n.cap /\ j.seen = n.seen
  BY <1>0, <1>6 DEF Job
<1>8. PICK i \in Job : i = j
  BY <1>7
<1> HIDE DEF j
<1>9. JobOK("push", i)'
  BY <1>0, <1>3, <1>5, <1>7, <1>8 DEF JobOK
<1>10. Present'
  BY <1>3 DEF ContextInv, Present
<1>11. ContextInv'
  BY <1>0, <1>3, <1>4, <1>5, <1>8, <1>9, <1>10, CommitStep
<1>12. Feed!Commit
  BY <1>3 DEF Feed!Commit, agent
<1> QED BY <1>11, <1>12

\* CommitSwitch: the position that will be reported was committed, now or when
\* the request read it.
LEMMA CommitSwitchStep ==
    ASSUME ContextInv, NEW w \in Process, CommitSwitch(w)
    PROVE  ContextInv' /\ Feed!Commit
<1> DEFINE n == job[w]
           now == IF n.value = n.was THEN caps[n.cap] ELSE n.value
           j == [n EXCEPT !.todo = <<"cap">>]
<1>0. /\ n \in Job /\ job \in [Process -> Job] /\ JobOK("commit", n) /\ n.kind = "switch"
      /\ policy \in PolicyTable /\ caps \in Switches
      /\ policyPast \subseteq PolicyTable /\ capPast \subseteq Cap \X BOOLEAN
  BY DEF ContextInv, TypeOK, Jobs, CommitSwitch
<1>1. n.cap \in Cap /\ n.value \in BOOLEAN /\ n.was \in BOOLEAN /\ <<n.cap, n.was>> \in capPast
  BY <1>0 DEF Job, JobOK
<1>2. now \in BOOLEAN
  BY <1>0, <1>1 DEF Switches
<1>3. /\ pc' = [pc EXCEPT ![w] = "push"] /\ job' = [job EXCEPT ![w] = j]
      /\ caps' = [caps EXCEPT ![n.cap] = now] /\ capPast' = capPast \cup {<<n.cap, caps'[n.cap]>>}
      /\ UNCHANGED <<approved, policy, policyPast, network, agent, faults>>
  BY <1>0 DEF CommitSwitch
<1>4. excused' \subseteq Subject
  BY DEF CommitSwitch, ContextInv, TypeOK, Subject
<1>5. caps' \in Switches /\ caps'[n.cap] = now /\ \A c \in Cap \ {n.cap} : caps'[c] = caps[c]
  <2> HIDE DEF now, n
  <2> QED BY <1>0, <1>1, <1>2, <1>3 DEF Switches
<1>6. <<n.cap, n.value>> \in capPast'
  BY <1>1, <1>3, <1>5
<1>7. <<"cap">> \in Seq(Subject)
  BY DEF Subject
<1> HIDE DEF n, now
<1>8. /\ j \in Job /\ j.kind = "switch" /\ j.cap = n.cap /\ j.seen = n.seen /\ j.value = n.value
      /\ j.was = n.was
  BY <1>0, <1>7 DEF Job
<1>9. PICK i \in Job : i = j
  BY <1>8
<1> HIDE DEF j
<1>10. JobOK("push", i)'
  BY <1>0, <1>1, <1>3, <1>6, <1>8, <1>9 DEF JobOK
<1>11. Present'
  BY <1>3, <1>5 DEF ContextInv, Present
<1>12. capPast' \subseteq Cap \X BOOLEAN
  BY <1>0, <1>1, <1>2, <1>3, <1>5
<1>13. ContextInv'
  BY <1>0, <1>3, <1>4, <1>5, <1>9, <1>10, <1>11, <1>12, CommitStep
<1>14. Feed!Commit
  BY <1>3 DEF Feed!Commit, agent
<1> QED BY <1>13, <1>14

\* The rest of a request.
LEMMA RequestRest ==
    ASSUME ContextInv, NEW w \in Process, CommitApproval(w) \/ AfterApproval(w) \/ RollBack(w)
    PROVE  ContextInv'
<1>0. /\ job[w] \in Job /\ job \in [Process -> Job] /\ JobOK(pc[w], job[w])
      /\ faults \in 0..MaxFaults /\ MaxFaults \in Nat
  BY ContextAssumption DEF ContextInv, TypeOK, Jobs
<1>1. CASE CommitApproval(w)
  <2>1. JobOK("approved", job[w])
    BY <1>0, <1>1 DEF JobOK, CommitApproval
  <2>2. job' = [job EXCEPT ![w] = job[w]]
    BY <1>0, <1>1 DEF CommitApproval
  <2> QED BY <1>0, <1>1, <2>1, <2>2, MoveStep DEF CommitApproval, ContextInv, TypeOK, Pc, network, agent
<1>2. CASE AfterApproval(w)
  <2> DEFINE todo == IF pool = None THEN <<>> ELSE AllOfIt
             j == [job[w] EXCEPT !.todo = todo]
  <2>1. todo \in Seq(Subject)
    BY TodoTypes
  <2>2. pc' = [pc EXCEPT ![w] = "push"] /\ job' = [job EXCEPT ![w] = j] /\ pc[w] = "approved"
    BY <1>2 DEF AfterApproval
  <2> HIDE DEF todo
  <2>3. /\ j \in Job /\ j.kind = job[w].kind /\ j.cap = job[w].cap /\ j.seen = job[w].seen
        /\ j.value = job[w].value /\ j.was = job[w].was
    BY <1>0, <2>1 DEF Job
  <2> HIDE DEF j
  <2>4. job[w].kind # "switch"
    BY <1>0, <2>2 DEF JobOK
  <2>5. JobOK("push", j)
    BY <1>0, <2>3, <2>4 DEF JobOK
  <2> QED BY <1>2, <2>2, <2>3, <2>5, MoveStep
          DEF AfterApproval, ContextInv, TypeOK, Pc, db, network, agent
<1>3. CASE RollBack(w)
  <2>1. JobOK("done", NewJob("none"))
    BY NewJobFacts DEF JobOK
  <2>2. faults' \in 0..MaxFaults
    BY <1>0, <1>3 DEF RollBack
  <2> QED BY <1>3, <2>1, <2>2, NewJobFacts, MoveStep
          DEF RollBack, ContextInv, TypeOK, Pc, db, network, agent
<1> QED BY <1>1, <1>2, <1>3

\* A push reads what is committed.
LEMMA PayloadFacts ==
    ASSUME ContextInv, NEW w \in Process, pc[w] = "push", NEW s \in Subject
    PROVE  Payload(w, s) \in Frame /\ InPast(Payload(w, s)) /\ Payload(w, s) # None
<1>0. /\ job[w] \in Job /\ JobOK("push", job[w]) /\ policy \in PolicyTable /\ caps \in Switches
      /\ Present
  BY DEF ContextInv, TypeOK, Jobs
<1>1. SwitchPayload(w) \in Switches /\ \A c \in Cap : <<c, SwitchPayload(w)[c]>> \in capPast
  BY <1>0, ContextAssumption DEF SwitchPayload, Switches, Job, JobOK, Present
<1>2. CASE s = "cap"
  <2>1. Payload(w, s) = [on |-> "cap", value |-> SwitchPayload(w)]
    BY <1>2 DEF Payload
  <2>2. [on |-> "cap", value |-> SwitchPayload(w)] \in Frame
    BY <1>1 DEF Frame
  <2>3. InPast([on |-> "cap", value |-> SwitchPayload(w)])
    BY <1>1 DEF InPast
  <2> QED BY <2>1, <2>2, <2>3, ContextAssumption
<1>3. CASE s = "policy"
  <2>1. Payload(w, s) = [on |-> "policy", value |-> policy]
    BY <1>3 DEF Payload, PolicyPayload
  <2>2. [on |-> "policy", value |-> policy] \in Frame
    BY <1>0 DEF Frame
  <2>3. InPast([on |-> "policy", value |-> policy])
    BY <1>0 DEF InPast, Present
  <2> QED BY <2>1, <2>2, <2>3, ContextAssumption
<1> QED BY <1>2, <1>3 DEF Subject

\* Reading for a push, giving up on one, and the end of the pushes.
LEMMA PushRest ==
    ASSUME ContextInv, NEW w \in Process, Compose(w) \/ PushFails(w) \/ Pushed(w)
    PROVE  ContextInv' /\ UNCHANGED <<policyPast, capPast, policyCache, gate>>
<1>0. /\ job[w] \in Job /\ job \in [Process -> Job] /\ JobOK("push", job[w]) /\ pc[w] = "push"
      /\ pc \in [Process -> Pc] /\ faults \in 0..MaxFaults /\ MaxFaults \in Nat
      /\ excused \subseteq Subject
  BY ContextAssumption DEF ContextInv, TypeOK, Jobs, Compose, PushFails, Pushed, Pc
<1>1. UNCHANGED <<db, network, agent>>
  BY DEF Compose, PushFails, Pushed
<1> SUFFICES ContextInv'
  BY <1>1 DEF db, agent
<1>u. /\ UNCHANGED <<policy, caps, policyPast, capPast>>
      /\ approved' \in BOOLEAN /\ pool' \in Connection \cup {None} /\ line' \in Connection \cup {None}
      /\ policyCache' \in PolicyTable \cup {None} /\ gate' \in [Cap -> BOOLEAN \cup {None}]
  BY <1>1 DEF ContextInv, TypeOK, db, network, agent
<1>2. job[w].todo \in Seq(Subject)
  BY <1>0 DEF Job
<1>3. job[w].todo # <<>> => Head(job[w].todo) \in Subject /\ Tail(job[w].todo) \in Seq(Subject)
  BY <1>2
<1>4. ASSUME NEW p \in {"push", "send"}, NEW j \in Job,
             j.kind = job[w].kind, j.cap = job[w].cap, j.seen = job[w].seen,
             j.value = job[w].value, j.was = job[w].was,
             p = "send" => j.frame # None /\ InPast(j.frame),
             pc' = [pc EXCEPT ![w] = p], job' = [job EXCEPT ![w] = j],
             faults' \in 0..MaxFaults, excused' \subseteq Subject
      PROVE  ContextInv'
  <2>1. JobOK(p, j)
    BY <1>0, <1>4 DEF JobOK
  <2>2. p \in Pc
    BY DEF Pc
  <2> QED BY <1>u, <1>4, <2>1, <2>2, MoveStep
<1>5. ASSUME job[w].todo # <<>>, pc' = [pc EXCEPT ![w] = "push"],
             job' = [job EXCEPT ![w] = [job[w] EXCEPT !.todo = Tail(job[w].todo)]],
             faults' \in 0..MaxFaults, excused' \subseteq Subject
      PROVE  ContextInv'
  <2> DEFINE j == [job[w] EXCEPT !.todo = Tail(job[w].todo)]
  <2>1. /\ j \in Job /\ j.kind = job[w].kind /\ j.cap = job[w].cap /\ j.seen = job[w].seen
        /\ j.value = job[w].value /\ j.was = job[w].was
    BY <1>0, <1>3, <1>5 DEF Job
  <2>2. job' = [job EXCEPT ![w] = j]
    BY <1>5
  <2> HIDE DEF j
  <2> QED BY <1>4, <1>5, <2>1, <2>2
<1>6. CASE Compose(w)
  <2>1. job[w].todo # <<>> /\ UNCHANGED <<faults, excused>>
    BY <1>6 DEF Compose
  <2>2. CASE Head(job[w].todo) = "policy" /\ policy = NoRows
    <3>1. pc' = [pc EXCEPT ![w] = "push"]
      BY <1>0, <1>6, <2>2 DEF Compose
    <3>2. job' = [job EXCEPT ![w] = [job[w] EXCEPT !.todo = Tail(job[w].todo)]]
      BY <1>6, <2>2 DEF Compose
    <3> QED BY <1>0, <1>5, <2>1, <3>1, <3>2
  <2>3. CASE ~(Head(job[w].todo) = "policy" /\ policy = NoRows)
    <3>1. PICK s \in Subject : s = Head(job[w].todo)
      BY <1>3, <2>1
    <3>2. PICK f \in Frame : f = Payload(w, s) /\ f # None /\ InPast(f)
      BY <1>0, PayloadFacts
    <3> DEFINE j == [job[w] EXCEPT !.todo = Tail(job[w].todo), !.frame = f]
    <3>3. pc' = [pc EXCEPT ![w] = "send"]
      BY <1>6, <2>3 DEF Compose
    <3>4. job' = [job EXCEPT ![w] = j]
      BY <1>6, <2>3, <3>1, <3>2 DEF Compose
    <3>5. /\ j \in Job /\ j.kind = job[w].kind /\ j.cap = job[w].cap /\ j.seen = job[w].seen
          /\ j.value = job[w].value /\ j.was = job[w].was /\ j.frame = f
      BY <1>0, <1>3, <2>1 DEF Job
    <3> HIDE DEF j
    <3> QED BY <1>0, <1>4, <2>1, <3>2, <3>3, <3>4, <3>5
  <2> QED BY <2>2, <2>3
<1>7. CASE PushFails(w)
  <2>1. job[w].todo # <<>> /\ faults' \in 0..MaxFaults
    BY <1>0, <1>7 DEF PushFails
  <2>2. excused' \subseteq Subject
    BY <1>0, <1>3, <1>7 DEF PushFails
  <2>3. pc' = [pc EXCEPT ![w] = "push"]
    BY <1>0, <1>7 DEF PushFails
  <2>4. job' = [job EXCEPT ![w] = [job[w] EXCEPT !.todo = Tail(job[w].todo)]]
    BY <1>7 DEF PushFails
  <2> QED BY <1>5, <2>1, <2>2, <2>3, <2>4
<1>8. CASE Pushed(w)
  <2>1. PICK p \in {"serve", "done"} : pc' = [pc EXCEPT ![w] = p]
    BY <1>8 DEF Pushed
  <2>2. p \in Pc /\ job' = [job EXCEPT ![w] = NewJob("none")]
    BY <1>8 DEF Pushed, Pc
  <2>3. JobOK(p, NewJob("none")) /\ NewJob("none") \in Job
    BY NewJobFacts DEF JobOK
  <2>4. faults' \in 0..MaxFaults /\ excused' \subseteq Subject
    BY <1>0, <1>8 DEF Pushed
  <2> QED BY <1>u, <2>1, <2>2, <2>3, <2>4, MoveStep
<1> QED BY <1>6, <1>7, <1>8

\* Send: the agent hears one frame, or nothing.
LEMMA SendStep ==
    ASSUME ContextInv, NEW w \in Process, Send(w)
    PROVE  ContextInv' /\ (Feed!HearPolicy \/ Feed!HearSwitches \/ UNCHANGED Feed!feed)
<1> DEFINE f == job[w].frame
           j == [job[w] EXCEPT !.frame = None]
<1>0. /\ job[w] \in Job /\ job \in [Process -> Job] /\ JobOK("send", job[w])
      /\ policyCache \in PolicyTable \cup {None} /\ gate \in [Cap -> BOOLEAN \cup {None}]
      /\ pc' = [pc EXCEPT ![w] = "push"] /\ job' = [job EXCEPT ![w] = j]
      /\ UNCHANGED <<db, network, faults, excused>>
  BY DEF ContextInv, TypeOK, Jobs, Send
<1>1. f \in Frame /\ InPast(f)
  BY <1>0 DEF Job, JobOK
<1>2. Hear(f) \/ UNCHANGED agent
  BY DEF Send
<1>3. /\ j \in Job /\ j.kind = job[w].kind /\ j.cap = job[w].cap /\ j.seen = job[w].seen
      /\ j.value = job[w].value /\ j.was = job[w].was
  BY <1>0 DEF Job
<1> HIDE DEF f, j
<1>4. JobOK("push", j)
  BY <1>0, <1>3 DEF JobOK
<1>5. /\ policyCache' \in PolicyTable \cup {None} /\ gate' \in [Cap -> BOOLEAN \cup {None}]
      /\ Feed!HearPolicy \/ Feed!HearSwitches \/ UNCHANGED Feed!feed
  <2>1. CASE f.on = "cap" /\ gate' = f.value /\ UNCHANGED policyCache
    <3>1. f.value \in Switches
      BY <1>1, <2>1 DEF Frame
    <3>2. Feed!HearSwitches
      BY <1>0, <1>1, <2>1, <3>1 DEF Feed!HearSwitches, Feed!past, InPast, Switches, db
    <3>3. gate' \in [Cap -> BOOLEAN \cup {None}]
      BY <2>1, <3>1 DEF Switches
    <3> QED BY <1>0, <2>1, <3>2, <3>3
  <2>2. CASE f.on = "policy" /\ policyCache' = f.value /\ UNCHANGED gate
    <3>1. f.value \in PolicyTable
      BY <1>1, <2>2 DEF Frame
    <3>2. Feed!HearPolicy
      BY <1>0, <1>1, <2>2 DEF Feed!HearPolicy, Feed!past, InPast, db
    <3> QED BY <1>0, <2>2, <3>1, <3>2
  <2>3. CASE UNCHANGED agent
    BY <1>0, <2>3 DEF agent, Feed!feed, db
  <2> QED BY <1>2, <2>1, <2>2, <2>3 DEF Hear
<1>6. ContextInv'
  BY <1>0, <1>3, <1>4, <1>5, MoveStep DEF ContextInv, TypeOK, Pc, db, network
<1> QED BY <1>5, <1>6

\* The agent, its connection and the handler.
LEMMA ConnectionStep ==
    ASSUME ContextInv,
           \/ \E h \in Connection : Connect(h) \/ ReadApproved(h) \/ HandlerEnds(h)
           \/ Disconnect \/ Restart
    PROVE  ContextInv' /\ (Feed!Forget \/ UNCHANGED Feed!feed)
<1>0. /\ job \in [Process -> Job] /\ Jobs /\ Connection \subseteq Process
  BY DEF ContextInv, TypeOK, Process
<1>1. ASSUME NEW h \in Connection, NEW p \in {"opened", "done"}, pc' = [pc EXCEPT ![h] = p],
             UNCHANGED <<db, agent, job, faults, excused>>, pc[h] # "send",
             pool' \in Connection \cup {None}, line' \in Connection \cup {None}
      PROVE  ContextInv' /\ UNCHANGED Feed!feed
  <2>1. p \in Pc /\ h \in Process /\ job[h] \in Job
    BY <1>0 DEF Pc
  <2>2. JobOK(p, job[h])
    BY <1>0, <1>1, <2>1 DEF Jobs, JobOK
  <2>3. job' = [job EXCEPT ![h] = job[h]]
    BY <1>0, <1>1, <2>1
  <2>4. ContextInv'
    BY <1>1, <2>1, <2>2, <2>3, MoveStep DEF ContextInv, TypeOK, db, agent
  <2> QED BY <1>1, <2>4 DEF Feed!feed, db, agent
<1>2. ASSUME NEW h \in Connection, Connect(h) PROVE ContextInv' /\ UNCHANGED Feed!feed
  <2>1. pool' \in Connection \cup {None} /\ line' \in Connection \cup {None}
    BY <1>2 DEF Connect
  <2> QED BY <1>1, <1>2, <2>1 DEF Connect
<1>3. ASSUME NEW h \in Connection, HandlerEnds(h) PROVE ContextInv' /\ UNCHANGED Feed!feed
  <2>1. pool' \in Connection \cup {None} /\ line' \in Connection \cup {None}
    BY <1>3 DEF HandlerEnds, ContextInv, TypeOK
  <2> QED BY <1>1, <1>3, <2>1 DEF HandlerEnds
<1>4. ASSUME NEW h \in Connection, ReadApproved(h) PROVE ContextInv' /\ UNCHANGED Feed!feed
  <2> DEFINE n == NewJob("connect")
             j == [n EXCEPT !.todo = IF approved THEN AllOfIt ELSE <<>>]
  <2>1. n \in Job /\ n.kind = "connect" /\ n.cap = None /\ \A x \in Key : n.seen[x] = None
    BY NewJobFacts
  <2>2. pc' = [pc EXCEPT ![h] = "push"] /\ job' = [job EXCEPT ![h] = j]
    BY <1>4 DEF ReadApproved
  <2> HIDE DEF n
  <2>3. j \in Job /\ j.kind = "connect" /\ j.cap = None /\ \A x \in Key : j.seen[x] = None
    BY <2>1, TodoTypes DEF Job
  <2> HIDE DEF j
  <2>4. JobOK("push", j)
    BY <2>3 DEF JobOK
  <2>5. ContextInv'
    BY <1>0, <1>4, <2>2, <2>3, <2>4, MoveStep
       DEF ReadApproved, ContextInv, TypeOK, Pc, db, network, agent
  <2> QED BY <1>4, <2>5 DEF ReadApproved, Feed!feed, db, agent
<1>5. ASSUME UNCHANGED <<db, pool, pc, job, faults, excused>>, line' = None,
             policyCache' \in PolicyTable \cup {None}, gate' \in [Cap -> BOOLEAN \cup {None}]
      PROVE  ContextInv'
  <2>1. TypeOK'
    BY <1>5 DEF ContextInv, TypeOK, db
  <2>2. ASSUME NEW v \in Process PROVE JobOK(pc[v], job[v])'
    BY <1>5, JobStays DEF db
  <2> QED BY <1>5, <2>1, <2>2 DEF ContextInv, Jobs, Present, db
<1>6. CASE Disconnect
  <2>1. ContextInv'
    BY <1>5, <1>6 DEF Disconnect, ContextInv, TypeOK, agent
  <2> QED BY <1>6, <2>1 DEF Disconnect, Feed!feed, db, agent
<1>7. CASE Restart
  <2>1. ContextInv'
    BY <1>5, <1>7 DEF Restart
  <2> QED BY <1>7, <2>1 DEF Restart, Feed!Forget, Feed!past, db
<1> QED BY <1>2, <1>3, <1>4, <1>6, <1>7

-----------------------------------------------------------------------------
(* Results *)

\* The initial states satisfy the inductive invariant.
LEMMA ContextInit == Init => ContextInv /\ Feed!FeedInit
<1> SUFFICES ASSUME Init PROVE ContextInv /\ Feed!FeedInit
  OBVIOUS
<1>1. NoRows \in PolicyTable
  BY DEF NoRows, PolicyTable
<1>2. TypeOK
  <2>1. NewJob("none") \in Job
    BY NewJobFacts
  <2>2. caps \in Switches /\ capPast \subseteq Cap \X BOOLEAN
    BY DEF Init, Switches
  <2>3. faults \in 0..MaxFaults
    BY ContextAssumption DEF Init
  <2>4. /\ gate \in [Cap -> BOOLEAN \cup {None}]
        /\ pc \in [Process -> {"new", "commit", "approved", "opened", "push", "send", "serve", "done"}]
        /\ job \in [Process -> Job]
    BY <2>1 DEF Init
  <2> QED BY <1>1, <2>2, <2>3, <2>4 DEF Init, TypeOK
<1>3. Present
  BY DEF Init, Present
<1>4. Jobs
  BY NewJobFacts DEF Init, Jobs, JobOK
<1>5. Feed!FeedInit
  BY DEF Init, Feed!FeedInit
<1> QED BY <1>2, <1>3, <1>4, <1>5 DEF ContextInv

\* Every step keeps the inductive invariant and is a step of the feed, or none.
LEMMA ContextStep == ContextInv /\ [Next]_vars => ContextInv' /\ [Feed!FeedNext]_Feed!feed
<1> SUFFICES ASSUME ContextInv, [Next]_vars PROVE ContextInv' /\ [Feed!FeedNext]_Feed!feed
  OBVIOUS
<1> USE DEF Feed!FeedNext
<1>1. ASSUME NEW w \in Request, RequestStep(w) PROVE ContextInv' /\ [Feed!FeedNext]_Feed!feed
  <2>0. w \in Process
    BY DEF Process
  <2>1. CASE CommitPolicy(w)
    BY <2>0, <2>1, CommitPolicyStep
  <2>2. CASE CommitSwitch(w)
    BY <2>0, <2>2, CommitSwitchStep
  <2>3. CASE CommitApproval(w) \/ AfterApproval(w) \/ RollBack(w)
    <3>1. UNCHANGED Feed!feed
      BY <2>3 DEF CommitApproval, AfterApproval, RollBack, Feed!feed, db, agent
    <3> QED BY <2>0, <2>3, <3>1, RequestRest
  <2>4. CASE \/ \E e \in Edit : UpdatePolicy(w, e)
             \/ \E p \in Profile : SwitchProfile(w, p)
             \/ \E c \in Cap, v \in BOOLEAN : FlipSwitch(w, c, v)
             \/ Approve(w)
    <3>1. UNCHANGED Feed!feed
      BY <2>4 DEF UpdatePolicy, SwitchProfile, FlipSwitch, Approve, Arrive, Feed!feed, db, agent
    <3> QED BY <2>0, <2>4, <3>1, RequestArrives
  <2> QED BY <1>1, <2>1, <2>2, <2>3, <2>4 DEF RequestStep
<1>2. ASSUME NEW w \in Process, PushStep(w) PROVE ContextInv' /\ [Feed!FeedNext]_Feed!feed
  <2>1. CASE Send(w)
    BY <2>1, SendStep
  <2>2. CASE Compose(w) \/ PushFails(w) \/ Pushed(w)
    BY <2>2, PushRest DEF Feed!feed
  <2> QED BY <1>2, <2>1, <2>2 DEF PushStep
<1>3. CASE \/ \E h \in Connection : Connect(h) \/ ReadApproved(h) \/ HandlerEnds(h)
           \/ Disconnect \/ Restart
  BY <1>3, ConnectionStep
<1>4. CASE UNCHANGED vars
  <2>1. ContextInv'
    BY <1>4 DEF vars, ContextInv, TypeOK, Jobs, JobOK, InPast, Present
  <2> QED BY <1>4, <2>1 DEF vars, Feed!feed
<1> QED BY <1>1, <1>2, <1>3, <1>4 DEF Next

\* The tables, frames and caches keep their types whatever overlaps or is lost.
THEOREM ContextTypes == Spec => []TypeOK
<1>1. ContextInv => TypeOK
  BY DEF ContextInv
<1> QED BY <1>1, ContextInit, ContextStep, PTL DEF Spec

\* "Commit before pushing so the agent never sees a row we later roll back"
\* (policies.py): the pushes implement the feed, for any number of requests,
\* connections, restarts and failures.
THEOREM AgentFollowsFeed == Spec => FollowsFeed
<1> QED BY ContextInit, ContextStep, PTL DEF Spec, FollowsFeed, Feed!FeedSpec

-----------------------------------------------------------------------------
(* Delivery: what is committed and not yet with the agent is owed by someone *)

InTodo(j, s) == \E i \in DOMAIN j.todo : j.todo[i] = s

\* A process at p with job j is going to tell the agent about the subject s.
Owes(p, j, s) ==
    \/ p \in {"approved", "opened"}
    \/ p \in {"push", "send"} /\ InTodo(j, s)
    \/ p = "send" /\ j.frame.on = s

\* After a flip only the switches are pushed.
Plan(p, j) ==
    p \in {"push", "send"} /\ j.kind = "switch" =>
        /\ j.todo = <<>> \/ j.todo = <<"cap">>
        /\ p = "send" => j.frame.on = "cap"

Now(s) == IF s = "cap" THEN caps ELSE policy

\* What has been read and not sent is what is committed, and the session of a
\* flip shows the switch as it is.
Fresh(p, j, s) ==
    /\ p = "send" /\ j.frame.on = s => j.frame.value = Now(s)
    /\ s = "cap" /\ p \in {"push", "send"} /\ j.kind = "switch" => j.value = caps[j.cap]

Synced(s) == IF s = "cap" THEN gate = caps ELSE policy = NoRows \/ policyCache = policy

Listens == approved /\ line # None /\ pool = line

Plans == \A w \in Process : Plan(pc[w], job[w])
Reads == \A s \in Subject \ excused : \A w \in Process : Fresh(pc[w], job[w], s)
Delivered ==
    \A s \in Subject \ excused :
        Listens => Synced(s) \/ \E w \in Process : Owes(pc[w], job[w], s)

DeliveryInv == Plans /\ Reads /\ Delivered

\* What is still to be pushed is the next subject and the rest.
LEMMA TodoSplits ==
    ASSUME NEW q \in Seq(Subject), q # <<>>, NEW s
    PROVE  (\E i \in DOMAIN q : q[i] = s) =>
               Head(q) = s \/ \E i \in DOMAIN Tail(q) : Tail(q)[i] = s
<1> SUFFICES ASSUME NEW i \in DOMAIN q, q[i] = s, Head(q) # s
             PROVE  \E k \in DOMAIN Tail(q) : Tail(q)[k] = s
  OBVIOUS
<1>1. DOMAIN q = 1..Len(q) /\ Len(q) \in Nat /\ Head(q) = q[1]
  OBVIOUS
<1>2. i \in 2..Len(q)
  BY <1>1
<1>3. Len(Tail(q)) = Len(q) - 1 /\ DOMAIN Tail(q) = 1..(Len(q) - 1)
  BY <1>1
<1>4. i - 1 \in DOMAIN Tail(q)
  BY <1>1, <1>2, <1>3
<1>5. Tail(q)[i - 1] = q[i]
  BY <1>1, <1>2, <1>3, <1>4
<1> QED BY <1>4, <1>5

\* Both subjects are in a full push.
LEMMA AllOfItOwed ==
    ASSUME NEW j, j.todo = AllOfIt, NEW s \in Subject
    PROVE  Owes("push", j, s)
<1>1. DOMAIN AllOfIt = {1, 2} /\ AllOfIt[1] = "cap" /\ AllOfIt[2] = "policy"
  BY DEF AllOfIt
<1> QED BY <1>1 DEF Owes, InTodo, Subject

\* A process with nothing to push owes nothing.
LEMMA NothingOwed ==
    ASSUME NEW p, NEW j, NEW s, p \in {"new", "commit", "serve", "done"}
    PROVE  ~Owes(p, j, s) /\ Plan(p, j) /\ Fresh(p, j, s) /\ Fresh(p, j, s)'
  BY DEF Owes, Plan, Fresh

\* One process moves on, and nothing that was owed is forgotten.
LEMMA DeliveryMoves ==
    ASSUME ContextInv, DeliveryInv, NEW w \in Process, NEW p, NEW j,
           pc' = [pc EXCEPT ![w] = p], job' = [job EXCEPT ![w] = j],
           excused \subseteq excused', Plan(p, j),
           \A s \in Subject \ excused' :
               /\ Fresh(p, j, s)'
               /\ \A v \in Process \ {w} : Fresh(pc[v], job[v], s)'
               /\ Listens' => \/ Synced(s)' \/ Owes(p, j, s)
                              \/ /\ Listens /\ (Synced(s) => Synced(s)')
                                 /\ ~Owes(pc[w], job[w], s)
    PROVE  DeliveryInv'
<1>1. pc \in [Process -> Pc] /\ job \in [Process -> Job]
  BY DEF ContextInv, TypeOK, Pc
<1>2. /\ pc'[w] = p /\ job'[w] = j
      /\ \A v \in Process \ {w} : pc'[v] = pc[v] /\ job'[v] = job[v]
  BY <1>1
<1>3. Plans'
  <2> SUFFICES ASSUME NEW v \in Process PROVE Plan(pc'[v], job'[v])
    BY DEF Plans
  <2>1. CASE v = w
    BY <1>2, <2>1
  <2>2. CASE v # w
    BY <1>2, <2>2 DEF DeliveryInv, Plans
  <2> QED BY <2>1, <2>2
<1>4. Reads'
  <2> SUFFICES ASSUME NEW s \in Subject \ excused', NEW v \in Process PROVE Fresh(pc[v], job[v], s)'
    BY DEF Reads
  <2>1. CASE v = w
    BY <1>2, <2>1 DEF Fresh, Now
  <2>2. CASE v # w
    BY <2>2
  <2> QED BY <2>1, <2>2
<1>5. Delivered'
  <2> SUFFICES ASSUME NEW s \in Subject \ excused', Listens', ~Synced(s)', ~Owes(p, j, s)
               PROVE  \E v \in Process : Owes(pc'[v], job'[v], s)
    BY <1>2 DEF Delivered
  <2>1. Listens /\ ~Synced(s) /\ ~Owes(pc[w], job[w], s)
    OBVIOUS
  <2>2. PICK v \in Process : Owes(pc[v], job[v], s)
    BY <2>1 DEF DeliveryInv, Delivered
  <2>3. v # w
    BY <2>1, <2>2
  <2> QED BY <1>2, <2>2, <2>3
<1> QED BY <1>3, <1>4, <1>5 DEF DeliveryInv

\* The same when nothing is committed: what others have read stays fresh.
LEMMA DeliveryAdvances ==
    ASSUME ContextInv, DeliveryInv, NEW w \in Process, NEW p, NEW j,
           pc' = [pc EXCEPT ![w] = p], job' = [job EXCEPT ![w] = j],
           excused \subseteq excused', UNCHANGED <<policy, caps>>, Plan(p, j),
           \A s \in Subject \ excused' :
               /\ Fresh(p, j, s)
               /\ Listens' => \/ Synced(s)' \/ Owes(p, j, s)
                              \/ /\ Listens /\ (Synced(s) => Synced(s)')
                                 /\ ~Owes(pc[w], job[w], s)
    PROVE  DeliveryInv'
<1>1. \A v \in Process \ {w} : pc'[v] = pc[v] /\ job'[v] = job[v]
  BY DEF ContextInv, TypeOK
<1>2. ASSUME NEW s \in Subject \ excused'
      PROVE  Fresh(p, j, s)' /\ \A v \in Process \ {w} : Fresh(pc[v], job[v], s)'
  <2>1. Fresh(p, j, s)'
    BY DEF Fresh, Now
  <2>2. ASSUME NEW v \in Process \ {w} PROVE Fresh(pc[v], job[v], s)'
    <3>1. Fresh(pc[v], job[v], s)
      BY DEF DeliveryInv, Reads
    <3> QED BY <1>1, <3>1 DEF Fresh, Now
  <2> QED BY <2>1, <2>2
<1> QED BY <1>2, DeliveryMoves

\* A request arrives, or gives up before its commit.
LEMMA DeliveryIdle ==
    ASSUME ContextInv, DeliveryInv, NEW w \in Process, NEW p, NEW j,
           pc' = [pc EXCEPT ![w] = p], job' = [job EXCEPT ![w] = j], Plan(p, j),
           \A s \in Subject : Fresh(p, j, s) /\ ~Owes(pc[w], job[w], s),
           UNCHANGED <<approved, policy, caps, line, policyCache, gate, excused>>,
           pool' = pool \/ pool' = None
    PROVE  DeliveryInv'
<1>1. Listens' => Listens
  BY DEF Listens
<1>2. \A s \in Subject : Synced(s)' = Synced(s)
  BY DEF Synced
<1> QED BY <1>1, <1>2, DeliveryAdvances

\* The commit of a policy change: the change is owed, and frames that it made
\* stale excuse the subject.
LEMMA CommitPolicyDelivers ==
    ASSUME ContextInv, DeliveryInv, NEW w \in Process, CommitPolicy(w)
    PROVE  DeliveryInv'
<1>j. PICK j : j = [job[w] EXCEPT !.todo = <<"policy">>]
  OBVIOUS
<1>0. /\ job[w] \in Job /\ job \in [Process -> Job] /\ pc \in [Process -> Pc] /\ pc[w] = "commit"
      /\ job[w].kind = "policy"
  BY DEF ContextInv, TypeOK, CommitPolicy, Pc
<1>1. /\ pc' = [pc EXCEPT ![w] = "push"] /\ job' = [job EXCEPT ![w] = j]
      /\ UNCHANGED <<approved, caps, network, agent>>
  BY <1>0, <1>j DEF CommitPolicy
<1>2. excused' = IF Overtakes(w, "policy", None) THEN excused \cup {"policy"} ELSE excused
  BY DEF CommitPolicy, Excuse
<1>3. j.kind = "policy" /\ j.todo = <<"policy">>
  BY <1>0, <1>j DEF Job
<1>4. Plan("push", j) /\ excused \subseteq excused'
  BY <1>2, <1>3 DEF Plan
<1>5. Owes("push", j, "policy")
  BY <1>3 DEF Owes, InTodo
<1>6. \A v \in Process \ {w} : pc'[v] = pc[v] /\ job'[v] = job[v]
  BY <1>0, <1>1
<1>7. ASSUME NEW s \in Subject \ excused'
      PROVE  /\ Fresh("push", j, s)'
             /\ \A v \in Process \ {w} : Fresh(pc[v], job[v], s)'
             /\ Listens' => \/ Synced(s)' \/ Owes("push", j, s)
                            \/ /\ Listens /\ (Synced(s) => Synced(s)')
                               /\ ~Owes(pc[w], job[w], s)
  <2>1. Fresh("push", j, s)'
    BY <1>3 DEF Fresh
  <2>2. ASSUME NEW v \in Process \ {w} PROVE Fresh(pc[v], job[v], s)'
    <3>1. Fresh(pc[v], job[v], s)
      BY <1>4 DEF DeliveryInv, Reads
    <3>2. CASE s = "cap"
      BY <1>1, <1>6, <3>1, <3>2 DEF Fresh, Now
    <3>3. CASE s = "policy"
      <4>1. ~(pc[v] = "send" /\ job[v].frame.on = "policy")
        BY <1>2, <3>3 DEF Overtakes
      <4> QED BY <1>6, <3>3, <4>1 DEF Fresh
    <3> QED BY <3>2, <3>3 DEF Subject
  <2>3. CASE s = "cap"
    <3>1. Listens' => Listens
      BY <1>1 DEF Listens, network
    <3>2. Synced(s)' = Synced(s)
      BY <1>1, <2>3 DEF Synced, agent
    <3>3. ~Owes(pc[w], job[w], s)
      BY <1>0, NothingOwed
    <3> QED BY <2>1, <2>2, <3>1, <3>2, <3>3
  <2>4. CASE s = "policy"
    BY <1>5, <2>1, <2>2, <2>4
  <2> QED BY <2>3, <2>4 DEF Subject
<1> QED BY <1>1, <1>4, <1>7, DeliveryMoves

\* The commit of a flip.
LEMMA CommitSwitchDelivers ==
    ASSUME ContextInv, DeliveryInv, NEW w \in Process, CommitSwitch(w)
    PROVE  DeliveryInv'
<1>j. PICK j : j = [job[w] EXCEPT !.todo = <<"cap">>]
  OBVIOUS
<1>0. /\ job[w] \in Job /\ job \in [Process -> Job] /\ pc \in [Process -> Pc] /\ pc[w] = "commit"
      /\ job[w].kind = "switch" /\ JobOK("commit", job[w]) /\ caps \in Switches
  BY DEF ContextInv, TypeOK, CommitSwitch, Pc, Jobs
<1>1. /\ pc' = [pc EXCEPT ![w] = "push"] /\ job' = [job EXCEPT ![w] = j]
      /\ UNCHANGED <<approved, policy, network, agent>>
  BY <1>0, <1>j DEF CommitSwitch
<1>2. PICK c \in Cap : c = job[w].cap
  BY <1>0 DEF JobOK
<1>3. excused' = IF Overtakes(w, "cap", c) \/ caps'[c] # job[w].value
                 THEN excused \cup {"cap"} ELSE excused
  BY <1>2 DEF CommitSwitch
<1>4. \A d \in Cap \ {c} : caps'[d] = caps[d]
  BY <1>0, <1>2 DEF CommitSwitch, Switches
<1>5. j.kind = "switch" /\ j.todo = <<"cap">> /\ j.cap = c /\ j.value = job[w].value
  BY <1>0, <1>2, <1>j DEF Job
<1>6. Plan("push", j) /\ excused \subseteq excused'
  BY <1>3, <1>5 DEF Plan
<1>7. Owes("push", j, "cap")
  BY <1>5 DEF Owes, InTodo
<1>8. \A v \in Process \ {w} : pc'[v] = pc[v] /\ job'[v] = job[v]
  BY <1>0, <1>1
<1>9. ASSUME NEW s \in Subject \ excused'
      PROVE  /\ Fresh("push", j, s)'
             /\ \A v \in Process \ {w} : Fresh(pc[v], job[v], s)'
             /\ Listens' => \/ Synced(s)' \/ Owes("push", j, s)
                            \/ /\ Listens /\ (Synced(s) => Synced(s)')
                               /\ ~Owes(pc[w], job[w], s)
  <2>1. Fresh("push", j, s)'
    <3>1. s = "cap" => caps'[c] = job[w].value
      BY <1>3
    <3> QED BY <1>5, <3>1 DEF Fresh
  <2>2. ASSUME NEW v \in Process \ {w} PROVE Fresh(pc[v], job[v], s)'
    <3>1. Fresh(pc[v], job[v], s)
      BY <1>6 DEF DeliveryInv, Reads
    <3>2. CASE s = "policy"
      BY <1>1, <1>8, <3>1, <3>2 DEF Fresh, Now
    <3>3. CASE s = "cap"
      <4>1. /\ ~(pc[v] = "send" /\ job[v].frame.on = "cap")
            /\ ~(pc[v] = "push" /\ job[v].cap = c)
        BY <1>3, <3>3 DEF Overtakes
      <4>2. Plan(pc[v], job[v]) /\ JobOK(pc[v], job[v])
        BY DEF DeliveryInv, Plans, ContextInv, Jobs
      <4>3. pc[v] \in {"push", "send"} /\ job[v].kind = "switch" =>
               job[v].cap \in Cap \ {c} /\ job[v].value = caps[job[v].cap]
        BY <3>1, <3>3, <4>1, <4>2 DEF Plan, JobOK, Fresh
      <4> QED BY <1>4, <1>8, <3>3, <4>1, <4>3 DEF Fresh
    <3> QED BY <3>2, <3>3 DEF Subject
  <2>3. CASE s = "policy"
    <3>1. Listens' => Listens
      BY <1>1 DEF Listens, network
    <3>2. Synced(s)' = Synced(s)
      BY <1>1, <2>3 DEF Synced, agent
    <3>3. ~Owes(pc[w], job[w], s)
      BY <1>0, NothingOwed
    <3> QED BY <2>1, <2>2, <3>1, <3>2, <3>3
  <2>4. CASE s = "cap"
    BY <1>7, <2>1, <2>2, <2>4
  <2> QED BY <2>3, <2>4 DEF Subject
<1> QED BY <1>1, <1>6, <1>9, DeliveryMoves

\* The approval is committed: its request owes everything, until it looks
\* whether the agent is connected.
LEMMA ApprovalDelivers ==
    ASSUME ContextInv, DeliveryInv, NEW w \in Process, CommitApproval(w) \/ AfterApproval(w)
    PROVE  DeliveryInv'
<1>0. /\ job[w] \in Job /\ job \in [Process -> Job] /\ JobOK(pc[w], job[w])
  BY DEF ContextInv, TypeOK, Jobs
<1>1. CASE CommitApproval(w)
  <2>1. PICK j : j = job[w]
    OBVIOUS
  <2>2. /\ pc' = [pc EXCEPT ![w] = "approved"] /\ job' = [job EXCEPT ![w] = j]
        /\ UNCHANGED <<policy, caps, excused>>
    BY <1>0, <1>1, <2>1 DEF CommitApproval
  <2>3. Plan("approved", j) /\ \A s \in Subject : Fresh("approved", j, s) /\ Owes("approved", j, s)
    BY DEF Plan, Fresh, Owes
  <2> QED BY <2>2, <2>3, DeliveryAdvances
<1>2. CASE AfterApproval(w)
  <2>1. PICK j : j = [job[w] EXCEPT !.todo = IF pool = None THEN <<>> ELSE AllOfIt]
    OBVIOUS
  <2>2. /\ pc' = [pc EXCEPT ![w] = "push"] /\ job' = [job EXCEPT ![w] = j]
        /\ UNCHANGED <<approved, policy, caps, pool, line, excused>>
    BY <1>2, <2>1 DEF AfterApproval, db, network
  <2>3. /\ j.kind = job[w].kind /\ j.todo = (IF pool = None THEN <<>> ELSE AllOfIt)
    BY <1>0, <2>1 DEF Job
  <2>4. j.kind # "switch"
    BY <1>0, <1>2, <2>3 DEF JobOK, AfterApproval
  <2>5. Plan("push", j) /\ \A s \in Subject : Fresh("push", j, s)
    BY <2>4 DEF Plan, Fresh
  <2>6. Listens' => \A s \in Subject : Owes("push", j, s)
    BY <2>2, <2>3, AllOfItOwed DEF Listens
  <2> QED BY <2>2, <2>5, <2>6, DeliveryAdvances
<1> QED BY <1>1, <1>2

\* A push reads the committed rows: also the one that runs in the session of a
\* flip.
LEMMA PayloadFresh ==
    ASSUME ContextInv, DeliveryInv, NEW w \in Process, pc[w] = "push", NEW s \in Subject \ excused
    PROVE  Payload(w, s).on = s /\ Payload(w, s).value = Now(s)
<1>0. /\ job[w] \in Job /\ JobOK("push", job[w]) /\ caps \in Switches
      /\ Fresh("push", job[w], s)
  BY DEF ContextInv, TypeOK, Jobs, DeliveryInv, Reads
<1>1. CASE s = "cap"
  <2>1. \A c \in Cap : (IF c = job[w].cap THEN job[w].value ELSE caps[c]) = caps[c]
    <3>1. CASE job[w].kind = "switch"
      BY <1>0, <1>1, <3>1 DEF Fresh
    <3>2. CASE job[w].kind # "switch"
      BY <1>0, <3>2, ContextAssumption DEF JobOK
    <3> QED BY <3>1, <3>2
  <2>2. SwitchPayload(w) = caps
    BY <1>0, <2>1 DEF SwitchPayload, Switches
  <2> QED BY <1>1, <2>2 DEF Payload, Now
<1>2. CASE s = "policy"
  BY <1>2 DEF Payload, PolicyPayload, Now
<1> QED BY <1>1, <1>2 DEF Subject

\* Compose: the next subject is owed by the frame, the others as before; without
\* policy rows there is nothing to be told.
LEMMA ComposeDelivers ==
    ASSUME ContextInv, DeliveryInv, NEW w \in Process, Compose(w)
    PROVE  DeliveryInv'
<1>0. /\ job[w] \in Job /\ job \in [Process -> Job] /\ pc \in [Process -> Pc] /\ pc[w] = "push"
      /\ JobOK("push", job[w]) /\ Plan("push", job[w])
      /\ \A s \in Subject \ excused : Fresh("push", job[w], s)
  BY DEF ContextInv, TypeOK, Jobs, DeliveryInv, Plans, Reads, Compose, Pc
<1>1. job[w].todo \in Seq(Subject) /\ job[w].todo # <<>>
  BY <1>0 DEF Job, Compose
<1>2. PICK h \in Subject, rest \in Seq(Subject) : h = Head(job[w].todo) /\ rest = Tail(job[w].todo)
  <2>1. Head(job[w].todo) \in Subject /\ Tail(job[w].todo) \in Seq(Subject)
    BY <1>1
  <2> QED BY <2>1
<1>3. \A s : InTodo(job[w], s) => h = s \/ \E i \in DOMAIN rest : rest[i] = s
  BY <1>1, <1>2, TodoSplits DEF InTodo
<1>4. job[w].kind = "switch" => h = "cap" /\ rest = <<>>
  BY <1>0, <1>1, <1>2 DEF Plan
<1>5. /\ UNCHANGED <<approved, policy, caps, pool, line, policyCache, gate, excused>>
  BY DEF Compose, db, network, agent
<1>6. (Listens' => Listens) /\ \A s \in Subject : Synced(s)' = Synced(s)
  BY <1>5 DEF Listens, Synced
<1>7. CASE h = "policy" /\ policy = NoRows
  <2>1. PICK j : j = [job[w] EXCEPT !.todo = rest]
    OBVIOUS
  <2>2. pc' = [pc EXCEPT ![w] = "push"] /\ job' = [job EXCEPT ![w] = j]
    BY <1>0, <1>2, <1>7, <2>1 DEF Compose
  <2>3. j.kind = job[w].kind /\ j.cap = job[w].cap /\ j.value = job[w].value /\ j.todo = rest
    BY <1>0, <2>1 DEF Job
  <2>4. Plan("push", j)
    BY <1>4, <2>3 DEF Plan
  <2>5. ASSUME NEW s \in Subject \ excused'
        PROVE  Fresh("push", j, s) /\ (Synced(s)' \/ Owes("push", j, s) \/ ~Owes(pc[w], job[w], s))
    <3>1. Fresh("push", j, s)
      BY <1>0, <1>5, <2>3 DEF Fresh
    <3>2. CASE s = h
      BY <1>5, <1>7, <3>1, <3>2 DEF Synced
    <3>3. CASE s # h
      BY <1>0, <1>3, <2>3, <3>1, <3>3 DEF Owes, InTodo
    <3> QED BY <3>2, <3>3
  <2> QED BY <1>5, <1>6, <2>2, <2>4, <2>5, DeliveryAdvances
<1>8. CASE ~(h = "policy" /\ policy = NoRows)
  <2>1. PICK f : f = Payload(w, h)
    OBVIOUS
  <2>2. PICK j : j = [job[w] EXCEPT !.todo = rest, !.frame = f]
    OBVIOUS
  <2>3. pc' = [pc EXCEPT ![w] = "send"] /\ job' = [job EXCEPT ![w] = j]
    BY <1>2, <1>8, <2>1, <2>2 DEF Compose
  <2>4. /\ j.kind = job[w].kind /\ j.cap = job[w].cap /\ j.value = job[w].value
        /\ j.todo = rest /\ j.frame = f
    BY <1>0, <2>2 DEF Job
  <2>5. f.on = h
    BY <2>1 DEF Payload
  <2>6. Plan("send", j)
    BY <1>4, <2>4, <2>5 DEF Plan
  <2>7. ASSUME NEW s \in Subject \ excused'
        PROVE  Fresh("send", j, s) /\ (Owes("send", j, s) \/ ~Owes(pc[w], job[w], s))
    <3>1. s = h => f.value = Now(s)
      BY <1>0, <1>5, <2>1, PayloadFresh
    <3>2. Fresh("send", j, s)
      BY <1>0, <1>5, <2>4, <2>5, <3>1 DEF Fresh
    <3>3. Owes("send", j, s) \/ ~Owes(pc[w], job[w], s)
      BY <1>0, <1>3, <2>4, <2>5 DEF Owes, InTodo
    <3> QED BY <3>2, <3>3
  <2> QED BY <1>5, <1>6, <2>3, <2>6, <2>7, DeliveryAdvances
<1> QED BY <1>7, <1>8

\* A push that fails excuses its subject, and one that is over owes nothing.
LEMMA PushEndDelivers ==
    ASSUME ContextInv, DeliveryInv, NEW w \in Process, PushFails(w) \/ Pushed(w)
    PROVE  DeliveryInv'
<1>0. /\ job[w] \in Job /\ job \in [Process -> Job] /\ pc \in [Process -> Pc] /\ pc[w] = "push"
      /\ Plan("push", job[w]) /\ \A s \in Subject \ excused : Fresh("push", job[w], s)
  BY DEF ContextInv, TypeOK, DeliveryInv, Plans, Reads, PushFails, Pushed, Pc
<1>1. /\ UNCHANGED <<approved, policy, caps, pool, line, policyCache, gate>>
  BY DEF PushFails, Pushed, db, network, agent
<1>2. (Listens' => Listens) /\ \A s \in Subject : Synced(s)' = Synced(s)
  BY <1>1 DEF Listens, Synced
<1>3. CASE PushFails(w)
  <2>1. job[w].todo \in Seq(Subject) /\ job[w].todo # <<>>
    BY <1>0, <1>3 DEF Job, PushFails
  <2>2. PICK h \in Subject, rest \in Seq(Subject) :
           h = Head(job[w].todo) /\ rest = Tail(job[w].todo)
    <3>1. Head(job[w].todo) \in Subject /\ Tail(job[w].todo) \in Seq(Subject)
      BY <2>1
    <3> QED BY <3>1
  <2>3. PICK j : j = [job[w] EXCEPT !.todo = rest]
    OBVIOUS
  <2>4. /\ pc' = [pc EXCEPT ![w] = "push"] /\ job' = [job EXCEPT ![w] = j]
        /\ excused' = excused \cup {h}
    BY <1>0, <1>3, <2>2, <2>3 DEF PushFails
  <2>5. j.kind = job[w].kind /\ j.cap = job[w].cap /\ j.value = job[w].value /\ j.todo = rest
    BY <1>0, <2>3 DEF Job
  <2>6. \A s : InTodo(job[w], s) => h = s \/ \E i \in DOMAIN rest : rest[i] = s
    BY <2>1, <2>2, TodoSplits DEF InTodo
  <2>7. job[w].kind = "switch" => rest = <<>>
    BY <1>0, <2>1, <2>2 DEF Plan
  <2>8. Plan("push", j)
    BY <2>5, <2>7 DEF Plan
  <2>9. ASSUME NEW s \in Subject \ excused'
        PROVE  Fresh("push", j, s) /\ (Owes("push", j, s) \/ ~Owes(pc[w], job[w], s))
    <3>1. s # h /\ s \in Subject \ excused
      BY <2>4
    <3>2. Fresh("push", j, s)
      BY <1>0, <2>5, <3>1 DEF Fresh
    <3>3. Owes("push", j, s) \/ ~Owes(pc[w], job[w], s)
      BY <1>0, <2>5, <2>6, <3>1 DEF Owes, InTodo
    <3> QED BY <3>2, <3>3
  <2> QED BY <1>1, <1>2, <2>4, <2>8, <2>9, DeliveryAdvances
<1>4. CASE Pushed(w)
  <2>1. PICK j, p : /\ p \in {"serve", "done"} /\ UNCHANGED excused
                    /\ pc' = [pc EXCEPT ![w] = p] /\ job' = [job EXCEPT ![w] = j]
    <3>1. PICK p : p = (IF w \in Connection THEN "serve" ELSE "done")
      OBVIOUS
    <3>2. PICK j : j = NewJob("none")
      OBVIOUS
    <3> QED BY <1>4, <3>1, <3>2 DEF Pushed
  <2>2. Plan(p, j) /\ \A s \in Subject : Fresh(p, j, s)
    BY <2>1, NothingOwed
  <2>3. job[w].todo = <<>>
    BY <1>4 DEF Pushed
  <2>4. \A s \in Subject : ~Owes(pc[w], job[w], s)
    BY <1>0, <2>3 DEF Owes, InTodo
  <2> QED BY <1>1, <1>2, <2>1, <2>2, <2>4, DeliveryAdvances
<1> QED BY <1>3, <1>4

\* Send: the agent that listens gets the frame, and the frame is fresh.
LEMMA SendDelivers ==
    ASSUME ContextInv, DeliveryInv, NEW w \in Process, Send(w)
    PROVE  DeliveryInv'
<1>0. /\ job[w] \in Job /\ job \in [Process -> Job] /\ pc \in [Process -> Pc] /\ pc[w] = "send"
      /\ JobOK("send", job[w]) /\ Plan("send", job[w])
      /\ \A s \in Subject \ excused : Fresh("send", job[w], s)
  BY DEF ContextInv, TypeOK, Jobs, DeliveryInv, Plans, Reads, Send, Pc
<1>1. PICK f \in Frame : f = job[w].frame
  BY <1>0 DEF Job, JobOK
<1>2. PICK j : j = [job[w] EXCEPT !.frame = None]
  OBVIOUS
<1>3. /\ pc' = [pc EXCEPT ![w] = "push"] /\ job' = [job EXCEPT ![w] = j]
      /\ UNCHANGED <<approved, policy, caps, pool, line, excused>>
  BY <1>2 DEF Send, db, network
<1>4. /\ j.kind = job[w].kind /\ j.cap = job[w].cap /\ j.value = job[w].value /\ j.todo = job[w].todo
  BY <1>0, <1>2 DEF Job
<1>5. Plan("push", j)
  BY <1>0, <1>4 DEF Plan
<1>6. f.on \in Subject
  BY DEF Frame, Subject
<1>7. (Listens' => Listens)
  BY <1>3 DEF Listens
<1>8. Listens => Hear(f)
  BY <1>1 DEF Send, Listens
<1>9. ASSUME NEW s \in Subject \ excused'
      PROVE  /\ Fresh("push", j, s)
             /\ Listens' => \/ Synced(s)' \/ Owes("push", j, s)
                            \/ /\ Listens /\ (Synced(s) => Synced(s)')
                               /\ ~Owes(pc[w], job[w], s)
  <2>1. Fresh("send", job[w], s)
    BY <1>0, <1>3
  <2>2. Fresh("push", j, s)
    BY <1>4, <2>1 DEF Fresh
  <2>3. CASE f.on = s
    <3>1. f.value = Now(s)
      BY <1>1, <2>1, <2>3 DEF Fresh
    <3>2. Listens => Synced(s)'
      BY <1>3, <1>8, <2>3, <3>1 DEF Hear, Synced, Now, Subject
    <3> QED BY <1>7, <2>2, <3>2
  <2>4. CASE f.on # s
    <3>1. Owes(pc[w], job[w], s) => Owes("push", j, s)
      BY <1>0, <1>1, <1>4, <2>4 DEF Owes, InTodo
    <3>2. Listens => (Synced(s) => Synced(s)')
      BY <1>3, <1>6, <1>8, <2>4 DEF Hear, Synced, Subject
    <3> QED BY <1>7, <2>2, <3>1, <3>2
  <2> QED BY <2>3, <2>4
<1> QED BY <1>3, <1>5, <1>9, DeliveryAdvances

\* A new connection is owed everything, and a lost one nothing.
LEMMA ConnectionDelivers ==
    ASSUME ContextInv, DeliveryInv,
           \/ \E h \in Connection : Connect(h) \/ ReadApproved(h) \/ HandlerEnds(h)
           \/ Disconnect \/ Restart
    PROVE  DeliveryInv'
<1>0. /\ job \in [Process -> Job] /\ Connection \subseteq Process
  BY DEF ContextInv, TypeOK, Process
<1>1. ASSUME NEW h \in Connection, Connect(h) PROVE DeliveryInv'
  <2>1. PICK j : j = job[h]
    OBVIOUS
  <2>2. /\ pc' = [pc EXCEPT ![h] = "opened"] /\ job' = [job EXCEPT ![h] = j]
        /\ UNCHANGED <<policy, caps, excused>>
    BY <1>0, <1>1, <2>1 DEF Connect, db
  <2>3. Plan("opened", j) /\ \A s \in Subject : Fresh("opened", j, s) /\ Owes("opened", j, s)
    BY DEF Plan, Fresh, Owes
  <2> QED BY <1>0, <2>2, <2>3, DeliveryAdvances
<1>2. ASSUME NEW h \in Connection, ReadApproved(h) PROVE DeliveryInv'
  <2>1. PICK n : n = NewJob("connect") /\ n \in Job /\ n.kind = "connect"
    BY NewJobFacts
  <2>2. PICK j : j = [n EXCEPT !.todo = IF approved THEN AllOfIt ELSE <<>>]
    OBVIOUS
  <2>3. /\ pc' = [pc EXCEPT ![h] = "push"] /\ job' = [job EXCEPT ![h] = j]
        /\ UNCHANGED <<approved, policy, caps, excused>>
    BY <1>2, <2>1, <2>2 DEF ReadApproved, db
  <2>4. j.kind = "connect" /\ (approved => j.todo = AllOfIt)
    BY <2>1, <2>2 DEF Job
  <2>5. Plan("push", j) /\ \A s \in Subject : Fresh("push", j, s)
    BY <2>4 DEF Plan, Fresh
  <2>6. Listens' => \A s \in Subject : Owes("push", j, s)
    BY <2>3, <2>4, AllOfItOwed DEF Listens
  <2> QED BY <1>0, <2>3, <2>5, <2>6, DeliveryAdvances
<1>3. ASSUME NEW h \in Connection, HandlerEnds(h) PROVE DeliveryInv'
  <2>1. PICK j, p : j = job[h] /\ p = "done"
    OBVIOUS
  <2>2. /\ p \in {"commit", "serve", "done"} /\ pc[h] \in {"new", "commit", "serve"}
        /\ pc' = [pc EXCEPT ![h] = p] /\ job' = [job EXCEPT ![h] = j]
        /\ (pool' = pool \/ pool' = None)
        /\ UNCHANGED <<approved, policy, caps, line, policyCache, gate, excused>>
    BY <1>0, <1>3, <2>1 DEF HandlerEnds, db, agent
  <2>3. h \in Process /\ Plan(p, j) /\ \A s \in Subject : Fresh(p, j, s) /\ ~Owes(pc[h], job[h], s)
    BY <1>0, <2>2, NothingOwed
  <2> QED BY <2>2, <2>3, DeliveryIdle
<1>4. CASE Disconnect \/ Restart
  <2>1. UNCHANGED <<policy, caps, pc, job, excused>> /\ line' = None
    BY <1>4 DEF Disconnect, Restart, db
  <2> QED BY <2>1 DEF DeliveryInv, Plans, Reads, Fresh, Now, Delivered, Listens
<1> QED BY <1>1, <1>2, <1>3, <1>4

\* Nobody owes anything to begin with: no agent listens.
LEMMA DeliveryInit ==
    ASSUME Init
    PROVE  DeliveryInv
  BY DEF Init, DeliveryInv, Plans, Plan, Reads, Fresh, Delivered, Listens

\* The inductive step: every debt is kept, moved on or paid.
LEMMA DeliveryNext ==
    ASSUME ContextInv, DeliveryInv, [Next]_vars
    PROVE  DeliveryInv'
<1>1. ASSUME NEW w \in Request, RequestStep(w) PROVE DeliveryInv'
  <2>0. w \in Process
    BY DEF Process
  <2>1. CASE CommitPolicy(w)
    BY <2>0, <2>1, CommitPolicyDelivers
  <2>2. CASE CommitSwitch(w)
    BY <2>0, <2>2, CommitSwitchDelivers
  <2>3. CASE CommitApproval(w) \/ AfterApproval(w)
    BY <2>0, <2>3, ApprovalDelivers
  <2>4. CASE RollBack(w)
    <3>1. PICK j, p : j = NewJob("none") /\ p = "done"
      OBVIOUS
    <3>2. /\ p \in {"commit", "serve", "done"} /\ pc[w] \in {"new", "commit", "serve"}
          /\ pc' = [pc EXCEPT ![w] = p] /\ job' = [job EXCEPT ![w] = j]
          /\ (pool' = pool \/ pool' = None)
          /\ UNCHANGED <<approved, policy, caps, line, policyCache, gate, excused>>
      BY <2>4, <3>1 DEF RollBack, db, network, agent
    <3>3. Plan(p, j) /\ \A s \in Subject : Fresh(p, j, s) /\ ~Owes(pc[w], job[w], s)
      BY <3>2, NothingOwed
    <3> QED BY <2>0, <3>2, <3>3, DeliveryIdle
  <2>5. ASSUME NEW j, Arrive(w, j) PROVE DeliveryInv'
    <3>1. PICK i, p : i = j /\ p = "commit"
      OBVIOUS
    <3>2. /\ p \in {"commit", "serve", "done"} /\ pc[w] \in {"new", "commit", "serve"}
          /\ pc' = [pc EXCEPT ![w] = p] /\ job' = [job EXCEPT ![w] = i]
          /\ (pool' = pool \/ pool' = None)
          /\ UNCHANGED <<approved, policy, caps, line, policyCache, gate, excused>>
      BY <2>5, <3>1 DEF Arrive, db, network, agent
    <3>3. Plan(p, i) /\ \A s \in Subject : Fresh(p, i, s) /\ ~Owes(pc[w], job[w], s)
      BY <3>2, NothingOwed
    <3> QED BY <2>0, <3>2, <3>3, DeliveryIdle
  <2>6. CASE \/ \E e \in Edit : UpdatePolicy(w, e)
             \/ \E p \in Profile : SwitchProfile(w, p)
             \/ \E c \in Cap, v \in BOOLEAN : FlipSwitch(w, c, v)
             \/ Approve(w)
    <3>1. \E j : Arrive(w, j)
      BY <2>6 DEF UpdatePolicy, SwitchProfile, FlipSwitch, Approve
    <3> QED BY <2>5, <3>1
  <2> QED BY <1>1, <2>1, <2>2, <2>3, <2>4, <2>6 DEF RequestStep
<1>2. ASSUME NEW w \in Process, PushStep(w) PROVE DeliveryInv'
  BY <1>2, ComposeDelivers, SendDelivers, PushEndDelivers DEF PushStep
<1>3. CASE \/ \E h \in Connection : Connect(h) \/ ReadApproved(h) \/ HandlerEnds(h)
           \/ Disconnect \/ Restart
  BY <1>3, ConnectionDelivers
<1>4. CASE UNCHANGED vars
  BY <1>4 DEF vars, DeliveryInv, Plans, Reads, Fresh, Now, Delivered, Listens, Synced
<1> QED BY <1>1, <1>2, <1>3, <1>4 DEF Next

\* "so its gate updates without waiting for a reconnect" (servers.py): when all
\* is quiet, an approved agent has the switches and the policies of the
\* database, whichever of connecting, approving and changing came first, for any
\* number of overlapping requests and connections, unless a push failed or
\* another change overtook it.
THEOREM AgentEndsInStep == Spec => []InStep
<1>1. DeliveryInv => InStep
  <2> SUFFICES ASSUME DeliveryInv, Quiet, approved
               PROVE  /\ "cap" \in excused \/ gate = caps
                      /\ "policy" \in excused \/ policy = NoRows \/ policyCache = policy
    BY DEF InStep
  <2>1. Listens /\ \A w \in Process : pc[w] \in {"new", "serve", "done"}
    BY DEF Quiet, Listens
  <2>2. \A s \in Subject, w \in Process : ~Owes(pc[w], job[w], s)
    BY <2>1, NothingOwed
  <2>3. \A s \in Subject \ excused : Synced(s)
    BY <2>1, <2>2 DEF DeliveryInv, Delivered
  <2> QED BY <2>3 DEF Synced, Subject
<1>2. Init => ContextInv /\ DeliveryInv
  BY ContextInit, DeliveryInit
<1>3. ContextInv /\ DeliveryInv /\ [Next]_vars => (ContextInv /\ DeliveryInv)'
  BY ContextStep, DeliveryNext
<1> QED BY <1>1, <1>2, <1>3, PTL DEF Spec
=============================================================================
