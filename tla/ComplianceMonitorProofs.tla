---------------------- MODULE ComplianceMonitorProofs ----------------------
(***************************************************************************)
(* Proofs about ComplianceMonitor, for any number of processes, accounts   *)
(* and cards, any policies, and any limits.  The grace period of a kill    *)
(* rests on what a timer of the killing policy can be: either the monitor  *)
(* has found this process preempting, at this place and in this name, at   *)
(* every look since the timer was started, or that violation ended, and    *)
(* the timer is one of those left behind.  A restart forgets both, and     *)
(* reused pids and late samples only add to the timers left behind.  The   *)
(* hang rule rests on the streak of a card being no longer than its last   *)
(* rest.                                                                   *)
(***************************************************************************)
EXTENDS ComplianceMonitor, TLAPS

\* The timer of a killing policy for this pid, in this name, on this card.
SignedAs(t, p, at) == t.key \in AllowedToKill /\ t.pid = p /\ t.acct = at.acct /\ t.card = at.card

\* Its violation ended, or has been seen for as long as the timer runs.
Followed(t, p, at) ==
    \/ [pid |-> p, at |-> at] \in lapsed
    \/ known[p] # None /\ known[p].at = at /\ t.age <= known[p].age

TimersFollowed ==
    \A t \in pending, p \in Pid, at \in Place : SignedAs(t, p, at) => Followed(t, p, at)

\* A streak is no older than the last sample that found the card busy.
StreaksRest == \A g \in Card : idle[g] # None => idle[g] <= quiet[g]

MonitorInv == TypeOK /\ TimersFollowed /\ StreaksRest /\ HangIsContinuous

-----------------------------------------------------------------------------
(* The operators *)

\* An evaluation names a policy, or finds nothing.
LEMMA VerdictNamed ==
    ASSUME NEW a, NEW g, NEW over
    PROVE  Verdict(a, g, over) \in Key \cup {None}
  BY DEF Verdict, Key

\* Recording a violation keeps the timers and starts at most one.
LEMMA RecordedAdds ==
    ASSUME TypeOK, NEW key \in Key, NEW g \in Card, NEW a \in Account \cup {None},
           NEW p \in Pid \cup {None}
    PROVE  /\ Recorded(key, g, a, p) \subseteq Timer
           /\ \A t \in Recorded(key, g, a, p) :
                 t \in pending \/ (t.key = key /\ t.pid = p /\ t.card = g /\ t.acct = a /\ t.age = 0)
<1> DEFINE t0 == [key |-> key, card |-> g, acct |-> a, pid |-> p, age |-> 0]
<1>1. 0 \in Age
  BY MonitorAssumption DEF Age
<1>2. t0 \in Timer /\ t0.key = key /\ t0.pid = p /\ t0.card = g /\ t0.acct = a /\ t0.age = 0
  BY <1>1 DEF Timer
<1>3. Recorded(key, g, a, p) = pending \/ Recorded(key, g, a, p) = pending \cup {t0}
  BY DEF Recorded
<1>4. pending \subseteq Timer
  BY DEF TypeOK
<1> HIDE DEF t0
<1> QED
  BY <1>2, <1>3, <1>4

\* Reports add alerts to the table and may take the connection down.
LEMMA ReportTypes ==
    ASSUME TypeOK, NEW keys \in SUBSET Key, NEW g \in Card, NEW p \in Pid \cup {None},
           Report(keys, g, p)
    PROVE  conn' \in BOOLEAN /\ alerts' \subseteq Alert
<1>1. CASE UNCHANGED <<conn, alerts>>
  BY <1>1 DEF TypeOK
<1>2. CASE \E fresh \in SUBSET keys : Raise(fresh, g, p)
  <2>1. PICK fresh \in SUBSET keys : Raise(fresh, g, p)
    BY <1>2
  <2>2. g \in Nat
    BY MonitorAssumption
  <2>3. \A key \in fresh : [gpu |-> g, key |-> key, pid |-> p] \in Alert
    BY <2>2 DEF Alert
  <2>4. conn' \in BOOLEAN
    BY <2>1 DEF Raise
  <2>5. alerts' \subseteq Alert
    BY <2>1, <2>3 DEF Raise, TypeOK
  <2> QED
    BY <2>4, <2>5
<1> QED
  BY <1>1, <1>2 DEF Report

\* Ages grow together and stay in their range.
LEMMA OlderGrows ==
    ASSUME NEW x \in Age \cup {None}
    PROVE  /\ Older(x) \in Age \cup {None}
           /\ Older(x) = None <=> x = None
           /\ x \in Age => Older(x) \in Age
           /\ \A y \in Age : x \in Age /\ x <= y => Older(x) <= Older(y)
<1>1. None \notin Age /\ MaxAge \in Nat
  BY MonitorAssumption
<1>2. CASE x = None
  BY <1>1, <1>2 DEF Older
<1>3. CASE x \in Age
  <2>1. Older(x) \in Age
    BY <1>1, <1>3 DEF Older, Age
  <2>2. \A y \in Age : x <= y => Older(x) <= Older(y)
    BY <1>1, <1>3 DEF Older, Age
  <2> QED
    BY <1>1, <1>3, <2>1, <2>2
<1> QED
  BY <1>2, <1>3

\* What the backend sends of the tables is a cache.
LEMMA ComposedTypes ==
    ASSUME TypeOK
    PROVE  Composed \in [Account -> Entry]
<1> SUFFICES ASSUME NEW a \in Account
             PROVE  (IF table[a].linked
                     THEN [table[a] EXCEPT !.res = {r \in @ : clock <= r.to}]
                     ELSE Unlinked) \in Entry
  BY DEF Composed
<1>1. table[a] \in Entry
  BY MonitorAssumption DEF TypeOK
<1>2. Unlinked \in Entry
  BY DEF Unlinked, Entry
<1>3. [table[a] EXCEPT !.res = {r \in @ : clock <= r.to}] \in Entry
  BY <1>1 DEF Entry
<1> QED
  BY <1>2, <1>3

-----------------------------------------------------------------------------
(* Steps that leave processes, timers and streaks alone *)

\* The timers and the history of the processes do not change.
LEMMA ProcessesKept ==
    ASSUME TimersFollowed, UNCHANGED <<pending, sightings>>
    PROVE  TimersFollowed'
  BY DEF TimersFollowed, SignedAs, Followed, sightings

\* The history of the cards does not change.
LEMMA CardsKept ==
    ASSUME StreaksRest, HangIsContinuous, UNCHANGED <<idle, quiet, rash>>
    PROVE  StreaksRest' /\ HangIsContinuous'
  BY DEF StreaksRest, HangIsContinuous

\* Whatever the monitor comes to know of a process, every timer is followed: when
\* it knows something else than before, a timer is one left behind.
LEMMA SeesFollows ==
    ASSUME MonitorInv, NEW p \in Pid, NEW s \in Sighting \cup {None}, Sees(p, s)
    PROVE  /\ known' \in [Pid -> Sighting \cup {None}] /\ known'[p] = s
           /\ lapsed' \subseteq [pid : Pid, at : Place]
           /\ \A t \in pending, q \in Pid, at \in Place : SignedAs(t, q, at) => Followed(t, q, at)'
<1>1. known \in [Pid -> Sighting \cup {None}] /\ lapsed \subseteq [pid : Pid, at : Place]
  BY DEF MonitorInv, TypeOK
<1>2. known' = [known EXCEPT ![p] = s]
  BY DEF Sees
<1>3. known' \in [Pid -> Sighting \cup {None}] /\ known'[p] = s /\ \A q \in Pid \ {p} : known'[q] = known[q]
  BY <1>1, <1>2
<1>4. known[p] # None => known[p].at \in Place
  BY <1>1 DEF Sighting
<1>5. lapsed' = lapsed \/ (known[p] # None /\ lapsed' = lapsed \cup {[pid |-> p, at |-> known[p].at]})
  BY DEF Sees
<1>6. lapsed' \subseteq [pid : Pid, at : Place] /\ lapsed \subseteq lapsed'
  BY <1>1, <1>4, <1>5
<1>7. ASSUME NEW t \in pending, NEW q \in Pid, NEW at \in Place, SignedAs(t, q, at)
      PROVE  Followed(t, q, at)'
  <2>1. Followed(t, q, at)
    BY <1>7 DEF MonitorInv, TimersFollowed
  <2>2. CASE [pid |-> q, at |-> at] \in lapsed
    BY <1>6, <2>2 DEF Followed
  <2>3. CASE known[q] # None /\ known[q].at = at /\ t.age <= known[q].age /\ known'[q] = known[q]
    BY <2>3 DEF Followed
  <2>4. CASE q = p /\ known[p] # None /\ known[p].at = at /\ s # known[p]
    <3>1. t.key \in AllowedToKill /\ Timed(t.key, at.card, at.acct, p)
      BY <1>7, <2>4 DEF SignedAs, Timed
    <3>2. lapsed' = lapsed \cup {[pid |-> p, at |-> at]}
      BY <2>4, <3>1 DEF Sees
    <3> QED
      BY <2>4, <3>2 DEF Followed
  <2> QED
    BY <1>3, <2>1, <2>2, <2>3, <2>4 DEF Followed
<1> QED
  BY <1>3, <1>6, <1>7

\* A process begins or ends: its pid keeps its timers and loses its history.
LEMMA ProcessEnds ==
    ASSUME MonitorInv, NEW p \in Pid, Sees(p, None), pending' = pending
    PROVE  /\ TimersFollowed'
           /\ known' \in [Pid -> Sighting \cup {None}] /\ lapsed' \subseteq [pid : Pid, at : Place]
<1>1. \A t \in pending, q \in Pid, at \in Place : SignedAs(t, q, at) => Followed(t, q, at)'
  BY SeesFollows
<1> QED
  BY <1>1, SeesFollows DEF TimersFollowed, SignedAs

\* A new sample says nothing of a process until it is looked at.
LEMMA CollectStep ==
    ASSUME MonitorInv, NEW seen \in BOOLEAN, Collect(seen)
    PROVE  MonitorInv'
<1>1. sample' \in [Pid -> Place \cup {None}]
  BY DEF MonitorInv, TypeOK, Collect
<1>2. TypeOK'
  BY <1>1 DEF MonitorInv, TypeOK, Collect, host, caches, history, sightings
<1>3. TimersFollowed'
  BY ProcessesKept DEF MonitorInv, Collect, history
<1>4. StreaksRest' /\ HangIsContinuous'
  BY CardsKept DEF MonitorInv, Collect, history
<1> QED
  BY <1>2, <1>3, <1>4 DEF MonitorInv

\* The backend's tables are not what the timers rest on.
LEMMA ChangeTableStep ==
    ASSUME MonitorInv, NEW t \in Tables, ChangeTable(t)
    PROVE  MonitorInv'
<1>1. TypeOK'
  BY DEF MonitorInv, TypeOK, ChangeTable, host, caches, ticking, history, sightings
<1>2. TimersFollowed'
  BY ProcessesKept DEF MonitorInv, ChangeTable, history
<1>3. StreaksRest' /\ HangIsContinuous'
  BY CardsKept DEF MonitorInv, ChangeTable, history
<1> QED
  BY <1>1, <1>2, <1>3 DEF MonitorInv

\* A link push replaces a cache with one of the right shape.
LEMMA HearLinksStep ==
    ASSUME MonitorInv, HearLinks
    PROVE  MonitorInv'
<1>1. linkCache' \in [Account -> Entry] \cup {None}
  BY ComposedTypes DEF MonitorInv, HearLinks
<1>2. TypeOK'
  BY <1>1 DEF MonitorInv, TypeOK, HearLinks, host, ticking, history, sightings
<1>3. TimersFollowed'
  BY ProcessesKept DEF MonitorInv, HearLinks, history
<1>4. StreaksRest' /\ HangIsContinuous'
  BY CardsKept DEF MonitorInv, HearLinks, history
<1> QED
  BY <1>2, <1>3, <1>4 DEF MonitorInv

\* A policy push changes what will be decided, not when anything was first seen.
LEMMA HearRulesStep ==
    ASSUME MonitorInv, HearRules
    PROVE  MonitorInv'
<1>1. TypeOK'
  BY DEF MonitorInv, TypeOK, HearRules, host, ticking, history, sightings
<1>2. TimersFollowed'
  BY ProcessesKept DEF MonitorInv, HearRules, history
<1>3. StreaksRest' /\ HangIsContinuous'
  BY CardsKept DEF MonitorInv, HearRules, history
<1> QED
  BY <1>1, <1>2, <1>3 DEF MonitorInv

\* A new connection touches neither timers nor processes.
LEMMA ReconnectStep ==
    ASSUME MonitorInv, Reconnect
    PROVE  MonitorInv'
<1>1. TypeOK'
  BY DEF MonitorInv, TypeOK, Reconnect, host, caches, ticking, history, sightings
<1>2. TimersFollowed'
  BY ProcessesKept DEF MonitorInv, Reconnect, history
<1>3. StreaksRest' /\ HangIsContinuous'
  BY CardsKept DEF MonitorInv, Reconnect, history
<1> QED
  BY <1>1, <1>2, <1>3 DEF MonitorInv

\* A kill ordered from the panel names the pid of an alert; it is no kill of the
\* monitor, so it owes no grace.
LEMMA ManualKillStep ==
    ASSUME MonitorInv, NEW al \in alerts, ManualKill(al)
    PROVE  MonitorInv'
<1>1. al.pid \in Pid
  BY DEF MonitorInv, TypeOK, Alert, ManualKill
<1>2. TypeOK'
  BY <1>1 DEF MonitorInv, TypeOK, ManualKill, host, caches, ticking, history, sightings
<1>3. TimersFollowed'
  BY ProcessesKept DEF MonitorInv, ManualKill, history
<1>4. StreaksRest' /\ HangIsContinuous'
  BY CardsKept DEF MonitorInv, ManualKill, history
<1> QED
  BY <1>2, <1>3, <1>4 DEF MonitorInv

-----------------------------------------------------------------------------
(* Steps that end or start a process *)

\* A process that exits takes nothing from the timers.
LEMMA ExitStep ==
    ASSUME MonitorInv, NEW p \in Pid, Exit(p)
    PROVE  MonitorInv'
<1>1. /\ TimersFollowed'
      /\ known' \in [Pid -> Sighting \cup {None}] /\ lapsed' \subseteq [pid : Pid, at : Place]
  BY ProcessEnds DEF Exit
<1>2. TypeOK'
  BY <1>1 DEF MonitorInv, TypeOK, Exit, caches, ticking
<1>3. StreaksRest' /\ HangIsContinuous'
  BY CardsKept DEF MonitorInv, Exit
<1> QED
  BY <1>1, <1>2, <1>3 DEF MonitorInv

\* The second signal of an ordered kill goes to the pid it was ordered for.
LEMMA ManualKillerWakesStep ==
    ASSUME MonitorInv, ManualKillerWakes
    PROVE  MonitorInv'
<1>1. manual \in Pid
  BY DEF MonitorInv, TypeOK, ManualKillerWakes
<1>2. /\ TimersFollowed'
      /\ known' \in [Pid -> Sighting \cup {None}] /\ lapsed' \subseteq [pid : Pid, at : Place]
  BY <1>1, ProcessEnds DEF ManualKillerWakes
<1>3. TypeOK'
  BY <1>1, <1>2 DEF MonitorInv, TypeOK, ManualKillerWakes, caches, ticking
<1>4. StreaksRest' /\ HangIsContinuous'
  BY CardsKept DEF MonitorInv, ManualKillerWakes
<1> QED
  BY <1>2, <1>3, <1>4 DEF MonitorInv

\* The second signal of the monitor goes to the pid whose grace was over.
LEMMA KillerWakesStep ==
    ASSUME MonitorInv, KillerWakes
    PROVE  MonitorInv'
<1>1. victim \in Pid
  BY DEF MonitorInv, TypeOK, KillerWakes
<1>2. PICK g \in cards : Report(AllowedToKill, g, victim)
  BY DEF KillerWakes
<1>3. conn' \in BOOLEAN /\ alerts' \subseteq Alert
  <2>1. g \in Card /\ AllowedToKill \in SUBSET Key
    BY DEF MonitorInv, TypeOK, AllowedToKill, Key
  <2> QED
    BY <1>1, <1>2, <2>1, ReportTypes DEF MonitorInv
<1>4. /\ TimersFollowed'
      /\ known' \in [Pid -> Sighting \cup {None}] /\ lapsed' \subseteq [pid : Pid, at : Place]
  BY <1>1, ProcessEnds DEF KillerWakes
<1>5. TypeOK'
  BY <1>1, <1>3, <1>4 DEF MonitorInv, TypeOK, KillerWakes, caches
<1>6. StreaksRest' /\ HangIsContinuous'
  BY CardsKept DEF MonitorInv, KillerWakes
<1> QED
  BY <1>4, <1>5, <1>6 DEF MonitorInv

\* A pid that is given out again keeps the timers of its former owner, left behind.
LEMMA StartStep ==
    ASSUME MonitorInv, NEW p \in Pid, NEW place \in Place, Start(p, place)
    PROVE  MonitorInv'
<1>1. /\ proc \in [Pid -> Place \cup {None}] /\ lives \in [Pid -> 0..MaxLives] /\ MaxLives \in Nat
  BY MonitorAssumption DEF MonitorInv, TypeOK
<1>2. /\ TimersFollowed'
      /\ known' \in [Pid -> Sighting \cup {None}] /\ lapsed' \subseteq [pid : Pid, at : Place]
  BY ProcessEnds DEF Start
<1>3. TypeOK'
  BY <1>1, <1>2 DEF MonitorInv, TypeOK, Start, caches, ticking
<1>4. StreaksRest' /\ HangIsContinuous'
  BY CardsKept DEF MonitorInv, Start
<1> QED
  BY <1>2, <1>3, <1>4 DEF MonitorInv

-----------------------------------------------------------------------------
(* The evaluations, time and restarts *)

\* A violation that terminates a process is one of a killing policy, and its
\* grace period is over.
LEMMA TollIsDue ==
    ASSUME NEW key, Effective(key) = "auto_kill"
    PROVE  key \in AllowedToKill
  BY DEF Effective, Severity

\* What one more look at a process found preempting adds to what is known of it.
LEMMA PreemptingSees ==
    ASSUME TypeOK, NEW p \in Pid, NEW at \in Place
    PROVE  /\ Preempting(p, at) \in Sighting /\ Preempting(p, at).at = at
           /\ known[p] # None /\ known[p].at = at => Preempting(p, at) = known[p]
<1>1. 0 \in Age /\ [at |-> at, age |-> 0] \in Sighting
  BY MonitorAssumption DEF Age, Sighting
<1>2. known[p] \in Sighting \cup {None}
  BY DEF TypeOK
<1> QED
  BY <1>1, <1>2 DEF Preempting

\* No violation is found: the process leaves the sample, its timers stay behind.
LEMMA EvaluateClean ==
    ASSUME MonitorInv, NEW p \in Pid,
           sample' = [sample EXCEPT ![p] = None], Sees(p, None),
           UNCHANGED <<clock, table, host, caches, cards, manual, idle, quiet, rash,
                       victim, pending, conn, alerts>>
    PROVE  MonitorInv'
<1>1. /\ TimersFollowed'
      /\ known' \in [Pid -> Sighting \cup {None}] /\ lapsed' \subseteq [pid : Pid, at : Place]
  BY ProcessEnds
<1>2. TypeOK'
  BY <1>1 DEF MonitorInv, TypeOK, host, caches
<1>3. StreaksRest' /\ HangIsContinuous'
  BY CardsKept DEF MonitorInv
<1> QED
  BY <1>1, <1>2, <1>3 DEF MonitorInv

\* A violation: the timer, the report or the signal.
LEMMA EvaluateViolation ==
    ASSUME MonitorInv, NEW p \in Pid, NEW key \in Key, NEW at \in Place,
           NEW due \in BOOLEAN, NEW toll \in BOOLEAN,
           sample' = [sample EXCEPT ![p] = None],
           pending' = Recorded(key, at.card, at.acct, p),
           Sees(p, IF key \in AllowedToKill THEN Preempting(p, at) ELSE None),
           victim' = (IF toll THEN p ELSE None),
           Report(IF due /\ ~toll THEN {key} ELSE {}, at.card, p),
           UNCHANGED <<clock, table, host, caches, cards, manual, idle, quiet, rash>>
    PROVE  MonitorInv'
<1>1. /\ sample \in [Pid -> Place \cup {None}] /\ None \notin Sighting /\ 0 \in Age /\ Age \subseteq Nat
      /\ at.card \in Card /\ at.acct \in Account
  BY MonitorAssumption DEF MonitorInv, TypeOK, Age, Place
<1>2. PICK s : s = IF key \in AllowedToKill THEN Preempting(p, at) ELSE None
  OBVIOUS
<1>3. /\ s \in Sighting \cup {None}
      /\ key \in AllowedToKill => s \in Sighting /\ s.at = at
  BY <1>2, PreemptingSees DEF MonitorInv
<1>4. /\ known' \in [Pid -> Sighting \cup {None}] /\ known'[p] = s
      /\ lapsed' \subseteq [pid : Pid, at : Place]
      /\ \A t \in pending, q \in Pid, x \in Place : SignedAs(t, q, x) => Followed(t, q, x)'
  <2>1. Sees(p, s)
    BY <1>2
  <2> QED
    BY <1>3, <2>1, SeesFollows
<1>5. /\ pending' \subseteq Timer
      /\ \A t \in pending' :
            t \in pending \/ (t.key = key /\ t.pid = p /\ t.card = at.card /\ t.acct = at.acct /\ t.age = 0)
  BY <1>1, RecordedAdds DEF MonitorInv
<1>6. conn' \in BOOLEAN /\ alerts' \subseteq Alert
  <2>1. PICK keys : keys = IF due /\ ~toll THEN {key} ELSE {}
    OBVIOUS
  <2>2. keys \in SUBSET Key /\ Report(keys, at.card, p)
    BY <2>1
  <2>3. at.card \in Card /\ TypeOK
    BY <1>1 DEF MonitorInv
  <2> QED
    BY <2>2, <2>3, ReportTypes
<1>7. TypeOK'
  <2>1. sample' \in [Pid -> Place \cup {None}] /\ victim' \in Pid \cup {None}
    BY <1>1
  <2> QED
    BY <1>4, <1>5, <1>6, <2>1 DEF MonitorInv, TypeOK, caches, host
<1>8. TimersFollowed'
  <2> SUFFICES ASSUME NEW t \in pending', NEW q \in Pid, NEW x \in Place, SignedAs(t, q, x)
               PROVE  Followed(t, q, x)'
    BY DEF TimersFollowed, SignedAs
  <2>1. CASE t \in pending
    BY <1>4, <2>1
  <2>2. CASE t.key = key /\ t.pid = p /\ t.card = at.card /\ t.acct = at.acct /\ t.age = 0
    <3>1. q = p /\ x = at /\ key \in AllowedToKill
      <4>1. x = [acct |-> x.acct, card |-> x.card] /\ at = [acct |-> at.acct, card |-> at.card]
        BY DEF Place
      <4> QED
        BY <2>2, <4>1 DEF SignedAs
    <3>2. known'[p] \in Sighting /\ known'[p].at = at
      BY <1>3, <1>4, <3>1
    <3>3. known'[p].age \in Nat
      BY <1>1, <3>2 DEF Sighting
    <3>4. t.age <= known'[p].age
      BY <2>2, <3>3
    <3> QED
      BY <1>1, <3>1, <3>2, <3>4 DEF Followed
  <2> QED
    BY <1>5, <2>1, <2>2
<1>9. StreaksRest' /\ HangIsContinuous'
  BY CardsKept DEF MonitorInv
<1> QED
  BY <1>7, <1>8, <1>9 DEF MonitorInv

\* Whatever the cache holds, a policy has a grace period and a switch.
LEMMA PolicyTypes ==
    ASSUME TypeOK, NEW key \in Key
    PROVE  Policy(key).grace \in Nat /\ Policy(key).enabled \in BOOLEAN
<1>1. CASE policyCache = None
  BY <1>1 DEF Policy
<1>2. CASE policyCache # None
  <2>1. policyCache[key] \in PolicyEntry
    BY <1>2, MonitorAssumption DEF TypeOK
  <2> QED
    BY <1>2, <2>1 DEF Policy, PolicyEntry
<1> QED
  BY <1>1, <1>2

\* The verdict on one process: it starts or keeps a timer, and what is known of
\* the process goes on only when it is found preempting where it was before.
LEMMA EvaluateStep ==
    ASSUME MonitorInv, NEW p \in Pid, NEW over \in BOOLEAN, Evaluate(p, over)
    PROVE  MonitorInv'
<1> DEFINE key == Verdict(sample[p].acct, sample[p].card, over)
           due == Policy(key).enabled /\ GraceOver(key, sample[p].card, sample[p].acct, p)
           toll == due /\ Effective(key) = "auto_kill" /\ Signalled(p)
<1>1. PICK k : k = key
  OBVIOUS
<1>2. PICK d \in BOOLEAN : d <=> due
  OBVIOUS
<1>3. PICK n \in BOOLEAN : n <=> toll
  OBVIOUS
<1>4. PICK at \in Place : at = sample[p]
  BY DEF MonitorInv, TypeOK, Evaluate
<1>5. /\ sample' = [sample EXCEPT ![p] = None]
      /\ Sees(p, IF k \in AllowedToKill THEN Preempting(p, at) ELSE None)
      /\ UNCHANGED <<clock, table, host, caches, cards, manual, idle, quiet, rash>>
  BY <1>1, <1>4 DEF Evaluate
<1>6. CASE k = None
  <2>1. UNCHANGED <<victim, pending, conn, alerts>>
    BY <1>1, <1>6 DEF Evaluate
  <2>2. None \notin AllowedToKill
    BY MonitorAssumption DEF AllowedToKill, Key
  <2>3. Sees(p, None)
    BY <1>5, <1>6, <2>2
  <2> QED
    BY <1>5, <2>1, <2>3, EvaluateClean
<1>7. CASE k # None
  <2>1. k \in Key
    BY <1>1, <1>7, VerdictNamed
  <2>2. /\ pending' = Recorded(k, at.card, at.acct, p)
        /\ victim' = (IF n THEN p ELSE None)
        /\ Report(IF d /\ ~n THEN {k} ELSE {}, at.card, p)
    BY <1>1, <1>2, <1>3, <1>4, <1>7 DEF Evaluate
  <2> HIDE DEF key, due, toll
  <2> QED
    BY <1>5, <2>1, <2>2, EvaluateViolation
<1> QED
  BY <1>6, <1>7

\* The verdict on one card: a hang is reported only when the streak is long enough,
\* and the streak is no longer than the rest of the card.
LEMMA EvaluateCardStep ==
    ASSUME MonitorInv, NEW g \in Card, NEW busy \in BOOLEAN, NEW full \in BOOLEAN,
           NEW hot \in BOOLEAN, EvaluateCard(g, busy, full, hot)
    PROVE  MonitorInv'
<1> DEFINE streak == Streak(g, busy)
           hung == full /\ streak # None /\ streak >= HangLimit
           keys == {key \in (IF hung THEN {"gpu_hang"} ELSE {}) \cup (IF hot THEN {"gpu_temp_high"} ELSE {}) :
                        Policy(key).enabled}
<1>1. /\ idle \in [Card -> Age \cup {None}] /\ quiet \in [Card -> Age] /\ pending \subseteq Timer
      /\ 0 \in Age /\ None \notin Age /\ Age \subseteq Nat /\ None \notin Pid /\ HangLimit \in Nat \ {0}
  BY MonitorAssumption DEF MonitorInv, TypeOK, Age
<1>2. PICK h \in BOOLEAN : h = hung
  OBVIOUS
<1>3. PICK ks : ks = keys
  OBVIOUS
<1>4. ks \subseteq {"gpu_hang", "gpu_temp_high"} /\ ks \in SUBSET Key
  BY <1>3 DEF Key
<1>5. streak \in Age \cup {None}
  BY <1>1 DEF Streak
<1>6. /\ idle' = [idle EXCEPT ![g] = streak]
      /\ quiet' = [quiet EXCEPT ![g] = IF busy THEN 0 ELSE @]
      /\ rash' = (IF h /\ quiet'[g] < HangLimit THEN rash \cup {g} ELSE rash)
      /\ UNCHANGED <<clock, table, host, caches, sample, victim, manual, sightings>>
      /\ cards' = cards \ {g}
  BY <1>2 DEF EvaluateCard
<1>7. /\ pending' = pending \cup UNION {Recorded(key, g, None, None) : key \in ks}
      /\ Report({key \in ks : GraceOver(key, g, None, None)}, g, None)
  BY <1>3 DEF EvaluateCard
<1>8. UNCHANGED <<proc, lives, sample, known, lapsed>>
  BY <1>6 DEF host, sightings
<1>9. \A t \in pending' : t \in Timer /\ (t \in pending \/ t.pid = None)
  <2> SUFFICES ASSUME NEW t \in pending', t \notin pending
               PROVE  t \in Timer /\ t.pid = None
    BY <1>1
  <2>1. PICK key \in ks : t \in Recorded(key, g, None, None)
    BY <1>7
  <2> QED
    BY <1>4, <2>1, RecordedAdds DEF MonitorInv
<1>10. conn' \in BOOLEAN /\ alerts' \subseteq Alert
  <2>1. {key \in ks : GraceOver(key, g, None, None)} \in SUBSET Key
    BY <1>4
  <2> QED
    BY <1>7, <2>1, ReportTypes DEF MonitorInv
<1>11. TimersFollowed'
  <2> SUFFICES ASSUME NEW t \in pending', NEW p \in Pid, NEW at \in Place, SignedAs(t, p, at)
               PROVE  Followed(t, p, at)
    BY <1>8 DEF TimersFollowed, SignedAs, Followed
  <2>1. t \in pending
    BY <1>1, <1>9 DEF SignedAs
  <2> QED
    BY <2>1 DEF MonitorInv, TimersFollowed
<1>12. streak # None => ~busy /\ (streak = 0 \/ (idle[g] # None /\ streak = idle[g]))
  BY DEF Streak
<1>13. streak # None => streak <= quiet'[g]
  <2>1. idle[g] # None => idle[g] <= quiet[g]
    BY DEF MonitorInv, StreaksRest
  <2>2. ~busy => quiet'[g] = quiet[g]
    BY <1>1, <1>6
  <2>3. quiet[g] \in Nat
    BY <1>1
  <2> QED
    BY <1>12, <2>1, <2>2, <2>3
<1>14. quiet' \in [Card -> Age] /\ idle' \in [Card -> Age \cup {None}]
  BY <1>1, <1>5, <1>6
<1>15. StreaksRest'
  <2>1. /\ idle'[g] = streak
        /\ \A c \in Card \ {g} : idle'[c] = idle[c] /\ quiet'[c] = quiet[c]
    BY <1>1, <1>6
  <2> QED
    BY <1>13, <2>1 DEF MonitorInv, StreaksRest
<1>16. HangIsContinuous'
  <2>1. ~(h /\ quiet'[g] < HangLimit)
    <3>1. quiet'[g] \in Nat /\ (streak # None => streak \in Nat)
      BY <1>1, <1>5, <1>14
    <3>2. h => streak # None /\ streak >= HangLimit
      BY <1>2
    <3> HIDE DEF streak, hung
    <3>3. CASE h
      BY <1>1, <1>13, <3>1, <3>2, <3>3
    <3>4. CASE ~h
      BY <3>4
    <3> QED
      BY <3>3, <3>4
  <2> QED
    BY <1>6, <2>1 DEF MonitorInv, HangIsContinuous
<1>17. TypeOK'
  <2>1. rash' \subseteq Card
    BY <1>6 DEF MonitorInv, TypeOK
  <2>2. pending' \subseteq Timer
    BY <1>9
  <2> HIDE DEF streak, hung, keys
  <2> QED
    BY <1>6, <1>8, <1>10, <1>14, <2>1, <2>2 DEF MonitorInv, TypeOK, caches
<1> QED
  BY <1>11, <1>15, <1>16, <1>17 DEF MonitorInv

\* Timers and what is known of the processes get older together, and so do
\* streaks and rests.
LEMMA PassStep ==
    ASSUME MonitorInv, Pass
    PROVE  MonitorInv'
<1> DEFINE Same(t, s) == t.key = s.key /\ t.pid = s.pid /\ t.acct = s.acct /\ t.card = s.card
<1>1. /\ idle \in [Card -> Age \cup {None}] /\ quiet \in [Card -> Age] /\ pending \subseteq Timer
      /\ known \in [Pid -> Sighting \cup {None}] /\ clock \in 0..MaxClock
      /\ None \notin Age \cup Sighting /\ MaxClock \in Nat
  BY MonitorAssumption DEF MonitorInv, TypeOK
<1>2. UNCHANGED <<proc, lives, sample, lapsed, rash>>
  BY DEF Pass, host, ticking
<1>3. \A t \in pending' : \E s \in pending :
         t \in Timer /\ Same(t, s) /\ t.age = Older(s.age)
  <2> SUFFICES ASSUME NEW t \in pending'
               PROVE  \E s \in pending : t \in Timer /\ Same(t, s) /\ t.age = Older(s.age)
    OBVIOUS
  <2>1. PICK s \in pending : t = [s EXCEPT !.age = Older(@)]
    BY DEF Pass
  <2>2. s \in Timer
    BY <1>1
  <2>3. s.age \in Age /\ Older(s.age) \in Age
    BY <2>2, OlderGrows DEF Timer
  <2>4. t \in Timer /\ Same(t, s) /\ t.age = Older(s.age)
    BY <2>1, <2>2, <2>3 DEF Timer
  <2> QED
    BY <2>4
<1>4. /\ idle' \in [Card -> Age \cup {None}] /\ quiet' \in [Card -> Age]
      /\ known' \in [Pid -> Sighting \cup {None}]
  <2>1. \A g \in Card : Older(idle[g]) \in Age \cup {None} /\ Older(quiet[g]) \in Age
    BY <1>1, OlderGrows
  <2>2. ASSUME NEW p \in Pid, known[p] # None
        PROVE  [known[p] EXCEPT !.age = Older(@)] \in Sighting
    <3>1. known[p] \in Sighting /\ Older(known[p].age) \in Age
      BY <1>1, <2>2, OlderGrows DEF Sighting
    <3> QED
      BY <3>1 DEF Sighting
  <2> QED
    BY <2>1, <2>2 DEF Pass
<1>5. TypeOK'
  <2>1. clock' \in 0..MaxClock
    BY <1>1 DEF Pass
  <2>2. pending' \subseteq Timer
    BY <1>3
  <2> QED
    BY <1>2, <1>4, <2>1, <2>2 DEF MonitorInv, TypeOK, Pass, caches, ticking
<1>6. TimersFollowed'
  <2> SUFFICES ASSUME NEW t \in pending', NEW p \in Pid, NEW at \in Place, SignedAs(t, p, at)
               PROVE  Followed(t, p, at)'
    BY DEF TimersFollowed, SignedAs
  <2>1. PICK s \in pending : Same(t, s) /\ t.age = Older(s.age)
    BY <1>3
  <2>2. Followed(s, p, at)
    BY <2>1 DEF MonitorInv, TimersFollowed, SignedAs
  <2>3. CASE [pid |-> p, at |-> at] \in lapsed
    BY <1>2, <2>3 DEF Followed
  <2>4. CASE known[p] # None /\ known[p].at = at /\ s.age <= known[p].age
    <3>1. known[p] \in Sighting /\ s.age \in Age /\ known[p].age \in Age
      BY <1>1, <2>4 DEF Timer, Sighting
    <3>2. known'[p] = [known[p] EXCEPT !.age = Older(@)]
      BY <2>4 DEF Pass
    <3>3. known'[p].at = at /\ known'[p].age = Older(known[p].age) /\ known'[p] # None
      BY <1>1, <1>4, <2>4, <3>1, <3>2, OlderGrows DEF Sighting
    <3>4. Older(s.age) <= Older(known[p].age)
      BY <2>4, <3>1, OlderGrows
    <3> QED
      BY <2>1, <3>3, <3>4 DEF Followed
  <2> QED
    BY <2>2, <2>3, <2>4 DEF Followed
<1>7. HangIsContinuous'
  BY <1>2 DEF MonitorInv, HangIsContinuous
<1>8. StreaksRest'
  <2> SUFFICES ASSUME NEW g \in Card, idle'[g] # None PROVE idle'[g] <= quiet'[g]
    BY DEF StreaksRest
  <2>1. idle'[g] = Older(idle[g]) /\ quiet'[g] = Older(quiet[g])
    BY DEF Pass
  <2>2. idle[g] # None
    BY <1>1, <2>1, OlderGrows
  <2>3. idle[g] \in Age /\ quiet[g] \in Age /\ idle[g] <= quiet[g]
    BY <1>1, <2>2 DEF MonitorInv, StreaksRest
  <2> QED
    BY <2>1, <2>3, OlderGrows
<1> QED
  BY <1>5, <1>6, <1>7, <1>8 DEF MonitorInv

\* A restart forgets the timers together with what is known of the processes.
LEMMA RestartStep ==
    ASSUME MonitorInv, Restart
    PROVE  MonitorInv'
<1>1. TypeOK'
  BY DEF MonitorInv, TypeOK, Restart, host
<1>2. TimersFollowed'
  BY DEF TimersFollowed, Restart
<1>3. StreaksRest' /\ HangIsContinuous'
  BY DEF MonitorInv, StreaksRest, HangIsContinuous, Restart
<1> QED
  BY <1>1, <1>2, <1>3 DEF MonitorInv

-----------------------------------------------------------------------------
(* Kills *)

\* Only the verdict on a process makes it the killer's victim.
LEMMA OnlyEvaluationsKill ==
    ASSUME Next, NEW p \in Pid, victim' = p, victim # p
    PROVE  \E q \in Pid, over \in BOOLEAN : Evaluate(q, over)
<1>1. victim' # victim /\ victim' # None
  BY MonitorAssumption
<1>2. ~Environment
  BY <1>1 DEF Environment, ChangeTable, HearLinks, HearRules, Reconnect, ManualKill,
     ManualKillerWakes, Exit, Start, Restart, ticking
<1>3. ~Pass
  BY <1>1 DEF Pass, ticking
<1>4. Tick
  BY <1>2, <1>3 DEF Next
<1> QED
  BY <1>1, <1>4 DEF Tick, Collect, KillerWakes, EvaluateCard

\* A kill rests on a timer that is old enough, and that timer is followed.
LEMMA KillIsDue ==
    ASSUME MonitorInv, NEW p \in Pid, NEW key \in AllowedToKill,
           NEW q \in Pid, NEW over \in BOOLEAN, Evaluate(q, over), victim' = p, victim # p
    PROVE  \/ [pid |-> p, at |-> sample[p]] \in lapsed
           \/ known'[p].age >= Policy(key).grace
<1>1. PICK at \in Place : at = sample[q]
  BY DEF MonitorInv, TypeOK, Evaluate
<1>2. PICK k : k = Verdict(at.acct, at.card, over)
  OBVIOUS
<1>3. p # None
  BY MonitorAssumption
<1>4. q = p /\ Effective(k) = "auto_kill" /\ GraceOver(k, at.card, at.acct, p)
  BY <1>1, <1>2, <1>3 DEF Evaluate
<1>5. k = key
  BY <1>4, TollIsDue DEF AllowedToKill
<1>6. Sees(p, Preempting(p, at))
  BY <1>1, <1>2, <1>4, <1>5 DEF Evaluate
<1>7. /\ Preempting(p, at) \in Sighting
      /\ known[p] # None /\ known[p].at = at => Preempting(p, at) = known[p]
  BY PreemptingSees DEF MonitorInv
<1>8. known'[p] = Preempting(p, at)
  BY <1>6, <1>7, SeesFollows
<1>9. known'[p].age \in Nat
  BY <1>7, <1>8, MonitorAssumption DEF Sighting, Age
<1>10. CASE Policy(key).grace = 0
  BY <1>9, <1>10
<1>11. CASE Policy(key).grace # 0
  <2>1. PICK t \in pending : /\ t.key = key /\ t.card = at.card /\ t.acct = at.acct /\ t.pid = p
                             /\ t.age >= Policy(key).grace
    BY <1>4, <1>5, <1>11 DEF GraceOver
  <2>2. Followed(t, p, at)
    BY <2>1 DEF MonitorInv, TimersFollowed, SignedAs
  <2>3. CASE [pid |-> p, at |-> at] \in lapsed
    BY <1>1, <1>4, <2>3
  <2>4. CASE known[p] # None /\ known[p].at = at /\ t.age <= known[p].age
    <3>1. known'[p] = known[p]
      BY <1>7, <1>8, <2>4
    <3>2. t.age \in Nat
      BY MonitorAssumption DEF MonitorInv, TypeOK, Timer, Age
    <3>3. Policy(key).grace \in Nat
      BY PolicyTypes DEF MonitorInv, AllowedToKill, Key
    <3> QED
      BY <1>9, <2>1, <2>4, <3>1, <3>2, <3>3
  <2> QED
    BY <2>2, <2>3, <2>4 DEF Followed
<1> QED
  BY <1>10, <1>11

-----------------------------------------------------------------------------
(* The theorems *)

\* Nothing has been sampled or timed at the start.
LEMMA MonitorInit ==
    ASSUME Init
    PROVE  MonitorInv
<1>1. TypeOK
  <2>1. /\ proc \in [Pid -> Place \cup {None}] /\ lives \in [Pid -> 0..MaxLives]
        /\ sample \in [Pid -> Place \cup {None}] /\ known \in [Pid -> Sighting \cup {None}]
    BY MonitorAssumption DEF Init
  <2>2. idle \in [Card -> Age \cup {None}] /\ quiet \in [Card -> Age] /\ clock \in 0..MaxClock
    BY MonitorAssumption DEF Init, Age
  <2> QED
    BY <2>1, <2>2 DEF Init, TypeOK
<1>2. TimersFollowed /\ StreaksRest /\ HangIsContinuous
  BY DEF Init, TimersFollowed, StreaksRest, HangIsContinuous
<1> QED
  BY <1>1, <1>2 DEF MonitorInv

\* Nothing the state is made of changes.
LEMMA MonitorStutter ==
    ASSUME MonitorInv, UNCHANGED vars
    PROVE  MonitorInv'
<1>1. TypeOK'
  BY DEF MonitorInv, TypeOK, vars
<1>2. TimersFollowed'
  BY ProcessesKept DEF MonitorInv, vars, sightings
<1>3. StreaksRest' /\ HangIsContinuous'
  BY CardsKept DEF MonitorInv, vars
<1> QED
  BY <1>1, <1>2, <1>3 DEF MonitorInv

\* The inductive step: every step of the monitor and of its environment.
LEMMA MonitorNext ==
    ASSUME MonitorInv, [Next]_vars
    PROVE  MonitorInv'
<1>1. CASE Tick
  BY <1>1, CollectStep, KillerWakesStep, EvaluateStep, EvaluateCardStep DEF Tick
<1>2. CASE Environment
  BY <1>2, ChangeTableStep, HearLinksStep, HearRulesStep, ReconnectStep, ManualKillStep,
     ManualKillerWakesStep, ExitStep, StartStep, RestartStep DEF Environment
<1>3. CASE Pass
  BY <1>3, PassStep
<1>4. CASE UNCHANGED vars
  BY <1>4, MonitorStutter
<1> QED
  BY <1>1, <1>2, <1>3, <1>4 DEF Next

\* The inductive invariant holds throughout.
THEOREM MonitorInvariant == Spec => []MonitorInv
  BY MonitorInit, MonitorNext, PTL DEF Spec

\* Every variable keeps its type: timers, samples and alerts name cards, keys
\* and pids, whatever the tables and the policies say.
THEOREM MonitorTypes == Spec => []TypeOK
<1>1. MonitorInv => TypeOK
  BY DEF MonitorInv
<1> QED
  BY <1>1, MonitorInvariant, PTL

\* The grace period (grace_tracker.py:9-10, "observed for grace_period_seconds
\* continuously"): the monitor terminates a process only when every look at it for
\* the grace period of the policy in force found it preempting there; the one
\* exception is a timer with the same signature, left behind by a violation that
\* ended.
THEOREM KillsFollowGrace == Spec => KillFollowsGrace
<1>1. MonitorInv /\ [Next]_vars =>
        [\A p \in Pid, key \in AllowedToKill : victim' = p /\ victim # p =>
            \/ [pid |-> p, at |-> sample[p]] \in lapsed
            \/ known'[p].age >= Policy(key).grace]_vars
  <2> SUFFICES ASSUME MonitorInv, Next, NEW p \in Pid, NEW key \in AllowedToKill,
                      victim' = p, victim # p
               PROVE  \/ [pid |-> p, at |-> sample[p]] \in lapsed
                      \/ known'[p].age >= Policy(key).grace
    OBVIOUS
  <2>1. PICK q \in Pid, over \in BOOLEAN : Evaluate(q, over)
    BY OnlyEvaluationsKill
  <2> QED
    BY <2>1, KillIsDue
<1> QED
  BY <1>1, MonitorInvariant, PTL DEF Spec, KillFollowsGrace

\* The util-zero streak (_evaluate_gpu): a card is reported as hung only when no
\* sample found it busy for as long as the limit says.
THEOREM HangsAreContinuous == Spec => []HangIsContinuous
<1>1. MonitorInv => HangIsContinuous
  BY DEF MonitorInv
<1> QED
  BY <1>1, MonitorInvariant, PTL
=============================================================================
