------------------------- MODULE ComplianceMonitor -------------------------
(***************************************************************************)
(* The agent's compliance monitor: it samples the processes on the cards,  *)
(* looks their owners up in the link cache, applies the cached policies    *)
(* (grace periods, scope and capability downgrades), terminates processes  *)
(* and reports to the backend, which raises alerts from which an admin may *)
(* kill by hand (compliance_monitor, policy_handlers, grace_tracker,       *)
(* process_killer, reverse_cache, link_cache_sync_service, alerts).        *)
(*                                                                         *)
(* Evaluating a process, dispatching the violation and sending SIGTERM is  *)
(* one step: the event loop runs nothing else until the killer sleeps.     *)
(* Then everything else may happen, while the rest of the sample gets old. *)
(*                                                                         *)
(* Abstractions.  Time is a clock that stops at MaxClock for reservations, *)
(* and ages that stop at MaxAge for everything that is only compared with  *)
(* a limit.  The policy table and the kill switch are any that were        *)
(* committed: that is what ContextFeed promises.  A report is on time or   *)
(* dropped: push_envelope does not wait for a connection.  Notifications   *)
(* and audit rows are left out.                                            *)
(***************************************************************************)
EXTENDS Naturals, FiniteSets

CONSTANTS
    Pid, Account,
    Card,        \* nvidia card indexes
    GpuId,       \* the backend's gpu.id of each card
    GpuRow,      \* the ids in the gpu table: those, and of cards elsewhere
    Tables,      \* contents of the account_link and reservation tables
    Policies,    \* contents of the agent_policy table
    Denied,      \* pids that neither kill nor sudo may signal
    HangLimit,   \* gpu_hang: util_zero_seconds
    MaxClock, MaxAge, MaxLives,
    None

Key == {"unlinked_user_occupy", "memory_overuse", "preempt_others_reservation",
        "no_reservation_occupy", "gpu_hang", "gpu_temp_high"}
AllowedToKill == {"preempt_others_reservation"}
Severity == {"log_only", "notify", "warn", "auto_kill"}
PolicyEntry == [enabled : BOOLEAN, severity : Severity, grace : Nat]

\* acting: the link of the reservation is not admin_declared.
Res == [gpu : Nat, from : Nat, to : Nat, acting : BOOLEAN]
Entry == [linked : BOOLEAN, res : SUBSET Res]
Unlinked == [linked |-> FALSE, res |-> {}]

Age == 0..MaxAge
Place == [acct : Account, card : Card]
\* A started timer of the grace tracker.
Timer == [key : Key, card : Card, acct : Account \cup {None}, pid : Pid \cup {None}, age : Age]
Alert == [gpu : Nat, key : Key, pid : Pid \cup {None}]
\* History: a process has been found preempting at a place for so long.
Sighting == [at : Place, age : Age]

ASSUME MonitorAssumption ==
    /\ Card \subseteq Nat /\ GpuRow \subseteq Nat /\ GpuId \in [Card -> GpuRow]
    /\ Tables \subseteq [Account -> Entry] /\ Tables # {}
    /\ Policies \subseteq [Key -> PolicyEntry]
    /\ Denied \subseteq Pid
    /\ HangLimit \in Nat \ {0} /\ MaxClock \in Nat /\ MaxAge \in Nat /\ MaxLives \in Nat
    /\ None \notin Key \cup Account \cup Pid \cup Place \cup Sighting \cup Age \cup Policies \cup [Account -> Entry]

VARIABLES
    clock,
    table,       \* links and reservations in the database
    proc, lives, \* the processes, and how often each pid has been given out
    conn,        \* the agent is connected
    policyCache, kill, linkCache,
    sample,      \* processes of the current tick that are still to be looked at
    cards,       \* cards of the current tick that are still to be looked at
    victim,      \* the pid the monitor's killer sleeps on
    manual,      \* the pid the killer of a manual request sleeps on
    pending,     \* grace_tracker._pending
    idle,        \* util_zero_since of each card
    alerts,      \* the alert_event table
    known,       \* history: how long each process has been found preempting,
                 \* every time this run of the agent looked at it
    lapsed,      \* history: pids and places of timers whose violation ended
    quiet,       \* history: how long ago each card was last seen busy
    rash         \* history: cards reported as hung although they had been busy

vars == <<clock, table, proc, lives, conn, policyCache, kill, linkCache, sample, cards, victim,
          manual, pending, idle, alerts, known, lapsed, quiet, rash>>
caches == <<policyCache, kill, linkCache>>
ticking == <<sample, cards, victim>>
host == <<proc, lives>>
sightings == <<known, lapsed>>
history == <<sightings, quiet, rash>>

-----------------------------------------------------------------------------
(* Looking things up *)

Covers(r, g) == r.gpu = g /\ r.acting /\ r.from <= clock /\ clock < r.to

Lookup(a) == IF linkCache = None THEN Unlinked ELSE linkCache[a]

\* _evaluate_process compares the gpu_id of the cached reservation, which is
\* the backend's, with the card index.
Holds(a, g) == \E r \in Lookup(a).res : Covers(r, g)

\* The policy a process breaks, or None.  over: more memory than reserved.
Verdict(a, g, over) ==
    CASE ~Lookup(a).linked -> "unlinked_user_occupy"
      [] Lookup(a).linked /\ Holds(a, g) -> IF over THEN "memory_overuse" ELSE None
      [] OTHER -> IF \E b \in Account \ {a} : Holds(b, g)
                  THEN "preempt_others_reservation" ELSE "no_reservation_occupy"

Policy(key) == IF policyCache = None THEN [enabled |-> FALSE, severity |-> "log_only", grace |-> 0]
               ELSE policyCache[key]

\* Mutation: the timers are kept by the backend's gpu.id.
RecordedById(key, g, a, p) ==
    IF Policy(key).enabled /\ Policy(key).grace > 0
    THEN pending \cup {[key |-> key, card |-> GpuId[g], acct |-> a, pid |-> p, age |-> 0]}
    ELSE pending

\* Mutation: every violation starts the timer again.
RecordedAnew(key, g, a, p) ==
    IF Policy(key).enabled /\ Policy(key).grace > 0
    THEN {t \in pending : t.key # key \/ t.card # g \/ t.acct # a \/ t.pid # p}
           \cup {[key |-> key, card |-> g, acct |-> a, pid |-> p, age |-> 0]}
    ELSE pending

\* Mutation: a timer counts for whoever has the pid.
GraceOfPid(key, g, a, p) ==
    \/ Policy(key).grace = 0
    \/ \E t \in pending : t.key = key /\ t.card = g /\ t.pid = p /\ t.age >= Policy(key).grace

\* grace_tracker.record: is the grace period of this violation over?  A timer
\* is started once and never cleared.
GraceOver(key, g, a, p) ==
    \/ Policy(key).grace = 0
    \/ \E t \in pending : /\ t.key = key /\ t.card = g /\ t.acct = a /\ t.pid = p
                          /\ t.age >= Policy(key).grace

Timed(key, g, a, p) == \E t \in pending : t.key = key /\ t.card = g /\ t.acct = a /\ t.pid = p

Recorded(key, g, a, p) ==
    IF Policy(key).enabled /\ Policy(key).grace > 0 /\ ~Timed(key, g, a, p)
    THEN pending \cup {[key |-> key, card |-> g, acct |-> a, pid |-> p, age |-> 0]}
    ELSE pending

\* History: what is known of p becomes s.  When that ends a violation that has a
\* timer, the timer stays behind.
Sees(p, s) ==
    LET k == known[p]
    IN  /\ known' = [known EXCEPT ![p] = s]
        /\ lapsed' = IF k # None /\ s # k /\ \E key \in AllowedToKill : Timed(key, k.at.card, k.at.acct, p)
                     THEN lapsed \cup {[pid |-> p, at |-> k.at]} ELSE lapsed

\* A process found preempting at a place, again or for the first time there.
Preempting(p, at) == IF known[p] # None /\ known[p].at = at THEN known[p] ELSE [at |-> at, age |-> 0]

\* PolicyDispatcher: auto_kill is for preemption, and only with the capability.
Effective(key) ==
    IF Policy(key).severity = "auto_kill" /\ (key \notin AllowedToKill \/ ~kill)
    THEN "warn" ELSE Policy(key).severity

-----------------------------------------------------------------------------
(* Reports and alerts *)

\* _dedup_hit: an alert for the same card and key inside the window.
Repeats(key, g) == \E al \in alerts : al.gpu = g /\ al.key = key

\* create_alert: the gpu_id of an alert is the card index, and when there is no
\* gpu with that id the insert fails and takes the connection down.
Raise(fresh, g, p) ==
    /\ conn' = (fresh = {} \/ g \in GpuRow)
    /\ alerts' = IF conn' THEN alerts \cup {[gpu |-> g, key |-> key, pid |-> p] : key \in fresh}
                 ELSE alerts

\* push_compliance_violation and the branch of agent_ws for the frame, for the
\* violations of one evaluation.  Those of them that are fresh become alerts.
Report(keys, g, p) ==
    \/ (~conn \/ keys = {}) /\ UNCHANGED <<conn, alerts>>
    \/ /\ conn
       /\ \E fresh \in SUBSET keys :
             /\ \A key \in keys \ fresh : Repeats(key, g)
             /\ Raise(fresh, g, p)

-----------------------------------------------------------------------------
(* A tick *)

\* gpu_collector.collect, after the interval.  seen: the query for processes
\* succeeds; when it fails there are none.
Collect(seen) ==
    /\ victim = None /\ cards = {}
    /\ sample' = IF seen THEN proc ELSE [p \in Pid |-> None]
    /\ cards' = Card
    /\ UNCHANGED <<clock, table, host, conn, caches, victim, manual, pending, idle, alerts, history>>

\* run_tick takes the cards in order, and on each the processes first.
Current(g) == g \in cards /\ \A h \in cards : g <= h

\* process_killer: there is a process with this pid and it may be signalled.
Signalled(p) == proc[p] # None /\ p \notin Denied

\* _evaluate_process and PolicyDispatcher.__call__.
Evaluate(p, over) ==
    LET s   == sample[p]
        key == Verdict(s.acct, s.card, over)
        due == Policy(key).enabled /\ GraceOver(key, s.card, s.acct, p)
        toll == due /\ Effective(key) = "auto_kill" /\ Signalled(p)
    IN  /\ victim = None
        /\ s # None /\ Current(s.card)
        /\ sample' = [sample EXCEPT ![p] = None]
        /\ Sees(p, IF key \in AllowedToKill THEN Preempting(p, s) ELSE None)
        /\ IF key = None
           THEN UNCHANGED <<victim, pending, conn, alerts>>
           ELSE /\ pending' = Recorded(key, s.card, s.acct, p)
                \* SIGTERM; the report waits for the killer
                /\ victim' = IF toll THEN p ELSE None
                /\ Report(IF due /\ ~toll THEN {key} ELSE {}, s.card, p)
        /\ UNCHANGED <<clock, table, host, caches, cards, manual, idle, quiet, rash>>

\* kill_pid after its sleep: SIGKILL for whatever has the pid now, without a
\* look at the switch or the policy; then the report.
KillerWakes ==
    /\ victim # None
    /\ proc' = [proc EXCEPT ![victim] = None]
    /\ Sees(victim, None)
    /\ victim' = None
    /\ \E g \in cards : Current(g) /\ Report(AllowedToKill, g, victim)
    /\ UNCHANGED <<clock, table, lives, caches, sample, cards, manual, pending, idle, quiet, rash>>

\* Mutation: a busy sample does not end the streak.
StreakKept(g, busy) == IF ~busy /\ idle[g] = None THEN 0 ELSE idle[g]

\* The util-zero streak of a card.
Streak(g, busy) == CASE busy -> None [] ~busy /\ idle[g] = None -> 0 [] OTHER -> idle[g]

\* _evaluate_gpu.  full: memory above the floor; hot: above the limit.
EvaluateCard(g, busy, full, hot) ==
    LET streak == Streak(g, busy)
        hung == full /\ streak # None /\ streak >= HangLimit
        keys == {key \in (IF hung THEN {"gpu_hang"} ELSE {}) \cup (IF hot THEN {"gpu_temp_high"} ELSE {}) :
                    Policy(key).enabled}
    IN  /\ victim = None
        /\ Current(g) /\ \A p \in Pid : sample[p] # None => sample[p].card # g
        /\ cards' = cards \ {g}
        /\ idle' = [idle EXCEPT ![g] = streak]
        /\ quiet' = [quiet EXCEPT ![g] = IF busy THEN 0 ELSE @]
        /\ rash' = IF hung /\ quiet'[g] < HangLimit THEN rash \cup {g} ELSE rash
        /\ pending' = pending \cup UNION {Recorded(key, g, None, None) : key \in keys}
        /\ Report({key \in keys : GraceOver(key, g, None, None)}, g, None)
        /\ UNCHANGED <<clock, table, host, caches, sample, victim, manual, sightings>>

-----------------------------------------------------------------------------
(* The backend and the admin *)

\* Links, their sources and reservations change; nothing tells the agent.
ChangeTable(t) ==
    /\ table' = t
    /\ UNCHANGED <<clock, host, conn, caches, ticking, manual, pending, idle, alerts, history>>

\* link_cache_sync_service: accounts with links, and their reservations that
\* are not over.
Composed == [a \in Account |-> IF table[a].linked
                               THEN [table[a] EXCEPT !.res = {r \in @ : clock <= r.to}]
                               ELSE Unlinked]

\* The receive loop takes one frame at a time and sleeps with a manual kill.
Receives == conn /\ manual = None

\* On connect and on approval only.
HearLinks ==
    /\ Receives
    /\ linkCache' = Composed
    /\ UNCHANGED <<clock, table, host, conn, policyCache, kill, ticking, manual, pending, idle, alerts, history>>

\* ContextFeed: some policy table and some position of the switch.
HearRules ==
    /\ Receives
    /\ policyCache' \in Policies /\ kill' \in BOOLEAN
    /\ UNCHANGED <<clock, table, host, conn, linkCache, ticking, manual, pending, idle, alerts, history>>

Reconnect ==
    /\ conn \/ manual = None
    /\ conn' = ~conn
    /\ UNCHANGED <<clock, table, host, caches, ticking, manual, pending, idle, alerts, history>>

\* alerts.kill_process: the pid the alert carries.
ManualKill(al) ==
    /\ Receives /\ kill
    /\ al.pid # None /\ Signalled(al.pid)
    /\ manual' = al.pid
    /\ UNCHANGED <<clock, table, host, conn, caches, ticking, pending, idle, alerts, history>>

ManualKillerWakes ==
    /\ manual # None
    /\ manual' = None
    /\ proc' = [proc EXCEPT ![manual] = None]
    /\ Sees(manual, None)
    /\ UNCHANGED <<clock, table, lives, conn, caches, ticking, pending, idle, alerts, quiet, rash>>

-----------------------------------------------------------------------------
(* The host *)

\* The kernel may give a pid out again.
Start(p, place) ==
    /\ proc[p] = None /\ lives[p] < MaxLives
    /\ proc' = [proc EXCEPT ![p] = place]
    /\ lives' = [lives EXCEPT ![p] = @ + 1]
    /\ Sees(p, None)
    /\ UNCHANGED <<clock, table, conn, caches, ticking, manual, pending, idle, alerts, quiet, rash>>

Exit(p) ==
    /\ proc[p] # None
    /\ proc' = [proc EXCEPT ![p] = None]
    /\ Sees(p, None)
    /\ UNCHANGED <<clock, table, lives, conn, caches, ticking, manual, pending, idle, alerts, quiet, rash>>

Older(age) == IF age = None \/ age = MaxAge THEN age ELSE age + 1

Pass ==
    /\ clock' = IF clock < MaxClock THEN clock + 1 ELSE clock
    /\ pending' = {[t EXCEPT !.age = Older(@)] : t \in pending}
    /\ idle' = [g \in Card |-> Older(idle[g])]
    /\ known' = [p \in Pid |-> IF known[p] = None THEN None ELSE [known[p] EXCEPT !.age = Older(@)]]
    /\ quiet' = [g \in Card |-> Older(quiet[g])]
    /\ UNCHANGED <<table, host, conn, caches, ticking, manual, alerts, lapsed, rash>>

\* The agent process ends and starts again with nothing.
Restart ==
    /\ policyCache' = None /\ kill' = FALSE /\ linkCache' = None
    /\ sample' = [p \in Pid |-> None] /\ cards' = {} /\ victim' = None
    /\ manual' = None /\ pending' = {} /\ idle' = [g \in Card |-> None]
    /\ conn' = FALSE
    /\ known' = [p \in Pid |-> None] /\ lapsed' = {}
    /\ UNCHANGED <<clock, table, host, alerts, quiet, rash>>

-----------------------------------------------------------------------------
Init ==
    /\ clock = 0 /\ table \in Tables
    /\ proc = [p \in Pid |-> None] /\ lives = [p \in Pid |-> 0]
    /\ conn = FALSE
    /\ policyCache = None /\ kill = FALSE /\ linkCache = None
    /\ sample = [p \in Pid |-> None] /\ cards = {} /\ victim = None
    /\ manual = None /\ pending = {} /\ idle = [g \in Card |-> None]
    /\ alerts = {}
    /\ known = [p \in Pid |-> None] /\ lapsed = {}
    /\ quiet = [g \in Card |-> 0] /\ rash = {}

Tick ==
    \/ \E seen \in BOOLEAN : Collect(seen)
    \/ KillerWakes
    \/ \E p \in Pid, over \in BOOLEAN : Evaluate(p, over)
    \/ \E g \in Card, busy, full, hot \in BOOLEAN : EvaluateCard(g, busy, full, hot)

Environment ==
    \/ \E t \in Tables : ChangeTable(t)
    \/ HearLinks \/ HearRules \/ Reconnect
    \/ \E al \in alerts : ManualKill(al)
    \/ ManualKillerWakes
    \/ \E p \in Pid : Exit(p) \/ \E place \in Place : Start(p, place)
    \/ Restart

Next == Tick \/ Environment \/ Pass

Spec == Init /\ [][Next]_vars

\* The event loop runs the monitor, nvidia-smi answers time and again, and time
\* goes on.
FairSpec == Spec /\ WF_vars(Tick) /\ SF_vars(Collect(TRUE)) /\ WF_vars(Pass)

-----------------------------------------------------------------------------
(* Properties *)

TypeOK ==
    /\ clock \in 0..MaxClock /\ table \in Tables
    /\ proc \in [Pid -> Place \cup {None}] /\ lives \in [Pid -> 0..MaxLives]
    /\ conn \in BOOLEAN
    /\ policyCache \in Policies \cup {None} /\ kill \in BOOLEAN
    /\ linkCache \in [Account -> Entry] \cup {None}
    /\ sample \in [Pid -> Place \cup {None}] /\ cards \subseteq Card
    /\ victim \in Pid \cup {None} /\ manual \in Pid \cup {None}
    /\ pending \subseteq Timer
    /\ idle \in [Card -> Age \cup {None}] /\ quiet \in [Card -> Age]
    /\ alerts \subseteq Alert
    /\ known \in [Pid -> Sighting \cup {None}]
    /\ lapsed \subseteq [pid : Pid, at : Place]
    /\ rash \subseteq Card

\* The grace period.  grace_tracker.py:9-10 says that a violation is acted upon
\* when it "has now been observed for grace_period_seconds continuously": a
\* process gets SIGTERM only when every look of this run of the agent at it, for
\* the grace period of the policy in force, found it preempting on that card in
\* that account's name.  The code never clears a timer (clear has no caller, and
\* nothing times out), so it keeps less: once a timed violation has ended, by a
\* look that found none, by a move, or with the process, the timer of that
\* account, card and pid goes on, and a violation with the same signature may be
\* acted upon at once.
KillFollowsGrace ==
    [][\A p \in Pid, key \in AllowedToKill : victim' = p /\ victim # p =>
          \/ [pid |-> p, at |-> sample[p]] \in lapsed
          \/ known'[p].age >= Policy(key).grace]_vars

\* The util-zero streak (_evaluate_gpu): a card is called hung only when no
\* sample found it busy for as long as the limit says.
HangIsContinuous == rash = {}

\* p breaks the one rule that kills, and the cached rules say it is to be killed.
Preempts(p) ==
    /\ proc[p] # None
    /\ Verdict(proc[p].acct, proc[p].card, FALSE) \in AllowedToKill
    /\ \A key \in AllowedToKill : Policy(key).enabled /\ Policy(key).severity = "auto_kill"
    /\ kill

\* Enforcement (run_tick, PolicyDispatcher, kill_pid): no process that may be
\* signalled preempts for ever while the agent is told to kill such processes,
\* however samples, lost connections and manual kills come in between.
NobodyPreemptsForever == \A p \in Pid \ Denied : ~<>[]Preempts(p)

\* The promise of _AUTO_KILL_SETTABLE_KEYS: a process is terminated only when
\* its owner has no live reservation of the card it runs on.
HolderIsSpared ==
    [][\A p \in Pid : victim' = p /\ victim # p =>
          ~\E r \in Lookup(sample[p].acct).res : Covers(r, GpuId[sample[p].card])]_vars
=============================================================================
