# CoreLab: TLA+ models, model checks and proofs

CoreLab shares the GPU servers of a lab: users book GPUs, attach scripts to
their reservations, and an agent on each server starts the scripts, watches
who uses the cards and reports back. This directory models the parts whose
correctness depends on interleaving, failure and ordering, checks them with
TLC on small instances, and proves the most important results with TLAPS for
every value of the constants.

## 1. The system

| Part | State it keeps | Operations | Hard behaviour |
|---|---|---|---|
| Booking (`reservation_service.py`, `api/v1/reservations.py`) | `reservation` rows | create a batch, edit, cancel one, cancel a group | concurrent transactions under REPEATABLE READ, InnoDB gap and row locks, commit on HTTP errors |
| Scheduler (`reservation_scheduler.py`) | the same rows, audit rows it counts | every tick: promote, close, dispatch, watchdog | crash between commit and dispatch, retries against late answers |
| Script lifecycle (`script_lifecycle_service.py`) | `script_status`, the dispatch marker, `_PENDING_KILLS` | started, output, finished; cancel with a running script | pushes late, lost or stale; waits with timeouts |
| Agent RPC (`agent_rpc.py`) | `_PENDING` futures by correlation id | `request_response`, `deliver_response` | offline agents, timeouts, late answers |
| Script runner (`agent/script_runner.py`) | `_running` | execute, cancel, await and push | duplicate requests, restart, events dropped while offline |
| Agent connection (`agent_ws.py`, `agent_hub.py`, `telemetry_service.py`) | connection pool, `server.status` | connect, heartbeat, disconnect, approve | reconnect racing the old handler's clean-up; approval racing connection |
| Context sync (`agent_policy_service.py`, `policy_sync_service.py`, `capability_sync_service.py`, `link_cache_sync_service.py`, `policies.py`, `servers.py`) | policy, capability and link rows; the copies the agent holds | edit, switch profile, flip; push at connect, approval and change | pushes that overtake each other, sessions that show their own write, lost frames, restarts |
| Account access (`account_link_service.py`, `account_link_request_service.py`, `physical_account_service.py`, `ssh_challenge.py`, `user_service.disable_user`) | accounts, keys, links, link requests, key inventory; challenges in Redis; `authorized_keys` files on the host | request, approve, deny, retry, claim, upgrade, revoke, onboard, disable | transactions that wait for the agent; pushes lost, late or rolled back; single-use challenges |
| Identity (`user_service.py`, `auth_service.py`, `setup_service.py`) | labs, users, registration invites, setup tokens | set up, invite, register, revoke, activate, reset, change role, disable, reactivate | last-admin rule and invite status under concurrent transactions, one live token per user |
| Compliance (`compliance_monitor.py`, `policy_handlers.py`, `grace_tracker.py`, `process_killer.py`, `reverse_cache.py`, `alerts.py`) | grace timers, idle streaks, cached links, policies and switches; alerts | sample, judge, warn, kill, report; manual kill | stale samples and caches, sleeping killers, reused pids, restarts, time |
| Advice (`schedule_recommender.py`, `preview_conflicts`) | none | recommend windows, preview a batch | intervals that touch or nest |
| Rate limit, lab URLs, alerts, audit, frontend | see `PROJECT.json` | | |

The backend is one asyncio process over MySQL and Redis. The scheduler, the
API routes and the agent receive loop share the database; the routes and the
receive loop also share two in-process tables (`agent_hub.pool`,
`_PENDING_KILLS`). Each agent has one WebSocket: requests travel to the agent,
answers and pushes travel back in order.

What makes each part correct: a card is never promised twice; a window that
has begun does not move; every request ends; a reservation and its script move
only along their state machines; a script runs at most once and not after the
platform calls it over; a dispatch does not hang for ever; a cancel commits on
the kill path only when the script is over; a connected agent ends up with the
state the database says, and never with one that was not committed; a verified
link is proven, a pushed key is recorded, a decision is final; a lab keeps an
admin and a user one live setup link; a process is killed after its violation
was seen for the grace period, and nobody preempts for ever. `PROJECT.json` lists the hazards line by line.

## 2. Modules

### `ReservationBooking`

The table `reservation` under concurrent API requests.

- `rows` is the committed table, `sess` the transaction each request is in,
  `now` the clock, `nextId` the AUTO_INCREMENT counter. `unchecked` is a
  history variable: rows whose window was stored by an edit that was refused.
- A request interleaves with others at its locking reads and at its flush.
  `Create` is the pre-pass of `create_reservation_batch`, `CheckWindow` one
  turn of the conflict loop (`FOR UPDATE` scan and `_classify_conflict`),
  `InsertRows` the flush. `Modify`, `CheckWindow`, `ApplyEdit` are
  `modify_reservation`; `CommitRefusedEdit` is what `get_session` does with a
  refused one (it commits on `HTTPException`). `Cancel`, `CancelGroup` and
  `Tick` are single transactions.
- The locks are modelled from how the code uses InnoDB: a scan of
  `idx_res_gpu_time` locks every record and gap below the end of the window,
  gap locks do not exclude each other, an insert into a gap someone else has
  scanned waits. A waiting transaction may be aborted (`LockAbort`: deadlock
  victim or lock wait timeout).
- Abstractions: times are small integers, NULL shares are 0, permission and
  account-link checks are left out because they refuse before any change. A
  compute share is at most 100, as `ck_res_compute_pct` and the schema have it;
  `CrossRequestCapacity` needs that, since a row that enters an empty window is
  compared with nothing.

### `ReservationLifecycle` (abstract)

What `reservation_service` promises about a row: the tables
`_ALLOWED_TRANSITIONS` and `_ALLOWED_SCRIPT_TRANSITIONS` and their joint rules
(a script is fired only on a row that is active when the transaction commits;
a row completes only if its script did not fail; it fails only on behalf of a
script that was fired). A step may compose edges, because one tick can promote
and close a row.

### `ScriptDispatch` (implements `ReservationLifecycle`)

The tick with its watchdog, the fire-and-forget dispatch tasks, the RPC
layer, the agent's script runner, the pushes, single and group cancellation,
over one connection that can drop (`Drop`, `Reconnect`), a `send_text` that
raises (`SendRaises`), a backend crash and an agent restart.

- `phase` abstracts time to what the code compares (before start, started,
  trigger due, ended); `marker` says whether `script_dispatch_started_at` is
  null, younger or older than `WATCHDOG_STUCK_SECONDS`.
- `startedSeen` and `failures` are the two kinds of audit rows the watchdog
  counts. `calls` numbers the RPCs of an owner, so an answer names the call it
  belongs to, as the correlation id does.
- `toAgent` and `toBackend` are ordered; a drop loses both. Pushes made while
  the link is down are lost (`push_envelope`).
- `execs` and `faults` are history.
- The tick is one atomic step: it sets SERIALIZABLE and
  `with_serializable_retry` runs a victim of a deadlock again as a whole. That is
  an assumption about the pool: `_tick_body` commits after the `SET SESSION`
  (`reservation_scheduler.py:428-430`), which may hand the connection back and
  begin the transaction on another one, at the default level; the same holds for
  `Tick` in `ReservationBooking`.
- The flush in `on_script_finished` takes the row's lock before the kill event
  is set, and `cancel_reservation` starts with a locking read, so recording
  the outcome and waking the cancel are one step.
- Not represented: the branches that skip a row whose server or Linux user is
  missing (foreign keys exclude them) and output chunks.

### `AgentSession`

One server's row, the agent's connections and the approval route.

- `row` is the `server` row, `pool` the entry `agent_hub.pool` holds for it,
  `open` the sockets that are open, `pc` the position of every handler and
  approval, `step` and `sent` the context items (URLs, capabilities, policies,
  link cache) to be sent next and written so far. `last`, `failed` and
  `faults` are history.
- A handler goes through `Connect` (`authenticate_agent`), `Register` or
  `Kick`/`KickDone` (`pool.register`, which awaits the close of the socket it
  replaces), the greeting, `PushContext` once per item, heartbeats,
  `Disconnect` (`unregister`) and `MarkOfflineRead`/`MarkOfflineWrite`.
- A transaction is a snapshot read (`snap`) followed by a write of the columns
  the ORM found changed: an approval that decides on the status it had read
  leaves the column alone. An approval's snapshot is fixed by its login query
  (`ApproveRead`), its look at the pool comes later (`ApproveCheck`), and the
  pool is consulted again after the commit (`PushAfterApproval`).
- `GreetingFails` is a transaction that fails before the handler's `try`: the
  coroutine dies and its dead socket stays in the pool (`"lost"`) until the
  next connection replaces it.
- Abstractions: each member of `Conn` is one WebSocket, used once; tokens are
  valid; of a context frame only the kind is kept, and the lab has a URL to
  send.

### `AccountAccess`

Who may use which Linux account, and which keys the agent has put into the
accounts' files.

- `active`, `account`, `key`, `links`, `reqs` and `entry` are the tables
  (`entry` is `authorized_key_entry`, unique by account and key), `chals` and
  `live` the challenges minted and those Redis still holds, `host` the keys in
  each `authorized_keys` file, `wire` the requests on their way to the agent.
  `signed` and `stray` are history: the challenges whose signature the agent
  accepted, and the keys that are in a file by hand or through a push that was
  cut short.
- Each member of `Request` is one HTTP request, used once; `pc` is where it is
  (`begun`: snapshot taken; `work`: between two statements of a revocation;
  `wait`, `ok`, `failed`: the agent's answer; `done`), `job` what it holds in
  local variables. Requests read a snapshot, then lock, then may wait for the
  agent, then write: the steps of `approve_request` are `Decide`,
  `LockRequest`, the agent's `Serve` (or `Lose`, `Timeout`) and `ApproveDone`.
- Claims (`Verify`, `Upgrade`, `TryPassword`, `Declare`) end in `Establish` or
  `UpgradeDone`; `Consume` is Redis `GETDEL`. Revocations (`Revoke`,
  `DisableUser`) go through the links and keys one by one (`RevokeLink`,
  `RevokeKey`, `RevokeNext`) and become visible at once in `RevokeDone`.
- `RollBack` ends a transaction anywhere: lock wait timeout, deadlock victim,
  backend crash. What the agent has done by then stays done.
- Locks, modelled from how the code uses InnoDB: `SELECT ... FOR UPDATE` on a
  link request (`RequestFree`), updated link rows (`LinkFree`, `PairFree`), and
  the foreign-key check that makes an insert wait for a transaction that has
  updated the user (`UserLocked`).
- Abstractions: one agent; roles, lab membership, the lock after failed
  challenges, audit rows and notifications only refuse or are only read by
  people; a file is the set of its keys; a Linux name is registered once;
  server-admin grants are not in this module.

### `ScheduleAdvice` (on top of `ReservationBooking`)

`Recommend` is the answer of `schedule_recommender.recommend` for the table as
it is: `Busy` the clipped intervals, `Sweep` all events of one instant (starts
before ends, as the code sorts them), `Apply` the body of the loop,
`EarliestStart` the window of a server, `PickFirst` the cards offered.
`Preview` is `preview_conflicts`. The reference is `TrueStarts`, the definition
the docstring gives. Neither operation changes anything, so the module adds no
actions: its properties are invariants of the book, checked in every table that
bookings, edits, cancellations and ticks can produce. `AdviceAssumption` says
that a server lists each of its cards once (a row of `gpu` each), that the
horizon is not empty (`HORIZON_DAYS` is 7), and what the request schema allows:
at least one card, one instant and one answer. `RecommendationHolds` is about
lengths the server allows: `recommend` does not look at
`max_reservation_hours`.

### `LabIdentity`

The tables `lab`, `user`, `registration_invite` and `setup_token` under
concurrent requests.

- Each member of `Request` is one HTTP request; `job` is what it has read and
  locked. The snapshot is fixed by its first query (`get_current_user` or the
  look-up of the token); `EnsureAdminRemains` is the `FOR UPDATE` read of
  `_ensure_at_least_one_active_admin`, `FlushUser` the flush that locks the row
  (a disable then waits for agents), `CommitUser` the commit. An UPDATE writes
  the columns whose value differs from what was read.
- `LockInvite` is the `FOR UPDATE` read of a revocation; registration and
  activation read without a lock (`Register`, `Activate`) and write later.
- `beside` (in a token: it was asked for while another issue for the same user
  was in flight) and `stale` are history.
- Names, e-mails and keys given at registration only refuse (`Fail`); what
  `disable_user` revokes is in `AccountAccess`; login and its lock are left
  out.

### `ContextFeed` (abstract) and `AgentContext` (implements it)

`ContextFeed` is what an agent may rely on, whatever is lost, repeated or
overtaken: it knows nothing after a start, and what it holds is one policy
table and one position of each switch that the backend has committed.

`AgentContext` is how that comes about: policy edits, profile switches, flips
and approvals (`Arrive`, then a commit, then `Compose` and `Send` for every
subject), connections that are greeted with the same pushes, disconnects and
restarts of the agent. A policy push reads in a session of its own; a
capability push after a flip reads in the session of the request, which shows
the switch as that request wrote it (`SwitchPayload`). `excused` is history:
subjects for which a push failed or another commit came between reading and
sending.

### `ComplianceMonitor`

The monitor of one agent with the backend's side of a report and of a manual
kill. It takes its rules as any that `ContextFeed` allows.

- `proc` are the processes on the cards, `sample` and `cards` what the current
  tick has still to look at, `victim` and `manual` the pids on which the
  monitor's killer and a manual request sleep, `pending` the grace tracker,
  `idle` the util-zero streaks, `linkCache` the reverse cache, `table` the
  links and reservations in the database. `known` (how long
  every look of this run of the agent at a process has found it preempting, and
  where), `lapsed` (signatures whose violation ended and left a timer), `quiet`
  and `rash` are history.
- `Evaluate` is `_evaluate_process` with the dispatcher up to the SIGTERM,
  which nothing can interrupt; `KillerWakes` is the rest of `kill_pid`, after
  which the report is sent. `EvaluateCard` is `_evaluate_gpu`. A report is
  heard or, without a connection, dropped; `Raise` inserts the alert.
- The link cache is pushed on connect and on approval only (`HearLinks`), so it
  may be any age.
- Time is a clock for reservations and an age, capped at `MaxAge`, for
  everything that is only compared with a limit.
- Notifications, audit rows and mock mode are left out.

`MCReservationBooking`, `MCScriptDispatch`, `MCAgentSession`,
`MCAccountAccess`, `MCLabIdentity`, `MCAgentContext` and `MCComplianceMonitor`
hold the instances.

## 3. Model checks

| Run | Instance | Result |
|---|---|---|
| `BookingRace` | 2 requests in flight, 2 cards, 3 rows, 4 bodies, 2 edits, clock 0..2; 2 servers and 2 recommendation requests | `TypeOK`, `CrossRequestExclusive`, `CrossRequestCapacity`, `RecommendationIsNotLate`, `RecommendationHolds`, `ActiveWindowFrozen` hold |
| `BookingSettles` | 1 card, fewer bodies, a cron task, fair | `RequestsSettle` holds |
| `DispatchReliable` | 2 reservations (one with a script), 2 cancels of it, a group, no faults, prompt answers, refusals, fair | `AtMostOnceExecution`, `OverMeansIdle`, `KillConfirmed`, `CancelSettles` hold |
| `DispatchFaulty` | 1 reservation, 1 cancel, a drop, a raising send, a crash, slow answers | `TypeOK`, `SendBound`, `FollowsLifecycle` hold |
| `DispatchLive` | 1 reservation, 1 cancel, a drop that may be final, a crash, an agent restart, fair | `DispatchResolves`, `CancelSettles` hold |
| `AgentSession` | 2 connections, 1 approval, deletion, a failed transaction, a crash | `TypeOK`, `PoolIsCurrent`, `ContextDelivered` hold |
| `AgentStatus` | 2 connections, 1 approval, no faults, fair | `StatusConverges` holds |
| `AccountAccess` | 3 overlapping requests; 1 user, key, account and challenge, 2 links, 2 link requests, one of which may be pending at the start | `TypeOK`, `LinkIsProven`, `PushedIsTracked`, `DecisionIsFinal` hold |
| `LabIdentity` | 3 overlapping requests; an admin, an invited user, a free name, 1 invite, 2 tokens; or no lab yet | `TypeOK`, `AdminRemains`, `SingleLiveToken`, `InviteStatusTells` hold |
| `AgentContext` | 2 requests, 2 connections, 2 policies, 1 profile, 1 switch, 1 failed transaction, any number of disconnects and restarts | `TypeOK`, `InStep`, `FollowsFeed` hold |
| `ComplianceMonitor` | 1 pid given out twice, 2 accounts, 1 visible card of 2, grace and hang limit 2, fair | `TypeOK`, `HangIsContinuous`, `KillFollowsGrace`, `NobodyPreemptsForever` hold |
| `ComplianceHolder` | the same with both cards | `HolderIsSpared` is violated |

Bounds. Two concurrent requests are what a race needs; three rows allow a
batch of two next to a third row, or a stack of three shares. The request
bodies are chosen so that each conflict rule decides some pair of them. Two or
three attempts exercise the watchdog's first send, retry and give-up; one
fault of each kind at any moment covers every single failure and every
combination of different ones. Two connections are a reconnect while the old
socket is still held, which is the only way two handlers of a server meet; the
proofs cover any number. `CancelSettles` is checked twice: in `DispatchReliable`
two cancels of one reservation share its registry entry, so one of them waits
for an event that nobody will set; in `DispatchLive` one cancel meets a final
drop, a crash and a restart. Both at once are beyond TLC's reach here.
In `AccountAccess` everything meets on one user, key
and account, which is where requests can disturb each other; three requests
are a decision, a revocation and a retry, or two claims next to an upgrade,
and two rows of each table are a duplicate request and a re-created link. The
proofs cover any number of them. In `LabIdentity` three requests are two
removals and the promotion between them; two tokens are a link and the one that
replaces it. In `AgentContext` two requests and two connections let a push be
overtaken by a change, by an approval and by a greeting. In `ComplianceMonitor`
one pid is enough because processes meet only through the pid: it can be given
out again while a timer, a sample, an alert or a sleeping killer still names
it, to the other account too, and either account preempts in one of the two
tables; one reservation outlasts the clock, so a preemption can last for ever unless
the monitor ends it. Deadlock checking is off because a system in
which every reservation is over, every request is answered and no user acts
really stops.

Fairness. `BookingSettles`: a statement returns or its lock wait ends, because
InnoDB has a deadlock detector and `innodb_lock_wait_timeout`.
`DispatchReliable` and `DispatchLive`: the tick is an interval job, asyncio runs ready tasks and
timers, both frame pumps run, and a process that was sent SIGTERM ends
(SIGKILL follows after `GRACE_SECONDS`). `AgentStatus`: asyncio runs every
coroutine that can go on, and a connected agent sends its periodic heartbeat.
`ComplianceMonitor`: the monitor's loop runs (weak fairness of `Tick`), time
goes on, and nvidia-smi answers the query for processes time and again (strong
fairness of `Collect(TRUE)`: single failures are logged and the next tick asks
again). Nothing is assumed of users, of the
network (`Reconnect` is not fair) or of scripts left alone.

### What the violation shows

`ComplianceHolder`: `_evaluate_process` compares `res.gpu_id`, which the
backend fills with the key of the `gpu` table, with the index nvidia-smi gives
the card. Keys count from 1 over all servers, indexes from 0 on each. The
holder of a card is therefore found without a reservation of it, and if
another account's reservation has the key that equals the index, the holder is
taken for a preemptor and terminated. `violations.py` itself warns that the
index is "NOT the backend gpu.id".

### Observed and not stated as properties

Booking and dispatch:

- `modify_reservation` assigns the new window to the ORM row and then
  validates; the 422 or 409 is an `HTTPException`, and `get_session` commits on
  those: the refused window is stored, also one that exceeds
  `max_reservation_hours`. `CrossRequestExclusive` excludes these rows
  (`unchecked`).
- The cancel route looks at the row without a lock and may take the plain path
  just before the tick fires the script, which then runs under a cancelled row.
- A batch with two overlapping exclusive items of one card is accepted, because
  items are compared with the table only; a single shared request larger than
  the card is accepted when its window is empty; an edit with a new bound and a
  trigger raises `TypeError` and answers 500 (rolled back); two cancels of one
  reservation share one registry event, so one of them may wait for its
  timeout.
- The recommender takes a card for free at the end of any of its intervals: with
  shared reservations that nest, or reservations that touch, it offers a window
  that `POST /reservations` refuses. It picks cards that are free when the
  window starts, although the span may be made of cards that take turns, and
  does not look at `max_reservation_hours`: on a server that allows less than the
  24 hours a request may ask for, it offers windows that booking refuses.

Agents:

- `models/server.py` says a scheduler flips a silent server to offline; no job
  does. An approval that saw the agent connected can commit `online` after the
  disconnect was skipped because the server was not approved yet, and a backend
  that dies leaves its servers online.
- Two flips at the same moment, each pushed from its own session, can leave the
  agent with the older set (`excused`).
- `push_full_to_server` and `push_incremental_to_server` of the link cache are
  never called: links and reservations reach the agent with its next connection
  only.
- `grace_tracker.py:9-10` says that a violation is acted upon when it has been
  "observed for grace_period_seconds continuously", and lines 14-15 that a timer
  with no further `record` call "drops". The code does neither: a timer is
  started once and never cleared (`clear` has no caller). A process that stops
  preempting and starts again after the grace period may be terminated at the
  next look, and so may a new process with the pid, account and card of an
  earlier one. `KillFollowsGrace` states the promise with this one exception
  (`lapsed`); without the exception `ComplianceMonitor` refutes it.
- SIGKILL follows SIGTERM without another look at the switch, the policy or the
  owner of the pid; a manual kill acts on the pid of an alert however old, and
  blocks the agent's receive loop while it sleeps.
- An alert's `gpu_id` is the card index; where the `gpu` table has no such key
  the insert fails and ends the agent's connection. The duplicate check ignores
  the pid, so a second process on the card raises no alert.

Users and accounts:

- `disable_user` promises that a disabled user loses Linux-side reach;
  `try_password` and `verify_challenge` check the user, wait for the agent and
  insert the link afterwards, so a user who is disabled meanwhile has an active
  link.
- Three requests can remove the last admin: a disable that was decided while
  its target was a plain user commits after a promotion and the removal of the
  others (`stale`).
- Two issues of a token at the same moment leave two live links, although
  `auth_service.py:201` says "single live token per user at a time"
  (`SingleLiveToken` excepts them: `beside`); two uses of
  one link at the same moment both succeed; a registration in flight overrides
  a revocation of its invite; two setups at the same moment make two labs.
- `approve_request` always inserts an inventory row, so approving again after a
  revocation fails on the unique key and leaves the request pending with the key
  installed; an upgrade that waited for the agent re-creates a link that was
  revoked meanwhile; two link requests for one account can both be pending.

## 4. Proofs

`ReservationBookingProofs` (for every set of cards, requests and bodies, and
every bound):

- `BookingTypeCorrect`: `Spec => []TypeOK`.
- `NoCrossRequestDoubleBooking`: `Spec => []CrossRequestExclusive`. The
  invariant alone is not inductive: whether an insert is safe depends on what
  its transaction has scanned. The strengthening says of every transaction in
  flight that the items it has passed are still free of conflict with the rows
  of other requests, because an insert or an edit that would disturb them
  waits for the gap lock (`InsertBlocked`) and a row that is live in a scanned
  range is locked.
- `ActiveWindowIsFrozen`: `Spec => ActiveWindowFrozen`, from the row lock an
  edit holds and the locks `Tick` and `Cancel` wait for.
- `NoCrossRequestOvercommit`: `Spec => []CrossRequestCapacity`. `CapacityInv`,
  on top of the invariant above, says that a checked item still fits beside
  every part of its window (`Fits`: windows shrink while a transaction is in
  flight, and a part weighs no more than the whole), that an edit keeps the
  share of its row, and that a set of rows of different requests is borne by its
  card (`Bears`). A commit adds at most one row to such a set, because the rows
  of a batch are one request. A row that asks for no compute is not compared
  with the compute of its window; then the set it joined was borne already, or
  is one row with at most 100.

The module begins that part with what it needs about sums: `MapThenSumSet`
depends on the elements' weights only, any element can be taken out first, a
part weighs no more than the whole. The library computes the sum by a recursive
function over subsets, and the induction theorems of the prover's library take a
predicate as a parameter, which the backends cannot instantiate. The order of
finite sets under strict inclusion is well founded all the same (`WFMin`): a set
of counterexamples has a minimal one, `MinimalSubset`, and each fact is proved
by refuting it.

`ScheduleAdviceProofs` (any servers, horizon and requests, and every table the
book can reach):

- `RecommendationIsNeverLate`: `Spec => []RecommendationIsNotLate`.
- `RecommendationCanBeBooked`: `Spec => []RecommendationHolds`.

Both follow in every state from the types and from `OrderInv`: a row that exists
ends after it starts, and so do the items of a creation in flight. It is
inductive on top of the booking invariant; an edit in flight may hold a draft
that breaks it, and only the check constraint at the flush (`TableChecks`) keeps
the draft out of the table. Without it the first result fails: an empty interval
would interrupt a span, and one that runs backwards would take its card out of
`free_set` after putting it back.

The sweep is a recursion over the instants (`Swept`; `SweptExists` shows that
there is such a function, as TLA+ does not grant it), and each fact about it
holds because there is no first instant at which it fails (`LeastNat`, from the
well-founded order of the naturals). An instant is two turns of the loop, the
starts and then the ends (`TwoTurns`), and what a turn does is `Turn`.

- Not late: a card outside `free_set` has an interval that goes on (`Accounted`)
  or, between the two turns, goes on or ends now (`Ending`). If enough cards are
  free from `t0` for the length asked, none of them can be missing at `t0`, nor in
  either half of a later instant of the window, so the candidate start is at
  most `t0` and is not given up before `t0` plus the length; after that it is long
  enough to be kept (`TurnKeeps`). Of the windows found, the one with the least
  start, and among those the least server, has no predecessor, so it is shown
  whatever `top` is (`FirstIsShown`).
- Holds: with gaps between the intervals of a card, no card enters `free_set`
  while another of its intervals goes on (`FreeNow`); when all cards are asked
  for, enough means all; so all cards have been free since the candidate start
  (`Held`), at the end for the length asked. A row that overlapped the window
  would be busy at the later of the two starts. All cards are picked because the
  list of a server names each once (`PicksAll`).

`ScriptDispatchProofs` (any number of reservations, cancels and faults):

- `DispatchTypeCorrect`: `Spec => []TypeOK`.
- `KillIsConfirmed`: `Spec => []KillConfirmed`. The inductive invariant
  `DispatchInv` adds to `TypeOK` that an outcome or an execution presupposes a
  fired script (`FiredFirst`), and that an event in the registry belongs to a
  cancel of that reservation, an event that is set to a script that is over
  (`KillRegistry`).
- `RowsFollowLifecycle`: `Spec => FollowsLifecycle`, the refinement: each
  action is shown to map to a step of `ReservationLifecycle` or a stutter.
- `SendsAreBounded`: `Spec => []SendBound`, with any faults. `SendInv` keeps a
  budget for each script: an attempt is under way and the failed ones are fewer
  than `MaxAttempts`, or all attempts failed, or one succeeded and no further one
  will be made. The last case is the hard one: between the agent's acceptance and
  the start it reports, nothing in the row says so. The start goes ahead of the
  acceptance in the socket (`StartFirst`), so the acceptance finds the script
  settled; and the marker in the row does not age while the task is there
  (`MarkersFresh`), so the watchdog does not start a second one.
- `ScriptsRunOnce` and `OverIsIdle`:
  `Reliable => (Spec => []AtMostOnceExecution)` and
  `Reliable => (Spec => []OverMeansIdle)`, where `Reliable` says that no fault
  happens and no answer comes after its timeout. The hypothesis is the one of the
  run `DispatchReliable`; with a lost answer the watchdog sends a script again
  that is running, and both are false. `RunInv` says where a script is: in one
  task, one frame or at the agent (`OnTheWay`), with its start ahead of its answer
  (`RanOnce`) and its end behind both (`EndsLast`); cancels may come at any time,
  and the agent may refuse.

`AgentSessionProofs` (any number of connections, approvals and faults):

- `SessionTypeCorrect`: `Spec => []TypeOK`.
- `PoolStaysCurrent`: `Spec => []PoolIsCurrent`.
- `ContextIsDelivered`: `Spec => []ContextDelivered`. The property speaks of
  finished hand-overs only, so it is not inductive. The invariant `SessionInv`
  names, for each item that the socket in the pool has not been sent, who will
  still send it: the handler of that socket or an approval, each with the part
  of the list it has left. It survives because a handler registers before it
  reads the row and an approval commits before it looks at the pool: whichever
  comes second sees the other.

`AccountAccessProofs` (any number of users, accounts, keys, requests and
rows):

- `AccessTypes`: `Spec => []TypeOK`. Not inductive alone: that an approval's
  row exists when it is written comes from `LockInv`.
- `LinksAreProven`: `Spec => []LinkIsProven`. `ChalInv` says where a challenge
  can be: live in Redis, in the hands of one request that has spent it, or the
  proof of one link. `FrameInv` ties the agent's answer to that request: a
  frame somebody waits for is his only one and asks for what he is about.
- `PushedKeysAreTracked`: `Spec => []PushedIsTracked`. `PushInv` extends the
  property to the keys that are still on the wire; with `FrameInv` it follows
  that an acknowledged push belongs to a request that will leave a row, and
  that one which gives up is recorded as astray.
- `DecisionsAreFinal`: `Spec => DecisionIsFinal`, from `LockInv`: who holds a
  link request's lock holds it alone, and an approval that holds it still
  finds the request pending.

The proof classifies every step of a request once by what it does to the other
requests and to the wire (`RequestMoves`), the inventory (`RequestLedger`),
the locks (`RequestLocks`) and the challenges (`RequestClaims`); the invariant
is then preserved class by class.

`LabIdentityProofs` (any number of users, labs, invites, tokens and requests
that overlap): `IdentityTypes`, `AnAdminRemains`, `LinksAreSingle`,
`InviteStatusIsTrue`. None of the three properties is inductive, because a
commit acts on what the request found earlier. `IdentityInv` says what of that
still holds:

- a removal that was checked holds the lock of an active admin other than its
  target (`Keeper`); whoever is about to change a row holds its lock
  (`OwnLock`); the locks of two requests are disjoint (`LocksDisjoint`). So no
  commit touches the admin another removal counts on, and that one is left when
  the removal commits. A removal that was not checked lands in `stale`, the
  exception `AdminRemains` names;
- an invite that is about to be closed by a revocation has no user
  (`StillUnused`), because a registration waits for the lock;
- tokens that an issuing request has read exist (`PriorExist`), so the one it
  inserts is not among those it kills;
- the issues for one user that were not asked for beside another never overlap
  (`IssuesApart`), and such an issue in flight has read every token of the user
  that works and was not asked for beside another (`PriorSeen`): a token that
  appears meanwhile comes from an issue that overlaps, so it carries the mark. The
  commit therefore kills all the others. `TokenInv` is these two and
  `SingleLiveToken`.

`AgentContextProofs` (any keys, switches, requests, connections and failures):
`ContextTypes`, and `AgentFollowsFeed`: the pushes implement `ContextFeed`.
`ContextInv` adds that the current tables are among those committed
(`Present`), that a frame that has been read and not sent holds committed rows,
and that the position a request reports of the switch it flipped was committed,
at its commit or, when it flipped nothing, before it arrived. Rows of the
policy table never go away, so a late UPDATE merges with a row that exists.

`AgentEndsInStep`: `Spec => []InStep`. The property speaks of rest, so it is not
inductive. `DeliveryInv` names debtors: while an approved agent listens, a
subject is with it as it is in the database, or some request or connection has
still to read it, or has read it and not sent it; and what was read and not sent
is still what is committed, unless the subject is excused (a push failed, or one
overtook another).

`ComplianceMonitorProofs` (any processes, accounts, cards, policies and limits):
`MonitorTypes`, `KillsFollowGrace` and `HangsAreContinuous`. `MonitorInv` says
what a timer of a killing policy can be (`TimersFollowed`): every look since it
was started found this pid preempting, on this card and in this name, so it is
no older than what is known of the process; or that violation ended, and the
timer is one left behind. A kill rests on a timer that is old enough, and so on
one of the two; only `Evaluate` kills. Reused pids, late samples and moves only
turn timers into left ones, and a restart forgets both. The zero streak of a card is no longer than its
last rest (`StreaksRest`). The alternatives of `Streak` exclude each other: in
TLA+ a `CASE` whose guards overlap may take either, while the code's `if` chain
takes the first.

Each inductive invariant was checked with TLC, on the constants of its module's
runs, before it was proved (`RunInv` with scripts on both reservations: 5.8
million states).

Assumptions are the `ASSUME`s of the modules, which TLC evaluates in every
run.

Every invariant, action property and refinement of the runs is a theorem. Only
model-checked are the liveness properties (`RequestsSettle`, `DispatchResolves`,
`CancelSettles`, `StatusConverges`, `NobodyPreemptsForever`): reasoning from
fairness is beyond the prover.

## 5. Not modelled, and the plan

Parts that could still be modelled: login with its lock after failed attempts,
the rate limiter's window, server-admin grants and enrolment tokens, the URL
list pushed to agents, account scans and the reading of keys from the host.

Left out for good: charts and aggregates, the frontend, migrations, installers
(no protocol state), notification rows (written once and read by nothing
else).
