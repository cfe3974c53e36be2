------------------------- MODULE ReservationBooking -------------------------
(***************************************************************************)
(* The reservation book of the CoreLab backend: the rows of the MySQL      *)
(* table "reservation" as they are written by create_reservation_batch,    *)
(* modify_reservation, cancel_reservation, cancel_group and by the status  *)
(* half of the scheduler tick, when several API requests run at once.      *)
(*                                                                         *)
(* A request is one database transaction at REPEATABLE READ.  It takes the *)
(* InnoDB locks its locking reads ask for (SELECT ... FOR UPDATE) and      *)
(* keeps them until it commits.  Requests interleave at those reads and at *)
(* the final flush; whatever happens between two lock acquisitions touches *)
(* only the transaction's own session, so it is one step here.             *)
(*                                                                         *)
(* Abstractions.  Times are small integers.  The NULL of a share column is *)
(* 0 (the API refuses 0 as a value, and the sums read NULL as 0); the NULL *)
(* of a time is NoTime.  Ownership and account-link checks are left out:   *)
(* they refuse a request before it has changed anything.  Script bodies    *)
(* are left out: only their trigger time is constrained by this table.     *)
(***************************************************************************)
EXTENDS Integers, Sequences, FiniteSets, FiniteSetsExt

CONSTANTS
  Gpu,             \* the GPUs
  NoGpu,           \* gpu_id NULL: a cron task that occupies no GPU
  MemTotal,        \* gpu.memory_total_mb of every GPU, 0 when unknown
  MaxHours,        \* server.max_reservation_hours, 0 when there is no limit
  Grace,           \* the 5 minutes a start may lie in the past
  TimesAware,      \* TRUE when clients send times with an offset (ISO ...Z)
  Session,         \* the API requests that can be in flight together
  CreateRequests,  \* the bodies of POST /reservations that may arrive
  EditRequests,    \* the bodies of PATCH /reservations/{id} that may arrive
  MaxTime,         \* bound: the last instant of the clock
  MaxRows          \* bound: number of primary keys handed out

VARIABLES
  rows,       \* the committed table
  nextId,     \* AUTO_INCREMENT counter of the primary key
  now,        \* the wall clock
  sess,       \* the transaction each API request is in
  unchecked   \* history: rows whose window a refused edit has left behind

vars == <<rows, nextId, now, sess, unchecked>>

-----------------------------------------------------------------------------
(* The shapes of the data.                                                 *)

NoTime == -1
Id     == 1 .. MaxRows
Time   == Nat \cup {NoTime}

ACTIVE_STATUSES   == {"scheduled", "active"}
TERMINAL_STATUSES == {"completed", "cancelled", "failed"}

\* One ItemDraft: what a request asks of one GPU, and for when.
Item == [gpu : Gpu \cup {NoGpu}, start : Nat, end : Nat, mem : Nat, pct : 0 .. 100]

\* A row of the table; "unused" stands for a key that has no row.
Row == [gpu : Gpu \cup {NoGpu}, start : Nat, end : Nat, mem : Nat, pct : 0 .. 100,
        trigger : Time, status : {"unused"} \cup ACTIVE_STATUSES \cup TERMINAL_STATUSES,
        group : Nat]

CreateRequest == [items : Seq(Item), script : BOOLEAN, trigger : Time, share : BOOLEAN]
EditRequest   == [start : Time, end : Time, script : BOOLEAN, trigger : Time]

\* "check": the conflict matrix is being walked, items before idx are done;
\* "write": it passed; "refused": an edit failed with its row already dirty.
Request == [pc : {"idle", "check", "write", "refused"}, id : Nat, items : Seq(Item),
            idx : Nat, moved : SUBSET {"start", "end"}, script : BOOLEAN,
            trigger : Time, share : BOOLEAN]

NoRow == [gpu |-> NoGpu, start |-> 0, end |-> 0, mem |-> 0, pct |-> 0,
          trigger |-> NoTime, status |-> "unused", group |-> 0]

Idle == [pc |-> "idle", id |-> 0, items |-> <<>>, idx |-> 1, moved |-> {},
         script |-> FALSE, trigger |-> NoTime, share |-> FALSE]

ASSUME GpuAssumption      == NoGpu \notin Gpu
ASSUME CapacityAssumption == MemTotal \in [Gpu -> Nat] /\ MaxHours \in Nat /\ Grace \in Nat
ASSUME BoundAssumption    == MaxTime \in Nat /\ MaxRows \in Nat
ASSUME RequestAssumption  == /\ TimesAware \in BOOLEAN
                             /\ CreateRequests \subseteq CreateRequest
                             /\ EditRequests \subseteq EditRequest

-----------------------------------------------------------------------------
(* Windows and the conflict matrix.                                        *)

Live(r)   == rows[r].status \in ACTIVE_STATUSES
Exists(r) == rows[r].status # "unused"

Overlap(a, b)   == a.start < b.end /\ a.end > b.start
SameGpu(a, b)   == a.gpu = b.gpu /\ a.gpu # NoGpu
Exclusive(item) == item.mem = 0

\* The rows _window_active_reservations returns for an item.
InWindow(item) == {r \in Id : Live(r) /\ SameGpu(rows[r], item) /\ Overlap(rows[r], item)}

\* Slip: the candidate's own share is left out of the sum.
CandidateForgotten(item, W) ==
  /\ MemTotal[item.gpu] # 0
  /\ MapThenSumSet(LAMBDA r : rows[r].mem, W) > MemTotal[item.gpu]

\* The three sharing rules of _classify_conflict, for rows already in the window.
MixConflict(item, W)     == Exclusive(item) \/ \E r \in W : Exclusive(rows[r])
MemoryConflict(item, W)  ==
  /\ MemTotal[item.gpu] # 0
  /\ MapThenSumSet(LAMBDA r : rows[r].mem, W) + item.mem > MemTotal[item.gpu]
ComputeConflict(item, W) ==
  /\ item.pct # 0
  /\ MapThenSumSet(LAMBDA r : rows[r].pct, W) + item.pct > 100

\* _classify_conflict: an empty window never conflicts, whatever is asked.
Conflict(item, W) ==
  /\ W # {}
  /\ MixConflict(item, W) \/ MemoryConflict(item, W) \/ ComputeConflict(item, W)

\* _validate_item_time.
ValidTime(item) ==
  /\ item.end > item.start
  /\ item.start >= now - Grace
  /\ MaxHours # 0 => item.end - item.start <= MaxHours

TriggerInside(trigger, item) == item.start <= trigger /\ trigger < item.end

\* The pre-pass of create_reservation_batch, all of it before the first lock.
AcceptableBatch(req) ==
  /\ req.items # <<>>
  /\ \A i \in DOMAIN req.items : LET item == req.items[i] IN
       /\ item.gpu = NoGpu => req.script /\ item.mem = 0 /\ item.pct = 0
       /\ ValidTime(item)
       /\ req.trigger # NoTime => TriggerInside(req.trigger, item)

\* ck_res_time_order and ck_res_script_time, evaluated by MySQL at the flush.
TableChecks(row) ==
  /\ row.end > row.start
  /\ row.trigger # NoTime => TriggerInside(row.trigger, row)

-----------------------------------------------------------------------------
(* The locks.  FOR UPDATE on idx_res_gpu_time with gpu_id = g and start_at *)
(* < e locks every index record and every gap of that range; FOR UPDATE on *)
(* the primary key locks one row.  Gap locks of different transactions are *)
(* compatible with each other and block only inserts into the gap.         *)

Scanned(s) == {sess[s].items[i] : i \in {j \in 1 .. sess[s].idx - 1 :
                  j <= Len(sess[s].items) /\ sess[s].items[j].gpu # NoGpu}}

Covers(lock, gpu, start) == lock.gpu = gpu /\ start < lock.end

\* Slip: the row of an edit is read without FOR UPDATE.
RangeLocksOnly(s, r) == \E l \in Scanned(s) : Covers(l, rows[r].gpu, rows[r].start)

\* Row r is locked by transaction s, by its key or inside a scanned range.
Locks(s, r) == \/ sess[s].id = r
               \/ \E l \in Scanned(s) : Covers(l, rows[r].gpu, rows[r].start)

LockedByOther(s, r) == \E t \in Session \ {s} : Locks(t, r)

Unlocked(r) == \A t \in Session : ~Locks(t, r)

\* A scan waits while a record of its range is locked by someone else.
ScanBlocked(s, item) ==
  \E r \in Id : Exists(r) /\ Covers(item, rows[r].gpu, rows[r].start) /\ LockedByOther(s, r)

\* Slip: the window is scanned without FOR UPDATE, so no gap is locked.
NoGapLocks(s, gpu, start) == FALSE

\* An index entry (gpu, start) waits while someone else has scanned its gap.
InsertBlocked(s, gpu, start) ==
  \E t \in Session \ {s} : \E l \in Scanned(t) : Covers(l, gpu, start)

EntryBlocked(s) ==
  IF sess[s].id = 0
  THEN \E i \in DOMAIN sess[s].items :
         InsertBlocked(s, sess[s].items[i].gpu, sess[s].items[i].start)
  ELSE sess[s].moved # {} /\ InsertBlocked(s, sess[s].items[1].gpu, sess[s].items[1].start)

Blocked(s) == CASE sess[s].pc = "check" -> /\ sess[s].items[sess[s].idx].gpu # NoGpu
                                           /\ ScanBlocked(s, sess[s].items[sess[s].idx])
                [] sess[s].pc \in {"write", "refused"} -> EntryBlocked(s)
                [] OTHER -> FALSE

-----------------------------------------------------------------------------
(* POST /reservations.                                                     *)

\* A transaction that has just got its request body (and, for an edit, the
\* row of that id) and has scanned nothing yet.
Begin(pc, id, items, moved, body, share) ==
  [pc |-> pc, id |-> id, items |-> items, idx |-> 1, moved |-> moved,
   script |-> body.script, trigger |-> body.trigger, share |-> share]

\* Rows the creations in flight may still insert (only for the bound MaxRows).
PendingInserts ==
  MapThenSumSet(LAMBDA s : IF sess[s].id = 0 THEN Len(sess[s].items) ELSE 0, Session)

\* create_reservation_batch up to its first lock.  A batch the pre-pass
\* refuses changes nothing.
Create(s, req) ==
  /\ sess[s].pc = "idle"
  /\ AcceptableBatch(req)
  /\ nextId - 1 + PendingInserts + Len(req.items) <= MaxRows
  /\ sess' = [sess EXCEPT ![s] = Begin("check", 0, req.items, {}, req, req.share)]
  /\ UNCHANGED <<rows, nextId, now, unchecked>>

\* The transaction q after one more window has been scanned.
Advance(q, pc) == [q EXCEPT !.pc = pc, !.idx = q.idx + 1]

\* One turn of the conflict loop (of create and of modify): lock the window,
\* classify.  A conflict ends a creation with nothing written, but an edit
\* has already assigned the new window to its row.
CheckWindow(s) ==
  /\ sess[s].pc = "check"
  /\ ~Blocked(s)
  /\ LET item     == sess[s].items[sess[s].idx]
         W        == InWindow(item) \ {sess[s].id}
         conflict == item.gpu # NoGpu /\ Conflict(item, W)
         last     == sess[s].idx = Len(sess[s].items)
         pc       == IF conflict THEN "refused" ELSE IF last THEN "write" ELSE "check"
     IN sess' = [sess EXCEPT ![s] = IF conflict /\ sess[s].id = 0 THEN Idle
                                    ELSE Advance(sess[s], pc)]
  /\ UNCHANGED <<rows, nextId, now, unchecked>>

\* The row written for item i; without share_script only the first carries
\* the script, and a script without a trigger starts with the reservation.
NewRow(s, i, group) ==
  LET item    == sess[s].items[i]
      carries == sess[s].script /\ (sess[s].share \/ i = 1)
      trigger == IF ~carries THEN NoTime
                 ELSE IF sess[s].trigger # NoTime THEN sess[s].trigger ELSE item.start
  IN [gpu |-> item.gpu, start |-> item.start, end |-> item.end, mem |-> item.mem,
      pct |-> item.pct, trigger |-> trigger, status |-> "scheduled", group |-> group]

\* The flush and the commit of a creation: every row of the batch.
InsertRows(s) ==
  /\ sess[s].pc = "write" /\ sess[s].id = 0
  /\ ~Blocked(s)
  /\ LET n == Len(sess[s].items) IN
       /\ rows' = [r \in Id |-> IF r \in nextId .. nextId + n - 1
                                THEN NewRow(s, r - nextId + 1, nextId) ELSE rows[r]]
       /\ nextId' = nextId + n
  /\ sess' = [sess EXCEPT ![s] = Idle]
  /\ UNCHANGED <<now, unchecked>>

-----------------------------------------------------------------------------
(* PATCH /reservations/{id}.                                               *)

\* modify_reservation up to the conflict check: lock the row, require
\* "scheduled" (a scheduled row has no dispatched script, so the guard on the
\* script timing cannot fire), assign the new window, validate it.
Modify(s, r, e) ==
  LET row   == rows[r]
      moved == {f \in {"start", "end"} : e[f] # NoTime}
      draft == [gpu |-> row.gpu, mem |-> row.mem, pct |-> row.pct,
                start |-> IF e.start # NoTime THEN e.start ELSE row.start,
                end   |-> IF e.end # NoTime THEN e.end ELSE row.end]
      pc    == IF moved # {} /\ ~ValidTime(draft) THEN "refused"
               ELSE IF moved # {} /\ row.gpu # NoGpu THEN "check" ELSE "write"
  IN /\ sess[s].pc = "idle"
     /\ row.status = "scheduled"
     /\ ~LockedByOther(s, r)
     /\ sess' = [sess EXCEPT ![s] = Begin(pc, r, <<draft>>, moved, e, FALSE)]
     /\ UNCHANGED <<rows, nextId, now, unchecked>>

\* The row as the edit has left it in the session.  A trigger given together
\* with a new bound is compared naive against aware, which raises TypeError.
EditedRow(s, trigger) ==
  [rows[sess[s].id] EXCEPT !.start = sess[s].items[1].start, !.end = sess[s].items[1].end,
                           !.trigger = trigger]

TriggerTypeError(s) ==
  /\ TimesAware /\ sess[s].trigger # NoTime
  /\ \/ "start" \in sess[s].moved
     \/ sess[s].items[1].start <= sess[s].trigger /\ "end" \in sess[s].moved

\* The tail of modify_reservation and the commit.  An invalid trigger is an
\* HTTP error, which get_session commits; a TypeError or a failed table check
\* rolls everything back.
ApplyEdit(s) ==
  /\ sess[s].pc = "write" /\ sess[s].id # 0
  /\ LET r       == sess[s].id
         given   == sess[s].trigger # NoTime /\ TriggerInside(sess[s].trigger, sess[s].items[1])
         default == sess[s].script /\ rows[r].trigger = NoTime /\ sess[s].trigger = NoTime
         row     == EditedRow(s, IF given THEN sess[s].trigger
                                 ELSE IF default THEN sess[s].items[1].start
                                 ELSE rows[r].trigger)
         commits == ~TriggerTypeError(s) /\ TableChecks(row)
     IN /\ commits => ~Blocked(s)
        /\ rows' = IF commits THEN [rows EXCEPT ![r] = row] ELSE rows
        /\ unchecked' = IF commits /\ sess[s].idx = 2 THEN unchecked \ {r} ELSE unchecked
  /\ sess' = [sess EXCEPT ![s] = Idle]
  /\ UNCHANGED <<nextId, now>>

\* A refused edit: the API maps the error to an HTTPException, and get_session
\* commits on HTTPException, so the dirty window goes to the table.
CommitRefusedEdit(s) ==
  /\ sess[s].pc = "refused"
  /\ LET r       == sess[s].id
         row     == EditedRow(s, rows[r].trigger)
         commits == TableChecks(row)
     IN /\ commits => ~Blocked(s)
        /\ rows' = IF commits THEN [rows EXCEPT ![r] = row] ELSE rows
        /\ unchecked' = IF commits THEN unchecked \cup {r} ELSE unchecked
  /\ sess' = [sess EXCEPT ![s] = Idle]
  /\ UNCHANGED <<nextId, now>>

\* Slip: neither a deadlock detector nor a lock wait timeout.
WaitsForEver(s) == FALSE /\ UNCHANGED vars

\* A transaction that waits for a lock may be the deadlock victim or run into
\* the lock wait timeout: an OperationalError, rolled back by get_session.
LockAbort(s) ==
  /\ Blocked(s)
  /\ sess' = [sess EXCEPT ![s] = Idle]
  /\ UNCHANGED <<rows, nextId, now, unchecked>>

-----------------------------------------------------------------------------
(* Cancellations, the scheduler and the clock.                             *)

\* Slip: a status outside ck_res_status.
MisspeltCancel(R) ==
  /\ R # {}
  /\ \A r \in R : Live(r) /\ Unlocked(r)
  /\ rows' = [r \in Id |-> IF r \in R THEN [rows[r] EXCEPT !.status = "canceled"] ELSE rows[r]]
  /\ UNCHANGED <<nextId, now, sess, unchecked>>

\* cancel_reservation, and cancel_group for the live rows of one group.  (The
\* script guards of the cancel routes are the subject of ScriptDispatch.)
CancelRows(R) ==
  /\ R # {}
  /\ \A r \in R : Live(r) /\ Unlocked(r)
  /\ rows' = [r \in Id |-> IF r \in R THEN [rows[r] EXCEPT !.status = "cancelled"] ELSE rows[r]]
  /\ UNCHANGED <<nextId, now, sess, unchecked>>

Cancel(r)      == CancelRows({r})
CancelGroup(g) == CancelRows({r \in Id : Live(r) /\ rows[r].group = g})

\* The status changes of one scheduler tick, in order: promote what has
\* started, close what has ended (also what was promoted just now), fail what
\* the dispatch watchdog gives up.  The script outcomes that select completed
\* or failed, and the give-ups, are inputs here.
Promoted(r) == rows[r].status = "scheduled" /\ rows[r].start <= now
Closed(r)   == Live(r) /\ rows[r].end <= now /\ (rows[r].status = "active" \/ Promoted(r))

Tick(failing) ==
  LET due == {r \in Id : Promoted(r) \/ Closed(r)} \cup failing
  IN /\ due # {}
     /\ \A r \in failing : rows[r].status = "active"
     /\ \A r \in due : Unlocked(r)
     /\ rows' = [r \in Id |->
          IF r \notin due THEN rows[r]
          ELSE [rows[r] EXCEPT !.status = IF r \in failing THEN "failed"
                                          ELSE IF Closed(r) THEN "completed" ELSE "active"]]
     /\ UNCHANGED <<nextId, now, sess, unchecked>>

AdvanceClock == /\ now < MaxTime
                /\ now' = now + 1
                /\ UNCHANGED <<rows, nextId, sess, unchecked>>

-----------------------------------------------------------------------------
Init == /\ rows = [r \in Id |-> NoRow]
        /\ nextId = 1
        /\ now = 0
        /\ sess = [s \in Session |-> Idle]
        /\ unchecked = {}

SessionStep(s) == CheckWindow(s) \/ InsertRows(s) \/ ApplyEdit(s) \/ CommitRefusedEdit(s)

Next == \/ \E s \in Session : \/ \E req \in CreateRequests : Create(s, req)
                              \/ \E r \in Id, e \in EditRequests : Modify(s, r, e)
                              \/ SessionStep(s)
                              \/ LockAbort(s)
        \/ \E r \in Id : Cancel(r)
        \/ \E r \in Id : CancelGroup(r)
        \/ \E failing \in SUBSET Id : Tick(failing)
        \/ AdvanceClock

Spec == Init /\ [][Next]_vars

\* A request in flight keeps running: each of its statements returns, or its
\* lock wait ends in the deadlock detector or the lock wait timeout.
Fairness == \A s \in Session : WF_vars(SessionStep(s) \/ LockAbort(s))
FairSpec == Spec /\ Fairness

-----------------------------------------------------------------------------
(* Properties.                                                             *)

\* Every column keeps its type and its check constraint (ck_res_status,
\* ck_res_compute_pct), every transaction its shape.
TypeOK == /\ rows \in [Id -> Row]
          /\ nextId \in Nat \ {0}
          /\ now \in Nat
          /\ sess \in [Session -> Request]
          /\ unchecked \subseteq Id

\* Two rows that hold the same GPU at the same time for different requests.
Contend(a, b) == /\ a # b /\ Live(a) /\ Live(b)
                 /\ SameGpu(rows[a], rows[b]) /\ Overlap(rows[a], rows[b])

\* Whatever the interleaving of creations, edits, cancellations and ticks, a
\* reservation that asked for the whole card never shares it with a
\* reservation of another request (the FOR UPDATE scan of
\* _window_active_reservations "closes the double-booking race").  Rows left
\* behind by a refused edit are outside: nobody has checked their window.
CrossRequestExclusive ==
  \A a, b \in Id \ unchecked :
    Contend(a, b) /\ rows[a].group # rows[b].group
      => ~Exclusive(rows[a]) /\ ~Exclusive(rows[b])

\* Sets of at least two checked rows of pairwise different requests that hold
\* one GPU at the same instant.
Stacks == {S \in SUBSET {r \in Id \ unchecked : Live(r) /\ rows[r].gpu # NoGpu} :
             /\ Cardinality(S) >= 2
             /\ \A a, b \in S : a # b => Contend(a, b) /\ rows[a].group # rows[b].group}

\* The shared reservations that requests were granted one by one never add up
\* to more memory or compute than the card has, although each request summed
\* only what it saw in its own transaction.
CrossRequestCapacity ==
  \A S \in Stacks : \A r \in S :
    /\ MemTotal[rows[r].gpu] # 0
         => MapThenSumSet(LAMBDA q : rows[q].mem, S) <= MemTotal[rows[r].gpu]
    /\ MapThenSumSet(LAMBDA q : rows[q].pct, S) <= 100

\* A step that moves the window of a row finds it scheduled and leaves it so.
WindowMovesWhileScheduled ==
  \A r \in Id : Exists(r) /\ (rows'[r].start # rows[r].start \/ rows'[r].end # rows[r].end)
    => rows[r].status = "scheduled" /\ rows'[r].status = "scheduled"

\* An edit never moves the window of a reservation that has begun: the row
\* lock of modify_reservation keeps the tick out between the status guard and
\* the commit.
ActiveWindowFrozen == [][WindowMovesWhileScheduled]_vars

\* Every request gets an answer: no set of transactions waits for locks for
\* ever.
RequestsSettle == \A s \in Session : sess[s].pc # "idle" ~> sess[s].pc = "idle"
=============================================================================
