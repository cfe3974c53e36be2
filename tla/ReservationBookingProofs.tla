---------------------- MODULE ReservationBookingProofs ----------------------
(***************************************************************************)
(* Proofs about ReservationBooking, for every set of GPUs, requests and    *)
(* sessions and every bound.  The first result is CrossRequestExclusive;   *)
(* the inductive invariant behind it says what the locks buy: the items a  *)
(* transaction has already checked stay free of conflicts until it writes, *)
(* because every index entry that could end that is blocked.  The second   *)
(* is CrossRequestCapacity, the same argument about sums: a checked item   *)
(* keeps fitting beside every part of its window.                          *)
(***************************************************************************)
EXTENDS ReservationBooking, FiniteSetTheorems, WellFoundedInduction, TLAPS

\* Keys are handed out in order: a key from nextId on has no row.
FreshKeys == \A r \in Id : Exists(r) => r < nextId

\* What a transaction in flight knows about itself.
CreateShape(s) ==
  sess[s].pc # "idle" /\ sess[s].id = 0 =>
    /\ sess[s].pc \in {"check", "write"}
    /\ sess[s].pc = "check" => sess[s].idx \in 1 .. Len(sess[s].items)
    /\ sess[s].pc = "write" => sess[s].idx = Len(sess[s].items) + 1

\* What an edit in flight knows about the row it has locked: the row is still
\* scheduled, and still has the columns and the window the edit started from.
EditShape(s) ==
  sess[s].id # 0 =>
    /\ sess[s].pc # "idle"
    /\ sess[s].id \in Id
    /\ Len(sess[s].items) = 1
    /\ rows[sess[s].id].status = "scheduled"
    /\ sess[s].items[1].gpu = rows[sess[s].id].gpu
    /\ sess[s].items[1].mem = rows[sess[s].id].mem
    /\ sess[s].moved = {} => /\ sess[s].pc = "write" /\ sess[s].idx = 1
                             /\ sess[s].items[1].start = rows[sess[s].id].start
                             /\ sess[s].items[1].end = rows[sess[s].id].end
    /\ sess[s].pc = "check" => sess[s].idx = 1 /\ sess[s].items[1].gpu # NoGpu
    /\ sess[s].pc = "write" /\ sess[s].moved # {} /\ sess[s].items[1].gpu # NoGpu
         => sess[s].idx = 2
    /\ sess[s].pc = "write" /\ (sess[s].moved = {} \/ sess[s].items[1].gpu = NoGpu)
         => sess[s].idx = 1

\* No two edits hold the same row.
RowLocks == \A s, t \in Session : s # t /\ sess[s].id # 0 => sess[s].id # sess[t].id

\* An item that shares its card with nobody it must not share it with.
Clear(item, own) ==
  \A r \in Id : r # own /\ Live(r) /\ SameGpu(rows[r], item) /\ Overlap(rows[r], item)
    => ~Exclusive(rows[r]) /\ ~Exclusive(item)

\* The items a transaction has checked are clear, and stay so until it ends.
CheckedClear(s) ==
  sess[s].pc \in {"check", "write"} =>
    \A j \in 1 .. sess[s].idx - 1 :
      j <= Len(sess[s].items) /\ sess[s].items[j].gpu # NoGpu
        => Clear(sess[s].items[j], sess[s].id)

BookingInv == /\ TypeOK
              /\ FreshKeys
              /\ \A s \in Session : CreateShape(s) /\ EditShape(s) /\ CheckedClear(s)
              /\ RowLocks
              /\ CrossRequestExclusive

-----------------------------------------------------------------------------
(* Facts used by several actions.                                          *)

\* What Scanned contains, as the locks use it.
LEMMA ScannedItem ==
  ASSUME NEW t \in Session, NEW j \in 1 .. sess[t].idx - 1,
         j <= Len(sess[t].items), sess[t].items[j].gpu # NoGpu
  PROVE  sess[t].items[j] \in Scanned(t)
BY DEF Scanned

\* A transaction that does not move keeps its checked items clear when every
\* live row is an old live row in its old place, or was written where the
\* transaction holds no lock.
LEMMA ClearIsStable ==
  ASSUME TypeOK, NEW t \in Session, CheckedClear(t), sess'[t] = sess[t],
         \A r \in Id : Live(r)' =>
            \/ /\ Live(r)
               /\ rows'[r].gpu = rows[r].gpu /\ rows'[r].mem = rows[r].mem
               /\ rows'[r].start = rows[r].start /\ rows'[r].end = rows[r].end
            \/ \A l \in Scanned(t) : ~Covers(l, rows'[r].gpu, rows'[r].start)
  PROVE  CheckedClear(t)'
<1> SUFFICES ASSUME sess[t].pc \in {"check", "write"},
                    NEW j \in 1 .. sess[t].idx - 1,
                    j <= Len(sess[t].items), sess[t].items[j].gpu # NoGpu,
                    NEW r \in Id, r # sess[t].id, Live(r)',
                    SameGpu(rows'[r], sess[t].items[j]), Overlap(rows'[r], sess[t].items[j])
             PROVE  ~Exclusive(rows'[r]) /\ ~Exclusive(sess[t].items[j])
  BY DEF CheckedClear, Clear
<1>1. sess[t].items[j] \in Scanned(t)
  BY ScannedItem
<1>2. CASE Live(r) /\ rows'[r].gpu = rows[r].gpu /\ rows'[r].mem = rows[r].mem
           /\ rows'[r].start = rows[r].start /\ rows'[r].end = rows[r].end
  BY <1>2 DEF CheckedClear, Clear, SameGpu, Overlap, Exclusive
<1>3. CASE \A l \in Scanned(t) : ~Covers(l, rows'[r].gpu, rows'[r].start)
  BY <1>1, <1>3 DEF Covers, SameGpu, Overlap
<1> QED BY <1>2, <1>3

\* The invariant of the initial state.
LEMMA BookingInit == Init => BookingInv
<1> SUFFICES ASSUME Init PROVE BookingInv
  OBVIOUS
<1>1. TypeOK
  <2>1. NoRow \in Row
    BY DEF NoRow, Row, Time, NoTime
  <2>2. Idle \in Request
    BY DEF Idle, Request, Time, NoTime
  <2> QED BY <2>1, <2>2 DEF Init, TypeOK
<1>2. FreshKeys
  BY DEF Init, FreshKeys, Exists, NoRow
<1>3. ASSUME NEW s \in Session PROVE CreateShape(s) /\ EditShape(s) /\ CheckedClear(s)
  BY DEF Init, CreateShape, EditShape, CheckedClear, Idle
<1>4. RowLocks
  BY DEF Init, RowLocks, Idle
<1>5. CrossRequestExclusive
  BY DEF Init, CrossRequestExclusive, Contend, Live, NoRow, ACTIVE_STATUSES
<1> QED BY <1>1, <1>2, <1>3, <1>4, <1>5 DEF BookingInv

\* A step that only changes the status of rows nobody has locked, and makes
\* no row live that was not: the cancellations and the tick.
LEMMA StatusStep ==
  ASSUME BookingInv, UNCHANGED <<nextId, now, sess, unchecked>>, rows' \in [Id -> Row],
         \A r \in Id : rows'[r] # rows[r] =>
            /\ Unlocked(r) /\ Live(r)
            /\ rows'[r].status # "unused"
            /\ rows'[r].gpu = rows[r].gpu /\ rows'[r].mem = rows[r].mem
            /\ rows'[r].start = rows[r].start /\ rows'[r].end = rows[r].end
            /\ rows'[r].group = rows[r].group
  PROVE  BookingInv'
<1>1. TypeOK'
  BY DEF BookingInv, TypeOK
<1>2. FreshKeys'
  BY DEF BookingInv, FreshKeys, Exists, Live, ACTIVE_STATUSES
<1>3. ASSUME NEW s \in Session PROVE (CreateShape(s) /\ EditShape(s) /\ CheckedClear(s))'
  <2>1. CreateShape(s)'
    BY DEF BookingInv, CreateShape
  <2>2. EditShape(s)'
    <3>1. sess[s].id # 0 => rows'[sess[s].id] = rows[sess[s].id]
      BY DEF BookingInv, EditShape, Unlocked, Locks
    <3> QED BY <3>1 DEF BookingInv, EditShape
  <2>3. CheckedClear(s)'
    <3>1. \A r \in Id : Live(r)' =>
            /\ Live(r)
            /\ rows'[r].gpu = rows[r].gpu /\ rows'[r].mem = rows[r].mem
            /\ rows'[r].start = rows[r].start /\ rows'[r].end = rows[r].end
      BY DEF Live
    <3> QED BY <3>1, ClearIsStable DEF BookingInv
  <2> QED BY <2>1, <2>2, <2>3
<1>4. RowLocks'
  BY DEF BookingInv, RowLocks
<1>5. CrossRequestExclusive'
  <2>1. \A r \in Id : Live(r)' =>
            /\ Live(r)
            /\ rows'[r].gpu = rows[r].gpu /\ rows'[r].mem = rows[r].mem
            /\ rows'[r].start = rows[r].start /\ rows'[r].end = rows[r].end
            /\ rows'[r].group = rows[r].group
    BY DEF Live
  <2> QED BY <2>1 DEF BookingInv, CrossRequestExclusive, Contend, SameGpu, Overlap, Exclusive
<1> QED BY <1>1, <1>2, <1>3, <1>4, <1>5 DEF BookingInv

\* A cancellation only takes rows out of the live set.
LEMMA CancelPreserves ==
  ASSUME BookingInv, NEW R \in SUBSET Id, CancelRows(R)
  PROVE  BookingInv'
<1>1. rows' \in [Id -> Row]
  BY DEF CancelRows, BookingInv, TypeOK, Row, TERMINAL_STATUSES
<1>2. \A r \in Id : rows'[r] # rows[r] =>
            /\ Unlocked(r) /\ Live(r)
            /\ rows'[r].status # "unused"
            /\ rows'[r].gpu = rows[r].gpu /\ rows'[r].mem = rows[r].mem
            /\ rows'[r].start = rows[r].start /\ rows'[r].end = rows[r].end
            /\ rows'[r].group = rows[r].group
  BY DEF CancelRows, BookingInv, TypeOK, Row
<1> QED BY <1>1, <1>2, StatusStep DEF CancelRows

\* The tick changes statuses, and never makes a dead row live.
LEMMA TickPreserves ==
  ASSUME BookingInv, NEW failing \in SUBSET Id, Tick(failing)
  PROVE  BookingInv'
<1>1. rows' \in [Id -> Row]
  BY DEF Tick, BookingInv, TypeOK, Row, ACTIVE_STATUSES, TERMINAL_STATUSES
<1>2. \A r \in Id : rows'[r] # rows[r] =>
            /\ Unlocked(r) /\ Live(r)
            /\ rows'[r].status # "unused"
            /\ rows'[r].gpu = rows[r].gpu /\ rows'[r].mem = rows[r].mem
            /\ rows'[r].start = rows[r].start /\ rows'[r].end = rows[r].end
            /\ rows'[r].group = rows[r].group
  BY DEF Tick, BookingInv, TypeOK, Row, Promoted, Closed, Live, ACTIVE_STATUSES
<1> QED BY <1>1, <1>2, StatusStep DEF Tick

\* A step of one transaction that writes nothing to the table.
LEMMA SessionOnly ==
  ASSUME BookingInv, NEW s \in Session, NEW q \in Request,
         sess' = [sess EXCEPT ![s] = q], UNCHANGED <<rows, nextId, now, unchecked>>,
         q.id = 0 \/ \A t \in Session \ {s} : sess[t].id # q.id,
         CreateShape(s)', EditShape(s)', CheckedClear(s)'
  PROVE  BookingInv'
<1>0. sess'[s] = q /\ \A t \in Session : t # s => sess'[t] = sess[t]
  BY DEF BookingInv, TypeOK
<1>1. TypeOK'
  BY DEF BookingInv, TypeOK
<1>2. FreshKeys'
  BY DEF BookingInv, FreshKeys, Exists
<1>3. ASSUME NEW t \in Session, t # s PROVE (CreateShape(t) /\ EditShape(t) /\ CheckedClear(t))'
  <2>1. CreateShape(t)' /\ EditShape(t)'
    BY <1>0, <1>3 DEF BookingInv, CreateShape, EditShape
  <2>2. CheckedClear(t)'
    BY <1>0, <1>3, ClearIsStable DEF BookingInv, Live
  <2> QED BY <2>1, <2>2
<1>4. RowLocks'
  BY <1>0 DEF BookingInv, RowLocks
<1>5. CrossRequestExclusive'
  BY DEF BookingInv, CrossRequestExclusive, Contend, Live
<1> QED BY <1>1, <1>2, <1>3, <1>4, <1>5 DEF BookingInv

\* A transaction that ends without writing: the refused creation, the abort.
LEMMA EndQuietly ==
  ASSUME BookingInv, NEW s \in Session, sess' = [sess EXCEPT ![s] = Idle],
         UNCHANGED <<rows, nextId, now, unchecked>>
  PROVE  BookingInv'
<1>1. Idle \in Request /\ Idle.id = 0 /\ Idle.pc = "idle"
  BY DEF Idle, Request, Time, NoTime
<1>2. sess'[s] = Idle
  BY DEF BookingInv, TypeOK
<1>3. (CreateShape(s) /\ EditShape(s) /\ CheckedClear(s))'
  BY <1>1, <1>2 DEF CreateShape, EditShape, CheckedClear
<1> QED BY <1>1, <1>3, SessionOnly

\* A creation starts with nothing scanned.
LEMMA CreatePreserves ==
  ASSUME BookingInv, NEW s \in Session, NEW req \in CreateRequests, Create(s, req)
  PROVE  BookingInv'
<1> DEFINE q == Begin("check", 0, req.items, {}, req, req.share)
<1>1. /\ req.items \in Seq(Item) /\ req.items # <<>>
      /\ req.script \in BOOLEAN /\ req.trigger \in Time /\ req.share \in BOOLEAN
  BY RequestAssumption DEF CreateRequest, Create, AcceptableBatch
<1>2. /\ q \in Request /\ q.id = 0 /\ q.pc = "check" /\ q.idx = 1
      /\ q.items = req.items /\ Len(q.items) \in Nat \ {0}
  BY <1>1 DEF Begin, Request
<1>3. sess' = [sess EXCEPT ![s] = q] /\ sess'[s] = q
  BY DEF Create, BookingInv, TypeOK
<1> HIDE DEF q
<1>4. (CreateShape(s) /\ EditShape(s) /\ CheckedClear(s))'
  BY <1>2, <1>3 DEF CreateShape, EditShape, CheckedClear
<1> QED BY <1>2, <1>3, <1>4, SessionOnly DEF Create

\* An edit starts with its row locked and nothing scanned.
LEMMA ModifyPreserves ==
  ASSUME BookingInv, NEW s \in Session, NEW r \in Id, NEW e \in EditRequests, Modify(s, r, e)
  PROVE  BookingInv'
<1> DEFINE moved == {f \in {"start", "end"} : e[f] # NoTime}
           draft == [gpu |-> rows[r].gpu, mem |-> rows[r].mem, pct |-> rows[r].pct,
                     start |-> IF e.start # NoTime THEN e.start ELSE rows[r].start,
                     end   |-> IF e.end # NoTime THEN e.end ELSE rows[r].end]
           pc    == IF moved # {} /\ ~ValidTime(draft) THEN "refused"
                    ELSE IF moved # {} /\ rows[r].gpu # NoGpu THEN "check" ELSE "write"
           q     == Begin(pc, r, <<draft>>, moved, e, FALSE)
<1>1. /\ e.start \in Time /\ e.end \in Time /\ e.trigger \in Time /\ e.script \in BOOLEAN
      /\ rows[r] \in Row
  BY RequestAssumption DEF EditRequest, BookingInv, TypeOK
<1>2. draft \in Item
  BY <1>1 DEF Item, Row, Time
<1>3. moved \in SUBSET {"start", "end"}
  OBVIOUS
<1>4. moved = {} => draft.start = rows[r].start /\ draft.end = rows[r].end
  OBVIOUS
<1>5. draft.gpu = rows[r].gpu /\ draft.mem = rows[r].mem
  OBVIOUS
<1>6. /\ pc \in {"refused", "check", "write"} /\ (moved = {} => pc = "write")
      /\ (pc = "check" => moved # {} /\ rows[r].gpu # NoGpu)
      /\ (pc = "write" => moved = {} \/ rows[r].gpu = NoGpu)
  OBVIOUS
<1>7. sess' = [sess EXCEPT ![s] = q] /\ sess'[s] = q
  BY DEF Modify, BookingInv, TypeOK
<1>8. rows[r].status = "scheduled" /\ \A t \in Session \ {s} : sess[t].id # r
  BY DEF Modify, LockedByOther, Locks
<1> HIDE DEF moved, draft, pc
<1>9. /\ q \in Request /\ q.id = r /\ q.pc = pc /\ q.idx = 1 /\ q.moved = moved
      /\ q.items = <<draft>> /\ Len(q.items) = 1 /\ q.items[1] = draft
  <2>1. <<draft>> \in Seq(Item) /\ Len(<<draft>>) = 1 /\ <<draft>>[1] = draft
    BY <1>2
  <2> QED BY <1>1, <1>3, <1>6, <2>1 DEF Begin, Request, Id
<1> HIDE DEF q
<1>10. UNCHANGED <<rows, nextId, now, unchecked>> /\ r # 0
  BY DEF Modify, Id
<1>11. CreateShape(s)' /\ CheckedClear(s)'
  BY <1>7, <1>9, <1>10 DEF CreateShape, CheckedClear
<1>12. EditShape(s)'
  BY <1>4, <1>5, <1>6, <1>7, <1>8, <1>9, <1>10 DEF EditShape
<1> QED BY <1>7, <1>8, <1>9, <1>10, <1>11, <1>12, SessionOnly

\* The fields of a transaction after one more window was scanned.
LEMMA AdvanceFields ==
  ASSUME NEW q \in Request, NEW pc \in {"refused", "write", "check"}
  PROVE  /\ Advance(q, pc) \in Request
         /\ Advance(q, pc).pc = pc /\ Advance(q, pc).idx = q.idx + 1
         /\ Advance(q, pc).id = q.id /\ Advance(q, pc).items = q.items
         /\ Advance(q, pc).moved = q.moved
<1> DEFINE p == [q EXCEPT !.pc = pc]
<1>1. /\ p \in Request /\ p.pc = pc /\ p.idx = q.idx /\ p.id = q.id /\ p.items = q.items
      /\ p.moved = q.moved
  BY DEF Request
<1>2. Advance(q, pc) = [p EXCEPT !.idx = q.idx + 1] /\ q.idx + 1 \in Nat
  BY DEF Advance, Request
<1> HIDE DEF p
<1> QED BY <1>1, <1>2 DEF Request

\* A scan leaves the transaction with a window it has checked and locked.
LEMMA CheckWindowPreserves ==
  ASSUME BookingInv, NEW s \in Session, CheckWindow(s)
  PROVE  BookingInv'
<1> DEFINE item     == sess[s].items[sess[s].idx]
           W        == InWindow(item) \ {sess[s].id}
           conflict == item.gpu # NoGpu /\ Conflict(item, W)
           last     == sess[s].idx = Len(sess[s].items)
           pc       == IF conflict THEN "refused" ELSE IF last THEN "write" ELSE "check"
           q        == Advance(sess[s], pc)
<1>1. /\ sess[s] \in Request /\ sess[s].pc = "check"
      /\ sess[s].idx \in 1 .. Len(sess[s].items) /\ Len(sess[s].items) \in Nat
      /\ UNCHANGED <<rows, nextId, now, unchecked>>
  BY DEF CheckWindow, BookingInv, TypeOK, CreateShape, EditShape, Request
<1>2. \A t \in Session \ {s} : sess[s].id = 0 \/ sess[t].id # sess[s].id
  BY DEF BookingInv, RowLocks
<1>3. CASE conflict /\ sess[s].id = 0
  BY <1>1, <1>3, EndQuietly DEF CheckWindow
<1>4. CASE ~(conflict /\ sess[s].id = 0)
  <2>1. sess' = [sess EXCEPT ![s] = q] /\ sess'[s] = q
    BY <1>4 DEF CheckWindow, BookingInv, TypeOK
  <2>2. pc \in {"refused", "write", "check"}
    OBVIOUS
  <2>3. item.gpu # NoGpu /\ pc # "refused" => Clear(item, sess[s].id)
    BY DEF Clear, Conflict, MixConflict, InWindow
  <2>4. /\ pc = "refused" => sess[s].id # 0
        /\ pc = "write" => sess[s].idx = Len(sess[s].items)
        /\ pc = "check" => sess[s].idx # Len(sess[s].items)
    BY <1>4
  <2> HIDE DEF pc
  <2>5. /\ q \in Request /\ q.pc = pc /\ q.id = sess[s].id /\ q.items = sess[s].items
        /\ q.moved = sess[s].moved /\ q.idx = sess[s].idx + 1
    BY <1>1, <2>2, AdvanceFields
  <2> HIDE DEF q
  <2>6. CreateShape(s)'
    BY <1>1, <2>1, <2>2, <2>4, <2>5 DEF CreateShape
  <2>7. EditShape(s)'
    <3>1. EditShape(s)
      BY DEF BookingInv
    <3>2. sess[s].id # 0 => Len(sess[s].items) = 1 /\ sess[s].idx = 1 /\ sess[s].moved # {}
      BY <1>1, <3>1 DEF EditShape
    <3>3. sess[s].id # 0 => pc # "check"
      BY <2>4, <3>2
    <3>4. q.id # 0 => q.idx = 2 /\ q.pc # "idle" /\ q.pc # "check" /\ q.moved # {}
      BY <2>2, <2>5, <3>2, <3>3
    <3> QED BY <1>1, <2>1, <2>5, <3>1, <3>2, <3>4 DEF EditShape
  <2>8. CheckedClear(s)'
    <3>1. ASSUME pc # "refused", NEW j \in 1 .. sess[s].idx, sess[s].items[j].gpu # NoGpu
          PROVE  Clear(sess[s].items[j], sess[s].id)
      <4>1. CASE j = sess[s].idx
        BY <2>3, <3>1, <4>1
      <4>2. CASE j < sess[s].idx
        BY <1>1, <3>1, <4>2 DEF BookingInv, CheckedClear, Request
      <4> QED BY <1>1, <4>1, <4>2 DEF Request
    <3>2. q.idx - 1 = sess[s].idx
      BY <1>1, <2>5 DEF Request
    <3>3. pc # "refused" =>
            \A j \in 1 .. q.idx - 1 : q.items[j].gpu # NoGpu => Clear(q.items[j], q.id)
      BY <2>5, <3>1, <3>2
    <3> QED BY <1>1, <2>1, <2>5, <3>3 DEF CheckedClear, Clear, Live
  <2> QED BY <1>1, <1>2, <2>1, <2>5, <2>6, <2>7, <2>8, SessionOnly
<1> QED BY <1>3, <1>4

\* A transaction that ends: the others keep what they know, and it itself
\* claims nothing any more.
LEMMA SessionEnds ==
  ASSUME BookingInv, NEW s \in Session, sess' = [sess EXCEPT ![s] = Idle],
         rows' \in [Id -> Row], nextId' \in Nat \ {0}, now' = now, unchecked' \subseteq Id,
         FreshKeys', CrossRequestExclusive',
         \A t \in Session \ {s} : EditShape(t)' /\ CheckedClear(t)'
  PROVE  BookingInv'
<1>1. Idle \in Request /\ Idle.id = 0 /\ Idle.pc = "idle"
  BY DEF Idle, Request, Time, NoTime
<1>2. sess'[s] = Idle /\ \A t \in Session : t # s => sess'[t] = sess[t]
  BY DEF BookingInv, TypeOK
<1>3. TypeOK'
  BY <1>1 DEF BookingInv, TypeOK
<1>4. (CreateShape(s) /\ EditShape(s) /\ CheckedClear(s))'
  BY <1>1, <1>2 DEF CreateShape, EditShape, CheckedClear
<1>5. ASSUME NEW t \in Session, t # s PROVE CreateShape(t)'
  BY <1>2, <1>5 DEF BookingInv, CreateShape
<1>6. RowLocks'
  BY <1>1, <1>2 DEF BookingInv, RowLocks
<1> QED BY <1>3, <1>4, <1>5, <1>6 DEF BookingInv

\* The rows a creation inserts do not collide with the checked ones.
LEMMA InsertRowsPreserves ==
  ASSUME BookingInv, NEW s \in Session, InsertRows(s)
  PROVE  BookingInv'
<1> DEFINE n == Len(sess[s].items)
           new == nextId .. nextId + n - 1
<1>1. /\ sess[s] \in Request /\ sess[s].pc = "write" /\ sess[s].id = 0
      /\ sess[s].items \in Seq(Item) /\ n \in Nat /\ sess[s].idx = n + 1
      /\ nextId \in Nat \ {0} /\ nextId' = nextId + n /\ UNCHANGED <<now, unchecked>>
      /\ sess' = [sess EXCEPT ![s] = Idle]
  BY DEF InsertRows, BookingInv, TypeOK, CreateShape, Request
<1>2. ASSUME NEW r \in Id, r \in new
      PROVE  LET j == r - nextId + 1 IN
             /\ j \in 1 .. n /\ sess[s].items[j] \in Item
             /\ rows'[r] \in Row
             /\ rows'[r].gpu = sess[s].items[j].gpu /\ rows'[r].mem = sess[s].items[j].mem
             /\ rows'[r].start = sess[s].items[j].start /\ rows'[r].end = sess[s].items[j].end
             /\ rows'[r].status = "scheduled" /\ rows'[r].group = nextId
  <2> DEFINE j == r - nextId + 1
  <2>1. j \in 1 .. n /\ sess[s].items[j] \in Item
    BY <1>1, <1>2
  <2>2. rows'[r] = NewRow(s, j, nextId)
    BY <1>2 DEF InsertRows
  <2>3. sess[s].trigger \in Time
    BY <1>1 DEF Request
  <2> HIDE DEF j
  <2>4. /\ NewRow(s, j, nextId) \in Row
        /\ NewRow(s, j, nextId).gpu = sess[s].items[j].gpu
        /\ NewRow(s, j, nextId).mem = sess[s].items[j].mem
        /\ NewRow(s, j, nextId).start = sess[s].items[j].start
        /\ NewRow(s, j, nextId).end = sess[s].items[j].end
        /\ NewRow(s, j, nextId).status = "scheduled"
        /\ NewRow(s, j, nextId).group = nextId
    BY <1>1, <2>1, <2>3 DEF NewRow, Row, Item, Time, ACTIVE_STATUSES
  <2> QED BY <2>1, <2>2, <2>4 DEF j
<1>3. ASSUME NEW r \in Id, r \notin new PROVE rows'[r] = rows[r]
  BY <1>3 DEF InsertRows
<1>4. rows' \in [Id -> Row]
  <2>1. rows' = [r \in Id |-> rows'[r]]
    BY DEF InsertRows
  <2>2. \A r \in Id : rows'[r] \in Row
    BY <1>2, <1>3 DEF BookingInv, TypeOK
  <2> QED BY <2>1, <2>2
<1>5. \A r \in Id : Exists(r) => r \notin new
  BY <1>1 DEF BookingInv, FreshKeys
<1>6. FreshKeys'
  BY <1>1, <1>3 DEF BookingInv, FreshKeys, Exists, Id
<1>7. ASSUME NEW t \in Session, t # s PROVE EditShape(t)' /\ CheckedClear(t)'
  <2>0. sess'[t] = sess[t]
    BY <1>1, <1>7 DEF BookingInv, TypeOK
  <2>1. EditShape(t)'
    <3>1. sess[t].id # 0 => rows'[sess[t].id] = rows[sess[t].id]
      BY <1>3, <1>5 DEF BookingInv, EditShape, Exists
    <3> QED BY <2>0, <3>1 DEF BookingInv, EditShape
  <2>2. ASSUME NEW r \in Id, r \in new, NEW l \in Scanned(t)
        PROVE  ~Covers(l, rows'[r].gpu, rows'[r].start)
    <3>1. ~EntryBlocked(s)
      BY <1>1 DEF InsertRows, Blocked
    <3>2. \A i \in DOMAIN sess[s].items :
             ~Covers(l, sess[s].items[i].gpu, sess[s].items[i].start)
      BY <1>1, <1>7, <3>1 DEF EntryBlocked, InsertBlocked
    <3>3. DOMAIN sess[s].items = 1 .. n
      BY <1>1
    <3> QED BY <1>2, <2>2, <3>2, <3>3
  <2>3. CheckedClear(t)'
    <3>1. \A r \in Id : r \notin new /\ Live(r)' => Live(r) /\ rows'[r] = rows[r]
      BY <1>3 DEF Live
    <3> QED BY <2>0, <2>2, <3>1, ClearIsStable DEF BookingInv
  <2> QED BY <2>1, <2>3
<1>8. CrossRequestExclusive'
  <2>1. ASSUME NEW a \in Id, NEW b \in Id, a \in new, b \notin new, Contend(a, b)'
        PROVE  ~Exclusive(rows'[a]) /\ ~Exclusive(rows'[b])
    <3> DEFINE j == a - nextId + 1
    <3>1. /\ j \in 1 .. n
          /\ rows'[a].gpu = sess[s].items[j].gpu /\ rows'[a].mem = sess[s].items[j].mem
          /\ rows'[a].start = sess[s].items[j].start /\ rows'[a].end = sess[s].items[j].end
      BY <1>2, <2>1
    <3>2. rows'[b] = rows[b] /\ b # 0
      BY <1>3, <2>1 DEF Id
    <3> HIDE DEF j
    <3>3. sess[s].items[j].gpu # NoGpu
      BY <2>1, <3>1 DEF Contend, SameGpu
    <3>4. Clear(sess[s].items[j], 0)
      BY <1>1, <3>1, <3>3 DEF BookingInv, CheckedClear
    <3>5. /\ Live(b) /\ SameGpu(rows[b], sess[s].items[j])
          /\ Overlap(rows[b], sess[s].items[j])
      BY <2>1, <3>1, <3>2 DEF Contend, SameGpu, Overlap, Live
    <3> QED BY <3>1, <3>2, <3>4, <3>5 DEF Clear, Exclusive
  <2>2. ASSUME NEW a \in Id, NEW b \in Id PROVE Contend(a, b)' => Contend(b, a)'
    BY DEF Contend, SameGpu, Overlap
  <2>3. ASSUME NEW a \in Id \ unchecked, NEW b \in Id \ unchecked,
               Contend(a, b)', rows'[a].group # rows'[b].group
        PROVE  ~Exclusive(rows'[a]) /\ ~Exclusive(rows'[b])
    <3>1. CASE a \in new /\ b \in new
      BY <1>2, <2>3, <3>1
    <3>2. CASE a \in new /\ b \notin new
      BY <2>1, <2>3, <3>2
    <3>3. CASE a \notin new /\ b \in new
      BY <2>1, <2>2, <2>3, <3>3
    <3>4. CASE a \notin new /\ b \notin new
      <4>1. rows'[a] = rows[a] /\ rows'[b] = rows[b]
        BY <1>3, <3>4
      <4> QED BY <2>3, <4>1 DEF BookingInv, CrossRequestExclusive, Contend, Live
    <3> QED BY <3>1, <3>2, <3>3, <3>4
  <2> QED BY <1>1, <2>3 DEF CrossRequestExclusive
<1>9. nextId' \in Nat \ {0} /\ unchecked' \subseteq Id
  BY <1>1 DEF BookingInv, TypeOK
<1> HIDE DEF new, n
<1> QED BY <1>1, <1>4, <1>6, <1>7, <1>8, <1>9, SessionEnds

\* The columns of the row an edit writes.
LEMMA EditedRowFields ==
  ASSUME BookingInv, NEW s \in Session, sess[s].id # 0, NEW trigger \in Time
  PROVE  LET row == EditedRow(s, trigger)
             old == rows[sess[s].id]
         IN /\ row \in Row
            /\ row.start = sess[s].items[1].start /\ row.end = sess[s].items[1].end
            /\ row.gpu = old.gpu /\ row.mem = old.mem /\ row.status = old.status
            /\ row.pct = old.pct /\ row.group = old.group
<1> DEFINE old == rows[sess[s].id]
           one == [old EXCEPT !.start = sess[s].items[1].start]
           two == [one EXCEPT !.end = sess[s].items[1].end]
<1>1. /\ old \in Row
      /\ sess[s].items[1].start \in Nat /\ sess[s].items[1].end \in Nat
  <2>1. sess[s].id \in Id /\ sess[s].items \in Seq(Item) /\ Len(sess[s].items) = 1
    BY DEF BookingInv, EditShape, TypeOK, Request
  <2>2. sess[s].items[1] \in Item
    BY <2>1
  <2> QED BY <2>1, <2>2 DEF BookingInv, TypeOK, Item
<1>2. /\ one \in Row /\ one.start = sess[s].items[1].start /\ one.gpu = old.gpu
      /\ one.mem = old.mem /\ one.pct = old.pct /\ one.status = old.status /\ one.group = old.group
  BY <1>1 DEF Row
<1> HIDE DEF one
<1>3. /\ two \in Row /\ two.start = sess[s].items[1].start
      /\ two.end = sess[s].items[1].end /\ two.gpu = old.gpu
      /\ two.mem = old.mem /\ two.pct = old.pct /\ two.status = old.status /\ two.group = old.group
  BY <1>1, <1>2 DEF Row
<1>4. EditedRow(s, trigger) = [two EXCEPT !.trigger = trigger]
  BY DEF EditedRow, one
<1> HIDE DEF two
<1> QED BY <1>1, <1>3, <1>4 DEF Row

\* The commit of an edited row: accepted with its window checked, accepted
\* with its window untouched, or refused and noted in unchecked.
LEMMA EditedRowWritten ==
  ASSUME BookingInv, NEW s \in Session, sess[s].id # 0, sess[s].pc \in {"write", "refused"},
         NEW trigger \in Time, ~EntryBlocked(s), UNCHANGED <<nextId, now>>,
         rows' = [rows EXCEPT ![sess[s].id] = EditedRow(s, trigger)],
         sess' = [sess EXCEPT ![s] = Idle],
         unchecked' \subseteq Id,
         \A a \in Id : a # sess[s].id => (a \in unchecked' <=> a \in unchecked),
         sess[s].pc = "refused" => sess[s].id \in unchecked',
         sess[s].moved = {} => unchecked' = unchecked
  PROVE  BookingInv'
<1> DEFINE item == sess[s].items[1]
<1>0. PICK r \in Id : r = sess[s].id
  BY DEF BookingInv, EditShape
<1>1. /\ r \in Id /\ rows[r].status = "scheduled" /\ Len(sess[s].items) = 1
      /\ item.gpu = rows[r].gpu /\ item.mem = rows[r].mem
      /\ sess[s].idx \in Nat
      /\ sess[s].moved = {} => item.start = rows[r].start /\ item.end = rows[r].end
      /\ sess[s].pc = "write" /\ sess[s].moved # {} /\ item.gpu # NoGpu => sess[s].idx = 2
  BY <1>0 DEF BookingInv, EditShape, TypeOK, Request
<1>2. /\ rows'[r] \in Row
      /\ rows'[r].start = item.start /\ rows'[r].end = item.end
      /\ rows'[r].gpu = rows[r].gpu /\ rows'[r].mem = rows[r].mem
      /\ rows'[r].status = rows[r].status /\ rows'[r].group = rows[r].group
  BY <1>0, <1>1, EditedRowFields DEF BookingInv, TypeOK
<1>3. \A a \in Id : a # r => rows'[a] = rows[a]
  BY <1>0 DEF BookingInv, TypeOK
<1>4. rows' \in [Id -> Row]
  BY <1>0, <1>1, EditedRowFields DEF BookingInv, TypeOK
<1> HIDE DEF item
<1>5. FreshKeys'
  BY <1>1, <1>2, <1>3 DEF BookingInv, FreshKeys, Exists
<1>6. ASSUME NEW t \in Session, t # s PROVE EditShape(t)' /\ CheckedClear(t)'
  <2>0. sess'[t] = sess[t]
    BY <1>6 DEF BookingInv, TypeOK
  <2>1. sess[t].id # r
    BY <1>0, <1>6 DEF BookingInv, RowLocks
  <2>2. EditShape(t)'
    <3>1. sess[t].id # 0 => rows'[sess[t].id] = rows[sess[t].id]
      BY <1>3, <2>1 DEF BookingInv, EditShape
    <3> QED BY <2>0, <3>1 DEF BookingInv, EditShape
  <2>3. CheckedClear(t)'
    <3>1. \A a \in Id : a # r /\ Live(a)' => Live(a) /\ rows'[a] = rows[a]
      BY <1>3 DEF Live
    <3>2. CASE sess[s].moved = {}
      <4>1. \A a \in Id : Live(a)' =>
              /\ Live(a)
              /\ rows'[a].gpu = rows[a].gpu /\ rows'[a].mem = rows[a].mem
              /\ rows'[a].start = rows[a].start /\ rows'[a].end = rows[a].end
        BY <1>1, <1>2, <3>1, <3>2 DEF Live
      <4> QED BY <2>0, <4>1, ClearIsStable DEF BookingInv
    <3>3. CASE sess[s].moved # {}
      <4>1. \A l \in Scanned(t) : ~Covers(l, rows'[r].gpu, rows'[r].start)
        BY <1>0, <1>1, <1>2, <1>6, <3>3 DEF EntryBlocked, InsertBlocked, item
      <4> QED BY <2>0, <3>1, <4>1, ClearIsStable DEF BookingInv
    <3> QED BY <3>2, <3>3
  <2> QED BY <2>2, <2>3
<1>7. CrossRequestExclusive'
  <2>1. ASSUME NEW b \in Id \ unchecked', b # r, r \notin unchecked',
               Contend(r, b)', rows'[r].group # rows'[b].group
        PROVE  ~Exclusive(rows'[r]) /\ ~Exclusive(rows'[b])
    <3>1. rows'[b] = rows[b] /\ b \notin unchecked
      BY <1>0, <1>3, <2>1
    <3>2. CASE sess[s].moved = {}
      <4>1. Contend(r, b)
        BY <1>1, <1>2, <2>1, <3>1, <3>2 DEF Contend, Live, SameGpu, Overlap
      <4>2. r \notin unchecked
        BY <2>1, <3>2
      <4> QED BY <1>1, <1>2, <2>1, <3>1, <4>1, <4>2
                 DEF BookingInv, CrossRequestExclusive, Exclusive
    <3>3. CASE sess[s].moved # {}
      <4>1. sess[s].pc = "write" /\ item.gpu # NoGpu
        BY <1>0, <1>1, <1>2, <2>1 DEF Contend, SameGpu
      <4>2. Clear(item, r)
        BY <1>0, <1>1, <3>3, <4>1 DEF BookingInv, CheckedClear, item
      <4>3. Live(b) /\ SameGpu(rows[b], item) /\ Overlap(rows[b], item)
        BY <1>1, <1>2, <2>1, <3>1 DEF Contend, Live, SameGpu, Overlap
      <4> QED BY <1>1, <1>2, <2>1, <3>1, <4>2, <4>3 DEF Clear, Exclusive
    <3> QED BY <3>2, <3>3
  <2>2. ASSUME NEW a \in Id, NEW b \in Id PROVE Contend(a, b)' => Contend(b, a)'
    BY DEF Contend, SameGpu, Overlap
  <2>3. ASSUME NEW a \in Id \ unchecked', NEW b \in Id \ unchecked',
               Contend(a, b)', rows'[a].group # rows'[b].group
        PROVE  ~Exclusive(rows'[a]) /\ ~Exclusive(rows'[b])
    <3>1. CASE a = r
      BY <2>1, <2>3, <3>1 DEF Contend
    <3>2. CASE b = r
      BY <2>1, <2>2, <2>3, <3>2 DEF Contend
    <3>3. CASE a # r /\ b # r
      <4>1. rows'[a] = rows[a] /\ rows'[b] = rows[b] /\ a \notin unchecked /\ b \notin unchecked
        BY <1>0, <1>3, <2>3, <3>3
      <4> QED BY <2>3, <4>1 DEF BookingInv, CrossRequestExclusive, Contend, Live
    <3> QED BY <3>1, <3>2, <3>3
  <2> QED BY <2>3 DEF CrossRequestExclusive
<1>8. nextId' \in Nat \ {0}
  BY DEF BookingInv, TypeOK
<1> QED BY <1>4, <1>5, <1>6, <1>7, <1>8, SessionEnds

\* The row an accepted edit writes does not collide with the checked ones.
LEMMA ApplyEditPreserves ==
  ASSUME BookingInv, NEW s \in Session, ApplyEdit(s)
  PROVE  BookingInv'
<1> DEFINE r       == sess[s].id
           given   == sess[s].trigger # NoTime
                        /\ TriggerInside(sess[s].trigger, sess[s].items[1])
           default == sess[s].script /\ rows[r].trigger = NoTime /\ sess[s].trigger = NoTime
           trigger == IF given THEN sess[s].trigger
                      ELSE IF default THEN sess[s].items[1].start ELSE rows[r].trigger
           commits == ~TriggerTypeError(s) /\ TableChecks(EditedRow(s, trigger))
<1>1. /\ r \in Id /\ r # 0 /\ sess[s].pc = "write" /\ unchecked \subseteq Id
      /\ sess' = [sess EXCEPT ![s] = Idle] /\ UNCHANGED <<nextId, now>>
      /\ sess[s].moved = {} => sess[s].idx = 1
  BY DEF ApplyEdit, BookingInv, EditShape, TypeOK
<1>2. trigger \in Time
  <2>1. sess[s].items \in Seq(Item) /\ Len(sess[s].items) = 1 /\ sess[s].trigger \in Time
    BY <1>1 DEF BookingInv, EditShape, TypeOK, Request
  <2>2. sess[s].items[1] \in Item
    BY <2>1
  <2>3. rows[r] \in Row
    BY <1>1 DEF BookingInv, TypeOK
  <2> QED BY <2>1, <2>2, <2>3 DEF Item, Row, Time
<1>3. CASE commits
  <2>1. /\ ~Blocked(s)
        /\ rows' = [rows EXCEPT ![r] = EditedRow(s, trigger)]
        /\ unchecked' = IF sess[s].idx = 2 THEN unchecked \ {r} ELSE unchecked
    BY <1>3 DEF ApplyEdit
  <2>2. ~EntryBlocked(s)
    BY <1>1, <2>1 DEF Blocked
  <2>3. /\ unchecked' \subseteq Id
        /\ \A a \in Id : a # r => (a \in unchecked' <=> a \in unchecked)
        /\ sess[s].moved = {} => unchecked' = unchecked
    BY <1>1, <2>1
  <2> HIDE DEF trigger, commits
  <2> QED BY <1>1, <1>2, <2>1, <2>2, <2>3, EditedRowWritten
<1>4. CASE ~commits
  <2>1. rows' = rows /\ unchecked' = unchecked
    BY <1>4 DEF ApplyEdit
  <2> QED BY <1>1, <2>1, EndQuietly
<1> QED BY <1>3, <1>4

\* A refused edit that is committed joins the unchecked rows.
LEMMA CommitRefusedEditPreserves ==
  ASSUME BookingInv, NEW s \in Session, CommitRefusedEdit(s)
  PROVE  BookingInv'
<1> DEFINE r       == sess[s].id
           trigger == rows[r].trigger
           commits == TableChecks(EditedRow(s, trigger))
<1>1. sess[s].pc = "refused" /\ sess' = [sess EXCEPT ![s] = Idle] /\ UNCHANGED <<nextId, now>>
  BY DEF CommitRefusedEdit
<1>2. r # 0
  BY <1>1 DEF BookingInv, CreateShape
<1>3. r \in Id /\ sess[s].moved # {} /\ unchecked \subseteq Id
  BY <1>1, <1>2 DEF BookingInv, EditShape, TypeOK
<1>4. trigger \in Time
  BY <1>3 DEF BookingInv, TypeOK, Row
<1>5. CASE commits
  <2>1. /\ ~Blocked(s)
        /\ rows' = [rows EXCEPT ![r] = EditedRow(s, trigger)]
        /\ unchecked' = unchecked \cup {r}
    BY <1>5 DEF CommitRefusedEdit
  <2>2. ~EntryBlocked(s)
    BY <1>1, <2>1 DEF Blocked
  <2> HIDE DEF trigger, commits
  <2> QED BY <1>1, <1>2, <1>3, <1>4, <2>1, <2>2, EditedRowWritten
<1>6. CASE ~commits
  <2>1. rows' = rows /\ unchecked' = unchecked
    BY <1>6 DEF CommitRefusedEdit
  <2> QED BY <1>1, <2>1, EndQuietly
<1> QED BY <1>5, <1>6

\* Steps that leave the table, the transactions and the keys alone.
LEMMA ClockPreserves ==
  ASSUME BookingInv, UNCHANGED <<rows, nextId, sess, unchecked>>, now' \in Nat
  PROVE  BookingInv'
<1>1. TypeOK' /\ FreshKeys' /\ RowLocks'
  BY DEF BookingInv, TypeOK, FreshKeys, Exists, RowLocks
<1>2. ASSUME NEW s \in Session PROVE (CreateShape(s) /\ EditShape(s) /\ CheckedClear(s))'
  BY DEF BookingInv, CreateShape, EditShape, CheckedClear, Clear, Live
<1>3. CrossRequestExclusive'
  BY DEF BookingInv, CrossRequestExclusive, Contend, Live
<1> QED BY <1>1, <1>2, <1>3 DEF BookingInv

-----------------------------------------------------------------------------
(* The theorems.                                                           *)

\* The inductive step: every action of the book preserves BookingInv.
LEMMA BookingStep == BookingInv /\ [Next]_vars => BookingInv'
<1> SUFFICES ASSUME BookingInv, [Next]_vars PROVE BookingInv'
  OBVIOUS
<1>1. ASSUME NEW s \in Session, NEW req \in CreateRequests, Create(s, req) PROVE BookingInv'
  BY <1>1, CreatePreserves
<1>2. ASSUME NEW s \in Session, NEW r \in Id, NEW e \in EditRequests, Modify(s, r, e)
      PROVE  BookingInv'
  BY <1>2, ModifyPreserves
<1>3. ASSUME NEW s \in Session, SessionStep(s) PROVE BookingInv'
  BY <1>3, CheckWindowPreserves, InsertRowsPreserves, ApplyEditPreserves,
     CommitRefusedEditPreserves DEF SessionStep
<1>4. ASSUME NEW s \in Session, LockAbort(s) PROVE BookingInv'
  BY <1>4, EndQuietly DEF LockAbort
<1>5. ASSUME NEW r \in Id, Cancel(r) PROVE BookingInv'
  BY <1>5, CancelPreserves DEF Cancel
<1>6. ASSUME NEW g \in Id, CancelGroup(g) PROVE BookingInv'
  BY <1>6, CancelPreserves DEF CancelGroup
<1>7. ASSUME NEW failing \in SUBSET Id, Tick(failing) PROVE BookingInv'
  BY <1>7, TickPreserves
<1>8. CASE AdvanceClock
  BY <1>8, ClockPreserves DEF AdvanceClock, BookingInv, TypeOK
<1>9. CASE UNCHANGED vars
  BY <1>9, ClockPreserves DEF vars, BookingInv, TypeOK
<1> QED BY <1>1, <1>2, <1>3, <1>4, <1>5, <1>6, <1>7, <1>8, <1>9 DEF Next

\* The reservation table and the transactions keep their types: in particular
\* an edit always finds the row it locked, and no key is handed out twice.
THEOREM BookingTypeCorrect == Spec => []TypeOK
<1>1. BookingInv => TypeOK
  BY DEF BookingInv
<1> QED BY <1>1, BookingInit, BookingStep, PTL DEF Spec

\* No double booking across requests: for any number of requests in flight,
\* any windows and any interleaving with cancellations, edits, lock aborts and
\* the scheduler, an exclusive reservation never overlaps a reservation of
\* another request on its card, unless a refused edit has put it there.
THEOREM NoCrossRequestDoubleBooking == Spec => []CrossRequestExclusive
<1>1. BookingInv => CrossRequestExclusive
  BY DEF BookingInv
<1> QED BY <1>1, BookingInit, BookingStep, PTL DEF Spec

\* An edit writes a row that is scheduled, before and after.
LEMMA EditedRowStaysScheduled ==
  ASSUME BookingInv, NEW s \in Session, sess[s].id # 0, NEW trigger \in Time,
         rows' = [rows EXCEPT ![sess[s].id] = EditedRow(s, trigger)]
  PROVE  WindowMovesWhileScheduled
<1>1. sess[s].id \in Id /\ rows[sess[s].id].status = "scheduled"
  BY DEF BookingInv, EditShape
<1>2. /\ rows'[sess[s].id].status = "scheduled"
      /\ \A a \in Id : a # sess[s].id => rows'[a] = rows[a]
  BY <1>1, EditedRowFields DEF BookingInv, TypeOK
<1> QED BY <1>1, <1>2 DEF WindowMovesWhileScheduled

\* One step moves a window only while its row is scheduled.
LEMMA WindowStep ==
  ASSUME BookingInv, [Next]_vars
  PROVE  WindowMovesWhileScheduled
<1>1. CASE rows' = rows
  BY <1>1 DEF WindowMovesWhileScheduled
<1>2. ASSUME NEW R \in SUBSET Id, CancelRows(R) PROVE WindowMovesWhileScheduled
  BY <1>2 DEF CancelRows, WindowMovesWhileScheduled, BookingInv, TypeOK, Row
<1>3. ASSUME NEW failing \in SUBSET Id, Tick(failing) PROVE WindowMovesWhileScheduled
  BY <1>3 DEF Tick, WindowMovesWhileScheduled, BookingInv, TypeOK, Row
<1>4. ASSUME NEW s \in Session, InsertRows(s) PROVE WindowMovesWhileScheduled
  <2>1. nextId \in Nat
    BY DEF BookingInv, TypeOK
  <2>2. \A r \in Id : Exists(r) => rows'[r] = rows[r]
    BY <1>4, <2>1 DEF InsertRows, BookingInv, FreshKeys, Id
  <2> QED BY <2>2 DEF WindowMovesWhileScheduled
<1>5. ASSUME NEW s \in Session, ApplyEdit(s) \/ CommitRefusedEdit(s), rows' # rows
      PROVE  WindowMovesWhileScheduled
  <2>1. sess[s].id # 0
    BY <1>5 DEF ApplyEdit, CommitRefusedEdit, BookingInv, CreateShape
  <2>2. sess[s].id \in Id /\ Len(sess[s].items) = 1 /\ sess[s] \in Request
    BY <2>1 DEF BookingInv, EditShape, TypeOK
  <2>3. sess[s].items[1] \in Item /\ sess[s].trigger \in Time
    BY <2>2 DEF Request
  <2>4. /\ rows[sess[s].id].trigger \in Time /\ sess[s].trigger \in Time
        /\ sess[s].items[1].start \in Time
    BY <2>2, <2>3 DEF BookingInv, TypeOK, Row, Item, Time
  <2>5. PICK trigger \in Time : rows' = [rows EXCEPT ![sess[s].id] = EditedRow(s, trigger)]
    <3>1. CASE ApplyEdit(s)
      BY <1>5, <2>4, <3>1 DEF ApplyEdit
    <3>2. CASE CommitRefusedEdit(s)
      BY <1>5, <2>4, <3>2 DEF CommitRefusedEdit
    <3> QED BY <1>5, <3>1, <3>2
  <2> QED BY <2>1, <2>5, EditedRowStaysScheduled
<1>6. rows' = rows \/ (\E s \in Session : InsertRows(s) \/ ApplyEdit(s) \/ CommitRefusedEdit(s))
      \/ (\E R \in SUBSET Id : CancelRows(R)) \/ (\E failing \in SUBSET Id : Tick(failing))
  BY DEF Next, vars, SessionStep, Create, Modify, CheckWindow, LockAbort, AdvanceClock,
         Cancel, CancelGroup
<1> QED BY <1>1, <1>2, <1>3, <1>4, <1>5, <1>6

\* The window of a reservation moves only while the reservation is scheduled,
\* before the step and after it: no edit races the promotion to active.
THEOREM ActiveWindowIsFrozen == Spec => ActiveWindowFrozen
<1>1. BookingInv /\ [Next]_vars => [WindowMovesWhileScheduled]_vars
  BY WindowStep
<1> QED BY <1>1, BookingInit, BookingStep, PTL DEF Spec, ActiveWindowFrozen
-----------------------------------------------------------------------------
(* Sums over finite sets, as MapThenSumSet of FiniteSetsExt computes them: *)
(* what the sharing rules add up.  The library defines the sum by a        *)
(* recursive function on the subsets of the set; the facts below follow    *)
(* from the well-founded order of the finite sets under strict inclusion:  *)
(* a set of counterexamples has a minimal one.                             *)

Pick(s) == CHOOSE x \in s : TRUE

\* g is the recursive function the library sums the weights w over W with.
Solves(g, w, W) ==
  g = [s \in SUBSET W |-> IF s = {} THEN 0 ELSE w[Pick(s)] + g[s \ {Pick(s)}]]

Total(w, W) == (CHOOSE g : Solves(g, w, W))[W]

\* Induction over finite sets, as the existence of a minimal counterexample.
LEMMA MinimalSubset ==
  ASSUME NEW W, IsFiniteSet(W), NEW T, T \subseteq SUBSET W, T # {}
  PROVE  \E s \in T : \A u \in SUBSET s : u # s => u \notin T
<1>1. IsWellFoundedOn(StrictSubsetOrdering(W), FiniteSubsetsOf(W))
  BY FS_StrictSubsetOrderingWellFounded
<1>2. T \subseteq FiniteSubsetsOf(W)
  BY FS_FiniteSubsetsOfFinite
<1>3. PICK s \in T : \A y \in T : ~(<<y, s>> \in StrictSubsetOrdering(W))
  BY <1>1, <1>2, WFMin
<1> QED BY <1>3 DEF StrictSubsetOrdering

\* What Pick returns.
LEMMA PickElement ==
  ASSUME NEW s, s # {}
  PROVE  Pick(s) \in s
BY DEF Pick

\* The recursion, one step of it.
LEMMA SolvesStep ==
  ASSUME NEW W, NEW w, NEW g, Solves(g, w, W), NEW s \in SUBSET W
  PROVE  g[s] = IF s = {} THEN 0 ELSE w[Pick(s)] + g[s \ {Pick(s)}]
<1>1. g = [u \in SUBSET W |-> IF u = {} THEN 0 ELSE w[Pick(u)] + g[u \ {Pick(u)}]]
  BY DEF Solves
<1> QED BY ONLY <1>1, s \in SUBSET W

\* Two solutions agree on what their sets have in common, as far as their
\* weights do.
LEMMA SolutionsAgree ==
  ASSUME NEW W, NEW V, NEW w, NEW v, NEW g, NEW h, Solves(g, w, W), Solves(h, v, V),
         NEW S, IsFiniteSet(S), S \subseteq W, S \subseteq V, \A x \in S : w[x] = v[x]
  PROVE  g[S] = h[S]
<1> DEFINE T == {s \in SUBSET S : g[s] # h[s]}
<1>1. T = {}
  <2> SUFFICES ASSUME T # {} PROVE FALSE
    OBVIOUS
  <2>1. PICK s \in T : \A u \in SUBSET s : u # s => u \notin T
    <3> HIDE DEF T
    <3>1. T \subseteq SUBSET S
      BY DEF T
    <3> QED BY <3>1, MinimalSubset
  <2>2. s \in SUBSET S /\ s \in SUBSET W /\ s \in SUBSET V /\ g[s] # h[s]
    OBVIOUS
  <2>3. g[s] = IF s = {} THEN 0 ELSE w[Pick(s)] + g[s \ {Pick(s)}]
    BY <2>2, SolvesStep
  <2>4. h[s] = IF s = {} THEN 0 ELSE v[Pick(s)] + h[s \ {Pick(s)}]
    BY <2>2, SolvesStep
  <2>5. s # {}
    BY <2>2, <2>3, <2>4
  <2>6. PICK p : p = Pick(s)
    OBVIOUS
  <2>7. p \in s /\ w[p] = v[p]
    BY <2>2, <2>5, <2>6, PickElement
  <2>8. g[s \ {p}] = h[s \ {p}]
    BY <2>1, <2>2, <2>7
  <2>9. g[s] = w[p] + g[s \ {p}] /\ h[s] = v[p] + h[s \ {p}]
    BY <2>5, <2>6, <2>3, <2>4
  <2> QED BY <2>2, <2>7, <2>8, <2>9
<1> QED BY <1>1

\* A finite set has a solution.
LEMMA SolutionExists ==
  ASSUME NEW W, IsFiniteSet(W), NEW w
  PROVE  \E g : Solves(g, w, W)
<1> DEFINE T == {V \in SUBSET W : ~\E g : Solves(g, w, V)}
           G(u) == CHOOSE g : Solves(g, w, u)
<1>1. T = {}
  <2> SUFFICES ASSUME T # {} PROVE FALSE
    OBVIOUS
  <2>1. PICK V \in T : \A u \in SUBSET V : u # V => u \notin T
    <3> HIDE DEF T
    <3>1. T \subseteq SUBSET W
      BY DEF T
    <3> QED BY <3>1, MinimalSubset
  <2>2. V \in SUBSET W /\ ~\E g : Solves(g, w, V)
    OBVIOUS
  <2>3. \A u \in SUBSET V : u # V => Solves(G(u), w, u)
    <3>1. \A u \in SUBSET V : u # V => \E g : Solves(g, w, u)
      BY <2>1, <2>2
    <3> QED BY <3>1
  <2> HIDE DEF T, G
  <2> DEFINE h == [s \in SUBSET V |-> IF s = {} THEN 0
                     ELSE w[Pick(s)] + G(s \ {Pick(s)})[s \ {Pick(s)}]]
  <2>4. ASSUME NEW u \in SUBSET V, u # V PROVE h[u] = G(u)[u]
    <3>1. CASE u = {}
      BY <2>3, <2>4, <3>1, SolvesStep
    <3>2. CASE u # {}
      <4>1. PICK p : p = Pick(u)
        OBVIOUS
      <4>2. p \in u
        BY <3>2, <4>1, PickElement
      <4>3. h[u] = w[p] + G(u \ {p})[u \ {p}]
        BY <2>4, <3>2, <4>1
      <4>4. G(u)[u] = w[p] + G(u)[u \ {p}]
        BY <2>3, <2>4, <3>2, <4>1, SolvesStep
      <4>5. u \ {p} \in SUBSET V /\ u \ {p} # V /\ IsFiniteSet(u \ {p})
        BY <2>2, <2>4, <4>2, FS_Subset
      <4>6. G(u \ {p})[u \ {p}] = G(u)[u \ {p}]
        <5>1. Solves(G(u), w, u) /\ Solves(G(u \ {p}), w, u \ {p})
          BY <2>3, <2>4, <4>5
        <5> QED BY <4>5, <5>1, SolutionsAgree
      <4> QED BY <4>3, <4>4, <4>6
    <3> QED BY <3>1, <3>2
  <2>5. ASSUME NEW s \in SUBSET V, s # {}
        PROVE  G(s \ {Pick(s)})[s \ {Pick(s)}] = h[s \ {Pick(s)}]
    <3>1. s \ {Pick(s)} \in SUBSET V /\ s \ {Pick(s)} # V
      BY <2>5, PickElement
    <3> HIDE DEF h
    <3> QED BY <2>4, <3>1
  <2>6. h = [s \in SUBSET V |-> IF s = {} THEN 0 ELSE w[Pick(s)] + h[s \ {Pick(s)}]]
    BY <2>5
  <2> HIDE DEF h
  <2>7. Solves(h, w, V)
    BY <2>6 DEF Solves
  <2> QED BY <2>2, <2>7
<1>2. W \notin T
  BY <1>1
<1> QED BY <1>2

\* The value of a sum is the value of any solution.
LEMMA TotalValue ==
  ASSUME NEW W, IsFiniteSet(W), NEW w, NEW v, NEW V, W \subseteq V, NEW g, Solves(g, v, V),
         \A x \in W : w[x] = v[x]
  PROVE  Total(w, W) = g[W]
<1>1. PICK h : h = CHOOSE f : Solves(f, w, W)
  OBVIOUS
<1>2. Solves(h, w, W)
  BY <1>1, SolutionExists
<1>3. Total(w, W) = h[W]
  BY <1>1 DEF Total
<1>4. h[W] = g[W]
  BY <1>2, SolutionsAgree
<1> QED BY <1>3, <1>4

\* The sum peels off one element after the other.
LEMMA TotalStep ==
  ASSUME NEW W, IsFiniteSet(W), NEW w
  PROVE  Total(w, W) = IF W = {} THEN 0 ELSE w[Pick(W)] + Total(w, W \ {Pick(W)})
<1>1. PICK g : Solves(g, w, W)
  BY SolutionExists
<1>2. Total(w, W) = g[W]
  BY <1>1, TotalValue
<1>3. g[W] = IF W = {} THEN 0 ELSE w[Pick(W)] + g[W \ {Pick(W)}]
  BY <1>1, SolvesStep
<1>4. IsFiniteSet(W \ {Pick(W)}) /\ W \ {Pick(W)} \subseteq W
  BY FS_Subset
<1>5. Total(w, W \ {Pick(W)}) = g[W \ {Pick(W)}]
  BY <1>1, <1>4, TotalValue
<1> QED BY <1>2, <1>3, <1>5

-----------------------------------------------------------------------------
(* The facts about sums.                                                   *)

\* Only the weights of the elements count.
LEMMA TotalSame ==
  ASSUME NEW W, IsFiniteSet(W), NEW w, NEW v, \A x \in W : w[x] = v[x]
  PROVE  Total(w, W) = Total(v, W)
<1>1. PICK g : Solves(g, v, W)
  BY SolutionExists
<1> QED BY <1>1, TotalValue

\* A sum of naturals is a natural.
LEMMA TotalType ==
  ASSUME NEW W, IsFiniteSet(W), NEW w, \A x \in W : w[x] \in Nat
  PROVE  Total(w, W) \in Nat
<1> DEFINE T == {s \in SUBSET W : Total(w, s) \notin Nat}
<1>1. T = {}
  <2> SUFFICES ASSUME T # {} PROVE FALSE
    OBVIOUS
  <2>1. PICK s \in T : \A u \in SUBSET s : u # s => u \notin T
    <3> HIDE DEF T
    <3>1. T \subseteq SUBSET W
      BY DEF T
    <3> QED BY <3>1, MinimalSubset
  <2>2. s \in SUBSET W /\ Total(w, s) \notin Nat /\ IsFiniteSet(s)
    BY FS_Subset
  <2>3. Total(w, s) = IF s = {} THEN 0 ELSE w[Pick(s)] + Total(w, s \ {Pick(s)})
    BY <2>2, TotalStep
  <2>4. s # {}
    BY <2>2, <2>3
  <2>5. Pick(s) \in s
    BY <2>4, PickElement
  <2>6. Total(w, s \ {Pick(s)}) \in Nat
    BY <2>1, <2>2, <2>5
  <2>7. w[Pick(s)] \in Nat
    BY <2>2, <2>5
  <2> QED BY <2>2, <2>3, <2>4, <2>6, <2>7
<1> QED BY <1>1

\* Any element may be taken out first.
LEMMA TotalRemove ==
  ASSUME NEW W, IsFiniteSet(W), NEW w, \A x \in W : w[x] \in Nat, NEW y \in W
  PROVE  Total(w, W) = w[y] + Total(w, W \ {y})
<1> DEFINE Holds(s, x) == Total(w, s) = w[x] + Total(w, s \ {x})
           T == {s \in SUBSET W : \E x \in s : ~Holds(s, x)}
<1>1. T = {}
  <2> SUFFICES ASSUME T # {} PROVE FALSE
    OBVIOUS
  <2>1. PICK s \in T : \A u \in SUBSET s : u # s => u \notin T
    <3> HIDE DEF T
    <3>1. T \subseteq SUBSET W
      BY DEF T
    <3> QED BY <3>1, MinimalSubset
  <2>2. PICK x \in s : ~Holds(s, x)
    OBVIOUS
  <2>3. \A u \in SUBSET s : u # s => \A z \in u : Holds(u, z)
    BY <2>1
  <2>4. s \in SUBSET W /\ IsFiniteSet(s) /\ s # {}
    BY <2>2, FS_Subset
  <2> HIDE DEF T
  <2>5. PICK p : p = Pick(s)
    OBVIOUS
  <2>6. p \in s
    BY <2>4, <2>5, PickElement
  <2>7. Holds(s, p)
    BY <2>4, <2>5, TotalStep
  <2>8. p # x
    BY <2>2, <2>7
  <2>9. Holds(s \ {p}, x) /\ Holds(s \ {x}, p)
    <3>1. s \ {p} \in SUBSET s /\ s \ {p} # s /\ x \in s \ {p}
      BY <2>6, <2>8
    <3>2. s \ {x} \in SUBSET s /\ s \ {x} # s /\ p \in s \ {x}
      BY <2>6, <2>8
    <3> HIDE DEF Holds
    <3> QED BY <2>3, <3>1, <3>2
  <2>10. PICK u : u = s \ {p, x}
    OBVIOUS
  <2>11. (s \ {p}) \ {x} = u /\ (s \ {x}) \ {p} = u
    BY <2>10
  <2>12. Total(w, u) \in Nat /\ w[p] \in Nat /\ w[x] \in Nat
    <3>1. IsFiniteSet(u) /\ \A z \in u : w[z] \in Nat
      BY <2>4, <2>10, FS_Subset
    <3> QED BY <2>4, <2>6, <3>1, TotalType
  <2>13. /\ Total(w, s \ {p}) = w[x] + Total(w, u)
         /\ Total(w, s \ {x}) = w[p] + Total(w, u)
    BY <2>9, <2>11
  <2>14. Total(w, s) = w[p] + Total(w, s \ {p}) /\ Total(w, s) # w[x] + Total(w, s \ {x})
    BY <2>2, <2>7
  <2> QED BY ONLY <2>12, <2>13, <2>14
<1>2. W \notin T
  BY <1>1
<1> QED BY <1>2

\* A part weighs no more than the whole.
LEMMA TotalMonotone ==
  ASSUME NEW W, IsFiniteSet(W), NEW w, \A x \in W : w[x] \in Nat, NEW S, S \subseteq W
  PROVE  Total(w, S) <= Total(w, W)
<1> DEFINE T == {s \in SUBSET W : S \subseteq s /\ ~(Total(w, S) <= Total(w, s))}
<1>1. T = {}
  <2> SUFFICES ASSUME T # {} PROVE FALSE
    OBVIOUS
  <2>1. PICK s \in T : \A u \in SUBSET s : u # s => u \notin T
    <3> HIDE DEF T
    <3>1. T \subseteq SUBSET W
      BY DEF T
    <3> QED BY <3>1, MinimalSubset
  <2>2. s \in SUBSET W /\ S \subseteq s /\ ~(Total(w, S) <= Total(w, s)) /\ IsFiniteSet(s)
    BY FS_Subset
  <2>3. Total(w, S) \in Nat
    <3>1. IsFiniteSet(S) /\ \A x \in S : w[x] \in Nat
      BY FS_Subset
    <3> QED BY <3>1, TotalType
  <2>4. S # s
    BY <2>2, <2>3
  <2>5. PICK x \in s : x \notin S
    BY <2>2, <2>4
  <2>6. Total(w, S) <= Total(w, s \ {x})
    BY <2>1, <2>2, <2>5
  <2>7. Total(w, s) = w[x] + Total(w, s \ {x})
    BY <2>2, TotalRemove
  <2>8. Total(w, s \ {x}) \in Nat /\ w[x] \in Nat
    <3>1. IsFiniteSet(s \ {x}) /\ \A z \in s \ {x} : w[z] \in Nat
      BY <2>2, FS_Subset
    <3> QED BY <2>2, <3>1, TotalType
  <2> QED BY <2>2, <2>3, <2>6, <2>7, <2>8
<1>2. W \notin T
  BY <1>1
<1> QED BY <1>2

-----------------------------------------------------------------------------
(* The two columns the sharing rules add up.                               *)

MemOf(t, S) == MapThenSumSet(LAMBDA r : t[r].mem, S)
PctOf(t, S) == MapThenSumSet(LAMBDA r : t[r].pct, S)

\* The library's sum over the memory column is the total of that column.
LEMMA MemTotalOf ==
  ASSUME NEW t, NEW S, IsFiniteSet(S)
  PROVE  MemOf(t, S) = Total([r \in S |-> t[r].mem], S)
<1> DEFINE w == [r \in S |-> t[r].mem]
           Sol(h) == h = [s \in SUBSET S |-> IF s = {} THEN 0
                            ELSE t[Pick(s)].mem + h[s \ {Pick(s)}]]
<1>1. MemOf(t, S) = (CHOOSE h : Sol(h))[S]
  BY DEF MemOf, MapThenSumSet, MapThenFoldSet, Pick
<1>2. \A s \in SUBSET S : s # {} => w[Pick(s)] = t[Pick(s)].mem
  BY PickElement
<1> HIDE DEF w
<1>3. ASSUME NEW h PROVE Sol(h) <=> Solves(h, w, S)
  BY <1>2 DEF Solves
<1>4. PICK g : Solves(g, w, S)
  BY SolutionExists
<1>5. Sol(g)
  BY <1>3, <1>4
<1>6. PICK f : f = CHOOSE h : Sol(h)
  OBVIOUS
<1>7. Sol(f)
  <2> HIDE DEF Sol
  <2> QED BY <1>5, <1>6
<1>8. Solves(f, w, S)
  BY <1>3, <1>7
<1>9. Total(w, S) = f[S]
  BY <1>8, TotalValue
<1> HIDE DEF Sol
<1> QED BY <1>1, <1>6, <1>9 DEF w

\* The same for the compute column.
LEMMA PctTotalOf ==
  ASSUME NEW t, NEW S, IsFiniteSet(S)
  PROVE  PctOf(t, S) = Total([r \in S |-> t[r].pct], S)
<1> DEFINE w == [r \in S |-> t[r].pct]
           Sol(h) == h = [s \in SUBSET S |-> IF s = {} THEN 0
                            ELSE t[Pick(s)].pct + h[s \ {Pick(s)}]]
<1>1. PctOf(t, S) = (CHOOSE h : Sol(h))[S]
  BY DEF PctOf, MapThenSumSet, MapThenFoldSet, Pick
<1>2. \A s \in SUBSET S : s # {} => w[Pick(s)] = t[Pick(s)].pct
  BY PickElement
<1> HIDE DEF w
<1>3. ASSUME NEW h PROVE Sol(h) <=> Solves(h, w, S)
  BY <1>2 DEF Solves
<1>4. PICK g : Solves(g, w, S)
  BY SolutionExists
<1>5. Sol(g)
  BY <1>3, <1>4
<1>6. PICK f : f = CHOOSE h : Sol(h)
  OBVIOUS
<1>7. Sol(f)
  <2> HIDE DEF Sol
  <2> QED BY <1>5, <1>6
<1>8. Solves(f, w, S)
  BY <1>3, <1>7
<1>9. Total(w, S) = f[S]
  BY <1>8, TotalValue
<1> HIDE DEF Sol
<1> QED BY <1>1, <1>6, <1>9 DEF w

\* The memory column of a set of rows depends on those rows only.
LEMMA MemSame ==
  ASSUME NEW t, NEW u, NEW S, IsFiniteSet(S), \A x \in S : t[x].mem = u[x].mem
  PROVE  MemOf(t, S) = MemOf(u, S)
<1>1. [r \in S |-> t[r].mem] = [r \in S |-> u[r].mem]
  OBVIOUS
<1> QED BY <1>1, MemTotalOf

\* It adds up to a natural, and to no more than the column of a larger set.
LEMMA MemBounds ==
  ASSUME NEW t, NEW W, IsFiniteSet(W), \A x \in W : t[x].mem \in Nat, NEW S \in SUBSET W
  PROVE  MemOf(t, S) \in Nat /\ MemOf(t, W) \in Nat /\ MemOf(t, S) <= MemOf(t, W)
<1> DEFINE w == [r \in W |-> t[r].mem]
           v == [r \in S |-> t[r].mem]
<1>1. IsFiniteSet(S) /\ S \subseteq W
  BY FS_Subset
<1>2. (\A x \in W : w[x] \in Nat) /\ (\A x \in S : w[x] \in Nat /\ w[x] = v[x])
  OBVIOUS
<1>3. MemOf(t, W) = Total(w, W) /\ MemOf(t, S) = Total(v, S)
  BY <1>1, MemTotalOf
<1> HIDE DEF w, v
<1>4. Total(v, S) = Total(w, S)
  BY <1>1, <1>2, TotalSame
<1>5. Total(w, S) \in Nat /\ Total(w, W) \in Nat /\ Total(w, S) <= Total(w, W)
  BY <1>1, <1>2, TotalType, TotalMonotone
<1> QED BY <1>3, <1>4, <1>5

\* It is the share of one row and the column of the others.
LEMMA MemRemove ==
  ASSUME NEW t, NEW W, IsFiniteSet(W), \A x \in W : t[x].mem \in Nat, NEW y \in W
  PROVE  MemOf(t, W) = t[y].mem + MemOf(t, W \ {y})
<1> DEFINE w == [r \in W |-> t[r].mem]
           v == [r \in W \ {y} |-> t[r].mem]
<1>1. IsFiniteSet(W \ {y})
  BY FS_Subset
<1>2. (\A x \in W : w[x] \in Nat) /\ (\A x \in W \ {y} : w[x] = v[x]) /\ w[y] = t[y].mem
  OBVIOUS
<1>3. MemOf(t, W) = Total(w, W) /\ MemOf(t, W \ {y}) = Total(v, W \ {y})
  BY <1>1, MemTotalOf
<1> HIDE DEF w, v
<1>4. Total(v, W \ {y}) = Total(w, W \ {y})
  BY <1>1, <1>2, TotalSame
<1>5. Total(w, W) = w[y] + Total(w, W \ {y})
  BY <1>2, TotalRemove
<1> QED BY <1>2, <1>3, <1>4, <1>5

\* The compute column of a set of rows depends on those rows only.
LEMMA PctSame ==
  ASSUME NEW t, NEW u, NEW S, IsFiniteSet(S), \A x \in S : t[x].pct = u[x].pct
  PROVE  PctOf(t, S) = PctOf(u, S)
<1>1. [r \in S |-> t[r].pct] = [r \in S |-> u[r].pct]
  OBVIOUS
<1> QED BY <1>1, PctTotalOf

\* It adds up to a natural, and to no more than the column of a larger set.
LEMMA PctBounds ==
  ASSUME NEW t, NEW W, IsFiniteSet(W), \A x \in W : t[x].pct \in Nat, NEW S \in SUBSET W
  PROVE  PctOf(t, S) \in Nat /\ PctOf(t, W) \in Nat /\ PctOf(t, S) <= PctOf(t, W)
<1> DEFINE w == [r \in W |-> t[r].pct]
           v == [r \in S |-> t[r].pct]
<1>1. IsFiniteSet(S) /\ S \subseteq W
  BY FS_Subset
<1>2. (\A x \in W : w[x] \in Nat) /\ (\A x \in S : w[x] \in Nat /\ w[x] = v[x])
  OBVIOUS
<1>3. PctOf(t, W) = Total(w, W) /\ PctOf(t, S) = Total(v, S)
  BY <1>1, PctTotalOf
<1> HIDE DEF w, v
<1>4. Total(v, S) = Total(w, S)
  BY <1>1, <1>2, TotalSame
<1>5. Total(w, S) \in Nat /\ Total(w, W) \in Nat /\ Total(w, S) <= Total(w, W)
  BY <1>1, <1>2, TotalType, TotalMonotone
<1> QED BY <1>3, <1>4, <1>5

\* It is the share of one row and the column of the others.
LEMMA PctRemove ==
  ASSUME NEW t, NEW W, IsFiniteSet(W), \A x \in W : t[x].pct \in Nat, NEW y \in W
  PROVE  PctOf(t, W) = t[y].pct + PctOf(t, W \ {y})
<1> DEFINE w == [r \in W |-> t[r].pct]
           v == [r \in W \ {y} |-> t[r].pct]
<1>1. IsFiniteSet(W \ {y})
  BY FS_Subset
<1>2. (\A x \in W : w[x] \in Nat) /\ (\A x \in W \ {y} : w[x] = v[x]) /\ w[y] = t[y].pct
  OBVIOUS
<1>3. PctOf(t, W) = Total(w, W) /\ PctOf(t, W \ {y}) = Total(v, W \ {y})
  BY <1>1, PctTotalOf
<1> HIDE DEF w, v
<1>4. Total(v, W \ {y}) = Total(w, W \ {y})
  BY <1>1, <1>2, TotalSame
<1>5. Total(w, W) = w[y] + Total(w, W \ {y})
  BY <1>2, TotalRemove
<1> QED BY <1>2, <1>3, <1>4, <1>5

\* No row, no compute.
LEMMA PctNone ==
  ASSUME NEW t
  PROVE  PctOf(t, {}) = 0
<1>1. IsFiniteSet({})
  BY FS_EmptySet
<1> QED BY <1>1, PctTotalOf, TotalStep

-----------------------------------------------------------------------------
(* The capacity of a card.  A second invariant, on top of BookingInv: a    *)
(* checked item still fits beside every part of its window, an edit keeps  *)
(* the share of its row, and rows of different requests that hold a card   *)
(* together add up to at most the card.                                    *)

\* The live rows that hold the card of an item while it does, but for one's own.
Beside(item, own) ==
  {r \in Id : r # own /\ Live(r) /\ SameGpu(rows[r], item) /\ Overlap(rows[r], item)}

\* What _classify_conflict found out about an item that it let pass.  Parts of
\* the window are named because cancellations and ticks make it smaller.
Fits(item, own) ==
  \A S \in SUBSET Beside(item, own) : S # {} =>
    /\ MemTotal[item.gpu] # 0 => MemOf(rows, S) + item.mem <= MemTotal[item.gpu]
    /\ item.pct # 0 => PctOf(rows, S) + item.pct <= 100

CheckedFits(s) ==
  sess[s].pc \in {"check", "write"} =>
    \A j \in 1 .. sess[s].idx - 1 :
      j <= Len(sess[s].items) /\ sess[s].items[j].gpu # NoGpu
        => Fits(sess[s].items[j], sess[s].id)

EditKeepsShare(s) == sess[s].id # 0 => sess[s].items[1].pct = rows[sess[s].id].pct

\* Checked live rows of pairwise different requests that hold one card at the
\* same time; one row alone is among them.
Stacked(S) == /\ \A r \in S : r \notin unchecked /\ Live(r) /\ rows[r].gpu # NoGpu
              /\ \A a, b \in S : a # b => Contend(a, b) /\ rows[a].group # rows[b].group

\* What a card bears: the compute of a stack, and the memory as soon as there
\* are two rows (the first row of an empty window is not compared with the card).
Bears(S) == \A r \in S :
  /\ PctOf(rows, S) <= 100
  /\ \A q \in S : q # r /\ MemTotal[rows[r].gpu] # 0
       => MemOf(rows, S) <= MemTotal[rows[r].gpu]

CapacityInv == /\ \A s \in Session : CheckedFits(s) /\ EditKeepsShare(s)
               /\ \A S \in SUBSET Id : Stacked(S) => Bears(S)
\* Two rows that differ at most in their status and in their trigger.
SameRow(a, b) == /\ a.gpu = b.gpu /\ a.mem = b.mem /\ a.pct = b.pct
                 /\ a.start = b.start /\ a.end = b.end /\ a.group = b.group

\* The sums of the book are finite.
LEMMA FiniteRows ==
  ASSUME NEW S \in SUBSET Id
  PROVE  IsFiniteSet(S)
<1>1. IsFiniteSet(Id)
  BY BoundAssumption, FS_Interval DEF Id
<1> QED BY <1>1, FS_Subset

\* What Row says about the columns that are added up.
LEMMA RowShares ==
  ASSUME NEW t \in [Id -> Row], NEW r \in Id
  PROVE  t[r].mem \in Nat /\ t[r].pct \in Nat /\ t[r].pct <= 100
BY DEF Row

\* The sums read two tables alike that have the same rows there.
LEMMA SameSums ==
  ASSUME NEW S \in SUBSET Id, \A r \in S : SameRow(rows'[r], rows[r])
  PROVE  MemOf(rows', S) = MemOf(rows, S) /\ PctOf(rows', S) = PctOf(rows, S)
<1>1. \A r \in S : rows'[r].mem = rows[r].mem /\ rows'[r].pct = rows[r].pct
  BY DEF SameRow
<1> QED BY <1>1, FiniteRows, MemSame, PctSame

\* A transaction that does not move keeps its checked items fitting, as long as
\* rows come into its windows only where it holds no lock.
LEMMA FitsIsStable ==
  ASSUME NEW t \in Session, TypeOK, CheckedFits(t), sess'[t] = sess[t],
         \A r \in Id : Live(r)' =>
            \/ Live(r) /\ SameRow(rows'[r], rows[r])
            \/ \A l \in Scanned(t) : ~Covers(l, rows'[r].gpu, rows'[r].start)
  PROVE  CheckedFits(t)'
<1> SUFFICES ASSUME sess[t].pc \in {"check", "write"},
                    NEW j \in 1 .. sess[t].idx - 1,
                    j <= Len(sess[t].items), sess[t].items[j].gpu # NoGpu
             PROVE  Fits(sess[t].items[j], sess[t].id)'
  BY DEF CheckedFits
<1>1. PICK item : item = sess[t].items[j]
  OBVIOUS
<1>2. PICK own : own = sess[t].id
  OBVIOUS
<1>3. item \in Scanned(t) /\ Fits(item, own)
  BY <1>1, <1>2, ScannedItem DEF CheckedFits
<1>4. \A r \in Beside(item, own)' : r \in Beside(item, own) /\ SameRow(rows'[r], rows[r])
  <2> SUFFICES ASSUME NEW r \in Beside(item, own)'
               PROVE  r \in Beside(item, own) /\ SameRow(rows'[r], rows[r])
    OBVIOUS
  <2>1. /\ r \in Id /\ r # own /\ Live(r)'
        /\ SameGpu(rows'[r], item) /\ Overlap(rows'[r], item)
    BY DEF Beside
  <2>2. ~\A l \in Scanned(t) : ~Covers(l, rows'[r].gpu, rows'[r].start)
    BY <1>3, <2>1 DEF Covers, SameGpu, Overlap
  <2>3. Live(r) /\ SameRow(rows'[r], rows[r])
    BY <2>1, <2>2
  <2> QED BY <2>1, <2>3 DEF Beside, SameRow, SameGpu, Overlap
<1>5. ASSUME NEW S \in SUBSET Beside(item, own)', S # {}
      PROVE  /\ MemTotal[item.gpu] # 0 => MemOf(rows', S) + item.mem <= MemTotal[item.gpu]
             /\ item.pct # 0 => PctOf(rows', S) + item.pct <= 100
  <2>1. S \in SUBSET Id
    BY DEF Beside
  <2>2. MemOf(rows', S) = MemOf(rows, S) /\ PctOf(rows', S) = PctOf(rows, S)
    BY <1>4, <2>1, SameSums
  <2>3. S \in SUBSET Beside(item, own)
    BY <1>4
  <2> QED BY <1>3, <1>5, <2>2, <2>3 DEF Fits
<1>6. sess'[t].items[j] = item /\ sess'[t].id = own
  BY <1>1, <1>2
<1>7. Fits(item, own)'
  BY <1>5 DEF Fits
<1> QED BY <1>6, <1>7

\* A stack of rows that were there before is borne as before.
LEMMA OldStack ==
  ASSUME CapacityInv, NEW S \in SUBSET Id, Stacked(S)',
         \A r \in S : Live(r) /\ SameRow(rows'[r], rows[r]) /\ r \notin unchecked
  PROVE  Bears(S)'
<1>1. \A r \in S : rows'[r].gpu # NoGpu
  BY DEF Stacked
<1>2. ASSUME NEW a \in S, NEW b \in S, a # b
      PROVE  Contend(a, b) /\ rows[a].group # rows[b].group
  <2>1. Contend(a, b)' /\ rows'[a].group # rows'[b].group
    BY <1>2 DEF Stacked
  <2>2. SameRow(rows'[a], rows[a]) /\ SameRow(rows'[b], rows[b]) /\ Live(a) /\ Live(b)
    OBVIOUS
  <2> QED BY <2>1, <2>2 DEF Contend, SameRow, SameGpu, Overlap
<1>3. Stacked(S)
  BY <1>1, <1>2 DEF Stacked, SameRow
<1>4. Bears(S)
  BY <1>3 DEF CapacityInv
<1>5. MemOf(rows', S) = MemOf(rows, S) /\ PctOf(rows', S) = PctOf(rows, S)
  BY SameSums
<1> QED BY <1>4, <1>5 DEF Bears, SameRow

\* A stack that a checked item has just joined is borne: by what the item was
\* checked against and, when it asks for no compute, by the stack it joined.
LEMMA NewInStack ==
  ASSUME TypeOK, TypeOK', CapacityInv, NEW S \in SUBSET Id, Stacked(S)', NEW r \in S,
         NEW item \in Item, NEW own, Fits(item, own),
         rows'[r].gpu = item.gpu, rows'[r].mem = item.mem, rows'[r].pct = item.pct,
         rows'[r].start = item.start, rows'[r].end = item.end,
         \A q \in S \ {r} : /\ q # own /\ Live(q) /\ q \notin unchecked
                            /\ SameRow(rows'[q], rows[q])
  PROVE  Bears(S)'
<1>1. PICK R \in SUBSET Id : R = S \ {r}
  OBVIOUS
<1>2. IsFiniteSet(S) /\ IsFiniteSet(R)
  BY FiniteRows
<1>3. /\ \A x \in S : rows'[x].mem \in Nat /\ rows'[x].pct \in Nat
      /\ item.mem \in Nat /\ item.pct \in Nat /\ item.pct <= 100
  BY RowShares DEF TypeOK, Item
<1>4. MemOf(rows', S) = item.mem + MemOf(rows', R) /\ PctOf(rows', S) = item.pct + PctOf(rows', R)
  BY <1>1, <1>2, <1>3, MemRemove, PctRemove
<1>5. MemOf(rows', R) = MemOf(rows, R) /\ PctOf(rows', R) = PctOf(rows, R)
  BY <1>1, SameSums
<1>6. MemOf(rows, R) \in Nat /\ PctOf(rows, R) \in Nat
  <2>1. \A x \in R : rows[x].mem \in Nat /\ rows[x].pct \in Nat
    BY RowShares DEF TypeOK
  <2> QED BY <1>2, <2>1, MemBounds, PctBounds
<1>7. CASE R = {}
  <2>1. PctOf(rows', S) <= 100
    BY <1>3, <1>4, <1>5, <1>7, PctNone
  <2>2. \A q, x \in S : q = x
    BY <1>1, <1>7
  <2> QED BY <2>1, <2>2 DEF Bears
<1>8. CASE R # {}
  <2>1. ASSUME NEW q \in R PROVE Contend(r, q)'
    BY <1>1 DEF Stacked
  <2>2. ASSUME NEW q \in R
        PROVE  q \in Beside(item, own) /\ rows'[q].gpu = item.gpu
    <3>1. Contend(r, q)' /\ SameRow(rows'[q], rows[q]) /\ Live(q) /\ q # own
      BY <1>1, <2>1
    <3> QED BY <3>1 DEF Contend, Beside, SameRow, SameGpu, Overlap
  <2>3. R \in SUBSET Beside(item, own)
    BY <2>2
  <2>4. /\ MemTotal[item.gpu] # 0 => MemOf(rows, R) + item.mem <= MemTotal[item.gpu]
        /\ item.pct # 0 => PctOf(rows, R) + item.pct <= 100
    BY <1>8, <2>3 DEF Fits
  <2>5. Stacked(R)'
    BY <1>1 DEF Stacked
  <2>6. Bears(R)'
    BY <1>1, <2>5, OldStack
  <2>7. PctOf(rows, R) <= 100
    BY <1>5, <1>8, <2>6 DEF Bears
  <2>8. PctOf(rows', S) <= 100
    BY <1>3, <1>4, <1>5, <1>6, <2>4, <2>7
  <2>9. MemTotal[item.gpu] # 0 => MemOf(rows', S) <= MemTotal[item.gpu]
    BY <1>3, <1>4, <1>5, <1>6, <2>4
  <2>10. \A x \in S : rows'[x].gpu = item.gpu
    BY <1>1, <2>2
  <2> QED BY <2>8, <2>9, <2>10 DEF Bears
<1> QED BY <1>7, <1>8
\* The initial state: nothing is stacked, nothing checked.
LEMMA CapacityInit == Init => CapacityInv
<1> SUFFICES ASSUME Init PROVE CapacityInv
  OBVIOUS
<1>1. ASSUME NEW s \in Session PROVE CheckedFits(s) /\ EditKeepsShare(s)
  BY DEF Init, CheckedFits, EditKeepsShare, Idle
<1>2. ASSUME NEW S \in SUBSET Id, Stacked(S) PROVE Bears(S)
  <2>1. S = {}
    BY <1>2 DEF Init, Stacked, Live, NoRow, ACTIVE_STATUSES
  <2> QED BY <2>1 DEF Bears
<1> QED BY <1>1, <1>2 DEF CapacityInv

\* A step that leaves every transaction alone and adds no live row.
LEMMA StatusCapacity ==
  ASSUME BookingInv, CapacityInv, UNCHANGED <<sess, unchecked>>,
         \A r \in Id : SameRow(rows'[r], rows[r]) /\ (Live(r)' => Live(r))
  PROVE  CapacityInv'
<1>1. ASSUME NEW t \in Session PROVE CheckedFits(t)' /\ EditKeepsShare(t)'
  <2>1. TypeOK /\ CheckedFits(t) /\ EditKeepsShare(t) /\ sess'[t] = sess[t]
    BY DEF BookingInv, CapacityInv
  <2>2. CheckedFits(t)'
    BY <2>1, FitsIsStable
  <2>3. sess[t].id # 0 => sess[t].id \in Id
    BY DEF BookingInv, EditShape
  <2> QED BY <2>1, <2>2, <2>3 DEF EditKeepsShare, SameRow
<1>2. ASSUME NEW S \in SUBSET Id, Stacked(S)' PROVE Bears(S)'
  <2>1. \A r \in S : Live(r) /\ SameRow(rows'[r], rows[r]) /\ r \notin unchecked
    BY <1>2 DEF Stacked
  <2> QED BY <1>2, <2>1, OldStack
<1> QED BY <1>1, <1>2 DEF CapacityInv

\* A step of one transaction that writes nothing to the table.
LEMMA SessionCapacity ==
  ASSUME BookingInv, CapacityInv, NEW s \in Session, UNCHANGED <<rows, unchecked>>,
         \A t \in Session \ {s} : sess'[t] = sess[t],
         CheckedFits(s)', EditKeepsShare(s)'
  PROVE  CapacityInv'
<1>0. \A r \in Id : SameRow(rows'[r], rows[r]) /\ (Live(r)' => Live(r))
  BY DEF SameRow, Live
<1>1. ASSUME NEW t \in Session, t # s PROVE CheckedFits(t)' /\ EditKeepsShare(t)'
  <2>1. TypeOK /\ CheckedFits(t) /\ EditKeepsShare(t) /\ sess'[t] = sess[t]
    BY <1>1 DEF BookingInv, CapacityInv
  <2>2. CheckedFits(t)'
    BY <1>0, <2>1, FitsIsStable
  <2> QED BY <2>1, <2>2 DEF EditKeepsShare
<1>2. ASSUME NEW S \in SUBSET Id, Stacked(S)' PROVE Bears(S)'
  <2>1. \A r \in S : Live(r) /\ SameRow(rows'[r], rows[r]) /\ r \notin unchecked
    BY <1>0, <1>2 DEF Stacked
  <2> QED BY <1>2, <2>1, OldStack
<1> QED BY <1>1, <1>2 DEF CapacityInv

\* A transaction that has ended has nothing to keep.
LEMMA IdleCapacity ==
  ASSUME BookingInv, NEW s \in Session, sess' = [sess EXCEPT ![s] = Idle]
  PROVE  /\ CheckedFits(s)' /\ EditKeepsShare(s)'
         /\ \A t \in Session \ {s} : sess'[t] = sess[t]
<1>1. sess'[s] = Idle /\ \A t \in Session \ {s} : sess'[t] = sess[t]
  BY DEF BookingInv, TypeOK
<1>2. Idle.pc = "idle" /\ Idle.id = 0
  BY DEF Idle
<1> QED BY <1>1, <1>2 DEF CheckedFits, EditKeepsShare

\* A request that has just begun has checked nothing, and an edit starts from
\* the share of its row.
LEMMA CreateCapacity ==
  ASSUME BookingInv, CapacityInv, NEW s \in Session, NEW req \in CreateRequests, Create(s, req)
  PROVE  CapacityInv'
<1>1. /\ sess'[s] = Begin("check", 0, req.items, {}, req, req.share)
      /\ \A t \in Session \ {s} : sess'[t] = sess[t]
      /\ UNCHANGED <<rows, unchecked>>
  BY DEF Create, BookingInv, TypeOK
<1>2. sess'[s].id = 0 /\ sess'[s].idx = 1
  BY <1>1 DEF Begin
<1>3. CheckedFits(s)' /\ EditKeepsShare(s)'
  BY <1>2 DEF CheckedFits, EditKeepsShare
<1> QED BY <1>1, <1>3, SessionCapacity

\* The same for an edit.
LEMMA ModifyCapacity ==
  ASSUME BookingInv, CapacityInv, NEW s \in Session, NEW r \in Id, NEW e \in EditRequests,
         Modify(s, r, e)
  PROVE  CapacityInv'
<1>1. /\ \A t \in Session \ {s} : sess'[t] = sess[t]
      /\ UNCHANGED <<rows, unchecked>>
  BY DEF Modify, BookingInv, TypeOK
<1>2. sess'[s].id = r /\ sess'[s].idx = 1 /\ sess'[s].items[1].pct = rows[r].pct
  BY DEF Modify, Begin, BookingInv, TypeOK
<1>3. CheckedFits(s)' /\ EditKeepsShare(s)'
  BY <1>1, <1>2 DEF CheckedFits, EditKeepsShare
<1> QED BY <1>1, <1>3, SessionCapacity

\* An item that was found free of conflicts fits beside every part of its
\* window: a part weighs no more than the whole.
LEMMA NoConflictFits ==
  ASSUME TypeOK, NEW item \in Item, NEW own, item.gpu # NoGpu,
         ~Conflict(item, InWindow(item) \ {own})
  PROVE  Fits(item, own)
<1>1. PICK W : W = Beside(item, own)
  OBVIOUS
<1>2. InWindow(item) \ {own} = W
  BY <1>1 DEF InWindow, Beside
<1>3. W \in SUBSET Id /\ IsFiniteSet(W)
  BY <1>1, FiniteRows DEF Beside
<1>4. /\ \A x \in W : rows[x].mem \in Nat /\ rows[x].pct \in Nat
      /\ item.mem \in Nat /\ item.pct \in Nat /\ item.gpu \in Gpu
      /\ MemTotal[item.gpu] \in Nat
  BY <1>3, RowShares, CapacityAssumption DEF TypeOK, Item
<1>5. ASSUME W # {}
      PROVE  /\ MemTotal[item.gpu] # 0 => MemOf(rows, W) + item.mem <= MemTotal[item.gpu]
             /\ item.pct # 0 => PctOf(rows, W) + item.pct <= 100
  <2>1. ~MemoryConflict(item, W) /\ ~ComputeConflict(item, W)
    BY <1>2, <1>5 DEF Conflict
  <2>2. MemoryConflict(item, W) <=> /\ MemTotal[item.gpu] # 0
                                    /\ MemOf(rows, W) + item.mem > MemTotal[item.gpu]
    BY DEF MemoryConflict, MemOf, MapThenSumSet, MapThenFoldSet
  <2>3. ComputeConflict(item, W) <=> item.pct # 0 /\ PctOf(rows, W) + item.pct > 100
    BY DEF ComputeConflict, PctOf, MapThenSumSet, MapThenFoldSet
  <2>4. MemOf(rows, W) \in Nat /\ PctOf(rows, W) \in Nat
    BY <1>3, <1>4, MemBounds, PctBounds
  <2> QED BY <1>4, <2>1, <2>2, <2>3, <2>4
<1>6. ASSUME NEW S \in SUBSET W, S # {}
      PROVE  /\ MemTotal[item.gpu] # 0 => MemOf(rows, S) + item.mem <= MemTotal[item.gpu]
             /\ item.pct # 0 => PctOf(rows, S) + item.pct <= 100
  <2>1. /\ MemOf(rows, S) \in Nat /\ MemOf(rows, W) \in Nat /\ MemOf(rows, S) <= MemOf(rows, W)
        /\ PctOf(rows, S) \in Nat /\ PctOf(rows, W) \in Nat /\ PctOf(rows, S) <= PctOf(rows, W)
    BY <1>3, <1>4, MemBounds, PctBounds
  <2>2. W # {}
    BY <1>6
  <2> QED BY <1>4, <1>5, <2>1, <2>2
<1> QED BY <1>1, <1>6 DEF Fits
\* A scan adds a window to those the transaction knows to fit.
LEMMA CheckWindowCapacity ==
  ASSUME BookingInv, CapacityInv, NEW s \in Session, CheckWindow(s)
  PROVE  CapacityInv'
<1> DEFINE item     == sess[s].items[sess[s].idx]
           conflict == item.gpu # NoGpu /\ Conflict(item, InWindow(item) \ {sess[s].id})
           pc       == IF conflict THEN "refused"
                       ELSE IF sess[s].idx = Len(sess[s].items) THEN "write" ELSE "check"
<1>1. /\ sess[s] \in Request /\ sess[s].pc = "check" /\ sess[s].items \in Seq(Item)
      /\ sess[s].idx \in 1 .. Len(sess[s].items) /\ sess[s].idx \in Nat
      /\ UNCHANGED <<rows, nextId, now, unchecked>>
  BY DEF CheckWindow, BookingInv, TypeOK, CreateShape, EditShape, Request
<1>2. CheckedFits(s) /\ EditKeepsShare(s)
  BY DEF CapacityInv
<1>3. CASE conflict /\ sess[s].id = 0
  <2>1. sess' = [sess EXCEPT ![s] = Idle]
    BY <1>3 DEF CheckWindow
  <2> QED BY <1>1, <2>1, IdleCapacity, SessionCapacity
<1>4. CASE ~(conflict /\ sess[s].id = 0)
  <2>1. /\ sess'[s] = Advance(sess[s], pc)
        /\ \A t \in Session \ {s} : sess'[t] = sess[t]
    BY <1>4 DEF CheckWindow, BookingInv, TypeOK
  <2>2. item \in Item
    BY <1>1
  <2>3. pc # "refused" /\ item.gpu # NoGpu => Fits(item, sess[s].id)
    BY <2>2, NoConflictFits DEF BookingInv
  <2>4. pc \in {"refused", "write", "check"}
    OBVIOUS
  <2> HIDE DEF pc
  <2>5. /\ sess'[s].pc = pc /\ sess'[s].idx = sess[s].idx + 1
        /\ sess'[s].id = sess[s].id /\ sess'[s].items = sess[s].items
    BY <1>1, <2>1, <2>4, AdvanceFields
  <2>6. EditKeepsShare(s)'
    BY <1>1, <1>2, <2>5 DEF EditKeepsShare
  <2>7. ASSUME pc # "refused", NEW j \in 1 .. sess[s].idx, sess[s].items[j].gpu # NoGpu
        PROVE  Fits(sess[s].items[j], sess[s].id)
    <3>1. CASE j = sess[s].idx
      BY <2>3, <2>7, <3>1
    <3>2. CASE j # sess[s].idx
      BY <1>1, <1>2, <2>7, <3>2 DEF CheckedFits
    <3> QED BY <3>1, <3>2
  <2>8. \A x, own : Fits(x, own)' <=> Fits(x, own)
    BY <1>1 DEF Fits, Beside, Live
  <2>9. CheckedFits(s)'
    <3>1. sess'[s].idx - 1 = sess[s].idx
      BY <1>1, <2>5
    <3>2. ASSUME pc # "refused", NEW j \in 1 .. sess[s].idx, sess[s].items[j].gpu # NoGpu
          PROVE  Fits(sess[s].items[j], sess[s].id)'
      <4>1. PICK x : x = sess[s].items[j]
        OBVIOUS
      <4>2. PICK own : own = sess[s].id
        OBVIOUS
      <4>3. Fits(x, own)'
        BY <2>7, <2>8, <3>2, <4>1, <4>2
      <4> QED BY <2>5, <4>1, <4>2, <4>3
    <3> QED BY <2>5, <3>1, <3>2 DEF CheckedFits
  <2> QED BY <1>1, <2>1, <2>6, <2>9, SessionCapacity
<1> QED BY <1>3, <1>4
\* The columns of the rows a creation inserts.
LEMMA InsertedRow ==
  ASSUME BookingInv, NEW s \in Session, InsertRows(s), NEW r \in Id,
         r \in nextId .. nextId + Len(sess[s].items) - 1
  PROVE  \E j \in 1 .. Len(sess[s].items) : LET item == sess[s].items[j] IN
           /\ item \in Item
           /\ rows'[r].gpu = item.gpu /\ rows'[r].mem = item.mem /\ rows'[r].pct = item.pct
           /\ rows'[r].start = item.start /\ rows'[r].end = item.end
           /\ rows'[r].group = nextId
<1>1. nextId \in Nat /\ sess[s].items \in Seq(Item) /\ Len(sess[s].items) \in Nat
  BY DEF BookingInv, TypeOK, Request
<1>2. PICK j \in 1 .. Len(sess[s].items) : j = r - nextId + 1
  BY <1>1
<1>3. rows'[r] = NewRow(s, j, nextId)
  BY <1>2 DEF InsertRows
<1>4. sess[s].items[j] \in Item
  BY <1>1, <1>2
<1> QED BY <1>3, <1>4 DEF NewRow

\* A creation adds at most one row to a stack, since its rows are one request.
LEMMA InsertRowsCapacity ==
  ASSUME BookingInv, BookingInv', CapacityInv, NEW s \in Session, InsertRows(s)
  PROVE  CapacityInv'
<1>1. PICK new : new = nextId .. nextId + Len(sess[s].items) - 1
  OBVIOUS
<1>2. /\ sess[s].pc = "write" /\ sess[s].id = 0
      /\ sess[s].idx = Len(sess[s].items) + 1 /\ Len(sess[s].items) \in Nat
      /\ unchecked' = unchecked /\ sess' = [sess EXCEPT ![s] = Idle]
      /\ ~EntryBlocked(s)
  <2>1. ~EntryBlocked(s)
    BY DEF InsertRows, Blocked
  <2> QED BY <2>1 DEF InsertRows, BookingInv, TypeOK, CreateShape, Request
<1>3. \A r \in Id : r \notin new => rows'[r] = rows[r]
  BY <1>1 DEF InsertRows
<1>4. \A r \in Id : r \notin new => SameRow(rows'[r], rows[r]) /\ (Live(r)' => Live(r))
  BY <1>3 DEF SameRow, Live
<1>5. ASSUME NEW t \in Session, t # s PROVE CheckedFits(t)' /\ EditKeepsShare(t)'
  <2>1. TypeOK /\ CheckedFits(t) /\ EditKeepsShare(t) /\ sess'[t] = sess[t]
    BY <1>2, <1>5, IdleCapacity DEF BookingInv, CapacityInv
  <2>2. ASSUME NEW r \in Id, r \in new, NEW l \in Scanned(t)
        PROVE  ~Covers(l, rows'[r].gpu, rows'[r].start)
    <3>1. PICK j \in 1 .. Len(sess[s].items) :
             rows'[r].gpu = sess[s].items[j].gpu /\ rows'[r].start = sess[s].items[j].start
      BY <1>1, <2>2, InsertedRow
    <3>2. j \in DOMAIN sess[s].items
      BY <3>1 DEF BookingInv, TypeOK, Request
    <3>3. ~InsertBlocked(s, sess[s].items[j].gpu, sess[s].items[j].start)
      BY <1>2, <3>2 DEF EntryBlocked
    <3> QED BY <1>5, <3>1, <3>3 DEF InsertBlocked
  <2>3. CheckedFits(t)'
    BY <1>4, <2>1, <2>2, FitsIsStable
  <2>4. sess[t].id # 0 => sess[t].id \in Id /\ sess[t].id \notin new
    <3>1. sess[t].id # 0 => sess[t].id \in Id /\ sess[t].id < nextId
      BY DEF BookingInv, EditShape, FreshKeys, Exists
    <3> QED BY <1>1, <3>1 DEF BookingInv, TypeOK, Id
  <2>5. EditKeepsShare(t)'
    BY <1>3, <2>1, <2>4 DEF EditKeepsShare
  <2> QED BY <2>3, <2>5
<1>6. ASSUME NEW S \in SUBSET Id, Stacked(S)' PROVE Bears(S)'
  <2>1. \A q \in S : q \notin unchecked /\ Live(q)'
    BY <1>2, <1>6 DEF Stacked
  <2>2. CASE S \cap new = {}
    BY <1>4, <1>6, <2>1, <2>2, OldStack
  <2>3. ASSUME NEW r \in S, r \in new PROVE Bears(S)'
    <3>1. PICK j \in 1 .. Len(sess[s].items) :
             /\ sess[s].items[j] \in Item
             /\ rows'[r].gpu = sess[s].items[j].gpu /\ rows'[r].mem = sess[s].items[j].mem
             /\ rows'[r].pct = sess[s].items[j].pct
             /\ rows'[r].start = sess[s].items[j].start /\ rows'[r].end = sess[s].items[j].end
             /\ rows'[r].group = nextId
      BY <1>1, <2>3, InsertedRow
    <3>2. PICK item \in Item : item = sess[s].items[j]
      BY <3>1
    <3>3. Fits(item, 0)
      <4>1. rows'[r].gpu # NoGpu
        BY <1>6 DEF Stacked
      <4>2. CheckedFits(s)
        BY DEF CapacityInv
      <4>3. j \in 1 .. sess[s].idx - 1
        BY <1>2
      <4> QED BY <1>2, <3>1, <3>2, <4>1, <4>2, <4>3 DEF CheckedFits
    <3>4. ASSUME NEW q \in S \ {r} PROVE q \notin new
      <4>1. rows'[q].group # rows'[r].group
        BY <1>6 DEF Stacked
      <4>2. q \in new => rows'[q].group = nextId
        BY <1>1, InsertedRow
      <4> QED BY <3>1, <4>1, <4>2
    <3>5. \A q \in S \ {r} : /\ q # 0 /\ Live(q) /\ q \notin unchecked
                             /\ SameRow(rows'[q], rows[q])
      BY <1>4, <2>1, <3>4 DEF Id
    <3>6. TypeOK /\ TypeOK'
      BY DEF BookingInv
    <3> QED BY <1>6, <3>1, <3>2, <3>3, <3>5, <3>6, NewInStack
  <2> QED BY <2>2, <2>3
<1>7. CheckedFits(s)' /\ EditKeepsShare(s)'
  BY <1>2, IdleCapacity
<1> QED BY <1>5, <1>6, <1>7 DEF CapacityInv
\* The commit of an edited row: its window was checked, or did not move, or the
\* row is noted in unchecked and belongs to no stack.
LEMMA EditedRowCapacity ==
  ASSUME BookingInv, BookingInv', CapacityInv, NEW s \in Session, sess[s].id # 0,
         sess[s].pc \in {"write", "refused"}, NEW trigger \in Time, ~EntryBlocked(s),
         rows' = [rows EXCEPT ![sess[s].id] = EditedRow(s, trigger)],
         sess' = [sess EXCEPT ![s] = Idle],
         \A a \in Id : a # sess[s].id => (a \in unchecked' <=> a \in unchecked),
         sess[s].pc = "refused" => sess[s].id \in unchecked',
         sess[s].moved = {} => unchecked' = unchecked
  PROVE  CapacityInv'
<1>1. PICK r \in Id : r = sess[s].id
  BY DEF BookingInv, EditShape
<1>2. PICK item \in Item : item = sess[s].items[1]
  <2>1. sess[s].items \in Seq(Item) /\ Len(sess[s].items) = 1
    BY DEF BookingInv, EditShape, TypeOK, Request
  <2> QED BY <2>1
<1>3. /\ rows[r].status = "scheduled" /\ Len(sess[s].items) = 1
      /\ item.gpu = rows[r].gpu /\ item.mem = rows[r].mem /\ item.pct = rows[r].pct
      /\ sess[s].moved = {} => item.start = rows[r].start /\ item.end = rows[r].end
      /\ sess[s].pc = "write" /\ sess[s].moved # {} /\ item.gpu # NoGpu => sess[s].idx = 2
  BY <1>1, <1>2 DEF BookingInv, EditShape, CapacityInv, EditKeepsShare
<1>4. /\ rows'[r].start = item.start /\ rows'[r].end = item.end
      /\ rows'[r].gpu = item.gpu /\ rows'[r].mem = item.mem /\ rows'[r].pct = item.pct
      /\ rows'[r].status = "scheduled" /\ rows'[r].group = rows[r].group
  BY <1>1, <1>2, <1>3, EditedRowFields DEF BookingInv, TypeOK
<1>5. \A a \in Id : a # r => /\ rows'[a] = rows[a] /\ SameRow(rows'[a], rows[a])
                             /\ (Live(a)' => Live(a))
  <2>1. \A a \in Id : a # r => rows'[a] = rows[a]
    BY <1>1 DEF BookingInv, TypeOK
  <2> QED BY <2>1 DEF SameRow, Live
<1>6. Live(r) /\ (sess[s].moved = {} => SameRow(rows'[r], rows[r]))
  BY <1>3, <1>4 DEF Live, SameRow, ACTIVE_STATUSES
<1>7. ASSUME NEW t \in Session, t # s PROVE CheckedFits(t)' /\ EditKeepsShare(t)'
  <2>1. TypeOK /\ CheckedFits(t) /\ EditKeepsShare(t) /\ sess'[t] = sess[t]
    BY <1>7, IdleCapacity DEF BookingInv, CapacityInv
  <2>2. sess[s].moved # {} => \A l \in Scanned(t) : ~Covers(l, rows'[r].gpu, rows'[r].start)
    BY <1>2, <1>4, <1>7 DEF EntryBlocked, InsertBlocked
  <2>3. \A a \in Id : Live(a)' =>
          \/ Live(a) /\ SameRow(rows'[a], rows[a])
          \/ \A l \in Scanned(t) : ~Covers(l, rows'[a].gpu, rows'[a].start)
    BY <1>5, <1>6, <2>2
  <2>4. CheckedFits(t)'
    BY <2>1, <2>3, FitsIsStable
  <2>5. sess[t].id # r
    BY <1>1, <1>7 DEF BookingInv, RowLocks
  <2>6. sess[t].id # 0 => rows'[sess[t].id] = rows[sess[t].id]
    BY <1>5, <2>5 DEF BookingInv, EditShape
  <2>7. EditKeepsShare(t)'
    BY <2>1, <2>6 DEF EditKeepsShare
  <2> QED BY <2>4, <2>7
<1>8. ASSUME NEW S \in SUBSET Id, Stacked(S)' PROVE Bears(S)'
  <2>1. \A q \in S : q \notin unchecked' /\ Live(q)' /\ rows'[q].gpu # NoGpu
    BY <1>8 DEF Stacked
  <2>2. \A q \in S : q # r => Live(q) /\ SameRow(rows'[q], rows[q]) /\ q \notin unchecked
    BY <1>1, <1>5, <2>1
  <2>3. CASE r \notin S
    BY <1>8, <2>2, <2>3, OldStack
  <2>4. CASE r \in S /\ sess[s].moved = {}
    <3>1. r \notin unchecked
      BY <2>1, <2>4
    <3> QED BY <1>6, <1>8, <2>2, <2>4, <3>1, OldStack
  <2>5. CASE r \in S /\ sess[s].moved # {}
    <3>1. sess[s].pc = "write" /\ item.gpu # NoGpu
      BY <1>1, <1>4, <2>1, <2>5
    <3>2. sess[s].idx = 2
      BY <1>3, <2>5, <3>1
    <3>3. Fits(item, r)
      BY <1>1, <1>2, <1>3, <3>1, <3>2 DEF CapacityInv, CheckedFits
    <3>4. TypeOK /\ TypeOK'
      BY DEF BookingInv
    <3>5. \A q \in S \ {r} : /\ q # r /\ Live(q) /\ q \notin unchecked
                             /\ SameRow(rows'[q], rows[q])
      BY <2>2
    <3> QED BY <1>4, <1>8, <2>5, <3>3, <3>4, <3>5, NewInStack
  <2> QED BY <2>3, <2>4, <2>5
<1>9. CheckedFits(s)' /\ EditKeepsShare(s)'
  BY IdleCapacity
<1> QED BY <1>7, <1>8, <1>9 DEF CapacityInv

\* What the two commits of an edit do, as far as the sums are concerned.
LEMMA EditCapacity ==
  ASSUME BookingInv, BookingInv', CapacityInv, NEW s \in Session,
         ApplyEdit(s) \/ CommitRefusedEdit(s)
  PROVE  CapacityInv'
<1>1. sess[s].id # 0 /\ sess[s].pc \in {"write", "refused"} /\ sess' = [sess EXCEPT ![s] = Idle]
  BY DEF ApplyEdit, CommitRefusedEdit, BookingInv, CreateShape
<1>2. /\ sess[s].id \in Id
      /\ sess[s].moved = {} => sess[s].idx = 1 /\ sess[s].pc = "write"
  BY <1>1 DEF BookingInv, EditShape
<1>3. CASE rows' = rows /\ unchecked' = unchecked
  BY <1>1, <1>3, IdleCapacity, SessionCapacity
<1>4. CASE ~(rows' = rows /\ unchecked' = unchecked)
  <2>0. /\ rows[sess[s].id].trigger \in Time /\ sess[s].trigger \in Time
        /\ sess[s].items[1].start \in Time
    <3>1. sess[s] \in Request /\ Len(sess[s].items) = 1 /\ rows[sess[s].id] \in Row
      BY <1>1 DEF BookingInv, EditShape, TypeOK
    <3>2. sess[s].items[1] \in Item
      BY <3>1 DEF Request
    <3> QED BY <3>1, <3>2 DEF Request, Row, Item, Time
  <2>1. ~EntryBlocked(s)
    <3>1. ~Blocked(s)
      BY <1>4 DEF ApplyEdit, CommitRefusedEdit
    <3> QED BY <1>1, <3>1 DEF Blocked
  <2>2. PICK trigger \in Time : rows' = [rows EXCEPT ![sess[s].id] = EditedRow(s, trigger)]
    <3>1. CASE ApplyEdit(s)
      BY <1>4, <2>0, <3>1 DEF ApplyEdit
    <3>2. CASE CommitRefusedEdit(s)
      BY <1>4, <2>0, <3>2 DEF CommitRefusedEdit
    <3> QED BY <3>1, <3>2, Zenon
  <2>3. /\ \A a \in Id : a # sess[s].id => (a \in unchecked' <=> a \in unchecked)
        /\ sess[s].pc = "refused" => sess[s].id \in unchecked'
        /\ sess[s].moved = {} => unchecked' = unchecked
    <3>1. CASE ApplyEdit(s)
      <4>1. /\ sess[s].pc = "write"
            /\ \/ unchecked' = unchecked
               \/ sess[s].idx = 2 /\ unchecked' = unchecked \ {sess[s].id}
        BY <3>1 DEF ApplyEdit
      <4> QED BY <1>2, <4>1
    <3>2. CASE CommitRefusedEdit(s)
      <4>1. sess[s].pc = "refused" /\ unchecked' = unchecked \cup {sess[s].id}
        BY <1>4, <3>2 DEF CommitRefusedEdit
      <4> QED BY <1>2, <4>1
    <3> QED BY <3>1, <3>2
  <2> QED BY <1>1, <2>1, <2>2, <2>3, EditedRowCapacity
<1> QED BY <1>3, <1>4

\* The inductive step: every action preserves the sums.
LEMMA CapacityStep == BookingInv /\ BookingInv' /\ CapacityInv /\ [Next]_vars => CapacityInv'
<1> SUFFICES ASSUME BookingInv, BookingInv', CapacityInv, [Next]_vars PROVE CapacityInv'
  OBVIOUS
<1>1. ASSUME NEW s \in Session, NEW req \in CreateRequests, Create(s, req) PROVE CapacityInv'
  BY <1>1, CreateCapacity
<1>2. ASSUME NEW s \in Session, NEW r \in Id, NEW e \in EditRequests, Modify(s, r, e)
      PROVE  CapacityInv'
  BY <1>2, ModifyCapacity
<1>3. ASSUME NEW s \in Session, SessionStep(s) PROVE CapacityInv'
  BY <1>3, CheckWindowCapacity, InsertRowsCapacity, EditCapacity DEF SessionStep
<1>4. ASSUME NEW s \in Session, LockAbort(s) PROVE CapacityInv'
  BY <1>4, IdleCapacity, SessionCapacity DEF LockAbort
<1>5. ASSUME NEW R \in SUBSET Id, CancelRows(R) PROVE CapacityInv'
  <2>1. \A r \in Id : SameRow(rows'[r], rows[r]) /\ (Live(r)' => Live(r))
    BY <1>5 DEF CancelRows, SameRow, Live, BookingInv, TypeOK, Row
  <2> QED BY <1>5, <2>1, StatusCapacity DEF CancelRows
<1>6. ASSUME NEW failing \in SUBSET Id, Tick(failing) PROVE CapacityInv'
  <2>1. \A r \in Id : SameRow(rows'[r], rows[r]) /\ (Live(r)' => Live(r))
    BY <1>6 DEF Tick, Promoted, Closed, SameRow, Live, BookingInv, TypeOK, Row, ACTIVE_STATUSES
  <2> QED BY <1>6, <2>1, StatusCapacity DEF Tick
<1>7. CASE UNCHANGED <<rows, sess, unchecked>>
  BY <1>7, StatusCapacity DEF SameRow, Live
<1> QED BY <1>1, <1>2, <1>3, <1>4, <1>5, <1>6, <1>7
           DEF Next, vars, AdvanceClock, Cancel, CancelGroup

\* The invariant says what CrossRequestCapacity says.
LEMMA CapacityFollows ==
  ASSUME TypeOK, CapacityInv
  PROVE  CrossRequestCapacity
<1> SUFFICES ASSUME NEW S \in Stacks, NEW r \in S
             PROVE  /\ MemTotal[rows[r].gpu] # 0
                         => MapThenSumSet(LAMBDA q : rows[q].mem, S) <= MemTotal[rows[r].gpu]
                    /\ MapThenSumSet(LAMBDA q : rows[q].pct, S) <= 100
  BY DEF CrossRequestCapacity
<1>1. S \in SUBSET Id /\ Stacked(S) /\ Cardinality(S) >= 2
  BY DEF Stacks, Stacked
<1>2. Bears(S)
  BY <1>1 DEF CapacityInv
<1>3. PICK q \in S : q # r
  <2>1. S # {r}
    BY <1>1, FS_Singleton
  <2> QED BY <2>1
<1>4. /\ MemTotal[rows[r].gpu] # 0 => MemOf(rows, S) <= MemTotal[rows[r].gpu]
      /\ PctOf(rows, S) <= 100
  BY <1>2, <1>3 DEF Bears
<1>5. MemOf(rows, S) = MapThenSumSet(LAMBDA x : rows[x].mem, S)
  BY DEF MemOf, MapThenSumSet, MapThenFoldSet
<1>6. PctOf(rows, S) = MapThenSumSet(LAMBDA x : rows[x].pct, S)
  BY DEF PctOf, MapThenSumSet, MapThenFoldSet
<1>7. MemTotal[rows[r].gpu] # 0
        => MapThenSumSet(LAMBDA x : rows[x].mem, S) <= MemTotal[rows[r].gpu]
  BY <1>4, <1>5
<1>8. MapThenSumSet(LAMBDA x : rows[x].pct, S) <= 100
  BY <1>4, <1>6
<1> QED BY <1>7, <1>8

\* No overcommitment across requests: however many shared reservations were
\* granted one by one, by requests that each summed only what they saw, those
\* that hold a card together never ask it for more memory or compute than it
\* has, unless a refused edit has put one of them there.
THEOREM NoCrossRequestOvercommit == Spec => []CrossRequestCapacity
<1>1. Init => BookingInv /\ CapacityInv
  BY BookingInit, CapacityInit
<1>2. BookingInv /\ CapacityInv /\ [Next]_vars => BookingInv' /\ CapacityInv'
  BY BookingStep, CapacityStep
<1>3. BookingInv /\ CapacityInv => CrossRequestCapacity
  BY CapacityFollows DEF BookingInv
<1> QED BY <1>1, <1>2, <1>3, PTL DEF Spec
=============================================================================
