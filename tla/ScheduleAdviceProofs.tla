------------------------ MODULE ScheduleAdviceProofs ------------------------
(***************************************************************************)
(* Proofs about ScheduleAdvice, for every table the reservation book can   *)
(* reach, every set of servers, every horizon and every request:           *)
(* recommend is never late, and what it recommends can be booked where its *)
(* property says so.  Both are facts about the sweep of                    *)
(* _earliest_window_for_server over intervals that are not empty, which is *)
(* what the invariant OrderInv gives; the sweep is a recursion over the    *)
(* instants, and every fact about it is shown by looking at the first      *)
(* instant at which it would fail.                                         *)
(***************************************************************************)
EXTENDS ScheduleAdvice, ReservationBookingProofs

-----------------------------------------------------------------------------
(* Every window ends after it starts: a third invariant of the book, on    *)
(* top of BookingInv.  A creation checks it before its first lock; an edit *)
(* may hold a draft that breaks it, but ck_res_time_order keeps that draft *)
(* out of the table.                                                       *)

Ordered(w) == w.start < w.end

OrderInv == /\ \A r \in Id : Exists(r) => Ordered(rows[r])
            /\ \A s \in Session : sess[s].id = 0 =>
                 \A i \in DOMAIN sess[s].items : Ordered(sess[s].items[i])

\* No row, no transaction.
LEMMA OrderInit == Init => OrderInv
BY DEF Init, OrderInv, Exists, NoRow, Idle

\* A step that leaves every row its window, or writes an ordered one, and whose
\* creations in flight stay or start ordered.
LEMMA OrderKept ==
  ASSUME OrderInv,
         \A r \in Id : Exists(r)' => \/ Ordered(rows'[r])
                                     \/ /\ Exists(r) /\ rows'[r].start = rows[r].start
                                        /\ rows'[r].end = rows[r].end,
         \A s \in Session : sess'[s].id = 0 =>
            \/ \A i \in DOMAIN sess'[s].items : Ordered(sess'[s].items[i])
            \/ sess[s].id = 0 /\ sess'[s].items = sess[s].items
  PROVE  OrderInv'
BY DEF OrderInv, Ordered

\* Every step of the book keeps the windows in order.
LEMMA OrderStep == BookingInv /\ OrderInv /\ [Next]_vars => OrderInv'
<1> SUFFICES ASSUME BookingInv, OrderInv, [Next]_vars PROVE OrderInv'
  OBVIOUS
<1>0. \A s \in Session : sess[s] \in Request
  BY DEF BookingInv, TypeOK
<1>1. ASSUME NEW s \in Session, NEW req \in CreateRequests, Create(s, req) PROVE OrderInv'
  <2>1. req.items \in Seq(Item) /\ \A i \in DOMAIN req.items : Ordered(req.items[i])
    <3>1. req.items \in Seq(Item)
      BY RequestAssumption DEF CreateRequest
    <3>2. \A i \in DOMAIN req.items : req.items[i] \in Item /\ req.items[i].end > req.items[i].start
      BY <1>1, <3>1 DEF Create, AcceptableBatch, ValidTime
    <3> QED BY <3>1, <3>2 DEF Ordered, Item
  <2>2. /\ sess' = [sess EXCEPT ![s] = Begin("check", 0, req.items, {}, req, req.share)]
        /\ rows' = rows
    BY <1>1 DEF Create
  <2>3. sess'[s].items = req.items /\ \A t \in Session : t # s => sess'[t] = sess[t]
    BY <2>2 DEF Begin, BookingInv, TypeOK
  <2> QED BY <2>1, <2>2, <2>3, OrderKept DEF Exists
<1>2. ASSUME NEW s \in Session, NEW r \in Id, NEW e \in EditRequests, Modify(s, r, e)
      PROVE  OrderInv'
  <2>1. sess'[s].id = r /\ r # 0 /\ rows' = rows /\ \A t \in Session : t # s => sess'[t] = sess[t]
    BY <1>2 DEF Modify, Begin, BookingInv, TypeOK, Id
  <2> QED BY <2>1, OrderKept DEF Exists
<1>3. ASSUME NEW s \in Session, sess' = [sess EXCEPT ![s] = Idle],
             \A r \in Id : Exists(r)' => \/ Ordered(rows'[r])
                                         \/ /\ Exists(r) /\ rows'[r].start = rows[r].start
                                            /\ rows'[r].end = rows[r].end
      PROVE  OrderInv'
  <2>1. sess'[s] = Idle /\ \A t \in Session : t # s => sess'[t] = sess[t]
    BY <1>3 DEF BookingInv, TypeOK
  <2>2. \A i \in DOMAIN sess'[s].items : Ordered(sess'[s].items[i])
    BY <2>1 DEF Idle
  <2> QED BY <1>3, <2>1, <2>2, OrderKept
<1>4. ASSUME NEW s \in Session, CheckWindow(s) PROVE OrderInv'
  <2>1. CASE sess' = [sess EXCEPT ![s] = Idle]
    BY <1>3, <1>4, <2>1 DEF CheckWindow, Exists
  <2>2. ASSUME NEW pc \in {"refused", "write", "check"}, sess' = [sess EXCEPT ![s] = Advance(sess[s], pc)]
        PROVE  OrderInv'
    <3>1. sess'[s].id = sess[s].id /\ sess'[s].items = sess[s].items
      BY <1>0, <2>2, AdvanceFields DEF BookingInv, TypeOK
    <3>2. rows' = rows /\ \A t \in Session : t # s => sess'[t] = sess[t]
      BY <1>4, <2>2 DEF CheckWindow, BookingInv, TypeOK
    <3> QED BY <3>1, <3>2, OrderKept DEF Exists
  <2> QED BY <1>4, <2>1, <2>2 DEF CheckWindow
<1>5. ASSUME NEW s \in Session, InsertRows(s) PROVE OrderInv'
  <2>1. ASSUME NEW r \in Id
        PROVE  rows'[r] = rows[r] \/ Ordered(rows'[r])
    <3> DEFINE n == Len(sess[s].items)
               j == r - nextId + 1
    <3>1. CASE r \in nextId .. nextId + n - 1
      <4>1. rows'[r] = NewRow(s, j, nextId)
        BY <1>5, <3>1 DEF InsertRows
      <4>2. sess[s].items \in Seq(Item) /\ j \in DOMAIN sess[s].items
        BY <1>0, <3>1 DEF Request, BookingInv, TypeOK, Id
      <4>3. Ordered(sess[s].items[j])
        BY <1>5, <4>2 DEF InsertRows, OrderInv
      <4> HIDE DEF j
      <4> QED BY <4>1, <4>3 DEF NewRow, Ordered
    <3>2. CASE r \notin nextId .. nextId + n - 1
      BY <1>5, <3>2 DEF InsertRows
    <3> QED BY <3>1, <3>2
  <2> QED BY <1>3, <1>5, <2>1 DEF InsertRows, Exists
<1>6. ASSUME NEW s \in Session, ApplyEdit(s) \/ CommitRefusedEdit(s) PROVE OrderInv'
  <2>1. sess[s].id \in Id
    BY <1>6 DEF ApplyEdit, CommitRefusedEdit, BookingInv, CreateShape, EditShape
  <2>2. rows' = rows \/ \E row : rows' = [rows EXCEPT ![sess[s].id] = row] /\ TableChecks(row)
                                  /\ \E t \in Time : row = EditedRow(s, t)
    <3>1. /\ sess[s].trigger \in Time /\ rows[sess[s].id].trigger \in Time
          /\ sess[s].items[1].start \in Time
      <4>1. sess[s].items[1] \in Item
        BY <1>0, <1>6, <2>1 DEF Request, BookingInv, EditShape, ApplyEdit, CommitRefusedEdit, Id
      <4> QED BY <1>0, <2>1, <4>1 DEF Request, BookingInv, TypeOK, Row, Item, Time
    <3>2. CASE ApplyEdit(s)
      BY <3>1, <3>2 DEF ApplyEdit
    <3>3. CASE CommitRefusedEdit(s)
      BY <3>1, <3>3 DEF CommitRefusedEdit
    <3> QED BY <1>6, <3>2, <3>3
  <2>3. \A r \in Id : rows'[r] = rows[r] \/ Ordered(rows'[r])
    <3>1. ASSUME NEW t \in Time, TableChecks(EditedRow(s, t)) PROVE Ordered(EditedRow(s, t))
      <4>1. EditedRow(s, t) \in Row
        BY <2>1, EditedRowFields DEF Id
      <4> QED BY <3>1, <4>1 DEF TableChecks, Ordered, Row
    <3> QED BY <2>1, <2>2, <3>1 DEF BookingInv, TypeOK
  <2>4. sess' = [sess EXCEPT ![s] = Idle]
    BY <1>6 DEF ApplyEdit, CommitRefusedEdit
  <2> QED BY <1>3, <2>3, <2>4 DEF Exists
<1>7. ASSUME NEW s \in Session, LockAbort(s) PROVE OrderInv'
  BY <1>3, <1>7 DEF LockAbort, Exists
<1>8. ASSUME NEW R, CancelRows(R) PROVE OrderInv'
  <2>1. \A r \in Id : rows'[r].start = rows[r].start /\ rows'[r].end = rows[r].end
    BY <1>8 DEF CancelRows, BookingInv, TypeOK, Row
  <2>2. \A r \in Id : Exists(r)' => Exists(r)
    BY <1>8 DEF CancelRows, BookingInv, TypeOK, Row, Exists, Live, ACTIVE_STATUSES
  <2> QED BY <1>8, <2>1, <2>2, OrderKept DEF CancelRows
<1>9. ASSUME NEW failing \in SUBSET Id, Tick(failing) PROVE OrderInv'
  <2>1. \A r \in Id : rows'[r].start = rows[r].start /\ rows'[r].end = rows[r].end
    BY <1>9 DEF Tick, BookingInv, TypeOK, Row
  <2>2. \A r \in Id : Exists(r)' => Exists(r)
    BY <1>9 DEF Tick, BookingInv, TypeOK, Row, Exists, Live, ACTIVE_STATUSES, Promoted, Closed
  <2> QED BY <1>9, <2>1, <2>2, OrderKept DEF Tick
<1>10. CASE AdvanceClock \/ UNCHANGED vars
  BY <1>10, OrderKept DEF AdvanceClock, vars, Exists
<1> QED BY <1>1, <1>2, <1>4, <1>5, <1>6, <1>7, <1>8, <1>9, <1>10
        DEF Next, SessionStep, Cancel, CancelGroup
-----------------------------------------------------------------------------
(* The sweep as a recursion over the instants.                             *)

\* Induction over the instants, as the existence of a least counterexample.
LEMMA LeastNat ==
  ASSUME NEW T, T \subseteq Nat, T # {}
  PROVE  \E n \in T : \A m \in T : n <= m
<1>1. PICK n \in T : \A m \in T : ~(<<m, n>> \in OpToRel(<, Nat))
  BY NatLessThanWellFounded, WFMin
<1>2. \A m \in T : ~(m < n)
  BY <1>1 DEF OpToRel
<1> QED BY <1>2

\* A request to recommend, and the intervals of a set of cards clipped to the
\* search.
Ask == [cards : Nat \ {0}, length : Nat \ {0}, after : Time, top : Nat \ {0}]

Clipped(busy, from, to) ==
  \A g \in DOMAIN busy : \A b \in busy[g] :
    /\ b.start \in Nat /\ b.end \in Nat
    /\ from <= b.start /\ b.start < b.end /\ b.end <= to

\* What the sweep starts from.
First(busy, from, ask) ==
  LET free == {g \in DOMAIN busy : FreeAt(busy, g, from)}
  IN [free |-> free, over |-> FALSE,
      since |-> IF Cardinality(free) >= ask.cards THEN from ELSE NoTime]

\* What it finds at an instant, and the sweep over the instants from .. to.
Prev(st, busy, from, t, ask) == IF t = from THEN First(busy, from, ask) ELSE st[t - 1]

Swept(st, busy, from, to, ask) ==
  st = [t \in from .. to |-> Sweep(Prev(st, busy, from, t, ask), busy, t, ask)]

\* One instant of it.
LEMMA SweptStep ==
  ASSUME NEW busy, NEW ask, NEW from \in Nat, NEW to \in Nat, NEW st,
         Swept(st, busy, from, to, ask), NEW t \in from .. to
  PROVE  st[t] = Sweep(Prev(st, busy, from, t, ask), busy, t, ask)
<1>1. st = [u \in from .. to |-> Sweep(Prev(st, busy, from, u, ask), busy, u, ask)]
  BY DEF Swept
<1> QED BY ONLY <1>1, t \in from .. to

\* The sweep exists, up to any instant.
LEMMA SweptExists ==
  ASSUME NEW busy, NEW ask, NEW from \in Nat, NEW to \in Nat, from <= to
  PROVE  \E st : Swept(st, busy, from, to, ask)
<1> DEFINE T == {n \in from .. to : ~\E st : Swept(st, busy, from, n, ask)}
<1>1. T = {}
  <2> SUFFICES ASSUME T # {} PROVE FALSE
    OBVIOUS
  <2>1. PICK n \in T : \A m \in T : n <= m
    <3>1. T \subseteq Nat
      OBVIOUS
    <3> HIDE DEF T
    <3> QED BY <3>1, LeastNat
  <2>2. n \in from .. to /\ ~\E st : Swept(st, busy, from, n, ask)
    OBVIOUS
  <2>3. CASE n = from
    <3> DEFINE st == [t \in from .. n |-> Sweep(First(busy, from, ask), busy, t, ask)]
    <3>1. st = [t \in from .. n |-> Sweep(Prev(st, busy, from, t, ask), busy, t, ask)]
      BY <2>3 DEF Prev
    <3> HIDE DEF st
    <3>2. Swept(st, busy, from, n, ask)
      BY <3>1 DEF Swept
    <3> QED BY <2>2, <3>2
  <2>4. CASE n # from
    <3>1. n - 1 \in from .. to /\ n - 1 \notin T
      BY <2>1, <2>2, <2>4
    <3>2. PICK f : Swept(f, busy, from, n - 1, ask)
      BY <3>1
    <3> HIDE DEF T
    <3> DEFINE st == [t \in from .. n |-> IF t = n THEN Sweep(f[n - 1], busy, n, ask) ELSE f[t]]
    <3>3. \A t \in from .. n - 1 : st[t] = f[t]
      BY <2>2
    <3>4. ASSUME NEW t \in from .. n
          PROVE  st[t] = Sweep(Prev(st, busy, from, t, ask), busy, t, ask)
      <4>1. CASE t = n
        <5>1. st[t] = Sweep(f[n - 1], busy, n, ask)
          BY <4>1
        <5>2. st[n - 1] = f[n - 1]
          BY <2>2, <2>4, <3>3
        <5> HIDE DEF st
        <5> QED BY <2>4, <4>1, <5>1, <5>2 DEF Prev
      <4>2. CASE t # n
        <5>1. t \in from .. n - 1
          BY <2>2, <4>2
        <5>2. st[t] = f[t] /\ (t # from => st[t - 1] = f[t - 1])
          <6>1. t # from => t - 1 \in from .. n - 1
            BY <2>2, <5>1
          <6> HIDE DEF st
          <6> QED BY <3>3, <5>1, <6>1
        <5>3. Prev(f, busy, from, t, ask) = Prev(st, busy, from, t, ask)
          <6> HIDE DEF st
          <6> QED BY <5>2 DEF Prev
        <5>4. f[t] = Sweep(Prev(f, busy, from, t, ask), busy, t, ask)
          <6>1. PICK m \in Nat : m = n - 1
            BY <3>1
          <6>2. Swept(f, busy, from, m, ask) /\ t \in from .. m
            BY <3>2, <5>1, <6>1
          <6> HIDE DEF st
          <6> QED BY <6>2, SweptStep
        <5> HIDE DEF st
        <5> QED BY <5>2, <5>3, <5>4
      <4> QED BY <4>1, <4>2
    <3>5. st = [t \in from .. n |-> st[t]]
      OBVIOUS
    <3> HIDE DEF st
    <3>6. Swept(st, busy, from, n, ask)
      BY <3>4, <3>5 DEF Swept
    <3> QED BY <2>2, <3>6
  <2> QED BY <2>3, <2>4
<1>2. to \notin T /\ to \in from .. to
  BY <1>1
<1> QED BY <1>2

\* EarliestStart is what the sweep ends with, if that is long enough.
LEMMA EarliestOfSweep ==
  ASSUME TypeOK, NEW ask \in Ask, NEW busy
  PROVE  \E st : LET from == SearchStart(ask)
                     to   == HorizonEnd(ask)
                 IN /\ from \in Nat /\ to \in Nat /\ now <= from /\ from <= to
                    /\ Swept(st, busy, from, to, ask)
                    /\ EarliestStart(busy, ask) =
                         IF st[to].since # NoTime /\ to - st[to].since >= ask.length
                         THEN st[to].since ELSE NoTime
<1>1. PICK from : from = SearchStart(ask)
  OBVIOUS
<1>2. PICK to : to = HorizonEnd(ask)
  OBVIOUS
<1>3. from \in Nat /\ to \in Nat /\ now <= from /\ from <= to
  BY <1>1, <1>2, AdviceAssumption DEF SearchStart, HorizonEnd, TypeOK, Ask, Time, NoTime
<1>4. PICK st : st = CHOOSE f : Swept(f, busy, from, to, ask)
  OBVIOUS
<1>5. Swept(st, busy, from, to, ask)
  BY <1>3, <1>4, SweptExists
<1>6. st = CHOOSE f : f = [t \in from .. to |->
              Sweep(IF t = from THEN First(busy, from, ask) ELSE f[t - 1], busy, t, ask)]
  BY <1>4 DEF Swept, Prev
<1>7. EarliestStart(busy, ask) =
        IF st[to].since # NoTime /\ to - st[to].since >= ask.length THEN st[to].since ELSE NoTime
  BY <1>1, <1>2, <1>6 DEF EarliestStart, First
<1> QED BY <1>1, <1>2, <1>3, <1>5, <1>7
-----------------------------------------------------------------------------
(* One instant of the sweep.                                               *)

\* The values free_set, candidate_start and the flag of a closed span can take.
Shape(st, busy, from, t) ==
  /\ st.free \subseteq DOMAIN busy /\ st.over \in BOOLEAN
  /\ st.since = NoTime \/ st.since \in from .. t
  /\ st.over => st.since # NoTime

\* While no span is closed, there is a candidate exactly when there are enough
\* cards.
Tracks(st, ask) == ~st.over => (st.since # NoTime <=> Cardinality(st.free) >= ask.cards)

\* A card that is not in free_set has an interval that goes on after t, or
\* that goes on or ends at t.
Accounted(st, busy, t) ==
  ~st.over => \A g \in DOMAIN busy \ st.free : \E b \in busy[g] : b.start <= t /\ t < b.end
Ending(st, busy, t) ==
  ~st.over => \A g \in DOMAIN busy \ st.free : \E b \in busy[g] : b.start <= t /\ t <= b.end

Starts(busy, t) == {g \in DOMAIN busy : \E b \in busy[g] : b.start = t}
Ends(busy, t)   == {g \in DOMAIN busy : \E b \in busy[g] : b.end = t}

\* The sweep after the starts of an instant.
Started(st, busy, t, ask) == Apply(st, st.free \ Starts(busy, t), t, ask)

\* A sweep handles the starts of an instant, then its ends.
LEMMA SweepInTwo ==
  ASSUME NEW st, NEW busy, NEW t, NEW ask
  PROVE  Sweep(st, busy, t, ask) = LET mid == Started(st, busy, t, ask)
                                   IN  Apply(mid, mid.free \cup Ends(busy, t), t, ask)
BY DEF Sweep, Started, Starts, Ends

\* What one turn of the loop does to the candidate when free_set becomes free.
Turn(st, new, free, t, ask) ==
  IF st.over THEN new = st
  ELSE /\ new.free = free
       /\ IF Cardinality(free) >= ask.cards
          THEN ~new.over /\ new.since = IF st.since = NoTime THEN t ELSE st.since
          ELSE IF st.since # NoTime /\ t - st.since >= ask.length
          THEN new.over /\ new.since = st.since
          ELSE ~new.over /\ new.since = NoTime

\* The body of the loop is such a turn.
LEMMA ApplyTurn ==
  ASSUME NEW busy, NEW ask \in Ask, NEW from \in Nat, NEW t \in Nat, from <= t,
         NEW st, Shape(st, busy, from, t), NEW free, free \subseteq DOMAIN busy
  PROVE  /\ Shape(Apply(st, free, t, ask), busy, from, t)
         /\ Turn(st, Apply(st, free, t, ask), free, t, ask)
<1> DEFINE enough == Cardinality(free) >= ask.cards
           long   == st.since # NoTime /\ t - st.since >= ask.length
           fits   == st.since # NoTime /\ ~enough /\ t - st.since >= ask.length
           since  == IF fits THEN st.since ELSE IF ~enough THEN NoTime
                     ELSE IF st.since = NoTime THEN t ELSE st.since
<1>1. PICK new : new = Apply(st, free, t, ask)
  OBVIOUS
<1>2. CASE st.over
  BY <1>1, <1>2 DEF Apply, Turn
<1>3. CASE ~st.over
  <2>1. new = [free |-> free, over |-> fits, since |-> since]
    BY <1>1, <1>3 DEF Apply
  <2>2. new.free = free /\ new.over = fits /\ new.since = since
    BY <2>1
  <2>3. since = NoTime \/ since \in from .. t
    BY DEF Shape
  <2>4. fits => since # NoTime
    OBVIOUS
  <2>5. Shape(new, busy, from, t)
    <3>1. fits \in BOOLEAN
      OBVIOUS
    <3> HIDE DEF fits, since
    <3> QED BY <2>2, <2>3, <2>4, <3>1 DEF Shape
  <2>6. fits <=> long /\ ~enough
    OBVIOUS
  <2>7. since = IF fits THEN st.since ELSE IF ~enough THEN NoTime
                ELSE IF st.since = NoTime THEN t ELSE st.since
    OBVIOUS
  <2>8. Turn(st, new, free, t, ask)
    <3>1. Turn(st, new, free, t, ask) <=>
            IF st.over THEN new = st
            ELSE /\ new.free = free
                 /\ IF enough THEN ~new.over /\ new.since = IF st.since = NoTime THEN t ELSE st.since
                    ELSE IF long THEN new.over /\ new.since = st.since
                    ELSE ~new.over /\ new.since = NoTime
      BY DEF Turn
    <3> HIDE DEF fits, since, enough, long
    <3> QED BY <1>3, <2>2, <2>6, <2>7, <3>1
  <2> QED BY <1>1, <2>5, <2>8
<1> QED BY <1>2, <1>3

\* After a turn the candidate tracks the free cards, and a candidate that was
\* there before is kept or given up.
LEMMA TurnTracks ==
  ASSUME NEW st, NEW new, NEW free, NEW t \in Nat, NEW ask, Turn(st, new, free, t, ask)
  PROVE  /\ Tracks(new, ask)
         /\ st.since # NoTime => new.since \in {st.since, NoTime}
         /\ st.over => new = st
         /\ ~st.over => new.free = free
<1>1. t # NoTime
  BY DEF NoTime
<1> HIDE DEF NoTime
<1>2. CASE st.over
  BY <1>2 DEF Turn, Tracks
<1>3. CASE ~st.over /\ Cardinality(free) >= ask.cards
  BY <1>1, <1>3 DEF Turn, Tracks
<1>4. CASE ~st.over /\ ~(Cardinality(free) >= ask.cards)
  BY <1>1, <1>4 DEF Turn, Tracks
<1> QED BY <1>2, <1>3, <1>4

\* What the sweep starts from is as it should be.
LEMMA FirstGood ==
  ASSUME NEW busy, NEW ask \in Ask, NEW from \in Nat, NEW to \in Nat, Clipped(busy, from, to)
  PROVE  LET first == First(busy, from, ask)
         IN  /\ Shape(first, busy, from, from) /\ Tracks(first, ask)
             /\ Ending(first, busy, from)
<1> DEFINE free  == {g \in DOMAIN busy : FreeAt(busy, g, from)}
           since == IF Cardinality(free) >= ask.cards THEN from ELSE NoTime
<1>1. PICK first : first = First(busy, from, ask)
  OBVIOUS
<1>2. first.free = free /\ first.over = FALSE /\ first.since = since
  BY <1>1 DEF First
<1>3. from # NoTime /\ from \in from .. from
  BY DEF NoTime
<1>4. \A g \in DOMAIN busy \ free : \E b \in busy[g] : b.start <= from /\ from <= b.end
  BY DEF FreeAt, Clipped
<1> HIDE DEF free
<1>5. Shape(first, busy, from, from)
  BY <1>2, <1>3 DEF Shape, free
<1>6. Tracks(first, ask)
  BY <1>2, <1>3 DEF Tracks
<1>7. Ending(first, busy, from)
  BY <1>2, <1>4 DEF Ending
<1> QED BY <1>1, <1>5, <1>6, <1>7

\* The starts of an instant.
LEMMA StartedGood ==
  ASSUME NEW busy, NEW ask \in Ask, NEW from \in Nat, NEW to \in Nat, Clipped(busy, from, to),
         NEW t \in from .. to, NEW st, Shape(st, busy, from, t), Ending(st, busy, t)
  PROVE  LET mid == Started(st, busy, t, ask)
         IN  /\ Shape(mid, busy, from, t) /\ Tracks(mid, ask) /\ Ending(mid, busy, t)
             /\ st.since # NoTime => mid.since \in {st.since, NoTime}
<1>1. PICK free : free = st.free \ Starts(busy, t)
  OBVIOUS
<1>2. PICK mid : mid = Apply(st, free, t, ask)
  OBVIOUS
<1>3. t \in Nat /\ from <= t /\ free \subseteq DOMAIN busy
  BY <1>1 DEF Shape
<1>4. Shape(mid, busy, from, t) /\ Turn(st, mid, free, t, ask)
  BY <1>2, <1>3, ApplyTurn
<1>5. /\ Tracks(mid, ask) /\ (st.since # NoTime => mid.since \in {st.since, NoTime})
      /\ (st.over => mid = st) /\ (~st.over => mid.free = free)
  BY <1>3, <1>4, TurnTracks
<1>6. Ending(mid, busy, t)
  <2> SUFFICES ASSUME ~mid.over, NEW g \in DOMAIN busy \ mid.free
               PROVE  \E b \in busy[g] : b.start <= t /\ t <= b.end
    BY DEF Ending
  <2>1. ~st.over /\ mid.free = free
    BY <1>5
  <2>2. CASE g \in Starts(busy, t)
    BY <1>3, <2>2 DEF Starts, Clipped
  <2>3. CASE g \notin Starts(busy, t)
    BY <1>1, <2>1, <2>3 DEF Ending
  <2> QED BY <2>2, <2>3
<1> QED BY <1>1, <1>2, <1>4, <1>5, <1>6 DEF Started

\* The ends of an instant.
LEMMA SweepGood ==
  ASSUME NEW busy, NEW ask \in Ask, NEW from \in Nat, NEW to \in Nat, Clipped(busy, from, to),
         NEW t \in from .. to, NEW st, Shape(st, busy, from, t), Ending(st, busy, t)
  PROVE  LET mid == Started(st, busy, t, ask)
             new == Sweep(st, busy, t, ask)
         IN  /\ Shape(new, busy, from, t) /\ Tracks(new, ask) /\ Accounted(new, busy, t)
             /\ mid.since # NoTime => new.since \in {mid.since, NoTime}
<1>1. PICK mid : mid = Started(st, busy, t, ask)
  OBVIOUS
<1>2. Shape(mid, busy, from, t) /\ Ending(mid, busy, t)
  BY <1>1, StartedGood
<1>3. PICK free : free = mid.free \cup Ends(busy, t)
  OBVIOUS
<1>4. PICK new : new = Apply(mid, free, t, ask)
  OBVIOUS
<1>5. t \in Nat /\ from <= t /\ free \subseteq DOMAIN busy
  BY <1>2, <1>3 DEF Shape, Ends
<1>6. Shape(new, busy, from, t) /\ Turn(mid, new, free, t, ask)
  BY <1>2, <1>4, <1>5, ApplyTurn
<1>7. /\ Tracks(new, ask) /\ (mid.since # NoTime => new.since \in {mid.since, NoTime})
      /\ (mid.over => new = mid) /\ (~mid.over => new.free = free)
  BY <1>5, <1>6, TurnTracks
<1>8. Accounted(new, busy, t)
  <2> SUFFICES ASSUME ~new.over, NEW g \in DOMAIN busy \ new.free
               PROVE  \E b \in busy[g] : b.start <= t /\ t < b.end
    BY DEF Accounted
  <2>1. ~mid.over /\ g \notin mid.free /\ g \notin Ends(busy, t)
    BY <1>3, <1>7
  <2>2. PICK b \in busy[g] : b.start <= t /\ t <= b.end
    BY <1>2, <2>1 DEF Ending
  <2>3. b.end # t
    BY <2>1 DEF Ends
  <2>4. b.end \in Nat
    BY DEF Clipped
  <2> QED BY <1>5, <2>2, <2>3, <2>4
<1>9. Sweep(st, busy, t, ask) = new
  BY <1>1, <1>3, <1>4, SweepInTwo
<1> QED BY <1>1, <1>6, <1>7, <1>8, <1>9
\* The two turns of an instant.
LEMMA TwoTurns ==
  ASSUME NEW busy, NEW ask \in Ask, NEW from \in Nat, NEW to \in Nat, Clipped(busy, from, to),
         NEW t \in from .. to, NEW st, Shape(st, busy, from, t), Ending(st, busy, t),
         NEW mid, mid = Started(st, busy, t, ask), NEW new, new = Sweep(st, busy, t, ask)
  PROVE  /\ Turn(st, mid, st.free \ Starts(busy, t), t, ask)
         /\ Turn(mid, new, mid.free \cup Ends(busy, t), t, ask)
<1>1. t \in Nat /\ from <= t
  OBVIOUS
<1>2. st.free \ Starts(busy, t) \subseteq DOMAIN busy
  BY DEF Shape
<1>3. Turn(st, mid, st.free \ Starts(busy, t), t, ask) /\ Shape(mid, busy, from, t)
  BY <1>1, <1>2, ApplyTurn DEF Started
<1>4. mid.free \cup Ends(busy, t) \subseteq DOMAIN busy
  BY <1>3 DEF Shape, Ends
<1>5. new = Apply(mid, mid.free \cup Ends(busy, t), t, ask)
  BY SweepInTwo
<1>6. Turn(mid, new, mid.free \cup Ends(busy, t), t, ask)
  BY <1>1, <1>3, <1>4, <1>5, ApplyTurn
<1> QED BY <1>3, <1>6

\* What the sweep has after an instant is what it finds at the next one.
LEMMA PrevGood ==
  ASSUME NEW busy, NEW ask \in Ask, NEW from \in Nat, NEW to \in Nat, Clipped(busy, from, to),
         NEW st, NEW t \in from .. to,
         t # from => Shape(st[t - 1], busy, from, t - 1) /\ Accounted(st[t - 1], busy, t - 1)
  PROVE  LET prev == Prev(st, busy, from, t, ask)
         IN  Shape(prev, busy, from, t) /\ Ending(prev, busy, t)
<1>1. CASE t = from
  BY <1>1, FirstGood DEF Prev
<1>2. CASE t # from
  <2>1. PICK prev : prev = st[t - 1]
    OBVIOUS
  <2>2. Shape(prev, busy, from, t)
    <3>1. prev.since \in from .. t - 1 => prev.since \in from .. t
      OBVIOUS
    <3> QED BY <1>2, <2>1, <3>1 DEF Shape
  <2>3. Ending(prev, busy, t)
    <3> SUFFICES ASSUME ~prev.over, NEW g \in DOMAIN busy \ prev.free
                 PROVE  \E b \in busy[g] : b.start <= t /\ t <= b.end
      BY DEF Ending
    <3>1. PICK b \in busy[g] : b.start <= t - 1 /\ t - 1 < b.end
      BY <1>2, <2>1 DEF Accounted
    <3>2. b.start \in Nat /\ b.end \in Nat
      BY DEF Clipped
    <3>3. b.start <= t /\ t <= b.end
      BY <3>1, <3>2
    <3> QED BY <3>3
  <2> QED BY <1>2, <2>1, <2>2, <2>3 DEF Prev
<1> QED BY <1>1, <1>2

\* Before and after every instant free_set and the candidate are as they
\* should be.
LEMMA SweptGood ==
  ASSUME NEW busy, NEW ask \in Ask, NEW from \in Nat, NEW to \in Nat, Clipped(busy, from, to),
         NEW st, Swept(st, busy, from, to, ask)
  PROVE  \A t \in from .. to :
           /\ Shape(st[t], busy, from, t) /\ Tracks(st[t], ask) /\ Accounted(st[t], busy, t)
           /\ Shape(Prev(st, busy, from, t, ask), busy, from, t)
           /\ Ending(Prev(st, busy, from, t, ask), busy, t)
<1> DEFINE Good(t) == Shape(st[t], busy, from, t) /\ Tracks(st[t], ask) /\ Accounted(st[t], busy, t)
           T == {t \in from .. to : ~Good(t)}
<1>1. ASSUME NEW t \in from .. to, t # from => Good(t - 1)
      PROVE  /\ Good(t) /\ Shape(Prev(st, busy, from, t, ask), busy, from, t)
             /\ Ending(Prev(st, busy, from, t, ask), busy, t)
  <2>1. PICK prev : prev = Prev(st, busy, from, t, ask)
    OBVIOUS
  <2>2. Shape(prev, busy, from, t) /\ Ending(prev, busy, t)
    BY <1>1, <2>1, PrevGood
  <2>3. st[t] = Sweep(prev, busy, t, ask)
    BY <2>1, SweptStep
  <2> QED BY <2>1, <2>2, <2>3, SweepGood
<1>2. T = {}
  <2> SUFFICES ASSUME T # {} PROVE FALSE
    OBVIOUS
  <2>1. PICK t \in T : \A m \in T : t <= m
    <3>1. T \subseteq Nat
      OBVIOUS
    <3> HIDE DEF T
    <3> QED BY <3>1, LeastNat
  <2>2. t \in from .. to /\ ~Good(t)
    OBVIOUS
  <2>3. t # from => Good(t - 1)
    <3> HIDE DEF Good
    <3>1. t # from => t - 1 \in from .. to /\ ~(t <= t - 1)
      BY <2>2
    <3> QED BY <2>1, <3>1
  <2> HIDE DEF T, Good
  <2> QED BY <1>1, <2>2, <2>3
<1>3. \A t \in from .. to : Good(t)
  BY <1>2
<1>4. \A t \in from .. to : t # from => t - 1 \in from .. to
  OBVIOUS
<1> HIDE DEF Good, T
<1>5. \A t \in from .. to : /\ Good(t) /\ Shape(Prev(st, busy, from, t, ask), busy, from, t)
                            /\ Ending(Prev(st, busy, from, t, ask), busy, t)
  BY <1>1, <1>3, <1>4
<1> QED BY <1>5 DEF Good

-----------------------------------------------------------------------------
(* The sweep is not late.                                                  *)

\* A span that begins no later than t0 survives a turn: there are still enough
\* cards, or the span has been long enough.
LEMMA TurnKeeps ==
  ASSUME NEW busy, NEW ask \in Ask, NEW from \in Nat, NEW t \in Nat, NEW t0 \in Nat,
         NEW st, NEW new, NEW free, Turn(st, new, free, t, ask),
         Shape(st, busy, from, t), Shape(new, busy, from, t),
         st.since # NoTime, st.since <= t0,
         t >= t0 + ask.length \/ (~new.over => Cardinality(new.free) >= ask.cards)
  PROVE  new.since # NoTime /\ new.since <= t0
<1>0. st.since \in Nat /\ ask.length \in Nat
  BY DEF Shape, Ask
<1> HIDE DEF NoTime
<1>1. Tracks(new, ask) /\ new.since \in {st.since, NoTime}
  BY TurnTracks
<1>2. CASE t >= t0 + ask.length
  <2>1. t - st.since >= ask.length
    BY <1>0, <1>2
  <2> QED BY <2>1 DEF Turn
<1>3. CASE ~new.over => Cardinality(new.free) >= ask.cards
  BY <1>1, <1>3 DEF Shape, Tracks
<1> QED BY <1>2, <1>3

\* A set of enough cards that are all free makes enough free cards.
LEMMA EnoughCards ==
  ASSUME NEW busy, IsFiniteSet(DOMAIN busy), NEW ask \in Ask, NEW from, NEW t,
         NEW st, Shape(st, busy, from, t),
         NEW F, F \subseteq st.free, Cardinality(F) >= ask.cards
  PROVE  Cardinality(st.free) >= ask.cards
<1>1. IsFiniteSet(st.free)
  BY FS_Subset DEF Shape
<1>2. Cardinality(F) <= Cardinality(st.free) /\ Cardinality(F) \in Nat /\ Cardinality(st.free) \in Nat
  BY <1>1, FS_Subset, FS_CardinalityType
<1> QED BY <1>2 DEF Ask

\* When enough cards are free from t0 on for as long as asked, the candidate of
\* the sweep is never later than t0, from t0 to the end of the search.
LEMMA SweepNotLate ==
  ASSUME NEW busy, IsFiniteSet(DOMAIN busy), NEW ask \in Ask, NEW from \in Nat, NEW to \in Nat,
         Clipped(busy, from, to), NEW st, Swept(st, busy, from, to, ask),
         NEW t0 \in from .. to, NEW F, F \subseteq DOMAIN busy, Cardinality(F) >= ask.cards,
         \A g \in F : \A b \in busy[g] : b.end <= t0 \/ t0 + ask.length <= b.start
  PROVE  \A t \in t0 .. to : st[t].since # NoTime /\ st[t].since <= t0
<1> DEFINE Early(t) == st[t].since # NoTime /\ st[t].since <= t0
           T == {t \in t0 .. to : ~Early(t)}
<1>0. ask.length \in Nat \ {0}
  BY DEF Ask
<1>1. Early(t0)
  <2>1. /\ Shape(st[t0], busy, from, t0) /\ Tracks(st[t0], ask) /\ Accounted(st[t0], busy, t0)
    BY SweptGood
  <2>2. st[t0].since # NoTime
    <3>1. CASE st[t0].over
      BY <2>1, <3>1 DEF Shape
    <3>2. CASE ~st[t0].over
      <4>1. F \subseteq st[t0].free
        <5> SUFFICES ASSUME NEW g \in F, g \notin st[t0].free PROVE FALSE
          OBVIOUS
        <5>1. PICK b \in busy[g] : b.start <= t0 /\ t0 < b.end
          BY <2>1, <3>2 DEF Accounted
        <5>2. b.start \in Nat /\ b.end \in Nat
          BY DEF Clipped
        <5> QED BY <1>0, <5>1, <5>2
      <4>2. Cardinality(st[t0].free) >= ask.cards
        BY <2>1, <4>1, EnoughCards
      <4> QED BY <2>1, <3>2, <4>2 DEF Tracks
    <3> QED BY <3>1, <3>2
  <2> QED BY <2>1, <2>2 DEF Shape
<1>2. ASSUME NEW t \in t0 .. to, t # t0, Early(t - 1) PROVE Early(t)
  <2>1. t \in from .. to /\ t \in Nat /\ t # from
    BY <1>2
  <2>2. PICK prev : prev = st[t - 1]
    OBVIOUS
  <2>3. prev = Prev(st, busy, from, t, ask)
    BY <2>1, <2>2 DEF Prev
  <2>4. Shape(prev, busy, from, t) /\ Ending(prev, busy, t)
    BY <2>1, <2>3, SweptGood
  <2>5. PICK mid : mid = Started(prev, busy, t, ask)
    OBVIOUS
  <2>6. PICK new : new = Sweep(prev, busy, t, ask)
    OBVIOUS
  <2>7. Turn(prev, mid, prev.free \ Starts(busy, t), t, ask)
        /\ Turn(mid, new, mid.free \cup Ends(busy, t), t, ask)
    BY <2>1, <2>4, <2>5, <2>6, TwoTurns
  <2>8. Shape(mid, busy, from, t) /\ Ending(mid, busy, t)
    BY <2>1, <2>4, <2>5, StartedGood
  <2>9. Shape(new, busy, from, t) /\ Accounted(new, busy, t)
    BY <2>1, <2>4, <2>6, SweepGood
  <2>10. ASSUME ~(t >= t0 + ask.length)
         PROVE  /\ ~mid.over => Cardinality(mid.free) >= ask.cards
                /\ ~new.over => Cardinality(new.free) >= ask.cards
    <3>1. \A g \in F : \A b \in busy[g] : ~(b.start <= t /\ t <= b.end) /\ b.end \in Nat
      BY <1>0, <1>2, <2>10 DEF Clipped
    <3>2. ~mid.over => F \subseteq mid.free
      BY <2>8, <3>1 DEF Ending
    <3>3. ~new.over => F \subseteq new.free
      BY <2>1, <2>9, <3>1 DEF Accounted
    <3> QED BY <2>8, <2>9, <3>2, <3>3, EnoughCards
  <2>11. prev.since # NoTime /\ prev.since <= t0
    BY <1>2, <2>2
  <2>12. mid.since # NoTime /\ mid.since <= t0
    BY <2>1, <2>4, <2>7, <2>8, <2>10, <2>11, TurnKeeps
  <2>13. new.since # NoTime /\ new.since <= t0
    BY <2>1, <2>7, <2>8, <2>9, <2>10, <2>12, TurnKeeps
  <2>14. st[t] = new
    BY <2>1, <2>3, <2>6, SweptStep
  <2> QED BY <2>13, <2>14
<1>3. T = {}
  <2> SUFFICES ASSUME T # {} PROVE FALSE
    OBVIOUS
  <2>1. PICK t \in T : \A m \in T : t <= m
    <3>1. T \subseteq Nat
      OBVIOUS
    <3> HIDE DEF T
    <3> QED BY <3>1, LeastNat
  <2>2. t \in t0 .. to /\ ~Early(t)
    OBVIOUS
  <2>3. t # t0
    BY <1>1, <2>2
  <2>4. Early(t - 1)
    <3> HIDE DEF Early
    <3>1. t - 1 \in t0 .. to /\ ~(t <= t - 1)
      BY <2>2, <2>3
    <3> QED BY <2>1, <3>1
  <2> HIDE DEF T, Early
  <2> QED BY <1>2, <2>2, <2>3, <2>4
<1> QED BY <1>3
-----------------------------------------------------------------------------
(* From the table to the sweep.                                            *)

\* A server has as many cards as its list is long.
LEMMA CardsOf ==
  ASSUME NEW i \in DOMAIN Servers
  PROVE  /\ Servers[i] \in Seq(Gpu) /\ Cards(i) \subseteq Gpu
         /\ IsFiniteSet(Cards(i)) /\ Cardinality(Cards(i)) = Len(Servers[i])
<1>1. Servers[i] \in Seq(Gpu)
  BY AdviceAssumption
<1>2. PICK n \in Nat : n = Len(Servers[i])
  BY <1>1
<1>3. Cards(i) \subseteq Gpu
  BY <1>1 DEF Cards
<1> DEFINE f == [k \in 1 .. n |-> Servers[i][k]]
<1>4. DOMAIN Servers[i] = 1 .. n
  BY <1>1, <1>2
<1>5. \A k, l \in 1 .. n : Servers[i][k] = Servers[i][l] => k = l
  BY <1>4, AdviceAssumption
<1>6. f \in Bijection(1 .. n, Cards(i))
  <2>1. f \in [1 .. n -> Cards(i)]
    BY <1>4 DEF Cards
  <2>2. \A c \in Cards(i) : \E k \in 1 .. n : f[k] = c
    BY <1>4 DEF Cards
  <2>3. \A k, l \in 1 .. n : f[k] = f[l] => k = l
    BY <1>5
  <2> HIDE DEF f
  <2> QED BY <2>1, <2>2, <2>3 DEF Bijection, Injection, Surjection, IsInjective
<1>7. ExistsBijection(1 .. n, Cards(i))
  BY <1>6 DEF ExistsBijection
<1>8. IsFiniteSet(1 .. n) /\ Cardinality(1 .. n) = n
  BY FS_Interval
<1> QED BY <1>1, <1>2, <1>3, <1>7, <1>8, FS_Bijection

\* An interval of a card is the window of a live row of it, clipped.
LEMMA BusyInterval ==
  ASSUME NEW cards, NEW ask, NEW g \in cards
  PROVE  /\ \A b \in Busy(cards, ask)[g] : \E r \in Id :
              /\ Live(r) /\ rows[r].gpu = g
              /\ rows[r].start < HorizonEnd(ask) /\ rows[r].end > SearchStart(ask)
              /\ b.start = IF rows[r].start < SearchStart(ask) THEN SearchStart(ask) ELSE rows[r].start
              /\ b.end = IF rows[r].end > HorizonEnd(ask) THEN HorizonEnd(ask) ELSE rows[r].end
         /\ \A r \in Id :
              /\ Live(r) /\ rows[r].gpu = g
              /\ rows[r].start < HorizonEnd(ask) /\ rows[r].end > SearchStart(ask)
              => \E b \in Busy(cards, ask)[g] :
                   /\ b.start = IF rows[r].start < SearchStart(ask) THEN SearchStart(ask)
                                ELSE rows[r].start
                   /\ b.end = IF rows[r].end > HorizonEnd(ask) THEN HorizonEnd(ask) ELSE rows[r].end
<1> DEFINE from == SearchStart(ask)
           to   == HorizonEnd(ask)
           clip(r) == [start |-> IF rows[r].start < from THEN from ELSE rows[r].start,
                       end   |-> IF rows[r].end > to THEN to ELSE rows[r].end]
<1>1. Busy(cards, ask)[g] = {clip(r) : r \in {q \in Id : /\ Live(q) /\ rows[q].gpu = g
                                                         /\ rows[q].start < to /\ rows[q].end > from}}
  BY DEF Busy
<1>2. \A r : /\ clip(r).start = IF rows[r].start < from THEN from ELSE rows[r].start
             /\ clip(r).end = IF rows[r].end > to THEN to ELSE rows[r].end
  OBVIOUS
<1> HIDE DEF from, to, clip
<1>3. \A b \in Busy(cards, ask)[g] : \E r \in Id :
        /\ Live(r) /\ rows[r].gpu = g /\ rows[r].start < to /\ rows[r].end > from
        /\ b.start = IF rows[r].start < from THEN from ELSE rows[r].start
        /\ b.end = IF rows[r].end > to THEN to ELSE rows[r].end
  BY <1>1, <1>2
<1>4. \A r \in Id : /\ Live(r) /\ rows[r].gpu = g /\ rows[r].start < to /\ rows[r].end > from
        => \E b \in Busy(cards, ask)[g] :
             /\ b.start = IF rows[r].start < from THEN from ELSE rows[r].start
             /\ b.end = IF rows[r].end > to THEN to ELSE rows[r].end
  BY <1>1, <1>2
<1> QED BY <1>3, <1>4 DEF from, to

\* The bounds of a search.
LEMMA SearchBounds ==
  ASSUME TypeOK, NEW ask \in Ask
  PROVE  /\ SearchStart(ask) \in Nat /\ HorizonEnd(ask) \in Nat
         /\ now <= SearchStart(ask) /\ SearchStart(ask) < HorizonEnd(ask)
BY AdviceAssumption DEF SearchStart, HorizonEnd, TypeOK, Ask, Time, NoTime

\* The windows of live rows.
LEMMA LiveWindow ==
  ASSUME TypeOK, OrderInv, NEW r \in Id, Live(r)
  PROVE  rows[r].start \in Nat /\ rows[r].end \in Nat /\ rows[r].start < rows[r].end
<1>1. rows[r].start \in Nat /\ rows[r].end \in Nat
  BY DEF TypeOK, Row
<1>2. Exists(r)
  BY DEF Live, Exists, ACTIVE_STATUSES
<1> QED BY <1>1, <1>2 DEF OrderInv, Ordered

\* The intervals of the sweep are clipped, and none is empty.
LEMMA BusyClipped ==
  ASSUME TypeOK, OrderInv, NEW ask \in Ask, NEW cards
  PROVE  /\ DOMAIN Busy(cards, ask) = cards
         /\ Clipped(Busy(cards, ask), SearchStart(ask), HorizonEnd(ask))
<1>1. DOMAIN Busy(cards, ask) = cards
  BY DEF Busy
<1>2. ASSUME NEW g \in cards, NEW b \in Busy(cards, ask)[g]
      PROVE  /\ b.start \in Nat /\ b.end \in Nat
             /\ SearchStart(ask) <= b.start /\ b.start < b.end /\ b.end <= HorizonEnd(ask)
  <2>1. PICK r \in Id :
          /\ Live(r) /\ rows[r].gpu = g
          /\ rows[r].start < HorizonEnd(ask) /\ rows[r].end > SearchStart(ask)
          /\ b.start = IF rows[r].start < SearchStart(ask) THEN SearchStart(ask) ELSE rows[r].start
          /\ b.end = IF rows[r].end > HorizonEnd(ask) THEN HorizonEnd(ask) ELSE rows[r].end
    BY BusyInterval
  <2>2. rows[r].start \in Nat /\ rows[r].end \in Nat /\ rows[r].start < rows[r].end
    BY <2>1, LiveWindow
  <2> QED BY <2>1, <2>2, SearchBounds
<1> QED BY <1>1, <1>2 DEF Clipped

-----------------------------------------------------------------------------
(* recommend is not late.                                                  *)

\* A server on which enough cards are free from t0 on has a window that starts
\* no later.
LEMMA EarliestNotLate ==
  ASSUME TypeOK, OrderInv, NEW ask \in Ask, NEW cards, IsFiniteSet(cards),
         NEW t0 \in TrueStarts(cards, ask)
  PROVE  LET start == EarliestStart(Busy(cards, ask), ask)
         IN  start # NoTime /\ start \in Nat /\ start <= t0
<1>1. PICK busy : busy = Busy(cards, ask)
  OBVIOUS
<1>2. PICK from \in Nat, to \in Nat : from = SearchStart(ask) /\ to = HorizonEnd(ask) /\ from < to
  BY SearchBounds
<1>3. PICK st : /\ Swept(st, busy, from, to, ask)
                /\ EarliestStart(busy, ask) =
                     IF st[to].since # NoTime /\ to - st[to].since >= ask.length
                     THEN st[to].since ELSE NoTime
  BY <1>2, EarliestOfSweep
<1>4. DOMAIN busy = cards /\ Clipped(busy, from, to)
  BY <1>1, <1>2, BusyClipped
<1>5. ask.length \in Nat \ {0}
  BY DEF Ask
<1>6. PICK F : F = {g \in cards : \A r \in Id : (Live(r) /\ rows[r].gpu = g)
                      => ~Overlap(rows[r], [start |-> t0, end |-> t0 + ask.length])}
  OBVIOUS
<1>7. t0 \in from .. to - ask.length /\ Cardinality(F) >= ask.cards
  BY <1>2, <1>6 DEF TrueStarts
<1>8. t0 \in from .. to /\ to \in t0 .. to /\ t0 + ask.length <= to /\ t0 \in Nat
  BY <1>5, <1>7
<1>9. ASSUME NEW g \in F, NEW b \in busy[g]
      PROVE  b.end <= t0 \/ t0 + ask.length <= b.start
  <2>1. PICK r \in Id :
          /\ Live(r) /\ rows[r].gpu = g
          /\ rows[r].start < to /\ rows[r].end > from
          /\ b.start = IF rows[r].start < from THEN from ELSE rows[r].start
          /\ b.end = IF rows[r].end > to THEN to ELSE rows[r].end
    BY <1>1, <1>2, <1>6, <1>9, BusyInterval
  <2>2. rows[r].start \in Nat /\ rows[r].end \in Nat
    BY <2>1, LiveWindow
  <2>3. ~Overlap(rows[r], [start |-> t0, end |-> t0 + ask.length])
    BY <1>6, <1>9, <2>1
  <2>4. ~(rows[r].start < t0 + ask.length /\ rows[r].end > t0)
    BY <2>3 DEF Overlap
  <2> QED BY <1>5, <1>8, <2>1, <2>2, <2>4
<1>10. F \subseteq DOMAIN busy /\ IsFiniteSet(DOMAIN busy)
  BY <1>4, <1>6
<1>11. st[to].since # NoTime /\ st[to].since <= t0
  BY <1>3, <1>4, <1>7, <1>8, <1>9, <1>10, SweepNotLate
<1>12. st[to].since \in Nat
  <2>1. Shape(st[to], busy, from, to)
    <3>1. to \in from .. to
      BY <1>2
    <3> QED BY <1>3, <1>4, <3>1, SweptGood
  <2> QED BY <1>11, <2>1 DEF Shape
<1>13. to - st[to].since >= ask.length
  BY <1>5, <1>8, <1>11, <1>12
<1> QED BY <1>1, <1>3, <1>11, <1>12, <1>13

\* Of the windows of the servers, recommend shows one that starts first.
LEMMA FirstIsShown ==
  ASSUME NEW ask \in Ask, NEW i \in DOMAIN Servers, Len(Servers[i]) >= ask.cards,
         NEW t \in Nat, Candidate(i, ask).start \in Nat, Candidate(i, ask).start <= t,
         \A j \in DOMAIN Servers : Candidate(j, ask).start \in Nat \cup {NoTime}
  PROVE  \E c \in Recommend(ask) : c.start <= t
<1> DEFINE able == {j \in DOMAIN Servers : Len(Servers[j]) >= ask.cards}
           C(j) == Candidate(j, ask)
           found == {j \in able : C(j).start # NoTime}
           all == {c \in {C(j) : j \in able} : c.start # NoTime}
           starts == {C(j).start : j \in found}
<1>1. \A j \in DOMAIN Servers : C(j).server = j
  BY DEF Candidate
<1>2. Recommend(ask) = {c \in all : Cardinality({d \in all : Before(d, c)}) < ask.top}
  BY DEF Recommend
<1> HIDE DEF C
<1>3. /\ \A j \in DOMAIN Servers : C(j).start \in Nat \cup {NoTime}
      /\ C(i).start \in Nat /\ C(i).start <= t
  BY DEF C
<1>4. i \in found
  BY <1>3 DEF NoTime
<1>5. starts \subseteq Nat /\ starts # {}
  BY <1>3, <1>4
<1>6. PICK m \in starts : \A u \in starts : m <= u
  <2> HIDE DEF starts
  <2> QED BY <1>5, LeastNat
<1>7. PICK firsts : firsts = {j \in found : C(j).start = m}
  OBVIOUS
<1>8. firsts \subseteq Nat /\ firsts # {}
  BY <1>6, <1>7, AdviceAssumption
<1>9. PICK k \in firsts : \A j \in firsts : k <= j
  BY <1>8, LeastNat
<1>10. k \in found /\ C(k).start = m /\ C(k).server = k /\ k \in Nat /\ m \in Nat
  BY <1>1, <1>5, <1>7, <1>8
<1>11. C(k) \in all
  BY <1>10
<1>12. ASSUME NEW d \in all, Before(d, C(k)) PROVE FALSE
  <2>1. PICK j \in found : d = C(j)
    OBVIOUS
  <2>2. d.start \in starts /\ d.start \in Nat /\ m <= d.start /\ d.server = j /\ j \in Nat
    <3>1. d.start \in starts
      BY <2>1
    <3>2. d.server = j
      BY <1>1, <2>1
    <3>3. j \in Nat
      BY AdviceAssumption
    <3> HIDE DEF starts
    <3> QED BY <1>5, <1>6, <3>1, <3>2, <3>3
  <2>3. d.start = m /\ j < k
    BY <1>10, <1>12, <2>2 DEF Before
  <2>4. j \in firsts
    BY <1>7, <2>1, <2>3
  <2> QED BY <1>9, <1>10, <2>2, <2>3, <2>4
<1>13. {d \in all : Before(d, C(k))} = {}
  <2> HIDE DEF all
  <2> QED BY <1>12
<1>14. Cardinality({d \in all : Before(d, C(k))}) < ask.top
  <2>1. Cardinality({}) < ask.top
    BY FS_EmptySet DEF Ask
  <2>2. PICK S : S = {d \in all : Before(d, C(k))}
    OBVIOUS
  <2>3. S = {}
    BY <1>13, <2>2
  <2> HIDE DEF all
  <2> QED BY <2>1, <2>2, <2>3
<1>15. C(k) \in Recommend(ask)
  <2> HIDE DEF all
  <2> QED BY <1>2, <1>11, <1>14
<1>16. C(k).start <= t
  <2>1. m <= C(i).start
    BY <1>4, <1>6
  <2> QED BY <1>3, <1>10, <2>1
<1> QED BY <1>15, <1>16
\* What the sweep answers is an instant or NoTime.
LEMMA EarliestType ==
  ASSUME TypeOK, OrderInv, NEW ask \in Ask, NEW cards
  PROVE  EarliestStart(Busy(cards, ask), ask) \in Nat \cup {NoTime}
<1>1. PICK busy : busy = Busy(cards, ask)
  OBVIOUS
<1>2. PICK from \in Nat, to \in Nat : from = SearchStart(ask) /\ to = HorizonEnd(ask) /\ from < to
  BY SearchBounds
<1>3. PICK st : /\ Swept(st, busy, from, to, ask)
                /\ EarliestStart(busy, ask) =
                     IF st[to].since # NoTime /\ to - st[to].since >= ask.length
                     THEN st[to].since ELSE NoTime
  BY <1>2, EarliestOfSweep
<1>4. Clipped(busy, from, to) /\ to \in from .. to
  BY <1>1, <1>2, BusyClipped
<1>5. Shape(st[to], busy, from, to)
  BY <1>3, <1>4, SweptGood
<1> QED BY <1>1, <1>3, <1>5 DEF Shape

\* The first property, of every table in which windows end after they start.
LEMMA NotLateFollows ==
  ASSUME TypeOK, OrderInv
  PROVE  RecommendationIsNotLate
<1> SUFFICES ASSUME NEW ask \in Asks, NEW i \in DOMAIN Servers, NEW t \in TrueStarts(Cards(i), ask)
             PROVE  \E c \in Recommend(ask) : c.start <= t
  BY DEF RecommendationIsNotLate
<1>1. ask \in Ask
  BY AdviceAssumption DEF Ask
<1>2. IsFiniteSet(Cards(i)) /\ Cardinality(Cards(i)) = Len(Servers[i]) /\ Servers[i] \in Seq(Gpu)
  BY CardsOf
<1>3. t \in Nat
  BY <1>1, SearchBounds DEF TrueStarts, Ask
<1>4. \A j \in DOMAIN Servers : Candidate(j, ask).start = EarliestStart(Busy(Cards(j), ask), ask)
  BY DEF Candidate
<1>5. Candidate(i, ask).start \in Nat /\ Candidate(i, ask).start <= t
  BY <1>1, <1>2, <1>4, EarliestNotLate
<1>6. \A j \in DOMAIN Servers : Candidate(j, ask).start \in Nat \cup {NoTime}
  BY <1>1, <1>4, EarliestType
<1>7. Len(Servers[i]) >= ask.cards
  <2>1. PICK F \in SUBSET Cards(i) : Cardinality(F) >= ask.cards
    BY DEF TrueStarts
  <2>2. Cardinality(F) <= Cardinality(Cards(i)) /\ Cardinality(F) \in Nat
    BY <1>2, FS_Subset, FS_CardinalityType
  <2> QED BY <1>1, <1>2, <2>1, <2>2 DEF Ask
<1> QED BY <1>1, <1>3, <1>5, <1>6, <1>7, FirstIsShown

\* recommend overlooks nothing: whatever bookings, edits, cancellations and
\* ticks have made of the table, for every set of servers, every horizon and
\* every request, when some server has enough cards free for long enough
\* within the horizon, a window is shown that starts no later than that.
THEOREM RecommendationIsNeverLate == Spec => []RecommendationIsNotLate
<1>1. Init => BookingInv /\ OrderInv
  BY BookingInit, OrderInit
<1>2. BookingInv /\ OrderInv /\ [Next]_vars => BookingInv' /\ OrderInv'
  BY BookingStep, OrderStep
<1>3. BookingInv /\ OrderInv => RecommendationIsNotLate
  BY NotLateFollows DEF BookingInv
<1> QED BY <1>1, <1>2, <1>3, PTL DEF Spec
-----------------------------------------------------------------------------
(* A window of all cards holds.  When the intervals of a card have gaps    *)
(* between them, free_set holds no busy card; and when all cards are asked *)
(* for, there are enough of them only if all are free.                     *)

Spaced(busy) ==
  \A g \in DOMAIN busy : \A b, c \in busy[g] :
    b.end = c.end \/ b.end < c.start \/ c.end < b.start

AllFree(busy, t) == \A g \in DOMAIN busy : FreeAt(busy, g, t)

\* Every card of free_set is free at t, or begins to be busy at t.
FreeNow(st, busy, t) == ~st.over => \A g \in st.free : FreeAt(busy, g, t)
FreeBut(st, busy, t) == ~st.over => \A g \in st.free \ Starts(busy, t) : FreeAt(busy, g, t)

\* All cards have been free since the candidate start, up to t or for the
\* length of the closed span.
Held(st, busy, t, ask) ==
  st.since # NoTime =>
    \A u \in st.since .. (IF st.over THEN st.since + ask.length - 1 ELSE t) : AllFree(busy, u)

\* One turn keeps the span of the candidate free.
LEMMA TurnHolds ==
  ASSUME NEW busy, IsFiniteSet(DOMAIN busy), NEW ask \in Ask, ask.cards = Cardinality(DOMAIN busy),
         NEW from \in Nat, NEW t \in Nat, NEW st, NEW new, NEW free, free \subseteq DOMAIN busy,
         Turn(st, new, free, t, ask), Shape(st, busy, from, t), Held(st, busy, t - 1, ask),
         ~st.over => \A g \in free : FreeAt(busy, g, t)
  PROVE  Held(new, busy, t, ask)
<1>0. ask.length \in Nat \ {0} /\ (st.since = NoTime \/ st.since \in Nat)
  BY DEF Ask, Shape
<1> HIDE DEF NoTime
<1>1. CASE st.over
  BY <1>1 DEF Turn, Held
<1>2. CASE ~st.over /\ Cardinality(free) >= ask.cards
  <2>1. free = DOMAIN busy
    <3>1. /\ Cardinality(free) <= Cardinality(DOMAIN busy)
          /\ Cardinality(free) \in Nat /\ Cardinality(DOMAIN busy) \in Nat
      BY FS_Subset, FS_CardinalityType
    <3>2. Cardinality(free) = Cardinality(DOMAIN busy)
      BY <1>2, <3>1
    <3> QED BY <3>2, FS_Subset
  <2>2. AllFree(busy, t)
    BY <1>2, <2>1 DEF AllFree
  <2>3. ~new.over /\ new.since = IF st.since = NoTime THEN t ELSE st.since
    BY <1>2 DEF Turn
  <2>4. ASSUME NEW u \in new.since .. t PROVE AllFree(busy, u)
    <3>1. CASE u = t
      BY <2>2, <3>1
    <3>2. CASE u # t
      <4>1. st.since # NoTime /\ u \in st.since .. t - 1
        BY <1>0, <2>3, <2>4, <3>2
      <4> QED BY <1>2, <4>1 DEF Held
    <3> QED BY <3>1, <3>2
  <2> QED BY <2>3, <2>4 DEF Held
<1>3. CASE ~st.over /\ ~(Cardinality(free) >= ask.cards)
  <2>1. CASE st.since # NoTime /\ t - st.since >= ask.length
    <3>1. new.over /\ new.since = st.since
      BY <1>3, <2>1 DEF Turn
    <3>2. \A u \in st.since .. st.since + ask.length - 1 : u \in st.since .. t - 1
      BY <1>0, <2>1
    <3>3. \A u \in st.since .. t - 1 : AllFree(busy, u)
      BY <1>3, <2>1 DEF Held
    <3>4. \A u \in new.since .. new.since + ask.length - 1 : AllFree(busy, u)
      BY <3>1, <3>2, <3>3
    <3> QED BY <3>1, <3>4 DEF Held
  <2>2. CASE ~(st.since # NoTime /\ t - st.since >= ask.length)
    BY <1>3, <2>2 DEF Turn, Held
  <2> QED BY <2>1, <2>2
<1> QED BY <1>1, <1>2, <1>3

\* What is free up to t is free up to t - 1.
LEMMA HeldShorter ==
  ASSUME NEW busy, NEW ask, NEW from \in Nat, NEW t \in Nat, NEW st,
         Shape(st, busy, from, t), Held(st, busy, t, ask)
  PROVE  Held(st, busy, t - 1, ask)
<1>1. CASE st.since = NoTime \/ st.over
  BY <1>1 DEF Held
<1>2. CASE st.since # NoTime /\ ~st.over
  <2>1. st.since \in Nat
    BY <1>2 DEF Shape
  <2>2. \A u \in st.since .. t - 1 : u \in st.since .. t
    BY <2>1
  <2> QED BY <1>2, <2>2 DEF Held
<1> QED BY <1>1, <1>2

\* One instant keeps free_set true to the intervals and the span free.
LEMMA SweepHolds ==
  ASSUME NEW busy, IsFiniteSet(DOMAIN busy), NEW ask \in Ask, ask.cards = Cardinality(DOMAIN busy),
         NEW from \in Nat, NEW to \in Nat, Clipped(busy, from, to), Spaced(busy),
         NEW t \in from .. to, NEW st, Shape(st, busy, from, t), Ending(st, busy, t),
         FreeBut(st, busy, t), Held(st, busy, t - 1, ask)
  PROVE  LET new == Sweep(st, busy, t, ask)
         IN  FreeNow(new, busy, t) /\ Held(new, busy, t, ask)
<1>1. PICK mid : mid = Started(st, busy, t, ask)
  OBVIOUS
<1>2. PICK new : new = Sweep(st, busy, t, ask)
  OBVIOUS
<1>3. t \in Nat
  OBVIOUS
<1>4. PICK first, then : first = st.free \ Starts(busy, t) /\ then = mid.free \cup Ends(busy, t)
  OBVIOUS
<1>5. Turn(st, mid, first, t, ask) /\ Turn(mid, new, then, t, ask)
  BY <1>1, <1>2, <1>4, TwoTurns
<1>6. Shape(mid, busy, from, t) /\ Shape(new, busy, from, t)
  BY <1>1, <1>2, StartedGood, SweepGood
<1>7. first \subseteq DOMAIN busy /\ then \subseteq DOMAIN busy
  BY <1>4, <1>6 DEF Shape, Ends
<1>8. /\ (st.over => mid = st) /\ (~st.over => mid.free = first)
      /\ (mid.over => new = mid) /\ (~mid.over => new.free = then)
  BY <1>3, <1>5, TurnTracks
<1>9. ~st.over => \A g \in first : FreeAt(busy, g, t)
  BY <1>4 DEF FreeBut
<1>10. Held(mid, busy, t, ask)
  BY <1>3, <1>5, <1>7, <1>9, TurnHolds
<1>11. Held(mid, busy, t - 1, ask)
  BY <1>3, <1>6, <1>10, HeldShorter
<1>12. ASSUME NEW g \in Ends(busy, t) PROVE FreeAt(busy, g, t)
  <2> SUFFICES ASSUME NEW c \in busy[g], c.start <= t, t < c.end PROVE FALSE
    BY DEF FreeAt
  <2>1. g \in DOMAIN busy
    BY DEF Ends
  <2>2. PICK b \in busy[g] : b.end = t
    BY DEF Ends
  <2>3. /\ b.start \in Nat /\ b.end \in Nat /\ b.start < b.end
        /\ c.start \in Nat /\ c.end \in Nat
    BY <2>1 DEF Clipped
  <2>4. b.end = c.end \/ b.end < c.start \/ c.end < b.start
    BY <2>1 DEF Spaced
  <2> QED BY <1>3, <2>2, <2>3, <2>4
<1>13. ~mid.over => \A g \in then : FreeAt(busy, g, t)
  BY <1>4, <1>8, <1>9, <1>12
<1>14. Held(new, busy, t, ask)
  BY <1>3, <1>5, <1>6, <1>7, <1>11, <1>13, TurnHolds
<1>15. FreeNow(new, busy, t)
  BY <1>8, <1>13 DEF FreeNow
<1> QED BY <1>2, <1>14, <1>15

\* So do all instants.
LEMMA SweptHolds ==
  ASSUME NEW busy, IsFiniteSet(DOMAIN busy), NEW ask \in Ask, ask.cards = Cardinality(DOMAIN busy),
         NEW from \in Nat, NEW to \in Nat, Clipped(busy, from, to), Spaced(busy),
         NEW st, Swept(st, busy, from, to, ask)
  PROVE  \A t \in from .. to : Held(st[t], busy, t, ask)
<1> DEFINE Good(t) == FreeNow(st[t], busy, t) /\ Held(st[t], busy, t, ask)
           T == {t \in from .. to : ~Good(t)}
<1>1. ASSUME NEW t \in from .. to, t # from => Good(t - 1) PROVE Good(t)
  <2>1. PICK prev : prev = Prev(st, busy, from, t, ask)
    OBVIOUS
  <2>2. Shape(prev, busy, from, t) /\ Ending(prev, busy, t)
    BY <2>1, SweptGood
  <2>3. FreeBut(prev, busy, t) /\ Held(prev, busy, t - 1, ask)
    <3>1. CASE t = from
      <4>1. prev = First(busy, from, ask)
        BY <2>1, <3>1 DEF Prev
      <4>2. /\ prev.free = {g \in DOMAIN busy : FreeAt(busy, g, from)} /\ ~prev.over
            /\ prev.since \in {from, NoTime}
        BY <4>1 DEF First
      <4>3. FreeBut(prev, busy, t)
        BY <3>1, <4>2 DEF FreeBut
      <4>4. from .. t - 1 = {}
        BY <3>1
      <4>5. Held(prev, busy, t - 1, ask)
        BY <4>2, <4>4 DEF Held
      <4> QED BY <4>3, <4>5
    <3>2. CASE t # from
      <4>1. prev = st[t - 1]
        BY <2>1, <3>2 DEF Prev
      <4>2. FreeNow(prev, busy, t - 1) /\ Held(prev, busy, t - 1, ask)
        BY <1>1, <3>2, <4>1
      <4>3. FreeBut(prev, busy, t)
        <5> SUFFICES ASSUME ~prev.over, NEW g \in prev.free, g \notin Starts(busy, t),
                            NEW b \in busy[g], b.start <= t, t < b.end
                     PROVE  FALSE
          BY DEF FreeBut, FreeAt
        <5>1. g \in DOMAIN busy
          BY <2>2 DEF Shape
        <5>2. b.start # t /\ b.start \in Nat /\ b.end \in Nat
          BY <5>1 DEF Starts, Clipped
        <5>3. b.start <= t - 1 /\ t - 1 < b.end
          BY <5>2
        <5>4. FreeAt(busy, g, t - 1)
          BY <4>2 DEF FreeNow
        <5> QED BY <5>3, <5>4 DEF FreeAt
      <4> QED BY <4>2, <4>3
    <3> QED BY <3>1, <3>2
  <2>4. st[t] = Sweep(prev, busy, t, ask)
    BY <2>1, SweptStep
  <2> QED BY <2>2, <2>3, <2>4, SweepHolds
<1>2. T = {}
  <2> SUFFICES ASSUME T # {} PROVE FALSE
    OBVIOUS
  <2>1. PICK t \in T : \A m \in T : t <= m
    <3>1. T \subseteq Nat
      OBVIOUS
    <3> HIDE DEF T
    <3> QED BY <3>1, LeastNat
  <2>2. t \in from .. to /\ ~Good(t)
    OBVIOUS
  <2>3. t # from => Good(t - 1)
    <3> HIDE DEF Good
    <3>1. t # from => t - 1 \in from .. to /\ ~(t <= t - 1)
      BY <2>2
    <3> QED BY <2>1, <3>1
  <2> HIDE DEF T, Good
  <2> QED BY <1>1, <2>2, <2>3
<1> QED BY <1>2
\* Rows with gaps between them make intervals with gaps between them.
LEMMA BusySpaced ==
  ASSUME TypeOK, OrderInv, NEW ask \in Ask, NEW cards, \A g \in cards : WellSpaced(g)
  PROVE  Spaced(Busy(cards, ask))
<1>1. PICK from \in Nat, to \in Nat : from = SearchStart(ask) /\ to = HorizonEnd(ask) /\ from < to
  BY SearchBounds
<1>2. ASSUME NEW g \in cards, NEW b \in Busy(cards, ask)[g]
      PROVE  \E r \in Id :
          /\ Live(r) /\ rows[r].gpu = g /\ rows[r].start < to /\ rows[r].end > from
          /\ b.start = IF rows[r].start < from THEN from ELSE rows[r].start
          /\ b.end = IF rows[r].end > to THEN to ELSE rows[r].end
  BY <1>1, BusyInterval
<1>3. ASSUME NEW g \in cards, NEW b \in Busy(cards, ask)[g], NEW c \in Busy(cards, ask)[g]
      PROVE  b.end = c.end \/ b.end < c.start \/ c.end < b.start
  <2>1. PICK r \in Id :
          /\ Live(r) /\ rows[r].gpu = g /\ rows[r].start < to /\ rows[r].end > from
          /\ b.start = IF rows[r].start < from THEN from ELSE rows[r].start
          /\ b.end = IF rows[r].end > to THEN to ELSE rows[r].end
    BY <1>2
  <2>2. PICK q \in Id :
          /\ Live(q) /\ rows[q].gpu = g /\ rows[q].start < to /\ rows[q].end > from
          /\ c.start = IF rows[q].start < from THEN from ELSE rows[q].start
          /\ c.end = IF rows[q].end > to THEN to ELSE rows[q].end
    BY <1>2
  <2>3. /\ rows[r].start \in Nat /\ rows[r].end \in Nat /\ rows[r].start < rows[r].end
        /\ rows[q].start \in Nat /\ rows[q].end \in Nat /\ rows[q].start < rows[q].end
    BY <2>1, <2>2, LiveWindow
  <2>4. r = q \/ rows[r].end < rows[q].start \/ rows[q].end < rows[r].start
    BY <2>1, <2>2 DEF WellSpaced
  <2>5. CASE r = q
    BY <2>1, <2>2, <2>5
  <2>6. CASE rows[r].end < rows[q].start
    BY <2>1, <2>2, <2>3, <2>6
  <2>7. CASE rows[q].end < rows[r].start
    BY <2>1, <2>2, <2>3, <2>7
  <2> QED BY <2>4, <2>5, <2>6, <2>7
<1>4. DOMAIN Busy(cards, ask) = cards
  BY BusyClipped
<1> QED BY <1>3, <1>4 DEF Spaced

\* The window of a server all of whose cards are asked for lies within the
\* search, and no card of the server is busy in it.
LEMMA WindowIsFree ==
  ASSUME TypeOK, OrderInv, NEW ask \in Ask, NEW cards, IsFiniteSet(cards),
         ask.cards = Cardinality(cards), \A g \in cards : WellSpaced(g),
         NEW start, start = EarliestStart(Busy(cards, ask), ask), start # NoTime
  PROVE  /\ start \in Nat /\ SearchStart(ask) <= start /\ start + ask.length <= HorizonEnd(ask)
         /\ \A u \in start .. start + ask.length - 1 : AllFree(Busy(cards, ask), u)
<1>1. PICK busy : busy = Busy(cards, ask)
  OBVIOUS
<1>2. PICK from \in Nat, to \in Nat : from = SearchStart(ask) /\ to = HorizonEnd(ask) /\ from < to
  BY SearchBounds
<1>3. PICK st : /\ Swept(st, busy, from, to, ask)
                /\ EarliestStart(busy, ask) =
                     IF st[to].since # NoTime /\ to - st[to].since >= ask.length
                     THEN st[to].since ELSE NoTime
  BY <1>2, EarliestOfSweep
<1>4. DOMAIN busy = cards /\ Clipped(busy, from, to) /\ Spaced(busy) /\ to \in from .. to
  BY <1>1, <1>2, BusyClipped, BusySpaced
<1>5. st[to].since = start /\ to - start >= ask.length
  BY <1>1, <1>3
<1>6. start \in Nat /\ from <= start
  <2>1. Shape(st[to], busy, from, to)
    BY <1>3, <1>4, SweptGood
  <2> QED BY <1>5, <2>1 DEF Shape
<1>7. ask.length \in Nat
  BY DEF Ask
<1>8. start + ask.length <= to
  BY <1>5, <1>6, <1>7
<1>9. Held(st[to], busy, to, ask)
  BY <1>3, <1>4, SweptHolds
<1>10. ASSUME NEW u \in start .. start + ask.length - 1 PROVE AllFree(busy, u)
  <2>1. u \in start .. to
    BY <1>6, <1>7, <1>8
  <2> QED BY <1>5, <1>9, <1>10, <2>1 DEF Held
<1> QED BY <1>1, <1>2, <1>6, <1>8, <1>10

\* When all cards are free and all are asked for, all are picked.
LEMMA PicksAll ==
  ASSUME NEW i \in DOMAIN Servers, NEW busy, NEW t, NEW ask,
         ask.cards = Cardinality(Cards(i)), \A g \in Cards(i) : FreeAt(busy, g, t)
  PROVE  PickFirst(Servers[i], busy, t, ask) = Cards(i)
<1>1. PICK n \in Nat : n = Len(Servers[i]) /\ DOMAIN Servers[i] = 1 .. n /\ ask.cards = n
  BY CardsOf
<1>2. PICK free : free = {k \in DOMAIN Servers[i] : FreeAt(busy, Servers[i][k], t)}
  OBVIOUS
<1>3. free = 1 .. n
  BY <1>1, <1>2 DEF Cards
<1>4. ASSUME NEW j \in 1 .. n PROVE Cardinality({k \in free : k < j}) < ask.cards
  <2>1. PICK less : less = {k \in free : k < j}
    OBVIOUS
  <2>2. less = 1 .. (j - 1)
    BY <1>3, <2>1
  <2>3. Cardinality(1 .. (j - 1)) = j - 1
    BY FS_Interval
  <2>4. Cardinality(less) < ask.cards
    BY <1>1, <2>2, <2>3
  <2> QED BY <2>1, <2>4
<1>5. {j \in free : Cardinality({k \in free : k < j}) < ask.cards} = 1 .. n
  BY <1>3, <1>4
<1>6. PickFirst(Servers[i], busy, t, ask) =
        {Servers[i][k] : k \in {j \in free : Cardinality({l \in free : l < j}) < ask.cards}}
  BY <1>2 DEF PickFirst
<1> QED BY <1>1, <1>5, <1>6 DEF Cards

\* The second property, of every table in which windows end after they start.
LEMMA HoldsFollows ==
  ASSUME TypeOK, OrderInv
  PROVE  RecommendationHolds
<1> SUFFICES ASSUME NEW ask \in Asks, NEW c \in Recommend(ask),
                    ask.cards = Cardinality(Cards(c.server)),
                    \A g \in Cards(c.server) : WellSpaced(g),
                    MaxHours # 0 => ask.length <= MaxHours
             PROVE  /\ c.cards = Cards(c.server)
                    /\ Preview([g \in c.cards |-> [gpu |-> g, start |-> c.start,
                                  end |-> c.start + ask.length, mem |-> 0, pct |-> 0]]) = {}
  BY DEF RecommendationHolds
<1>1. ask \in Ask /\ ask.length \in Nat \ {0}
  BY AdviceAssumption DEF Ask
<1>2. PICK i \in DOMAIN Servers : c = Candidate(i, ask) /\ c.start # NoTime
  BY DEF Recommend
<1>3. PICK busy : busy = Busy(Cards(i), ask)
  OBVIOUS
<1>4. PICK start : start = EarliestStart(busy, ask)
  OBVIOUS
<1>5. c.server = i /\ c.start = start /\ c.cards = PickFirst(Servers[i], busy, start, ask)
  BY <1>2, <1>3, <1>4 DEF Candidate
<1>6. IsFiniteSet(Cards(i)) /\ Cards(i) \subseteq Gpu
  BY CardsOf
<1>7. /\ start \in Nat /\ SearchStart(ask) <= start /\ start + ask.length <= HorizonEnd(ask)
      /\ \A u \in start .. start + ask.length - 1 : AllFree(busy, u)
  BY <1>1, <1>2, <1>3, <1>4, <1>5, <1>6, WindowIsFree
<1>8. DOMAIN busy = Cards(i)
  BY <1>3 DEF Busy
<1>9. c.cards = Cards(i)
  <2>1. AllFree(busy, start)
    BY <1>1, <1>7
  <2> QED BY <1>5, <1>8, <2>1, PicksAll DEF AllFree
<1>10. ASSUME NEW g \in Cards(i), NEW item, item = [gpu |-> g, start |-> start,
                end |-> start + ask.length, mem |-> 0, pct |-> 0]
       PROVE  ~(\/ item.end <= item.start \/ item.start < now - Grace
                \/ (MaxHours # 0 /\ item.end - item.start > MaxHours)
                \/ (item.gpu # NoGpu /\ Conflict(item, InWindow(item))))
  <2>1. item.gpu = g /\ item.start = start /\ item.end = start + ask.length
    BY <1>10
  <2>2. InWindow(item) = {}
    <3> SUFFICES ASSUME NEW r \in InWindow(item) PROVE FALSE
      OBVIOUS
    <3>0. r \in Id /\ Live(r) /\ SameGpu(rows[r], item) /\ Overlap(rows[r], item)
      BY DEF InWindow
    <3>1. /\ r \in Id /\ Live(r) /\ rows[r].gpu = g
          /\ rows[r].start < start + ask.length /\ rows[r].end > start
      BY <2>1, <3>0 DEF SameGpu, Overlap
    <3>2. rows[r].start \in Nat /\ rows[r].end \in Nat /\ rows[r].start < rows[r].end
      BY <3>1, LiveWindow
    <3>3. PICK from \in Nat, to \in Nat : from = SearchStart(ask) /\ to = HorizonEnd(ask) /\ from < to
      BY <1>1, SearchBounds
    <3>4. rows[r].start < to /\ rows[r].end > from
      BY <1>1, <1>7, <3>1, <3>2, <3>3
    <3>5. PICK b \in busy[g] :
            /\ b.start = IF rows[r].start < from THEN from ELSE rows[r].start
            /\ b.end = IF rows[r].end > to THEN to ELSE rows[r].end
      BY <1>3, <3>1, <3>3, <3>4, BusyInterval
    <3>6. PICK u : u = IF rows[r].start < start THEN start ELSE rows[r].start
      OBVIOUS
    <3>7. u \in start .. start + ask.length - 1
      BY <1>1, <1>7, <3>1, <3>2, <3>6
    <3>8. b.start <= u /\ u < b.end
      BY <1>1, <1>7, <3>1, <3>2, <3>3, <3>5, <3>6
    <3>9. FreeAt(busy, g, u)
      BY <1>7, <1>8, <3>7 DEF AllFree
    <3> QED BY <3>8, <3>9 DEF FreeAt
  <2>3. ~Conflict(item, InWindow(item))
    BY <2>2 DEF Conflict
  <2>4. ~(item.end <= item.start)
    BY <1>1, <1>7, <2>1
  <2>5. ~(item.start < now - Grace)
    <3>1. now \in Nat /\ Grace \in Nat /\ now <= SearchStart(ask) /\ SearchStart(ask) \in Nat
      BY <1>1, SearchBounds, CapacityAssumption DEF TypeOK
    <3> QED BY <1>7, <2>1, <3>1
  <2>6. ~(MaxHours # 0 /\ item.end - item.start > MaxHours)
    BY <1>1, <1>7, <2>1, CapacityAssumption
  <2> QED BY <2>3, <2>4, <2>5, <2>6
<1>11. Preview([g \in c.cards |-> [gpu |-> g, start |-> c.start,
                  end |-> c.start + ask.length, mem |-> 0, pct |-> 0]]) = {}
  <2> DEFINE items == [g \in c.cards |-> [gpu |-> g, start |-> c.start,
                         end |-> c.start + ask.length, mem |-> 0, pct |-> 0]]
  <2>1. DOMAIN items = Cards(i)
    BY <1>9
  <2>2. \A g \in Cards(i) : items[g] = [gpu |-> g, start |-> start,
                              end |-> start + ask.length, mem |-> 0, pct |-> 0]
    BY <1>5, <1>9
  <2> HIDE DEF items
  <2>3. Preview(items) = {}
    BY <1>10, <2>1, <2>2 DEF Preview
  <2> QED BY <2>3 DEF items
<1> QED BY <1>5, <1>9, <1>11

\* A recommended window can be booked: for every reachable table, every set of
\* servers and every request for all cards of a server whose rows have gaps
\* between them, of a length the server allows, the window recommended for it
\* names all its cards and meets no conflict on any of them.
THEOREM RecommendationCanBeBooked == Spec => []RecommendationHolds
<1>1. Init => BookingInv /\ OrderInv
  BY BookingInit, OrderInit
<1>2. BookingInv /\ OrderInv /\ [Next]_vars => BookingInv' /\ OrderInv'
  BY BookingStep, OrderStep
<1>3. BookingInv /\ OrderInv => RecommendationHolds
  BY HoldsFollows DEF BookingInv
<1> QED BY <1>1, <1>2, <1>3, PTL DEF Spec
=============================================================================
