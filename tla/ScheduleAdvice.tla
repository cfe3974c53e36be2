--------------------------- MODULE ScheduleAdvice ---------------------------
(***************************************************************************)
(* What the backend tells a user before a booking: the earliest windows    *)
(* with enough free cards (schedule_recommender) and the conflicts a batch *)
(* would meet (preview_conflicts).  Both are questions put to the table of *)
(* ReservationBooking; neither changes it.  The locks a preview takes are  *)
(* those of a creation that is refused.                                    *)
(*                                                                         *)
(* Abstractions.  All servers are active and online or offline, and all    *)
(* cards active: others are left out of Servers.  Two events of the sweep  *)
(* with the same time and direction may come in any order: free_set and    *)
(* the span come out the same, so they are taken together.                 *)
(***************************************************************************)
EXTENDS ReservationBooking

CONSTANTS
  Servers,   \* the cards of each server, by gpu_index
  Horizon,   \* HORIZON_DAYS
  Asks       \* the bodies of POST /reservations/recommend that may arrive

ASSUME AdviceAssumption ==
  /\ Servers \in Seq(Seq(Gpu)) /\ Horizon \in Nat \ {0}
  /\ \A i \in DOMAIN Servers : \A k, l \in DOMAIN Servers[i] :   \* a row of gpu each
       Servers[i][k] = Servers[i][l] => k = l
  /\ Asks \subseteq [cards : Nat \ {0}, length : Nat \ {0}, after : Time, top : Nat \ {0}]

-----------------------------------------------------------------------------
(* recommend *)

Cards(i) == {Servers[i][k] : k \in DOMAIN Servers[i]}

SearchStart(ask) == IF ask.after > now THEN ask.after ELSE now
HorizonEnd(ask)  == SearchStart(ask) + Horizon

\* Slip: reservations that are running do not count.
ScheduledOnly(cards, ask) ==
  [g \in cards |->
     {[start |-> rows[r].start, end |-> rows[r].end] :
        r \in {q \in Id : /\ rows[q].status = "scheduled" /\ rows[q].gpu = g
                          /\ rows[q].start < HorizonEnd(ask) /\ rows[q].end > SearchStart(ask)}}]

\* busy_by_gpu: the intervals of the live rows of each card, clipped to the
\* search.
Busy(cards, ask) ==
  LET from == SearchStart(ask)
      to   == HorizonEnd(ask)
      clip(r) == [start |-> IF rows[r].start < from THEN from ELSE rows[r].start,
                  end   |-> IF rows[r].end > to THEN to ELSE rows[r].end]
  IN [g \in cards |-> {clip(r) : r \in {q \in Id : /\ Live(q) /\ rows[q].gpu = g
                                                  /\ rows[q].start < to /\ rows[q].end > from}}]

FreeAt(busy, g, t) == \A b \in busy[g] : ~(b.start <= t /\ t < b.end)

\* Slip: a span must be longer than asked for.
LongerThan(st, free, t, ask) ==
  LET enough == Cardinality(free) >= ask.cards
      fits   == st.since # NoTime /\ ~enough /\ t - st.since > ask.length
  IN IF st.over THEN st
     ELSE [free |-> free, over |-> fits,
           since |-> IF fits THEN st.since ELSE IF ~enough THEN NoTime
                     ELSE IF st.since = NoTime THEN t ELSE st.since]

\* The body of the sweep once free_set has changed at instant t.  since is
\* candidate_start; over: a span that is long enough has ended.
Apply(st, free, t, ask) ==
  LET enough == Cardinality(free) >= ask.cards
      fits   == st.since # NoTime /\ ~enough /\ t - st.since >= ask.length
  IN IF st.over THEN st
     ELSE [free |-> free, over |-> fits,
           since |-> IF fits THEN st.since ELSE IF ~enough THEN NoTime
                     ELSE IF st.since = NoTime THEN t ELSE st.since]

\* All events of an instant, starts before ends.  A card enters free_set at the
\* end of any of its intervals, whatever other interval goes on or begins.
Sweep(st, busy, t, ask) ==
  LET starts  == {g \in DOMAIN busy : \E b \in busy[g] : b.start = t}
      ends    == {g \in DOMAIN busy : \E b \in busy[g] : b.end = t}
      started == Apply(st, st.free \ starts, t, ask)
  IN Apply(started, started.free \cup ends, t, ask)

\* The start of _earliest_window_for_server, or NoTime.
EarliestStart(busy, ask) ==
  LET from  == SearchStart(ask)
      to    == HorizonEnd(ask)
      free  == {g \in DOMAIN busy : FreeAt(busy, g, from)}
      first == [free |-> free, over |-> FALSE,
                since |-> IF Cardinality(free) >= ask.cards THEN from ELSE NoTime]
      state[t \in from .. to] == Sweep(IF t = from THEN first ELSE state[t - 1], busy, t, ask)
      since == state[to].since
  IN IF since # NoTime /\ to - since >= ask.length THEN since ELSE NoTime

\* The first cards, by gpu_index, that are free when the window starts.
PickFirst(shelf, busy, t, ask) ==
  LET free == {k \in DOMAIN shelf : FreeAt(busy, shelf[k], t)}
  IN {shelf[k] : k \in {j \in free : Cardinality({i \in free : i < j}) < ask.cards}}

\* One window for a server; the earliest of them are shown.
Candidate(i, ask) ==
  LET busy  == Busy(Cards(i), ask)
      start == EarliestStart(busy, ask)
  IN [server |-> i, start |-> start, cards |-> PickFirst(Servers[i], busy, start, ask)]
Before(c, d) == c.start < d.start \/ (c.start = d.start /\ c.server < d.server)
Recommend(ask) ==
  LET able == {i \in DOMAIN Servers : Len(Servers[i]) >= ask.cards}
      all  == {c \in {Candidate(i, ask) : i \in able} : c.start # NoTime}
  IN {c \in all : Cardinality({d \in all : Before(d, c)}) < ask.top}

-----------------------------------------------------------------------------
(* preview_conflicts *)

\* The items of a batch for which the preview reports a conflict.
Preview(items) ==
  {i \in DOMAIN items : LET item == items[i] IN
     \/ item.end <= item.start \/ item.start < now - Grace
     \/ (MaxHours # 0 /\ item.end - item.start > MaxHours)
     \/ (item.gpu # NoGpu /\ Conflict(item, InWindow(item)))}

-----------------------------------------------------------------------------
(* Properties.                                                             *)

\* The instants at which enough cards of a server are free for as long as the
\* request asks, by the definition the docstring of
\* _earliest_window_for_server gives.
TrueStarts(cards, ask) ==
  {t \in SearchStart(ask) .. HorizonEnd(ask) - ask.length :
     Cardinality({g \in cards :
        \A r \in Id : (Live(r) /\ rows[r].gpu = g)
                        => ~Overlap(rows[r], [start |-> t, end |-> t + ask.length])}) >= ask.cards}

\* recommend overlooks nothing: when some server has the cards free for long
\* enough within the horizon, it answers, and its first window starts no later
\* than that, whatever bookings, edits and ticks have made of the table.
RecommendationIsNotLate ==
  \A ask \in Asks :
    LET starts == {c.start : c \in Recommend(ask)}
    IN \A i \in DOMAIN Servers : \A t \in TrueStarts(Cards(i), ask) : \E u \in starts : u <= t

\* No two live rows of the card touch or overlap.
WellSpaced(g) ==
  \A a, b \in {r \in Id : Live(r) /\ rows[r].gpu = g} :
    a = b \/ rows[a].end < rows[b].start \/ rows[b].end < rows[a].start

\* A recommended window can be booked: previewed as one exclusive reservation
\* of each card it meets no conflict, provided the user asks for all cards of
\* the server, their rows have gaps between them, and the window is no longer
\* than the server's limit.  (Otherwise the sweep counts a busy card as free,
\* or cards that take turns as one; and it does not look at the limit.)
RecommendationHolds ==
  \A ask \in Asks : \A c \in Recommend(ask) :
    (/\ ask.cards = Cardinality(Cards(c.server)) /\ \A g \in Cards(c.server) : WellSpaced(g)
     /\ MaxHours # 0 => ask.length <= MaxHours)
      => /\ c.cards = Cards(c.server)
         /\ Preview([g \in c.cards |-> [gpu |-> g, start |-> c.start, end |-> c.start + ask.length,
                                        mem |-> 0, pct |-> 0]]) = {}
=============================================================================
