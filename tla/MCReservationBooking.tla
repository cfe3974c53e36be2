------------------------ MODULE MCReservationBooking ------------------------
(* Instances of ReservationBooking and ScheduleAdvice for TLC.             *)
EXTENDS ScheduleAdvice, TLC

CONSTANTS g1, g2, s1, s2

MCMemTotal == [g \in Gpu |-> 10]

Slot(g, b, e, m, p) == [gpu |-> g, start |-> b, end |-> e, mem |-> m, pct |-> p]
Batch(items)        == [items |-> items, script |-> FALSE, trigger |-> NoTime, share |-> TRUE]

Edit(b, e, scr, t)  == [start |-> b, end |-> e, script |-> scr, trigger |-> t]

\* Races for one card: an exclusive request, two shared ones that fill the
\* card together (two of the first exceed its memory, two of the second its
\* compute), and a batch of two cards one after the other.  The edits move the
\* start, or ask for a window that is too long.
RaceCreates ==
  { Batch(<<Slot(g1, 0, 2, 0, 0)>>),
    Batch(<<Slot(g1, 1, 2, 6, 40)>>),
    Batch(<<Slot(g1, 0, 2, 4, 60)>>),
    Batch(<<Slot(g1, 0, 1, 0, 0), Slot(g2, 1, 2, 4, 50)>>) }
RaceEdits == { Edit(1, NoTime, FALSE, NoTime), Edit(0, 3, FALSE, NoTime) }

\* One server with both cards and one with the first; a short window for both
\* cards, and a long one for one card, later.
TwoServers == << <<g1, g2>>, <<g1>> >>
OneServer  == << <<g1>> >>
SomeAsks   == { [cards |-> 2, length |-> 1, after |-> NoTime, top |-> 1],
                [cards |-> 1, length |-> 2, after |-> 1, top |-> 3] }

\* Few requests for the liveness check: two windows that overlap in both
\* orders, so that the scans and the inserts can wait for each other, and a
\* cron task without a GPU whose script has a trigger of its own.
CronTask      == [items |-> <<Slot(NoGpu, 0, 2, 0, 0)>>, script |-> TRUE, trigger |-> 1,
                  share |-> FALSE]
SettleCreates == { Batch(<<Slot(g1, 0, 2, 4, 0)>>), Batch(<<Slot(g1, 1, 2, 4, 0)>>), CronTask }
SettleEdits   == { Edit(1, NoTime, FALSE, NoTime), Edit(NoTime, NoTime, TRUE, 1) }

Symmetry == Permutations(Session)
=============================================================================
