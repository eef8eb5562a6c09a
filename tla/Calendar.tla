------------------------------ MODULE Calendar ------------------------------
(***************************************************************************)
(* How the aggregator, the repository of aggregates and the verifier turn  *)
(* an instant into a day and a month.  All three use Go's                  *)
(*     t.Truncate(24 * time.Hour)                                          *)
(* which cuts absolute time at midnight UTC and keeps the location of t,   *)
(* and                                                                     *)
(*     time.Date(t.Year(), t.Month(), 1, 0, 0, 0, 0, t.Location())         *)
(* which looks at the civil date of t in its own location.  A date is then *)
(* written (Format, a DATE column) as the civil date in that location.     *)
(*                                                                         *)
(* An instant is a number of hours since midnight UTC of day 0, a zone the *)
(* hours its clocks are ahead of UTC, and a day or a month a number.  The  *)
(* location of a parsed event is the fixed offset its text carries.        *)
(***************************************************************************)
EXTENDS Integers, Sequences

CONSTANT MonthFirst  \* MonthFirst[m]: the number of the first day of month m

ASSUME MonthFirstAssumption ==
    /\ MonthFirst \in Seq(Int)
    /\ \A m, n \in DOMAIN MonthFirst : m < n => MonthFirst[m] < MonthFirst[n]

Zones == -12..14

\* The calendar ends with the first day of the month after the last one.
Calendar == {m \in DOMAIN MonthFirst : m + 1 \in DOMAIN MonthFirst}

\* Midnight UTC of the instant's day, as an instant.
Truncate(t) == 24 * (t \div 24)

\* The number of the day a clock in zone z shows at instant t.
CivilDay(t, z) == (t + z) \div 24

\* The day row of an event: the truncated instant, written in its zone.
DayRow(t, z) == CivilDay(Truncate(t), z)

\* The month day d falls in, and the months that have one.
HasMonth(d) == \E m \in Calendar : MonthFirst[m] =< d /\ d < MonthFirst[m + 1]
MonthAt(d)  == CHOOSE m \in Calendar : MonthFirst[m] =< d /\ d < MonthFirst[m + 1]

\* The month row of an event: that of its civil date.
MonthRow(t, z) == MonthAt(CivilDay(t, z))

\* MUTANT of MonthStart: midnight UTC of the month's first day.
MonthStartUTC(m, z) == 24 * MonthFirst[m]

\* The first instant of month m in zone z.
MonthStart(m, z) == 24 * MonthFirst[m] - z

-----------------------------------------------------------------------------
(* A dirty period: the day and the month of a late event as markDirty      *)
(* computes them, two instants in the event's location.                    *)

PeriodOf(t, z) ==
    [day |-> Truncate(t), month |-> MonthStart(MonthRow(t, z), z), zone |-> z]

\* The rows its recomputation writes ...
PeriodDay(p)   == DayRow(p.day, p.zone)
PeriodMonth(p) == MonthRow(p.month, p.zone)

\* ... and the ranges it reads, whose end is dayStart.Add(24 hours), or
\* monthStart.AddDate(0, 1, 0).
DayEnd(p)   == p.day + 24
MonthEnd(p) == MonthStart(PeriodMonth(p) + 1, p.zone)

\* GetByTimeRange includes both ends.
InRange(t, from, to) == from =< t /\ t =< to

InDay(t, p)   == InRange(t, p.day, DayEnd(p))
InMonth(t, p) == InRange(t, p.month, MonthEnd(p))
=============================================================================
