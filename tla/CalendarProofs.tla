--------------------------- MODULE CalendarProofs ---------------------------
(***************************************************************************)
(* What the two ways of cutting time have to do with each other, for every *)
(* calendar, instant and zone: the period of a late event writes the rows  *)
(* its event is in and, but for its last instant, reads the events of its  *)
(* zone that belong to them; and rows follow the order of time.            *)
(***************************************************************************)
EXTENDS Calendar, TLAPS

\* Truncate cuts at the midnight UTC before, once and for all.
LEMMA TruncateCuts ==
    ASSUME NEW t \in Int
    PROVE  /\ Truncate(t) \in Int
           /\ Truncate(t) =< t /\ t < Truncate(t) + 24
           /\ Truncate(Truncate(t)) = Truncate(t)
BY SMT DEF Truncate

\* The day row depends on the UTC day alone, and two days never share one.
LEMMA DayRowValue ==
    ASSUME NEW t \in Int, NEW z \in Zones
    PROVE  DayRow(t, z) \in Int /\ DayRow(t, z) = (t \div 24) + (z \div 24)
BY SMT DEF DayRow, CivilDay, Truncate, Zones

\* Rows of days follow time: what happens between two instants is in a row
\* between theirs.
THEOREM DayRowsOrdered ==
    ASSUME NEW t \in Int, NEW u \in Int, NEW z \in Zones, t =< u
    PROVE  DayRow(t, z) =< DayRow(u, z)
<1>1. t \div 24 =< u \div 24
  BY SMT
<1>2. z \div 24 \in Int
  BY SMT DEF Zones
<1> QED
  BY <1>1, <1>2, DayRowValue, SMT

\* markDirty and the reconciliation agree with addToBuffer on the day: the
\* recomputation of a late event's day writes the row of that event, and
\* reads it.
THEOREM PeriodDayIsRow ==
    ASSUME NEW t \in Int, NEW z \in Zones
    PROVE  /\ PeriodDay(PeriodOf(t, z)) = DayRow(t, z)
           /\ InDay(t, PeriodOf(t, z))
<1>1. PeriodOf(t, z).day = Truncate(t) /\ PeriodOf(t, z).zone = z
  BY DEF PeriodOf
<1>2. DayRow(Truncate(t), z) = DayRow(t, z)
  BY TruncateCuts DEF DayRow
<1> QED
  BY <1>1, <1>2, TruncateCuts, SMT DEF PeriodDay, InDay, InRange, DayEnd

\* But for the midnight at its end, the range read for a day holds the
\* events of the zone that are in that day's row, and no other of them.
THEOREM DayRangeFits ==
    ASSUME NEW t \in Int, NEW u \in Int, NEW z \in Zones,
           u # DayEnd(PeriodOf(t, z))
    PROVE  InDay(u, PeriodOf(t, z)) <=> DayRow(u, z) = DayRow(t, z)
<1>1. PeriodOf(t, z).day = 24 * (t \div 24)
  BY DEF PeriodOf, Truncate
<1>2. InDay(u, PeriodOf(t, z)) <=> u \div 24 = t \div 24
  BY <1>1, SMT DEF InDay, InRange, DayEnd
<1>3. DayRow(u, z) = DayRow(t, z) <=> u \div 24 = t \div 24
  <2>1. z \div 24 \in Int /\ u \div 24 \in Int /\ t \div 24 \in Int
    BY SMT DEF Zones
  <2> QED
    BY <2>1, DayRowValue, SMT
<1> QED
  BY <1>2, <1>3

-----------------------------------------------------------------------------
(* Months. *)

\* A day that has a month is in that month and in no other.
LEMMA MonthOfDay ==
    ASSUME NEW d \in Int, HasMonth(d)
    PROVE  /\ MonthAt(d) \in Calendar
           /\ MonthFirst[MonthAt(d)] =< d /\ d < MonthFirst[MonthAt(d) + 1]
BY DEF HasMonth, MonthAt

LEMMA CalendarFacts ==
    ASSUME NEW m \in Calendar
    PROVE  /\ m \in Nat /\ m + 1 \in Nat
           /\ m \in DOMAIN MonthFirst /\ m + 1 \in DOMAIN MonthFirst
           /\ MonthFirst[m] \in Int /\ MonthFirst[m + 1] \in Int
           /\ MonthFirst[m] < MonthFirst[m + 1]
<1>1. m \in DOMAIN MonthFirst /\ m + 1 \in DOMAIN MonthFirst
  BY DEF Calendar
<1>2. MonthFirst \in Seq(Int)
  BY MonthFirstAssumption
<1>3. m \in Nat /\ m + 1 \in Nat /\ m < m + 1
  BY <1>1, <1>2, SMT
<1>4. MonthFirst[m] \in Int /\ MonthFirst[m + 1] \in Int
  BY <1>1, <1>2, SMT
<1> QED
  BY <1>1, <1>3, <1>4, MonthFirstAssumption

\* The months do not overlap: their order is that of their days.
LEMMA MonthsOrdered ==
    ASSUME NEW m \in Calendar, NEW n \in Calendar, m < n
    PROVE  MonthFirst[m + 1] =< MonthFirst[n]
<1>1. m + 1 =< n
  BY CalendarFacts, SMT
<1>2. CASE m + 1 = n
  BY <1>2, CalendarFacts, SMT
<1>3. CASE m + 1 < n
  <2>1. MonthFirst[m + 1] < MonthFirst[n]
    BY <1>3, CalendarFacts, MonthFirstAssumption
  <2> QED
    BY <2>1, CalendarFacts, SMT
<1> QED
  BY <1>1, <1>2, <1>3, CalendarFacts, SMT

LEMMA MonthUnique ==
    ASSUME NEW d \in Int, NEW m \in Calendar,
           MonthFirst[m] =< d, d < MonthFirst[m + 1]
    PROVE  HasMonth(d) /\ MonthAt(d) = m
<1>1. HasMonth(d)
  BY DEF HasMonth
<1> DEFINE n == MonthAt(d)
<1>2. n \in Calendar /\ MonthFirst[n] =< d /\ d < MonthFirst[n + 1]
  BY <1>1, MonthOfDay
<1> HIDE DEF n
<1>3. ~ (m < n)
  BY <1>2, MonthsOrdered, CalendarFacts, SMT
<1>4. ~ (n < m)
  BY <1>2, MonthsOrdered, CalendarFacts, SMT
<1>5. n = m
  BY <1>2, <1>3, <1>4, CalendarFacts, SMT
<1> QED
  BY <1>1, <1>5 DEF n

\* Rows of months follow time, like rows of days.
THEOREM MonthRowsOrdered ==
    ASSUME NEW t \in Int, NEW u \in Int, NEW z \in Zones, t =< u,
           HasMonth(CivilDay(t, z)), HasMonth(CivilDay(u, z))
    PROVE  MonthRow(t, z) =< MonthRow(u, z)
<1>1. CivilDay(t, z) \in Int /\ CivilDay(u, z) \in Int /\ CivilDay(t, z) =< CivilDay(u, z)
  BY SMT DEF CivilDay, Zones
<1> DEFINE m == MonthRow(t, z)
           n == MonthRow(u, z)
<1>2. m \in Calendar /\ MonthFirst[m] =< CivilDay(t, z)
  BY <1>1, MonthOfDay DEF MonthRow
<1>3. n \in Calendar /\ CivilDay(u, z) < MonthFirst[n + 1]
  BY <1>1, MonthOfDay DEF MonthRow
<1> HIDE DEF m, n
<1>4. ~ (n < m)
  BY <1>1, <1>2, <1>3, MonthsOrdered, CalendarFacts, SMT
<1>5. m =< n
  BY <1>2, <1>3, <1>4, CalendarFacts, SMT
<1> QED
  BY <1>5 DEF m, n

\* The first instant of a month in a zone is in that month there.
LEMMA MonthStartsInMonth ==
    ASSUME NEW m \in Calendar, NEW z \in Zones
    PROVE  /\ MonthStart(m, z) \in Int
           /\ MonthRow(MonthStart(m, z), z) = m
<1>1. MonthStart(m, z) \in Int /\ CivilDay(MonthStart(m, z), z) = MonthFirst[m]
  BY CalendarFacts, SMT DEF MonthStart, CivilDay, Zones
<1>2. MonthAt(MonthFirst[m]) = m
  BY CalendarFacts, MonthUnique, SMT
<1> QED
  BY <1>1, <1>2 DEF MonthRow

\* An instant is in a month of its zone exactly when it lies between the
\* first instants of that month and of the next.
LEMMA MonthBounds ==
    ASSUME NEW u \in Int, NEW z \in Zones, NEW m \in Calendar,
           HasMonth(CivilDay(u, z))
    PROVE  MonthRow(u, z) = m <=> MonthStart(m, z) =< u /\ u < MonthStart(m + 1, z)
<1> DEFINE d == CivilDay(u, z)
<1>1. d \in Int
  BY SMT DEF CivilDay, Zones
<1>2. /\ MonthStart(m, z) =< u <=> MonthFirst[m] =< d
      /\ u < MonthStart(m + 1, z) <=> d < MonthFirst[m + 1]
  BY CalendarFacts, SMT DEF MonthStart, CivilDay, Zones
<1>3. ASSUME MonthRow(u, z) = m
      PROVE  MonthFirst[m] =< d /\ d < MonthFirst[m + 1]
  BY <1>1, <1>3, MonthOfDay DEF MonthRow
<1>4. ASSUME MonthFirst[m] =< d, d < MonthFirst[m + 1]
      PROVE  MonthRow(u, z) = m
  BY <1>1, <1>4, MonthUnique DEF MonthRow
<1> QED
  BY <1>2, <1>3, <1>4

\* The same agreement for the month.
THEOREM PeriodMonthIsRow ==
    ASSUME NEW t \in Int, NEW z \in Zones, HasMonth(CivilDay(t, z))
    PROVE  /\ PeriodMonth(PeriodOf(t, z)) = MonthRow(t, z)
           /\ InMonth(t, PeriodOf(t, z))
<1> DEFINE m == MonthRow(t, z)
           p == PeriodOf(t, z)
<1>1. p.month = MonthStart(m, z) /\ p.zone = z
  BY DEF PeriodOf
<1>2. m \in Calendar
  <2>1. CivilDay(t, z) \in Int
    BY SMT DEF CivilDay, Zones
  <2> QED
    BY <2>1, MonthOfDay DEF MonthRow
<1>3. PeriodMonth(p) = m
  BY <1>1, <1>2, MonthStartsInMonth DEF PeriodMonth
<1>4. MonthStart(m, z) =< t /\ t < MonthStart(m + 1, z)
  BY <1>2, MonthBounds
<1>5. MonthStart(m, z) \in Int /\ MonthStart(m + 1, z) \in Int
  BY <1>2, CalendarFacts, SMT DEF MonthStart, Zones
<1>6. MonthEnd(p) = MonthStart(m + 1, z)
  BY <1>1, <1>3 DEF MonthEnd
<1>7. InMonth(t, p)
  BY <1>1, <1>4, <1>5, <1>6, SMT DEF InMonth, InRange
<1> QED
  BY <1>3, <1>7

\* But for the first instant of the next month, the range read for a month
\* holds the events of the zone that are in that month's row, and no other
\* of them.
THEOREM MonthRangeFits ==
    ASSUME NEW t \in Int, NEW u \in Int, NEW z \in Zones,
           HasMonth(CivilDay(t, z)), HasMonth(CivilDay(u, z)),
           u # MonthEnd(PeriodOf(t, z))
    PROVE  InMonth(u, PeriodOf(t, z)) <=> MonthRow(u, z) = MonthRow(t, z)
<1> DEFINE m == MonthRow(t, z)
           p == PeriodOf(t, z)
<1>1. p.month = MonthStart(m, z) /\ p.zone = z
  BY DEF PeriodOf
<1>2. m \in Calendar
  <2>1. CivilDay(t, z) \in Int
    BY SMT DEF CivilDay, Zones
  <2> QED
    BY <2>1, MonthOfDay DEF MonthRow
<1>3. MonthEnd(p) = MonthStart(m + 1, z)
  BY <1>1, PeriodMonthIsRow DEF MonthEnd
<1>4. MonthRow(u, z) = m <=> MonthStart(m, z) =< u /\ u < MonthStart(m + 1, z)
  BY <1>2, MonthBounds
<1>5. MonthStart(m, z) \in Int /\ MonthStart(m + 1, z) \in Int
  BY <1>2, CalendarFacts, SMT DEF MonthStart, Zones
<1>6. InMonth(u, p) <=> MonthStart(m, z) =< u /\ u =< MonthStart(m + 1, z)
  BY <1>1, <1>3 DEF InMonth, InRange
<1>7. u # MonthStart(m + 1, z)
  BY <1>3
<1>8. InMonth(u, p) <=> MonthRow(u, z) = m
  BY <1>4, <1>5, <1>6, <1>7, SMT
<1> QED
  BY <1>8
=============================================================================
