-------------------------- MODULE AggregatorProofs --------------------------
(***************************************************************************)
(* Theorems about Aggregator, for every topic, calendar, set of events and *)
(* zones, channel capacity, late threshold and bound on failures and       *)
(* hours: the periods recomputed are those of late events, an event is     *)
(* taken in at most once an hour, what is taken in is neither lost nor     *)
(* counted twice while the database answers, and only a recomputation      *)
(* ever counts an event twice.                                             *)
(***************************************************************************)
EXTENDS Aggregator, UsecaseProofs

-----------------------------------------------------------------------------
(* Type correctness. *)

\* What the consumer, the ingestor and the signal do to the usecase's state.
LEMMA SurroundingsTyped ==
    ASSUME TypeOK,
           (\E p \in Partitions : Deliver(p)) \/ CloseChannel \/ IngestorStores \/ Signal
    PROVE  TypeOK'
<1>1. ASSUME NEW p \in Partitions, Deliver(p)
      PROVE  TypeOK'
  <2>1. <<p, sent[p] + 1>> \in Messages
    BY <1>1 DEF Deliver, Messages, TypeOK
  <2>2. ChannelTypeOK' /\ sent' \in [Partitions -> Nat]
    BY <1>1, <2>1, ChanCapAssumption DEF Deliver, Offer, HasRoom, TypeOK, ChannelTypeOK
  <2>3. UNCHANGED aggVars
    BY <1>1 DEF Deliver
  <2> QED
    BY <2>2, <2>3 DEF TypeOK, AggregateTypeOK, aggVars, processVars, bufferVars, reconVars, tableVars
<1>2. CASE CloseChannel \/ Signal
  BY <1>2 DEF CloseChannel, Signal, TypeOK, ChannelTypeOK, AggregateTypeOK,
              aggVars, processVars, bufferVars, reconVars, tableVars
<1>3. CASE IngestorStores
  BY <1>3, ParseAssumption DEF IngestorStores, TypeOK, ChannelTypeOK, AggregateTypeOK,
              channelVars, processVars, bufferVars, reconVars, tableVars
<1> QED
  BY <1>1, <1>2, <1>3

\* The steps of the usecase, and those of what surrounds it.
LEMMA StepsAre ==
    ASSUME [Next]_vars
    PROVE  \/ UsecaseStep /\ UNCHANGED <<closed, ctx, sent>>
           \/ (\E p \in Partitions : Deliver(p)) \/ CloseChannel \/ IngestorStores \/ Signal
           \/ UNCHANGED vars
BY Zenon DEF Next, UsecaseStep, ProcessStep, StreamingStep, ReconcileStep, SweepStep

\* The types of the usecase are part of those.
LEMMA UsecaseTypes == TypeOK => UsecaseOK
BY DEF TypeOK, UsecaseOK

\* What surrounds the usecase leaves its state and the aggregates alone.
LEMMA SurroundingsLeave ==
    ASSUME \/ (\E p \in Partitions : Deliver(p)) \/ CloseChannel \/ IngestorStores \/ Signal
           \/ UNCHANGED vars
    PROVE  UNCHANGED <<processVars, bufferVars, reconVars, tableVars, dirty>>
BY DEF Deliver, CloseChannel, IngestorStores, Signal, vars, aggVars

LEMMA NextTyped == TypeOK /\ [Next]_vars => TypeOK'
<1> SUFFICES ASSUME TypeOK, [Next]_vars PROVE TypeOK'
  OBVIOUS
<1>1. CASE UsecaseStep /\ UNCHANGED <<closed, ctx, sent>>
  BY <1>1, UsecaseTyped DEF TypeOK, UsecaseOK
<1>2. CASE UNCHANGED vars
  BY <1>2 DEF vars, TypeOK, AggregateTypeOK, ChannelTypeOK, channelVars,
              aggVars, processVars, bufferVars, reconVars, tableVars
<1> QED
  BY <1>1, <1>2, StepsAre, SurroundingsTyped

LEMMA InitTyped == Init => TypeOK
<1> SUFFICES ASSUME Init PROVE TypeOK
  OBVIOUS
<1>1. AggregateInit /\ Opened /\ sent \in [Partitions -> Nat]
  BY DEF Init, Opened
<1> QED
  BY <1>1, UsecaseInit DEF TypeOK, UsecaseOK

\* Every variable keeps its type and every channel its capacity.
THEOREM TypeCorrect == Spec => []TypeOK
BY InitTyped, NextTyped, PTL DEF Spec

-----------------------------------------------------------------------------
(* Where the dirty periods come from. *)

LEMMA OriginsInvariant == Spec => []Origins
<1>1. Init => Origins
  BY OriginsInit DEF Init
<1>2. TypeOK /\ Origins /\ [Next]_vars => Origins'
  <2> SUFFICES ASSUME TypeOK, Origins, [Next]_vars PROVE Origins'
    OBVIOUS
  <2>1. CASE UsecaseStep
    BY <2>1, UsecaseTypes, UsecaseKeepsOrigins
  <2>2. CASE UNCHANGED <<processVars, reconVars, dirty>>
    BY <2>2 DEF Origins, Origin, processVars, reconVars
  <2> QED
    BY <2>1, <2>2, StepsAre, SurroundingsLeave
<1> QED
  BY <1>1, <1>2, TypeCorrect, PTL DEF Spec

\* reconcileDay and reconcileMonth work on the period of an event taken in
\* and marked late, and agree with addToBuffer on its rows, whatever the
\* zones of the events: the ranges they read hold that event and, but for
\* their last instant, exactly the events of its zone and rows.
THEOREM PeriodsFitHolds == Spec => []PeriodsFit
<1>1. Origins => PeriodsFit
  <2> SUFFICES ASSUME Origins,
                      NEW p \in {dirty[i] : i \in DOMAIN dirty} \cup ({period} \ {NoPeriod})
               PROVE  /\ \E l \in Events :
                             /\ asked[l] > 0
                             /\ PeriodDay(p) = DayOf[l]     /\ InDay(StartedAt[l], p)
                             /\ PeriodMonth(p) = MonthOf[l] /\ InMonth(StartedAt[l], p)
                      /\ \A e \in {x \in Events : Zone[x] = p.zone} :
                             /\ StartedAt[e] # DayEnd(p)
                                    => (InDay(StartedAt[e], p) <=> DayOf[e] = PeriodDay(p))
                             /\ StartedAt[e] # MonthEnd(p)
                                    => (InMonth(StartedAt[e], p) <=> MonthOf[e] = PeriodMonth(p))
    BY DEF PeriodsFit
  <2>1. Origin(p)
    BY DEF Origins
  <2>2. PICK l \in Events : asked[l] > 0 /\ p = PeriodOf(StartedAt[l], Zone[l])
    BY <2>1 DEF Origin
  <2>3. /\ PeriodDay(p) = DayOf[l]     /\ InDay(StartedAt[l], p)
        /\ PeriodMonth(p) = MonthOf[l] /\ InMonth(StartedAt[l], p)
    BY <2>2, RowsOf, PeriodDayIsRow, PeriodMonthIsRow
  <2>4. ASSUME NEW e \in Events, Zone[e] = p.zone
        PROVE  /\ StartedAt[e] # DayEnd(p)
                      => (InDay(StartedAt[e], p) <=> DayOf[e] = PeriodDay(p))
               /\ StartedAt[e] # MonthEnd(p)
                      => (InMonth(StartedAt[e], p) <=> MonthOf[e] = PeriodMonth(p))
    <3>1. Zone[e] = Zone[l]
      BY <2>2, <2>4 DEF PeriodOf
    <3>2. StartedAt[e] # DayEnd(p)
            => (InDay(StartedAt[e], p) <=> DayOf[e] = PeriodDay(p))
      BY <2>2, RowsOf, <2>3, <3>1, DayRangeFits
    <3>3. StartedAt[e] # MonthEnd(p)
            => (InMonth(StartedAt[e], p) <=> MonthOf[e] = PeriodMonth(p))
      BY <2>2, RowsOf, <2>3, <3>1, MonthRangeFits
    <3> QED
      BY <3>2, <3>3
  <2> QED
    BY <2>2, <2>3, <2>4
<1> QED
  BY <1>1, OriginsInvariant, PTL

-----------------------------------------------------------------------------
(* How often an event is taken in. *)

\* An event is taken in once in an hour; while it is not remembered from
\* the current one it may still be taken in.
OnceAnHour ==
    \A e \in Events :
        /\ accepted[e] =< 1 + hours
        /\ MemoryKey(e) \notin processed \ aged => accepted[e] =< hours

LEMMA ProcessOnceAnHour ==
    ASSUME TypeOK, OnceAnHour, ProcessEvent
    PROVE  OnceAnHour'
<1> DEFINE x == EventOf(Head(eventsChan))
<1>1. x \in Events
  BY MessageCarriesEvent DEF TypeOK, ChannelTypeOK, ProcessEvent, TakeFirst
<1>2. UNCHANGED <<aged, hours>>
  BY DEF ProcessEvent
<1>3. /\ accepted \in [Events -> Nat] /\ hours \in Nat /\ aged \subseteq processed
  BY DEF TypeOK, AggregateTypeOK
<1>4. \/ UNCHANGED <<accepted, processed>>
      \/ /\ MemoryKey(x) \notin processed
         /\ processed' = processed \cup {MemoryKey(x)}
         /\ accepted' = [accepted EXCEPT ![x] = @ + 1]
  BY DEF ProcessEvent
<1> HIDE DEF x
<1>5. CASE UNCHANGED <<accepted, processed>>
  BY <1>2, <1>5 DEF OnceAnHour, MemoryKey
<1>6. CASE /\ MemoryKey(x) \notin processed
           /\ processed' = processed \cup {MemoryKey(x)}
           /\ accepted' = [accepted EXCEPT ![x] = @ + 1]
  <2> SUFFICES ASSUME NEW e \in Events
               PROVE  /\ accepted'[e] =< 1 + hours'
                      /\ MemoryKey(e) \notin processed' \ aged' => accepted'[e] =< hours'
    BY DEF OnceAnHour, MemoryKey
  <2>1. CASE e = x
    <3>1. accepted[e] =< hours /\ MemoryKey(e) \in processed' \ aged'
      BY <1>1, <1>2, <1>3, <1>6, <2>1 DEF OnceAnHour
    <3> QED
      BY <1>1, <1>2, <1>3, <1>6, <2>1, <3>1
  <2>2. CASE e # x
    <3>1. accepted'[e] = accepted[e]
      BY <1>3, <1>6, <2>2
    <3>2. MemoryKey(e) \notin processed' \ aged' => MemoryKey(e) \notin processed \ aged
      BY <1>2, <1>6
    <3> QED
      BY <1>2, <3>1, <3>2 DEF OnceAnHour
  <2> QED
    BY <2>1, <2>2
<1> QED
  BY <1>4, <1>5, <1>6

\* What does not take an event in, forget or let an hour pass.
LEMMA OthersKeepMemory ==
    ASSUME [Next]_vars, ~ ProcessEvent, ~ Cleanup, ~ HourPasses
    PROVE  UNCHANGED <<processed, aged, hours, accepted>>
<1>1. CASE ProcessStep
  BY <1>1 DEF ProcessStep, Process, AddToBuffer, StopProcessing, FlushDay, FlushMonth
<1>2. CASE StreamingStep
  BY <1>2 DEF StreamingStep, Streaming, FlushTick, StopFlushing, FlushDay, FlushMonth, processVars
<1>3. CASE ReconcileStep
  BY <1>3 DEF ReconcileStep, Reconcile, TakeDirty, ReadDay, ReconcileDay, ReadMonth,
              ReconcileMonth, StopReconciling, reconFrame, processVars
<1>4. CASE SweepStep
  BY <1>4 DEF SweepStep, Sweep, StopCleanup
<1>5. CASE (\E p \in Partitions : Deliver(p)) \/ CloseChannel \/ IngestorStores \/ Signal
  BY <1>5 DEF Deliver, CloseChannel, IngestorStores, Signal, aggVars, processVars
<1>6. CASE UNCHANGED vars
  BY <1>6 DEF vars, aggVars, processVars
<1>7. CASE Next
  BY <1>1, <1>2, <1>3, <1>4, <1>5, <1>7, Zenon DEF Next
<1> QED
  BY <1>6, <1>7

\* The memory of ids and its cleanup: an event is counted again, however
\* often it is delivered, only when an hour has passed since.
THEOREM DuplicatesWithinTheHourHolds == Spec => []DuplicatesWithinTheHour
<1>1. Init => OnceAnHour
  <2> SUFFICES ASSUME Init, NEW e \in Events
               PROVE  accepted[e] = 0 /\ hours = 0
    BY DEF OnceAnHour
  <2> QED
    BY DEF Init, AggregateInit, None
<1>2. TypeOK /\ OnceAnHour /\ [Next]_vars => OnceAnHour'
  <2> SUFFICES ASSUME TypeOK, OnceAnHour, [Next]_vars PROVE OnceAnHour'
    OBVIOUS
  <2>1. CASE Cleanup
    <3>1. /\ UNCHANGED <<hours, accepted>>
          /\ processed' \ aged' = processed \ aged
      BY <2>1 DEF Cleanup, Expired
    <3> QED
      BY <3>1 DEF OnceAnHour, MemoryKey
  <2>2. CASE HourPasses
    <3>1. /\ hours' = hours + 1 /\ hours \in Nat /\ accepted \in [Events -> Nat]
          /\ UNCHANGED accepted
      BY <2>2 DEF HourPasses, TypeOK, AggregateTypeOK
    <3> QED
      BY <3>1 DEF OnceAnHour
  <2>3. CASE ~ ProcessEvent /\ ~ Cleanup /\ ~ HourPasses
    <3>1. UNCHANGED <<processed, aged, hours, accepted>>
      BY <2>3, OthersKeepMemory
    <3> QED
      BY <3>1 DEF OnceAnHour, MemoryKey
  <2> QED
    BY <2>1, <2>2, <2>3, ProcessOnceAnHour
<1>3. OnceAnHour => DuplicatesWithinTheHour
  BY DEF OnceAnHour, DuplicatesWithinTheHour
<1> QED
  BY <1>1, <1>2, <1>3, TypeCorrect, PTL DEF Spec

-----------------------------------------------------------------------------
(* CountsAccounted. *)

\* What is left moves nothing the balance is about.
LEMMA OthersMoveNothing ==
    ASSUME [Next]_vars, ~ ProcessStep, ~ StreamingStep, ~ ReconcileStep
    PROVE  UNCHANGED <<ppc, taken, bufferVars, reconVars, aggDay, aggMonth, accepted, asked>>
<1>1. CASE SweepStep
  BY <1>1 DEF SweepStep, Sweep, Cleanup, StopCleanup, tableVars
<1>2. CASE HourPasses
  BY <1>2 DEF HourPasses, tableVars
<1>3. CASE (\E p \in Partitions : Deliver(p)) \/ CloseChannel \/ IngestorStores \/ Signal
  BY <1>3 DEF Deliver, CloseChannel, IngestorStores, Signal, aggVars, processVars, tableVars
<1>4. CASE UNCHANGED vars
  BY <1>4 DEF vars, aggVars, processVars, tableVars
<1>5. CASE Next
  <2>1. CASE HourPasses /\ UNCHANGED <<closed, ctx, sent>>
    BY <1>2, <2>1
  <2> QED
    BY <1>1, <1>3, <1>5, <2>1, Zenon DEF Next
<1> QED
  BY <1>4, <1>5

LEMMA PlacesInvariant == Spec => []Places
<1>1. TypeOK /\ Places /\ [Next]_vars => Places'
  <2> SUFFICES ASSUME TypeOK, Places, [Next]_vars PROVE Places'
    OBVIOUS
  <2>1. CASE UsecaseStep
    BY <2>1, UsecaseKeepsPlaces DEF TypeOK, UsecaseOK
  <2>2. CASE \/ (\E p \in Partitions : Deliver(p)) \/ CloseChannel \/ IngestorStores \/ Signal
             \/ UNCHANGED vars
    <3>1. UNCHANGED <<ppc, taken, bufferVars, reconVars>>
      BY <2>2 DEF Deliver, CloseChannel, IngestorStores, Signal, vars, aggVars, processVars
    <3> QED
      BY <3>1 DEF Places, bufferVars, reconVars
  <2> QED
    BY <2>1, <2>2, StepsAre
<1>2. Init => Places
  BY PlacesInit DEF Init
<1> QED
  BY <1>1, <1>2, TypeCorrect, PTL DEF Spec

-----------------------------------------------------------------------------
(* A database that has never failed, and the steps that keep the balance. *)

\* After the step the database has never failed and no signal has come.
CalmAfter == upsertFaults' = 0 /\ ~ ctx'

\* A statement of a database that has never failed is answered.
LEMMA CalmStatement ==
    ASSUME UsecaseOK, CalmAfter, NEW outcome, Statement(outcome), UNCHANGED ctx
    PROVE  outcome = "ok"
<1>1. upsertFaults \in Nat
  BY DEF UsecaseOK, AggregateTypeOK
<1> QED
  BY <1>1 DEF CalmAfter, Statement

\* An answered upsert of the flush: what leaves the copy enters the row.
LEMMA CellMoves ==
    ASSUME NEW B, NEW table \in [B -> [Events -> Nat]], NEW rowOf,
           NEW copy \in [Events -> Nat], NEW cell \in CellsOf(copy, rowOf),
           NEW e \in Events, rowOf[e] \in B
    PROVE  Without(copy, rowOf, cell)[e]
               + Upserted(table, cell[1], InCell(copy, rowOf, cell), "ok")[rowOf[e]][e]
               = copy[e] + table[rowOf[e]][e]
<1> DEFINE part == InCell(copy, rowOf, cell)
           rest == Without(copy, rowOf, cell)
<1>1. PICK x \in Events : cell = <<rowOf[x], TypeOf[x]>>
  BY DEF CellsOf
<1>2. part \in [Events -> Nat] /\ copy[e] \in Nat /\ table[rowOf[e]][e] \in Nat
  BY CellsTyped
<1>3. Upserted(table, cell[1], part, "ok")[rowOf[e]][e] =
          table[rowOf[e]][e] + (IF rowOf[e] = cell[1] THEN part[e] ELSE 0)
  BY <1>2, UpsertAt
<1>4. \/ rowOf[e] = cell[1] /\ part[e] = copy[e] /\ rest[e] = 0
      \/ part[e] = 0 /\ rest[e] = copy[e]
  BY <1>1 DEF InCell, Without
<1> HIDE DEF part, rest
<1>5. rest[e] + Upserted(table, cell[1], part, "ok")[rowOf[e]][e]
          = copy[e] + table[rowOf[e]][e]
  BY <1>2, <1>3, <1>4
<1> QED
  BY <1>5 DEF part, rest

LEMMA FlushDayBalances ==
    ASSUME UsecaseOK, Places, NEW f \in Flushers, FlushDay(f), UNCHANGED ctx, CalmAfter,
           NEW e \in Events
    PROVE  Balanced(e)
<1>1. PICK cell \in CellsOf(dayCopy[f], DayOf), outcome \in Outcomes :
        /\ Statement(outcome)
        /\ aggDay' = Upserted(aggDay, cell[1], InCell(dayCopy[f], DayOf, cell), outcome)
        /\ IF outcome # "ok" THEN AbandonFlush(f)
           ELSE /\ dayCopy' = [dayCopy EXCEPT ![f] = Without(@, DayOf, cell)]
                /\ fpc' = [fpc EXCEPT ![f] = IF dayCopy'[f] = None THEN "month" ELSE "day"]
                /\ UNCHANGED <<ppc, monthCopy>>
  BY DEF FlushDay
<1>2. outcome = "ok"
  BY <1>1, CalmStatement
<1>3. /\ dayCopy \in [Flushers -> [Events -> Nat]] /\ dayCopy[f] \in [Events -> Nat]
      /\ aggDay \in [Days -> [Events -> Nat]] /\ Flushers = {"P", "S"}
  BY DEF UsecaseOK, AggregateTypeOK, Flushers
<1>4. InHand(e)' = InHand(e)
  BY <1>1, <1>2, FlushKeepsInHand DEF FlushDay
<1>5. /\ UNCHANGED <<dayBuffer, monthBuffer, monthCopy, aggMonth, accepted>>
      /\ aggDay' = Upserted(aggDay, cell[1], InCell(dayCopy[f], DayOf, cell), "ok")
  BY <1>1, <1>2 DEF FlushDay
<1>6. dayCopy'[f][e] + aggDay'[DayOf[e]][e] = dayCopy[f][e] + aggDay[DayOf[e]][e]
  <2>1. dayCopy'[f] = Without(dayCopy[f], DayOf, cell)
    BY <1>1, <1>2, <1>3
  <2>2. DayOf[e] \in Days
    BY HeldTyped
  <2>3. Without(dayCopy[f], DayOf, cell)[e]
            + Upserted(aggDay, cell[1], InCell(dayCopy[f], DayOf, cell), "ok")[DayOf[e]][e]
            = dayCopy[f][e] + aggDay[DayOf[e]][e]
    <3>1. /\ cell \in CellsOf(dayCopy[f], DayOf) /\ aggDay \in [Days -> [Events -> Nat]]
          /\ dayCopy[f] \in [Events -> Nat]
      BY <1>1, <1>3
    <3> QED
      BY ONLY <2>2, <3>1, e \in Events, CellMoves
  <2> QED
    BY <1>5, <2>1, <2>3
<1>7. dayCopy'[f][e] \in Nat /\ aggDay'[DayOf[e]][e] \in Nat
  <2>1. dayCopy'[f] \in [Events -> Nat]
    BY <1>1, <1>2, <1>3, CellsTyped
  <2>2. aggDay' \in [Days -> [Events -> Nat]]
    BY <1>3, <1>5, CellsTyped, UpsertedTyped
  <2> QED
    BY <2>1, <2>2, HeldTyped
<1>8. \A g \in Flushers : g # f => dayCopy'[g] = dayCopy[g]
  BY <1>1, <1>2, <1>3
<1>9. CASE f = "P"
  <2>1. dayCopy'["S"] = dayCopy["S"]
    BY <1>3, <1>8, <1>9
  <2> QED
    BY <1>4, <1>5, <1>6, <1>7, <1>9, <2>1, HeldTyped
    DEF Balanced, DayHeld, MonthHeld, OnTheWayToDay, OnTheWayToMonth
<1>10. CASE f = "S"
  <2>1. dayCopy'["P"] = dayCopy["P"]
    BY <1>3, <1>8, <1>10
  <2> QED
    BY <1>4, <1>5, <1>6, <1>7, <1>10, <2>1, HeldTyped
    DEF Balanced, DayHeld, MonthHeld, OnTheWayToDay, OnTheWayToMonth
<1> QED
  BY <1>3, <1>9, <1>10

LEMMA FlushMonthBalances ==
    ASSUME UsecaseOK, Places, NEW f \in Flushers, FlushMonth(f), UNCHANGED ctx, CalmAfter,
           NEW e \in Events
    PROVE  Balanced(e)
<1>1. PICK cell \in CellsOf(monthCopy[f], MonthOf), outcome \in Outcomes :
        /\ Statement(outcome)
        /\ aggMonth' = Upserted(aggMonth, cell[1], InCell(monthCopy[f], MonthOf, cell), outcome)
        /\ IF outcome # "ok" THEN AbandonFlush(f)
           ELSE /\ monthCopy' = [monthCopy EXCEPT ![f] = Without(@, MonthOf, cell)]
                /\ IF monthCopy'[f] = None THEN AfterFlush(f) ELSE UNCHANGED <<fpc, ppc>>
                /\ UNCHANGED dayCopy
  BY DEF FlushMonth
<1>2. outcome = "ok"
  BY <1>1, CalmStatement
<1>3. /\ monthCopy \in [Flushers -> [Events -> Nat]] /\ monthCopy[f] \in [Events -> Nat]
      /\ aggMonth \in [Months -> [Events -> Nat]] /\ Flushers = {"P", "S"}
  BY DEF UsecaseOK, AggregateTypeOK, Flushers
<1>4. InHand(e)' = InHand(e)
  <2>1. UNCHANGED ppc \/ AfterFlush(f)
    BY <1>1, <1>2
  <2> QED
    BY <2>1, FlushKeepsInHand DEF FlushMonth
<1>5. /\ UNCHANGED <<dayBuffer, monthBuffer, dayCopy, aggDay, accepted>>
      /\ aggMonth' = Upserted(aggMonth, cell[1], InCell(monthCopy[f], MonthOf, cell), "ok")
  BY <1>1, <1>2 DEF FlushMonth
<1>6. monthCopy'[f][e] + aggMonth'[MonthOf[e]][e] = monthCopy[f][e] + aggMonth[MonthOf[e]][e]
  <2>1. monthCopy'[f] = Without(monthCopy[f], MonthOf, cell)
    BY <1>1, <1>2, <1>3
  <2>2. MonthOf[e] \in Months
    BY HeldTyped
  <2>3. Without(monthCopy[f], MonthOf, cell)[e]
            + Upserted(aggMonth, cell[1], InCell(monthCopy[f], MonthOf, cell), "ok")[MonthOf[e]][e]
            = monthCopy[f][e] + aggMonth[MonthOf[e]][e]
    <3>1. /\ cell \in CellsOf(monthCopy[f], MonthOf) /\ aggMonth \in [Months -> [Events -> Nat]]
          /\ monthCopy[f] \in [Events -> Nat]
      BY <1>1, <1>3
    <3> QED
      BY ONLY <2>2, <3>1, e \in Events, CellMoves
  <2> QED
    BY <1>5, <2>1, <2>3
<1>7. monthCopy'[f][e] \in Nat /\ aggMonth'[MonthOf[e]][e] \in Nat
  <2>1. monthCopy'[f] \in [Events -> Nat]
    BY <1>1, <1>2, <1>3, CellsTyped
  <2>2. aggMonth' \in [Months -> [Events -> Nat]]
    BY <1>3, <1>5, CellsTyped, UpsertedTyped
  <2> QED
    BY <2>1, <2>2, HeldTyped
<1>8. \A g \in Flushers : g # f => monthCopy'[g] = monthCopy[g]
  BY <1>1, <1>2, <1>3
<1>9. CASE f = "P"
  <2>1. monthCopy'["S"] = monthCopy["S"]
    BY <1>3, <1>8, <1>9
  <2> QED
    BY <1>4, <1>5, <1>6, <1>7, <1>9, <2>1, HeldTyped
    DEF Balanced, DayHeld, MonthHeld, OnTheWayToDay, OnTheWayToMonth
<1>10. CASE f = "S"
  <2>1. monthCopy'["P"] = monthCopy["P"]
    BY <1>3, <1>8, <1>10
  <2> QED
    BY <1>4, <1>5, <1>6, <1>7, <1>10, <2>1, HeldTyped
    DEF Balanced, DayHeld, MonthHeld, OnTheWayToDay, OnTheWayToMonth
<1> QED
  BY <1>3, <1>9, <1>10

\* Every step but those of the reconciliation keeps the balance.
LEMMA StepBalances ==
    ASSUME TypeOK, Places, [Next]_vars, ~ ReconcileStep, CalmAfter, NEW e \in Events
    PROVE  Balanced(e)
<1>1. "P" \in Flushers /\ "S" \in Flushers /\ UsecaseOK
  BY UsecaseTypes DEF Flushers
<1>2. CASE ProcessStep
  <2>1. UNCHANGED ctx
    BY <1>2 DEF ProcessStep
  <2>2. CASE StopProcessing
    <3>1. /\ Swap("P") /\ fpc["P"] = "idle" /\ UNCHANGED <<aggDay, aggMonth, accepted>>
          /\ InHand(e)' = InHand(e)
      BY <2>2 DEF StopProcessing, Places, InHand, tableVars
    <3> QED
      BY <1>1, <3>1, SwapBalances
  <2> QED
    BY <1>1, <1>2, <2>1, <2>2, TakingInBalances, AddingBalances, FlushDayBalances, FlushMonthBalances
    DEF ProcessStep, Process
<1>3. CASE StreamingStep
  <2>1. UNCHANGED ctx
    BY <1>3 DEF StreamingStep
  <2>2. CASE FlushTick
    <3>1. /\ Swap("S") /\ fpc["S"] = "idle" /\ UNCHANGED <<aggDay, aggMonth, accepted>>
          /\ InHand(e)' = InHand(e)
      BY <2>2 DEF FlushTick, InHand, tableVars, processVars
    <3> QED
      BY <1>1, <3>1, SwapBalances
  <2>3. CASE StopFlushing
    BY <1>1, <2>3, StillBalances DEF StopFlushing, InHand, tableVars, processVars
  <2> QED
    BY <1>1, <1>3, <2>1, <2>2, <2>3, FlushDayBalances, FlushMonthBalances
    DEF StreamingStep, Streaming
<1>4. CASE ~ ProcessStep /\ ~ StreamingStep
  <2>1. UNCHANGED <<ppc, taken, bufferVars, aggDay, aggMonth, accepted>>
    BY <1>4, OthersMoveNothing
  <2> QED
    BY <1>1, <2>1, StillBalances DEF InHand, bufferVars
<1> QED
  BY <1>2, <1>3, <1>4

-----------------------------------------------------------------------------
(* The reconciliation, and the theorem. *)

\* A step of the reconciliation adds to the balance of an event only where
\* an event marked late shares its row and reads it.
LEMMA ReconcileAdds ==
    ASSUME UsecaseOK, Places, Origins, Reconcile, NEW e \in Events
    PROVE  /\ UNCHANGED <<accepted, asked>>
           /\ DayHeld(e)' >= DayHeld(e) /\ MonthHeld(e)' >= MonthHeld(e)
           /\ NoneAsked(DayRecounters(e, DayOf[e])) => DayHeld(e)' = DayHeld(e)
           /\ NoneAsked(MonthRecounters(e, MonthOf[e])) => MonthHeld(e)' = MonthHeld(e)
<1>1. UNCHANGED <<accepted, asked, dayBuffer, monthBuffer, dayCopy, monthCopy>> /\ InHand(e)' = InHand(e)
  BY DEF Reconcile, TakeDirty, ReadDay, ReconcileDay, ReadMonth, ReconcileMonth, StopReconciling,
         reconFrame, processVars, bufferVars, InHand
<1>2. ASSUME NEW n \in Nat, NEW k \in Nat,
             aggDay'[DayOf[e]][e] = aggDay[DayOf[e]][e] + n,
             aggMonth'[MonthOf[e]][e] = aggMonth[MonthOf[e]][e] + k,
             NoneAsked(DayRecounters(e, DayOf[e])) => n = 0,
             NoneAsked(MonthRecounters(e, MonthOf[e])) => k = 0
      PROVE  /\ DayHeld(e)' >= DayHeld(e) /\ MonthHeld(e)' >= MonthHeld(e)
             /\ NoneAsked(DayRecounters(e, DayOf[e])) => DayHeld(e)' = DayHeld(e)
             /\ NoneAsked(MonthRecounters(e, MonthOf[e])) => MonthHeld(e)' = MonthHeld(e)
  BY <1>1, <1>2, HeldTyped DEF DayHeld, MonthHeld, OnTheWayToDay, OnTheWayToMonth
<1>3. /\ aggDay \in [Days -> [Events -> Nat]] /\ aggMonth \in [Months -> [Events -> Nat]]
      /\ snap \subseteq Events
  BY DEF UsecaseOK, AggregateTypeOK
<1>4. CASE UNCHANGED <<aggDay, aggMonth>>
  <2>1. /\ aggDay'[DayOf[e]][e] = aggDay[DayOf[e]][e] + 0
        /\ aggMonth'[MonthOf[e]][e] = aggMonth[MonthOf[e]][e] + 0
    BY <1>4, HeldTyped
  <2> QED
    BY <1>1, <1>2, <2>1
<1>5. CASE ReconcileDay
  <2>1. PICK t, outcome : aggDay' = Upserted(aggDay, PeriodDay(period), TotalOf(snap, t), outcome)
    BY <1>5 DEF ReconcileDay
  <2>2. DayOf[e] \in Days /\ aggDay \in [Days -> [Events -> Nat]]
    BY <1>3, HeldTyped
  <2>3. Upserted(aggDay, PeriodDay(period), TotalOf(snap, t), outcome)[DayOf[e]][e] \in
            {aggDay[DayOf[e]][e], aggDay[DayOf[e]][e] + Spent(e, DayOf[e], PeriodDay(period), t)}
    BY <2>2, TotalSpends, Zenon
  <2>4. PICK n \in {0, Spent(e, DayOf[e], PeriodDay(period), t)} :
            aggDay'[DayOf[e]][e] = aggDay[DayOf[e]][e] + n
    <3>1. aggDay[DayOf[e]][e] + 0 = aggDay[DayOf[e]][e]
      BY <2>2
    <3> QED
      BY <2>1, <2>3, <3>1
  <2>5. NoneAsked(DayRecounters(e, DayOf[e])) => n = 0
    <3> SUFFICES ASSUME n # 0 PROVE ~ NoneAsked(DayRecounters(e, DayOf[e]))
      OBVIOUS
    <3>1. DayOf[e] = PeriodDay(period) /\ e \in snap
      BY <2>4 DEF Spent
    <3>2. InDay(StartedAt[e], period)
      BY <1>5, <3>1 DEF ReconcileDay, Places
    <3>3. PICK l \in Events : asked[l] > 0 /\ period = PeriodOf(StartedAt[l], Zone[l])
      BY <1>5 DEF ReconcileDay, Origins, Origin
    <3>4. PeriodDay(period) = DayOf[l]
      BY <3>3, RowsOf, PeriodDayIsRow
    <3>5. l \in DayRecounters(e, DayOf[e])
      BY <3>1, <3>2, <3>3, <3>4 DEF DayRecounters
    <3> QED
      BY <3>3, <3>5 DEF NoneAsked
  <2>6. aggMonth'[MonthOf[e]][e] = aggMonth[MonthOf[e]][e] + 0
    BY <1>5, HeldTyped DEF ReconcileDay
  <2>7. n \in Nat
    BY <2>4 DEF Spent
  <2> QED
    BY <1>1, <1>2, <2>4, <2>5, <2>6, <2>7
<1>6. CASE ReconcileMonth
  <2>1. PICK t, outcome : aggMonth' = Upserted(aggMonth, PeriodMonth(period), TotalOf(snap, t), outcome)
    BY <1>6 DEF ReconcileMonth
  <2>2. MonthOf[e] \in Months /\ aggMonth \in [Months -> [Events -> Nat]]
    BY <1>3, HeldTyped
  <2>3. Upserted(aggMonth, PeriodMonth(period), TotalOf(snap, t), outcome)[MonthOf[e]][e] \in
            {aggMonth[MonthOf[e]][e], aggMonth[MonthOf[e]][e] + Spent(e, MonthOf[e], PeriodMonth(period), t)}
    BY <2>2, TotalSpends, Zenon
  <2>4. PICK k \in {0, Spent(e, MonthOf[e], PeriodMonth(period), t)} :
            aggMonth'[MonthOf[e]][e] = aggMonth[MonthOf[e]][e] + k
    <3>1. aggMonth[MonthOf[e]][e] + 0 = aggMonth[MonthOf[e]][e]
      BY <2>2
    <3> QED
      BY <2>1, <2>3, <3>1
  <2>5. NoneAsked(MonthRecounters(e, MonthOf[e])) => k = 0
    <3> SUFFICES ASSUME k # 0 PROVE ~ NoneAsked(MonthRecounters(e, MonthOf[e]))
      OBVIOUS
    <3>1. MonthOf[e] = PeriodMonth(period) /\ e \in snap
      BY <2>4 DEF Spent
    <3>2. InMonth(StartedAt[e], period)
      BY <1>6, <3>1 DEF ReconcileMonth, Places
    <3>3. PICK l \in Events : asked[l] > 0 /\ period = PeriodOf(StartedAt[l], Zone[l])
      BY <1>6 DEF ReconcileMonth, Origins, Origin
    <3>4. PeriodMonth(period) = MonthOf[l]
      BY <3>3, RowsOf, PeriodMonthIsRow
    <3>5. l \in MonthRecounters(e, MonthOf[e])
      BY <3>1, <3>2, <3>3, <3>4 DEF MonthRecounters
    <3> QED
      BY <3>3, <3>5 DEF NoneAsked
  <2>6. aggDay'[DayOf[e]][e] = aggDay[DayOf[e]][e] + 0
    BY <1>6, HeldTyped DEF ReconcileMonth
  <2>7. k \in Nat
    BY <2>4 DEF Spent
  <2> QED
    BY <1>1, <1>2, <2>4, <2>5, <2>6, <2>7
<1>7. TakeDirty \/ ReadDay \/ ReadMonth \/ StopReconciling => UNCHANGED <<aggDay, aggMonth>>
  BY DEF TakeDirty, ReadDay, ReadMonth, StopReconciling, tableVars
<1> QED
  BY <1>1, <1>4, <1>5, <1>6, <1>7 DEF Reconcile

\* A database that has not failed, and a signal that has not come, had not
\* before.
LEMMA CalmBefore ==
    ASSUME TypeOK, [Next]_vars, CalmAfter
    PROVE  upsertFaults = 0 /\ ~ ctx
<1>1. upsertFaults \in Nat
  BY DEF TypeOK, AggregateTypeOK
<1>2. upsertFaults' = upsertFaults \/ upsertFaults' = upsertFaults + 1
  <2>1. CASE Process
    BY <2>1 DEF Process, ProcessEvent, AddToBuffer, StopProcessing, FlushDay, FlushMonth,
                Statement, tableVars
  <2>2. CASE Streaming
    BY <2>2 DEF Streaming, FlushTick, StopFlushing, FlushDay, FlushMonth, Statement, tableVars
  <2>3. CASE Reconcile
    BY <2>3 DEF Reconcile, TakeDirty, ReadDay, ReconcileDay, ReadMonth, ReconcileMonth,
                StopReconciling, Statement, tableVars
  <2>4. CASE Sweep \/ HourPasses
    BY <2>4 DEF Sweep, Cleanup, StopCleanup, HourPasses, tableVars
  <2>5. CASE (\E p \in Partitions : Deliver(p)) \/ CloseChannel \/ IngestorStores \/ Signal
    BY <2>5 DEF Deliver, CloseChannel, IngestorStores, Signal, aggVars, tableVars
  <2>6. CASE UNCHANGED vars
    BY <2>6 DEF vars, aggVars, tableVars
  <2>7. CASE Next
    <3>1. CASE HourPasses /\ UNCHANGED <<closed, ctx, sent>>
      BY <2>4, <3>1
    <3> QED
      BY <2>1, <2>2, <2>3, <2>4, <2>5, <2>7, <3>1, Zenon
      DEF Next, ProcessStep, StreamingStep, ReconcileStep, SweepStep
  <2> QED
    BY <2>6, <2>7
<1>3. ctx => ctx'
  BY DEF Next, Deliver, CloseChannel, IngestorStores, Signal, ProcessStep, StreamingStep,
         ReconcileStep, SweepStep, channelVars, vars
<1>4. upsertFaults' = 0 /\ ~ ctx'
  BY DEF CalmAfter
<1>5. upsertFaults = 0
  BY <1>1, <1>2, <1>4
<1> QED
  BY <1>3, <1>4, <1>5, Zenon

\* What one event is worth to CountsAccounted.
Accounted(e) ==
    /\ DayHeld(e) >= accepted[e] /\ MonthHeld(e) >= accepted[e]
    /\ NoneAsked(DayRecounters(e, DayOf[e])) => DayHeld(e) = accepted[e]
    /\ NoneAsked(MonthRecounters(e, MonthOf[e])) => MonthHeld(e) = accepted[e]

\* The sums are numbers, before a step and after it.
Numbers == \A e \in Events : DayHeld(e) \in Nat /\ MonthHeld(e) \in Nat /\ accepted[e] \in Nat

LEMMA HeldNumbers == TypeOK => Numbers
BY UsecaseTypes, HeldTyped DEF Numbers, DayHeld, MonthHeld, OnTheWayToDay, OnTheWayToMonth

LEMMA HeldNumbersAfter == TypeOK' => Numbers'
BY HeldNumbers, PTL

LEMMA AskedStays ==
    ASSUME TypeOK, [Next]_vars, NEW l \in Events, asked'[l] = 0
    PROVE  asked[l] = 0
<1>1. asked \in [Events -> Nat]
  BY DEF TypeOK, AggregateTypeOK
<1>2. CASE ProcessEvent
  <2> DEFINE e == EventOf(Head(eventsChan))
  <2>1. e \in Events
    BY <1>2, MessageCarriesEvent DEF TypeOK, ChannelTypeOK, ProcessEvent, TakeFirst
  <2>2. asked' = [asked EXCEPT ![e] = @ + 1] \/ asked' = asked
    BY <1>2 DEF ProcessEvent, MarkDirty
  <2> HIDE DEF e
  <2> QED
    BY <1>1, <2>1, <2>2
<1>3. CASE Reconcile
  BY <1>3 DEF Reconcile, TakeDirty, ReadDay, ReconcileDay, ReadMonth, ReconcileMonth,
              StopReconciling, reconFrame, processVars
<1>4. CASE UsecaseStep /\ ~ ProcessEvent /\ ~ Reconcile
  BY <1>4, OthersLeaveReconciler
<1>5. CASE UNCHANGED processVars
  BY <1>5 DEF processVars
<1> QED
  BY <1>2, <1>3, <1>4, <1>5, StepsAre, SurroundingsLeave

LEMMA NextAccounts ==
    ASSUME TypeOK, Places, Origins, CountsAccounted, [Next]_vars
    PROVE  CountsAccounted'
<1> SUFFICES ASSUME CalmAfter, NEW e \in Events
             PROVE  /\ DayHeld(e)' >= accepted'[e] /\ MonthHeld(e)' >= accepted'[e]
                    /\ NoneAsked(DayRecounters(e, DayOf[e]))' => DayHeld(e)' = accepted'[e]
                    /\ NoneAsked(MonthRecounters(e, MonthOf[e]))' => MonthHeld(e)' = accepted'[e]
  BY Zenon DEF CountsAccounted, CalmAfter, DayHeld, MonthHeld
<1>1. Accounted(e)
  <2>1. upsertFaults = 0 /\ ~ ctx
    BY CalmBefore
  <2> QED
    BY <2>1, Zenon DEF CountsAccounted, Accounted, DayHeld, MonthHeld
<1>2. /\ DayHeld(e) \in Nat /\ MonthHeld(e) \in Nat /\ accepted[e] \in Nat
      /\ DayHeld(e)' \in Nat /\ MonthHeld(e)' \in Nat /\ accepted'[e] \in Nat
  BY HeldNumbers, HeldNumbersAfter, NextTyped DEF Numbers
<1>3. /\ NoneAsked(DayRecounters(e, DayOf[e]))' => NoneAsked(DayRecounters(e, DayOf[e]))
      /\ NoneAsked(MonthRecounters(e, MonthOf[e]))' => NoneAsked(MonthRecounters(e, MonthOf[e]))
  BY AskedStays DEF NoneAsked, DayRecounters, MonthRecounters
<1>4. CASE ReconcileStep
  <2>1. /\ UNCHANGED <<accepted, asked>>
        /\ DayHeld(e)' >= DayHeld(e) /\ MonthHeld(e)' >= MonthHeld(e)
        /\ NoneAsked(DayRecounters(e, DayOf[e])) => DayHeld(e)' = DayHeld(e)
        /\ NoneAsked(MonthRecounters(e, MonthOf[e])) => MonthHeld(e)' = MonthHeld(e)
    BY <1>4, UsecaseTypes, ReconcileAdds DEF ReconcileStep
  <2> QED
    BY <1>1, <1>2, <1>3, <2>1 DEF Accounted
<1>5. CASE ~ ReconcileStep
  <2>1. Balanced(e)
    BY <1>5, StepBalances
  <2> QED
    BY <1>1, <1>2, <1>3, <2>1 DEF Accounted, Balanced
<1> QED
  BY <1>4, <1>5

\* While no statement has failed and no signal has come, processEvents, the
\* two flushers and the reconciliation lose nothing and count nothing twice:
\* an event taken in is in hand, in the buffers, in a copy or in its rows as
\* often as it was taken in, and its rows hold more only where a late event
\* asked for their recomputation.
THEOREM CountsAccountedHolds == Spec => []CountsAccounted
<1>1. Init => CountsAccounted
  <2> SUFFICES ASSUME Init, NEW e \in Events
               PROVE  /\ DayHeld(e) = accepted[e] /\ DayHeld(e) >= accepted[e]
                      /\ MonthHeld(e) = accepted[e] /\ MonthHeld(e) >= accepted[e]
    BY Zenon DEF CountsAccounted, DayHeld, MonthHeld
  <2>1. DayOf[e] \in Days /\ MonthOf[e] \in Months
    BY DEF Days, Months
  <2>2. /\ InHand(e) = 0 /\ accepted[e] = 0 /\ dayBuffer[e] = 0 /\ monthBuffer[e] = 0
        /\ dayCopy["P"][e] = 0 /\ dayCopy["S"][e] = 0
        /\ monthCopy["P"][e] = 0 /\ monthCopy["S"][e] = 0
    BY DEF Init, AggregateInit, None, InHand, Flushers
  <2>3. aggDay[DayOf[e]][e] = 0 /\ aggMonth[MonthOf[e]][e] = 0
    BY <2>1 DEF Init, AggregateInit, None
  <2> QED
    BY <2>2, <2>3 DEF DayHeld, MonthHeld, OnTheWayToDay, OnTheWayToMonth
<1> QED
  BY <1>1, NextAccounts, TypeCorrect, PlacesInvariant, OriginsInvariant, PTL DEF Spec

-----------------------------------------------------------------------------
(* OvercountBounded. *)

\* Only a recomputation counts an event twice: no failed or unanswered
\* statement, overlap of the two flushers or signal does.  A row holds an
\* event as often as it was taken in and left the buffers and copies, and
\* once more at most for each recomputation asked for that reads it, which
\* is what adding to a row in place of replacing it comes to.
THEOREM OvercountBoundedHolds == Spec => []OvercountBounded
<1>1. TypeOK /\ ClaimsBounded => OvercountBounded
  <2> SUFFICES ASSUME TypeOK, ClaimsBounded, NEW e \in Events, NEW d \in Days, NEW m \in Months
               PROVE  /\ aggDay[d][e] =<
                             (IF DayOf[e] = d THEN accepted[e] - OnTheWayToDay(e) ELSE 0)
                             + SumFunctionOnSet(asked, DayRecounters(e, d))
                      /\ aggMonth[m][e] =<
                             (IF MonthOf[e] = m THEN accepted[e] - OnTheWayToMonth(e) ELSE 0)
                             + SumFunctionOnSet(asked, MonthRecounters(e, m))
    BY Zenon DEF OvercountBounded, Days, Months
  <2>1. RowNumbers
    BY UsecaseTypes, RowsNumbered
  <2>2. /\ DayLoad(e, d) + DayClaims(e, d) =< DayBound(e, d)
        /\ MonthLoad(e, m) + MonthClaims(e, m) =< MonthBound(e, m)
    BY DEF ClaimsBounded
  <2> QED
    BY <2>1, <2>2 DEF RowNumbers, DayLoad, MonthLoad, DayClaims, MonthClaims, DayBound, MonthBound,
                      DayTaken, MonthTaken
<1>2. Init => ClaimsBounded
  BY InitTyped, UsecaseTypes, BoundedInit DEF Init
<1>3. TypeOK /\ UsecaseOK' /\ Places /\ Origins /\ ClaimsBounded /\ [Next]_vars => ClaimsBounded'
  <2> SUFFICES ASSUME TypeOK, UsecaseOK', Places, Origins, ClaimsBounded, [Next]_vars
               PROVE  ClaimsBounded'
    OBVIOUS
  <2>1. CASE UsecaseStep
    BY <2>1, UsecaseTypes, UsecaseKeepsBound
  <2>2. CASE UNCHANGED <<processVars, bufferVars, reconVars, tableVars, dirty>>
    BY <2>2, StillBounded DEF processVars, bufferVars, reconVars, tableVars
  <2> QED
    BY <2>1, <2>2, StepsAre, SurroundingsLeave
<1> QED
  BY <1>1, <1>2, <1>3, UsecaseTypes, TypeCorrect, PlacesInvariant, OriginsInvariant, PTL DEF Spec
=============================================================================
