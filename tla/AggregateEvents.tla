-------------------------- MODULE AggregateEvents --------------------------
(***************************************************************************)
(* internal/usecase/aggregate_events.go with the aggregation repository:   *)
(* the four goroutines of the aggregator and what they share.              *)
(*   processEvents ("P")  takes events from the channel, drops those it    *)
(*       remembers, marks the period of late ones dirty, adds the event to *)
(*       the in-memory buffers; flushes them when it stops                 *)
(*   runStreamingAggregation ("S")  flushes the buffers on a ticker        *)
(*   runReconciliation  recomputes dirty periods from events_raw           *)
(*   runProcessedEventsCleanup  forgets events remembered for over an hour *)
(*                                                                         *)
(* A buffer or an aggregate is a count, per event, of how many times the   *)
(* event's contribution (count, duration, bytes) is in it: an event        *)
(* decides its type, so agg_day[d][e] is its part of row (d, type of e).   *)
(***************************************************************************)
EXTENDS EventStream, Calendar, Functions

CONSTANTS
    IdOf,                \* the event_id; two contents may share one
    TypeOf,
    StartedAt, Zone,     \* started_at: the instant and its offset
    Opening,             \* the clock when the model begins
    LateEventThreshold,  \* in whole hours
    DirtyCap,            \* DirtyPeriodChannelSize
    MaxUpsertFaults,     \* bound: failures of the database
    MaxHours             \* bound: hours that pass

ASSUME EventAssumption ==
    /\ Events = DOMAIN IdOf /\ Events = DOMAIN TypeOf
    /\ StartedAt \in [Events -> Int] /\ Zone \in [Events -> Zones]
    /\ \A e \in Events : HasMonth(CivilDay(StartedAt[e], Zone[e]))
ASSUME AggregatorBounds ==
    /\ DirtyCap \in Nat \ {0} /\ MaxUpsertFaults \in Nat /\ MaxHours \in Nat
    /\ Opening \in Int /\ LateEventThreshold \in Nat

Flushers == {"P", "S"}

\* The buckets addToBuffer puts an event in.
DayOf   == [e \in Events |-> DayRow(StartedAt[e], Zone[e])]
MonthOf == [e \in Events |-> MonthRow(StartedAt[e], Zone[e])]

VARIABLES
    ppc, taken,            \* processEvents: select, add, flush, done; the event in hand
    processed, aged,       \* ids in processedEvents, and there for over an hour
    hours,                 \* the clock: hours that passed
    sweeping,              \* runProcessedEventsCleanup has not returned
    dirty,                 \* dirtyPeriodsChan
    dayBuffer, monthBuffer,
    fpc, dayCopy, monthCopy, \* each flusher: idle, day, month, done; its copies
    rpc, period, snap,     \* runReconciliation: its period, the events it read
    aggDay, aggMonth,      \* tables agg_day and agg_month
    eventsRaw,             \* table events_raw, written by the ingestor
    upsertFaults,
    accepted,              \* history: times processEvents took each event in
    asked                  \* history: times one called for a recomputation

processVars == <<ppc, taken, processed, aged, hours, sweeping, accepted, asked>>
bufferVars  == <<dayBuffer, monthBuffer, fpc, dayCopy, monthCopy>>
reconVars   == <<rpc, period, snap>>
tableVars   == <<aggDay, aggMonth, upsertFaults>>
aggVars     == <<processVars, bufferVars, reconVars, tableVars, dirty, eventsRaw>>

Days   == {DayOf[e] : e \in Events}
Months == {MonthOf[e] : e \in Events}
None   == [e \in Events |-> 0]
Periods  == [day : Int, month : Int, zone : Zones]
NoPeriod == <<>>

AggregateTypeOK ==
    /\ ppc \in {"select", "add", "flush", "done"}
    /\ taken \in Messages \cup {NoMessage}
    /\ aged \subseteq processed /\ processed \subseteq {IdOf[e] : e \in Events}
    /\ hours \in 0..MaxHours /\ sweeping \in BOOLEAN
    /\ dirty \in Seq(Periods) /\ Len(dirty) =< DirtyCap
    /\ {dayBuffer, monthBuffer} \subseteq [Events -> Nat]
    /\ fpc \in [Flushers -> {"idle", "day", "month", "done"}]
    /\ {dayCopy, monthCopy} \subseteq [Flushers -> [Events -> Nat]]
    /\ rpc \in {"idle", "readDay", "upsertDay", "readMonth", "upsertMonth", "done"}
    /\ period \in Periods \cup {NoPeriod}
    /\ snap \subseteq Events
    /\ aggDay \in [Days -> [Events -> Nat]]
    /\ aggMonth \in [Months -> [Events -> Nat]]
    /\ eventsRaw \subseteq Events
    /\ upsertFaults \in 0..MaxUpsertFaults
    /\ accepted \in [Events -> Nat] /\ asked \in [Events -> Nat]

AggregateInit ==
    /\ ppc = "select" /\ taken = NoMessage
    /\ processed = {} /\ aged = {} /\ hours = 0 /\ sweeping = TRUE
    /\ dirty = <<>>
    /\ dayBuffer = None /\ monthBuffer = None
    /\ fpc = [f \in Flushers |-> "idle"]
    /\ dayCopy = [f \in Flushers |-> None] /\ monthCopy = dayCopy
    /\ rpc = "idle" /\ period = NoPeriod /\ snap = {}
    /\ aggDay = [d \in Days |-> None] /\ aggMonth = [m \in Months |-> None]
    /\ eventsRaw = {}
    /\ upsertFaults = 0
    /\ accepted = None /\ asked = None

\* A new usecase, as a process that starts makes it; the tables stay.
NewUseCase ==
    /\ ppc' = "select" /\ taken' = NoMessage
    /\ processed' = {} /\ aged' = {} /\ sweeping' = TRUE
    /\ dirty' = <<>>
    /\ dayBuffer' = None /\ monthBuffer' = None
    /\ fpc' = [f \in Flushers |-> "idle"]
    /\ dayCopy' = [f \in Flushers |-> None] /\ monthCopy' = dayCopy'
    /\ rpc' = "idle" /\ period' = NoPeriod /\ snap' = {}
    /\ UNCHANGED <<hours, accepted, asked, tableVars, eventsRaw>>

-----------------------------------------------------------------------------
(* The database: an upsert of some contributions into one bucket.          *)

\* A statement is answered, refused, or committed with its answer lost.
\* For a context already cancelled it is refused before it begins.
Statement(outcome) ==
    \/ outcome = "ok" /\ ~ ctx /\ UNCHANGED upsertFaults
    \/ outcome = "refused" /\ ctx /\ UNCHANGED upsertFaults
    \/ /\ outcome \in {"refused", "unanswered"}
       /\ ~ ctx
       /\ upsertFaults < MaxUpsertFaults
       /\ upsertFaults' = upsertFaults + 1

Outcomes == {"ok", "refused", "unanswered"}

\* ON CONFLICT DO UPDATE SET count_events = agg.count_events + EXCLUDED...
Upsert(table, bucket, part) ==
    [table EXCEPT ![bucket] = [e \in Events |-> @[e] + part[e]]]

Upserted(table, bucket, part, outcome) ==
    IF outcome = "refused" THEN table ELSE Upsert(table, bucket, part)

-----------------------------------------------------------------------------
(* processEvents. *)

\* MUTANT of InDirtyChannel: an off-by-one.
InDirtyChannelOffByOne == Len(dirty) =< DirtyCap

InDirtyChannel == Len(dirty) < DirtyCap

\* What isDuplicate looks up and markProcessed stores: the event_id alone.
MemoryKey(e) == IdOf[e]

\* By the clock, so that an event redelivered after an hour is late.
IsLateEvent(e) == Opening + hours - StartedAt[e] > LateEventThreshold

\* A send that does not block, and drops the period when the channel is
\* full.
MarkDirty(e) ==
    /\ dirty' = IF InDirtyChannel
                  THEN Append(dirty, PeriodOf(StartedAt[e], Zone[e]))
                  ELSE dirty
    /\ asked' = [asked EXCEPT ![e] = @ + 1]

\* An event whose id is remembered is skipped; the id of another one is
\* remembered and, if the event is late, its period marked dirty.
ProcessEvent ==
    /\ ppc = "select"
    /\ TakeFirst
    /\ LET m == Head(eventsChan)
           e == EventOf(m)
       IN  IF MemoryKey(e) \in processed
             THEN UNCHANGED <<ppc, taken, processed, accepted, asked, dirty>>
             ELSE /\ processed' = processed \cup {MemoryKey(e)}
                  /\ accepted' = [accepted EXCEPT ![e] = @ + 1]
                  /\ IF IsLateEvent(e) THEN MarkDirty(e)
                                      ELSE UNCHANGED <<dirty, asked>>
                  /\ taken' = m
                  /\ ppc' = "add"
    /\ UNCHANGED <<aged, hours, sweeping, bufferVars, reconVars, tableVars, eventsRaw>>

AddToBuffer ==
    /\ ppc = "add"
    /\ dayBuffer' = [dayBuffer EXCEPT ![EventOf(taken)] = @ + 1]
    /\ monthBuffer' = [monthBuffer EXCEPT ![EventOf(taken)] = @ + 1]
    /\ taken' = NoMessage
    /\ ppc' = "select"
    /\ UNCHANGED <<processed, aged, hours, sweeping, accepted, asked, fpc, dayCopy, monthCopy>>
    /\ UNCHANGED <<reconVars, tableVars, dirty, eventsRaw, eventsChan>>

-----------------------------------------------------------------------------
(* flushBuffers. *)

\* MUTANT of Swap: the buffers are copied and left as they are.
SwapWithoutReset(f) ==
    /\ dayCopy' = [dayCopy EXCEPT ![f] = dayBuffer]
    /\ monthCopy' = [monthCopy EXCEPT ![f] = monthBuffer]
    /\ UNCHANGED <<dayBuffer, monthBuffer>>

\* Under the lock: take the buffers and leave empty ones.
Swap(f) ==
    /\ dayCopy' = [dayCopy EXCEPT ![f] = dayBuffer]
    /\ monthCopy' = [monthCopy EXCEPT ![f] = monthBuffer]
    /\ dayBuffer' = None
    /\ monthBuffer' = None

\* The ticker's flush; with nothing buffered there is nothing to do.
FlushTick ==
    /\ fpc["S"] = "idle"
    /\ dayBuffer # None
    /\ Swap("S")
    /\ fpc' = [fpc EXCEPT !["S"] = "day"]
    /\ UNCHANGED <<processVars, reconVars, tableVars, dirty, eventsRaw, eventsChan>>

\* processEvents stops, on a cancelled context or a closed channel, with a
\* last flush.
StopProcessing ==
    /\ ppc = "select"
    /\ ctx \/ Drained
    /\ Swap("P")
    /\ IF dayBuffer = None
         THEN ppc' = "done" /\ fpc' = [fpc EXCEPT !["P"] = "done"]
         ELSE ppc' = "flush" /\ fpc' = [fpc EXCEPT !["P"] = "day"]
    /\ UNCHANGED <<taken, processed, aged, hours, sweeping, accepted, asked>>
    /\ UNCHANGED <<reconVars, tableVars, dirty, eventsRaw, eventsChan>>

\* The rows of a copy: one per bucket and type that occur in it.
CellsOf(copy, bucket) ==
    {<<bucket[e], TypeOf[e]>> : e \in {x \in Events : copy[x] > 0}}

InCell(copy, bucket, cell) ==
    [e \in Events |-> IF <<bucket[e], TypeOf[e]>> = cell THEN copy[e] ELSE 0]

Without(copy, bucket, cell) ==
    [e \in Events |-> IF <<bucket[e], TypeOf[e]>> = cell THEN 0 ELSE copy[e]]

\* MUTANT of AfterFlush: the ticker's goroutine returns with its flush.
AfterFlushStop(f) ==
    /\ fpc' = [fpc EXCEPT ![f] = "done"]
    /\ ppc' = IF f = "P" THEN "done" ELSE ppc

AfterFlush(f) ==
    /\ fpc' = [fpc EXCEPT ![f] = IF f = "P" THEN "done" ELSE "idle"]
    /\ ppc' = IF f = "P" THEN "done" ELSE ppc

\* MUTANT of AbandonFlush: what failed is kept for another try, although
\* the failed statement may have been applied.
RetryFlush(f) == UNCHANGED <<dayCopy, monthCopy, fpc, ppc>>

\* A failed statement ends the flush: the rest of both copies is dropped.
AbandonFlush(f) ==
    /\ dayCopy' = [dayCopy EXCEPT ![f] = None]
    /\ monthCopy' = [monthCopy EXCEPT ![f] = None]
    /\ AfterFlush(f)

\* The upserts of the day rows, in the map's order (any), then the months.
FlushDay(f) ==
    /\ fpc[f] = "day"
    /\ \E cell \in CellsOf(dayCopy[f], DayOf), outcome \in Outcomes :
        /\ Statement(outcome)
        /\ aggDay' = Upserted(aggDay, cell[1], InCell(dayCopy[f], DayOf, cell), outcome)
        /\ IF outcome # "ok" THEN AbandonFlush(f)
           ELSE /\ dayCopy' = [dayCopy EXCEPT ![f] = Without(@, DayOf, cell)]
                /\ fpc' = [fpc EXCEPT ![f] = IF dayCopy'[f] = None THEN "month" ELSE "day"]
                /\ UNCHANGED <<ppc, monthCopy>>
    /\ UNCHANGED <<taken, processed, aged, hours, sweeping, accepted, asked, dayBuffer, monthBuffer>>
    /\ UNCHANGED <<reconVars, aggMonth, dirty, eventsRaw, eventsChan>>

FlushMonth(f) ==
    /\ fpc[f] = "month"
    /\ \E cell \in CellsOf(monthCopy[f], MonthOf), outcome \in Outcomes :
        /\ Statement(outcome)
        /\ aggMonth' = Upserted(aggMonth, cell[1], InCell(monthCopy[f], MonthOf, cell), outcome)
        /\ IF outcome # "ok" THEN AbandonFlush(f)
           ELSE /\ monthCopy' = [monthCopy EXCEPT ![f] = Without(@, MonthOf, cell)]
                /\ IF monthCopy'[f] = None THEN AfterFlush(f) ELSE UNCHANGED <<fpc, ppc>>
                /\ UNCHANGED dayCopy
    /\ UNCHANGED <<taken, processed, aged, hours, sweeping, accepted, asked, dayBuffer, monthBuffer>>
    /\ UNCHANGED <<reconVars, aggDay, dirty, eventsRaw, eventsChan>>

StopFlushing ==
    /\ fpc["S"] = "idle"
    /\ ctx
    /\ fpc' = [fpc EXCEPT !["S"] = "done"]
    /\ UNCHANGED <<processVars, dayBuffer, monthBuffer, dayCopy, monthCopy>>
    /\ UNCHANGED <<reconVars, tableVars, dirty, eventsRaw, eventsChan>>

-----------------------------------------------------------------------------
(* runReconciliation. *)

reconFrame == <<processVars, bufferVars, eventsRaw, eventsChan>>

TakeDirty ==
    /\ rpc = "idle"
    /\ dirty # <<>>
    /\ period' = Head(dirty)
    /\ dirty' = Tail(dirty)
    /\ rpc' = "readDay"
    /\ UNCHANGED <<snap, tableVars, reconFrame>>

\* Where the goroutine goes when a day, or a month, is done with or failed.
AfterDay   == rpc' = "readMonth" /\ snap' = {} /\ UNCHANGED period
AfterMonth == rpc' = "idle" /\ snap' = {} /\ period' = NoPeriod

ReadDay ==
    /\ rpc = "readDay"
    /\ \E outcome \in {"ok", "refused"} :
        /\ Statement(outcome)
        /\ LET read == {e \in eventsRaw : InDay(StartedAt[e], period)} IN
           IF outcome # "ok" \/ read = {} THEN AfterDay
           ELSE snap' = read /\ rpc' = "upsertDay" /\ UNCHANGED period
    /\ UNCHANGED <<aggDay, aggMonth, dirty, reconFrame>>

ReadMonth ==
    /\ rpc = "readMonth"
    /\ \E outcome \in {"ok", "refused"} :
        /\ Statement(outcome)
        /\ LET read == {e \in eventsRaw : InMonth(StartedAt[e], period)} IN
           IF outcome # "ok" \/ read = {} THEN AfterMonth
           ELSE snap' = read /\ rpc' = "upsertMonth" /\ UNCHANGED period
    /\ UNCHANGED <<aggDay, aggMonth, dirty, reconFrame>>

\* The totals of the events read, of one type.
TotalOf(events, t) == [e \in Events |-> IF e \in events /\ TypeOf[e] = t THEN 1 ELSE 0]
OtherTypes(events, t) == {e \in events : TypeOf[e] # t}

ReconcileDay ==
    /\ rpc = "upsertDay"
    /\ \E t \in {TypeOf[e] : e \in snap}, outcome \in Outcomes :
        /\ Statement(outcome)
        /\ aggDay' = Upserted(aggDay, PeriodDay(period), TotalOf(snap, t), outcome)
        /\ IF outcome # "ok" \/ OtherTypes(snap, t) = {} THEN AfterDay
           ELSE snap' = OtherTypes(snap, t) /\ UNCHANGED <<rpc, period>>
    /\ UNCHANGED <<aggMonth, dirty, reconFrame>>

ReconcileMonth ==
    /\ rpc = "upsertMonth"
    /\ \E t \in {TypeOf[e] : e \in snap}, outcome \in Outcomes :
        /\ Statement(outcome)
        /\ aggMonth' = Upserted(aggMonth, PeriodMonth(period), TotalOf(snap, t), outcome)
        /\ IF outcome # "ok" \/ OtherTypes(snap, t) = {} THEN AfterMonth
           ELSE snap' = OtherTypes(snap, t) /\ UNCHANGED <<rpc, period>>
    /\ UNCHANGED <<aggDay, dirty, reconFrame>>

\* MUTANT of StopReconciling: a plain receive loop, deaf to the context.
ReconcileForever ==
    /\ FALSE
    /\ UNCHANGED <<rpc, period, snap, tableVars, dirty, reconFrame>>

StopReconciling ==
    /\ rpc = "idle"
    /\ ctx
    /\ rpc' = "done"
    /\ UNCHANGED <<period, snap, tableVars, dirty, reconFrame>>

-----------------------------------------------------------------------------
(* runProcessedEventsCleanup, and the time it goes by. *)

HourPasses ==
    /\ hours < MaxHours
    /\ hours' = hours + 1
    /\ aged' = processed
    /\ UNCHANGED <<ppc, taken, processed, sweeping, accepted, asked>>
    /\ UNCHANGED <<bufferVars, reconVars, tableVars, dirty, eventsRaw, eventsChan>>

\* MUTANT of Expired: the threshold is forgotten, a pass empties the map.
ForgetAll == processed

\* What one pass forgets.
Expired == aged

Cleanup ==
    /\ sweeping
    /\ Expired # {}
    /\ processed' = processed \ Expired
    /\ aged' = aged \ Expired
    /\ UNCHANGED <<ppc, taken, hours, sweeping, accepted, asked>>
    /\ UNCHANGED <<bufferVars, reconVars, tableVars, dirty, eventsRaw, eventsChan>>

StopCleanup ==
    /\ sweeping
    /\ ctx
    /\ sweeping' = FALSE
    /\ UNCHANGED <<ppc, taken, processed, aged, hours, accepted, asked>>
    /\ UNCHANGED <<bufferVars, reconVars, tableVars, dirty, eventsRaw, eventsChan>>

-----------------------------------------------------------------------------
Process   == ProcessEvent \/ AddToBuffer \/ StopProcessing \/ FlushDay("P") \/ FlushMonth("P")
Streaming == FlushTick \/ StopFlushing \/ FlushDay("S") \/ FlushMonth("S")
Reconcile == \/ TakeDirty \/ ReadDay \/ ReconcileDay
             \/ ReadMonth \/ ReconcileMonth \/ StopReconciling

Sweep == Cleanup \/ StopCleanup

\* Run returns once its four goroutines have.
GoroutinesEnded == ppc = "done" /\ fpc["S"] = "done" /\ rpc = "done" /\ ~ sweeping

-----------------------------------------------------------------------------
(* What the specifications that run the usecase say of its counts. *)

\* How many times an event taken in is still on its way to its rows.
InHand(e) == IF ppc = "add" /\ EventOf(taken) = e THEN 1 ELSE 0

OnTheWayToDay(e)   == InHand(e) + dayBuffer[e] + dayCopy["P"][e] + dayCopy["S"][e]
OnTheWayToMonth(e) == InHand(e) + monthBuffer[e] + monthCopy["P"][e] + monthCopy["S"][e]

\* The events whose recomputation writes day row d (month row m) and reads
\* event e: not only e and those of its own zone, since the range of a
\* period includes its end, and events of other zones.
DayRecounters(e, d) ==
    {l \in Events : DayOf[l] = d /\ InDay(StartedAt[e], PeriodOf(StartedAt[l], Zone[l]))}
MonthRecounters(e, m) ==
    {l \in Events : MonthOf[l] = m /\ InMonth(StartedAt[e], PeriodOf(StartedAt[l], Zone[l]))}
=============================================================================
