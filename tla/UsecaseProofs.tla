---------------------------- MODULE UsecaseProofs ----------------------------
(***************************************************************************)
(* What the four goroutines of the aggregation usecase keep true of their  *)
(* own state, whatever surrounds them, for every topic, calendar, set of   *)
(* events and zones, channel capacity, late threshold and bound on         *)
(* failures and hours: the types, where an event can be, where the dirty   *)
(* periods come from, and how much of an event a row can hold.  The two    *)
(* specifications that run the usecase rest on these lemmas.               *)
(***************************************************************************)
EXTENDS AggregateEvents, CalendarProofs, SumProofs, SequenceTheorems

UsecaseOK == ChannelTypeOK /\ AggregateTypeOK

\* What a channel, a buffer and a table hold before anything happens.
LEMMA EmptyThings ==
    /\ \A S : <<>> \in Seq(S)
    /\ Len(<<>>) = 0
    /\ None \in [Events -> Nat]
BY EmptySeq DEF None

\* The period of an event is a period, and there is one.
LEMMA PeriodTyped ==
    ASSUME NEW e \in Events
    PROVE  PeriodOf(StartedAt[e], Zone[e]) \in Periods
<1> DEFINE t == StartedAt[e]
           z == Zone[e]
<1>1. t \in Int /\ z \in Zones /\ HasMonth(CivilDay(t, z))
  BY EventAssumption
<1>2. CivilDay(t, z) \in Int
  <2> HIDE DEF t, z
  <2> QED
    BY <1>1, SMT DEF CivilDay, Zones
<1>3. MonthStart(MonthRow(t, z), z) \in Int
  BY <1>1, <1>2, MonthOfDay, MonthStartsInMonth DEF MonthRow
<1> QED
  BY <1>1, <1>3, TruncateCuts DEF PeriodOf, Periods

\* A message of the channel carries an event.
LEMMA MessageCarriesEvent ==
    ASSUME NEW m \in Messages
    PROVE  EventOf(m) \in Events
BY TopicAssumption DEF Messages, EventOf

\* A statement leaves the count of failures within its bound.
LEMMA StatementFaults ==
    ASSUME upsertFaults \in 0..MaxUpsertFaults, NEW outcome, Statement(outcome)
    PROVE  upsertFaults' \in 0..MaxUpsertFaults
BY AggregatorBounds DEF Statement

\* An upsert of counts into a table of counts leaves a table of counts,
\* whatever comes of the statement.
LEMMA UpsertedTyped ==
    ASSUME NEW B, NEW table \in [B -> [Events -> Nat]], NEW bucket,
           NEW part \in [Events -> Nat], NEW outcome
    PROVE  Upserted(table, bucket, part, outcome) \in [B -> [Events -> Nat]]
<1>1. Upsert(table, bucket, part) \in [B -> [Events -> Nat]]
  <2>1. CASE bucket \in B
    <3>1. [e \in Events |-> table[bucket][e] + part[e]] \in [Events -> Nat]
      BY <2>1
    <3> QED
      BY <2>1, <3>1 DEF Upsert
  <2>2. CASE bucket \notin B
    BY <2>2 DEF Upsert
  <2> QED
    BY <2>1, <2>2
<1> QED
  BY <1>1 DEF Upserted

\* The part of a copy in a row, or outside of it, is again a count.
LEMMA CellsTyped ==
    ASSUME NEW copy \in [Events -> Nat], NEW rowOf, NEW cell
    PROVE  /\ InCell(copy, rowOf, cell) \in [Events -> Nat]
           /\ Without(copy, rowOf, cell) \in [Events -> Nat]
BY DEF InCell, Without

LEMMA TotalTyped ==
    ASSUME NEW events, NEW t
    PROVE  TotalOf(events, t) \in [Events -> Nat]
BY DEF TotalOf

\* An event and its rows.
LEMMA RowsOf ==
    ASSUME NEW e \in Events
    PROVE  /\ StartedAt[e] \in Int /\ Zone[e] \in Zones
           /\ HasMonth(CivilDay(StartedAt[e], Zone[e]))
           /\ DayOf[e] = DayRow(StartedAt[e], Zone[e])
           /\ MonthOf[e] = MonthRow(StartedAt[e], Zone[e])
BY EventAssumption, Zenon DEF DayOf, MonthOf

\* Marking one event more raises the sums over the sets it is in.
LEMMA GrantRises ==
    ASSUME NEW f \in [Events -> Nat], NEW R \in SUBSET Events, NEW x \in Events
    PROVE  SumFunctionOnSet([f EXCEPT ![x] = @ + 1], R)
               = SumFunctionOnSet(f, R) + (IF x \in R THEN 1 ELSE 0)
<1> DEFINE g == [f EXCEPT ![x] = @ + 1]
<1>1. IsFiniteSet(R)
  BY EventsAssumption, FS_Subset
<1>2. CASE x \in R
  <2>1. /\ \A y \in R : f[y] \in Int /\ (y # x => g[y] = f[y])
        /\ g[x] = f[x] + 1 /\ 1 \in Int
    OBVIOUS
  <2> HIDE DEF g
  <2>2. SumFunctionOnSet(g, R) = SumFunctionOnSet(f, R) + 1
    BY ONLY <1>1, <1>2, <2>1, SumUpdate
  <2> QED
    BY <1>2, <2>2 DEF g
<1>3. CASE x \notin R
  <2>1. \A y \in R : g[y] = f[y]
    BY <1>3
  <2>2. SumFunctionOnSet(f, R) \in Nat
    BY <1>1, SumNat
  <2> HIDE DEF g
  <2>3. SumFunctionOnSet(g, R) = SumFunctionOnSet(f, R)
    BY <1>1, <2>1, SumSame
  <2> QED
    BY <1>3, <2>2, <2>3 DEF g
<1> QED
  BY <1>2, <1>3

-----------------------------------------------------------------------------
(* Type correctness. *)

Opened == eventsChan = <<>> /\ closed = FALSE /\ ctx = FALSE

LEMMA UsecaseInit ==
    ASSUME AggregateInit, Opened
    PROVE  UsecaseOK
<1>1. ChannelTypeOK
  <2>1. eventsChan \in Seq(Messages)
    BY EmptyThings DEF Opened
  <2>2. Len(eventsChan) =< ChanCap
    BY EmptyThings, ChanCapAssumption DEF Opened
  <2>3. closed \in BOOLEAN /\ ctx \in BOOLEAN
    BY DEF Opened
  <2> QED
    BY <2>1, <2>2, <2>3 DEF ChannelTypeOK
<1>2. AggregateTypeOK
  <2>1. /\ dayBuffer \in [Events -> Nat] /\ monthBuffer \in [Events -> Nat]
        /\ dayCopy \in [Flushers -> [Events -> Nat]] /\ monthCopy \in [Flushers -> [Events -> Nat]]
        /\ aggDay \in [Days -> [Events -> Nat]] /\ aggMonth \in [Months -> [Events -> Nat]]
        /\ accepted \in [Events -> Nat] /\ asked \in [Events -> Nat]
    BY EmptyThings DEF AggregateInit
  <2>2. dirty \in Seq(Periods) /\ Len(dirty) =< DirtyCap
    BY EmptyThings, AggregatorBounds DEF AggregateInit
  <2>3. fpc \in [Flushers -> {"idle", "day", "month", "done"}]
    BY DEF AggregateInit
  <2>4. hours \in 0..MaxHours /\ upsertFaults \in 0..MaxUpsertFaults
    BY AggregatorBounds DEF AggregateInit
  <2>5. /\ ppc \in {"select", "add", "flush", "done"}
        /\ taken \in Messages \cup {NoMessage}
        /\ aged \subseteq processed /\ processed \subseteq {IdOf[e] : e \in Events}
        /\ sweeping \in BOOLEAN
        /\ rpc \in {"idle", "readDay", "upsertDay", "readMonth", "upsertMonth", "done"}
        /\ period \in Periods \cup {NoPeriod}
        /\ snap \subseteq Events /\ eventsRaw \subseteq Events
    BY DEF AggregateInit
  <2> QED
    BY <2>1, <2>2, <2>3, <2>4, <2>5 DEF AggregateTypeOK
<1> QED
  BY <1>1, <1>2 DEF UsecaseOK

\* The first message leaves the channel, which keeps its type.
LEMMA TakeFirstTyped ==
    ASSUME ChannelTypeOK, TakeFirst, UNCHANGED <<closed, ctx>>
    PROVE  ChannelTypeOK' /\ Head(eventsChan) \in Messages
BY ChanCapAssumption DEF ChannelTypeOK, TakeFirst

LEMMA ProcessTyped ==
    ASSUME UsecaseOK, ProcessEvent, UNCHANGED <<closed, ctx>>
    PROVE  UsecaseOK'
<1> DEFINE m == Head(eventsChan)
           e == EventOf(m)
<1>1. ChannelTypeOK' /\ m \in Messages /\ e \in Events
  BY TakeFirstTyped, MessageCarriesEvent DEF UsecaseOK, ProcessEvent
<1> HIDE DEF m
<1>2. CASE MemoryKey(e) \in processed
  <2>1. UNCHANGED aggVars
    BY <1>2 DEF ProcessEvent, aggVars, processVars, m
  <2> QED
    BY <1>1, <2>1 DEF UsecaseOK, AggregateTypeOK, aggVars, processVars, bufferVars, reconVars, tableVars
<1>3. CASE MemoryKey(e) \notin processed
  <2>1. /\ processed' = processed \cup {MemoryKey(e)}
        /\ accepted' = [accepted EXCEPT ![e] = @ + 1]
        /\ IF IsLateEvent(e) THEN MarkDirty(e) ELSE UNCHANGED <<dirty, asked>>
        /\ taken' = m /\ ppc' = "add"
        /\ UNCHANGED <<aged, hours, sweeping, bufferVars, reconVars, tableVars, eventsRaw>>
    BY <1>3 DEF ProcessEvent, m
  <2>2. accepted' \in [Events -> Nat]
    BY <1>1, <2>1 DEF UsecaseOK, AggregateTypeOK
  <2>3. dirty' \in Seq(Periods) /\ Len(dirty') =< DirtyCap
    <3>1. CASE UNCHANGED dirty
      BY <3>1 DEF UsecaseOK, AggregateTypeOK
    <3>2. CASE InDirtyChannel /\ dirty' = Append(dirty, PeriodOf(StartedAt[e], Zone[e]))
      BY <1>1, <3>2, PeriodTyped, AggregatorBounds DEF UsecaseOK, AggregateTypeOK, InDirtyChannel
    <3> QED
      BY <2>1, <3>1, <3>2 DEF MarkDirty
  <2>4. asked' \in [Events -> Nat]
    <3> HIDE DEF e
    <3>1. asked' = [asked EXCEPT ![e] = @ + 1] \/ asked' = asked
      BY <2>1 DEF MarkDirty
    <3>2. asked \in [Events -> Nat]
      BY DEF UsecaseOK, AggregateTypeOK
    <3> QED
      BY <1>1, <3>1, <3>2
  <2>5. aged' \subseteq processed' /\ processed' \subseteq {IdOf[x] : x \in Events}
    BY <1>1, <2>1 DEF UsecaseOK, AggregateTypeOK, MemoryKey
  <2> QED
    BY <1>1, <2>1, <2>2, <2>3, <2>4, <2>5
    DEF UsecaseOK, AggregateTypeOK, bufferVars, reconVars, tableVars
<1> QED
  BY <1>2, <1>3

LEMMA AddTyped ==
    ASSUME UsecaseOK, AddToBuffer, UNCHANGED <<closed, ctx>>
    PROVE  UsecaseOK'
<1>1. dayBuffer' \in [Events -> Nat] /\ monthBuffer' \in [Events -> Nat]
  <2> DEFINE e == EventOf(taken)
  <2>1. /\ dayBuffer' = [dayBuffer EXCEPT ![e] = @ + 1]
        /\ monthBuffer' = [monthBuffer EXCEPT ![e] = @ + 1]
    BY DEF AddToBuffer
  <2>2. dayBuffer \in [Events -> Nat] /\ monthBuffer \in [Events -> Nat]
    BY DEF UsecaseOK, AggregateTypeOK
  <2> HIDE DEF e
  <2>3. CASE e \in Events
    BY <2>1, <2>2, <2>3
  <2>4. CASE e \notin Events
    BY <2>1, <2>2, <2>4
  <2> QED
    BY <2>3, <2>4
<1> QED
  BY <1>1 DEF UsecaseOK, AggregateTypeOK, ChannelTypeOK, AddToBuffer, reconVars, tableVars

\* Taking the buffers leaves buffers and copies of counts.
LEMMA SwapTyped ==
    ASSUME UsecaseOK, NEW f \in Flushers, Swap(f)
    PROVE  /\ dayBuffer' \in [Events -> Nat] /\ monthBuffer' \in [Events -> Nat]
           /\ dayCopy' \in [Flushers -> [Events -> Nat]]
           /\ monthCopy' \in [Flushers -> [Events -> Nat]]
BY EmptyThings DEF UsecaseOK, AggregateTypeOK, Swap

LEMMA FlushTickTyped ==
    ASSUME UsecaseOK, FlushTick, UNCHANGED <<closed, ctx>>
    PROVE  UsecaseOK'
<1>1. "S" \in Flushers
  BY DEF Flushers
<1>2. fpc' \in [Flushers -> {"idle", "day", "month", "done"}]
  BY DEF UsecaseOK, AggregateTypeOK, FlushTick
<1>3. Swap("S") /\ UNCHANGED <<processVars, reconVars, tableVars, dirty, eventsRaw, eventsChan>>
  BY DEF FlushTick
<1>4. /\ dayBuffer' \in [Events -> Nat] /\ monthBuffer' \in [Events -> Nat]
      /\ dayCopy' \in [Flushers -> [Events -> Nat]]
      /\ monthCopy' \in [Flushers -> [Events -> Nat]]
  BY <1>1, <1>3, SwapTyped
<1> QED
  BY <1>2, <1>3, <1>4
  DEF UsecaseOK, AggregateTypeOK, ChannelTypeOK, processVars, reconVars, tableVars

LEMMA StopProcessingTyped ==
    ASSUME UsecaseOK, StopProcessing, UNCHANGED <<closed, ctx>>
    PROVE  UsecaseOK'
<1>1. "P" \in Flushers
  BY DEF Flushers
<1>2. /\ fpc' \in [Flushers -> {"idle", "day", "month", "done"}]
      /\ ppc' \in {"done", "flush"}
  BY DEF UsecaseOK, AggregateTypeOK, StopProcessing
<1>3. /\ Swap("P")
      /\ UNCHANGED <<taken, processed, aged, hours, sweeping, accepted, asked>>
      /\ UNCHANGED <<reconVars, tableVars, dirty, eventsRaw, eventsChan>>
  BY DEF StopProcessing
<1> QED
  BY <1>1, <1>2, <1>3, SwapTyped
  DEF UsecaseOK, AggregateTypeOK, ChannelTypeOK, reconVars, tableVars

\* A flush that goes on, ends or is abandoned keeps the types of the copies
\* and of where the two goroutines are.
LEMMA AfterFlushTyped ==
    ASSUME UsecaseOK, NEW f \in Flushers, AfterFlush(f)
    PROVE  /\ fpc' \in [Flushers -> {"idle", "day", "month", "done"}]
           /\ ppc' \in {"select", "add", "flush", "done"}
BY DEF UsecaseOK, AggregateTypeOK, AfterFlush

LEMMA AbandonTyped ==
    ASSUME UsecaseOK, NEW f \in Flushers, AbandonFlush(f)
    PROVE  /\ fpc' \in [Flushers -> {"idle", "day", "month", "done"}]
           /\ ppc' \in {"select", "add", "flush", "done"}
           /\ dayCopy' \in [Flushers -> [Events -> Nat]]
           /\ monthCopy' \in [Flushers -> [Events -> Nat]]
<1>1. AfterFlush(f)
  BY DEF AbandonFlush
<1>2. /\ dayCopy' \in [Flushers -> [Events -> Nat]]
      /\ monthCopy' \in [Flushers -> [Events -> Nat]]
  BY EmptyThings DEF AbandonFlush, UsecaseOK, AggregateTypeOK
<1> QED
  BY <1>1, <1>2, AfterFlushTyped

LEMMA FlushDayTyped ==
    ASSUME UsecaseOK, NEW f \in Flushers, FlushDay(f), UNCHANGED <<closed, ctx>>
    PROVE  UsecaseOK'
<1>1. PICK cell \in CellsOf(dayCopy[f], DayOf), outcome \in Outcomes :
        /\ Statement(outcome)
        /\ aggDay' = Upserted(aggDay, cell[1], InCell(dayCopy[f], DayOf, cell), outcome)
        /\ IF outcome # "ok" THEN AbandonFlush(f)
           ELSE /\ dayCopy' = [dayCopy EXCEPT ![f] = Without(@, DayOf, cell)]
                /\ fpc' = [fpc EXCEPT ![f] = IF dayCopy'[f] = None THEN "month" ELSE "day"]
                /\ UNCHANGED <<ppc, monthCopy>>
  BY DEF FlushDay
<1>2. dayCopy[f] \in [Events -> Nat]
  BY DEF UsecaseOK, AggregateTypeOK
<1>3. upsertFaults' \in 0..MaxUpsertFaults
  BY <1>1, StatementFaults DEF UsecaseOK, AggregateTypeOK
<1>4. aggDay' \in [Days -> [Events -> Nat]]
  <2>1. InCell(dayCopy[f], DayOf, cell) \in [Events -> Nat]
    BY <1>2, CellsTyped
  <2>2. aggDay \in [Days -> [Events -> Nat]]
    BY DEF UsecaseOK, AggregateTypeOK
  <2> QED
    BY <1>1, <2>1, <2>2, UpsertedTyped
<1>5. /\ fpc' \in [Flushers -> {"idle", "day", "month", "done"}]
      /\ ppc' \in {"select", "add", "flush", "done"}
      /\ dayCopy' \in [Flushers -> [Events -> Nat]]
      /\ monthCopy' \in [Flushers -> [Events -> Nat]]
  <2>1. CASE outcome # "ok"
    BY <1>1, <2>1, AbandonTyped
  <2>2. CASE outcome = "ok"
    <3>1. Without(dayCopy[f], DayOf, cell) \in [Events -> Nat]
      BY <1>2, CellsTyped
    <3> QED
      BY <1>1, <2>2, <3>1 DEF UsecaseOK, AggregateTypeOK
  <2> QED
    BY <2>1, <2>2
<1>6. /\ UNCHANGED <<taken, processed, aged, hours, sweeping, accepted, asked, dayBuffer, monthBuffer>>
      /\ UNCHANGED <<reconVars, aggMonth, dirty, eventsRaw, eventsChan>>
  BY DEF FlushDay
<1> QED
  BY <1>3, <1>4, <1>5, <1>6 DEF UsecaseOK, AggregateTypeOK, ChannelTypeOK, reconVars

LEMMA FlushMonthTyped ==
    ASSUME UsecaseOK, NEW f \in Flushers, FlushMonth(f), UNCHANGED <<closed, ctx>>
    PROVE  UsecaseOK'
<1>1. PICK cell \in CellsOf(monthCopy[f], MonthOf), outcome \in Outcomes :
        /\ Statement(outcome)
        /\ aggMonth' = Upserted(aggMonth, cell[1], InCell(monthCopy[f], MonthOf, cell), outcome)
        /\ IF outcome # "ok" THEN AbandonFlush(f)
           ELSE /\ monthCopy' = [monthCopy EXCEPT ![f] = Without(@, MonthOf, cell)]
                /\ IF monthCopy'[f] = None THEN AfterFlush(f) ELSE UNCHANGED <<fpc, ppc>>
                /\ UNCHANGED dayCopy
  BY DEF FlushMonth
<1>2. monthCopy[f] \in [Events -> Nat]
  BY DEF UsecaseOK, AggregateTypeOK
<1>3. upsertFaults' \in 0..MaxUpsertFaults
  BY <1>1, StatementFaults DEF UsecaseOK, AggregateTypeOK
<1>4. aggMonth' \in [Months -> [Events -> Nat]]
  <2>1. InCell(monthCopy[f], MonthOf, cell) \in [Events -> Nat]
    BY <1>2, CellsTyped
  <2>2. aggMonth \in [Months -> [Events -> Nat]]
    BY DEF UsecaseOK, AggregateTypeOK
  <2> QED
    BY <1>1, <2>1, <2>2, UpsertedTyped
<1>5. /\ fpc' \in [Flushers -> {"idle", "day", "month", "done"}]
      /\ ppc' \in {"select", "add", "flush", "done"}
      /\ dayCopy' \in [Flushers -> [Events -> Nat]]
      /\ monthCopy' \in [Flushers -> [Events -> Nat]]
  <2>1. CASE outcome # "ok"
    BY <1>1, <2>1, AbandonTyped
  <2>2. CASE outcome = "ok"
    <3>1. Without(monthCopy[f], MonthOf, cell) \in [Events -> Nat]
      BY <1>2, CellsTyped
    <3>2. monthCopy' \in [Flushers -> [Events -> Nat]] /\ UNCHANGED dayCopy
      BY <1>1, <2>2, <3>1 DEF UsecaseOK, AggregateTypeOK
    <3>3. AfterFlush(f) \/ UNCHANGED <<fpc, ppc>>
      BY <1>1, <2>2
    <3> QED
      BY <3>2, <3>3, AfterFlushTyped DEF UsecaseOK, AggregateTypeOK
  <2> QED
    BY <2>1, <2>2
<1>6. /\ UNCHANGED <<taken, processed, aged, hours, sweeping, accepted, asked, dayBuffer, monthBuffer>>
      /\ UNCHANGED <<reconVars, aggDay, dirty, eventsRaw, eventsChan>>
  BY DEF FlushMonth
<1> QED
  BY <1>3, <1>4, <1>5, <1>6 DEF UsecaseOK, AggregateTypeOK, ChannelTypeOK, reconVars

-----------------------------------------------------------------------------
\* A step of the reconciliation leaves the rest of the state as it is; what
\* it changes keeps its type.
LEMMA ReconcileTyped ==
    ASSUME UsecaseOK, Reconcile, UNCHANGED <<closed, ctx>>
    PROVE  UsecaseOK'
<1>1. UNCHANGED reconFrame
  BY DEF Reconcile, TakeDirty, ReadDay, ReconcileDay, ReadMonth, ReconcileMonth, StopReconciling,
         reconFrame
<1>2. ASSUME /\ rpc' \in {"idle", "readDay", "upsertDay", "readMonth", "upsertMonth", "done"}
             /\ period' \in Periods \cup {NoPeriod}
             /\ snap' \subseteq Events
             /\ dirty' \in Seq(Periods) /\ Len(dirty') =< DirtyCap
             /\ aggDay' \in [Days -> [Events -> Nat]]
             /\ aggMonth' \in [Months -> [Events -> Nat]]
             /\ upsertFaults' \in 0..MaxUpsertFaults
      PROVE  UsecaseOK'
  BY <1>1, <1>2 DEF UsecaseOK, AggregateTypeOK, ChannelTypeOK, reconFrame, processVars, bufferVars
<1>3. /\ period \in Periods \cup {NoPeriod} /\ snap \subseteq Events /\ eventsRaw \subseteq Events
      /\ dirty \in Seq(Periods) /\ Len(dirty) =< DirtyCap
      /\ aggDay \in [Days -> [Events -> Nat]] /\ aggMonth \in [Months -> [Events -> Nat]]
      /\ upsertFaults \in 0..MaxUpsertFaults
  BY DEF UsecaseOK, AggregateTypeOK
<1>4. AfterDay \/ AfterMonth =>
        /\ rpc' \in {"readMonth", "idle"} /\ snap' \subseteq Events
        /\ period' \in Periods \cup {NoPeriod}
  BY <1>3 DEF AfterDay, AfterMonth
<1>5. CASE TakeDirty
  <2>1. Head(dirty) \in Periods /\ Tail(dirty) \in Seq(Periods) /\ Len(Tail(dirty)) =< DirtyCap
    BY <1>3, <1>5, AggregatorBounds DEF TakeDirty
  <2> QED
    BY <1>2, <1>3, <1>5, <2>1 DEF TakeDirty, tableVars
<1>6. CASE ReadDay
  <2>1. PICK outcome \in {"ok", "refused"} :
          /\ Statement(outcome)
          /\ LET read == {e \in eventsRaw : InDay(StartedAt[e], period)} IN
             IF outcome # "ok" \/ read = {} THEN AfterDay
             ELSE snap' = read /\ rpc' = "upsertDay" /\ UNCHANGED period
    BY <1>6 DEF ReadDay
  <2>2. upsertFaults' \in 0..MaxUpsertFaults
    BY <1>3, <2>1, StatementFaults
  <2>3. /\ rpc' \in {"readMonth", "idle", "upsertDay"} /\ snap' \subseteq Events
        /\ period' \in Periods \cup {NoPeriod}
    BY <1>3, <1>4, <2>1
  <2> QED
    BY <1>2, <1>3, <1>6, <2>2, <2>3 DEF ReadDay
<1>7. CASE ReadMonth
  <2>1. PICK outcome \in {"ok", "refused"} :
          /\ Statement(outcome)
          /\ LET read == {e \in eventsRaw : InMonth(StartedAt[e], period)} IN
             IF outcome # "ok" \/ read = {} THEN AfterMonth
             ELSE snap' = read /\ rpc' = "upsertMonth" /\ UNCHANGED period
    BY <1>7 DEF ReadMonth
  <2>2. upsertFaults' \in 0..MaxUpsertFaults
    BY <1>3, <2>1, StatementFaults
  <2>3. /\ rpc' \in {"readMonth", "idle", "upsertMonth"} /\ snap' \subseteq Events
        /\ period' \in Periods \cup {NoPeriod}
    BY <1>3, <1>4, <2>1
  <2> QED
    BY <1>2, <1>3, <1>7, <2>2, <2>3 DEF ReadMonth
<1>8. CASE ReconcileDay
  <2>1. PICK t \in {TypeOf[e] : e \in snap}, outcome \in Outcomes :
          /\ Statement(outcome)
          /\ aggDay' = Upserted(aggDay, PeriodDay(period), TotalOf(snap, t), outcome)
          /\ IF outcome # "ok" \/ OtherTypes(snap, t) = {} THEN AfterDay
             ELSE snap' = OtherTypes(snap, t) /\ UNCHANGED <<rpc, period>>
    BY <1>8 DEF ReconcileDay
  <2>2. upsertFaults' \in 0..MaxUpsertFaults
    BY <1>3, <2>1, StatementFaults
  <2>3. aggDay' \in [Days -> [Events -> Nat]]
    BY <1>3, <2>1, UpsertedTyped, TotalTyped
  <2>4. /\ rpc' \in {"readMonth", "idle", "upsertDay"} /\ snap' \subseteq Events
        /\ period' \in Periods \cup {NoPeriod}
    BY <1>3, <1>4, <1>8, <2>1 DEF ReconcileDay, OtherTypes
  <2> QED
    BY <1>2, <1>3, <1>8, <2>2, <2>3, <2>4 DEF ReconcileDay
<1>9. CASE ReconcileMonth
  <2>1. PICK t \in {TypeOf[e] : e \in snap}, outcome \in Outcomes :
          /\ Statement(outcome)
          /\ aggMonth' = Upserted(aggMonth, PeriodMonth(period), TotalOf(snap, t), outcome)
          /\ IF outcome # "ok" \/ OtherTypes(snap, t) = {} THEN AfterMonth
             ELSE snap' = OtherTypes(snap, t) /\ UNCHANGED <<rpc, period>>
    BY <1>9 DEF ReconcileMonth
  <2>2. upsertFaults' \in 0..MaxUpsertFaults
    BY <1>3, <2>1, StatementFaults
  <2>3. aggMonth' \in [Months -> [Events -> Nat]]
    BY <1>3, <2>1, UpsertedTyped, TotalTyped
  <2>4. /\ rpc' \in {"readMonth", "idle", "upsertMonth"} /\ snap' \subseteq Events
        /\ period' \in Periods \cup {NoPeriod}
    BY <1>3, <1>4, <1>9, <2>1 DEF ReconcileMonth, OtherTypes
  <2> QED
    BY <1>2, <1>3, <1>9, <2>2, <2>3, <2>4 DEF ReconcileMonth
<1>10. CASE StopReconciling
  BY <1>2, <1>3, <1>10 DEF StopReconciling, tableVars
<1> QED
  BY <1>5, <1>6, <1>7, <1>8, <1>9, <1>10 DEF Reconcile

LEMMA SweepTyped ==
    ASSUME UsecaseOK, Sweep \/ HourPasses, UNCHANGED <<closed, ctx>>
    PROVE  UsecaseOK'
<1>1. /\ UNCHANGED <<ppc, taken, accepted, asked, bufferVars, reconVars, tableVars>>
      /\ UNCHANGED <<dirty, eventsRaw, eventsChan>>
  BY DEF Sweep, Cleanup, StopCleanup, HourPasses
<1>2. /\ aged' \subseteq processed' /\ processed' \subseteq {IdOf[e] : e \in Events}
      /\ hours' \in 0..MaxHours /\ sweeping' \in BOOLEAN
  <2>1. CASE Cleanup
    BY <2>1 DEF Cleanup, Expired, UsecaseOK, AggregateTypeOK
  <2>2. CASE StopCleanup
    BY <2>2 DEF StopCleanup, UsecaseOK, AggregateTypeOK
  <2>3. CASE HourPasses
    BY <2>3, AggregatorBounds DEF HourPasses, UsecaseOK, AggregateTypeOK
  <2> QED
    BY <2>1, <2>2, <2>3 DEF Sweep
<1> QED
  BY <1>1, <1>2 DEF UsecaseOK, AggregateTypeOK, ChannelTypeOK, bufferVars, reconVars, tableVars

\* A step of the usecase keeps the types of all it works on.
UsecaseStep == Process \/ Streaming \/ Reconcile \/ Sweep \/ HourPasses

LEMMA UsecaseTyped ==
    ASSUME UsecaseOK, UsecaseStep, UNCHANGED <<closed, ctx>>
    PROVE  UsecaseOK'
<1>1. "P" \in Flushers /\ "S" \in Flushers
  BY DEF Flushers
<1>2. CASE Process
  BY <1>1, <1>2, ProcessTyped, AddTyped, StopProcessingTyped, FlushDayTyped, FlushMonthTyped
  DEF Process
<1>3. CASE StopFlushing
  BY <1>3 DEF StopFlushing, UsecaseOK, AggregateTypeOK, ChannelTypeOK,
              processVars, reconVars, tableVars
<1>4. CASE Streaming
  BY <1>1, <1>3, <1>4, FlushTickTyped, FlushDayTyped, FlushMonthTyped DEF Streaming
<1> QED
  BY <1>2, <1>4, ReconcileTyped, SweepTyped DEF UsecaseStep

-----------------------------------------------------------------------------
(* Where things can be. *)

\* The two buffers are filled and emptied together, a goroutine that is not
\* flushing holds no copy, processEvents flushes only at its end, and the
\* reconciler holds events of the range it read.
Places ==
    /\ dayBuffer = monthBuffer
    /\ ppc \in {"select", "add"} => fpc["P"] = "idle"
    /\ ppc = "add" => taken \in Messages
    /\ \A f \in Flushers : /\ fpc[f] # "day" => dayCopy[f] = None
                           /\ fpc[f] \in {"idle", "done"} => monthCopy[f] = None
    /\ rpc = "upsertDay" => \A e \in snap : InDay(StartedAt[e], period)
    /\ rpc = "upsertMonth" => \A e \in snap : InMonth(StartedAt[e], period)

LEMMA PlacesInit ==
    ASSUME AggregateInit
    PROVE  Places
<1>1. /\ \A f \in Flushers : fpc[f] = "idle" /\ dayCopy[f] = None /\ monthCopy[f] = None
      /\ fpc["P"] = "idle" /\ dayBuffer = monthBuffer
  BY DEF AggregateInit, Flushers
<1>2. ppc = "select" /\ rpc = "idle"
  BY DEF AggregateInit
<1> QED
  BY <1>1, <1>2 DEF Places

LEMMA ProcessKeepsPlaces ==
    ASSUME UsecaseOK, Places, ProcessEvent \/ AddToBuffer \/ StopProcessing
    PROVE  Places'
<1>1. CASE ProcessEvent
  <2>1. Head(eventsChan) \in Messages
    BY <1>1 DEF ProcessEvent, TakeFirst, UsecaseOK, ChannelTypeOK
  <2>2. /\ UNCHANGED <<bufferVars, reconVars>> /\ ppc = "select"
        /\ \/ UNCHANGED <<ppc, taken>>
           \/ ppc' = "add" /\ taken' = Head(eventsChan)
    BY <1>1 DEF ProcessEvent
  <2> QED
    BY <2>1, <2>2 DEF Places, bufferVars, reconVars
<1>2. CASE AddToBuffer
  BY <1>2 DEF AddToBuffer, Places, reconVars
<1>3. CASE StopProcessing
  <2>1. /\ UNCHANGED <<taken, rpc, period, snap>> /\ ppc' \notin {"select", "add"}
        /\ dayBuffer' = None /\ monthBuffer' = None
        /\ dayCopy' = [dayCopy EXCEPT !["P"] = dayBuffer]
        /\ monthCopy' = [monthCopy EXCEPT !["P"] = monthBuffer]
        /\ \/ dayBuffer = None /\ fpc' = [fpc EXCEPT !["P"] = "done"]
           \/ fpc' = [fpc EXCEPT !["P"] = "day"]
    BY <1>3 DEF StopProcessing, Swap, reconVars
  <2>2. /\ dayCopy \in [Flushers -> [Events -> Nat]] /\ monthCopy \in [Flushers -> [Events -> Nat]]
        /\ fpc \in [Flushers -> {"idle", "day", "month", "done"}] /\ dayBuffer = monthBuffer
    BY DEF UsecaseOK, AggregateTypeOK, Places
  <2>3. \A f \in Flushers : /\ fpc'[f] # "day" => dayCopy'[f] = None
                            /\ fpc'[f] \in {"idle", "done"} => monthCopy'[f] = None
    <3> SUFFICES ASSUME NEW f \in Flushers
                 PROVE  /\ fpc'[f] # "day" => dayCopy'[f] = None
                        /\ fpc'[f] \in {"idle", "done"} => monthCopy'[f] = None
      OBVIOUS
    <3>1. CASE f = "P"
      BY <2>1, <2>2, <3>1
    <3>2. CASE f # "P"
      BY <2>1, <2>2, <3>2 DEF Places
    <3> QED
      BY <3>1, <3>2
  <2> QED
    BY <2>1, <2>3 DEF Places
<1> QED
  BY <1>1, <1>2, <1>3

LEMMA TickKeepsPlaces ==
    ASSUME UsecaseOK, Places, FlushTick \/ StopFlushing
    PROVE  Places'
<1>1. /\ dayCopy \in [Flushers -> [Events -> Nat]] /\ monthCopy \in [Flushers -> [Events -> Nat]]
      /\ fpc \in [Flushers -> {"idle", "day", "month", "done"}] /\ dayBuffer = monthBuffer
      /\ Flushers = {"P", "S"}
  BY DEF UsecaseOK, AggregateTypeOK, Places, Flushers
<1>2. UNCHANGED <<ppc, taken, rpc, period, snap>> /\ fpc["S"] = "idle"
  BY DEF FlushTick, StopFlushing, processVars, reconVars
<1>3. \/ /\ dayBuffer' = None /\ monthBuffer' = None
         /\ dayCopy' = [dayCopy EXCEPT !["S"] = dayBuffer]
         /\ monthCopy' = [monthCopy EXCEPT !["S"] = monthBuffer]
         /\ fpc' = [fpc EXCEPT !["S"] = "day"]
      \/ /\ UNCHANGED <<dayBuffer, monthBuffer, dayCopy, monthCopy>>
         /\ fpc' = [fpc EXCEPT !["S"] = "done"]
  BY DEF FlushTick, StopFlushing, Swap
<1>4. \A f \in Flushers : /\ fpc'[f] # "day" => dayCopy'[f] = None
                          /\ fpc'[f] \in {"idle", "done"} => monthCopy'[f] = None
  <2> SUFFICES ASSUME NEW f \in Flushers
               PROVE  /\ fpc'[f] # "day" => dayCopy'[f] = None
                      /\ fpc'[f] \in {"idle", "done"} => monthCopy'[f] = None
    OBVIOUS
  <2>1. CASE f = "S"
    BY <1>1, <1>2, <1>3, <2>1 DEF Places
  <2>2. CASE f # "S"
    BY <1>1, <1>3, <2>2 DEF Places
  <2> QED
    BY <2>1, <2>2
<1>5. fpc'["P"] = fpc["P"] /\ dayBuffer' = monthBuffer'
  BY <1>1, <1>3
<1> QED
  BY <1>2, <1>4, <1>5 DEF Places

LEMMA FlushKeepsPlaces ==
    ASSUME UsecaseOK, Places, NEW f \in Flushers, FlushDay(f) \/ FlushMonth(f)
    PROVE  Places'
<1>1. /\ dayCopy \in [Flushers -> [Events -> Nat]] /\ monthCopy \in [Flushers -> [Events -> Nat]]
      /\ fpc \in [Flushers -> {"idle", "day", "month", "done"}]
  BY DEF UsecaseOK, AggregateTypeOK
<1>2. UNCHANGED <<taken, dayBuffer, monthBuffer, rpc, period, snap>> /\ fpc[f] \in {"day", "month"}
  BY DEF FlushDay, FlushMonth, reconVars
<1>3. \/ AbandonFlush(f)
      \/ /\ \E part : dayCopy' = [dayCopy EXCEPT ![f] = part]
         /\ fpc' = [fpc EXCEPT ![f] = IF dayCopy'[f] = None THEN "month" ELSE "day"]
         /\ UNCHANGED <<ppc, monthCopy>>
      \/ /\ fpc[f] = "month" /\ UNCHANGED dayCopy
         /\ \E part : monthCopy' = [monthCopy EXCEPT ![f] = part]
         /\ IF monthCopy'[f] = None THEN AfterFlush(f) ELSE UNCHANGED <<fpc, ppc>>
  BY DEF FlushDay, FlushMonth
<1>4. \A g \in Flushers : g # f => /\ fpc'[g] = fpc[g] /\ dayCopy'[g] = dayCopy[g]
                                   /\ monthCopy'[g] = monthCopy[g]
  BY <1>1, <1>3 DEF AbandonFlush, AfterFlush
<1>5. /\ fpc'[f] # "day" => dayCopy'[f] = None
      /\ fpc'[f] \in {"idle", "done"} => monthCopy'[f] = None
  <2>1. CASE AbandonFlush(f)
    BY <1>1, <2>1 DEF AbandonFlush
  <2>2. CASE /\ fpc' = [fpc EXCEPT ![f] = IF dayCopy'[f] = None THEN "month" ELSE "day"]
             /\ UNCHANGED <<ppc, monthCopy>>
    BY <1>1, <2>2
  <2>3. CASE /\ fpc[f] = "month" /\ UNCHANGED dayCopy
             /\ IF monthCopy'[f] = None THEN AfterFlush(f) ELSE UNCHANGED <<fpc, ppc>>
    BY <1>1, <2>3 DEF AfterFlush, Places
  <2> QED
    BY <1>3, <2>1, <2>2, <2>3
<1>6. \/ ppc' \notin {"select", "add"}
      \/ ppc' = ppc /\ fpc'["P"] = fpc["P"]
      \/ ppc' = ppc /\ f = "P"
  BY <1>3, <1>4 DEF AbandonFlush, AfterFlush, Flushers
<1>7. ppc' \in {"select", "add"} => ppc' = ppc /\ fpc'["P"] = "idle"
  BY <1>2, <1>6 DEF Places
<1> QED
  BY <1>2, <1>4, <1>5, <1>7 DEF Places

LEMMA ReconcileKeepsPlaces ==
    ASSUME UsecaseOK, Places, Reconcile
    PROVE  Places'
<1>1. UNCHANGED <<ppc, taken, bufferVars>>
  BY DEF Reconcile, TakeDirty, ReadDay, ReconcileDay, ReadMonth, ReconcileMonth, StopReconciling,
         reconFrame, processVars
<1>2. ASSUME /\ rpc' = "upsertDay" => \A e \in snap' : InDay(StartedAt[e], period')
             /\ rpc' = "upsertMonth" => \A e \in snap' : InMonth(StartedAt[e], period')
      PROVE  Places'
  BY <1>1, <1>2 DEF Places, bufferVars
<1>3. CASE TakeDirty \/ StopReconciling
  BY <1>2, <1>3 DEF TakeDirty, StopReconciling
<1>4. CASE ReadDay
  <2>1. \/ rpc' = "readMonth"
        \/ /\ rpc' = "upsertDay" /\ UNCHANGED period
           /\ snap' = {e \in eventsRaw : InDay(StartedAt[e], period)}
    BY <1>4 DEF ReadDay, AfterDay
  <2> QED
    BY <1>2, <2>1
<1>5. CASE ReadMonth
  <2>1. \/ rpc' = "idle"
        \/ /\ rpc' = "upsertMonth" /\ UNCHANGED period
           /\ snap' = {e \in eventsRaw : InMonth(StartedAt[e], period)}
    BY <1>5 DEF ReadMonth, AfterMonth
  <2> QED
    BY <1>2, <2>1
<1>6. CASE ReconcileDay
  <2>1. \/ rpc' = "readMonth"
        \/ rpc' = "upsertDay" /\ rpc = "upsertDay" /\ UNCHANGED period /\ snap' \subseteq snap
    BY <1>6 DEF ReconcileDay, AfterDay, OtherTypes
  <2> QED
    BY <1>2, <2>1 DEF Places
<1>7. CASE ReconcileMonth
  <2>1. \/ rpc' = "idle"
        \/ rpc' = "upsertMonth" /\ rpc = "upsertMonth" /\ UNCHANGED period /\ snap' \subseteq snap
    BY <1>7 DEF ReconcileMonth, AfterMonth, OtherTypes
  <2> QED
    BY <1>2, <2>1 DEF Places
<1> QED
  BY <1>3, <1>4, <1>5, <1>6, <1>7 DEF Reconcile

LEMMA SweepKeepsPlaces ==
    ASSUME Places, Sweep \/ HourPasses
    PROVE  Places'
<1>1. UNCHANGED <<ppc, taken, bufferVars, reconVars>>
  BY DEF Sweep, Cleanup, StopCleanup, HourPasses
<1> QED
  BY <1>1 DEF Places, bufferVars, reconVars

LEMMA UsecaseKeepsPlaces ==
    ASSUME UsecaseOK, Places, UsecaseStep
    PROVE  Places'
<1>1. "P" \in Flushers /\ "S" \in Flushers
  BY DEF Flushers
<1> QED
  BY <1>1, ProcessKeepsPlaces, FlushKeepsPlaces, TickKeepsPlaces, ReconcileKeepsPlaces,
     SweepKeepsPlaces
  DEF UsecaseStep, Process, Streaming

-----------------------------------------------------------------------------
(* Where the dirty periods come from. *)

Origin(p) == \E l \in Events : asked[l] > 0 /\ p = PeriodOf(StartedAt[l], Zone[l])

\* Every period in the channel, and the one under recomputation, is that of
\* an event marked late; the reconciler holds one exactly while it works.
Origins ==
    /\ \A i \in DOMAIN dirty : Origin(dirty[i])
    /\ rpc \in {"idle", "done"} => period = NoPeriod
    /\ rpc \notin {"idle", "done"} => Origin(period)

LEMMA OriginsInit == AggregateInit => Origins
BY EmptyThings DEF AggregateInit, Origins

LEMMA ProcessKeepsOrigins ==
    ASSUME UsecaseOK, Origins, ProcessEvent
    PROVE  Origins'
<1> DEFINE e == EventOf(Head(eventsChan))
<1>1. UNCHANGED <<rpc, period>>
  BY DEF ProcessEvent, reconVars
<1>2. e \in Events
  BY MessageCarriesEvent DEF UsecaseOK, ChannelTypeOK, ProcessEvent, TakeFirst
<1>3. asked \in [Events -> Nat] /\ dirty \in Seq(Periods)
  BY DEF UsecaseOK, AggregateTypeOK
<1>4. UNCHANGED <<dirty, asked>> \/ MarkDirty(e)
  BY DEF ProcessEvent
<1>5. CASE UNCHANGED <<dirty, asked>>
  BY <1>1, <1>5 DEF Origins, Origin
<1>6. CASE MarkDirty(e)
  <2> DEFINE q == PeriodOf(StartedAt[e], Zone[e])
  <2>1. /\ asked' = [asked EXCEPT ![e] = @ + 1]
        /\ dirty' = Append(dirty, q) \/ dirty' = dirty
    BY <1>6 DEF MarkDirty
  <2> HIDE DEF e
  <2>2. asked'[e] > 0 /\ \A l \in Events : asked[l] > 0 => asked'[l] > 0
    BY <1>2, <1>3, <2>1
  <2> HIDE DEF q
  <2>3. ASSUME NEW i \in DOMAIN dirty'
        PROVE  \E l \in Events : asked'[l] > 0 /\ dirty'[i] = PeriodOf(StartedAt[l], Zone[l])
    <3>1. CASE i \in DOMAIN dirty /\ dirty'[i] = dirty[i]
      BY <2>2, <3>1 DEF Origins, Origin
    <3>2. CASE dirty'[i] = q
      BY <1>2, <2>2, <3>2 DEF q
    <3>3. \/ i \in DOMAIN dirty /\ dirty'[i] = dirty[i]
          \/ dirty'[i] = q
      BY <1>3, <2>1
    <3> QED
      BY <3>1, <3>2, <3>3
  <2>4. rpc \notin {"idle", "done"} =>
          \E l \in Events : asked'[l] > 0 /\ period = PeriodOf(StartedAt[l], Zone[l])
    BY <2>2 DEF Origins, Origin
  <2> QED
    BY <1>1, <2>3, <2>4 DEF Origins, Origin
<1> QED
  BY <1>4, <1>5, <1>6

LEMMA ReconcileKeepsOrigins ==
    ASSUME UsecaseOK, Origins, Reconcile
    PROVE  Origins'
<1>1. UNCHANGED asked
  BY DEF Reconcile, TakeDirty, ReadDay, ReconcileDay, ReadMonth, ReconcileMonth, StopReconciling,
         reconFrame, processVars
<1>2. CASE TakeDirty
  <2>1. dirty \in Seq(Periods) /\ dirty # <<>>
    BY <1>2 DEF TakeDirty, UsecaseOK, AggregateTypeOK
  <2>2. /\ Head(dirty) = dirty[1] /\ 1 \in DOMAIN dirty
        /\ \A i \in DOMAIN Tail(dirty) : i + 1 \in DOMAIN dirty /\ Tail(dirty)[i] = dirty[i + 1]
    BY <2>1
  <2>3. /\ period' = Head(dirty) /\ dirty' = Tail(dirty) /\ rpc' = "readDay"
    BY <1>2 DEF TakeDirty
  <2> QED
    BY <1>1, <2>2, <2>3 DEF Origins, Origin
<1>3. CASE ReadDay \/ ReconcileDay
  <2>1. /\ UNCHANGED <<dirty, period>>
        /\ rpc \notin {"idle", "done"} /\ rpc' \notin {"idle", "done"}
    BY <1>3 DEF ReadDay, ReconcileDay, AfterDay
  <2> QED
    BY <1>1, <2>1 DEF Origins, Origin
<1>4. CASE ReadMonth \/ ReconcileMonth
  <2>1. /\ UNCHANGED dirty /\ rpc \notin {"idle", "done"}
        /\ \/ UNCHANGED period /\ rpc' \notin {"idle", "done"}
           \/ rpc' = "idle" /\ period' = NoPeriod
    BY <1>4 DEF ReadMonth, ReconcileMonth, AfterMonth
  <2> QED
    BY <1>1, <2>1 DEF Origins, Origin
<1>5. CASE StopReconciling
  BY <1>1, <1>5 DEF StopReconciling, Origins, Origin
<1> QED
  BY <1>2, <1>3, <1>4, <1>5 DEF Reconcile

\* What neither takes an event in nor recomputes leaves the reconciler and
\* its channel alone.
LEMMA OthersLeaveReconciler ==
    ASSUME UsecaseStep, ~ ProcessEvent, ~ Reconcile
    PROVE  UNCHANGED <<reconVars, dirty, asked>>
<1>1. CASE Process
  BY <1>1 DEF Process, AddToBuffer, StopProcessing, FlushDay, FlushMonth
<1>2. CASE Streaming
  BY <1>2 DEF Streaming, FlushTick, StopFlushing, FlushDay, FlushMonth, processVars
<1>3. CASE Sweep \/ HourPasses
  BY <1>3 DEF Sweep, Cleanup, StopCleanup, HourPasses
<1> QED
  BY <1>1, <1>2, <1>3 DEF UsecaseStep

LEMMA UsecaseKeepsOrigins ==
    ASSUME UsecaseOK, Origins, UsecaseStep
    PROVE  Origins'
<1>1. CASE ~ ProcessEvent /\ ~ Reconcile
  <2>1. UNCHANGED <<rpc, period, dirty, asked>>
    BY <1>1, OthersLeaveReconciler DEF reconVars
  <2> QED
    BY <2>1 DEF Origins, Origin
<1> QED
  BY <1>1, ProcessKeepsOrigins, ReconcileKeepsOrigins

-----------------------------------------------------------------------------
(* The balance of an event: what is held of it, against what was taken in. *)

DayHeld(e)   == OnTheWayToDay(e) + aggDay[DayOf[e]][e]
MonthHeld(e) == OnTheWayToMonth(e) + aggMonth[MonthOf[e]][e]

\* A step that keeps both sides equal, or as far apart as they were.
Balanced(e) ==
    /\ DayHeld(e)' - accepted'[e] = DayHeld(e) - accepted[e]
    /\ MonthHeld(e)' - accepted'[e] = MonthHeld(e) - accepted[e]

LEMMA HeldTyped ==
    ASSUME UsecaseOK, NEW e \in Events
    PROVE  /\ InHand(e) \in {0, 1} /\ accepted[e] \in Nat
           /\ dayBuffer[e] \in Nat /\ dayCopy["P"][e] \in Nat /\ dayCopy["S"][e] \in Nat
           /\ monthBuffer[e] \in Nat /\ monthCopy["P"][e] \in Nat /\ monthCopy["S"][e] \in Nat
           /\ DayOf[e] \in Days /\ MonthOf[e] \in Months
           /\ aggDay[DayOf[e]][e] \in Nat /\ aggMonth[MonthOf[e]][e] \in Nat
<1>1. DayOf[e] \in Days /\ MonthOf[e] \in Months
  BY DEF Days, Months
<1>2. "P" \in Flushers /\ "S" \in Flushers
  BY DEF Flushers
<1>3. /\ dayBuffer \in [Events -> Nat] /\ monthBuffer \in [Events -> Nat]
      /\ dayCopy \in [Flushers -> [Events -> Nat]] /\ monthCopy \in [Flushers -> [Events -> Nat]]
      /\ aggDay \in [Days -> [Events -> Nat]] /\ aggMonth \in [Months -> [Events -> Nat]]
      /\ accepted \in [Events -> Nat]
  BY DEF UsecaseOK, AggregateTypeOK
<1>4. InHand(e) \in {0, 1}
  BY DEF InHand
<1>5. /\ dayCopy["P"] \in [Events -> Nat] /\ dayCopy["S"] \in [Events -> Nat]
      /\ monthCopy["P"] \in [Events -> Nat] /\ monthCopy["S"] \in [Events -> Nat]
      /\ aggDay[DayOf[e]] \in [Events -> Nat] /\ aggMonth[MonthOf[e]] \in [Events -> Nat]
  BY <1>1, <1>2, <1>3
<1> QED
  BY <1>1, <1>3, <1>4, <1>5

\* What an answered upsert does to one event of one row.
LEMMA UpsertAt ==
    ASSUME NEW B, NEW table \in [B -> [Events -> Nat]], NEW bucket, NEW b \in B,
           NEW part \in [Events -> Nat], NEW e \in Events
    PROVE  Upserted(table, bucket, part, "ok")[b][e] =
               table[b][e] + (IF b = bucket THEN part[e] ELSE 0)
<1>1. Upserted(table, bucket, part, "ok") = Upsert(table, bucket, part)
  BY DEF Upserted
<1>2. table[b] \in [Events -> Nat] /\ table[b][e] \in Nat
  OBVIOUS
<1>3. CASE b = bucket
  <2>1. Upsert(table, bucket, part)[b] = [x \in Events |-> table[b][x] + part[x]]
    BY <1>3 DEF Upsert
  <2> QED
    BY <1>1, <1>3, <2>1
<1>4. CASE b # bucket
  <2>1. Upsert(table, bucket, part)[b] = table[b]
    BY <1>4 DEF Upsert
  <2> QED
    BY <1>1, <1>2, <1>4, <2>1
<1> QED
  BY <1>3, <1>4

LEMMA TakingInBalances ==
    ASSUME UsecaseOK, ProcessEvent, NEW e \in Events
    PROVE  Balanced(e)
<1> DEFINE m == Head(eventsChan)
<1>1. EventOf(m) \in Events
  BY MessageCarriesEvent DEF UsecaseOK, ChannelTypeOK, ProcessEvent, TakeFirst
<1>2. /\ UNCHANGED <<dayBuffer, monthBuffer, dayCopy, monthCopy, aggDay, aggMonth>>
      /\ ppc = "select"
      /\ \/ UNCHANGED <<ppc, taken, accepted>>
         \/ /\ ppc' = "add" /\ taken' = m
            /\ accepted' = [accepted EXCEPT ![EventOf(m)] = @ + 1]
  BY DEF ProcessEvent, bufferVars, tableVars
<1> HIDE DEF m
<1>3. InHand(e) = 0 /\ accepted \in [Events -> Nat]
  BY <1>2 DEF InHand, UsecaseOK, AggregateTypeOK
<1>4. InHand(e)' - accepted'[e] = InHand(e) - accepted[e] /\ InHand(e)' \in {0, 1}
      /\ accepted'[e] \in Nat
  BY <1>1, <1>2, <1>3 DEF InHand
<1>5. /\ DayHeld(e)' - InHand(e)' = DayHeld(e) - InHand(e)
      /\ MonthHeld(e)' - InHand(e)' = MonthHeld(e) - InHand(e)
      /\ DayHeld(e)' \in Nat /\ MonthHeld(e)' \in Nat
      /\ DayHeld(e) \in Nat /\ MonthHeld(e) \in Nat
  BY <1>2, <1>4, HeldTyped DEF DayHeld, MonthHeld, OnTheWayToDay, OnTheWayToMonth
<1> QED
  BY <1>3, <1>4, <1>5 DEF Balanced

LEMMA AddingBalances ==
    ASSUME UsecaseOK, Places, AddToBuffer, NEW e \in Events
    PROVE  Balanced(e)
<1> DEFINE x == EventOf(taken)
<1>1. x \in Events
  BY MessageCarriesEvent DEF Places, AddToBuffer
<1>2. /\ UNCHANGED <<dayCopy, monthCopy, aggDay, aggMonth, accepted>>
      /\ ppc = "add" /\ ppc' = "select"
      /\ dayBuffer' = [dayBuffer EXCEPT ![x] = @ + 1]
      /\ monthBuffer' = [monthBuffer EXCEPT ![x] = @ + 1]
  BY DEF AddToBuffer, tableVars
<1>3. InHand(e) = (IF x = e THEN 1 ELSE 0) /\ InHand(e)' = 0
  BY <1>2 DEF InHand
<1> HIDE DEF x
<1>4. /\ dayBuffer \in [Events -> Nat] /\ monthBuffer \in [Events -> Nat]
  BY DEF UsecaseOK, AggregateTypeOK
<1>5. /\ InHand(e)' + dayBuffer'[e] = InHand(e) + dayBuffer[e]
      /\ InHand(e)' + monthBuffer'[e] = InHand(e) + monthBuffer[e]
      /\ dayBuffer'[e] \in Nat /\ monthBuffer'[e] \in Nat /\ InHand(e)' \in Nat
  BY <1>1, <1>2, <1>3, <1>4
<1> QED
  BY <1>2, <1>5, HeldTyped DEF Balanced, DayHeld, MonthHeld, OnTheWayToDay, OnTheWayToMonth

\* A flusher that takes the buffers held no copy before.
LEMMA SwapBalances ==
    ASSUME UsecaseOK, Places, NEW f \in Flushers, Swap(f), fpc[f] = "idle",
           UNCHANGED <<aggDay, aggMonth, accepted>>, NEW e \in Events,
           InHand(e)' = InHand(e)
    PROVE  Balanced(e)
<1>1. /\ dayBuffer' = None /\ monthBuffer' = None
      /\ dayCopy' = [dayCopy EXCEPT ![f] = dayBuffer]
      /\ monthCopy' = [monthCopy EXCEPT ![f] = monthBuffer]
  BY DEF Swap
<1>2. /\ dayCopy \in [Flushers -> [Events -> Nat]] /\ monthCopy \in [Flushers -> [Events -> Nat]]
      /\ Flushers = {"P", "S"}
  BY DEF UsecaseOK, AggregateTypeOK, Flushers
<1>3. dayCopy[f] = None /\ monthCopy[f] = None
  BY DEF Places
<1>4. None[e] = 0
  BY DEF None
<1>5. /\ dayBuffer'[e] = 0 /\ monthBuffer'[e] = 0
      /\ \A g \in Flushers :
           /\ dayCopy'[g][e] = IF g = f THEN dayBuffer[e] ELSE dayCopy[g][e]
           /\ monthCopy'[g][e] = IF g = f THEN monthBuffer[e] ELSE monthCopy[g][e]
           /\ g = f => dayCopy[g][e] = 0 /\ monthCopy[g][e] = 0
  BY <1>1, <1>2, <1>3, <1>4
<1>6. "P" \in Flushers /\ "S" \in Flushers /\ (f = "P" \/ f = "S") /\ "P" # "S"
  BY <1>2
<1>7. /\ dayBuffer'[e] + dayCopy'["P"][e] + dayCopy'["S"][e]
           = dayBuffer[e] + dayCopy["P"][e] + dayCopy["S"][e]
      /\ monthBuffer'[e] + monthCopy'["P"][e] + monthCopy'["S"][e]
           = monthBuffer[e] + monthCopy["P"][e] + monthCopy["S"][e]
      /\ dayBuffer'[e] \in Nat /\ dayCopy'["P"][e] \in Nat /\ dayCopy'["S"][e] \in Nat
      /\ monthBuffer'[e] \in Nat /\ monthCopy'["P"][e] \in Nat /\ monthCopy'["S"][e] \in Nat
  <2>1. CASE f = "P"
    BY <1>5, <1>6, <2>1, HeldTyped
  <2>2. CASE f = "S"
    BY <1>5, <1>6, <2>2, HeldTyped
  <2> QED
    BY <1>6, <2>1, <2>2
<1> QED
  BY <1>7, HeldTyped DEF Balanced, DayHeld, MonthHeld, OnTheWayToDay, OnTheWayToMonth

\* A flush does not touch the event in hand: processEvents has none by then.
LEMMA FlushKeepsInHand ==
    ASSUME Places, NEW f \in Flushers, fpc[f] \in {"day", "month"},
           UNCHANGED taken, UNCHANGED ppc \/ AfterFlush(f), NEW e \in Events
    PROVE  InHand(e)' = InHand(e)
<1>1. CASE UNCHANGED ppc
  BY <1>1 DEF InHand
<1>2. CASE AfterFlush(f) /\ f = "P"
  BY <1>2 DEF AfterFlush, InHand, Places
<1>3. CASE AfterFlush(f) /\ f # "P"
  BY <1>3 DEF AfterFlush, InHand
<1> QED
  BY <1>1, <1>2, <1>3

\* A step that touches none of the places keeps the balance.
LEMMA StillBalances ==
    ASSUME UsecaseOK, NEW e \in Events,
           UNCHANGED <<dayBuffer, monthBuffer, dayCopy, monthCopy, aggDay, aggMonth, accepted>>,
           InHand(e)' = InHand(e)
    PROVE  Balanced(e)
BY HeldTyped DEF Balanced, DayHeld, MonthHeld, OnTheWayToDay, OnTheWayToMonth

-----------------------------------------------------------------------------
(* The bound on what a row holds.  A period in the channel, or one whose   *)
(* statement for a row is still to come, is a claim on the rows it writes. *)
(* Marking a late event makes a claim and raises the bound of the rows     *)
(* concerned by one; a recomputation spends its claim when it adds to a    *)
(* row, and drops it when it fails.  So load and claims together never     *)
(* exceed the bound.                                                       *)

\* How many periods of a set are in the channel.
CountIn(s, A) == Cardinality({i \in DOMAIN s : s[i] \in A})

LEMMA CountedNat ==
    ASSUME NEW T, NEW s \in Seq(T), NEW A
    PROVE  /\ IsFiniteSet({i \in DOMAIN s : s[i] \in A})
           /\ CountIn(s, A) \in Nat
<1>1. IsFiniteSet(1..Len(s))
  BY FS_Interval
<1>2. {i \in DOMAIN s : s[i] \in A} \subseteq 1..Len(s)
  OBVIOUS
<1>3. IsFiniteSet({i \in DOMAIN s : s[i] \in A})
  BY <1>1, <1>2, FS_Subset
<1> QED
  BY <1>3, FS_CardinalityType DEF CountIn

LEMMA CountInNone ==
    ASSUME NEW A
    PROVE  CountIn(<<>>, A) = 0
<1>1. {i \in DOMAIN <<>> : <<>>[i] \in A} = {}
  OBVIOUS
<1> QED
  BY <1>1, FS_EmptySet DEF CountIn

LEMMA CountAppended ==
    ASSUME NEW T, NEW s \in Seq(T), NEW q \in T, NEW A
    PROVE  CountIn(Append(s, q), A) = CountIn(s, A) + (IF q \in A THEN 1 ELSE 0)
<1> DEFINE old == {i \in DOMAIN s : s[i] \in A}
           new == {i \in DOMAIN Append(s, q) : Append(s, q)[i] \in A}
           n == Len(s) + 1
<1>1. /\ IsFiniteSet(old) /\ Cardinality(old) \in Nat /\ n \notin old
      /\ Cardinality(old) = CountIn(s, A) /\ Cardinality(new) = CountIn(Append(s, q), A)
  <2>1. IsFiniteSet(old) /\ CountIn(s, A) \in Nat
    BY CountedNat
  <2>2. n \notin DOMAIN s
    OBVIOUS
  <2> QED
    BY <2>1, <2>2 DEF CountIn
<1>2. /\ DOMAIN Append(s, q) = DOMAIN s \cup {n} /\ Append(s, q)[n] = q
      /\ \A i \in DOMAIN s : Append(s, q)[i] = s[i]
  OBVIOUS
<1>3. new = IF q \in A THEN old \cup {n} ELSE old
  BY <1>1, <1>2
<1> HIDE DEF old, new, n
<1>4. Cardinality(old \cup {n}) = Cardinality(old) + 1
  BY <1>1, FS_AddElement
<1> QED
  BY <1>1, <1>3, <1>4

LEMMA CountTaken ==
    ASSUME NEW T, NEW s \in Seq(T), s # <<>>, NEW A
    PROVE  CountIn(s, A) = CountIn(Tail(s), A) + (IF Head(s) \in A THEN 1 ELSE 0)
<1> DEFINE old == {i \in DOMAIN s : s[i] \in A}
           new == {i \in DOMAIN Tail(s) : Tail(s)[i] \in A}
           rest == old \ {1}
           shift == [i \in new |-> i + 1]
<1>1. /\ IsFiniteSet(old) /\ Cardinality(old) = CountIn(s, A) /\ Cardinality(old) \in Nat
  BY CountedNat DEF CountIn
<1>2. Cardinality(new) = CountIn(Tail(s), A) /\ IsFiniteSet(new)
  <2>1. Tail(s) \in Seq(T)
    OBVIOUS
  <2>2. IsFiniteSet(new)
    BY <2>1, CountedNat
  <2> QED
    BY <2>2 DEF CountIn
<1>3. /\ DOMAIN s = 1..Len(s) /\ Len(s) \in Nat \ {0}
      /\ DOMAIN Tail(s) = 1..(Len(s) - 1)
      /\ \A i \in DOMAIN Tail(s) : Tail(s)[i] = s[i + 1]
      /\ Head(s) = s[1] /\ 1 \in DOMAIN s
  OBVIOUS
<1>4. shift \in Bijection(new, rest)
  <2>1. shift \in [new -> rest]
    BY <1>3
  <2>2. \A i, j \in new : i # j => shift[i] # shift[j]
    BY <1>3
  <2>3. \A k \in rest : k - 1 \in new /\ shift[k - 1] = k
    BY <1>3
  <2> HIDE DEF shift, new, rest
  <2> QED
    BY <2>1, <2>2, <2>3 DEF Bijection, Injection, Surjection, IsInjective
<1>5. 1 \in old <=> Head(s) \in A
  BY <1>3
<1> HIDE DEF shift, new, old
<1>6. Cardinality(rest) = Cardinality(new)
  <2> HIDE DEF rest
  <2>1. ExistsBijection(new, rest)
    BY <1>4 DEF ExistsBijection
  <2> QED
    BY <1>2, <2>1, FS_Bijection
<1>7. CASE Head(s) \in A
  <2>1. Cardinality(rest) = Cardinality(old) - 1
    BY <1>1, <1>5, <1>7, FS_RemoveElement
  <2> QED
    BY <1>1, <1>2, <1>6, <1>7, <2>1
<1>8. CASE Head(s) \notin A
  <2>1. rest = old
    BY <1>5, <1>8
  <2> QED
    BY <1>1, <1>2, <1>6, <1>8, <2>1
<1> QED
  BY <1>7, <1>8

\* The periods whose recomputation would count event e in a row.
DayAskers(e, d)   == {p \in Periods : PeriodDay(p) = d /\ InDay(StartedAt[e], p)}
MonthAskers(e, m) == {p \in Periods : PeriodMonth(p) = m /\ InMonth(StartedAt[e], p)}

\* A late event that marks such a period is one of those the bound counts.
LEMMA AskersRecount ==
    ASSUME NEW e \in Events, NEW l \in Events, NEW row
    PROVE  /\ PeriodOf(StartedAt[l], Zone[l]) \in DayAskers(e, row) => l \in DayRecounters(e, row)
           /\ PeriodOf(StartedAt[l], Zone[l]) \in MonthAskers(e, row)
                  => l \in MonthRecounters(e, row)
<1>1. /\ PeriodDay(PeriodOf(StartedAt[l], Zone[l])) = DayOf[l]
      /\ PeriodMonth(PeriodOf(StartedAt[l], Zone[l])) = MonthOf[l]
  BY RowsOf, PeriodDayIsRow, PeriodMonthIsRow
<1> QED
  BY <1>1 DEF DayAskers, MonthAskers, DayRecounters, MonthRecounters

\* Taking an event in makes no claim that does not raise the bound.
LEMMA MarkingPays ==
    ASSUME UsecaseOK, ProcessEvent, NEW A, NEW R \in SUBSET Events,
           \A l \in Events : PeriodOf(StartedAt[l], Zone[l]) \in A => l \in R
    PROVE  CountIn(dirty', A) + SumFunctionOnSet(asked, R)
               =< CountIn(dirty, A) + SumFunctionOnSet(asked', R)
<1> DEFINE x == EventOf(Head(eventsChan))
           q == PeriodOf(StartedAt[x], Zone[x])
<1>1. x \in Events
  BY MessageCarriesEvent DEF UsecaseOK, ChannelTypeOK, ProcessEvent, TakeFirst
<1>2. dirty \in Seq(Periods) /\ asked \in [Events -> Nat]
  BY DEF UsecaseOK, AggregateTypeOK
<1>3. CountIn(dirty, A) \in Nat /\ SumFunctionOnSet(asked, R) \in Nat
  <2>1. IsFiniteSet(R) /\ \A y \in R : asked[y] \in Nat
    BY <1>2, EventsAssumption, FS_Subset
  <2> QED
    BY <1>2, <2>1, CountedNat, SumNat
<1>4. \/ UNCHANGED <<dirty, asked>>
      \/ /\ dirty' = Append(dirty, q) \/ dirty' = dirty
         /\ asked' = [asked EXCEPT ![x] = @ + 1]
  BY DEF ProcessEvent, MarkDirty
<1>5. q \in Periods /\ (q \in A => x \in R)
  BY <1>1, PeriodTyped
<1> HIDE DEF x, q
<1>6. CASE UNCHANGED <<dirty, asked>>
  BY <1>3, <1>6
<1>7. CASE /\ dirty' = Append(dirty, q) \/ dirty' = dirty
           /\ asked' = [asked EXCEPT ![x] = @ + 1]
  <2>1. SumFunctionOnSet(asked', R) = SumFunctionOnSet(asked, R) + (IF x \in R THEN 1 ELSE 0)
    BY <1>1, <1>2, <1>7, GrantRises
  <2>2. CountIn(Append(dirty, q), A) = CountIn(dirty, A) + (IF q \in A THEN 1 ELSE 0)
    BY <1>2, <1>5, CountAppended
  <2>3. /\ CountIn(dirty', A) =< CountIn(dirty, A) + (IF q \in A THEN 1 ELSE 0)
        /\ CountIn(dirty', A) \in Nat
    <3>1. CASE dirty' = Append(dirty, q)
      BY <1>3, <2>2, <3>1
    <3>2. CASE dirty' = dirty
      BY <1>3, <3>2
    <3> QED
      BY <1>7, <3>1, <3>2
  <2> QED
    BY <1>3, <1>5, <2>1, <2>3
<1> QED
  BY <1>4, <1>6, <1>7

-----------------------------------------------------------------------------
(* The load: what is in a row, and what is on the way to it. *)

DayLoad(e, d)    == aggDay[d][e] + (IF DayOf[e] = d THEN OnTheWayToDay(e) ELSE 0)
MonthLoad(e, m)  == aggMonth[m][e] + (IF MonthOf[e] = m THEN OnTheWayToMonth(e) ELSE 0)
DayTaken(e, d)   == IF DayOf[e] = d THEN accepted[e] ELSE 0
MonthTaken(e, m) == IF MonthOf[e] = m THEN accepted[e] ELSE 0

LEMMA LoadTyped ==
    ASSUME UsecaseOK, NEW e \in Events, NEW d \in Days, NEW m \in Months
    PROVE  /\ aggDay[d][e] \in Nat /\ aggMonth[m][e] \in Nat
           /\ OnTheWayToDay(e) \in Nat /\ OnTheWayToMonth(e) \in Nat
           /\ DayLoad(e, d) \in Nat /\ MonthLoad(e, m) \in Nat
           /\ DayTaken(e, d) \in Nat /\ MonthTaken(e, m) \in Nat
<1>1. aggDay \in [Days -> [Events -> Nat]] /\ aggMonth \in [Months -> [Events -> Nat]]
  BY DEF UsecaseOK, AggregateTypeOK
<1>2. aggDay[d][e] \in Nat /\ aggMonth[m][e] \in Nat
  BY <1>1
<1>3. OnTheWayToDay(e) \in Nat /\ OnTheWayToMonth(e) \in Nat /\ accepted[e] \in Nat
  BY HeldTyped DEF OnTheWayToDay, OnTheWayToMonth
<1> QED
  BY <1>2, <1>3 DEF DayLoad, MonthLoad, DayTaken, MonthTaken

\* What comes of a flush's statement, in whatever row: no more is there and
\* on the way than before.
LEMMA CellLightens ==
    ASSUME NEW B, NEW table \in [B -> [Events -> Nat]], NEW rowOf,
           NEW copy \in [Events -> Nat], NEW cell \in CellsOf(copy, rowOf), NEW outcome,
           NEW rest \in {Without(copy, rowOf, cell), None}, NEW e \in Events, NEW b \in B
    PROVE  Upserted(table, cell[1], InCell(copy, rowOf, cell), outcome)[b][e]
               + (IF rowOf[e] = b THEN rest[e] ELSE 0)
               =< table[b][e] + (IF rowOf[e] = b THEN copy[e] ELSE 0)
<1> DEFINE part == InCell(copy, rowOf, cell)
<1>1. PICK x \in Events : cell = <<rowOf[x], TypeOf[x]>>
  BY DEF CellsOf
<1>2. part \in [Events -> Nat] /\ copy[e] \in Nat /\ table[b][e] \in Nat
  BY CellsTyped
<1>3. Upserted(table, cell[1], part, "ok")[b][e] = table[b][e] + (IF b = cell[1] THEN part[e] ELSE 0)
  BY <1>2, UpsertAt
<1>4. \/ outcome = "refused" /\ Upserted(table, cell[1], part, outcome) = table
      \/ Upserted(table, cell[1], part, outcome) = Upserted(table, cell[1], part, "ok")
  BY DEF Upserted
<1>5. \/ rowOf[e] = cell[1] /\ part[e] = copy[e] /\ rest[e] = 0
      \/ part[e] = 0 /\ rest[e] \in {0, copy[e]}
  BY <1>1 DEF InCell, Without, None
<1> HIDE DEF part
<1>6. Upserted(table, cell[1], part, outcome)[b][e] + (IF rowOf[e] = b THEN rest[e] ELSE 0)
          =< table[b][e] + (IF rowOf[e] = b THEN copy[e] ELSE 0)
  BY <1>2, <1>3, <1>4, <1>5
<1> QED
  BY <1>6 DEF part

\* A flush, whatever its statement comes to, adds nothing to a load.
LEMMA FlushLightens ==
    ASSUME UsecaseOK, Places, NEW f \in Flushers, FlushDay(f) \/ FlushMonth(f),
           NEW e \in Events, NEW d \in Days, NEW m \in Months
    PROVE  /\ DayLoad(e, d)' =< DayLoad(e, d) /\ MonthLoad(e, m)' =< MonthLoad(e, m)
           /\ UNCHANGED accepted
<1>1. /\ dayCopy \in [Flushers -> [Events -> Nat]] /\ monthCopy \in [Flushers -> [Events -> Nat]]
      /\ aggDay \in [Days -> [Events -> Nat]] /\ aggMonth \in [Months -> [Events -> Nat]]
      /\ Flushers = {"P", "S"} /\ None[e] = 0 /\ None \in [Events -> Nat]
  BY EmptyThings DEF UsecaseOK, AggregateTypeOK, Flushers, None
<1>2. /\ dayBuffer[e] \in Nat /\ monthBuffer[e] \in Nat /\ InHand(e) \in Nat
      /\ \A g \in Flushers : dayCopy[g][e] \in Nat /\ monthCopy[g][e] \in Nat
      /\ aggDay[d][e] \in Nat /\ aggMonth[m][e] \in Nat
  BY <1>1, HeldTyped
<1>3. /\ UNCHANGED <<dayBuffer, monthBuffer, accepted>>
      /\ InHand(e)' = InHand(e)
  <2>1. /\ fpc[f] \in {"day", "month"} /\ UNCHANGED <<taken, dayBuffer, monthBuffer, accepted>>
        /\ UNCHANGED ppc \/ AfterFlush(f)
    BY DEF FlushDay, FlushMonth, AbandonFlush
  <2> QED
    BY <2>1, FlushKeepsInHand
<1>4. ASSUME NEW D \in [Events -> Nat], NEW M \in [Events -> Nat],
             dayCopy' = [dayCopy EXCEPT ![f] = D], monthCopy' = [monthCopy EXCEPT ![f] = M],
             aggDay'[d][e] \in Nat, aggMonth'[m][e] \in Nat,
             aggDay'[d][e] + (IF DayOf[e] = d THEN D[e] ELSE 0)
                 =< aggDay[d][e] + (IF DayOf[e] = d THEN dayCopy[f][e] ELSE 0),
             aggMonth'[m][e] + (IF MonthOf[e] = m THEN M[e] ELSE 0)
                 =< aggMonth[m][e] + (IF MonthOf[e] = m THEN monthCopy[f][e] ELSE 0)
      PROVE  DayLoad(e, d)' =< DayLoad(e, d) /\ MonthLoad(e, m)' =< MonthLoad(e, m)
  <2>1. /\ \A g \in Flushers : g # f => dayCopy'[g] = dayCopy[g] /\ monthCopy'[g] = monthCopy[g]
        /\ dayCopy'[f][e] = D[e] /\ monthCopy'[f][e] = M[e] /\ D[e] \in Nat /\ M[e] \in Nat
    BY <1>1, <1>4
  <2>2. CASE f = "P"
    <3>1. dayCopy'["S"] = dayCopy["S"] /\ monthCopy'["S"] = monthCopy["S"]
      BY <1>1, <2>1, <2>2
    <3>2. DayLoad(e, d)' =< DayLoad(e, d)
      BY <1>1, <1>2, <1>3, <1>4, <2>1, <2>2, <3>1 DEF DayLoad, OnTheWayToDay
    <3>3. MonthLoad(e, m)' =< MonthLoad(e, m)
      BY <1>1, <1>2, <1>3, <1>4, <2>1, <2>2, <3>1 DEF MonthLoad, OnTheWayToMonth
    <3> QED
      BY <3>2, <3>3
  <2>3. CASE f = "S"
    <3>1. dayCopy'["P"] = dayCopy["P"] /\ monthCopy'["P"] = monthCopy["P"]
      BY <1>1, <2>1, <2>3
    <3>2. DayLoad(e, d)' =< DayLoad(e, d)
      BY <1>1, <1>2, <1>3, <1>4, <2>1, <2>3, <3>1 DEF DayLoad, OnTheWayToDay
    <3>3. MonthLoad(e, m)' =< MonthLoad(e, m)
      BY <1>1, <1>2, <1>3, <1>4, <2>1, <2>3, <3>1 DEF MonthLoad, OnTheWayToMonth
    <3> QED
      BY <3>2, <3>3
  <2> QED
    BY <1>1, <2>2, <2>3
<1>5. CASE FlushDay(f)
  <2>1. PICK cell \in CellsOf(dayCopy[f], DayOf), outcome \in Outcomes :
          /\ aggDay' = Upserted(aggDay, cell[1], InCell(dayCopy[f], DayOf, cell), outcome)
          /\ IF outcome # "ok" THEN AbandonFlush(f)
             ELSE /\ dayCopy' = [dayCopy EXCEPT ![f] = Without(@, DayOf, cell)]
                  /\ UNCHANGED monthCopy
    BY <1>5 DEF FlushDay
  <2>2. PICK D \in {Without(dayCopy[f], DayOf, cell), None} :
          dayCopy' = [dayCopy EXCEPT ![f] = D]
    BY <2>1 DEF AbandonFlush
  <2>3. PICK M \in {monthCopy[f], None} : monthCopy' = [monthCopy EXCEPT ![f] = M]
    BY <1>1, <2>1 DEF AbandonFlush
  <2>4. D \in [Events -> Nat] /\ M \in [Events -> Nat] /\ M[e] =< monthCopy[f][e]
    BY <1>1, <1>2, CellsTyped
  <2>5. aggDay'[d][e] + (IF DayOf[e] = d THEN D[e] ELSE 0)
            =< aggDay[d][e] + (IF DayOf[e] = d THEN dayCopy[f][e] ELSE 0)
    <3>1. dayCopy[f] \in [Events -> Nat] /\ aggDay \in [Days -> [Events -> Nat]]
      BY <1>1
    <3>2. Upserted(aggDay, cell[1], InCell(dayCopy[f], DayOf, cell), outcome)[d][e]
              + (IF DayOf[e] = d THEN D[e] ELSE 0)
              =< aggDay[d][e] + (IF DayOf[e] = d THEN dayCopy[f][e] ELSE 0)
      BY <3>1, CellLightens, ZenonT(30)
    <3> QED
      BY <2>1, <3>2
  <2>6. aggDay' \in [Days -> [Events -> Nat]]
    BY <1>1, <2>1, CellsTyped, UpsertedTyped
  <2>7. aggDay'[d][e] \in Nat /\ aggMonth'[m][e] = aggMonth[m][e]
    BY <1>5, <2>6 DEF FlushDay
  <2>8. aggMonth'[m][e] + (IF MonthOf[e] = m THEN M[e] ELSE 0)
            =< aggMonth[m][e] + (IF MonthOf[e] = m THEN monthCopy[f][e] ELSE 0)
    BY <1>2, <2>4, <2>7
  <2> QED
    BY <1>2, <1>3, <1>4, <2>2, <2>3, <2>4, <2>5, <2>7, <2>8
<1>6. CASE FlushMonth(f)
  <2>1. PICK cell \in CellsOf(monthCopy[f], MonthOf), outcome \in Outcomes :
          /\ aggMonth' = Upserted(aggMonth, cell[1], InCell(monthCopy[f], MonthOf, cell), outcome)
          /\ IF outcome # "ok" THEN AbandonFlush(f)
             ELSE /\ monthCopy' = [monthCopy EXCEPT ![f] = Without(@, MonthOf, cell)]
                  /\ UNCHANGED dayCopy
    BY <1>6 DEF FlushMonth
  <2>2. PICK M \in {Without(monthCopy[f], MonthOf, cell), None} :
          monthCopy' = [monthCopy EXCEPT ![f] = M]
    BY <2>1 DEF AbandonFlush
  <2>3. PICK D \in {dayCopy[f], None} : dayCopy' = [dayCopy EXCEPT ![f] = D]
    BY <1>1, <2>1 DEF AbandonFlush
  <2>4. D \in [Events -> Nat] /\ M \in [Events -> Nat] /\ D[e] =< dayCopy[f][e]
    BY <1>1, <1>2, CellsTyped
  <2>5. aggMonth'[m][e] + (IF MonthOf[e] = m THEN M[e] ELSE 0)
            =< aggMonth[m][e] + (IF MonthOf[e] = m THEN monthCopy[f][e] ELSE 0)
    <3>1. monthCopy[f] \in [Events -> Nat] /\ aggMonth \in [Months -> [Events -> Nat]]
      BY <1>1
    <3>2. Upserted(aggMonth, cell[1], InCell(monthCopy[f], MonthOf, cell), outcome)[m][e]
              + (IF MonthOf[e] = m THEN M[e] ELSE 0)
              =< aggMonth[m][e] + (IF MonthOf[e] = m THEN monthCopy[f][e] ELSE 0)
      BY <3>1, CellLightens, ZenonT(30)
    <3> QED
      BY <2>1, <3>2
  <2>6. aggMonth' \in [Months -> [Events -> Nat]]
    BY <1>1, <2>1, CellsTyped, UpsertedTyped
  <2>7. aggMonth'[m][e] \in Nat /\ aggDay'[d][e] = aggDay[d][e]
    BY <1>6, <2>6 DEF FlushMonth
  <2>8. aggDay'[d][e] + (IF DayOf[e] = d THEN D[e] ELSE 0)
            =< aggDay[d][e] + (IF DayOf[e] = d THEN dayCopy[f][e] ELSE 0)
    BY <1>2, <2>4, <2>7
  <2> QED
    BY <1>2, <1>3, <1>4, <2>2, <2>3, <2>4, <2>5, <2>7, <2>8
<1> QED
  BY <1>3, <1>5, <1>6

-----------------------------------------------------------------------------
(* The claims of the recomputation under way, and how they are spent. *)

DayPending(e, d) ==
    IF /\ period \in DayAskers(e, d)
       /\ rpc = "readDay" \/ (rpc = "upsertDay" /\ e \in snap)
      THEN 1 ELSE 0
MonthPending(e, m) ==
    IF /\ period \in MonthAskers(e, m)
       /\ \/ rpc \in {"readDay", "upsertDay", "readMonth"}
          \/ rpc = "upsertMonth" /\ e \in snap
      THEN 1 ELSE 0

Spent(e, row, bucket, t) ==
    IF row = bucket /\ e \in snap /\ e \notin OtherTypes(snap, t) THEN 1 ELSE 0

\* A recomputation's statement for one type, whatever it comes to, adds to a
\* row what was pending of it.
LEMMA TotalSpends ==
    ASSUME NEW B, NEW table \in [B -> [Events -> Nat]], NEW bucket, NEW t, NEW outcome,
           NEW e \in Events, NEW b \in B
    PROVE  Upserted(table, bucket, TotalOf(snap, t), outcome)[b][e] \in
               {table[b][e], table[b][e] + Spent(e, b, bucket, t)}
<1> DEFINE part == TotalOf(snap, t)
<1>1. part \in [Events -> Nat] /\ table[b][e] \in Nat
  BY TotalTyped
<1>2. Upserted(table, bucket, part, "ok")[b][e] = table[b][e] + (IF b = bucket THEN part[e] ELSE 0)
  BY <1>1, UpsertAt
<1>3. \/ Upserted(table, bucket, part, outcome) = table
      \/ Upserted(table, bucket, part, outcome) = Upserted(table, bucket, part, "ok")
  BY DEF Upserted
<1>4. part[e] = 0 \/ (part[e] = 1 /\ e \in snap /\ e \notin OtherTypes(snap, t))
  BY DEF TotalOf, OtherTypes
<1> HIDE DEF part
<1>5. Upserted(table, bucket, part, outcome)[b][e] \in
          {table[b][e], table[b][e] + Spent(e, b, bucket, t)}
  BY <1>1, <1>2, <1>3, <1>4 DEF Spent
<1> QED
  BY <1>5 DEF part

\* While the reconciler works its period is a period.
LEMMA PeriodHeld ==
    ASSUME Origins, rpc \notin {"idle", "done"}
    PROVE  period \in Periods
<1>1. PICK l \in Events : period = PeriodOf(StartedAt[l], Zone[l])
  BY DEF Origins, Origin
<1> QED
  BY <1>1, PeriodTyped

LEMMA RecomputeSpends ==
    ASSUME UsecaseOK, Places, Origins, Reconcile, ~ TakeDirty,
           NEW e \in Events, NEW d \in Days, NEW m \in Months
    PROVE  /\ aggDay'[d][e] + DayPending(e, d)' =< aggDay[d][e] + DayPending(e, d)
           /\ aggMonth'[m][e] + MonthPending(e, m)' =< aggMonth[m][e] + MonthPending(e, m)
           /\ UNCHANGED dirty
<1> DEFINE A == DayAskers(e, d)
           M == MonthAskers(e, m)
<1>1. /\ aggDay \in [Days -> [Events -> Nat]] /\ aggMonth \in [Months -> [Events -> Nat]]
      /\ snap \subseteq Events
  BY DEF UsecaseOK, AggregateTypeOK
<1>2. aggDay[d][e] \in Nat /\ aggMonth[m][e] \in Nat
  BY <1>1
<1>3. CASE StopReconciling
  <2>1. UNCHANGED <<aggDay, aggMonth, dirty>> /\ rpc' = "done"
    BY <1>3 DEF StopReconciling, tableVars
  <2>2. DayPending(e, d)' = 0 /\ MonthPending(e, m)' = 0
    BY <2>1 DEF DayPending, MonthPending
  <2>3. DayPending(e, d) \in Nat /\ MonthPending(e, m) \in Nat
    BY DEF DayPending, MonthPending
  <2> QED
    BY <1>2, <2>1, <2>2, <2>3
<1>4. CASE ReadDay
  <2>1. /\ UNCHANGED <<aggDay, aggMonth, dirty, period>> /\ rpc = "readDay"
        /\ rpc' \in {"readMonth", "upsertDay"}
    BY <1>4 DEF ReadDay, AfterDay
  <2>2. /\ DayPending(e, d) = IF period \in A THEN 1 ELSE 0
        /\ MonthPending(e, m) = IF period \in M THEN 1 ELSE 0
    BY <2>1 DEF DayPending, MonthPending
  <2>3. /\ DayPending(e, d)' \in {0, IF period \in A THEN 1 ELSE 0}
        /\ MonthPending(e, m)' = IF period \in M THEN 1 ELSE 0
    BY <2>1 DEF DayPending, MonthPending, DayAskers, MonthAskers
  <2> HIDE DEF A, M
  <2> QED
    BY <1>2, <2>1, <2>2, <2>3
<1>5. CASE ReadMonth
  <2>1. /\ UNCHANGED <<aggDay, aggMonth, dirty>> /\ rpc = "readMonth"
        /\ rpc' = "idle" \/ (rpc' = "upsertMonth" /\ UNCHANGED period)
    BY <1>5 DEF ReadMonth, AfterMonth
  <2>2. /\ DayPending(e, d) = 0 /\ MonthPending(e, m) = IF period \in M THEN 1 ELSE 0
    BY <2>1 DEF DayPending, MonthPending
  <2>3. DayPending(e, d)' = 0 /\ MonthPending(e, m)' \in {0, IF period \in M THEN 1 ELSE 0}
    BY <2>1 DEF DayPending, MonthPending, MonthAskers
  <2> HIDE DEF M
  <2> QED
    BY <1>2, <2>1, <2>2, <2>3
<1>6. CASE ReconcileDay
  <2>1. PICK t, outcome :
          /\ aggDay' = Upserted(aggDay, PeriodDay(period), TotalOf(snap, t), outcome)
          /\ \/ rpc' = "readMonth"
             \/ rpc' = "upsertDay" /\ snap' = OtherTypes(snap, t)
    BY <1>6 DEF ReconcileDay, AfterDay
  <2>2. /\ UNCHANGED <<aggMonth, dirty, period>> /\ rpc = "upsertDay"
    BY <1>6 DEF ReconcileDay, AfterDay
  <2>3. e \in snap /\ d = PeriodDay(period) => period \in A
    BY <2>2, PeriodHeld DEF Places, DayAskers
  <2>4. /\ DayPending(e, d) = IF period \in A /\ e \in snap THEN 1 ELSE 0
        /\ MonthPending(e, m) = IF period \in M THEN 1 ELSE 0
    BY <2>2 DEF DayPending, MonthPending
  <2>5. /\ DayPending(e, d)' \in {0, IF period \in A /\ e \in OtherTypes(snap, t) THEN 1 ELSE 0}
        /\ MonthPending(e, m)' = IF period \in M THEN 1 ELSE 0
    BY <2>1, <2>2 DEF DayPending, MonthPending, DayAskers, MonthAskers
  <2>6. \/ aggDay'[d][e] = aggDay[d][e]
        \/ /\ d = PeriodDay(period) /\ e \in snap /\ e \notin OtherTypes(snap, t)
           /\ aggDay'[d][e] = aggDay[d][e] + 1
    <3>1. aggDay \in [Days -> [Events -> Nat]]
      BY <1>1
    <3>2. Upserted(aggDay, PeriodDay(period), TotalOf(snap, t), outcome)[d][e] \in
              {aggDay[d][e], aggDay[d][e] + Spent(e, d, PeriodDay(period), t)}
      BY <3>1, TotalSpends, Zenon
    <3> QED
      BY <1>2, <2>1, <3>2 DEF Spent
  <2>7. OtherTypes(snap, t) \subseteq snap
    BY DEF OtherTypes
  <2> HIDE DEF A, M
  <2> QED
    BY <1>2, <2>2, <2>3, <2>4, <2>5, <2>6, <2>7
<1>7. CASE ReconcileMonth
  <2>1. PICK t, outcome :
          /\ aggMonth' = Upserted(aggMonth, PeriodMonth(period), TotalOf(snap, t), outcome)
          /\ \/ rpc' = "idle"
             \/ rpc' = "upsertMonth" /\ snap' = OtherTypes(snap, t) /\ UNCHANGED period
    BY <1>7 DEF ReconcileMonth, AfterMonth
  <2>2. /\ UNCHANGED <<aggDay, dirty>> /\ rpc = "upsertMonth"
    BY <1>7 DEF ReconcileMonth
  <2>3. e \in snap /\ m = PeriodMonth(period) => period \in M
    BY <2>2, PeriodHeld DEF Places, MonthAskers
  <2>4. /\ MonthPending(e, m) = IF period \in M /\ e \in snap THEN 1 ELSE 0
        /\ DayPending(e, d) = 0
    BY <2>2 DEF DayPending, MonthPending
  <2>5. /\ MonthPending(e, m)'
              \in {0, IF period \in M /\ e \in OtherTypes(snap, t) THEN 1 ELSE 0}
        /\ DayPending(e, d)' = 0
    BY <2>1, <2>2 DEF DayPending, MonthPending, DayAskers, MonthAskers
  <2>6. \/ aggMonth'[m][e] = aggMonth[m][e]
        \/ /\ m = PeriodMonth(period) /\ e \in snap /\ e \notin OtherTypes(snap, t)
           /\ aggMonth'[m][e] = aggMonth[m][e] + 1
    <3>1. aggMonth \in [Months -> [Events -> Nat]]
      BY <1>1
    <3>2. Upserted(aggMonth, PeriodMonth(period), TotalOf(snap, t), outcome)[m][e] \in
              {aggMonth[m][e], aggMonth[m][e] + Spent(e, m, PeriodMonth(period), t)}
      BY <3>1, TotalSpends, Zenon
    <3> QED
      BY <1>2, <2>1, <3>2 DEF Spent
  <2>7. OtherTypes(snap, t) \subseteq snap
    BY DEF OtherTypes
  <2> HIDE DEF M
  <2> QED
    BY <1>2, <2>2, <2>3, <2>4, <2>5, <2>6, <2>7
<1> QED
  BY <1>3, <1>4, <1>5, <1>6, <1>7 DEF Reconcile

-----------------------------------------------------------------------------
(* The invariant, and the theorem. *)

DayClaims(e, d)   == DayPending(e, d) + CountIn(dirty, DayAskers(e, d))
MonthClaims(e, m) == MonthPending(e, m) + CountIn(dirty, MonthAskers(e, m))
DayBound(e, d)    == DayTaken(e, d) + SumFunctionOnSet(asked, DayRecounters(e, d))
MonthBound(e, m)  == MonthTaken(e, m) + SumFunctionOnSet(asked, MonthRecounters(e, m))

\* What is in a row of an event, on the way to it and still claimed by
\* recomputations was taken in or marked for one of them.
ClaimsBounded ==
    /\ \A e \in Events : \A d \in Days   : DayLoad(e, d) + DayClaims(e, d) =< DayBound(e, d)
    /\ \A e \in Events : \A m \in Months : MonthLoad(e, m) + MonthClaims(e, m) =< MonthBound(e, m)

LEMMA ClaimsTyped ==
    ASSUME UsecaseOK, NEW e \in Events, NEW row
    PROVE  /\ DayPending(e, row) \in Nat /\ CountIn(dirty, DayAskers(e, row)) \in Nat
           /\ MonthPending(e, row) \in Nat /\ CountIn(dirty, MonthAskers(e, row)) \in Nat
           /\ SumFunctionOnSet(asked, DayRecounters(e, row)) \in Nat
           /\ SumFunctionOnSet(asked, MonthRecounters(e, row)) \in Nat
<1>1. dirty \in Seq(Periods) /\ asked \in [Events -> Nat]
  BY DEF UsecaseOK, AggregateTypeOK
<1>2. CountIn(dirty, DayAskers(e, row)) \in Nat /\ CountIn(dirty, MonthAskers(e, row)) \in Nat
  BY <1>1, CountedNat
<1>3. DayRecounters(e, row) \subseteq Events /\ MonthRecounters(e, row) \subseteq Events
  BY DEF DayRecounters, MonthRecounters
<1>4. ASSUME NEW R \in SUBSET Events PROVE SumFunctionOnSet(asked, R) \in Nat
  <2>1. IsFiniteSet(R) /\ \A y \in R : asked[y] \in Nat
    BY <1>1, EventsAssumption, FS_Subset
  <2> QED
    BY <2>1, SumNat
<1> QED
  BY <1>2, <1>3, <1>4 DEF DayPending, MonthPending

\* All these numbers, before a step and after it.
RowNumbers ==
    \A e \in Events : \A d \in Days : \A m \in Months :
        /\ aggDay[d][e] \in Nat /\ aggMonth[m][e] \in Nat
        /\ OnTheWayToDay(e) \in Nat /\ OnTheWayToMonth(e) \in Nat /\ accepted[e] \in Nat
        /\ DayLoad(e, d) \in Nat /\ MonthLoad(e, m) \in Nat
        /\ DayTaken(e, d) \in Nat /\ MonthTaken(e, m) \in Nat
        /\ DayPending(e, d) \in Nat /\ CountIn(dirty, DayAskers(e, d)) \in Nat
        /\ MonthPending(e, m) \in Nat /\ CountIn(dirty, MonthAskers(e, m)) \in Nat
        /\ SumFunctionOnSet(asked, DayRecounters(e, d)) \in Nat
        /\ SumFunctionOnSet(asked, MonthRecounters(e, m)) \in Nat

LEMMA RowsNumbered == UsecaseOK => RowNumbers
<1> SUFFICES ASSUME UsecaseOK, NEW e \in Events, NEW d \in Days, NEW m \in Months
             PROVE  /\ aggDay[d][e] \in Nat /\ aggMonth[m][e] \in Nat
                    /\ OnTheWayToDay(e) \in Nat /\ OnTheWayToMonth(e) \in Nat
                    /\ accepted[e] \in Nat
                    /\ DayLoad(e, d) \in Nat /\ MonthLoad(e, m) \in Nat
                    /\ DayTaken(e, d) \in Nat /\ MonthTaken(e, m) \in Nat
                    /\ DayPending(e, d) \in Nat /\ CountIn(dirty, DayAskers(e, d)) \in Nat
                    /\ MonthPending(e, m) \in Nat /\ CountIn(dirty, MonthAskers(e, m)) \in Nat
                    /\ SumFunctionOnSet(asked, DayRecounters(e, d)) \in Nat
                    /\ SumFunctionOnSet(asked, MonthRecounters(e, m)) \in Nat
  BY DEF RowNumbers
<1>1. accepted[e] \in Nat
  BY HeldTyped
<1> QED
  BY <1>1, LoadTyped, ClaimsTyped

LEMMA RowsNumberedAfter == UsecaseOK' => RowNumbers'
BY RowsNumbered, PTL

\* A step that takes nothing in and recomputes nothing adds to no load.
LEMMA OthersLighten ==
    ASSUME UsecaseOK, UsecaseOK', Places, UsecaseStep, ~ ProcessEvent, ~ Reconcile,
           NEW e \in Events, NEW d \in Days, NEW m \in Months
    PROVE  /\ DayLoad(e, d)' =< DayLoad(e, d) /\ MonthLoad(e, m)' =< MonthLoad(e, m)
           /\ UNCHANGED accepted
<1>1. /\ DayLoad(e, d) \in Nat /\ MonthLoad(e, m) \in Nat
      /\ OnTheWayToDay(e) \in Nat /\ OnTheWayToMonth(e) \in Nat /\ accepted[e] \in Nat
      /\ OnTheWayToDay(e)' \in Nat /\ OnTheWayToMonth(e)' \in Nat
      /\ aggDay[DayOf[e]][e] \in Nat /\ aggMonth[MonthOf[e]][e] \in Nat
      /\ aggDay[d][e] \in Nat /\ aggMonth[m][e] \in Nat
  BY RowsNumbered, RowsNumberedAfter, HeldTyped DEF RowNumbers
<1>2. ASSUME UNCHANGED <<aggDay, aggMonth, accepted>>, Balanced(e)
      PROVE  DayLoad(e, d)' =< DayLoad(e, d) /\ MonthLoad(e, m)' =< MonthLoad(e, m)
  <2>1. /\ DayHeld(e)' - accepted[e] = DayHeld(e) - accepted[e]
        /\ MonthHeld(e)' - accepted[e] = MonthHeld(e) - accepted[e]
    BY <1>2 DEF Balanced
  <2>2. /\ DayHeld(e)' = OnTheWayToDay(e)' + aggDay[DayOf[e]][e]
        /\ MonthHeld(e)' = OnTheWayToMonth(e)' + aggMonth[MonthOf[e]][e]
    BY <1>2 DEF DayHeld, MonthHeld
  <2>3. OnTheWayToDay(e)' = OnTheWayToDay(e) /\ OnTheWayToMonth(e)' = OnTheWayToMonth(e)
    BY <1>1, <2>1, <2>2 DEF DayHeld, MonthHeld
  <2> QED
    BY <1>1, <1>2, <2>3 DEF DayLoad, MonthLoad
<1>3. "P" \in Flushers /\ "S" \in Flushers
  BY DEF Flushers
<1>4. CASE \E f \in Flushers : FlushDay(f) \/ FlushMonth(f)
  BY <1>4, FlushLightens
<1>5. CASE AddToBuffer
  <2>1. UNCHANGED <<aggDay, aggMonth, accepted>>
    BY <1>5 DEF AddToBuffer, tableVars
  <2> QED
    BY <1>2, <1>5, <2>1, AddingBalances
<1>6. CASE StopProcessing
  <2>1. /\ Swap("P") /\ fpc["P"] = "idle" /\ UNCHANGED <<aggDay, aggMonth, accepted>>
        /\ InHand(e)' = InHand(e)
    BY <1>6 DEF StopProcessing, Places, InHand, tableVars
  <2> QED
    BY <1>2, <1>3, <2>1, SwapBalances
<1>7. CASE FlushTick
  <2>1. /\ Swap("S") /\ fpc["S"] = "idle" /\ UNCHANGED <<aggDay, aggMonth, accepted>>
        /\ InHand(e)' = InHand(e)
    BY <1>7 DEF FlushTick, InHand, tableVars, processVars
  <2> QED
    BY <1>2, <1>3, <2>1, SwapBalances
<1>8. CASE StopFlushing \/ Sweep \/ HourPasses
  <2>1. UNCHANGED <<ppc, taken, dayBuffer, monthBuffer, dayCopy, monthCopy,
                    aggDay, aggMonth, accepted>>
    BY <1>8 DEF StopFlushing, Sweep, Cleanup, StopCleanup, HourPasses, tableVars, processVars,
                bufferVars
  <2>2. Balanced(e)
    BY <2>1, StillBalances DEF InHand
  <2> QED
    BY <1>2, <2>1, <2>2
<1> QED
  BY <1>3, <1>4, <1>5, <1>6, <1>7, <1>8 DEF UsecaseStep, Process, Streaming

LEMMA TakingInLoads ==
    ASSUME UsecaseOK, UsecaseOK', ProcessEvent, NEW e \in Events, NEW d \in Days, NEW m \in Months
    PROVE  /\ DayLoad(e, d)' - DayTaken(e, d)' = DayLoad(e, d) - DayTaken(e, d)
           /\ MonthLoad(e, m)' - MonthTaken(e, m)' = MonthLoad(e, m) - MonthTaken(e, m)
<1>1. /\ OnTheWayToDay(e) \in Nat /\ OnTheWayToMonth(e) \in Nat /\ accepted[e] \in Nat
      /\ OnTheWayToDay(e)' \in Nat /\ OnTheWayToMonth(e)' \in Nat /\ accepted'[e] \in Nat
      /\ aggDay[DayOf[e]][e] \in Nat /\ aggMonth[MonthOf[e]][e] \in Nat
      /\ aggDay[d][e] \in Nat /\ aggMonth[m][e] \in Nat
  BY RowsNumbered, RowsNumberedAfter, HeldTyped DEF RowNumbers
<1>2. UNCHANGED <<aggDay, aggMonth>>
  BY DEF ProcessEvent, tableVars
<1>3. /\ DayHeld(e)' - accepted'[e] = DayHeld(e) - accepted[e]
      /\ MonthHeld(e)' - accepted'[e] = MonthHeld(e) - accepted[e]
  BY TakingInBalances DEF Balanced
<1>4. /\ DayHeld(e)' = OnTheWayToDay(e)' + aggDay[DayOf[e]][e]
      /\ MonthHeld(e)' = OnTheWayToMonth(e)' + aggMonth[MonthOf[e]][e]
  BY <1>2 DEF DayHeld, MonthHeld
<1>5. /\ OnTheWayToDay(e)' - accepted'[e] = OnTheWayToDay(e) - accepted[e]
      /\ OnTheWayToMonth(e)' - accepted'[e] = OnTheWayToMonth(e) - accepted[e]
  BY <1>1, <1>3, <1>4 DEF DayHeld, MonthHeld
<1> QED
  BY <1>1, <1>2, <1>5 DEF DayLoad, DayTaken, MonthLoad, MonthTaken

LEMMA UsecaseKeepsBound ==
    ASSUME UsecaseOK, UsecaseOK', Places, Origins, ClaimsBounded, UsecaseStep
    PROVE  ClaimsBounded'
<1> SUFFICES ASSUME NEW e \in Events, NEW d \in Days, NEW m \in Months
             PROVE  /\ DayLoad(e, d)' + DayClaims(e, d)' =< DayBound(e, d)'
                    /\ MonthLoad(e, m)' + MonthClaims(e, m)' =< MonthBound(e, m)'
  BY Zenon DEF ClaimsBounded, Days, Months
<1>1. RowNumbers /\ RowNumbers'
  BY RowsNumbered, RowsNumberedAfter
<1>2. /\ DayLoad(e, d) + DayClaims(e, d) =< DayBound(e, d)
      /\ MonthLoad(e, m) + MonthClaims(e, m) =< MonthBound(e, m)
  BY DEF ClaimsBounded
<1>3. CASE ProcessEvent
  <2>1. /\ DayLoad(e, d)' - DayTaken(e, d)' = DayLoad(e, d) - DayTaken(e, d)
        /\ MonthLoad(e, m)' - MonthTaken(e, m)' = MonthLoad(e, m) - MonthTaken(e, m)
    BY <1>3, TakingInLoads
  <2>2. DayPending(e, d)' = DayPending(e, d) /\ MonthPending(e, m)' = MonthPending(e, m)
    BY <1>3 DEF ProcessEvent, reconVars, DayPending, MonthPending, DayAskers, MonthAskers
  <2>3. CountIn(dirty', DayAskers(e, d)) + SumFunctionOnSet(asked, DayRecounters(e, d))
            =< CountIn(dirty, DayAskers(e, d)) + SumFunctionOnSet(asked', DayRecounters(e, d))
    <3>1. DayRecounters(e, d) \subseteq Events
      BY DEF DayRecounters
    <3> QED
      BY <1>3, <3>1, AskersRecount, MarkingPays
  <2>4. CountIn(dirty', MonthAskers(e, m)) + SumFunctionOnSet(asked, MonthRecounters(e, m))
            =< CountIn(dirty, MonthAskers(e, m)) + SumFunctionOnSet(asked', MonthRecounters(e, m))
    <3>1. MonthRecounters(e, m) \subseteq Events
      BY DEF MonthRecounters
    <3> QED
      BY <1>3, <3>1, AskersRecount, MarkingPays
  <2>5. /\ DayClaims(e, d)' = DayPending(e, d)' + CountIn(dirty', DayAskers(e, d))
        /\ MonthClaims(e, m)' = MonthPending(e, m)' + CountIn(dirty', MonthAskers(e, m))
        /\ DayBound(e, d)' = DayTaken(e, d)' + SumFunctionOnSet(asked', DayRecounters(e, d))
        /\ MonthBound(e, m)' = MonthTaken(e, m)' + SumFunctionOnSet(asked', MonthRecounters(e, m))
    BY DEF DayClaims, MonthClaims, DayBound, MonthBound, DayRecounters, MonthRecounters,
           DayAskers, MonthAskers
  <2>6. /\ CountIn(dirty', DayAskers(e, d)) \in Nat /\ CountIn(dirty', MonthAskers(e, m)) \in Nat
        /\ SumFunctionOnSet(asked', DayRecounters(e, d)) \in Nat
        /\ SumFunctionOnSet(asked', MonthRecounters(e, m)) \in Nat
    BY <1>1 DEF RowNumbers, DayRecounters, MonthRecounters, DayAskers, MonthAskers
  <2> QED
    BY <1>1, <1>2, <2>1, <2>2, <2>3, <2>4, <2>5, <2>6
    DEF RowNumbers, DayClaims, MonthClaims, DayBound, MonthBound
<1>4. CASE ~ ProcessEvent /\ ~ Reconcile
  <2>1. /\ DayLoad(e, d)' =< DayLoad(e, d) /\ MonthLoad(e, m)' =< MonthLoad(e, m)
        /\ UNCHANGED accepted
    BY <1>4, OthersLighten
  <2>2. UNCHANGED <<rpc, period, snap, dirty, asked>>
    BY <1>4, OthersLeaveReconciler DEF reconVars
  <2>3. /\ DayClaims(e, d)' = DayClaims(e, d) /\ MonthClaims(e, m)' = MonthClaims(e, m)
        /\ DayBound(e, d)' = DayBound(e, d) /\ MonthBound(e, m)' = MonthBound(e, m)
    BY <2>1, <2>2 DEF DayClaims, MonthClaims, DayPending, MonthPending, DayAskers, MonthAskers,
                      DayBound, MonthBound, DayTaken, MonthTaken, DayRecounters, MonthRecounters
  <2>4. /\ DayClaims(e, d) \in Nat /\ MonthClaims(e, m) \in Nat
        /\ DayBound(e, d) \in Nat /\ MonthBound(e, m) \in Nat
    BY <1>1 DEF RowNumbers, DayClaims, MonthClaims, DayBound, MonthBound
  <2> QED
    BY <1>1, <1>2, <2>1, <2>3, <2>4 DEF RowNumbers
<1>5. CASE Reconcile
  <2>1. UNCHANGED <<ppc, taken, bufferVars, accepted, asked>>
    BY <1>5 DEF Reconcile, TakeDirty, ReadDay, ReconcileDay, ReadMonth, ReconcileMonth,
                StopReconciling, reconFrame, processVars
  <2>2. /\ OnTheWayToDay(e)' = OnTheWayToDay(e) /\ OnTheWayToMonth(e)' = OnTheWayToMonth(e)
        /\ DayBound(e, d)' = DayBound(e, d) /\ MonthBound(e, m)' = MonthBound(e, m)
    BY <2>1 DEF bufferVars, OnTheWayToDay, OnTheWayToMonth, InHand, DayBound, MonthBound,
                DayTaken, MonthTaken, DayRecounters, MonthRecounters
  <2>3. /\ DayBound(e, d) \in Nat /\ MonthBound(e, m) \in Nat
    BY <1>1 DEF RowNumbers, DayBound, MonthBound
  <2>4. /\ aggDay'[d][e] + DayClaims(e, d)' =< aggDay[d][e] + DayClaims(e, d)
        /\ aggMonth'[m][e] + MonthClaims(e, m)' =< aggMonth[m][e] + MonthClaims(e, m)
    <3>1. /\ DayClaims(e, d)' = DayPending(e, d)' + CountIn(dirty', DayAskers(e, d))
          /\ MonthClaims(e, m)' = MonthPending(e, m)' + CountIn(dirty', MonthAskers(e, m))
      BY DEF DayClaims, MonthClaims, DayAskers, MonthAskers
    <3>2. CASE TakeDirty
      <4>1. /\ UNCHANGED <<aggDay, aggMonth>> /\ dirty # <<>> /\ dirty' = Tail(dirty)
            /\ rpc = "idle" /\ rpc' = "readDay" /\ period' = Head(dirty)
        BY <3>2 DEF TakeDirty, tableVars
      <4>2. dirty \in Seq(Periods)
        BY DEF UsecaseOK, AggregateTypeOK
      <4>3. /\ DayPending(e, d) = 0 /\ MonthPending(e, m) = 0
            /\ DayPending(e, d)' = IF Head(dirty) \in DayAskers(e, d) THEN 1 ELSE 0
            /\ MonthPending(e, m)' = IF Head(dirty) \in MonthAskers(e, m) THEN 1 ELSE 0
        BY <4>1 DEF DayPending, MonthPending, DayAskers, MonthAskers
      <4>4. /\ CountIn(dirty, DayAskers(e, d))
                  = CountIn(dirty', DayAskers(e, d))
                    + (IF Head(dirty) \in DayAskers(e, d) THEN 1 ELSE 0)
            /\ CountIn(dirty, MonthAskers(e, m))
                  = CountIn(dirty', MonthAskers(e, m))
                    + (IF Head(dirty) \in MonthAskers(e, m) THEN 1 ELSE 0)
        BY <4>1, <4>2, CountTaken
      <4>5. /\ CountIn(dirty', DayAskers(e, d)) \in Nat /\ CountIn(dirty', MonthAskers(e, m)) \in Nat
        BY <1>1 DEF RowNumbers, DayAskers, MonthAskers
      <4>6. /\ aggDay'[d][e] = aggDay[d][e] /\ aggDay[d][e] \in Nat
            /\ aggMonth'[m][e] = aggMonth[m][e] /\ aggMonth[m][e] \in Nat
        BY <1>1, <4>1 DEF RowNumbers
      <4>7. DayClaims(e, d)' = DayClaims(e, d) /\ DayClaims(e, d) \in Nat
        BY <3>1, <4>3, <4>4, <4>5 DEF DayClaims
      <4>8. MonthClaims(e, m)' = MonthClaims(e, m) /\ MonthClaims(e, m) \in Nat
        BY <3>1, <4>3, <4>4, <4>5 DEF MonthClaims
      <4> QED
        BY <4>6, <4>7, <4>8
    <3>3. CASE ~ TakeDirty
      <4>1. /\ aggDay'[d][e] + DayPending(e, d)' =< aggDay[d][e] + DayPending(e, d)
            /\ aggMonth'[m][e] + MonthPending(e, m)' =< aggMonth[m][e] + MonthPending(e, m)
            /\ UNCHANGED dirty
        BY <1>5, <3>3, RecomputeSpends
      <4> QED
        BY <1>1, <3>1, <4>1 DEF RowNumbers, DayClaims, MonthClaims
    <3> QED
      BY <3>2, <3>3
  <2>5. /\ DayClaims(e, d) \in Nat /\ MonthClaims(e, m) \in Nat
        /\ DayClaims(e, d)' \in Nat /\ MonthClaims(e, m)' \in Nat
    BY <1>1 DEF RowNumbers, DayClaims, MonthClaims
  <2>6. /\ DayLoad(e, d)' = aggDay'[d][e] + (IF DayOf[e] = d THEN OnTheWayToDay(e) ELSE 0)
        /\ MonthLoad(e, m)' = aggMonth'[m][e] + (IF MonthOf[e] = m THEN OnTheWayToMonth(e) ELSE 0)
    BY <2>2 DEF DayLoad, MonthLoad
  <2> QED
    BY <1>1, <1>2, <2>2, <2>3, <2>4, <2>5, <2>6 DEF RowNumbers, DayLoad, MonthLoad
<1> QED
  BY <1>3, <1>4, <1>5

\* A step that leaves the usecase and the tables alone keeps the bound.
LEMMA StillBounded ==
    ASSUME ClaimsBounded,
           UNCHANGED <<ppc, taken, dayBuffer, monthBuffer, dayCopy, monthCopy, aggDay, aggMonth,
                       accepted, asked, rpc, period, snap, dirty>>
    PROVE  ClaimsBounded'
BY DEF ClaimsBounded, DayLoad, MonthLoad, OnTheWayToDay, OnTheWayToMonth, InHand,
       DayClaims, MonthClaims, DayPending, MonthPending, DayAskers, MonthAskers,
       DayBound, MonthBound, DayTaken, MonthTaken, DayRecounters, MonthRecounters

LEMMA BoundedInit ==
    ASSUME AggregateInit, UsecaseOK
    PROVE  ClaimsBounded
<1> SUFFICES ASSUME NEW e \in Events, NEW d \in Days, NEW m \in Months
             PROVE  /\ DayLoad(e, d) + DayClaims(e, d) =< DayBound(e, d)
                    /\ MonthLoad(e, m) + MonthClaims(e, m) =< MonthBound(e, m)
  BY Zenon DEF ClaimsBounded, Days, Months
<1>1. /\ InHand(e) = 0 /\ dayBuffer[e] = 0 /\ monthBuffer[e] = 0
      /\ dayCopy["P"][e] = 0 /\ dayCopy["S"][e] = 0
      /\ monthCopy["P"][e] = 0 /\ monthCopy["S"][e] = 0
      /\ aggDay[d][e] = 0 /\ aggMonth[m][e] = 0
  BY DEF AggregateInit, None, InHand, Flushers
<1>2. DayLoad(e, d) = 0 /\ MonthLoad(e, m) = 0
  BY <1>1 DEF DayLoad, MonthLoad, OnTheWayToDay, OnTheWayToMonth
<1>3. DayPending(e, d) = 0 /\ MonthPending(e, m) = 0 /\ dirty = <<>>
  BY DEF AggregateInit, DayPending, MonthPending
<1>4. CountIn(dirty, DayAskers(e, d)) = 0 /\ CountIn(dirty, MonthAskers(e, m)) = 0
  BY <1>3, CountInNone
<1>5. RowNumbers
  BY RowsNumbered
<1>6. DayBound(e, d) \in Nat /\ MonthBound(e, m) \in Nat
  BY <1>5 DEF RowNumbers, DayBound, MonthBound
<1> QED
  BY <1>2, <1>3, <1>4, <1>6 DEF DayClaims, MonthClaims
=============================================================================
