----------------------------- MODULE Aggregator -----------------------------
(***************************************************************************)
(* cmd/aggregator/main.go: the aggregation usecase closed with what feeds  *)
(* it.  The consumer goroutine delivers each partition in order and closes *)
(* the channel once the context is cancelled (module Consumer has its      *)
(* details); the ingestor, another process, stores the same events in      *)
(* events_raw at its own pace; a signal cancels the context.               *)
(***************************************************************************)
EXTENDS AggregateEvents

VARIABLE sent   \* messages of each partition given to the channel

vars == <<channelVars, aggVars, sent>>

Init ==
    /\ eventsChan = <<>> /\ closed = FALSE /\ ctx = FALSE
    /\ AggregateInit
    /\ sent = [p \in Partitions |-> 0]

Deliver(p) ==
    /\ ~ closed
    /\ sent[p] < Len(Topic[p])
    /\ Offer(<<p, sent[p] + 1>>)
    /\ sent' = [sent EXCEPT ![p] = @ + 1]
    /\ UNCHANGED <<closed, ctx, aggVars>>

CloseChannel ==
    /\ ctx /\ ~ closed
    /\ closed' = TRUE
    /\ UNCHANGED <<eventsChan, ctx, aggVars, sent>>

\* The ingestor stores an event the aggregator may not have seen yet.
IngestorStores ==
    /\ \E e \in Parseable \ eventsRaw : eventsRaw' = eventsRaw \cup {e}
    /\ UNCHANGED <<channelVars, processVars, bufferVars, reconVars, tableVars, dirty, sent>>

Signal ==
    /\ ~ ctx
    /\ ctx' = TRUE
    /\ UNCHANGED <<eventsChan, closed, aggVars, sent>>

ProcessStep   == Process   /\ UNCHANGED <<closed, ctx, sent>>
StreamingStep == Streaming /\ UNCHANGED <<closed, ctx, sent>>
ReconcileStep == Reconcile /\ UNCHANGED <<closed, ctx, sent>>
SweepStep     == Sweep     /\ UNCHANGED <<closed, ctx, sent>>

Next ==
    \/ \E p \in Partitions : Deliver(p)
    \/ CloseChannel
    \/ IngestorStores
    \/ Signal
    \/ ProcessStep
    \/ StreamingStep
    \/ ReconcileStep
    \/ SweepStep
    \/ HourPasses /\ UNCHANGED <<closed, ctx, sent>>

Spec == Init /\ [][Next]_vars

-----------------------------------------------------------------------------
(* Properties. *)

TypeOK ==
    /\ ChannelTypeOK
    /\ AggregateTypeOK
    /\ sent \in [Partitions -> Nat]

NoneAsked(events) == \A l \in events : asked[l] = 0

\* While no statement has failed and no signal has come, an event taken in
\* is counted: it is in hand, buffered, in a flusher's copy or in its row,
\* as many times as it was taken in, and never in two of these places for
\* one, whatever the two flushers do.  Where a late event has asked for a
\* recomputation the row may hold more, never less.
CountsAccounted ==
    upsertFaults = 0 /\ ~ ctx =>
        \A e \in Events :
            LET day == OnTheWayToDay(e) + aggDay[DayOf[e]][e]
                month == OnTheWayToMonth(e) + aggMonth[MonthOf[e]][e]
            IN  /\ day >= accepted[e] /\ month >= accepted[e]
                /\ NoneAsked(DayRecounters(e, DayOf[e])) => day = accepted[e]
                /\ NoneAsked(MonthRecounters(e, MonthOf[e])) => month = accepted[e]

\* Nothing but a recomputation counts an event twice: not a failed or an
\* unanswered statement, not the overlap of the two flushers, not a signal.
\* A row holds an event at most as often as it was taken in, plus once for
\* each recomputation asked for whose range covers it.
OvercountBounded ==
    \A e \in Events :
        /\ \A d \in Days : aggDay[d][e] =<
               (IF DayOf[e] = d THEN accepted[e] - OnTheWayToDay(e) ELSE 0)
               + SumFunctionOnSet(asked, DayRecounters(e, d))
        /\ \A m \in Months : aggMonth[m][e] =<
               (IF MonthOf[e] = m THEN accepted[e] - OnTheWayToMonth(e) ELSE 0)
               + SumFunctionOnSet(asked, MonthRecounters(e, m))

\* A period waiting for its recomputation, or under it, is that of an event
\* taken in and marked late, whatever zones the events come from: the rows
\* it writes are the rows of that event, and the ranges it reads contain
\* it and, but for their last instant, only events of the same zone that
\* belong to those rows, and all of them.
PeriodsFit ==
    \A p \in {dirty[i] : i \in DOMAIN dirty} \cup ({period} \ {NoPeriod}) :
        /\ \E l \in Events :
               /\ asked[l] > 0
               /\ PeriodDay(p) = DayOf[l]     /\ InDay(StartedAt[l], p)
               /\ PeriodMonth(p) = MonthOf[l] /\ InMonth(StartedAt[l], p)
        /\ \A e \in {x \in Events : Zone[x] = p.zone} :
               /\ StartedAt[e] # DayEnd(p)
                      => (InDay(StartedAt[e], p) <=> DayOf[e] = PeriodDay(p))
               /\ StartedAt[e] # MonthEnd(p)
                      => (InMonth(StartedAt[e], p) <=> MonthOf[e] = PeriodMonth(p))

\* A duplicate is counted again only if over an hour lies between.
DuplicatesWithinTheHour == \A e \in Events : accepted[e] =< 1 + hours

-----------------------------------------------------------------------------
(* What the repository says of the service and the code does not do.       *)

\* "For reconciliation we use REPLACE (delete the old, insert the new)"
\* (aggregate_events.go:478): an event taken in once is in its day row at
\* most once, however often its day is recomputed.
CountedOnce == \A e \in Events : aggDay[DayOf[e]][e] =< 1 + hours

\* "Before leaving we flush the buffers" (aggregate_events.go:126): with a
\* database that never fails, once the goroutines have ended every event
\* taken in is in its day row.
FlushedBeforeLeaving ==
    upsertFaults = 0 /\ GoroutinesEnded =>
        \A e \in Events : aggDay[DayOf[e]][e] >= accepted[e]
=============================================================================
