------------------------- MODULE AggregatorService -------------------------
(***************************************************************************)
(* cmd/aggregator/main.go: the aggregator service, that is the consumer    *)
(* (which commits with every CommitMessages) and the four goroutines of    *)
(* the usecase under one context, and the life of its process.  After a    *)
(* signal main cancels the context and sleeps five seconds, whatever the   *)
(* goroutines do meanwhile.  main's errChan is never read with anything in *)
(* it: both goroutines return an error only once the context is cancelled, *)
(* and then main has left its select.                                      *)
(*                                                                         *)
(* The ingestor, another process with a consumer group of its own, stores  *)
(* the same events in events_raw at its own pace.                          *)
(***************************************************************************)
EXTENDS Consumer, AggregateEvents

CONSTANTS MaxStarts, MaxStops   \* bounds: starts, and signals and crashes

ASSUME StartAssumption == MaxStarts \in Nat /\ MaxStops \in Nat

VARIABLES
    up, starts, stops,  \* the process runs; times started, and told to stop
    faultsBefore        \* history: upsertFaults when this life began

lifeVars == <<up, starts, stops, faultsBefore>>
vars == <<consumerVars, channelVars, aggVars, lifeVars>>

Init ==
    /\ ConsumerInit
    /\ AggregateInit
    /\ eventsChan = <<>> /\ closed = FALSE /\ ctx = FALSE
    /\ up = FALSE /\ starts = 0 /\ stops = 0 /\ faultsBefore = 0

\* The buffers, the channel of dirty periods and the memory of processed
\* events begin empty, wherever the consumer group was left.
Start ==
    /\ ~ up
    /\ starts < MaxStarts
    /\ up' = TRUE
    /\ starts' = starts + 1
    /\ faultsBefore' = upsertFaults
    /\ OpenReader
    /\ NewUseCase
    /\ ChannelReset
    /\ UNCHANGED stops

Signal ==
    /\ up
    /\ ~ ctx
    /\ stops < MaxStops
    /\ ctx' = TRUE
    /\ stops' = stops + 1
    /\ UNCHANGED <<consumerVars, aggVars, eventsChan, closed, up, starts, faultsBefore>>

\* A process leaves nothing of its memory behind.
Halt ==
    /\ up' = FALSE
    /\ kpc' = "closed"
    /\ msg' = NoMessage
    /\ ChannelReset
    /\ NewUseCase
    /\ UNCHANGED <<end, committed, stash, position, resume, starts, faultsBefore>>

\* Five seconds after the signal, which is any moment for the goroutines;
\* the deferred Close has nothing stashed to commit.
Exit ==
    /\ up
    /\ ctx
    /\ Halt
    /\ UNCHANGED stops

Crash ==
    /\ up
    /\ stops < MaxStops
    /\ stops' = stops + 1
    /\ Halt

ConsumerStep ==
    /\ up
    /\ ConsumeEvents
    /\ UNCHANGED <<ctx, aggVars, lifeVars>>

OwnFrame == UNCHANGED <<consumerVars, closed, ctx, lifeVars>>

ProcessStep   == up /\ Process     /\ OwnFrame
StreamingStep == up /\ Streaming   /\ OwnFrame
ReconcileStep == up /\ Reconcile   /\ OwnFrame
CleanupStep   == up /\ Cleanup     /\ OwnFrame
SweeperLeaves == up /\ StopCleanup /\ OwnFrame

PublishStep ==
    /\ \E p \in Partitions : Publish(p)
    /\ UNCHANGED <<committed, stash, position, resume, kpc, msg>>
    /\ UNCHANGED <<channelVars, aggVars, lifeVars>>

IngestorStores ==
    /\ \E e \in Parseable \ eventsRaw : eventsRaw' = eventsRaw \cup {e}
    /\ UNCHANGED <<consumerVars, channelVars, lifeVars>>
    /\ UNCHANGED <<processVars, bufferVars, reconVars, tableVars, dirty>>

Next ==
    \/ PublishStep
    \/ IngestorStores
    \/ Start
    \/ Signal
    \/ Exit
    \/ Crash
    \/ ConsumerStep
    \/ ProcessStep
    \/ StreamingStep
    \/ ReconcileStep
    \/ CleanupStep
    \/ SweeperLeaves
    \/ HourPasses /\ OwnFrame

Spec == Init /\ [][Next]_vars

\* The Go scheduler runs every goroutine that can go on.  None on what is
\* outside of the process, on the signal or on the end of the sleep.
Fairness ==
    /\ WF_vars(ConsumerStep)
    /\ WF_vars(ProcessStep)
    /\ WF_vars(StreamingStep)
    /\ WF_vars(ReconcileStep)
    /\ WF_vars(SweeperLeaves)

FairSpec == Spec /\ Fairness

-----------------------------------------------------------------------------
(* Properties. *)

TypeOK ==
    /\ ChannelTypeOK /\ ConsumerTypeOK /\ AggregateTypeOK
    /\ up \in BOOLEAN
    /\ starts \in 0..MaxStarts /\ stops \in 0..MaxStops
    /\ faultsBefore \in 0..upsertFaults

\* What is promised is promised of an id.  isDuplicate looks at the event_id
\* alone, so the usecase takes in one event of an id and drops the others it
\* meets while it remembers the id, those of another source too: where two
\* events share an id, which of them is in the rows is not told here.
SameId(m) == {e \in Events : IdOf[e] = IdOf[EventOf(m)]}

Counted(e) == aggDay[DayOf[e]][e] > 0 /\ aggMonth[MonthOf[e]][e] > 0
Stored(m)  == \E e \in SameId(m) : Counted(e)

Held(e) ==
    \/ ppc = "add" /\ EventOf(taken) = e
    \/ monthBuffer[e] > 0
    \/ \E f \in Flushers : monthCopy[f][e] > 0

InFlight(m) ==
    /\ m \in Fetched(m[1])
    /\ Offered(m) \/ Buffered(m) \/ \E e \in SameId(m) : Held(e)

Healthy == up /\ ~ ctx /\ upsertFaults = faultsBefore

Fate(m) ==
    CASE Stored(m)                  -> "stored"
      [] ~ Stored(m) /\ InFlight(m) -> "inflight"
      [] OTHER -> IF Passed(m, up) THEN "lost" ELSE "waiting"

Countable == {m \in AllMessages : EventOf(m) \in Parseable}

\* The aggregator makes of counting the promise the ingestor makes of
\* storing: while no statement has failed in this life and no signal has
\* come, a message only advances to the rows of its day and month, whatever
\* the memory of ids, the two flushers, the reconciler, a refused commit
\* and the lives before do; and a count, once in the tables, stays.  A
\* recomputation may count an event the service has not fetched.
Promise == INSTANCE MessageFate WITH
               Msgs <- Countable,
               Content <- [m \in Countable |-> IdOf[EventOf(m)]],
               Elsewhere <- {IdOf[e] : e \in Events},
               fate <- [m \in Countable |-> Fate(m)],
               healthy <- Healthy

ImplementsMessageFate == Promise!FateSpec

\* A process that dies forgets which events it counted, and what it had
\* fetched and not committed comes again.  Over crashes, restarts,
\* redeliveries, refused and unanswered statements and refused commits, an
\* event gets into a row at most once in each life (and once more for each
\* hour that its key may be forgotten), plus once for each recomputation
\* that was asked for and reads it, whichever life asked: no retry, no
\* buffer and no period outlives the process to count again.
RecountBounded ==
    \A e \in Events :
        /\ \A d \in Days : aggDay[d][e] =<
               (IF DayOf[e] = d THEN starts + hours ELSE 0)
               + SumFunctionOnSet(asked, DayRecounters(e, d))
        /\ \A m \in Months : aggMonth[m][e] =<
               (IF MonthOf[e] = m THEN starts + hours ELSE 0)
               + SumFunctionOnSet(asked, MonthRecounters(e, m))

\* Every message published while the service runs is counted in its two
\* rows, unless a statement fails, the service is told to stop or dies.
EventuallyCounted ==
    \A p \in Partitions : \A i \in DOMAIN Topic[p] :
        LET m == <<p, i>> IN
        up /\ m \in Published(p) /\ EventOf(m) \in Parseable
            ~> Stored(m) \/ ~ Healthy

\* After a signal the consumer and the four goroutines all return, with the
\* channel full, a flush or a recomputation under way and statements
\* failing: it is not the end of the five seconds that stops them.
ShutdownEnds ==
    up /\ ctx ~> (kpc \in {"closed", "aborted"} /\ GoroutinesEnded) \/ ~ up
=============================================================================
