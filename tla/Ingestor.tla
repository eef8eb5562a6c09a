------------------------------ MODULE Ingestor ------------------------------
(***************************************************************************)
(* cmd/ingestor/main.go: the ingestor service, that is the consumer and    *)
(* the worker pool joined by eventsChan under one context, and the life of *)
(* its process: start, shutdown signal, exit with or without its           *)
(* goroutines finished, crash, and start again on the same topic, consumer *)
(* group and table.                                                        *)
(***************************************************************************)
EXTENDS Consumer, IngestWorkers

CONSTANTS MaxStarts, MaxStops   \* bounds: starts, and signals and crashes

ASSUME StartAssumption == MaxStarts \in Nat /\ MaxStops \in Nat

VARIABLES
    up,     \* the process runs
    starts, \* times it has been started
    stops   \* signals and crashes so far

lifeVars == <<up, starts, stops>>
vars == <<consumerVars, workerVars, channelVars, lifeVars>>

Init ==
    /\ ConsumerInit
    /\ WorkersInit
    /\ eventsChan = <<>>
    /\ closed = FALSE
    /\ ctx = FALSE
    /\ up = FALSE
    /\ starts = 0
    /\ stops = 0

Start ==
    /\ ~ up
    /\ starts < MaxStarts
    /\ up' = TRUE
    /\ starts' = starts + 1
    /\ OpenReader
    /\ FreshWorkers
    /\ ChannelReset
    /\ UNCHANGED stops

\* SIGINT or SIGTERM: main cancels the context of both goroutines.
Signal ==
    /\ up
    /\ ~ ctx
    /\ stops < MaxStops
    /\ ctx' = TRUE
    /\ stops' = stops + 1
    /\ UNCHANGED <<consumerVars, workerVars, eventsChan, closed, up, starts>>

\* What a process leaves behind: nothing of its memory.  The position of
\* the dead reader stays as a record and is not read by the next one.
Halt ==
    /\ up' = FALSE
    /\ kpc' = "closed"
    /\ msg' = NoMessage
    /\ ChannelReset
    /\ FreshWorkers
    /\ UNCHANGED <<end, position, resume, starts>>

\* main returns once both goroutines have, or 30 seconds after the signal;
\* its deferred consumer.Close closes a reader that is still open.
GoroutinesDone == kpc \in {"closed", "aborted"} /\ AllReturned

Exit ==
    /\ up
    /\ ctx
    /\ CloseReader(stash)
    /\ stash' = committed'
    /\ Halt
    /\ UNCHANGED stops

ExitClean   == GoroutinesDone /\ Exit
ExitTimeout == ~ GoroutinesDone /\ Exit

Crash ==
    /\ up
    /\ stops < MaxStops
    /\ stops' = stops + 1
    /\ stash' = committed
    /\ UNCHANGED committed
    /\ Halt

ConsumerStep ==
    /\ up
    /\ ConsumeEvents
    /\ UNCHANGED <<ctx, workerVars, lifeVars>>

FlushStep ==
    /\ up
    /\ FlushOffsets
    /\ UNCHANGED <<channelVars, workerVars, lifeVars>>

WorkerStep(w) ==
    /\ up
    /\ Worker(w)
    /\ UNCHANGED <<closed, ctx, consumerVars, lifeVars>>

PublishStep ==
    /\ \E p \in Partitions : Publish(p)
    /\ UNCHANGED <<committed, stash, position, resume, kpc, msg>>
    /\ UNCHANGED <<channelVars, workerVars, lifeVars>>

Next ==
    \/ PublishStep
    \/ Start
    \/ Signal
    \/ ExitClean
    \/ ExitTimeout
    \/ Crash
    \/ ConsumerStep
    \/ FlushStep
    \/ \E w \in Workers : WorkerStep(w)

Spec == Init /\ [][Next]_vars

\* The Go scheduler runs every goroutine that can go on, and a worker's
\* select, whose cases are drawn at random, cannot starve its ticker or
\* its context for ever.
Fairness ==
    /\ WF_vars(ConsumerStep)
    /\ WF_vars(FlushStep)
    /\ \A w \in Workers : WF_vars(WorkerStep(w))

FairSpec == Spec /\ Fairness

-----------------------------------------------------------------------------
(* Properties. *)

TypeOK ==
    /\ ChannelTypeOK
    /\ ConsumerTypeOK
    /\ WorkersTypeOK
    /\ up \in BOOLEAN
    /\ starts \in 0..MaxStarts
    /\ stops \in 0..MaxStops

Ingestible(m) == EventOf(m) \in Parseable \cap Valid
Stored(m)     == EventOf(m) \in rows

\* Where the process holds a message.
Batched(m)   == \E w \in Workers : \E i \in DOMAIN batch[w] : batch[w][i] = m
InFlight(m)  == Offered(m) \/ Buffered(m) \/ Batched(m)

Healthy    == up /\ ~ ctx /\ ~ failed

\* Nothing falls between the goroutines: while no signal has come and no
\* worker has failed, every message fetched that can be stored is in the
\* table, in the channel, in some worker's batch or in the consumer's hand,
\* across every retry and every answer lost after the commit.
NothingDropped ==
    Healthy => \A p \in Partitions : \A m \in Fetched(p) :
                   Ingestible(m) => InFlight(m) \/ Stored(m)

\* An acknowledgement never overtakes the hand-off: a message the channel
\* has not taken yet is beyond every offset given to the reader, so that a
\* crash at that moment brings it back.
AckAfterHandOff ==
    \A p \in Partitions :
        /\ committed[p] =< stash[p]
        /\ stash[p] =< position[p]
        /\ \A m \in Fetched(p) : Offered(m) => stash[p] < m[2]

\* No message is held twice: two workers never save the same delivery, and
\* no retry path puts one back beside its copy.
OneHolder ==
    /\ \A i, j \in DOMAIN eventsChan : eventsChan[i] = eventsChan[j] => i = j
    /\ \A v, w \in Workers : \A i \in DOMAIN batch[v] : \A j \in DOMAIN batch[w] :
           batch[v][i] = batch[w][j] => v = w /\ i = j
    /\ \A i \in DOMAIN eventsChan : ~ Batched(eventsChan[i]) /\ ~ Offered(eventsChan[i])
    /\ kpc = "send" => ~ Batched(msg)

\* What a crash of a healthy process can lose is bounded: the messages
\* acknowledged and not stored are at most the channel's capacity and one
\* batch per worker.
Exposed == {m \in UNION {Fetched(p) : p \in Partitions} :
                m[2] =< stash[m[1]] /\ Ingestible(m) /\ ~ Stored(m)}

ExposureBounded ==
    Healthy => Cardinality(Exposed) =< ChanCap + Cardinality(Workers) * BatchSize

\* A running worker lets go of an unsaved batch only with an error, which
\* stops the group: no path of the retry loop takes a failed save for a
\* saved one.
DropsOnlyOnError ==
    [][\A w \in Workers :
           up' /\ batch[w] # <<>> /\ batch'[w] = <<>>
               => EventsIn(batch[w]) \subseteq rows' \/ failed']_vars

Fate(m) ==
    CASE Stored(m)                -> "stored"
      [] ~ Stored(m) /\ InFlight(m) -> "inflight"
      [] OTHER -> IF Passed(m, up) THEN "lost" ELSE "waiting"

IngestibleMessages == {m \in AllMessages : Ingestible(m)}

\* The ingestor implements MessageFate: in every life of the process, over
\* restarts and redeliveries, a message advances and is lost only in a
\* step that leaves the service failing, stopping or down.
Promise == INSTANCE MessageFate WITH
               Msgs <- IngestibleMessages,
               Content <- [m \in IngestibleMessages |-> EventOf(m)],
               Elsewhere <- {},
               fate <- [m \in IngestibleMessages |-> Fate(m)],
               healthy <- Healthy

ImplementsMessageFate == Promise!FateSpec

-----------------------------------------------------------------------------
(* Liveness, under FairSpec. *)

\* Every message published while the service runs, and that it may store,
\* is stored unless the process is told to stop or dies.
EventuallyStored ==
    \A p \in Partitions : \A i \in DOMAIN Topic[p] :
        LET m == <<p, i>> IN
        up /\ m \in Published(p) /\ Ingestible(m)
            ~> Stored(m) \/ ~ up \/ ctx

\* After the signal every goroutine returns by itself: the full channel,
\* a batch that cannot be saved and a failing database delay the exit and
\* do not prevent it, so the 30 second limit is never what ends it.
ShutdownTerminates == up /\ ctx ~> GoroutinesDone \/ ~ up

-----------------------------------------------------------------------------
(* What the repository says of the service and the code does not do.       *)

\* "At-least-once delivery: the read is acknowledged to Kafka only after
\* the write to the database" (README.md:286): every storable message below
\* the committed offset that this life has fetched is in the table.
AckedIsStored ==
    up => \A p \in Partitions : \A m \in Fetched(p) :
              m[2] =< committed[p] /\ Ingestible(m) => Stored(m)

\* "Does not fall over on errors: retries with a growing pause"
\* (PROMPTS.md:46): a database that fails a bounded number of times only
\* delays what is published.
KeepsIngesting ==
    \A p \in Partitions : \A i \in DOMAIN Topic[p] :
        LET m == <<p, i>> IN
        up /\ m \in Published(p) /\ Ingestible(m) ~> Stored(m)

\* "Save the remaining events before leaving" (ingest_events.go:73): with a
\* database that never fails, a worker told to stop does not leave behind a
\* batch it could have stored.
ShutdownSavesBatch ==
    [][\A w \in Workers :
           up' /\ batch[w] # <<>> /\ batch'[w] = <<>> /\ Accepted(batch[w])
               => EventsIn(batch[w]) \subseteq rows']_vars
=============================================================================
