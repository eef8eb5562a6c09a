# A TLA+ model of network-actions-aggregator

The repository holds Go services that carry telecom events (calls, SMS, data
sessions) from a Kafka topic into PostgreSQL: the *ingestor* stores raw events,
the *aggregator* counts them per day and month, and a *load generator* feeds
the topic and verifies the database. These modules model the goroutines,
channels, retries, acknowledgements and process lives of the three programs.
Line numbers are those of the commit beside this directory.

## 1. Inventory

| Component | Code | State it keeps | Operations |
|---|---|---|---|
| Kafka consumer (used by both services) | `internal/infrastructure/kafka/consumer.go`, `internal/handler/consumer/kafka_message.go` | the reader's position, offsets stashed until the next periodic commit, the message in hand | NewConsumer, ConsumeEvents (fetch, parse, send, commit), Close |
| Ingestor worker pool | `internal/usecase/ingest_events.go`, `.../postgres/event_repository.go` | a batch and a ticker per worker, the attempt number, the errgroup's context; table `events_raw` | worker (select of four cases), saveBatchWithRetry, BatchInsert |
| Ingestor process | `cmd/ingestor/main.go` | channel, context, signal, 30 s limit | start, shutdown, exit, crash |
| Aggregator usecase | `internal/usecase/aggregate_events.go`, `.../postgres/aggregation_repository.go` | day and month buffers, memory of processed events, channel of dirty periods; tables `agg_day`, `agg_month` | processEvents, runStreamingAggregation, flushBuffers, runReconciliation, cleanup |
| Aggregator process | `cmd/aggregator/main.go` | channel, context, 5 s sleep at shutdown | start, shutdown |
| Load generator | `cmd/generator/main.go`, `producer.go`, `generator.go` | batch and error channels, `allEvents`, counters | two sending phases, the waiting loop, the check of duplicates, verdict |
| Verifier | `cmd/generator/verifier.go` | maps of sent, verified and missing ids | TrackSentBatch, VerifyAll, VerifyAggregations |
| Event entity and message | `internal/domain/entity/event.go`, `kafka_message.go`, `eventToMessage` | none | GenerateEvent, eventToMessage, ToEvent, Validate |
| Calendar of the rows | `addToBuffer`, `markDirty`, the ranges of reconciliation and of VerifyAggregations | none | the day and the month of an instant, the range of a period |
| Storage models, connection, configuration, logger | `gorm_models/`, `postgres/db.go`, `kafka/config.go`, `pkg/logger/` | none of their own | conversions, settings, output |
| API | `api/proto/`, `cmd/api`, `internal/handler/{grpc,http}` | none: placeholders and a protocol file | none yet |

**How they interact.** The generator writes to the topic; the two services read
it in consumer groups of their own. Inside a service the consumer goroutine
feeds a bounded Go channel. In the ingestor every worker takes from that
channel; in the aggregator only `processEvents` does, and it shares its buffers
with the flushing ticker and its dirty-period channel with the reconciler. The
reconciler reads `events_raw`, which the *other* service writes. One context
per process, cancelled by the signal, stops everything; the worker pool derives
a second one that an error of any worker cancels as well.

**What is hard here.**

* An acknowledgement has three steps (handed to the reader, stashed, committed
  every second), and each may fall before or after the write to the database.
* A statement can commit and its answer be lost; a retry follows.
* Two goroutines flush the same buffers, and each drops the rest of its copy
  when a statement fails.
* At shutdown the context that stops the goroutines is the one their last
  database calls use.
* A group without a committed offset starts at the end of the log.
* Recomputation adds to rows that streaming adds to as well.
* The day of a row is cut in UTC, its month in the event's own zone.
* The memory that recognises a duplicate has the event's id for its key, the
  table the id and the time, the documents name the source and the id; and the
  memory is empty after every restart.
* The verifier looks at tables two other processes are filling, in chunks, and
  its loop has two limits. The aggregates it compares are those of whole days and
  months, which earlier runs and other producers have written to as well.
* A message carries whole seconds, the event it is made from nanoseconds.
* Bounded channels: `eventsChan`, the dirty periods (dropped when full) and the
  generator's error channel (blocks when full).

**What makes each component correct.** Consumer: nothing is acknowledged that
was not handed off, and offsets never run ahead. Pool: every message taken is
held or stored, never both lost and unreported. Process: what a crash may lose
is bounded, a restart loses nothing by itself, a signal always ends the
goroutines. Aggregator: an event is in its rows as often as it was taken in,
and only a recomputation may add to that. Aggregator process: an event reaches
a row once per life, hour and recomputation at most, and what is lost is lost
around a failure or a stop. Generator: a phase answers
for every batch; the verdict says of the database what is true of it, and comes.

`PROJECT.json` lists every hazard at its line, with the properties that cover
it or the reason none does yet.

## 2. Modules

```
EventStream              topic, messages, eventsChan, context
 |- Consumer             kafka/consumer.go with broker offsets and the kafka-go reader
 |   '- ConsumerProofs
 |- IngestWorkers        usecase/ingest_events.go and BatchInsert
 |   '- Ingestor         = Consumer + IngestWorkers + cmd/ingestor/main.go
 |       |- MCIngestor   instances for TLC (with EventEntity)
 |       '- IngestorProofs (with ConsumerProofs)
 '- AggregateEvents      usecase/aggregate_events.go and the upserts (with Calendar)
     |- UsecaseProofs (with CalendarProofs, SumProofs)
     |- Aggregator       one life, delivery reduced to order within a partition
     |   |- MCAggregator instances for TLC
     |   '- AggregatorProofs (with UsecaseProofs)
     '- AggregatorService = Consumer + AggregateEvents + cmd/aggregator/main.go
         |- MCAggregatorService  instances for TLC
         '- ServiceProofs (with ConsumerProofs, UsecaseProofs)
Calendar                 instants, zones, rows and periods: operators
 '- CalendarProofs
EventEntity              an event from the generator to the table: operators
MessageFate              abstract: what a service promises to each message
SendingPhase             phases 1 and 2 of cmd/generator
 '- Verifier             phases 3 to 5 (with Calendar)
     '- Generator        the five phases, one after the other, and the verdict
         |- MCGenerator  instances for TLC
         '- GeneratorProofs (with EventEntity, CalendarProofs, SumProofs)
SumProofs                sums over finite sets
```

**EventStream.** A message is `<<partition, index>>` and its event is
`Topic[partition][index]`, so that duplicates are two messages with one event.
`eventsChan`, `closed` and `ctx` are the Go channel and the process context.

**Consumer.** `kpc` is the program counter of `ConsumeEvents`; every action is
one step between two blocking points, with the return to the loop's head (the
test of the context, `Close`, the deferred `close(eventsChan)`) inside the step
that reaches it. `stash` is what `CommitMessages` gave to the reader; with a
`CommitInterval` the reader's own goroutine (`FlushOffsets`) makes it
`committed`, without one `CommitMessages` does so itself and may fail. The
ingestor configures the first, the aggregator the second, and the constant
`CommitInterval` chooses. `SendCancelled` is the return of line 92, which leaves
the reader open: main's deferred `Close` does the rest. An event that does not
parse goes to `commit` without the channel, as lines 73-88 do. Errors of the
broker are retried by the code without any change of state and are stuttering.

**IngestWorkers.** `wpc`, `batch`, `attempt` and `exit` are a worker's program
counter and locals; `exit` is what follows the save under way (go on, return
nil, return ctx.Err()). Insertion has two steps, `Apply` (the database commits)
and `InsertOk` (the answer), so that `InsertError` can fall before or after the
commit. `Accepted` is all-or-nothing: one row the table refuses fails the
statement. `Cancelled` is the errgroup's context. Database calls with a
cancelled context fail, as database/sql's do.

**Ingestor.** Adds the life of the process: `Start`, `Signal`, `ExitClean`,
`ExitTimeout` (the 30 s limit may strike at any moment after the signal),
`Crash`, and the restart on the same broker offsets and table.

**EventEntity.** Records with the fields of `entity.Event`. `GenerateEvent`
says what the generator may draw at an instant, `eventToMessage` and `ToEvent`
what the text in between does to the instants, `Parses`, `Validate` and `Stores`
what each stage asks; a message parses only if every field has its JSON type and
the three ids are UUIDs, an absent one being the empty string that is none.
`MCIngestor` gives every event of its topics a message and computes the constants
`Parseable`, `Valid` and `Storable` with them; the one that does not parse is the
sample of README.md:180. Instants
are in milliseconds here and in hours in `Calendar`; `GeneratedEventsArrive`
(section 4) says that the text keeps the hour, so that the generator and the
services agree on the rows.

**MessageFate.** The abstract specification, of both services: a message is
waiting, in flight, stored or lost, and the service is healthy or not. While it
is healthy messages only advance, becoming healthy loses nothing, stored is for
ever, only steps that leave it unhealthy may lose, and a lost message comes back
only in the guise of another one with its content (the second of two events of an
id, taken in once the id is forgotten). `Ingestor` maps "stored"
to a row of `events_raw`, `AggregatorService` to the two rows that count the id
of the message (`ImplementsMessageFate` in both). The second is a promise about an
id: the memory of processed events decides by the id alone, and which of two
events of one id is in the rows the promise does not say.

**Calendar.** `Truncate`, `CivilDay`, `DayRow`, `MonthRow`: the day is
`Truncate(24h)`, a cut at midnight UTC whose date is then read in the event's
zone, the month is the civil one of the zone. `PeriodOf` is what `markDirty`
puts in the channel, `InDay` and `InMonth` the ranges its recomputation reads,
both ends included. Zones are fixed offsets in whole hours.

**AggregateEvents.** Buffers, copies and tables count, per event, how often the
event's contribution is in them, which determines the four sums of a row. Each
upsert is a step of its own, in any order (Go's map order). `Statement` gives its
outcomes: answered, refused, or committed without an answer; a read is answered
or refused. `processed` holds ids, as the code's map does. The clock moves by
whole hours (`HourPasses` ages all that is remembered). `hours`, `accepted` and
`asked` are history variables.

**Aggregator / AggregatorService.** The first closes the usecase with the least
that can feed it, so that two flushers, the reconciler, an hour and the ingestor
fit in one exhaustive run. The second is the service: the whole consumer, start,
signal, the sleep of five seconds (`Exit`, at any moment after the signal), crash
and restart with empty memory.

**SendingPhase / Verifier / Generator.** A batch is the index it begins at;
`Generate`, `Offer` and `CloseChannel` are the goroutine that makes batches,
`TakeBatch`, `SendBatchOk`, `SendBatchFails` and `Report` a sender, and
`FinishUnique` and `FinishDuplicates` what main does after `wg.Wait`. A failed
`SendBatch` may have written some of its events. `workers` is chosen at the
start and may be empty. In phases 3 to 5 only main runs; what the ingestor and
the aggregator have written since the last look is chosen when main looks
(`VerifyChunk`, `ReadDayAggregations`, `ReadMonthAggregations`), within what the
topic holds. A count of each event stands for the four sums compared. The rows
are keyed by day and type, or month and type, and outlive the run: `Others` are the
events of earlier runs and other producers, a row's total is over all its
`Contributors`, and the comparison is of that total with this run's events
(`Agree`), as in compareDayAggregations.

Definitions marked MUTANT are deliberate faults, used by the entries of
`PROJECT.json` to show that each property can fail; no specification uses them.

## 3. What TLC checks

| Run | Instance | Shows |
|---|---|---|
| ingestor_safety | 2 partitions, 5 messages (a duplicate across partitions, the README's sample, which does not parse, one the table refuses), 2 workers (symmetric), channel of 1, BatchSize 1, 2 attempts, 1 database failure, 2 starts, 1 signal or crash | types; `NothingDropped`, `AckAfterHandOff`, `OneHolder`, `ExposureBounded`, `DropsOnlyOnError`; the refinement of `MessageFate` |
| ingestor_liveness | 1 partition, 4 messages (one invalid), 2 workers, channel of 2, BatchSize 2, 2 attempts, 1 failure, 1 start, 1 signal or crash | `EventuallyStored`, `ShutdownTerminates` |
| aggregator_safety | a late event at 22:00 UTC on the last day of a month in a zone 3 hours ahead, delivered twice, and one at the midnight that follows, in UTC; dirty channel of 1, 1 failed or unanswered statement, 1 hour | types; `CountsAccounted`, `OvercountBounded`, `PeriodsFit`, `DuplicatesWithinTheHour` |
| service_life | the whole consumer, two events that share an id, in zones 3 ahead and 5 behind, the first of them late; synchronous commits, channel of 1, 2 starts, 1 signal or crash, 1 failure, 1 hour, after which the memory of ids is cleaned | types; `RecountBounded`; the refinement of `MessageFate` |
| service_liveness | the two events with ids of their own, 1 start, 1 signal or crash, 1 failure | `EventuallyCounted`, `ShutdownEnds` |
| generator_verdict | any subset of 2 senders, 4 events around a midnight that begins a month, 13 copies, batches of 2, 3 failures, chunks of 2, 2 iterations, counts up to 2, an event of somebody else in the rows of one of the four | types; `AnswerIsRight`, `DuplicatesSent`, `VerdictSound`, `ErrorHasCause`, `VerdictComes` |

Six runs check what the repository *says* and the code does not do; TLC finds a
behaviour against each:

| Run | Statement | What happens |
|---|---|---|
| ingestor_acked | README.md:286, acknowledged only after the write | the commit follows the hand-off to the channel (consumer.go:97) |
| ingestor_outage | PROMPTS.md:46, does not fall over on errors | RetryAttempts failures of one batch end the pool; the process stays up and stores nothing more |
| ingestor_drain | comment at ingest_events.go:73 | the last save uses the cancelled context |
| aggregator_recount | comment at aggregate_events.go:478 (REPLACE) | the upsert adds |
| aggregator_leaving | comment at aggregate_events.go:126 | the last flush uses the cancelled context |
| generator_hang | PROMPTS.md:133, no goroutine hangs | one failure more than senders blocks the phase |

Three more disagreements need no behaviour to be seen, only the line, and are
findings of `PROJECT.json` without a run:

* The key of deduplication is `(source_id, event_id)` in README.md:285 and
  PROMPTS.md:44 and 122. The aggregator's memory has the `event_id` alone
  (aggregate_events.go:393) and takes the second of two such events for a duplicate;
  the table has `(event_id, started_at)` (00001_init_schema.sql:17) and stores both.
* The comment at cmd/generator/main.go:360 says that a random original is copied;
  the next line takes the originals in turn. `DuplicatesSent` speaks of how many
  copies there are and of no order.
* The sample message of README.md:180 and EXAMPLES.md:96 does not parse ("provider-1"
  and "123456789" are no UUIDs, kafka_message.go:32 and 37), and with UUIDs in their
  place it has no phone and fails `Validate` (event.go:61). It is the message `bad` of
  the ingestor's runs; the assumption `SampleHasNoPhone` of MCIngestor is the rest.

**Bounds, and why they are enough.** Every counter that could grow is bounded in
a guard: `MaxFaults`, `MaxUpsertFaults`, `MaxFailures` (failures of a service),
`MaxStarts`, `MaxStops`, `MaxHours`, `MaxCounts`, and the length of each topic.
Two workers, two partitions, two flushers and two senders are the fewest that
interleave; a duplicate in another partition makes both workers hold one event;
one failure before and one after the commit, two attempts and a restart reach
every retry path; three failures are one more than two senders can report. The
code makes `eventsChan` twice `BatchSize`; the runs that pass make it smaller, so
that a few messages fill it, the consumer blocks on it, and the bound of
`ExposureBounded` is one that more messages than it could break. Thirteen copies
of four events leave a short last batch after several rounds. The event of another
run shares the day, the month and the type of one of the four, and only of that
one. The two events of the aggregator lie where its two ways of cutting time
disagree. The theorems (section 4) have no bounds on any of these.
Deadlock checking is off: all the systems really stop (the process is down, run
has returned, the bounds are used up).

**Fairness.** Weak fairness of each goroutine's step: the Go scheduler runs what
can run, and a Go select draws at random among its ready cases. In the ingestor
this is `ConsumerStep`, `FlushStep` (the reader's ticker) and each worker; in the
aggregator's service the consumer, the processing, flushing and reconciling
goroutines and the end of the cleanup; in the generator the maker, each sender
and main. There is none on publishing, signals, crashes, the 30 s limit, the end
of the sleep, the ingestor's writes as the aggregator sees them, or failures.
Strong fairness once: `VerifyTimeout`, whose channel, ready once, stays ready at
every select of the waiting loop, between two verifications. Weak fairness of a
worker as a whole does not promise that its *ticker* case is drawn for ever
against arrivals; in a finite topic arrivals end, which is what
`EventuallyStored` relies on. `VerdictComes` excuses a behaviour in which more
batches fail than errorsChan holds: generator_hang shows what happens then.

## 4. What TLAPS proves

The theorems hold for all values of the constants that satisfy the assumptions
the modules name (`TopicAssumption`, `ChanCapAssumption`, `WorkersAssumption`,
`EventsAssumption`, `MonthFirstAssumption`, ...), which TLC evaluates in the runs.
Every invariant, action property and refinement of the passing runs is a theorem;
only liveness is not.

**The consumer.** `ConsumerProofs` is about the goroutine and the reader both
services share, whatever runs beside them: types, and `ReaderOK(running)`, the
order of the offsets (committed =< stash =< position), where the message in hand
stands against them, and where the reader would resume. Each service proves that
its own steps leave these alone and instantiates them with its `up`.

**The ingestor.** `IngestorProofs`:

* `TypeCorrect`. `WorkersAt` is the strengthening that makes types inductive: a
  worker in its select has an unfilled batch (without it `Receive` could overfill
  one), an insert under way is an attempt below `RetryAttempts`, and once the
  database has committed the batch's events are in the table.
* `NothingDroppedHolds`. The step lemmas `WorkerKeepsHeld` and
  `ConsumerKeepsHeld` say that a message in the consumer's hand, in the channel
  or in a batch is still there, or stored, after a step that leaves the service
  healthy; `FetchedIsOffered` covers the step that makes a message fetched.
* `AckAfterHandOffHolds`, from `ReaderOK`.
* `OneHolderHolds`. Alone it is not inductive: a fetch could take what is already
  held. `HeldBehind` (what is held is behind the reader's position) says it cannot.
* `DropsOnlyOnErrorHolds`, from `WorkersAt` and `DownEmpty` (a process that is
  down holds nothing).
* `ExposureBoundedHolds`: with `NothingDropped` and `AckAfterHandOff`, what is
  exposed is in the channel or in a batch, and these have at most
  `ChanCap + Cardinality(Workers) * BatchSize` elements.
* `ImplementsMessageFateHolds`, the refinement. Each kind of step is mapped: a
  fetch is `Take`, a commit of the database `Store`, a start `Recover`, what
  leaves the service unhealthy `Degraded`, the rest stutters. It rests on the
  invariants above; where the reader resumes is what makes a message passed over
  stay passed.

**Sums.** Several properties add up over the events of an id, the late events of
a period or the shares of the copies. `SumFunctionOnSet` of the community modules
is a fold: a CHOOSE of a function that satisfies a recursion over the subsets of
the set. `SumProofs` shows that such a function exists and what it comes to:
empty, one element more or taken out, monotone, one term raised, a part outside of
which all is zero, all zeros, all ones. Library
schemes of induction take an operator, which the provers cannot instantiate; the
lemmas do without, with `MinimalSubset`: the subsets of a finite set that refute
a fact, a set like any other, would have a smallest among them, since the strict
subset order of a finite set is well founded. `NaturalInduction` does the same
for sets of naturals.

**The calendar.** `CalendarProofs`: `DayRangeFits` and `MonthRangeFits` (the range
of a period holds exactly the instants of its row, in its zone, but for the
included end), `PeriodDayIsRow` and `PeriodMonthIsRow` (it writes the row of the
event that asked), `DayRowsOrdered` and `MonthRowsOrdered` (rows follow time, which
is why the verifier's range from first to last row is enough).

**The usecase.** `UsecaseProofs` is what its goroutines keep true by themselves,
for both specifications that run them: types; `Places`, which says which copies
can hold anything at which point of a flusher and which events a recomputation may
hold; `Origins` (every period in the channel or under way is that of an event that
asked); and `ClaimsBounded`, for a database that may fail. A bound on the rows alone
is not inductive: a period may be marked now and added much later. `ClaimsBounded`
adds what is still claimed: for each row of an event, what is in the row, on the way
to it, pending in the reconciler's hands, and asked for by periods of the dirty
channel together stay within what was taken in and the markings counted by `asked`.
Streaming can only lighten that load (`FlushLightens`: a refused statement loses, one
without an answer is not repeated), a marking raises the claim and the bound alike
(`MarkingPays`), and a recomputation turns a claim into a count (`RecomputeSpends`).

**The aggregator in one life.** `AggregatorProofs` (module Aggregator):

* `TypeCorrect`.
* `PeriodsFitHolds`, from `Origins` and the calendar's theorems.
* `DuplicatesWithinTheHourHolds`, from `OnceAnHour`: an id remembered and not aged
  was taken in at most once in this hour.
* `CountsAccountedHolds`. With `Places` a swap or an upsert moves a contribution
  and never doubles or drops it; each step of the streaming path keeps the balance
  of hand + buffer + copies + row, and a step of the reconciler only adds, to rows
  of a period that was asked for.
* `OvercountBoundedHolds`, for a database that fails as well, where the balance does
  not hold: from `ClaimsBounded`.

**The aggregator's service.** `ServiceProofs` (module AggregatorService):

* `TypeCorrect`, over any number of lives.
* `RecountBoundedHolds`: an event reaches a row once per life and hour, and on top of
  that once per recomputation that reads it. Two invariants meet. `ClaimsBounded`, over
  lives (`RestartBounded`: a process that goes takes its claims with it), bounds the
  rows by what was taken in and marked. `LivesSpent` bounds what was taken in: of an
  id, what was accepted, plus one if the process is up and does not remember it, plus
  one if it has remembered it for an hour and may forget it, stays within starts and
  hours; forgetting and restarting each move one unit, and nothing creates one but a
  start or an hour.
* `ImplementsMessageFateHolds`: the aggregator makes of counting the promise the
  ingestor makes of storing. A message is stored when its id is in both of its
  rows, which is written in two statements by two flushers from copies that are
  dropped on failure, so that its place is spread over the usecase. The invariants:
  `WayOK` (`Places`, and `DayFirst`: a copy that still owes a month has written
  its day), `DownEmpty`, `Deliveries` (what is in the channel was fetched in this
  life and parses), `Remembered` (while healthy, an id in the memory is that of an
  event counted or on its way, so that skipping a duplicate loses nothing) and
  `FetchedKept` (a healthy service counts or keeps all it fetched). A fetch is
  `Take`, the upsert that completes an id's two rows `Store`, a start `Recover`,
  what leaves the service unhealthy `Degraded`. In a life that is no longer healthy
  a message given up may be in flight again when another of its id is taken from
  the channel (`ComesBackFromTheChannel`), the one case MessageFate allows.

**The generator.** `GeneratorProofs`:

* `TypeCorrect`, with `InPhase`: a sender sends only in a phase that sends, copies
  are made only of events there are, and `CheckingWaits`.
* `AnswerIsRightHolds`, from `NoEventLost` (in phase 1 every event made is
  acknowledged or on its way, unless an error is in errorsChan or about to be) and
  `WorkersDrain` (a worker that returned found the channel closed and empty).
* `DuplicatesSentHolds`. `OneHolder` (no place of the sequence of copies is in two
  batches that somebody holds) and `CopiesCounted` (while nothing failed, an event has
  as many copies as it has places made and no longer held) bring it to arithmetic: at
  the end no place is held, and over all events the places made add up to their number
  (`SharesSum`).
* `VerdictSoundHolds` and `ErrorHasCauseHolds`, from `Judged`: what each passed
  phase has established is carried to the verdict. `AgreeingReadsMask`: a row whose
  total agrees although it misses an event of the run has another one twice or an
  event that is not of the run. `ExactReadsAgree`: counts of one in rows nobody else
  has contributed to agree, for which it needs the calendar's order of rows (the rows of
  all events are inside the range the verifier reads).
* `GeneratedEventsArrive` (about EventEntity): every event the generator can draw
  parses and is valid after the trip through its text, with its id, type and sums,
  in the hour it had, and in the table's partitions if it was.

**What stays with TLC.** `EventuallyStored`, `ShutdownTerminates`,
`EventuallyCounted`, `ShutdownEnds` and `VerdictComes`: liveness under fairness needs
ENABLED, which the prover does not treat. And the six statements of the
repository that do not hold.

## 5. What is not modelled

* The API service, its handlers and the cache directory: no code yet. Entities no
  service uses: no logic that is called.
* Storage models, connection settings, configuration parsing and the logger: no
  control. `ProcessSingleEvent`, `TrackSent`, `Reset` and the queries of the event
  repository no service calls have no caller.
* Contents of an event beyond its fields' part in parsing, validation, keys and
  sums: meta, created_at, the random draw.
* Kafka and PostgreSQL themselves, except as far as the code depends on them:
  offsets of a group, the reader's commits, the atomicity of a statement and the
  two ON CONFLICT clauses.
* Rebalancing between several instances of one service.
* The back-off of the ingestor and the tickers have no length: a timer may fire at
  any moment after it is set.
* GENERATOR_BATCH_SIZE of 0 or less, and zones whose offset is not whole hours.

**What the verdict of the generator is worth** follows from the rows it compares. They
are kept between runs and hold every producer's events of the day, or month, and type.
A second run of the generator on the same day therefore ends with an error although
all its events were sent, found and counted once (`ErrorHasCause` lists a shared row
among the causes); and with the verdict ok an event that was not counted may be made up
for by one of somebody else, or by another of the run counted twice (`VerdictSound`
says exactly that). Against tables that were empty, and with no other producer, the
first cannot happen and of the second only the double count remains.

Hazards in `PROJECT.json` without a property say why. The one that matters most is
reconciliation that reads `events_raw` before the ingestor has stored the late
event (aggregate_events.go:448): a row "finally exact" is what it would break, and
the additive upsert breaks that first (aggregator_recount).

## 6. Plan

1. (done) The ingestor: EventStream, Consumer, IngestWorkers, Ingestor,
   MessageFate, and all its properties but liveness proved.
2. (done) The aggregator: Calendar, AggregateEvents, Aggregator,
   AggregatorService; all their properties but liveness proved, the refinement of
   MessageFate over several lives included.
3. (done) The generator: SendingPhase, Verifier, Generator, EventEntity; all its
   properties but liveness proved.
4. The ingestor and the aggregator in one specification over one `events_raw`,
   with a row's distance from the exact count as a function of what was reconciled
   too early.
