---------------------------- MODULE SendingPhase ----------------------------
(***************************************************************************)
(* cmd/generator: the phases of the load generator that send.  Phase 1     *)
(* makes TotalEvents new events, phase 2 DuplicateEvents copies of them;   *)
(* the two functions have the same goroutines.  One makes batches and puts *)
(* them in a bounded channel, `workers` senders take them, write them to   *)
(* Kafka and report a failure in a second bounded channel, and main reads  *)
(* that channel only after every sender has returned.  The context is      *)
(* context.Background(): it is never cancelled.                            *)
(*                                                                         *)
(* An event is its index in allEvents, a batch the index it begins at.     *)
(* A sender is in recv (waiting for a batch), sending (in SendBatch),      *)
(* report (about to send its error) or done.                               *)
(***************************************************************************)
EXTENDS Integers, Sequences, FiniteSets

CONSTANTS
    TotalEvents, DuplicateEvents, BatchSize,
    Senders,      \* the sending goroutines there may be
    MaxFailures   \* bound: failures of Kafka

ASSUME SendersAssumption == IsFiniteSet(Senders)
ASSUME SizesAssumption ==
    /\ TotalEvents \in Nat /\ DuplicateEvents \in Nat
    /\ BatchSize \in Nat \ {0} /\ MaxFailures \in Nat

VARIABLES
    workers,      \* GENERATOR_WORKERS, none of them perhaps: fixed at the start
    main,         \* the phase main is in, then what run returns: ok or error
    made, hand,   \* the goroutine that makes batches: events made, its batch
    eventsChan, closed,
    spc, held,    \* each sender: where it is, the batch it holds
    errors,       \* errors buffered in errorsChan
    originals,    \* length of allEvents as phase 1 returns it
    published,    \* events with a message in the topic
    copies,       \* acknowledged messages of each event
    tracked,      \* the verifier's sentEvents
    eventsFailed, failures

phaseVars   == <<made, hand, eventsChan, closed, spc, held, errors>>
topicVars   == <<published, copies, failures>>
sendingVars == <<workers, main, phaseVars, topicVars, originals, tracked, eventsFailed>>

Events == 0..(TotalEvents - 1)
NoBatch == -1
WorkersCount == Cardinality(workers)
SendingPhases == {"unique", "duplicates"}

Lesser(a, b) == IF a =< b THEN a ELSE b

\* What this phase sends.
Total == IF main = "unique" THEN TotalEvents ELSE DuplicateEvents

\* MUTANT of BatchEnd: the last batch is as long as the others.
BatchEndUncapped(i) == i + BatchSize

\* The end of the batch that begins at i.
BatchEnd(i) == Lesser(i + BatchSize, Total)

\* The event at place k: a new one, or a copy taken in turn.
EventAt(k) == IF main = "unique" THEN k ELSE k % originals

Places(i) == i..(BatchEnd(i) - 1)

SendingTypeOK ==
    /\ workers \subseteq Senders
    /\ made \in Nat /\ hand \in Nat \cup {NoBatch}
    /\ eventsChan \in Seq(Nat) /\ Len(eventsChan) =< 2 * WorkersCount
    /\ closed \in BOOLEAN
    /\ spc \in [Senders -> {"recv", "sending", "report", "done"}]
    /\ held \in [Senders -> Nat \cup {NoBatch}]
    /\ errors \in 0..WorkersCount
    /\ originals \in 0..TotalEvents
    /\ published \subseteq Events /\ tracked \subseteq Events
    /\ copies \in [Events -> Nat]
    /\ eventsFailed \in Nat /\ failures \in 0..MaxFailures

\* The channels are new and the senders at their receive.
FreshSpc(W) == [s \in Senders |-> IF s \in W THEN "recv" ELSE "done"]

SendingInit ==
    /\ workers \in SUBSET Senders
    /\ main = "unique"
    /\ made = 0 /\ hand = NoBatch /\ eventsChan = <<>> /\ closed = FALSE
    /\ spc = FreshSpc(workers) /\ held = [s \in Senders |-> NoBatch] /\ errors = 0
    /\ originals = 0 /\ published = {} /\ copies = [e \in Events |-> 0]
    /\ tracked = {} /\ eventsFailed = 0 /\ failures = 0

BeginPhase ==
    /\ made' = 0 /\ hand' = NoBatch /\ eventsChan' = <<>> /\ closed' = FALSE
    /\ spc' = FreshSpc(workers) /\ held' = [s \in Senders |-> NoBatch] /\ errors' = 0

-----------------------------------------------------------------------------
(* The goroutine that makes batches; in phase 1 a batch joins allEvents    *)
(* before the channel takes it.                                            *)

makerFrame == <<workers, main, spc, held, errors, topicVars, originals, tracked, eventsFailed>>

Generate ==
    /\ main \in SendingPhases
    /\ hand = NoBatch
    /\ made < Total
    /\ hand' = made
    /\ made' = BatchEnd(made)
    /\ UNCHANGED <<eventsChan, closed, makerFrame>>

Offer ==
    /\ main \in SendingPhases
    /\ hand # NoBatch
    /\ Len(eventsChan) < 2 * WorkersCount
    /\ eventsChan' = Append(eventsChan, hand)
    /\ hand' = NoBatch
    /\ UNCHANGED <<made, closed, makerFrame>>

CloseChannel ==
    /\ main \in SendingPhases
    /\ hand = NoBatch /\ made >= Total
    /\ ~ closed
    /\ closed' = TRUE
    /\ UNCHANGED <<made, hand, eventsChan, makerFrame>>

-----------------------------------------------------------------------------
(* A sender. *)

senderFrame == <<workers, main, made, hand, closed, originals>>

TakeBatch(s) ==
    /\ spc[s] = "recv"
    /\ IF eventsChan # <<>>
         THEN /\ held' = [held EXCEPT ![s] = Head(eventsChan)]
              /\ eventsChan' = Tail(eventsChan)
              /\ spc' = [spc EXCEPT ![s] = "sending"]
         ELSE /\ closed
              /\ spc' = [spc EXCEPT ![s] = "done"]
              /\ UNCHANGED <<held, eventsChan>>
    /\ UNCHANGED <<errors, topicVars, tracked, eventsFailed, senderFrame>>

BackToRecv(s) ==
    /\ spc' = [spc EXCEPT ![s] = "recv"]
    /\ held' = [held EXCEPT ![s] = NoBatch]

\* SendBatch is acknowledged; phase 1 gives the ids to the verifier.
SendBatchOk(s) ==
    /\ spc[s] = "sending"
    /\ LET batch == Places(held[s])
           events == {EventAt(k) : k \in batch}
       IN  /\ published' = published \cup events
           /\ copies' = [e \in Events |->
                  copies[e] + Cardinality({k \in batch : EventAt(k) = e})]
           /\ tracked' = IF main = "unique" THEN tracked \cup events ELSE tracked
    /\ BackToRecv(s)
    /\ UNCHANGED <<eventsChan, errors, eventsFailed, failures, senderFrame>>

\* WriteMessages may have written some of the events when it fails.
SendBatchFails(s) ==
    /\ spc[s] = "sending"
    /\ failures < MaxFailures
    /\ failures' = failures + 1
    /\ \E some \in SUBSET {EventAt(k) : k \in Places(held[s])} :
           published' = published \cup some
    /\ eventsFailed' = IF main = "unique"
                         THEN eventsFailed + Cardinality(Places(held[s]))
                         ELSE eventsFailed
    /\ spc' = [spc EXCEPT ![s] = "report"]
    /\ UNCHANGED <<eventsChan, held, errors, copies, tracked, senderFrame>>

reportFrame == <<eventsChan, topicVars, tracked, eventsFailed, senderFrame>>

\* MUTANT of Report: the error is only logged.
ReportNothing(s) ==
    /\ spc[s] = "report"
    /\ BackToRecv(s)
    /\ UNCHANGED <<errors, reportFrame>>

\* MUTANT of Report: the capacity is not respected.
ReportUnbounded(s) ==
    /\ spc[s] = "report"
    /\ errors' = errors + 1
    /\ BackToRecv(s)
    /\ UNCHANGED reportFrame

\* errorsChan <- err blocks when the channel is full: nobody reads it yet.
Report(s) ==
    /\ spc[s] = "report"
    /\ errors < WorkersCount
    /\ errors' = errors + 1
    /\ BackToRecv(s)
    /\ UNCHANGED reportFrame

Sender(s) == TakeBatch(s) \/ SendBatchOk(s) \/ SendBatchFails(s) \/ Report(s)

-----------------------------------------------------------------------------
(* main, once wg.Wait has returned: it closes errorsChan and looks at its  *)
(* length.  With no worker wg.Wait does not wait, and allEvents is read    *)
(* while the other goroutine may be appending its first batch.             *)

AllSent == \A s \in Senders : spc[s] = "done"

\* Phase 2 refuses to begin without events.
FinishUnique ==
    /\ main = "unique"
    /\ AllSent
    /\ originals' = made
    /\ main' = IF errors > 0 \/ originals' = 0 THEN "error" ELSE "duplicates"
    /\ BeginPhase
    /\ UNCHANGED <<workers, topicVars, tracked, eventsFailed>>

FinishDuplicates ==
    /\ main = "duplicates"
    /\ AllSent
    /\ main' = IF errors > 0 THEN "error" ELSE "persistence"
    /\ UNCHANGED <<workers, phaseVars, originals, topicVars, tracked, eventsFailed>>
=============================================================================
