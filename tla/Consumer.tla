------------------------------ MODULE Consumer ------------------------------
(***************************************************************************)
(* internal/infrastructure/kafka/consumer.go: the goroutine that fetches   *)
(* messages, parses them, hands the events to eventsChan and acknowledges  *)
(* them, together with what it needs of the broker and of the kafka-go     *)
(* reader: the log end, the reader's position, the offsets the reader      *)
(* stashes between its periodic commits and the committed offsets of the   *)
(* consumer group, which survive a restart.  The ingestor configures an    *)
(* interval for these commits; the aggregator configures none, and then    *)
(* CommitMessages itself commits, and nothing is ever stashed.             *)
(*                                                                         *)
(* One goroutine: `kpc` is where it is.                                    *)
(*   fetch    in FetchMessage                                              *)
(*   send     in the select that offers the event to the channel           *)
(*   commit   in CommitMessages                                            *)
(*   closed   returned through Close                                       *)
(*   aborted  returned from the send's ctx.Done branch, reader still open  *)
(* The test of ctx at the head of the loop is made by the step that comes  *)
(* back to it (LoopHead).                                                  *)
(***************************************************************************)
EXTENDS EventStream

CONSTANT CommitInterval   \* in seconds; 0: every CommitMessages commits

ASSUME CommitAssumption == CommitInterval \in Nat

NoOffset == -1   \* the group has no committed offset for the partition

VARIABLES
    end,       \* broker: messages published so far in each partition
    committed, \* broker: committed offset of the group, or NoOffset
    stash,     \* reader: highest offset given to CommitMessages, or as committed
    position,  \* reader: messages fetched so far (kept as a record when down)
    resume,    \* reader: where it began in this life of the process
    kpc, msg   \* the goroutine: where it is, the message it holds

consumerVars == <<end, committed, stash, position, resume, kpc, msg>>

ConsumerTypeOK ==
    /\ end \in [Partitions -> Nat]
    /\ \A p \in Partitions : end[p] =< Len(Topic[p])
    /\ committed \in [Partitions -> Nat \cup {NoOffset}]
    /\ stash \in [Partitions -> Nat \cup {NoOffset}]
    /\ position \in [Partitions -> Nat]
    /\ resume \in [Partitions -> Nat]
    /\ kpc \in {"fetch", "send", "commit", "closed", "aborted"}
    /\ msg \in Messages \cup {NoMessage}
    /\ kpc \in {"send", "commit"} <=> msg # NoMessage

ConsumerInit ==
    /\ end = [p \in Partitions |-> 0]
    /\ committed = [p \in Partitions |-> NoOffset]
    /\ stash = committed
    /\ position = [p \in Partitions |-> 0]
    /\ resume = position
    /\ kpc = "closed"
    /\ msg = NoMessage

-----------------------------------------------------------------------------
(* The producers (another process). *)

Publish(p) ==
    /\ end[p] < Len(Topic[p])
    /\ end' = [end EXCEPT ![p] = @ + 1]

-----------------------------------------------------------------------------
(* The reader's life: it begins at the committed offset or, when the group *)
(* has none, at the end of the log (StartOffset: LastOffset).              *)

\* MUTANT of StartOffset: the committed offset is not looked at.
StartAtLogEnd(p) == end[p]

StartOffset(p) == IF committed[p] = NoOffset THEN end[p] ELSE committed[p]

OpenReader ==
    /\ position' = [p \in Partitions |-> StartOffset(p)]
    /\ resume' = position'
    /\ stash' = committed
    /\ kpc' = "fetch"
    /\ msg' = NoMessage
    /\ UNCHANGED <<end, committed>>

ReaderOpen == kpc # "closed"

\* Reader.Close commits what is stashed before it returns; that last
\* commit is retried and may still fail.
CloseReader(stashed) ==
    committed' \in IF ReaderOpen THEN {stashed, committed} ELSE {committed}

\* The reader's own goroutine commits the stash every CommitInterval.
FlushOffsets ==
    /\ ReaderOpen
    /\ stash # committed
    /\ committed' = stash
    /\ UNCHANGED <<end, stash, position, resume, kpc, msg>>

-----------------------------------------------------------------------------
(* ConsumeEvents. *)

\* Back at the head of the loop: with the context cancelled the consumer
\* closes the reader and, deferred, the channel.
BackToLoop ==
    /\ msg' = NoMessage
    /\ IF ctx THEN kpc' = "closed" /\ closed' = TRUE
              ELSE kpc' = "fetch" /\ UNCHANGED closed

\* The same with what closing the reader does to the stash.
LoopHead(stashed) ==
    /\ BackToLoop
    /\ IF ctx THEN CloseReader(stashed) ELSE UNCHANGED committed

\* FetchMessage returns the next message of some partition.  One that does
\* not parse skips the channel and is acknowledged all the same.
AfterParse(m) == IF EventOf(m) \in Parseable THEN "send" ELSE "commit"

\* MUTANT of FetchMessage: ReadMessage, which acknowledges as it reads.
ReadMessage(p) ==
    /\ kpc = "fetch"
    /\ position[p] < end[p]
    /\ position' = [position EXCEPT ![p] = @ + 1]
    /\ msg' = <<p, position[p] + 1>>
    /\ kpc' = AfterParse(msg')
    /\ stash' = [stash EXCEPT ![p] = position[p] + 1]
    /\ UNCHANGED <<end, committed, resume, eventsChan, closed>>

FetchMessage(p) ==
    /\ kpc = "fetch"
    /\ position[p] < end[p]
    /\ position' = [position EXCEPT ![p] = @ + 1]
    /\ msg' = <<p, position[p] + 1>>
    /\ kpc' = AfterParse(msg')
    /\ UNCHANGED <<end, committed, stash, resume, eventsChan, closed>>

\* FetchMessage returns context.Canceled.
FetchCancelled ==
    /\ kpc = "fetch"
    /\ ctx
    /\ LoopHead(stash)
    /\ UNCHANGED <<end, stash, position, resume, eventsChan>>

\* The select of lines 90-95: the channel takes the event ...
Send ==
    /\ kpc = "send"
    /\ Offer(msg)
    /\ kpc' = "commit"
    /\ UNCHANGED <<end, committed, stash, position, resume, msg, closed>>

\* MUTANT of SendCancelled: a plain send, deaf to the context.
SendUncancelled ==
    /\ kpc = "send"
    /\ FALSE
    /\ UNCHANGED <<end, committed, stash, position, resume, kpc, msg, eventsChan, closed>>

\* ... or the context is cancelled: return without Close, channel closed.
SendCancelled ==
    /\ kpc = "send"
    /\ ctx
    /\ kpc' = "aborted"
    /\ msg' = NoMessage
    /\ closed' = TRUE
    /\ UNCHANGED <<end, committed, stash, position, resume, eventsChan>>

\* CommitMessages with an interval only hands the offset to the reader,
\* unless the context is cancelled and wins the race.
Acknowledge(m) == [stash EXCEPT ![m[1]] = m[2]]

Commit ==
    /\ kpc = "commit"
    /\ CommitInterval > 0
    /\ stash' = Acknowledge(msg)
    /\ LoopHead(stash')
    /\ UNCHANGED <<end, position, resume, eventsChan>>

CommitCancelled ==
    /\ kpc = "commit"
    /\ CommitInterval > 0
    /\ ctx
    /\ LoopHead(stash)
    /\ UNCHANGED <<end, stash, position, resume, eventsChan>>

\* Without an interval it asks the broker and waits.  The answer may be an
\* error, which is logged and forgotten; a call cut short by the context
\* leaves a request that is served or fails before the reader is closed.
CommitNow ==
    /\ kpc = "commit"
    /\ CommitInterval = 0
    /\ committed' \in {committed, Acknowledge(msg)}
    /\ stash' = committed'
    /\ BackToLoop
    /\ UNCHANGED <<end, position, resume, eventsChan>>

ConsumeEvents ==
    \/ \E p \in Partitions : FetchMessage(p)
    \/ FetchCancelled
    \/ Send
    \/ SendCancelled
    \/ Commit
    \/ CommitCancelled
    \/ CommitNow

-----------------------------------------------------------------------------
(* Where a message is, for the properties of the two services.             *)

Offered(m)  == kpc = "send" /\ msg = m
Buffered(m) == \E i \in DOMAIN eventsChan : eventsChan[i] = m

\* The messages this life of the process has fetched, and all that were
\* published since its reader began.
Fetched(p)   == {<<p, i>> : i \in (resume[p] + 1)..position[p]}
Published(p) == {<<p, i>> : i \in (resume[p] + 1)..end[p]}

\* A message the broker will not hand out again: it is acknowledged, this
\* life's reader began after it, or the next one will, since without a
\* committed offset it begins at the end of the log.
Passed(m, running) ==
    \/ m[2] =< committed[m[1]]
    \/ running /\ m[2] =< resume[m[1]]
    \/ ~ running /\ committed[m[1]] = NoOffset /\ m[2] =< end[m[1]]

AllMessages == UNION {{p} \X DOMAIN Topic[p] : p \in Partitions}
=============================================================================
