---------------------------- MODULE EventStream ----------------------------
(***************************************************************************)
(* What the two services share: a Kafka topic of telecom events, and the   *)
(* bounded Go channel `eventsChan` that carries parsed events from the     *)
(* goroutine that reads the topic to the goroutines that process them.     *)
(*                                                                         *)
(* A message is the pair <<partition, index>>: Topic[p][i] is the event    *)
(* the i-th message of partition p carries.  Two messages may carry the    *)
(* same event: the producer sends duplicates.  An offset is a number of    *)
(* messages: the committed offset n says the first n messages of the       *)
(* partition are acknowledged (kafka-go commits msg.Offset + 1).           *)
(***************************************************************************)
EXTENDS Integers, Sequences, FiniteSets

CONSTANTS
    Partitions, \* the partitions of the topic
    Events,     \* event contents, up to the key (event_id, started_at)
    Topic,      \* Topic[p]: what the producers put in partition p, in order
    Parseable,  \* events whose JSON unmarshals and converts
    ChanCap     \* capacity of eventsChan

\* Ids and instants have a fixed width: there are finitely many events.
ASSUME EventsAssumption  == IsFiniteSet(Events)
ASSUME TopicAssumption   == Topic \in [Partitions -> Seq(Events)]
ASSUME ParseAssumption   == Parseable \subseteq Events
ASSUME ChanCapAssumption == ChanCap \in Nat \ {0}

Messages  == {m \in Partitions \X Nat : m[2] \in 1..Len(Topic[m[1]])}
NoMessage == <<>>

EventOf(m) == Topic[m[1]][m[2]]
EventsIn(s) == {EventOf(s[i]) : i \in DOMAIN s}

VARIABLES
    eventsChan, \* messages whose event is buffered in the channel, oldest first
    closed,     \* the consumer closed the channel
    ctx         \* the process context is cancelled

channelVars == <<eventsChan, closed, ctx>>

ChannelTypeOK ==
    /\ eventsChan \in Seq(Messages)
    /\ Len(eventsChan) =< ChanCap
    /\ closed \in BOOLEAN
    /\ ctx \in BOOLEAN

\* A fresh channel and a live context, as main makes them.
ChannelReset ==
    /\ eventsChan' = <<>>
    /\ closed' = FALSE
    /\ ctx' = FALSE

\* MUTANT of HasRoom: an off-by-one.
HasRoomOffByOne == Len(eventsChan) =< ChanCap

HasRoom == Len(eventsChan) < ChanCap

\* The consumer's side of the channel ...
Offer(m) ==
    /\ HasRoom
    /\ eventsChan' = Append(eventsChan, m)

\* MUTANT of TakeFirst: every reader sees each event (a broadcast).
TakeShared ==
    /\ eventsChan # <<>>
    /\ eventsChan' = eventsChan

\* ... and the workers' side: a closed channel still yields what it holds.
TakeFirst ==
    /\ eventsChan # <<>>
    /\ eventsChan' = Tail(eventsChan)

Drained == closed /\ eventsChan = <<>>
=============================================================================
