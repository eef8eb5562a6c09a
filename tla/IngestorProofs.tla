--------------------------- MODULE IngestorProofs ---------------------------
(***************************************************************************)
(* Theorems about Ingestor, for every topic, channel capacity, batch size, *)
(* number of workers, retry bound and bound on failures and restarts: what *)
(* it holds and where, what it may lose and when, and that it implements   *)
(* MessageFate.                                                            *)
(***************************************************************************)
EXTENDS Ingestor, ConsumerProofs, FiniteSetTheorems

USE TopicAssumption, ParseAssumption, ChanCapAssumption, BatchAssumption,
    RetryAssumption, ValidAssumption, FaultAssumption, StartAssumption

-----------------------------------------------------------------------------
\* An empty batch, or an empty channel, is a sequence of messages.
LEMMA EmptyBatch ==
    /\ <<>> \in Seq(Messages)
    /\ Len(<<>>) = 0
BY EmptySeq

-----------------------------------------------------------------------------
(* What the code keeps true of a worker at each point of its loop.         *)

\* In the select a batch has room; an insert under way has an attempt left;
\* a batch the database has committed is in the table.
WorkerAt(w) ==
    /\ wpc[w] = "select" => Len(batch[w]) < BatchSize
    /\ wpc[w] \in {"inserting", "applied"} => attempt[w] < RetryAttempts
    /\ wpc[w] = "applied" => EventsIn(batch[w]) \subseteq rows

WorkersAt == \A w \in Workers : WorkerAt(w)

-----------------------------------------------------------------------------
(* Types. *)

\* A step of a worker keeps the types of the pool's state and of the
\* channel, and the facts about each point of the loop.
LEMMA WorkerKeepsTypes ==
    ASSUME TypeOK, WorkersAt, NEW w \in Workers, Worker(w), UNCHANGED <<closed, ctx>>
    PROVE  WorkersTypeOK' /\ ChannelTypeOK' /\ WorkersAt'
<1> USE DEF TypeOK, WorkersTypeOK, ChannelTypeOK, WorkersAt, WorkerAt
<1>1. CASE Receive(w)
  <2>1. /\ Head(eventsChan) \in Messages
        /\ Tail(eventsChan) \in Seq(Messages)
        /\ Len(Tail(eventsChan)) =< ChanCap
        /\ eventsChan' = Tail(eventsChan)
    BY <1>1 DEF Receive, TakeFirst
  <2>2. CASE EventOf(Head(eventsChan)) \notin Valid
    BY <1>1, <2>1, <2>2 DEF Receive, memoryVars
  <2>3. CASE EventOf(Head(eventsChan)) \in Valid
    <3>1. batch' = [batch EXCEPT ![w] = Append(@, Head(eventsChan))]
      BY <1>1, <2>3 DEF Receive
    <3>2. /\ batch'[w] \in Seq(Messages)
          /\ Len(batch'[w]) = Len(batch[w]) + 1
          /\ wpc[w] = "select"
      BY <1>1, <2>1, <3>1 DEF Receive
    <3>3. CASE Full(batch'[w])
      <4>1. BeginSave(w, "stay") /\ UNCHANGED <<rows, faults>>
        BY <1>1, <2>3, <3>1, <3>3 DEF Receive
      <4> QED BY <2>1, <3>1, <3>2, <4>1 DEF BeginSave
    <3>4. CASE ~ Full(batch'[w])
      BY <1>1, <2>1, <2>3, <3>1, <3>2, <3>4 DEF Receive, Full
    <3> QED BY <3>3, <3>4
  <2> QED BY <2>2, <2>3
<1>2. ASSUME NEW x \in {"stay", "closed", "cancelled"}, BeginSave(w, x),
             UNCHANGED <<batch, rows, faults, eventsChan>>
      PROVE  WorkersTypeOK' /\ ChannelTypeOK' /\ WorkersAt'
  BY <1>2 DEF BeginSave
<1>3. ASSUME NEW e \in BOOLEAN, Return(w, e), UNCHANGED <<rows, faults, eventsChan>>
      PROVE  WorkersTypeOK' /\ ChannelTypeOK' /\ WorkersAt'
  BY <1>3, EmptyBatch DEF Return, ForgetSave
<1>4. ASSUME AttemptFailed(w), attempt[w] < RetryAttempts, UNCHANGED eventsChan,
             faults' \in 0..MaxFaults
      PROVE  WorkersTypeOK' /\ ChannelTypeOK' /\ WorkersAt'
  BY <1>4 DEF AttemptFailed
<1>5. CASE Tick(w)
  BY <1>2, <1>5 DEF Tick
<1>6. CASE ChannelClosed(w)
  BY <1>2, <1>3, <1>6 DEF ChannelClosed
<1>7. CASE CtxDone(w)
  BY <1>2, <1>3, <1>7 DEF CtxDone
<1>8. CASE StartInsert(w)
  BY <1>4, <1>8 DEF StartInsert
<1>9. CASE AbortBackoff(w)
  BY <1>3, <1>9 DEF AbortBackoff
<1>10. CASE GiveUp(w)
  BY <1>3, <1>10 DEF GiveUp
<1>11. CASE Apply(w)
  <2>1. EventsIn(batch[w]) \subseteq Events
    BY <1>11 DEF Apply, Accepted
  <2>2. \A v \in Workers : EventsIn(batch'[v]) = EventsIn(batch[v])
    BY <1>11 DEF Apply, EventsIn
  <2> QED BY <1>11, <2>1, <2>2 DEF Apply
<1>12. CASE InsertError(w)
  BY <1>4, <1>12 DEF InsertError
<1>13. CASE InsertOk(w)
  <2>1. CASE exit[w] = "stay"
    <3>1. /\ wpc' = [wpc EXCEPT ![w] = "select"]
          /\ batch' = [batch EXCEPT ![w] = <<>>]
          /\ ForgetSave(w)
          /\ UNCHANGED <<failed, rows, faults, eventsChan>>
      BY <1>13, <2>1 DEF InsertOk
    <3> QED BY <3>1, EmptyBatch DEF ForgetSave
  <2>2. CASE exit[w] # "stay"
    BY <1>3, <1>13, <2>2 DEF InsertOk
  <2> QED BY <2>1, <2>2
<1> QED BY <1>1, <1>5, <1>6, <1>7, <1>8, <1>9, <1>10, <1>11, <1>12, <1>13 DEF Worker

\* A pool just started, or gone with its process, satisfies them.
LEMMA FreshWorkersTypes ==
    ASSUME TypeOK, FreshWorkers
    PROVE  WorkersTypeOK' /\ WorkersAt'
<1>1. failed' \in BOOLEAN
  BY DEF FreshWorkers, Fresh
<1>2. /\ batch' \in [Workers -> Seq(Messages)]
      /\ \A w \in Workers : Len(batch'[w]) < BatchSize
  BY EmptyBatch DEF FreshWorkers, Fresh
<1>3. /\ wpc' = [w \in Workers |-> "select"]
      /\ attempt' \in [Workers -> 0..RetryAttempts]
      /\ exit' \in [Workers -> {"stay", "closed", "cancelled"}]
      /\ UNCHANGED <<rows, faults>>
  BY DEF FreshWorkers, Fresh
<1> QED BY <1>1, <1>2, <1>3 DEF TypeOK, WorkersTypeOK, WorkersAt, WorkerAt

\* The types, and the facts about each point of the worker's loop that
\* they need: a batch never outgrows BatchSize because a full one is saved
\* at once, and no attempt is made beyond RetryAttempts.
THEOREM TypeCorrect == Spec => [](TypeOK /\ WorkersAt)
<1> DEFINE TInv == TypeOK /\ WorkersAt
<1>1. Init => TInv
  <2> SUFFICES ASSUME Init PROVE TInv
    OBVIOUS
  <2>1. /\ closed \in BOOLEAN /\ ctx \in BOOLEAN
        /\ failed \in BOOLEAN /\ up \in BOOLEAN
    BY DEF Init, WorkersInit, Fresh
  <2>2. ChannelTypeOK
    BY <2>1, EmptyBatch DEF Init, ChannelTypeOK
  <2>3. ConsumerTypeOK
    BY DEF Init, ConsumerInit, ConsumerTypeOK
  <2>4. /\ batch \in [Workers -> Seq(Messages)]
        /\ \A w \in Workers : Len(batch[w]) < BatchSize
    BY EmptyBatch DEF Init, WorkersInit, Fresh
  <2>5. /\ wpc = [w \in Workers |-> "select"]
        /\ attempt \in [Workers -> 0..RetryAttempts]
        /\ exit \in [Workers -> {"stay", "closed", "cancelled"}]
        /\ rows = {} /\ faults \in 0..MaxFaults
    BY DEF Init, WorkersInit, Fresh
  <2>6. WorkersTypeOK /\ WorkersAt
    BY <2>1, <2>4, <2>5 DEF WorkersTypeOK, WorkersAt, WorkerAt
  <2>7. starts \in 0..MaxStarts /\ stops \in 0..MaxStops
    BY DEF Init
  <2> QED BY <2>1, <2>2, <2>3, <2>6, <2>7 DEF TypeOK
<1>2. TInv /\ [Next]_vars => TInv'
  <2> SUFFICES ASSUME TypeOK, WorkersAt, [Next]_vars PROVE TInv'
    OBVIOUS
  <2>0. ASSUME FreshWorkers PROVE WorkersTypeOK' /\ WorkersAt'
    BY <2>0, FreshWorkersTypes
  <2> USE DEF TypeOK
  <2>1. ASSUME UNCHANGED workerVars PROVE WorkersTypeOK' /\ WorkersAt'
    BY <2>1 DEF workerVars, WorkersTypeOK, WorkersAt, WorkerAt, EventsIn
  <2>2. ASSUME UNCHANGED channelVars PROVE ChannelTypeOK'
    BY <2>2 DEF channelVars, ChannelTypeOK
  <2>3. ASSUME ChannelReset PROVE ChannelTypeOK'
    <3>1. closed' \in BOOLEAN /\ ctx' \in BOOLEAN
      BY <2>3 DEF ChannelReset
    <3>2. eventsChan' \in Seq(Messages) /\ Len(eventsChan') =< ChanCap
      BY <2>3, EmptyBatch DEF ChannelReset
    <3> QED BY <3>1, <3>2 DEF ChannelTypeOK
  <2>4. ASSUME UNCHANGED consumerVars PROVE ConsumerTypeOK'
    BY <2>4 DEF consumerVars, ConsumerTypeOK
  <2>5. CASE PublishStep
    <3>1. ConsumerTypeOK'
      BY <2>5 DEF PublishStep, Publish, ConsumerTypeOK
    <3> QED BY <2>5, <2>1, <2>2, <3>1 DEF PublishStep, lifeVars
  <2>6. CASE Start
    <3>1. ConsumerTypeOK'
      BY <2>6 DEF Start, OpenReader, StartOffset, ConsumerTypeOK
    <3> QED BY <2>6, <2>3, <3>1, <2>0 DEF Start
  <2>7. CASE Signal
    BY <2>7, <2>1, <2>4 DEF Signal, ChannelTypeOK
  <2>8. ASSUME Exit PROVE TInv'
    <3>1. ConsumerTypeOK'
      BY <2>8 DEF Exit, Halt, CloseReader, ConsumerTypeOK
    <3> QED BY <2>8, <2>3, <3>1, <2>0 DEF Exit, Halt
  <2>9. CASE Crash
    <3>1. ConsumerTypeOK'
      BY <2>9 DEF Crash, Halt, ConsumerTypeOK
    <3>2. stops' \in 0..MaxStops
      BY <2>9 DEF Crash
    <3> QED BY <2>9, <2>3, <3>1, <3>2, <2>0 DEF Crash, Halt
  <2>10. CASE ConsumerStep
    BY <2>10, <2>1, ConsumerKeepsTypes DEF ConsumerOK, ConsumerStep, lifeVars
  <2>11. CASE FlushStep
    <3>1. ConsumerTypeOK'
      BY <2>11 DEF FlushStep, FlushOffsets, ConsumerTypeOK
    <3> QED BY <2>11, <2>1, <2>2, <3>1 DEF FlushStep, lifeVars
  <2>12. ASSUME NEW w \in Workers, WorkerStep(w) PROVE TInv'
    BY <2>12, <2>4, WorkerKeepsTypes DEF WorkerStep, lifeVars
  <2>13. CASE UNCHANGED vars
    BY <2>13, <2>1, <2>2, <2>4 DEF vars, lifeVars
  <2> QED
    BY <2>5, <2>6, <2>7, <2>8, <2>9, <2>10, <2>11, <2>12, <2>13
    DEF Next, ExitClean, ExitTimeout
<1> QED BY <1>1, <1>2, PTL DEF Spec

-----------------------------------------------------------------------------
(* Nothing falls between the goroutines.                                   *)

\* A worker's step that does not fail the group keeps a message that can be
\* stored: it stays where it is, moves from the channel to the batch, or
\* has its event in the table when its batch is let go.
LEMMA WorkerKeepsHeld ==
    ASSUME TypeOK, WorkersAt, NEW w \in Workers, Worker(w), ~ failed',
           UNCHANGED consumerVars,
           NEW m, Ingestible(m), InFlight(m) \/ Stored(m)
    PROVE  (InFlight(m) \/ Stored(m))'
<1> USE DEF TypeOK, WorkersTypeOK, ChannelTypeOK
<1>1. rows \subseteq rows'
  BY DEF Worker, Receive, Tick, ChannelClosed, CtxDone, StartInsert, AbortBackoff,
         GiveUp, Apply, InsertError, InsertOk, AttemptFailed
<1>2. CASE Stored(m)
  BY <1>1, <1>2 DEF Stored
<1>3. CASE Offered(m)
  BY <1>3 DEF Offered, InFlight, consumerVars
<1>4. CASE Receive(w)
  <2>1. /\ eventsChan # <<>> /\ eventsChan' = Tail(eventsChan)
        /\ eventsChan \in Seq(Messages)
    BY <1>4 DEF Receive, TakeFirst
  <2>2. ASSUME NEW i \in DOMAIN eventsChan, eventsChan[i] = m, i # 1
        PROVE  Buffered(m)'
    <3>1. i - 1 \in DOMAIN eventsChan' /\ eventsChan'[i - 1] = eventsChan[i]
      BY <2>1, <2>2
    <3> QED BY <2>2, <3>1 DEF Buffered
  <2>3. CASE m = Head(eventsChan)
    <3>1. batch' = [batch EXCEPT ![w] = Append(@, m)]
      BY <1>4, <2>3 DEF Receive, Ingestible
    <3>2. /\ Len(batch[w]) + 1 \in DOMAIN batch'[w]
          /\ batch'[w][Len(batch[w]) + 1] = m
      BY <2>1, <2>3, <3>1
    <3> QED BY <3>2 DEF Batched, InFlight
  <2>4. ASSUME NEW v \in Workers, NEW i \in DOMAIN batch[v]
        PROVE  i \in DOMAIN batch'[v] /\ batch'[v][i] = batch[v][i]
    <3>1. batch' = batch \/ batch' = [batch EXCEPT ![w] = Append(@, Head(eventsChan))]
      BY <1>4 DEF Receive, memoryVars
    <3>2. Head(eventsChan) \in Messages
      BY <2>1
    <3>3. CASE v = w /\ batch' # batch
      <4>1. batch[w] \in Seq(Messages) /\ batch'[w] = Append(batch[w], Head(eventsChan))
        BY <3>1, <3>3
      <4> QED BY <2>4, <3>2, <3>3, <4>1
    <3>4. CASE ~ (v = w /\ batch' # batch)
      BY <2>4, <3>1, <3>4
    <3> QED BY <3>3, <3>4
  <2>5. CASE Batched(m)
    BY <2>4, <2>5 DEF Batched, InFlight
  <2>6. CASE Buffered(m)
    <3>1. PICK i \in DOMAIN eventsChan : eventsChan[i] = m
      BY <2>6 DEF Buffered
    <3>2. CASE i = 1
      BY <2>1, <2>3, <3>1, <3>2
    <3>3. CASE i # 1
      BY <2>2, <3>1, <3>3 DEF InFlight
    <3> QED BY <3>2, <3>3
  <2> QED BY <1>2, <1>3, <2>5, <2>6 DEF InFlight
<1>5. CASE ~ Receive(w)
  <2>1. eventsChan' = eventsChan
    BY <1>5 DEF Worker, Tick, ChannelClosed, CtxDone, StartInsert, AbortBackoff,
                GiveUp, Apply, InsertError, InsertOk
  <2>2. CASE Buffered(m)
    BY <2>1, <2>2 DEF Buffered, InFlight
  <2>3. CASE Batched(m)
    <3>1. PICK v \in Workers : \E i \in DOMAIN batch[v] : batch[v][i] = m
      BY <2>3 DEF Batched
    <3>2. CASE batch'[v] = batch[v]
      BY <3>1, <3>2 DEF Batched, InFlight
    <3>3. CASE batch'[v] # batch[v]
      \* Only a returning worker and one whose batch is saved let it go.
      <4>1. v = w /\ (InsertOk(w) \/ (batch[w] = <<>> /\ ChannelClosed(w)))
        BY <1>5, <3>3 DEF Worker, Tick, ChannelClosed, CtxDone, StartInsert,
           AbortBackoff, GiveUp, Apply, InsertError, InsertOk, Return, AttemptFailed
      <4>2. batch[w] # <<>>
        BY <3>1, <4>1
      <4>3. EventsIn(batch[w]) \subseteq rows
        BY <4>1, <4>2 DEF InsertOk, WorkersAt, WorkerAt
      <4> QED BY <1>1, <3>1, <4>1, <4>3 DEF EventsIn, Stored
    <3> QED BY <3>2, <3>3
  <2> QED BY <1>2, <1>3, <2>2, <2>3 DEF InFlight
<1> QED BY <1>4, <1>5

\* A step of the consumer under a live context keeps one as well.
LEMMA ConsumerKeepsHeld ==
    ASSUME TypeOK, ConsumeEvents, ~ ctx, UNCHANGED workerVars,
           NEW m, Ingestible(m), InFlight(m) \/ Stored(m)
    PROVE  (InFlight(m) \/ Stored(m))'
<1> USE DEF TypeOK, ConsumerTypeOK, ChannelTypeOK
<1>1. CASE Stored(m)
  BY <1>1 DEF Stored, workerVars
<1>2. CASE Batched(m)
  BY <1>2 DEF Batched, InFlight, workerVars
<1>3. CASE Send
  <2>1. CASE Buffered(m)
    <3>1. PICK i \in DOMAIN eventsChan : eventsChan[i] = m
      BY <2>1 DEF Buffered
    <3>2. msg \in Messages /\ eventsChan' = Append(eventsChan, msg)
      BY <1>3 DEF Send, Offer
    <3>3. i \in DOMAIN eventsChan' /\ eventsChan'[i] = m
      BY <3>1, <3>2
    <3> QED BY <3>3 DEF Buffered, InFlight
  <2>2. CASE Offered(m)
    <3>1. Len(eventsChan) + 1 \in DOMAIN eventsChan' /\ eventsChan'[Len(eventsChan) + 1] = m
      BY <1>3, <2>2 DEF Send, Offer, Offered
    <3> QED BY <3>1 DEF Buffered, InFlight
  <2> QED BY <1>1, <1>2, <2>1, <2>2 DEF InFlight
<1>4. CASE ~ Send
  <2>1. eventsChan' = eventsChan /\ kpc # "send"
    BY <1>4 DEF ConsumeEvents, FetchMessage, FetchCancelled, SendCancelled, Commit,
                CommitCancelled, CommitNow
  <2> QED BY <1>1, <1>2, <2>1 DEF Offered, Buffered, InFlight
<1> QED BY <1>3, <1>4

\* A message newly counted as fetched is offered, unless it does not parse.
LEMMA FetchedIsOffered ==
    ASSUME TypeOK, ConsumeEvents, NEW p \in Partitions, NEW m \in Fetched(p)',
           m \notin Fetched(p), Ingestible(m)
    PROVE  InFlight(m)'
<1> USE DEF TypeOK, ConsumerTypeOK
<1>1. PICK q \in Partitions : FetchMessage(q)
  BY DEF ConsumeEvents, Fetched, FetchCancelled, Send, SendCancelled, Commit,
         CommitCancelled, CommitNow
<1>2. q = p /\ m = <<p, position[p] + 1>>
  BY <1>1 DEF FetchMessage, Fetched
<1> QED BY <1>1, <1>2 DEF FetchMessage, AfterParse, Ingestible, InFlight, Offered

\* While the service is healthy every message it has fetched and may store
\* is held by one of its goroutines or by the channel, or is stored.
THEOREM NothingDroppedHolds == Spec => []NothingDropped
<1>1. Init => NothingDropped
  BY DEF Init, NothingDropped, Healthy
<1>2. TypeOK /\ WorkersAt /\ NothingDropped /\ [Next]_vars => NothingDropped'
  <2> SUFFICES ASSUME TypeOK, WorkersAt, NothingDropped, [Next]_vars, Healthy',
                      NEW p \in Partitions, NEW m \in Fetched(p)', Ingestible(m)
               PROVE  (InFlight(m) \/ Stored(m))'
    BY DEF NothingDropped, Ingestible
  <2>1. ASSUME Healthy, m \in Fetched(p) PROVE InFlight(m) \/ Stored(m)
    BY <2>1 DEF NothingDropped
  <2>2. CASE Start
    BY <2>2 DEF Start, OpenReader, StartOffset, Fetched, TypeOK, ConsumerTypeOK
  <2>3. ASSUME UNCHANGED <<position, resume>> PROVE m \in Fetched(p)
    BY <2>3 DEF Fetched
  <2>4. CASE ConsumerStep
    <3>1. Healthy
      BY <2>4 DEF ConsumerStep, Healthy, workerVars, lifeVars
    <3>2. CASE m \in Fetched(p)
      BY <2>1, <2>4, <3>1, <3>2, ConsumerKeepsHeld DEF ConsumerStep, Healthy
    <3>3. CASE m \notin Fetched(p)
      BY <2>4, <3>3, FetchedIsOffered DEF ConsumerStep
    <3> QED BY <3>2, <3>3
  <2>5. ASSUME NEW w \in Workers, WorkerStep(w) PROVE (InFlight(m) \/ Stored(m))'
    <3>1. ~ failed' => ~ failed
      BY <2>5 DEF WorkerStep, Worker, Receive, Tick, ChannelClosed, CtxDone, StartInsert,
           AbortBackoff, GiveUp, Apply, InsertError, InsertOk, Return, AttemptFailed,
           BeginSave, memoryVars
    <3>2. Healthy /\ ~ failed'
      BY <2>5, <3>1 DEF WorkerStep, Healthy, lifeVars
    <3>3. InFlight(m) \/ Stored(m)
      BY <2>1, <2>3, <2>5, <3>2 DEF WorkerStep, consumerVars
    <3> QED BY <2>5, <3>2, <3>3, WorkerKeepsHeld DEF WorkerStep
  <2>6. ASSUME UNCHANGED <<position, resume, kpc, msg, channelVars, workerVars, up>>
        PROVE  (InFlight(m) \/ Stored(m))'
    <3>1. Healthy
      BY <2>6 DEF Healthy, channelVars, workerVars
    <3> QED BY <2>1, <2>3, <2>6, <3>1 DEF InFlight, Offered, Buffered, Batched, Stored,
               channelVars, workerVars
  <2>7. CASE PublishStep
    BY <2>6, <2>7 DEF PublishStep, lifeVars
  <2>8. CASE FlushStep
    BY <2>6, <2>8 DEF FlushStep, FlushOffsets, lifeVars
  <2>9. CASE UNCHANGED vars
    BY <2>6, <2>9 DEF vars, consumerVars, lifeVars
  <2>10. ~ (Signal \/ Exit \/ Crash)
    BY DEF Signal, Exit, Crash, Halt, Healthy
  <2> QED
    BY <2>2, <2>4, <2>5, <2>7, <2>8, <2>9, <2>10 DEF Next, ExitClean, ExitTimeout
<1> QED BY <1>1, <1>2, TypeCorrect, PTL DEF Spec

-----------------------------------------------------------------------------
(* An acknowledgement never overtakes the hand-off.                        *)

\* Where the reader stands holds in every life of the process.
LEMMA ReaderInvariant == Spec => []ReaderOK(up)
<1>1. Init /\ TypeOK => ReaderOK(up)
  <2> SUFFICES ASSUME Init, TypeOK PROVE ReaderOK(up)
    OBVIOUS
  <2>1. ConsumerInit /\ up = FALSE
    BY DEF Init
  <2> QED
    BY <2>1, ConsumerBegins DEF ReaderOK, ReaderFits, ConsumerOK, TypeOK
<1>2. TypeOK /\ TypeOK' /\ ReaderOK(up) /\ [Next]_vars => ReaderOK(up)'
  <2> SUFFICES ASSUME TypeOK, TypeOK', ReaderOK(up), [Next]_vars PROVE ReaderOK(up)'
    OBVIOUS
  <2>1. ConsumerOK' /\ up \in BOOLEAN
    BY DEF TypeOK, ConsumerOK
  <2>2. ASSUME UNCHANGED <<committed, stash, position, resume, end, msg, up>> PROVE ReaderOK(up)'
    BY <2>1, <2>2 DEF ReaderOK, OffsetsOrdered, MessageInHand, ReaderFits
  <2>3. up => ReaderOK(TRUE)
    BY DEF ReaderOK, ReaderFits
  <2>4. ~ up => ReaderOK(FALSE)
    BY DEF ReaderOK, ReaderFits
  <2>5. ReaderFits(TRUE)' => ReaderFits(up)'
    BY DEF ReaderFits
  <2>6. ReaderFits(FALSE)' /\ ~ up' => ReaderFits(up)'
    BY DEF ReaderFits
  <2>7. CASE Start
    BY <2>1, <2>4, <2>5, <2>7, StartKeepsReader DEF Start, ReaderOK
  <2>8. CASE ExitClean \/ ExitTimeout \/ Crash
    <3>1. /\ up /\ ~ up' /\ kpc' = "closed" /\ msg' = NoMessage
          /\ committed' \in {committed, stash} /\ stash' = committed'
          /\ UNCHANGED <<end, position, resume>>
      BY <2>8 DEF ExitClean, ExitTimeout, Exit, Crash, CloseReader, Halt
    <3> QED
      BY <2>1, <2>3, <2>6, <3>1, EndKeepsReader DEF ReaderOK
  <2>9. CASE ConsumerStep
    <3>1. up /\ up' /\ ConsumeEvents /\ UNCHANGED ctx
      BY <2>9 DEF ConsumerStep, lifeVars
    <3>2. ReaderOK(TRUE)'
      BY <2>3, <3>1, ConsumerKeepsOK
    <3> QED
      BY <2>1, <2>5, <3>2 DEF ReaderOK
  <2>10. CASE FlushStep
    <3>1. committed' = stash /\ UNCHANGED <<stash, position, resume, end, msg, up>>
      BY <2>10 DEF FlushStep, FlushOffsets, lifeVars
    <3>2. OffsetsOrdered'
      <4>1. \A p \in Partitions : stash[p] =< stash[p]
        BY OffsetsAreInts DEF ReaderOK
      <4> QED
        BY <3>1, <4>1 DEF ReaderOK, OffsetsOrdered
    <3> QED
      BY <2>1, <3>1, <3>2 DEF ReaderOK, MessageInHand, ReaderFits
  <2>11. CASE PublishStep
    <3>1. PICK q \in Partitions : Publish(q)
      BY <2>11 DEF PublishStep
    <3>2. UNCHANGED <<committed, stash, position, resume, kpc, msg, up>>
      BY <2>11 DEF PublishStep, lifeVars
    <3>3. OffsetsOrdered' /\ MessageInHand' /\ ReaderFits(up)'
      BY <2>1, <3>1, <3>2, PublishKeepsReader
    <3> QED
      BY <2>1, <3>3 DEF ReaderOK
  <2>12. CASE Signal
    BY <2>2, <2>12 DEF Signal, consumerVars
  <2>13. ASSUME NEW w \in Workers, WorkerStep(w) PROVE ReaderOK(up)'
    BY <2>2, <2>13 DEF WorkerStep, consumerVars, lifeVars
  <2>14. CASE UNCHANGED vars
    BY <2>2, <2>14 DEF vars, consumerVars, lifeVars
  <2> QED
    BY <2>7, <2>8, <2>9, <2>10, <2>11, <2>12, <2>13, <2>14 DEF Next
<1> QED
  BY <1>1, <1>2, TypeCorrect, PTL DEF Spec

\* In every state, of every life of the process, a message the channel has
\* not taken is beyond every offset the reader holds or the group has
\* committed: a crash there brings it back.
THEOREM AckAfterHandOffHolds == Spec => []AckAfterHandOff
<1>1. ReaderOK(up) => AckAfterHandOff
  BY DEF ReaderOK, ConsumerOK, ConsumerTypeOK, OffsetsOrdered, MessageInHand, AckAfterHandOff,
         Fetched, Offered, NoMessage, NoOffset
<1> QED BY <1>1, ReaderInvariant, PTL
-----------------------------------------------------------------------------
(* One holder.  A delivery of the broker is in one place, the consumer's   *)
(* hand, one slot of the channel or one slot of one worker's batch; a      *)
(* batch is let go when it is saved or with an error; channel and batches  *)
(* hold so much at most.  A delivery enters when it is fetched, and is new *)
(* then because whatever the process holds is behind the reader's position.*)

Behind(m) == m[2] =< position[m[1]]

\* What the process holds was fetched by the reader it has now.
HeldBehind ==
    /\ \A i \in DOMAIN eventsChan : Behind(eventsChan[i])
    /\ \A w \in Workers : \A i \in DOMAIN batch[w] : Behind(batch[w][i])
    /\ kpc = "send" => Behind(msg)

HolderInv == OneHolder /\ HeldBehind

\* A process that begins or ends holds nothing.
LEMMA EmptyProcess ==
    ASSUME eventsChan' = <<>>, \A w \in Workers : batch'[w] = <<>>, kpc' # "send"
    PROVE  HolderInv'
BY DEF HolderInv, OneHolder, HeldBehind, Batched, Offered

\* A step that lets go of batches, or of the message in hand, and moves
\* nothing else.
LEMMA LettingGo ==
    ASSUME HolderInv, UNCHANGED <<eventsChan, position>>,
           \A w \in Workers : batch'[w] = batch[w] \/ batch'[w] = <<>>,
           kpc' = "send" => kpc = "send" /\ msg' = msg
    PROVE  HolderInv'
<1>1. \A w \in Workers : \A i \in DOMAIN batch'[w] : i \in DOMAIN batch[w] /\ batch'[w][i] = batch[w][i]
  OBVIOUS
<1>2. \A m : Batched(m)' => Batched(m)
  BY <1>1 DEF Batched
<1>3. \A m : Offered(m)' => Offered(m)
  BY DEF Offered
<1>4. OneHolder'
  BY <1>1, <1>2, <1>3 DEF HolderInv, OneHolder
<1>5. HeldBehind'
  BY <1>1 DEF HolderInv, HeldBehind, Behind
<1> QED
  BY <1>4, <1>5 DEF HolderInv

LEMMA FetchHolds ==
    ASSUME TypeOK, HolderInv, NEW p \in Partitions, FetchMessage(p), UNCHANGED batch
    PROVE  HolderInv'
<1>1. /\ position \in [Partitions -> Nat] /\ eventsChan \in Seq(Messages)
      /\ batch \in [Workers -> Seq(Messages)]
  BY DEF TypeOK, ConsumerTypeOK, ChannelTypeOK, WorkersTypeOK
<1>2. /\ position' = [position EXCEPT ![p] = @ + 1] /\ msg' = <<p, position[p] + 1>>
      /\ UNCHANGED eventsChan
  BY DEF FetchMessage
<1>3. \A m \in Messages : Behind(m) => Behind(m)' /\ m # msg'
  BY <1>1, <1>2 DEF Behind, Messages
<1>4. /\ \A i \in DOMAIN eventsChan : eventsChan[i] \in Messages
      /\ \A w \in Workers : \A i \in DOMAIN batch[w] : batch[w][i] \in Messages
  BY <1>1
<1>5. Behind(msg)'
  BY <1>1, <1>2 DEF Behind
<1>6. HeldBehind'
  BY <1>2, <1>3, <1>4, <1>5 DEF HolderInv, HeldBehind, Behind
<1>7. /\ \A i \in DOMAIN eventsChan : eventsChan[i] # msg'
      /\ \A w \in Workers : \A i \in DOMAIN batch[w] : batch[w][i] # msg'
  BY <1>3, <1>4 DEF HolderInv, HeldBehind
<1>8. OneHolder'
  BY <1>2, <1>7 DEF HolderInv, OneHolder, Batched, Offered
<1> QED
  BY <1>6, <1>8 DEF HolderInv

LEMMA SendHolds ==
    ASSUME TypeOK, HolderInv, Send, UNCHANGED batch
    PROVE  HolderInv'
<1>1. eventsChan \in Seq(Messages) /\ msg \in Messages
  BY DEF TypeOK, ConsumerTypeOK, ChannelTypeOK, Send
<1>2. /\ eventsChan' = Append(eventsChan, msg) /\ kpc = "send" /\ kpc' = "commit"
      /\ UNCHANGED <<position, msg>>
  BY DEF Send, Offer
<1>3. \A i \in DOMAIN eventsChan' :
        \/ i \in DOMAIN eventsChan /\ eventsChan'[i] = eventsChan[i]
        \/ i = Len(eventsChan) + 1 /\ eventsChan'[i] = msg
  BY <1>1, <1>2
<1>4. /\ \A i \in DOMAIN eventsChan : eventsChan[i] # msg
      /\ ~ Batched(msg) /\ Behind(msg)
  BY <1>2 DEF HolderInv, OneHolder, HeldBehind, Offered
<1>5. \A i \in DOMAIN eventsChan' : ~ Batched(eventsChan'[i])
  BY <1>3, <1>4 DEF HolderInv, OneHolder
<1>6. \A i, j \in DOMAIN eventsChan' : eventsChan'[i] = eventsChan'[j] => i = j
  BY <1>3, <1>4 DEF HolderInv, OneHolder
<1>7. OneHolder'
  BY <1>2, <1>5, <1>6 DEF HolderInv, OneHolder, Batched, Offered
<1>8. HeldBehind'
  BY <1>2, <1>3, <1>4 DEF HolderInv, HeldBehind, Behind
<1> QED
  BY <1>7, <1>8 DEF HolderInv

\* A worker takes the channel's first message; the batch grows by it or,
\* when its event is invalid, stays as it is.
LEMMA ReceiveHolds ==
    ASSUME TypeOK, HolderInv, NEW w \in Workers, Receive(w), UNCHANGED <<position, kpc, msg>>
    PROVE  HolderInv'
<1> DEFINE h == Head(eventsChan)
<1>1. /\ eventsChan \in Seq(Messages) /\ eventsChan # <<>> /\ eventsChan' = Tail(eventsChan)
      /\ batch \in [Workers -> Seq(Messages)]
  BY DEF TypeOK, ChannelTypeOK, WorkersTypeOK, Receive, TakeFirst
<1>2. batch' = batch \/ batch' = [batch EXCEPT ![w] = Append(@, h)]
  BY DEF Receive, memoryVars
<1>3. /\ 1 \in DOMAIN eventsChan /\ h = eventsChan[1] /\ h \in Messages
      /\ \A i \in DOMAIN eventsChan' :
           i + 1 \in DOMAIN eventsChan /\ i + 1 # 1 /\ eventsChan'[i] = eventsChan[i + 1] /\ i \in Nat
  BY <1>1
<1>4. ~ Batched(h) /\ ~ Offered(h) /\ Behind(h)
      /\ \A i \in DOMAIN eventsChan' : eventsChan'[i] # h
  BY <1>3 DEF HolderInv, OneHolder, HeldBehind
<1> HIDE DEF h
<1>5. \A v \in Workers : \A i \in DOMAIN batch'[v] :
        \/ i \in DOMAIN batch[v] /\ batch'[v][i] = batch[v][i]
        \/ v = w /\ i = Len(batch[w]) + 1 /\ batch'[v][i] = h
  <2> SUFFICES ASSUME NEW v \in Workers, NEW i \in DOMAIN batch'[v]
               PROVE  \/ i \in DOMAIN batch[v] /\ batch'[v][i] = batch[v][i]
                      \/ v = w /\ i = Len(batch[w]) + 1 /\ batch'[v][i] = h
    OBVIOUS
  <2>1. CASE batch'[v] = batch[v]
    BY <2>1
  <2>2. CASE v = w /\ batch'[v] = Append(batch[w], h)
    <3>1. batch[w] \in Seq(Messages) /\ h \in Messages
      BY <1>1, <1>3
    <3> QED
      BY <2>2, <3>1
  <2> QED
    BY <1>1, <1>2, <2>1, <2>2
<1>6. /\ \A i, j \in DOMAIN eventsChan' : eventsChan'[i] = eventsChan'[j] => i = j
      /\ \A i \in DOMAIN eventsChan' : ~ Batched(eventsChan'[i]) /\ ~ Offered(eventsChan'[i])
  BY <1>3 DEF HolderInv, OneHolder
<1>7. \A u, v \in Workers : \A i \in DOMAIN batch'[u] : \A j \in DOMAIN batch'[v] :
        batch'[u][i] = batch'[v][j] => u = v /\ i = j
  BY <1>4, <1>5 DEF HolderInv, OneHolder, Batched
<1>8. \A m : m # h /\ ~ Batched(m) => ~ (\E v \in Workers : \E i \in DOMAIN batch'[v] : batch'[v][i] = m)
  BY <1>5 DEF Batched
<1>9. kpc' = "send" => msg' # h /\ ~ Batched(msg')
  BY <1>4 DEF HolderInv, OneHolder, Offered
<1>10. OneHolder'
  BY <1>4, <1>6, <1>7, <1>8, <1>9 DEF OneHolder, Batched, Offered
<1>11. HeldBehind'
  BY <1>3, <1>4, <1>5 DEF HolderInv, HeldBehind, Behind
<1> QED
  BY <1>10, <1>11 DEF HolderInv

LEMMA WorkerHolds ==
    ASSUME TypeOK, HolderInv, NEW w \in Workers, Worker(w), UNCHANGED <<position, kpc, msg>>
    PROVE  HolderInv'
<1>1. CASE Receive(w)
  BY <1>1, ReceiveHolds
<1>2. CASE ~ Receive(w)
  <2>1. UNCHANGED eventsChan
    BY <1>2 DEF Worker, Tick, ChannelClosed, CtxDone, StartInsert, AbortBackoff,
                GiveUp, Apply, InsertError, InsertOk
  <2>2. batch \in [Workers -> Seq(Messages)]
    BY DEF TypeOK, WorkersTypeOK
  <2>3. UNCHANGED batch \/ batch' = [batch EXCEPT ![w] = <<>>]
    BY <1>2 DEF Worker, Tick, BeginSave, ChannelClosed, CtxDone, StartInsert, AbortBackoff,
                GiveUp, Apply, InsertError, InsertOk, Return, AttemptFailed
  <2>4. \A v \in Workers : batch'[v] = batch[v] \/ batch'[v] = <<>>
    BY <2>2, <2>3
  <2> QED
    BY <2>1, <2>4, LettingGo
<1> QED
  BY <1>1, <1>2

LEMMA ConsumerHolds ==
    ASSUME TypeOK, HolderInv, ConsumeEvents, UNCHANGED batch
    PROVE  HolderInv'
<1>1. ASSUME NEW p \in Partitions, FetchMessage(p) PROVE HolderInv'
  BY <1>1, FetchHolds
<1>2. CASE Send
  BY <1>2, SendHolds
<1>3. CASE FetchCancelled \/ SendCancelled \/ Commit \/ CommitCancelled \/ CommitNow
  <2>1. UNCHANGED <<eventsChan, position>> /\ kpc' # "send"
    BY <1>3 DEF FetchCancelled, SendCancelled, Commit, CommitCancelled, CommitNow,
                LoopHead, BackToLoop
  <2> QED
    BY <2>1, LettingGo
<1> QED
  BY <1>1, <1>2, <1>3 DEF ConsumeEvents

LEMMA HolderInvariant == Spec => []HolderInv
<1>1. Init => HolderInv
  BY DEF Init, ConsumerInit, WorkersInit, Fresh, HolderInv, OneHolder, HeldBehind, Batched, Offered
<1>2. TypeOK /\ HolderInv /\ [Next]_vars => HolderInv'
  <2> SUFFICES ASSUME TypeOK, HolderInv, [Next]_vars PROVE HolderInv'
    OBVIOUS
  <2>1. CASE Start
    BY <2>1, EmptyProcess DEF Start, ChannelReset, FreshWorkers, Fresh, OpenReader
  <2>2. CASE ExitClean \/ ExitTimeout \/ Crash
    BY <2>2, EmptyProcess DEF ExitClean, ExitTimeout, Exit, Crash, Halt, ChannelReset, FreshWorkers, Fresh
  <2>3. CASE ConsumerStep
    BY <2>3, ConsumerHolds DEF ConsumerStep, workerVars
  <2>4. ASSUME NEW w \in Workers, WorkerStep(w) PROVE HolderInv'
    BY <2>4, WorkerHolds DEF WorkerStep, consumerVars
  <2>5. CASE PublishStep \/ Signal \/ FlushStep \/ UNCHANGED vars
    <3>1. UNCHANGED <<eventsChan, position, batch, kpc, msg>>
      BY <2>5 DEF PublishStep, Signal, FlushStep, FlushOffsets, vars, consumerVars, channelVars, workerVars
    <3> QED
      BY <3>1, LettingGo
  <2> QED
    BY <2>1, <2>2, <2>3, <2>4, <2>5 DEF Next
<1> QED
  BY <1>1, <1>2, TypeCorrect, PTL DEF Spec

\* Whatever the workers, the retries, the crashes and the redeliveries do,
\* the process holds a delivery in one place at a time: no two workers save
\* it, and no batch has it twice.
THEOREM OneHolderHolds == Spec => []OneHolder
<1>1. HolderInv => OneHolder
  BY DEF HolderInv
<1> QED
  BY <1>1, HolderInvariant, PTL

-----------------------------------------------------------------------------
(* What lets go of a batch. *)

\* A process that is down holds nothing, so that a start drops nothing.
DownEmpty ==
    ~ up => /\ \A w \in Workers : batch[w] = <<>>
            /\ eventsChan = <<>> /\ kpc = "closed"

LEMMA DownEmptyInvariant == Spec => []DownEmpty
<1>1. Init => DownEmpty
  BY DEF Init, ConsumerInit, WorkersInit, Fresh, DownEmpty
<1>2. DownEmpty /\ [Next]_vars => DownEmpty'
  <2> SUFFICES ASSUME DownEmpty, [Next]_vars, ~ up' PROVE DownEmpty'
    BY DEF DownEmpty
  <2>1. CASE ExitClean \/ ExitTimeout \/ Crash
    BY <2>1 DEF ExitClean, ExitTimeout, Exit, Crash, Halt, ChannelReset, FreshWorkers, Fresh, DownEmpty
  <2>2. CASE PublishStep \/ UNCHANGED vars
    BY <2>2 DEF PublishStep, vars, lifeVars, workerVars, consumerVars, channelVars, DownEmpty
  <2>3. ~ (Start \/ Signal \/ ConsumerStep \/ FlushStep \/ \E w \in Workers : WorkerStep(w))
    BY DEF Start, Signal, ConsumerStep, FlushStep, WorkerStep, lifeVars
  <2> QED
    BY <2>1, <2>2, <2>3 DEF Next
<1> QED
  BY <1>1, <1>2, PTL DEF Spec

\* saveBatchWithRetry and the exits of worker: a running worker lets go of
\* an unsaved batch only with an error that stops the group.
THEOREM DropsOnlyOnErrorHolds == Spec => DropsOnlyOnError
<1> DEFINE Step == \A w \in Workers :
               up' /\ batch[w] # <<>> /\ batch'[w] = <<>>
                   => EventsIn(batch[w]) \subseteq rows' \/ failed'
<1>1. TypeOK /\ WorkersAt /\ DownEmpty /\ [Next]_vars => Step
  <2> SUFFICES ASSUME TypeOK, WorkersAt, DownEmpty, [Next]_vars, NEW w \in Workers,
                      up', batch[w] # <<>>, batch'[w] = <<>>
               PROVE  EventsIn(batch[w]) \subseteq rows' \/ failed'
    OBVIOUS
  <2>1. ~ (Start \/ ExitClean \/ ExitTimeout \/ Crash)
    BY DEF Start, ExitClean, ExitTimeout, Exit, Crash, Halt, DownEmpty
  <2>2. ~ (PublishStep \/ Signal \/ ConsumerStep \/ FlushStep \/ UNCHANGED vars)
    BY DEF PublishStep, Signal, ConsumerStep, FlushStep, vars, workerVars
  <2>3. PICK v \in Workers : WorkerStep(v)
    BY <2>1, <2>2 DEF Next
  <2>4. batch \in [Workers -> Seq(Messages)] /\ eventsChan \in Seq(Messages)
    BY DEF TypeOK, WorkersTypeOK, ChannelTypeOK
  <2>5. CASE Receive(v)
    <3>1. batch' = batch \/ batch' = [batch EXCEPT ![v] = Append(@, Head(eventsChan))]
      BY <2>5 DEF Receive, memoryVars
    <3>2. Head(eventsChan) \in Messages
      BY <2>4, <2>5 DEF Receive, TakeFirst
    <3> QED
      BY <2>4, <3>1, <3>2
  <2>6. CASE InsertOk(v)
    BY <2>3, <2>4, <2>6 DEF InsertOk, Return, WorkersAt, WorkerAt, WorkerStep
  <2>7. CASE ~ Receive(v) /\ ~ InsertOk(v)
    BY <2>3, <2>4, <2>7 DEF WorkerStep, Worker, Tick, BeginSave, ChannelClosed, CtxDone, StartInsert,
       AbortBackoff, GiveUp, Apply, InsertError, Return, AttemptFailed
  <2> QED
    BY <2>5, <2>6, <2>7
<1>2. Step => [Step]_vars
  OBVIOUS
<1> QED
  BY <1>1, TypeCorrect, DownEmptyInvariant, PTL DEF Spec, DropsOnlyOnError

-----------------------------------------------------------------------------
(* What a crash can lose: what is acknowledged and not stored is in the    *)
(* channel or in a batch, and these hold so much at most.                  *)

InChannel == {eventsChan[i] : i \in DOMAIN eventsChan}
InBatches == {batch[s[1]][s[2]] : s \in {t \in Workers \X (1..BatchSize) : t[2] \in DOMAIN batch[t[1]]}}

LEMMA ChannelHoldsFew ==
    ASSUME TypeOK
    PROVE  IsFiniteSet(InChannel) /\ Cardinality(InChannel) =< ChanCap
<1> DEFINE D == DOMAIN eventsChan
           f == [i \in D |-> eventsChan[i]]
<1>1. eventsChan \in Seq(Messages) /\ Len(eventsChan) \in Nat /\ Len(eventsChan) =< ChanCap
  BY DEF TypeOK, ChannelTypeOK
<1>2. D = 1..Len(eventsChan)
  BY <1>1
<1>3. IsFiniteSet(D) /\ Cardinality(D) = Len(eventsChan)
  <2> DEFINE n == Len(eventsChan)
  <2> HIDE DEF n
  <2>1. n \in Nat
    BY <1>1 DEF n
  <2>2. IsFiniteSet(1..n) /\ Cardinality(1..n) = n
    BY <2>1, FS_Interval
  <2> QED
    BY <1>2, <2>2 DEF n
<1>4. f \in Surjection(D, InChannel)
  BY DEF Surjection, InChannel
<1> HIDE DEF D, f
<1>5. IsFiniteSet(InChannel) /\ Cardinality(InChannel) =< Cardinality(D)
  BY <1>3, <1>4, FS_Surjection
<1>6. Cardinality(InChannel) \in Nat
  BY <1>5, FS_CardinalityType
<1> QED
  BY <1>1, <1>3, <1>5, <1>6, ChanCapAssumption

LEMMA BatchesHoldFew ==
    ASSUME TypeOK
    PROVE  /\ IsFiniteSet(InBatches)
           /\ Cardinality(InBatches) =< Cardinality(Workers) * BatchSize
<1> DEFINE All == Workers \X (1..BatchSize)
           Slots == {t \in All : t[2] \in DOMAIN batch[t[1]]}
           f == [s \in Slots |-> batch[s[1]][s[2]]]
<1>1. IsFiniteSet(1..BatchSize) /\ Cardinality(1..BatchSize) = BatchSize
  BY FS_Interval, BatchAssumption
<1>2. IsFiniteSet(All) /\ Cardinality(All) = Cardinality(Workers) * BatchSize
  BY <1>1, FS_Product, WorkersAssumption
<1>3. f \in Surjection(Slots, InBatches)
  BY DEF Surjection, InBatches
<1>4. Slots \in SUBSET All
  OBVIOUS
<1> HIDE DEF All, Slots, f
<1>5. IsFiniteSet(Slots) /\ Cardinality(Slots) =< Cardinality(All)
  BY <1>2, <1>4, FS_Subset
<1>6. IsFiniteSet(InBatches) /\ Cardinality(InBatches) =< Cardinality(Slots)
  BY <1>3, <1>5, FS_Surjection
<1>7. Cardinality(InBatches) \in Nat /\ Cardinality(Slots) \in Nat /\ Cardinality(All) \in Nat
  BY <1>2, <1>5, <1>6, FS_CardinalityType
<1> QED
  BY <1>2, <1>5, <1>6, <1>7

LEMMA ExposedIsHeld ==
    ASSUME TypeOK, NothingDropped, AckAfterHandOff, Healthy
    PROVE  Exposed \subseteq InChannel \cup InBatches
<1> SUFFICES ASSUME NEW m \in Exposed PROVE m \in InChannel \cup InBatches
  OBVIOUS
<1>1. PICK p \in Partitions : m \in Fetched(p)
  BY DEF Exposed
<1>2. m[1] = p /\ m[2] \in Int /\ m[2] =< stash[p] /\ Ingestible(m) /\ ~ Stored(m)
  BY <1>1 DEF Exposed, Fetched, TypeOK, ConsumerTypeOK
<1>3. stash[p] \in Int
  BY OffsetsAreInts DEF TypeOK, ConsumerOK
<1>4. ~ Offered(m)
  BY <1>1, <1>2, <1>3 DEF AckAfterHandOff
<1>5. Buffered(m) \/ Batched(m)
  BY <1>1, <1>2, <1>4 DEF NothingDropped, InFlight
<1>6. Buffered(m) => m \in InChannel
  BY DEF Buffered, InChannel
<1>7. Batched(m) => m \in InBatches
  <2> SUFFICES ASSUME NEW w \in Workers, NEW i \in DOMAIN batch[w], batch[w][i] = m
               PROVE  m \in InBatches
    BY DEF Batched
  <2>1. batch[w] \in Seq(Messages) /\ Len(batch[w]) =< BatchSize
    BY DEF TypeOK, WorkersTypeOK
  <2>2. i \in 1..BatchSize
    BY <2>1, BatchAssumption
  <2>3. <<w, i>> \in {t \in Workers \X (1..BatchSize) : t[2] \in DOMAIN batch[t[1]]}
    BY <2>2
  <2> QED
    BY <2>3 DEF InBatches
<1> QED
  BY <1>5, <1>6, <1>7

\* eventsChan and the batches are all that a crash of a healthy process can
\* lose: what is acknowledged and not stored is in one of them.
THEOREM ExposureBoundedHolds == Spec => []ExposureBounded
<1>1. TypeOK /\ NothingDropped /\ AckAfterHandOff => ExposureBounded
  <2> SUFFICES ASSUME TypeOK, NothingDropped, AckAfterHandOff, Healthy
               PROVE  Cardinality(Exposed) =< ChanCap + Cardinality(Workers) * BatchSize
    BY DEF ExposureBounded
  <2> DEFINE room == Cardinality(Workers) * BatchSize
             held == InChannel \cup InBatches
  <2>1. /\ IsFiniteSet(InChannel) /\ Cardinality(InChannel) =< ChanCap
        /\ IsFiniteSet(InBatches) /\ Cardinality(InBatches) =< room
    BY ChannelHoldsFew, BatchesHoldFew
  <2>2. /\ IsFiniteSet(held)
        /\ Cardinality(held) =
             Cardinality(InChannel) + Cardinality(InBatches) - Cardinality(InChannel \cap InBatches)
    BY <2>1, FS_Union
  <2>3. IsFiniteSet(Exposed) /\ Cardinality(Exposed) =< Cardinality(held)
    BY <2>2, ExposedIsHeld, FS_Subset
  <2>4. IsFiniteSet(InChannel \cap InBatches)
    BY <2>1, FS_Intersection
  <2>5. /\ Cardinality(InChannel) \in Nat /\ Cardinality(InBatches) \in Nat
        /\ Cardinality(InChannel \cap InBatches) \in Nat
        /\ Cardinality(held) \in Nat /\ Cardinality(Exposed) \in Nat
    BY <2>1, <2>2, <2>3, <2>4, FS_CardinalityType
  <2>6. room \in Nat
    <3>1. Cardinality(Workers) \in Nat
      BY WorkersAssumption, FS_CardinalityType
    <3> QED
      BY <3>1, BatchAssumption
  <2> HIDE DEF room, held
  <2>7. Cardinality(Exposed) =< ChanCap + room
    BY <2>1, <2>2, <2>3, <2>5, <2>6, ChanCapAssumption
  <2> QED
    BY <2>7 DEF room
<1> QED
  BY <1>1, TypeCorrect, NothingDroppedHolds, AckAfterHandOffHolds, PTL
-----------------------------------------------------------------------------
(* What the broker has passed stays passed. *)

LEMMA PassedStays ==
    ASSUME ReaderOK(up), [Next]_vars, NEW m \in Messages, Passed(m, up)
    PROVE  Passed(m, up)'
<1>1. /\ up => ReaderOK(TRUE) /\ Passed(m, TRUE)
      /\ ~ up => ReaderOK(FALSE) /\ Passed(m, FALSE)
  BY DEF ReaderOK, ReaderFits, Passed
<1>2. /\ up' /\ Passed(m, TRUE)' => Passed(m, up)'
      /\ ~ up' /\ Passed(m, FALSE)' => Passed(m, up)'
  BY DEF Passed
<1>3. CASE ConsumerStep
  BY <1>1, <1>2, <1>3, ConsumerPasses DEF ConsumerStep, lifeVars
<1>4. CASE Start
  BY <1>1, <1>2, <1>4, StartPasses DEF Start
<1>5. CASE ExitClean \/ ExitTimeout \/ Crash
  <2>1. /\ up /\ ~ up' /\ UNCHANGED end /\ committed' \in {committed, stash}
    BY <1>5 DEF ExitClean, ExitTimeout, Exit, Crash, CloseReader, Halt
  <2> QED
    BY <1>1, <1>2, <2>1, EndPasses
<1>6. CASE FlushStep
  <2>1. committed' = stash /\ up /\ up' /\ UNCHANGED resume
    BY <1>6 DEF FlushStep, FlushOffsets, lifeVars
  <2>2. m[1] \in Partitions /\ m[2] \in Nat
    BY MessageParts
  <2>3. committed[m[1]] \in Int /\ stash[m[1]] \in Int /\ committed[m[1]] =< stash[m[1]]
    BY <2>2, ReaderNumbers DEF ReaderOK, OffsetsOrdered
  <2> QED
    BY <2>1, <2>2, <2>3 DEF Passed
<1>7. CASE PublishStep
  <2>1. PICK q \in Partitions : Publish(q)
    BY <1>7 DEF PublishStep
  <2>2. UNCHANGED <<committed, stash, position, resume, kpc, msg, up>>
    BY <1>7 DEF PublishStep, lifeVars
  <2>3. CASE up
    BY <1>1, <1>2, <2>1, <2>2, <2>3, PublishPasses
  <2>4. CASE ~ up
    BY <1>1, <1>2, <2>1, <2>2, <2>4, PublishPasses
  <2> QED
    BY <2>3, <2>4
<1>8. CASE Signal \/ UNCHANGED vars \/ \E w \in Workers : WorkerStep(w)
  <2>1. UNCHANGED <<resume, end, committed, up>>
    BY <1>8 DEF Signal, vars, WorkerStep, consumerVars, lifeVars
  <2> QED
    BY <2>1 DEF Passed
<1> QED
  BY <1>3, <1>4, <1>5, <1>6, <1>7, <1>8 DEF Next

-----------------------------------------------------------------------------
(* How a message is taken in, and how its event reaches the table. *)

\* Nothing but a fetch puts a message into the process.
TakenBy(m) ==
    \E p \in Partitions : /\ up /\ FetchMessage(p)
                          /\ UNCHANGED <<workerVars, ctx, up>>
                          /\ m = <<p, position[p] + 1>>

LEMMA ConsumerTakes ==
    ASSUME TypeOK, ConsumerStep, NEW m, ~ InFlight(m), InFlight(m)'
    PROVE  TakenBy(m)
<1>1. UNCHANGED <<workerVars, ctx, up>> /\ up /\ UNCHANGED batch
  BY DEF ConsumerStep, lifeVars, workerVars
<1>2. ~ Batched(m)'
  BY <1>1 DEF InFlight, Batched
<1>3. ASSUME NEW p \in Partitions, FetchMessage(p) PROVE TakenBy(m)
  <2>1. ~ Buffered(m)' /\ msg' = <<p, position[p] + 1>>
    BY <1>3 DEF FetchMessage, InFlight, Buffered
  <2>2. m = <<p, position[p] + 1>>
    BY <1>2, <2>1 DEF InFlight, Offered
  <2> QED
    BY <1>1, <1>3, <2>2 DEF TakenBy
<1>4. ~ Send
  <2> SUFFICES ASSUME Send PROVE FALSE
    OBVIOUS
  <2>1. /\ kpc = "send" /\ kpc' = "commit" /\ eventsChan' = Append(eventsChan, msg)
        /\ eventsChan \in Seq(Messages) /\ msg \in Messages
    BY DEF Send, Offer, TypeOK, ChannelTypeOK, ConsumerTypeOK
  <2>2. \A i \in DOMAIN eventsChan' :
          (i \in DOMAIN eventsChan /\ eventsChan'[i] = eventsChan[i]) \/ eventsChan'[i] = msg
    BY <2>1
  <2>3. Buffered(m)'
    BY <1>2, <2>1 DEF InFlight, Offered
  <2>4. Buffered(m) \/ m = msg
    BY <2>2, <2>3 DEF Buffered
  <2> QED
    BY <2>1, <2>4 DEF InFlight, Offered
<1>5. ~ (FetchCancelled \/ SendCancelled \/ Commit \/ CommitCancelled \/ CommitNow)
  <2> SUFFICES ASSUME FetchCancelled \/ SendCancelled \/ Commit \/ CommitCancelled \/ CommitNow
               PROVE  FALSE
    OBVIOUS
  <2>1. UNCHANGED eventsChan /\ kpc' # "send"
    BY DEF FetchCancelled, SendCancelled, Commit, CommitCancelled, CommitNow, LoopHead, BackToLoop
  <2> QED
    BY <1>2, <2>1 DEF InFlight, Offered, Buffered
<1> QED
  BY <1>3, <1>4, <1>5 DEF ConsumerStep, ConsumeEvents

LEMMA WorkerTakesNothing ==
    ASSUME TypeOK, NEW w \in Workers, WorkerStep(w), NEW m, InFlight(m)'
    PROVE  InFlight(m)
<1>1. UNCHANGED <<kpc, msg>>
  BY DEF WorkerStep, consumerVars
<1>2. eventsChan \in Seq(Messages) /\ batch \in [Workers -> Seq(Messages)]
  BY DEF TypeOK, ChannelTypeOK, WorkersTypeOK
<1>3. CASE Offered(m)'
  BY <1>1, <1>3 DEF Offered, InFlight
<1>4. CASE Receive(w)
  <2> DEFINE h == Head(eventsChan)
  <2>1. eventsChan # <<>> /\ eventsChan' = Tail(eventsChan)
    BY <1>4 DEF Receive, TakeFirst
  <2>2. batch' = batch \/ batch' = [batch EXCEPT ![w] = Append(@, h)]
    BY <1>4 DEF Receive, memoryVars
  <2>3. /\ 1 \in DOMAIN eventsChan /\ h = eventsChan[1] /\ h \in Messages
        /\ \A i \in DOMAIN eventsChan' : i + 1 \in DOMAIN eventsChan /\ eventsChan'[i] = eventsChan[i + 1]
    BY <1>2, <2>1
  <2>4. Buffered(h)
    BY <2>3 DEF Buffered
  <2>5. Buffered(m)' => Buffered(m)
    BY <2>3 DEF Buffered
  <2> HIDE DEF h
  <2>6. ASSUME NEW v \in Workers, NEW i \in DOMAIN batch'[v], batch'[v][i] = m
        PROVE  Batched(m) \/ m = h
    <3>1. CASE batch'[v] = batch[v]
      BY <2>6, <3>1 DEF Batched
    <3>2. CASE v = w /\ batch'[v] = Append(batch[w], h)
      <4>1. (i \in DOMAIN batch[w] /\ batch'[v][i] = batch[w][i]) \/ batch'[v][i] = h
        BY <1>2, <2>3, <2>6, <3>2
      <4> QED
        BY <2>6, <4>1 DEF Batched
    <3> QED
      BY <1>2, <2>2, <3>1, <3>2
  <2>7. Batched(m)' => Batched(m) \/ m = h
    BY <2>6 DEF Batched
  <2> QED
    BY <1>3, <2>4, <2>5, <2>7 DEF InFlight
<1>5. CASE ~ Receive(w)
  <2>1. UNCHANGED eventsChan
    BY <1>5 DEF WorkerStep, Worker, Tick, ChannelClosed, CtxDone, StartInsert, AbortBackoff,
                GiveUp, Apply, InsertError, InsertOk
  <2>2. UNCHANGED batch \/ batch' = [batch EXCEPT ![w] = <<>>]
    BY <1>5 DEF WorkerStep, Worker, Tick, BeginSave, ChannelClosed, CtxDone, StartInsert,
                AbortBackoff, GiveUp, Apply, InsertError, InsertOk, Return, AttemptFailed
  <2>3. \A v \in Workers : batch'[v] = batch[v] \/ batch'[v] = <<>>
    BY <1>2, <2>2
  <2>4. Batched(m)' => Batched(m)
    BY <2>3 DEF Batched
  <2> QED
    BY <1>3, <2>1, <2>4 DEF InFlight, Buffered
<1> QED
  BY <1>4, <1>5

LEMMA OnlyAFetchTakes ==
    ASSUME TypeOK, [Next]_vars, NEW m, ~ InFlight(m), InFlight(m)'
    PROVE  TakenBy(m)
<1>1. CASE ConsumerStep
  BY <1>1, ConsumerTakes
<1>2. ~ (\E w \in Workers : WorkerStep(w))
  BY WorkerTakesNothing
<1>3. ~ (Start \/ ExitClean \/ ExitTimeout \/ Crash)
  BY DEF Start, ExitClean, ExitTimeout, Exit, Crash, Halt, OpenReader, ChannelReset, FreshWorkers,
         Fresh, InFlight, Offered, Buffered, Batched
<1>4. ~ (PublishStep \/ Signal \/ FlushStep \/ UNCHANGED vars)
  <2> SUFFICES ASSUME PublishStep \/ Signal \/ FlushStep \/ UNCHANGED vars PROVE FALSE
    OBVIOUS
  <2>1. UNCHANGED <<eventsChan, batch, kpc, msg>>
    BY DEF PublishStep, Signal, FlushStep, FlushOffsets, vars, consumerVars, channelVars, workerVars
  <2> QED
    BY <2>1 DEF InFlight, Offered, Buffered, Batched
<1> QED
  BY <1>1, <1>2, <1>3, <1>4 DEF Next

\* A row once in the table stays; a new one is in the batch of a worker
\* whose statement commits.
LEMMA RowsGrow ==
    ASSUME TypeOK, [Next]_vars
    PROVE  /\ rows \subseteq rows'
           /\ \A e \in rows' \ rows : \E w \in Workers : e \in EventsIn(batch[w])
<1>1. ASSUME NEW w \in Workers, WorkerStep(w)
      PROVE  /\ rows \subseteq rows'
             /\ \A e \in rows' \ rows : e \in EventsIn(batch[w])
  BY <1>1 DEF WorkerStep, Worker, Receive, Tick, ChannelClosed, CtxDone, StartInsert, AbortBackoff,
     GiveUp, Apply, InsertError, InsertOk, AttemptFailed
<1>2. CASE UNCHANGED rows
  BY <1>2
<1>3. Start \/ Signal \/ ExitClean \/ ExitTimeout \/ Crash \/ ConsumerStep \/ FlushStep \/ PublishStep
          \/ UNCHANGED vars => UNCHANGED rows
  BY DEF Start, Signal, ExitClean, ExitTimeout, Exit, Crash, Halt, ConsumerStep, FlushStep, PublishStep,
         FreshWorkers, workerVars, vars
<1> QED
  BY <1>1, <1>2, <1>3 DEF Next

-----------------------------------------------------------------------------
(* The fate of one message in one step. *)

LEMMA MessagesOf ==
    /\ IngestibleMessages \subseteq Messages
    /\ \A m \in IngestibleMessages : Ingestible(m)
    /\ \A m \in Messages : Ingestible(m) => m \in IngestibleMessages
BY AllMessagesAre DEF IngestibleMessages

LEMMA FateValues ==
    ASSUME NEW m
    PROVE  /\ Fate(m) = "stored"   <=> Stored(m)
           /\ Fate(m) = "inflight" <=> ~ Stored(m) /\ InFlight(m)
           /\ Fate(m) = "lost"     <=> ~ Stored(m) /\ ~ InFlight(m) /\ Passed(m, up)
           /\ Fate(m) = "waiting"  <=> ~ Stored(m) /\ ~ InFlight(m) /\ ~ Passed(m, up)
           /\ Fate(m) \in {"waiting", "inflight", "stored", "lost"}
BY DEF Fate

FateHasValues ==
    \A m \in IngestibleMessages :
        /\ Fate(m) = "stored"   <=> Stored(m)
        /\ Fate(m) = "inflight" <=> ~ Stored(m) /\ InFlight(m)
        /\ Fate(m) = "lost"     <=> ~ Stored(m) /\ ~ InFlight(m) /\ Passed(m, up)
        /\ Fate(m) = "waiting"  <=> ~ Stored(m) /\ ~ InFlight(m) /\ ~ Passed(m, up)
        /\ Fate(m) \in {"waiting", "inflight", "stored", "lost"}

LEMMA FateValuesAfter == FateHasValues'
<1>1. FateHasValues
  BY FateValues DEF FateHasValues
<1> QED
  BY <1>1, PTL

\* A message fetched is new: neither held nor passed.
LEMMA FetchedIsNew ==
    ASSUME ReaderOK(up), HeldBehind, NEW m, TakenBy(m)
    PROVE  up /\ ~ InFlight(m) /\ ~ Passed(m, up)
<1>1. PICK p \in Partitions : up /\ FetchMessage(p) /\ m = <<p, position[p] + 1>>
  BY DEF TakenBy
<1>2. m[1] = p /\ m[2] = position[p] + 1 /\ position[p] \in Nat
  BY <1>1, ReaderNumbers DEF ReaderOK
<1>3. ~ Behind(m)
  BY <1>2 DEF Behind
<1>4. ~ InFlight(m)
  BY <1>1, <1>3 DEF FetchMessage, InFlight, Offered, Buffered, Batched, HeldBehind
<1>5. ReaderOK(TRUE)
  BY <1>1 DEF ReaderOK, ReaderFits
<1>6. ~ Passed(m, TRUE)
  BY <1>1, <1>5, FetchedIsFresh
<1> QED
  BY <1>1, <1>4, <1>6 DEF Passed

\* A fetch changes the fate of what it fetches alone.
LEMMA OthersUntaken ==
    ASSUME NEW n, TakenBy(n), NEW m, m # n
    PROVE  /\ Stored(m)' <=> Stored(m)
           /\ InFlight(m)' <=> InFlight(m)
           /\ Passed(m, up)' <=> Passed(m, up)
<1>1. PICK p \in Partitions : /\ FetchMessage(p) /\ UNCHANGED <<workerVars, up>>
                             /\ n = <<p, position[p] + 1>>
  BY DEF TakenBy
<1>2. /\ UNCHANGED <<rows, batch, up, eventsChan, committed, resume, end>>
      /\ kpc = "fetch" /\ msg' = n
  BY <1>1 DEF FetchMessage, workerVars
<1>3. (Offered(m)' <=> Offered(m)) /\ (Buffered(m)' <=> Buffered(m)) /\ (Batched(m)' <=> Batched(m))
  BY <1>2 DEF Offered, Buffered, Batched
<1>4. Passed(m, up)' <=> Passed(m, up)
  BY <1>2 DEF Passed
<1> QED
  BY <1>2, <1>3, <1>4 DEF InFlight, Stored

LEMMA TakenIsHeld ==
    ASSUME NEW n, TakenBy(n), Ingestible(n)
    PROVE  InFlight(n)' /\ (Stored(n)' <=> Stored(n))
<1>1. PICK p \in Partitions : /\ FetchMessage(p) /\ UNCHANGED workerVars
                             /\ n = <<p, position[p] + 1>>
  BY DEF TakenBy
<1>2. UNCHANGED rows /\ msg' = n /\ kpc' = "send"
  BY <1>1 DEF FetchMessage, workerVars, AfterParse, Ingestible
<1> QED
  BY <1>2 DEF InFlight, Offered, Stored

\* A service that stays healthy is not started.
LEMMA NoStartWhenHealthy ==
    ASSUME ConsumerOK, [Next]_vars, Healthy, Healthy'
    PROVE  UNCHANGED <<resume, up>>
<1>1. CASE ConsumerStep
  BY <1>1, ConsumerAdvances DEF ConsumerStep, lifeVars
<1>2. CASE PublishStep \/ FlushStep \/ UNCHANGED vars \/ \E w \in Workers : WorkerStep(w)
  BY <1>2 DEF PublishStep, FlushStep, FlushOffsets, vars, WorkerStep, consumerVars, lifeVars
<1>3. ~ (Start \/ Signal \/ ExitClean \/ ExitTimeout \/ Crash)
  BY DEF Start, Signal, ExitClean, ExitTimeout, Exit, Crash, Halt, Healthy
<1> QED
  BY <1>1, <1>2, <1>3 DEF Next

\* A service that stays healthy keeps what it holds.
LEMMA HealthyKeepsHeld ==
    ASSUME TypeOK, WorkersAt, [Next]_vars, Healthy, Healthy',
           NEW m \in IngestibleMessages, InFlight(m) \/ Stored(m)
    PROVE  (InFlight(m) \/ Stored(m))'
<1>1. Ingestible(m)
  BY MessagesOf
<1>2. CASE ConsumerStep
  BY <1>1, <1>2, ConsumerKeepsHeld DEF ConsumerStep, Healthy
<1>3. ASSUME NEW w \in Workers, WorkerStep(w)
      PROVE  (InFlight(m) \/ Stored(m))'
  BY <1>1, <1>3, WorkerKeepsHeld DEF WorkerStep, Healthy, lifeVars, consumerVars
<1>4. CASE PublishStep \/ FlushStep \/ UNCHANGED vars
  <2>1. UNCHANGED <<eventsChan, batch, rows, kpc, msg>>
    BY <1>4 DEF PublishStep, FlushStep, FlushOffsets, vars, consumerVars, channelVars, workerVars
  <2> QED
    BY <2>1 DEF InFlight, Offered, Buffered, Batched, Stored
<1>5. ~ (Start \/ Signal \/ ExitClean \/ ExitTimeout \/ Crash)
  BY DEF Start, Signal, ExitClean, ExitTimeout, Exit, Crash, Halt, Healthy
<1> QED
  BY <1>2, <1>3, <1>4, <1>5 DEF Next

\* A message the broker passes while the service is healthy was fetched,
\* and is held or stored.
LEMMA NewlyPassed ==
    ASSUME ReaderOK(up)', NothingDropped', Healthy, Healthy',
           UNCHANGED <<resume, up>>, NEW m \in IngestibleMessages,
           ~ Passed(m, up), Passed(m, up)'
    PROVE  (InFlight(m) \/ Stored(m))'
<1>1. m[1] \in Partitions /\ m \in Messages /\ Ingestible(m) /\ up /\ up'
  BY MessagesOf, MessageParts DEF Healthy
<1>2. ReaderOK(TRUE)' /\ Passed(m, TRUE)'
  BY <1>1 DEF ReaderOK, ReaderFits, Passed
<1>3. ~ (m[2] =< resume'[m[1]])
  BY <1>1 DEF Passed
<1>4. m \in Fetched(m[1])'
  BY <1>1, <1>2, <1>3, PassedIsFetchedNext DEF PassedWasFetched
<1> QED
  BY <1>1, <1>4 DEF NothingDropped, Ingestible

\* An event newly in the table was in flight, in some message.
LEMMA StoredWasHeld ==
    ASSUME TypeOK, [Next]_vars, NEW m \in IngestibleMessages, ~ Stored(m), Stored(m)'
    PROVE  \E n \in IngestibleMessages : Fate(n) = "inflight" /\ EventOf(n) = EventOf(m)
<1>1. EventOf(m) \in rows' \ rows
  BY DEF Stored
<1>2. PICK w \in Workers : EventOf(m) \in EventsIn(batch[w])
  BY <1>1, RowsGrow
<1>3. PICK i \in DOMAIN batch[w] : EventOf(batch[w][i]) = EventOf(m)
  BY <1>2 DEF EventsIn
<1> DEFINE n == batch[w][i]
<1>4. n \in Messages
  BY DEF TypeOK, WorkersTypeOK
<1>5. Ingestible(n)
  BY <1>3, MessagesOf DEF Ingestible
<1>6. InFlight(n) /\ ~ Stored(n)
  BY <1>1, <1>3 DEF InFlight, Batched, Stored
<1> QED
  BY <1>3, <1>4, <1>5, <1>6, MessagesOf, FateValues

-----------------------------------------------------------------------------
(* The steps of the abstract specification. *)

FateOf    == [m \in IngestibleMessages |-> Fate(m)]
ContentOf == [m \in IngestibleMessages |-> EventOf(m)]

\* What the steps below are taken from.
FateInv ==
    /\ TypeOK /\ WorkersAt /\ NothingDropped
    /\ ReaderOK(up) /\ HeldBehind /\ DownEmpty

\* The contents that become durable in a step.
NewlyStored == {EventOf(m) : m \in {n \in IngestibleMessages : ~ Stored(n) /\ Stored(n)'}}

LEMMA HealthyTakes ==
    ASSUME FateInv, NEW n \in IngestibleMessages, TakenBy(n), ~ Stored(n), Healthy, Healthy'
    PROVE  Promise!Take(n)
<1>1. Fate(n) = "waiting"
  BY FetchedIsNew, FateValues DEF FateInv
<1>2. Fate(n)' = "inflight"
  BY TakenIsHeld, MessagesOf, FateValuesAfter DEF FateHasValues
<1>3. ASSUME NEW m \in IngestibleMessages, m # n PROVE Fate(m)' = Fate(m)
  BY <1>3, OthersUntaken, FateValues, FateValuesAfter DEF FateHasValues
<1>4. FateOf' = [FateOf EXCEPT ![n] = "inflight"] /\ FateOf[n] = "waiting"
  BY <1>1, <1>2, <1>3 DEF FateOf
<1> QED
  BY <1>4 DEF Promise!Take, FateOf

\* In any other step of a healthy service a message changes fate only by
\* being stored.
LEMMA HealthyKeeps ==
    ASSUME FateInv, FateInv', [Next]_vars, Healthy, Healthy',
           NEW m \in IngestibleMessages, ~ TakenBy(m), Stored(m) \/ ~ Stored(m)'
    PROVE  Fate(m)' = Fate(m)
<1>1. CASE Stored(m)
  <2>1. Stored(m)'
    BY <1>1, RowsGrow DEF FateInv, Stored
  <2> QED
    BY <1>1, <2>1, FateValues, FateValuesAfter DEF FateHasValues
<1>2. CASE ~ Stored(m) /\ InFlight(m)
  <2>1. ~ Stored(m)' /\ InFlight(m)'
    BY <1>2, HealthyKeepsHeld DEF FateInv
  <2> QED
    BY <1>2, <2>1, FateValues, FateValuesAfter DEF FateHasValues
<1>3. CASE ~ Stored(m) /\ ~ InFlight(m)
  <2>1. ~ Stored(m)' /\ ~ InFlight(m)'
    BY <1>3, OnlyAFetchTakes DEF FateInv
  <2>2. UNCHANGED <<resume, up>>
    BY NoStartWhenHealthy DEF FateInv, ReaderOK
  <2>3. Passed(m, up)' => Passed(m, up)
    BY <2>1, <2>2, NewlyPassed DEF FateInv
  <2>4. Passed(m, up) => Passed(m, up)'
    BY PassedStays, MessagesOf DEF FateInv
  <2> QED
    BY <1>3, <2>1, <2>3, <2>4, FateValues, FateValuesAfter DEF FateHasValues
<1> QED
  BY <1>1, <1>2, <1>3

LEMMA HealthyStores ==
    ASSUME FateInv, FateInv', [Next]_vars, Healthy, Healthy',
           \A n \in IngestibleMessages : TakenBy(n) => Stored(n)
    PROVE  Promise!Store
<1>1. NewlyStored \subseteq {ContentOf[m] : m \in {n \in IngestibleMessages : FateOf[n] = "inflight"}}
  BY StoredWasHeld DEF FateInv, NewlyStored, ContentOf, FateOf
<1>2. ASSUME NEW m \in IngestibleMessages
      PROVE  Fate(m)' = IF ContentOf[m] \in NewlyStored THEN "stored" ELSE Fate(m)
  <2>1. CASE ContentOf[m] \in NewlyStored
    <3>1. Stored(m)'
      BY <2>1 DEF NewlyStored, ContentOf, Stored
    <3> QED
      BY <2>1, <3>1, FateValuesAfter DEF FateHasValues
  <2>2. CASE ContentOf[m] \notin NewlyStored
    <3>1. Stored(m) \/ ~ Stored(m)'
      BY <2>2 DEF NewlyStored, ContentOf
    <3>2. CASE ~ TakenBy(m)
      BY <2>2, <3>1, <3>2, HealthyKeeps
    <3>3. CASE Stored(m)
      <4>1. Stored(m)'
        BY <3>3, RowsGrow DEF FateInv, Stored
      <4> QED
        BY <2>2, <3>3, <4>1, FateValues, FateValuesAfter DEF FateHasValues
    <3> QED
      BY <3>2, <3>3
  <2> QED
    BY <2>1, <2>2
<1>3. FateOf' = [m \in IngestibleMessages |-> IF ContentOf[m] \in NewlyStored THEN "stored" ELSE FateOf[m]]
  BY <1>2 DEF FateOf
<1> QED
  BY <1>1, <1>3 DEF Promise!Store, Promise!Durable, Promise!Carried, FateOf, ContentOf

\* A service becomes healthy by a start alone, which changes no fate: what
\* the group has not committed is where the new reader begins.
LEMMA StartRecovers ==
    ASSUME FateInv, [Next]_vars, ~ Healthy, Healthy'
    PROVE  Promise!Recover
<1>1. Start
  <2>1. ~ (Signal \/ ExitClean \/ ExitTimeout \/ Crash)
    BY DEF Signal, ExitClean, ExitTimeout, Exit, Crash, Halt, Healthy
  <2>2. ~ UNCHANGED <<up, ctx, failed>> /\ ~ (failed /\ failed')
    BY DEF Healthy
  <2>3. PublishStep \/ ConsumerStep \/ FlushStep \/ UNCHANGED vars => UNCHANGED <<up, ctx, failed>>
    BY DEF PublishStep, ConsumerStep, FlushStep, vars, workerVars, channelVars, lifeVars
  <2>4. ASSUME NEW w \in Workers, WorkerStep(w)
        PROVE  UNCHANGED <<up, ctx>> /\ (failed => failed')
    BY <2>4 DEF WorkerStep, Worker, Receive, Tick, ChannelClosed, CtxDone, StartInsert, AbortBackoff,
       GiveUp, Apply, InsertError, InsertOk, Return, AttemptFailed, BeginSave, memoryVars, lifeVars
  <2>5. ~ \E w \in Workers : WorkerStep(w)
    BY <2>4 DEF Healthy
  <2> QED
    BY <2>1, <2>2, <2>3, <2>5 DEF Next
<1>2. ASSUME NEW m \in IngestibleMessages PROVE Fate(m)' = Fate(m)
  <2>1. /\ ~ InFlight(m) /\ ~ InFlight(m)' /\ (Stored(m)' <=> Stored(m))
    BY <1>1 DEF Start, OpenReader, ChannelReset, FreshWorkers, Fresh, FateInv, DownEmpty,
                InFlight, Offered, Buffered, Batched, Stored
  <2>2. /\ ~ up /\ up' /\ UNCHANGED committed
        /\ resume'[m[1]] = IF committed[m[1]] = NoOffset THEN end[m[1]] ELSE committed[m[1]]
    BY <1>1, MessagesOf DEF Start, OpenReader, StartOffset, Messages
  <2>3. Passed(m, up)' <=> Passed(m, up)
    BY <2>2 DEF Passed
  <2> QED
    BY <2>1, <2>3, FateValues, FateValuesAfter DEF FateHasValues
<1>3. FateOf' = FateOf
  BY <1>2 DEF FateOf
<1> QED
  BY <1>3 DEF Promise!Recover, FateOf

\* Every other step leaves it failing, stopping or down: stored and lost
\* are for ever, and what becomes stored was in flight.
LEMMA OthersDegrade ==
    ASSUME FateInv, [Next]_vars, ~ Healthy'
    PROVE  Promise!Degraded
<1>1. FateOf' \in [IngestibleMessages -> {"waiting", "inflight", "stored", "lost"}]
  BY FateValuesAfter DEF FateOf, FateHasValues
<1>2. ASSUME NEW m \in IngestibleMessages, Fate(m) = "stored" PROVE Fate(m)' = "stored"
  <2>1. Stored(m)'
    BY <1>2, FateValues, RowsGrow DEF FateInv, Stored
  <2> QED
    BY <2>1, FateValuesAfter DEF FateHasValues
<1>3. ASSUME NEW m \in IngestibleMessages, Fate(m) = "lost" PROVE Fate(m)' \in {"lost", "stored"}
  <2>1. ~ InFlight(m) /\ Passed(m, up)
    BY <1>3, FateValues
  <2>2. Passed(m, up)'
    BY <2>1, PassedStays, MessagesOf DEF FateInv
  <2>3. ~ InFlight(m)'
    BY <2>1, OnlyAFetchTakes, FetchedIsNew DEF FateInv
  <2> QED
    BY <2>2, <2>3, FateValuesAfter DEF FateHasValues
<1>4. ASSUME NEW m \in IngestibleMessages, Fate(m) # "stored", Fate(m)' = "stored"
      PROVE  \E n \in IngestibleMessages : Fate(n) = "inflight" /\ EventOf(n) = EventOf(m)
  <2>1. ~ Stored(m) /\ Stored(m)'
    BY <1>4, FateValues, FateValuesAfter DEF FateHasValues
  <2> QED
    BY <2>1, StoredWasHeld DEF FateInv
<1>5. \A m \in IngestibleMessages :
        /\ FateOf[m] = "stored" => FateOf'[m] = "stored"
        /\ FateOf[m] = "lost" => FateOf'[m] \in {"lost", "stored"}
        /\ FateOf[m] # "stored" /\ FateOf'[m] = "stored"
              => ContentOf[m] \in {ContentOf[n] : n \in {k \in IngestibleMessages : FateOf[k] = "inflight"}}
  BY <1>2, <1>3, <1>4 DEF FateOf, ContentOf
<1> QED
  BY <1>1, <1>5 DEF Promise!Degraded, Promise!Durable, Promise!Carried, Promise!Fates, FateOf, ContentOf

\* A step of the service is a step of its promise.
LEMMA StepsKeepPromise ==
    ASSUME FateInv, FateInv', [Next]_vars
    PROVE  Promise!FateNext
<1>1. CASE ~ Healthy'
  BY <1>1, OthersDegrade DEF Promise!FateNext
<1>2. CASE ~ Healthy /\ Healthy'
  BY <1>2, StartRecovers DEF Promise!FateNext
<1>3. CASE Healthy /\ Healthy' /\ \E n \in IngestibleMessages : TakenBy(n) /\ ~ Stored(n)
  BY <1>3, HealthyTakes DEF Promise!FateNext
<1>4. CASE Healthy /\ Healthy' /\ \A n \in IngestibleMessages : TakenBy(n) => Stored(n)
  BY <1>4, HealthyStores DEF Promise!FateNext
<1> QED
  BY <1>1, <1>2, <1>3, <1>4

LEMMA FateInvariant == Spec => []FateInv
<1>1. HolderInv => HeldBehind
  BY DEF HolderInv
<1> QED
  BY <1>1, TypeCorrect, NothingDroppedHolds, HolderInvariant, ReaderInvariant,
     DownEmptyInvariant, PTL DEF FateInv

\* cmd/ingestor with everything below it: in every life of the process, and
\* over its crashes and restarts, a message only advances from the topic to
\* events_raw while the service is healthy, a start loses nothing, a row
\* stays, and only a step that leaves the service failing, stopping or down
\* may lose.
THEOREM ImplementsMessageFateHolds == Spec => ImplementsMessageFate
<1>1. Init => Promise!FateInit
  <2> SUFFICES ASSUME Init
               PROVE  /\ \A m \in IngestibleMessages : Fate(m) = "waiting"
                      /\ Healthy = FALSE
    BY DEF Promise!FateInit
  <2>1. ~ Healthy
    BY DEF Init, Healthy
  <2>2. ASSUME NEW m \in IngestibleMessages PROVE Fate(m) = "waiting"
    <3>1. m[1] \in Partitions /\ m[2] \in 1..Len(Topic[m[1]])
      BY MessagesOf DEF Messages
    <3>2. ~ Stored(m) /\ ~ InFlight(m)
      BY DEF Init, ConsumerInit, WorkersInit, Fresh, Stored, InFlight, Offered, Buffered, Batched
    <3>3. ~ up /\ committed[m[1]] = NoOffset /\ end[m[1]] = 0
      BY <3>1 DEF Init, ConsumerInit
    <3>4. ~ Passed(m, up)
      BY <3>1, <3>3 DEF Passed, NoOffset
    <3> QED
      BY <3>2, <3>4, FateValues
  <2> QED
    BY <2>1, <2>2
<1>2. FateInv /\ FateInv' /\ [Next]_vars => Promise!FateNext
  BY StepsKeepPromise
<1> QED
  BY <1>1, <1>2, FateInvariant, PTL DEF Spec, ImplementsMessageFate, Promise!FateSpec
=============================================================================
