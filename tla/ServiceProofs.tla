---------------------------- MODULE ServiceProofs ----------------------------
(***************************************************************************)
(* Theorems about AggregatorService, for every topic, calendar, set of     *)
(* events and zones, commit interval, channel capacity, late threshold and *)
(* bound on failures, hours, starts and stops: what its lives take in and  *)
(* leave in the tables, and that the service implements MessageFate.       *)
(***************************************************************************)
EXTENDS AggregatorService, ConsumerProofs, UsecaseProofs

-----------------------------------------------------------------------------
(* The steps of the service, grouped by what they change.                  *)

\* Time goes by whether the process runs or not; all else is the process's.
Working == (up \/ HourPasses) /\ UsecaseStep /\ OwnFrame

Steps ==
    \/ PublishStep \/ IngestorStores
    \/ Start \/ Signal \/ Exit \/ Crash
    \/ ConsumerStep \/ Working
    \/ UNCHANGED vars

LEMMA StepsAre == ASSUME [Next]_vars PROVE Steps
BY DEF Next, Steps, Working, UsecaseStep, Sweep, ProcessStep, StreamingStep, ReconcileStep,
       CleanupStep, SweeperLeaves

-----------------------------------------------------------------------------
(* Types. *)

\* A statement that fails is counted, and no step takes it back.
LEMMA FaultsRise ==
    ASSUME AggregateTypeOK, UsecaseStep
    PROVE  upsertFaults' \in Nat /\ upsertFaults =< upsertFaults'
<1>1. upsertFaults \in Nat
  BY AggregatorBounds DEF AggregateTypeOK
<1>2. ASSUME NEW outcome, Statement(outcome)
      PROVE  upsertFaults' = upsertFaults \/ upsertFaults' = upsertFaults + 1
  BY <1>2 DEF Statement
<1>3. upsertFaults' = upsertFaults \/ upsertFaults' = upsertFaults + 1
  BY <1>2 DEF UsecaseStep, Process, ProcessEvent, AddToBuffer, StopProcessing, FlushDay, FlushMonth,
     Streaming, FlushTick, StopFlushing, Reconcile, TakeDirty, ReadDay, ReadMonth, ReconcileDay,
     ReconcileMonth, StopReconciling, Sweep, Cleanup, StopCleanup, HourPasses, tableVars
<1> QED
  BY <1>1, <1>3

\* A new usecase.
LEMMA NewUseCaseTyped ==
    ASSUME AggregateTypeOK, NewUseCase
    PROVE  AggregateTypeOK'
<1>1. /\ dayBuffer' \in [Events -> Nat] /\ monthBuffer' \in [Events -> Nat]
      /\ dayCopy' \in [Flushers -> [Events -> Nat]] /\ monthCopy' \in [Flushers -> [Events -> Nat]]
  BY EmptyThings DEF NewUseCase
<1>2. dirty' \in Seq(Periods) /\ Len(dirty') =< DirtyCap
  BY EmptyThings, AggregatorBounds DEF NewUseCase
<1>3. fpc' \in [Flushers -> {"idle", "day", "month", "done"}]
  BY DEF NewUseCase
<1>4. /\ ppc' \in {"select", "add", "flush", "done"}
      /\ taken' \in Messages \cup {NoMessage}
      /\ aged' \subseteq processed' /\ processed' \subseteq {IdOf[e] : e \in Events}
      /\ sweeping' \in BOOLEAN
      /\ rpc' \in {"idle", "readDay", "upsertDay", "readMonth", "upsertMonth", "done"}
      /\ period' \in Periods \cup {NoPeriod} /\ snap' \subseteq Events
  BY DEF NewUseCase
<1>5. UNCHANGED <<hours, accepted, asked, aggDay, aggMonth, upsertFaults, eventsRaw>>
  BY DEF NewUseCase, tableVars
<1> QED
  BY <1>1, <1>2, <1>3, <1>4, <1>5 DEF AggregateTypeOK

LEMMA ResetTyped ==
    ASSUME ChannelReset
    PROVE  ChannelTypeOK'
<1>1. closed' \in BOOLEAN /\ ctx' \in BOOLEAN
  BY DEF ChannelReset
<1>2. eventsChan' \in Seq(Messages) /\ Len(eventsChan') =< ChanCap
  BY EmptyThings, ChanCapAssumption DEF ChannelReset
<1> QED
  BY <1>1, <1>2 DEF ChannelTypeOK

\* The variables keep their types and the channels their capacities.
THEOREM TypeCorrect == Spec => []TypeOK
<1>1. Init => TypeOK
  <2> SUFFICES ASSUME Init PROVE TypeOK
    OBVIOUS
  <2>1. UsecaseOK
    BY UsecaseInit DEF Init, Opened
  <2>2. ConsumerTypeOK
    BY ConsumerBegins DEF Init
  <2>3. up \in BOOLEAN /\ starts \in 0..MaxStarts /\ stops \in 0..MaxStops
    <3>1. up = FALSE /\ starts = 0 /\ stops = 0
      BY DEF Init
    <3>2. 0 \in 0..MaxStarts /\ 0 \in 0..MaxStops
      BY StartAssumption
    <3> QED
      BY <3>1, <3>2
  <2>4. faultsBefore \in 0..upsertFaults
    BY DEF Init, AggregateInit
  <2> QED
    BY <2>1, <2>2, <2>3, <2>4 DEF TypeOK, UsecaseOK
<1>2. TypeOK /\ [Next]_vars => TypeOK'
  <2> SUFFICES ASSUME TypeOK, [Next]_vars PROVE TypeOK'
    OBVIOUS
  <2>0. /\ ChannelTypeOK /\ ConsumerTypeOK /\ AggregateTypeOK
        /\ up \in BOOLEAN /\ starts \in 0..MaxStarts /\ stops \in 0..MaxStops
        /\ faultsBefore \in 0..upsertFaults /\ upsertFaults \in Nat
    BY AggregatorBounds DEF TypeOK, AggregateTypeOK
  <2>1. ASSUME UNCHANGED aggVars PROVE AggregateTypeOK' /\ UNCHANGED upsertFaults
    BY <2>0, <2>1
    DEF AggregateTypeOK, aggVars, processVars, bufferVars, reconVars, tableVars
  <2>2. ASSUME UNCHANGED channelVars PROVE ChannelTypeOK'
    BY <2>0, <2>2 DEF channelVars, ChannelTypeOK
  <2>3. ASSUME UNCHANGED consumerVars PROVE ConsumerTypeOK'
    BY <2>0, <2>3 DEF consumerVars, ConsumerTypeOK
  <2>4. ASSUME UNCHANGED lifeVars, upsertFaults' \in Nat, upsertFaults =< upsertFaults'
        PROVE  /\ up' \in BOOLEAN /\ starts' \in 0..MaxStarts /\ stops' \in 0..MaxStops
               /\ faultsBefore' \in 0..upsertFaults'
    BY <2>0, <2>4 DEF lifeVars
  <2>5. CASE PublishStep
    <3>1. ConsumerTypeOK'
      BY <2>0, <2>5 DEF PublishStep, Publish, ConsumerTypeOK
    <3> QED
      BY <2>0, <2>1, <2>2, <2>4, <2>5, <3>1 DEF PublishStep, TypeOK
  <2>6. CASE IngestorStores
    <3>1. AggregateTypeOK' /\ UNCHANGED upsertFaults
      BY <2>0, <2>6, ParseAssumption
      DEF IngestorStores, AggregateTypeOK, processVars, bufferVars, reconVars, tableVars
    <3> QED
      BY <2>0, <2>2, <2>3, <2>4, <2>6, <3>1 DEF IngestorStores, TypeOK
  <2>7. CASE Start
    <3>1. ConsumerTypeOK'
      BY <2>0, <2>7 DEF Start, OpenReader, StartOffset, ConsumerTypeOK
    <3>2. AggregateTypeOK' /\ ChannelTypeOK'
      BY <2>0, <2>7, NewUseCaseTyped, ResetTyped DEF Start
    <3>3. UNCHANGED <<stops, upsertFaults>> /\ faultsBefore' = upsertFaults /\ up' \in BOOLEAN
      BY <2>7 DEF Start, NewUseCase, tableVars
    <3>4. starts' \in 0..MaxStarts
      BY <2>0, <2>7, StartAssumption DEF Start
    <3> QED
      BY <2>0, <3>1, <3>2, <3>3, <3>4 DEF TypeOK
  <2>8. CASE Signal
    <3>1. ChannelTypeOK' /\ stops' \in 0..MaxStops
      BY <2>0, <2>8, StartAssumption DEF Signal, ChannelTypeOK
    <3>2. UNCHANGED <<consumerVars, aggVars, up, starts, faultsBefore>>
      BY <2>8 DEF Signal
    <3> QED
      BY <2>0, <2>1, <2>3, <3>1, <3>2 DEF TypeOK
  <2>9. CASE Exit \/ Crash
    <3>1. Halt /\ stops' \in 0..MaxStops
      BY <2>0, <2>9, StartAssumption DEF Exit, Crash
    <3>2. ConsumerTypeOK'
      BY <2>0, <3>1 DEF Halt, ConsumerTypeOK
    <3>3. AggregateTypeOK' /\ ChannelTypeOK'
      BY <2>0, <3>1, NewUseCaseTyped, ResetTyped DEF Halt
    <3>4. UNCHANGED <<upsertFaults, faultsBefore, starts>> /\ up' \in BOOLEAN
      BY <3>1 DEF Halt, NewUseCase, tableVars
    <3> QED
      BY <2>0, <3>1, <3>2, <3>3, <3>4 DEF TypeOK
  <2>10. CASE ConsumerStep
    <3>1. ConsumerTypeOK' /\ ChannelTypeOK'
      BY <2>0, <2>10, ConsumerKeepsTypes DEF ConsumerStep, ConsumerOK
    <3> QED
      BY <2>0, <2>1, <2>4, <2>10, <3>1 DEF ConsumerStep, TypeOK
  <2>11. CASE Working
    <3>1. ChannelTypeOK' /\ AggregateTypeOK'
      BY <2>0, <2>11, UsecaseTyped DEF Working, OwnFrame, UsecaseOK
    <3>2. upsertFaults' \in Nat /\ upsertFaults =< upsertFaults'
      BY <2>0, <2>11, FaultsRise DEF Working
    <3> QED
      BY <2>3, <2>4, <2>11, <3>1, <3>2 DEF Working, OwnFrame, TypeOK
  <2>12. CASE UNCHANGED vars
    BY <2>0, <2>1, <2>2, <2>3, <2>4, <2>12 DEF vars, TypeOK
  <2> QED
    BY <2>5, <2>6, <2>7, <2>8, <2>9, <2>10, <2>11, <2>12, StepsAre DEF Steps
<1> QED
  BY <1>1, <1>2, PTL DEF Spec

-----------------------------------------------------------------------------
(* What one life takes in. *)

SameIdAs(e) == {x \in Events : IdOf[x] = IdOf[e]}
Accepted(e) == SumFunctionOnSet(accepted, SameIdAs(e))

\* A running process may still take in an event of an id it does not
\* remember; and one it has remembered for over an hour, once forgotten.
Left(e) == (IF up /\ IdOf[e] \notin processed THEN 1 ELSE 0)
         + (IF IdOf[e] \in aged THEN 1 ELSE 0)

LivesSpent == \A e \in Events : Accepted(e) + Left(e) =< starts + hours

\* The usecase remembers an id when it takes an event in, and has not
\* remembered it before.
TakesIn ==
    \E x \in Events :
        /\ IdOf[x] \notin processed
        /\ processed' = processed \cup {IdOf[x]}
        /\ accepted' = [accepted EXCEPT ![x] = @ + 1]
        /\ UNCHANGED <<aged, hours>>

LEMMA UsecaseRemembers ==
    ASSUME UsecaseOK, UsecaseStep
    PROVE  \/ TakesIn
           \/ /\ UNCHANGED accepted
              /\ \/ UNCHANGED <<processed, aged, hours>>
                 \/ processed' = processed \ aged /\ aged' = {} /\ UNCHANGED hours
                 \/ hours' = hours + 1 /\ aged' = processed /\ UNCHANGED processed
<1>1. CASE ProcessEvent
  <2>1. Head(eventsChan) \in Messages
    BY <1>1 DEF ProcessEvent, TakeFirst, UsecaseOK, ChannelTypeOK
  <2>2. EventOf(Head(eventsChan)) \in Events
    BY <2>1, MessageCarriesEvent
  <2> QED
    BY <1>1, <2>2 DEF ProcessEvent, TakesIn, MemoryKey
<1>2. CASE Cleanup
  BY <1>2 DEF Cleanup, Expired
<1>3. CASE HourPasses
  BY <1>3 DEF HourPasses
<1>4. CASE AddToBuffer \/ StopProcessing \/ StopCleanup \/ Reconcile \/ FlushTick \/ StopFlushing
           \/ \E f \in Flushers : FlushDay(f) \/ FlushMonth(f)
  BY <1>4 DEF AddToBuffer, StopProcessing, StopCleanup, Reconcile, FlushTick, StopFlushing, FlushDay,
     FlushMonth, TakeDirty, ReadDay, ReadMonth, ReconcileDay, ReconcileMonth, StopReconciling,
     reconFrame, processVars
<1>5. "P" \in Flushers /\ "S" \in Flushers
  BY DEF Flushers
<1> QED
  BY <1>1, <1>2, <1>3, <1>4, <1>5 DEF UsecaseStep, Process, Streaming, Sweep

LEMMA AcceptedCounts ==
    ASSUME AggregateTypeOK, NEW e \in Events
    PROVE  Accepted(e) \in Nat
<1>1. IsFiniteSet(SameIdAs(e))
  BY EventsAssumption, FS_Subset DEF SameIdAs
<1>2. \A x \in SameIdAs(e) : accepted[x] \in Nat
  BY DEF AggregateTypeOK, SameIdAs
<1> QED
  BY <1>1, <1>2, SumNat DEF Accepted

\* Nothing is left over in a new usecase but what its start pays for.
LEMMA LivesSpentInvariant == Spec => []LivesSpent
<1>1. Init => LivesSpent
  <2> SUFFICES ASSUME Init, NEW e \in Events PROVE Accepted(e) + Left(e) =< starts + hours
    BY DEF LivesSpent
  <2>1. IsFiniteSet(SameIdAs(e))
    BY EventsAssumption, FS_Subset DEF SameIdAs
  <2>2. \A x \in SameIdAs(e) : accepted[x] = 0
    BY DEF Init, AggregateInit, None, SameIdAs
  <2>3. Accepted(e) = 0
    BY <2>1, <2>2, SumZeros DEF Accepted
  <2>4. Left(e) = 0 /\ starts = 0 /\ hours = 0
    BY DEF Init, AggregateInit, Left
  <2> QED
    BY <2>3, <2>4
<1>2. TypeOK /\ LivesSpent /\ [Next]_vars => LivesSpent'
  <2> SUFFICES ASSUME TypeOK, LivesSpent, [Next]_vars, NEW e \in Events
               PROVE  Accepted(e)' + Left(e)' =< starts' + hours'
    BY DEF LivesSpent
  <2>0. /\ Accepted(e) \in Nat /\ starts \in Nat /\ hours \in Nat
        /\ Accepted(e) + Left(e) =< starts + hours
        /\ aged \subseteq processed /\ AggregateTypeOK /\ UsecaseOK
    <3>1. AggregateTypeOK /\ UsecaseOK /\ starts \in Nat
      BY DEF TypeOK, UsecaseOK
    <3>2. aged \subseteq processed /\ hours \in Nat
      BY <3>1 DEF AggregateTypeOK
    <3>3. Accepted(e) \in Nat
      BY <3>1, AcceptedCounts
    <3>4. Accepted(e) + Left(e) =< starts + hours
      BY DEF LivesSpent
    <3> QED
      BY <3>1, <3>2, <3>3, <3>4
  <2>1. ASSUME UNCHANGED accepted PROVE Accepted(e)' = Accepted(e)
    BY <2>1 DEF Accepted, SameIdAs
  <2>2. CASE UNCHANGED <<accepted, up, processed, aged, starts, hours>>
    BY <2>0, <2>1, <2>2 DEF Left
  <2>3. PublishStep \/ IngestorStores \/ Signal \/ ConsumerStep \/ UNCHANGED vars
            => UNCHANGED <<accepted, up, processed, aged, starts, hours>>
    BY DEF PublishStep, IngestorStores, Signal, ConsumerStep, vars, aggVars, processVars, lifeVars
  <2>4. CASE Start
    <3>1. /\ UNCHANGED <<accepted, hours>> /\ starts' = starts + 1
          /\ processed' = {} /\ aged' = {} /\ ~ up /\ up'
      BY <2>4 DEF Start, NewUseCase
    <3>2. Left(e)' = 1 /\ Left(e) \in Nat
      BY <3>1 DEF Left
    <3> QED
      BY <2>0, <2>1, <3>1, <3>2
  <2>5. CASE Exit \/ Crash
    <3>1. UNCHANGED <<accepted, hours, starts>> /\ aged' = {} /\ ~ up'
      BY <2>5 DEF Exit, Crash, Halt, NewUseCase
    <3>2. Left(e)' = 0 /\ Left(e) \in Nat
      BY <3>1 DEF Left
    <3> QED
      BY <2>0, <2>1, <3>1, <3>2
  <2>6. CASE Working
    <3>1. UNCHANGED <<up, starts>>
      BY <2>6 DEF Working, OwnFrame, lifeVars
    <3>2. CASE TakesIn
      <4>1. PICK x \in Events :
              /\ IdOf[x] \notin processed
              /\ processed' = processed \cup {IdOf[x]}
              /\ accepted' = [accepted EXCEPT ![x] = @ + 1]
              /\ UNCHANGED <<aged, hours>>
        BY <3>2 DEF TakesIn
      <4>2. accepted \in [Events -> Nat] /\ SameIdAs(e) \in SUBSET Events
        BY <2>0 DEF AggregateTypeOK, SameIdAs
      <4>3. Accepted(e)' = Accepted(e) + (IF x \in SameIdAs(e) THEN 1 ELSE 0)
        BY <4>1, <4>2, GrantRises DEF Accepted, SameIdAs
      <4>4. up
        BY <2>6, <4>1 DEF Working, HourPasses
      <4>5. CASE IdOf[x] = IdOf[e]
        <5>1. Left(e) = 1 /\ Left(e)' = 0
          BY <2>0, <3>1, <4>1, <4>4, <4>5 DEF Left
        <5>2. Accepted(e)' = Accepted(e) + 1
          BY <4>3, <4>5 DEF SameIdAs
        <5> QED
          BY <2>0, <3>1, <4>1, <5>1, <5>2
      <4>6. CASE IdOf[x] # IdOf[e]
        <5>1. Left(e)' = Left(e)
          BY <3>1, <4>1, <4>6 DEF Left
        <5>2. Accepted(e)' = Accepted(e)
          BY <2>0, <4>3, <4>6 DEF SameIdAs
        <5> QED
          BY <2>0, <3>1, <4>1, <5>1, <5>2
      <4> QED
        BY <4>5, <4>6
    <3>3. CASE UNCHANGED <<accepted, processed, aged, hours>>
      BY <2>2, <3>1, <3>3
    <3>4. CASE UNCHANGED <<accepted, hours>> /\ processed' = processed \ aged /\ aged' = {}
      <4>1. Left(e) \in Nat /\ Left(e)' \in Nat /\ Left(e)' =< Left(e)
        BY <2>0, <3>1, <3>4 DEF Left
      <4> QED
        BY <2>0, <2>1, <3>1, <3>4, <4>1
    <3>5. CASE UNCHANGED <<accepted, processed>> /\ hours' = hours + 1 /\ aged' = processed
      <4>1. Left(e) \in Nat /\ Left(e)' \in Nat /\ Left(e)' =< Left(e) + 1
        BY <2>0, <3>1, <3>5 DEF Left
      <4> QED
        BY <2>0, <2>1, <3>1, <3>5, <4>1
    <3> QED
      BY <2>0, <2>6, <3>2, <3>3, <3>4, <3>5, UsecaseRemembers DEF Working
  <2> QED
    BY <2>2, <2>3, <2>4, <2>5, <2>6, StepsAre DEF Steps
<1> QED
  BY <1>1, <1>2, TypeCorrect, PTL DEF Spec

\* An event is taken in once per life, and once more for each hour after
\* which its id is forgotten.
LEMMA TakenInPerLife ==
    ASSUME TypeOK, LivesSpent, NEW e \in Events
    PROVE  accepted[e] \in Nat /\ starts \in Nat /\ hours \in Nat /\ accepted[e] =< starts + hours
<1>1. accepted \in [Events -> Nat] /\ starts \in Nat /\ hours \in Nat
  BY DEF TypeOK, AggregateTypeOK
<1>2. Accepted(e) \in Nat /\ Left(e) \in Nat /\ Accepted(e) + Left(e) =< starts + hours
  BY AcceptedCounts DEF TypeOK, LivesSpent, Left
<1>3. accepted[e] =< Accepted(e)
  <2> DEFINE rest == SameIdAs(e) \ {e}
  <2>1. IsFiniteSet(SameIdAs(e)) /\ IsFiniteSet(rest) /\ e \in SameIdAs(e)
    BY EventsAssumption, FS_Subset DEF SameIdAs
  <2>2. \A x \in SameIdAs(e) : accepted[x] \in Nat
    BY <1>1 DEF SameIdAs
  <2>3. SumFunctionOnSet(accepted, rest) \in Nat
    BY <2>1, <2>2, SumNat
  <2> HIDE DEF rest
  <2>4. Accepted(e) = accepted[e] + SumFunctionOnSet(accepted, rest)
    BY <2>1, <2>2, SumTake DEF Accepted, rest
  <2> QED
    BY <1>1, <2>3, <2>4
<1> QED
  BY <1>1, <1>2, <1>3

-----------------------------------------------------------------------------
(* Where the reader stands, and where things can be. *)

LEMMA ReaderInvariant == Spec => []ReaderOK(up)
<1>1. Init /\ TypeOK => ReaderOK(up)
  <2> SUFFICES ASSUME Init, TypeOK PROVE ReaderOK(up)
    OBVIOUS
  <2>1. ConsumerInit /\ up = FALSE
    BY DEF Init
  <2> QED
    BY <2>1, ConsumerBegins DEF ReaderOK, ReaderFits, ConsumerOK, TypeOK
<1>2. TypeOK /\ TypeOK' /\ ReaderOK(up) /\ [Next]_vars => ReaderOK(up)'
  <2> SUFFICES ASSUME TypeOK, TypeOK', ReaderOK(up), [Next]_vars PROVE ReaderOK(up)'
    OBVIOUS
  <2>1. ConsumerOK' /\ up \in BOOLEAN
    BY DEF TypeOK, ConsumerOK
  <2>2. CASE UNCHANGED <<committed, stash, position, resume, end, msg, up>>
    BY <2>1, <2>2 DEF ReaderOK, OffsetsOrdered, MessageInHand, ReaderFits
  <2>3. up => ReaderOK(TRUE)
    BY DEF ReaderOK, ReaderFits
  <2>4. ~ up => ReaderOK(FALSE)
    BY DEF ReaderOK, ReaderFits
  <2>5. ReaderFits(TRUE)' => ReaderFits(up)'
    BY DEF ReaderFits
  <2>6. ReaderFits(FALSE)' /\ ~ up' => ReaderFits(up)'
    BY DEF ReaderFits
  <2>7. CASE Start
    BY <2>1, <2>4, <2>5, <2>7, StartKeepsReader DEF Start, ReaderOK
  <2>8. CASE Exit \/ Crash
    <3>1. /\ up /\ ~ up' /\ kpc' = "closed" /\ msg' = NoMessage
          /\ UNCHANGED <<end, committed, stash, position, resume>>
      BY <2>8 DEF Exit, Crash, Halt
    <3> QED
      BY <2>1, <2>3, <2>6, <3>1, EndKeepsReader DEF ReaderOK
  <2>9. CASE ConsumerStep
    <3>1. up /\ ConsumeEvents /\ UNCHANGED ctx
      BY <2>9 DEF ConsumerStep
    <3>2. ReaderOK(TRUE)'
      BY <2>3, <3>1, ConsumerKeepsOK
    <3> QED
      BY <2>1, <2>5, <3>2 DEF ReaderOK
  <2>10. CASE PublishStep
    <3>1. PICK q \in Partitions : Publish(q)
      BY <2>10 DEF PublishStep
    <3>2. UNCHANGED <<committed, stash, position, resume, kpc, msg, up>>
      BY <2>10 DEF PublishStep, lifeVars
    <3>3. OffsetsOrdered' /\ MessageInHand' /\ ReaderFits(up)'
      BY <2>1, <3>1, <3>2, PublishKeepsReader
    <3> QED
      BY <2>1, <3>3 DEF ReaderOK
  <2>11. IngestorStores \/ Signal \/ Working \/ UNCHANGED vars
            => UNCHANGED <<committed, stash, position, resume, end, msg, up>>
    BY DEF IngestorStores, Signal, Working, OwnFrame, vars, consumerVars, lifeVars
  <2> QED
    BY <2>2, <2>7, <2>8, <2>9, <2>10, <2>11, StepsAre DEF Steps
<1> QED
  BY <1>1, <1>2, TypeCorrect, PTL DEF Spec

\* What a process that is down holds: nothing.
DownEmpty ==
    ~ up => /\ eventsChan = <<>> /\ kpc = "closed" /\ ppc = "select"
            /\ monthBuffer = None /\ \A f \in Flushers : monthCopy[f] = None

\* A flush writes the days of its events before it writes their months.
DayFirst ==
    \A f \in Flushers : \A e \in Events :
        monthCopy[f][e] > 0 /\ dayCopy[f][e] = 0 => aggDay[DayOf[e]][e] > 0

LEMMA NewUseCasePlaces ==
    ASSUME NewUseCase
    PROVE  Places' /\ DayFirst'
<1>1. /\ \A f \in Flushers : fpc'[f] = "idle" /\ dayCopy'[f] = None /\ monthCopy'[f] = None
      /\ fpc'["P"] = "idle" /\ dayBuffer' = monthBuffer' /\ ppc' = "select" /\ rpc' = "idle"
  BY DEF NewUseCase, Flushers
<1>2. Places'
  BY <1>1 DEF Places
<1>3. \A f \in Flushers : \A e \in Events : monthCopy'[f][e] = 0
  BY <1>1 DEF None
<1> QED
  BY <1>2, <1>3 DEF DayFirst

\* An upsert takes nothing out of a table.
LEMMA UpsertGrows ==
    ASSUME NEW B, NEW table \in [B -> [Events -> Nat]], NEW bucket, NEW part \in [Events -> Nat],
           NEW outcome, NEW b \in B, NEW e \in Events
    PROVE  /\ Upserted(table, bucket, part, outcome)[b][e] \in Nat
           /\ table[b][e] =< Upserted(table, bucket, part, outcome)[b][e]
<1>1. table[b][e] \in Nat /\ part[e] \in Nat
  OBVIOUS
<1>2. Upsert(table, bucket, part)[b][e] = IF b = bucket THEN table[b][e] + part[e] ELSE table[b][e]
  BY DEF Upsert
<1> QED
  BY <1>1, <1>2 DEF Upserted

\* The rows of an event lose nothing of it.
LEMMA RowsGrow ==
    ASSUME UsecaseOK, UsecaseStep, NEW e \in Events
    PROVE  /\ aggDay[DayOf[e]][e] \in Nat /\ aggDay'[DayOf[e]][e] \in Nat
           /\ aggDay[DayOf[e]][e] =< aggDay'[DayOf[e]][e]
           /\ aggMonth[MonthOf[e]][e] \in Nat /\ aggMonth'[MonthOf[e]][e] \in Nat
           /\ aggMonth[MonthOf[e]][e] =< aggMonth'[MonthOf[e]][e]
<1>1. /\ DayOf[e] \in Days /\ MonthOf[e] \in Months
      /\ aggDay \in [Days -> [Events -> Nat]] /\ aggMonth \in [Months -> [Events -> Nat]]
      /\ dayCopy \in [Flushers -> [Events -> Nat]] /\ monthCopy \in [Flushers -> [Events -> Nat]]
      /\ aggDay[DayOf[e]][e] \in Nat /\ aggMonth[MonthOf[e]][e] \in Nat
  BY DEF UsecaseOK, AggregateTypeOK, Days, Months
<1>2. ASSUME NEW f \in Flushers, FlushDay(f) \/ FlushMonth(f)
      PROVE  /\ aggDay'[DayOf[e]][e] \in Nat /\ aggDay[DayOf[e]][e] =< aggDay'[DayOf[e]][e]
             /\ aggMonth'[MonthOf[e]][e] \in Nat /\ aggMonth[MonthOf[e]][e] =< aggMonth'[MonthOf[e]][e]
  <2>1. CASE FlushDay(f)
    <3>1. PICK cell, outcome :
            aggDay' = Upserted(aggDay, cell[1], InCell(dayCopy[f], DayOf, cell), outcome)
      BY <2>1 DEF FlushDay
    <3>2. InCell(dayCopy[f], DayOf, cell) \in [Events -> Nat] /\ UNCHANGED aggMonth
      BY <1>1, <2>1, CellsTyped DEF FlushDay
    <3>3. aggDay'[DayOf[e]][e] \in Nat /\ aggDay[DayOf[e]][e] =< aggDay'[DayOf[e]][e]
      BY <1>1, <3>1, <3>2, UpsertGrows
    <3> QED
      BY <1>1, <3>2, <3>3
  <2>2. CASE FlushMonth(f)
    <3>1. PICK cell, outcome :
            aggMonth' = Upserted(aggMonth, cell[1], InCell(monthCopy[f], MonthOf, cell), outcome)
      BY <2>2 DEF FlushMonth
    <3>2. InCell(monthCopy[f], MonthOf, cell) \in [Events -> Nat] /\ UNCHANGED aggDay
      BY <1>1, <2>2, CellsTyped DEF FlushMonth
    <3>3. aggMonth'[MonthOf[e]][e] \in Nat /\ aggMonth[MonthOf[e]][e] =< aggMonth'[MonthOf[e]][e]
      BY <1>1, <3>1, <3>2, UpsertGrows
    <3> QED
      BY <1>1, <3>2, <3>3
  <2> QED
    BY <1>2, <2>1, <2>2
<1>3. CASE ReconcileDay
  <2>1. PICK t, outcome :
          aggDay' = Upserted(aggDay, PeriodDay(period), TotalOf(snap, t), outcome)
    BY <1>3 DEF ReconcileDay
  <2>2. TotalOf(snap, t) \in [Events -> Nat] /\ UNCHANGED aggMonth
    BY <1>3, TotalTyped DEF ReconcileDay
  <2>3. aggDay'[DayOf[e]][e] \in Nat /\ aggDay[DayOf[e]][e] =< aggDay'[DayOf[e]][e]
    BY <1>1, <2>1, <2>2, UpsertGrows
  <2> QED
    BY <1>1, <2>2, <2>3
<1>4. CASE ReconcileMonth
  <2>1. PICK t, outcome :
          aggMonth' = Upserted(aggMonth, PeriodMonth(period), TotalOf(snap, t), outcome)
    BY <1>4 DEF ReconcileMonth
  <2>2. TotalOf(snap, t) \in [Events -> Nat] /\ UNCHANGED aggDay
    BY <1>4, TotalTyped DEF ReconcileMonth
  <2>3. aggMonth'[MonthOf[e]][e] \in Nat /\ aggMonth[MonthOf[e]][e] =< aggMonth'[MonthOf[e]][e]
    BY <1>1, <2>1, <2>2, UpsertGrows
  <2> QED
    BY <1>1, <2>2, <2>3
<1>5. CASE UNCHANGED <<aggDay, aggMonth>>
  BY <1>1, <1>5
<1>6. ProcessEvent \/ AddToBuffer \/ StopProcessing \/ FlushTick \/ StopFlushing \/ TakeDirty
          \/ ReadDay \/ ReadMonth \/ StopReconciling \/ Sweep \/ HourPasses
          => UNCHANGED <<aggDay, aggMonth>>
  BY DEF ProcessEvent, AddToBuffer, StopProcessing, FlushTick, StopFlushing, TakeDirty, ReadDay,
     ReadMonth, StopReconciling, Sweep, Cleanup, StopCleanup, HourPasses, tableVars
<1>7. "P" \in Flushers /\ "S" \in Flushers
  BY DEF Flushers
<1> QED
  BY <1>1, <1>2, <1>3, <1>4, <1>5, <1>6, <1>7 DEF UsecaseStep, Process, Streaming, Reconcile

-----------------------------------------------------------------------------
(* The way of an event through the usecase. *)

LEMMA UsecaseActions ==
    ASSUME UsecaseStep
    PROVE  \/ ProcessEvent \/ AddToBuffer \/ StopProcessing \/ FlushTick
           \/ \E f \in Flushers : FlushDay(f) \/ FlushMonth(f)
           \/ UNCHANGED <<ppc, taken, dayBuffer, monthBuffer, dayCopy, monthCopy, eventsChan>>
<1>1. "P" \in Flushers /\ "S" \in Flushers
  BY DEF Flushers
<1>2. StopFlushing \/ Reconcile \/ Sweep \/ HourPasses
          => UNCHANGED <<ppc, taken, dayBuffer, monthBuffer, dayCopy, monthCopy, eventsChan>>
  BY DEF StopFlushing, Reconcile, TakeDirty, ReadDay, ReadMonth, ReconcileDay, ReconcileMonth,
     StopReconciling, reconFrame, Sweep, Cleanup, StopCleanup, HourPasses, processVars, bufferVars
<1> QED
  BY <1>1, <1>2 DEF UsecaseStep, Process, Streaming

\* What a flush does to its copies: a statement that is answered takes its
\* row out of one copy and into the table; any other empties both.
LEMMA FlushMoves ==
    ASSUME UsecaseOK, NEW f \in Flushers, FlushDay(f) \/ FlushMonth(f), NEW e \in Events
    PROVE  /\ \A g \in Flushers : g # f => dayCopy'[g] = dayCopy[g] /\ monthCopy'[g] = monthCopy[g]
           /\ UNCHANGED <<taken, dayBuffer, monthBuffer, eventsChan>>
           /\ \/ /\ monthCopy'[f] = None /\ dayCopy'[f] = None
                 /\ \E outcome : outcome # "ok" /\ Statement(outcome)
              \/ /\ FlushDay(f) /\ UNCHANGED <<monthCopy, ppc>>
                 /\ \/ dayCopy'[f][e] = dayCopy[f][e]
                    \/ aggDay'[DayOf[e]][e] = aggDay[DayOf[e]][e] + dayCopy[f][e]
              \/ /\ FlushMonth(f) /\ UNCHANGED <<dayCopy, aggDay>>
                 /\ \/ monthCopy'[f][e] = monthCopy[f][e]
                    \/ /\ monthCopy'[f][e] = 0
                       /\ aggMonth'[MonthOf[e]][e] = aggMonth[MonthOf[e]][e] + monthCopy[f][e]
<1>1. /\ DayOf[e] \in Days /\ MonthOf[e] \in Months
      /\ aggDay \in [Days -> [Events -> Nat]] /\ aggMonth \in [Months -> [Events -> Nat]]
      /\ dayCopy \in [Flushers -> [Events -> Nat]] /\ monthCopy \in [Flushers -> [Events -> Nat]]
  BY DEF UsecaseOK, AggregateTypeOK, Days, Months
<1>2. UNCHANGED <<taken, dayBuffer, monthBuffer, eventsChan>>
  BY DEF FlushDay, FlushMonth
<1>3. ASSUME AbandonFlush(f)
      PROVE  /\ \A g \in Flushers : g # f => dayCopy'[g] = dayCopy[g] /\ monthCopy'[g] = monthCopy[g]
             /\ monthCopy'[f] = None /\ dayCopy'[f] = None
  BY <1>1, <1>3 DEF AbandonFlush
<1>4. CASE FlushDay(f)
  <2>1. PICK cell \in CellsOf(dayCopy[f], DayOf), outcome \in Outcomes :
          /\ Statement(outcome)
          /\ aggDay' = Upserted(aggDay, cell[1], InCell(dayCopy[f], DayOf, cell), outcome)
          /\ IF outcome # "ok" THEN AbandonFlush(f)
             ELSE /\ dayCopy' = [dayCopy EXCEPT ![f] = Without(@, DayOf, cell)]
                  /\ fpc' = [fpc EXCEPT ![f] = IF dayCopy'[f] = None THEN "month" ELSE "day"]
                  /\ UNCHANGED <<ppc, monthCopy>>
    BY <1>4 DEF FlushDay
  <2>2. CASE outcome # "ok"
    BY <1>2, <1>3, <2>1, <2>2
  <2>3. CASE outcome = "ok"
    <3>1. /\ dayCopy' = [dayCopy EXCEPT ![f] = Without(dayCopy[f], DayOf, cell)]
          /\ UNCHANGED <<ppc, monthCopy>>
          /\ aggDay' = Upsert(aggDay, cell[1], InCell(dayCopy[f], DayOf, cell))
      BY <1>1, <2>1, <2>3 DEF Upserted
    <3>2. \A g \in Flushers : g # f => dayCopy'[g] = dayCopy[g] /\ monthCopy'[g] = monthCopy[g]
      BY <1>1, <3>1
    <3>3. dayCopy'[f] = Without(dayCopy[f], DayOf, cell)
      BY <1>1, <3>1
    <3>4. CASE <<DayOf[e], TypeOf[e]>> = cell
      <4>1. cell[1] = DayOf[e] /\ InCell(dayCopy[f], DayOf, cell)[e] = dayCopy[f][e]
        BY <3>4 DEF InCell
      <4>2. aggDay'[DayOf[e]][e] = aggDay[DayOf[e]][e] + dayCopy[f][e]
        BY <1>1, <3>1, <4>1 DEF Upsert
      <4> QED
        BY <1>2, <1>4, <3>1, <3>2, <4>2
    <3>5. CASE <<DayOf[e], TypeOf[e]>> # cell
      <4>1. dayCopy'[f][e] = dayCopy[f][e]
        BY <3>3, <3>5 DEF Without
      <4> QED
        BY <1>2, <1>4, <3>1, <3>2, <4>1
    <3> QED
      BY <3>4, <3>5
  <2> QED
    BY <2>2, <2>3
<1>5. CASE FlushMonth(f)
  <2>1. PICK cell \in CellsOf(monthCopy[f], MonthOf), outcome \in Outcomes :
          /\ Statement(outcome)
          /\ aggMonth' = Upserted(aggMonth, cell[1], InCell(monthCopy[f], MonthOf, cell), outcome)
          /\ IF outcome # "ok" THEN AbandonFlush(f)
             ELSE /\ monthCopy' = [monthCopy EXCEPT ![f] = Without(@, MonthOf, cell)]
                  /\ IF monthCopy'[f] = None THEN AfterFlush(f) ELSE UNCHANGED <<fpc, ppc>>
                  /\ UNCHANGED dayCopy
    BY <1>5 DEF FlushMonth
  <2>2. CASE outcome # "ok"
    BY <1>2, <1>3, <2>1, <2>2
  <2>3. CASE outcome = "ok"
    <3>1. /\ monthCopy' = [monthCopy EXCEPT ![f] = Without(monthCopy[f], MonthOf, cell)]
          /\ UNCHANGED <<dayCopy, aggDay>>
          /\ aggMonth' = Upsert(aggMonth, cell[1], InCell(monthCopy[f], MonthOf, cell))
      BY <1>1, <1>5, <2>1, <2>3 DEF Upserted, FlushMonth
    <3>2. \A g \in Flushers : g # f => dayCopy'[g] = dayCopy[g] /\ monthCopy'[g] = monthCopy[g]
      BY <1>1, <3>1
    <3>3. monthCopy'[f] = Without(monthCopy[f], MonthOf, cell)
      BY <1>1, <3>1
    <3>4. CASE <<MonthOf[e], TypeOf[e]>> = cell
      <4>1. cell[1] = MonthOf[e] /\ InCell(monthCopy[f], MonthOf, cell)[e] = monthCopy[f][e]
        BY <3>4 DEF InCell
      <4>2. aggMonth'[MonthOf[e]][e] = aggMonth[MonthOf[e]][e] + monthCopy[f][e]
        BY <1>1, <3>1, <4>1 DEF Upsert
      <4>3. monthCopy'[f][e] = 0
        BY <3>3, <3>4 DEF Without
      <4> QED
        BY <1>2, <1>5, <3>1, <3>2, <4>2, <4>3
    <3>5. CASE <<MonthOf[e], TypeOf[e]>> # cell
      <4>1. monthCopy'[f][e] = monthCopy[f][e]
        BY <3>3, <3>5 DEF Without
      <4> QED
        BY <1>2, <1>5, <3>1, <3>2, <4>1
    <3> QED
      BY <3>4, <3>5
  <2> QED
    BY <2>2, <2>3
<1> QED
  BY <1>4, <1>5

\* A flusher takes the buffers when its copies are empty.
LEMMA SwapMoves ==
    ASSUME UsecaseOK, Places, StopProcessing \/ FlushTick
    PROVE  \E f \in Flushers :
               /\ \A e \in Events : monthCopy[f][e] = 0
               /\ monthCopy'[f] = monthBuffer /\ dayCopy'[f] = monthBuffer
               /\ \A g \in Flushers : g # f => /\ dayCopy'[g] = dayCopy[g]
                                               /\ monthCopy'[g] = monthCopy[g]
               /\ monthBuffer' = None
               /\ UNCHANGED <<taken, aggDay, aggMonth, eventsChan>>
               /\ ppc' = ppc \/ (ppc = "select" /\ ppc' # "add")
<1>1. /\ dayCopy \in [Flushers -> [Events -> Nat]] /\ monthCopy \in [Flushers -> [Events -> Nat]]
      /\ dayBuffer = monthBuffer /\ "P" \in Flushers /\ "S" \in Flushers
  BY DEF UsecaseOK, AggregateTypeOK, Places, Flushers
<1>2. UNCHANGED <<taken, aggDay, aggMonth, eventsChan>> /\ monthBuffer' = None
  BY DEF StopProcessing, FlushTick, Swap, processVars, tableVars
<1>3. CASE StopProcessing
  <2>1. ppc = "select" /\ ppc' # "add" /\ Swap("P")
    BY <1>3 DEF StopProcessing
  <2>2. monthCopy["P"] = None
    BY <1>1, <2>1 DEF Places
  <2>3. \A e \in Events : monthCopy["P"][e] = 0
    BY <2>2 DEF None
  <2>4. /\ monthCopy'["P"] = monthBuffer /\ dayCopy'["P"] = monthBuffer
        /\ \A g \in Flushers : g # "P" => dayCopy'[g] = dayCopy[g] /\ monthCopy'[g] = monthCopy[g]
    BY <1>1, <2>1 DEF Swap
  <2> QED
    BY <1>1, <1>2, <2>1, <2>3, <2>4
<1>4. CASE FlushTick
  <2>1. fpc["S"] = "idle" /\ ppc' = ppc /\ Swap("S")
    BY <1>4 DEF FlushTick, processVars
  <2>2. monthCopy["S"] = None
    BY <1>1, <2>1 DEF Places
  <2>3. \A e \in Events : monthCopy["S"][e] = 0
    BY <2>2 DEF None
  <2>4. /\ monthCopy'["S"] = monthBuffer /\ dayCopy'["S"] = monthBuffer
        /\ \A g \in Flushers : g # "S" => dayCopy'[g] = dayCopy[g] /\ monthCopy'[g] = monthCopy[g]
    BY <1>1, <2>1 DEF Swap
  <2> QED
    BY <1>1, <1>2, <2>1, <2>3, <2>4
<1> QED
  BY <1>3, <1>4

LEMMA UsecaseKeepsDayFirst ==
    ASSUME UsecaseOK, Places, DayFirst, UsecaseStep
    PROVE  DayFirst'
<1> SUFFICES ASSUME NEW f \in Flushers, NEW e \in Events,
                    monthCopy'[f][e] > 0, dayCopy'[f][e] = 0
             PROVE  aggDay'[DayOf[e]][e] > 0
  BY DEF DayFirst
<1>1. /\ monthCopy[f][e] \in Nat /\ dayCopy[f][e] \in Nat /\ monthBuffer[e] \in Nat
      /\ aggDay[DayOf[e]][e] \in Nat /\ aggDay'[DayOf[e]][e] \in Nat
      /\ aggDay[DayOf[e]][e] =< aggDay'[DayOf[e]][e]
  BY RowsGrow DEF UsecaseOK, AggregateTypeOK
<1>2. monthCopy[f][e] > 0 /\ dayCopy[f][e] = 0 => aggDay[DayOf[e]][e] > 0
  BY DEF DayFirst
<1>3. CASE monthCopy'[f][e] = monthCopy[f][e] /\ dayCopy'[f][e] = dayCopy[f][e]
  BY <1>1, <1>2, <1>3
<1>4. CASE ProcessEvent \/ AddToBuffer
  <2>1. UNCHANGED <<monthCopy, dayCopy>>
    BY <1>4 DEF ProcessEvent, AddToBuffer, bufferVars
  <2> QED
    BY <1>3, <2>1
<1>5. CASE StopProcessing \/ FlushTick
  <2>1. PICK g \in Flushers :
          /\ monthCopy'[g] = monthBuffer /\ dayCopy'[g] = monthBuffer
          /\ \A h \in Flushers : h # g => dayCopy'[h] = dayCopy[h] /\ monthCopy'[h] = monthCopy[h]
    BY <1>5, SwapMoves
  <2>2. f # g
    BY <1>1, <2>1
  <2> QED
    BY <1>3, <2>1, <2>2
<1>6. ASSUME NEW g \in Flushers, FlushDay(g) \/ FlushMonth(g)
      PROVE  aggDay'[DayOf[e]][e] > 0
  <2>1. CASE f # g
    <3>1. dayCopy'[f] = dayCopy[f] /\ monthCopy'[f] = monthCopy[f]
      BY <1>6, <2>1, FlushMoves
    <3> QED
      BY <1>3, <3>1
  <2>2. CASE f = g
    <3>1. \/ monthCopy'[f] = None
          \/ /\ UNCHANGED monthCopy
             /\ \/ dayCopy'[f][e] = dayCopy[f][e]
                \/ aggDay'[DayOf[e]][e] = aggDay[DayOf[e]][e] + dayCopy[f][e]
          \/ /\ UNCHANGED <<dayCopy, aggDay>>
             /\ monthCopy'[f][e] = monthCopy[f][e] \/ monthCopy'[f][e] = 0
      BY <1>6, <2>2, FlushMoves
    <3>2. monthCopy'[f] # None
      BY DEF None
    <3> QED
      BY <1>1, <1>2, <3>1, <3>2
  <2> QED
    BY <2>1, <2>2
<1> QED
  BY <1>3, <1>4, <1>5, <1>6, UsecaseActions

\* While no statement fails, an event the usecase holds stays in its hands
\* until it is in both its rows.
Kept(e) == Counted(e) \/ Held(e)

LEMMA CountedStays ==
    ASSUME UsecaseOK, UsecaseStep, NEW e \in Events, Counted(e)
    PROVE  Counted(e)'
<1>1. /\ aggDay[DayOf[e]][e] \in Nat /\ aggDay'[DayOf[e]][e] \in Nat
      /\ aggDay[DayOf[e]][e] =< aggDay'[DayOf[e]][e]
      /\ aggMonth[MonthOf[e]][e] \in Nat /\ aggMonth'[MonthOf[e]][e] \in Nat
      /\ aggMonth[MonthOf[e]][e] =< aggMonth'[MonthOf[e]][e]
  BY RowsGrow
<1>2. aggDay[DayOf[e]][e] > 0 /\ aggMonth[MonthOf[e]][e] > 0
  BY DEF Counted
<1>3. aggDay'[DayOf[e]][e] > 0 /\ aggMonth'[MonthOf[e]][e] > 0
  BY <1>1, <1>2
<1> QED
  BY <1>3 DEF Counted

LEMMA KeptStays ==
    ASSUME UsecaseOK, Places, DayFirst, UsecaseStep, ~ ctx, UNCHANGED upsertFaults,
           NEW e \in Events, Kept(e)
    PROVE  Kept(e)'
<1>1. CASE Counted(e)
  BY <1>1, CountedStays DEF Kept
<1>2. /\ monthBuffer[e] \in Nat /\ upsertFaults \in Nat
      /\ dayCopy \in [Flushers -> [Events -> Nat]] /\ monthCopy \in [Flushers -> [Events -> Nat]]
      /\ dayBuffer \in [Events -> Nat] /\ monthBuffer \in [Events -> Nat]
  BY AggregatorBounds DEF UsecaseOK, AggregateTypeOK
<1>3. CASE ProcessEvent
  <2>1. UNCHANGED <<monthBuffer, monthCopy>> /\ ppc = "select"
    BY <1>3 DEF ProcessEvent, bufferVars
  <2> QED
    BY <1>1, <2>1 DEF Kept, Held
<1>4. CASE AddToBuffer
  <2>1. ppc = "add" /\ monthBuffer' = [monthBuffer EXCEPT ![EventOf(taken)] = @ + 1] /\ UNCHANGED monthCopy
    BY <1>4 DEF AddToBuffer
  <2>2. CASE EventOf(taken) = e
    <3>1. monthBuffer'[e] = monthBuffer[e] + 1
      BY <1>2, <2>1, <2>2
    <3>2. monthBuffer'[e] > 0
      BY <1>2, <3>1
    <3> QED
      BY <3>2 DEF Kept, Held
  <2>3. CASE EventOf(taken) # e
    <3>1. monthBuffer'[e] = monthBuffer[e]
      BY <1>2, <2>1, <2>3
    <3> QED
      BY <1>1, <2>1, <2>3, <3>1 DEF Kept, Held
  <2> QED
    BY <2>2, <2>3
<1>5. CASE StopProcessing \/ FlushTick
  <2>1. PICK g \in Flushers :
          /\ monthCopy[g][e] = 0 /\ monthCopy'[g] = monthBuffer
          /\ \A h \in Flushers : h # g => monthCopy'[h] = monthCopy[h]
          /\ UNCHANGED taken
          /\ ppc' = ppc \/ ppc = "select"
    BY <1>5, SwapMoves
  <2>2. CASE ppc = "add" /\ EventOf(taken) = e
    <3>1. ppc' = "add" /\ EventOf(taken)' = e
      BY <2>1, <2>2
    <3> QED
      BY <3>1 DEF Kept, Held
  <2>3. CASE monthBuffer[e] > 0
    BY <2>1, <2>3 DEF Kept, Held
  <2>4. ASSUME NEW f \in Flushers, monthCopy[f][e] > 0 PROVE Kept(e)'
    <3>1. f # g
      BY <2>1, <2>4
    <3> QED
      BY <2>1, <2>4, <3>1 DEF Kept, Held
  <2> QED
    BY <1>1, <2>2, <2>3, <2>4 DEF Kept, Held
<1>6. ASSUME NEW g \in Flushers, FlushDay(g) \/ FlushMonth(g), Held(e) PROVE Kept(e)'
  <2>1. /\ \A h \in Flushers : h # g => monthCopy'[h] = monthCopy[h]
        /\ UNCHANGED <<taken, monthBuffer>>
        /\ \/ \E outcome : outcome # "ok" /\ Statement(outcome)
           \/ FlushDay(g) /\ UNCHANGED <<monthCopy, ppc>>
           \/ /\ FlushMonth(g) /\ UNCHANGED <<dayCopy, aggDay>>
              /\ \/ monthCopy'[g][e] = monthCopy[g][e]
                 \/ aggMonth'[MonthOf[e]][e] = aggMonth[MonthOf[e]][e] + monthCopy[g][e]
    BY <1>6, FlushMoves
  <2>2. ~ \E outcome : outcome # "ok" /\ Statement(outcome)
    BY <1>2 DEF Statement
  <2>3. CASE FlushDay(g) /\ UNCHANGED <<monthCopy, ppc>>
    BY <1>6, <2>1, <2>3 DEF Kept, Held
  <2>4. CASE /\ FlushMonth(g) /\ UNCHANGED <<dayCopy, aggDay>>
             /\ \/ monthCopy'[g][e] = monthCopy[g][e]
                \/ aggMonth'[MonthOf[e]][e] = aggMonth[MonthOf[e]][e] + monthCopy[g][e]
    <3>1. ppc = "add" => ppc' = "add"
      <4>1. fpc[g] = "month" /\ (ppc' = ppc \/ g = "P")
        BY <2>4 DEF FlushMonth, AbandonFlush, AfterFlush
      <4> QED
        BY <4>1 DEF Places
    <3>2. CASE ppc = "add" /\ EventOf(taken) = e
      <4>1. ppc' = "add" /\ EventOf(taken)' = e
        BY <2>1, <3>1, <3>2
      <4> QED
        BY <4>1 DEF Kept, Held
    <3>3. CASE monthBuffer[e] > 0
      BY <2>1, <3>3 DEF Kept, Held
    <3>4. ASSUME NEW f \in Flushers, f # g, monthCopy[f][e] > 0 PROVE Kept(e)'
      BY <2>1, <3>4 DEF Kept, Held
    <3>5. CASE monthCopy[g][e] > 0 /\ monthCopy'[g][e] = monthCopy[g][e]
      BY <3>5 DEF Kept, Held
    <3>6. CASE monthCopy[g][e] > 0
                 /\ aggMonth'[MonthOf[e]][e] = aggMonth[MonthOf[e]][e] + monthCopy[g][e]
      <4>1. dayCopy[g] = None
        BY <2>4 DEF FlushMonth, Places
      <4>2. dayCopy[g][e] = 0
        BY <4>1 DEF None
      <4>3. aggDay'[DayOf[e]][e] > 0
        BY <2>4, <3>6, <4>2 DEF DayFirst
      <4>4. aggMonth[MonthOf[e]][e] \in Nat /\ monthCopy[g][e] \in Nat
        BY <1>2, RowsGrow
      <4>5. aggMonth'[MonthOf[e]][e] > 0
        BY <3>6, <4>4
      <4> QED
        BY <4>3, <4>5 DEF Kept, Counted
    <3> QED
      BY <1>6, <2>4, <3>2, <3>3, <3>4, <3>5, <3>6 DEF Held
  <2> QED
    BY <2>1, <2>2, <2>3, <2>4
<1>7. CASE UNCHANGED <<ppc, taken, monthBuffer, monthCopy>>
  BY <1>1, <1>7 DEF Kept, Held
<1> QED
  BY <1>1, <1>3, <1>4, <1>5, <1>6, <1>7, UsecaseActions DEF Kept

\* An event comes into the usecase's hands from the head of the channel.
LEMMA HeldArises ==
    ASSUME UsecaseOK, Places, UsecaseStep, NEW e \in Events, ~ Held(e), Held(e)'
    PROVE  ProcessEvent /\ e = EventOf(Head(eventsChan))
<1>1. /\ dayCopy \in [Flushers -> [Events -> Nat]] /\ monthCopy \in [Flushers -> [Events -> Nat]]
      /\ monthBuffer \in [Events -> Nat]
  BY DEF UsecaseOK, AggregateTypeOK
<1>2. /\ ~ (ppc = "add" /\ EventOf(taken) = e) /\ ~ (monthBuffer[e] > 0)
      /\ \A f \in Flushers : ~ (monthCopy[f][e] > 0)
  BY DEF Held
<1>3. \/ ppc' = "add" /\ EventOf(taken)' = e
      \/ monthBuffer'[e] > 0
      \/ \E f \in Flushers : monthCopy'[f][e] > 0
  BY DEF Held
<1>4. CASE ProcessEvent
  <2>1. UNCHANGED <<monthBuffer, monthCopy>>
    BY <1>4 DEF ProcessEvent, bufferVars
  <2>2. UNCHANGED <<ppc, taken>> \/ taken' = Head(eventsChan)
    BY <1>4 DEF ProcessEvent
  <2>3. ppc' = "add" /\ EventOf(taken)' = e
    BY <1>2, <1>3, <2>1
  <2>4. ~ UNCHANGED <<ppc, taken>>
    BY <1>2, <2>3
  <2> QED
    BY <1>4, <2>2, <2>3, <2>4 DEF EventOf
<1>5. ~ AddToBuffer
  <2> SUFFICES ASSUME AddToBuffer PROVE FALSE
    OBVIOUS
  <2>1. /\ ppc = "add" /\ monthBuffer' = [monthBuffer EXCEPT ![EventOf(taken)] = @ + 1]
        /\ UNCHANGED monthCopy /\ ppc' = "select"
    BY DEF AddToBuffer
  <2>2. EventOf(taken) # e
    BY <1>2, <2>1
  <2>3. monthBuffer'[e] = monthBuffer[e]
    BY <1>1, <2>1, <2>2
  <2> QED
    BY <1>2, <1>3, <2>1, <2>3
<1>6. ~ (StopProcessing \/ FlushTick)
  <2> SUFFICES ASSUME StopProcessing \/ FlushTick PROVE FALSE
    OBVIOUS
  <2>1. PICK g \in Flushers :
          /\ monthCopy'[g] = monthBuffer
          /\ \A h \in Flushers : h # g => monthCopy'[h] = monthCopy[h]
          /\ monthBuffer' = None /\ UNCHANGED taken
          /\ ppc' = ppc \/ ppc' # "add"
    BY SwapMoves
  <2>2. \A f \in Flushers : ~ (monthCopy'[f][e] > 0)
    BY <1>2, <2>1
  <2>3. ~ (monthBuffer'[e] > 0)
    BY <2>1 DEF None
  <2>4. ~ (ppc' = "add" /\ EventOf(taken)' = e)
    BY <1>2, <2>1
  <2> QED
    BY <1>3, <2>2, <2>3, <2>4
<1>7. ~ \E g \in Flushers : FlushDay(g) \/ FlushMonth(g)
  <2> SUFFICES ASSUME NEW g \in Flushers, FlushDay(g) \/ FlushMonth(g) PROVE FALSE
    OBVIOUS
  <2>1. /\ \A h \in Flushers : h # g => monthCopy'[h] = monthCopy[h]
        /\ UNCHANGED <<taken, monthBuffer>>
        /\ \/ monthCopy'[g] = None
           \/ UNCHANGED monthCopy
           \/ monthCopy'[g][e] = monthCopy[g][e] \/ monthCopy'[g][e] = 0
    BY FlushMoves
  <2>2. \A f \in Flushers : ~ (monthCopy'[f][e] > 0)
    BY <1>2, <2>1 DEF None
  <2>3. ppc' = ppc \/ ppc' # "add"
    BY DEF FlushDay, FlushMonth, AbandonFlush, AfterFlush
  <2>4. ~ (ppc' = "add" /\ EventOf(taken)' = e)
    BY <1>2, <2>1, <2>3
  <2> QED
    BY <1>2, <1>3, <2>1, <2>2, <2>4
<1>8. ~ UNCHANGED <<ppc, taken, monthBuffer, monthCopy>>
  BY <1>2, <1>3
<1> QED
  BY <1>4, <1>5, <1>6, <1>7, <1>8, UsecaseActions

-----------------------------------------------------------------------------
(* Where things are, in every state of the service. *)

\* The steps that leave the usecase as it is.
Aside == PublishStep \/ Signal \/ ConsumerStep \/ UNCHANGED vars

LEMMA AsideLeaves ==
    ASSUME Aside
    PROVE  UNCHANGED aggVars
BY DEF Aside, PublishStep, Signal, ConsumerStep, vars

LEMMA AggParts ==
    ASSUME UNCHANGED aggVars \/ IngestorStores
    PROVE  /\ UNCHANGED <<ppc, taken, processed, dayBuffer, monthBuffer, fpc, dayCopy, monthCopy>>
           /\ UNCHANGED <<rpc, period, snap, aggDay, aggMonth, upsertFaults>>
BY DEF aggVars, IngestorStores, processVars, bufferVars, reconVars, tableVars

WayOK == Places /\ DayFirst

LEMMA WayInvariant == Spec => []WayOK
<1>1. Init => WayOK
  <2> SUFFICES ASSUME Init PROVE Places /\ DayFirst
    BY DEF WayOK
  <2>1. Places
    BY PlacesInit DEF Init
  <2>2. \A f \in Flushers : \A e \in Events : monthCopy[f][e] = 0
    BY DEF Init, AggregateInit, None
  <2> QED
    BY <2>1, <2>2 DEF DayFirst
<1>2. TypeOK /\ WayOK /\ [Next]_vars => WayOK'
  <2> SUFFICES ASSUME TypeOK, Places, DayFirst, [Next]_vars PROVE WayOK'
    BY DEF WayOK
  <2>1. CASE Aside \/ IngestorStores
    BY <2>1, AsideLeaves, AggParts DEF WayOK, Places, DayFirst
  <2>2. CASE Start \/ Exit \/ Crash
    BY <2>2, NewUseCasePlaces DEF Start, Exit, Crash, Halt, WayOK
  <2>3. CASE Working
    BY <2>3, UsecaseKeepsPlaces, UsecaseKeepsDayFirst DEF Working, UsecaseOK, TypeOK, WayOK
  <2> QED
    BY <2>1, <2>2, <2>3, StepsAre DEF Steps, Aside
<1> QED
  BY <1>1, <1>2, TypeCorrect, PTL DEF Spec

-----------------------------------------------------------------------------
(* How much of an event a row can hold, over lives. *)

\* A process that goes takes its periods and what was on the way with it:
\* what it leaves in the tables stays within the bound.
LEMMA RestartBounded ==
    ASSUME UsecaseOK, UsecaseOK', ClaimsBounded, NewUseCase
    PROVE  Origins' /\ ClaimsBounded'
<1>1. /\ dirty' = <<>> /\ rpc' = "idle" /\ period' = NoPeriod /\ ppc' = "select"
      /\ UNCHANGED <<accepted, asked, aggDay, aggMonth>>
  BY DEF NewUseCase, tableVars
<1>2. Origins'
  BY <1>1, EmptyThings DEF Origins
<1>3. ASSUME NEW e \in Events, NEW d \in Days, NEW m \in Months
      PROVE  /\ DayLoad(e, d)' + DayClaims(e, d)' =< DayBound(e, d)'
             /\ MonthLoad(e, m)' + MonthClaims(e, m)' =< MonthBound(e, m)'
  <2>1. RowNumbers /\ RowNumbers'
    BY RowsNumbered, RowsNumberedAfter
  <2>2. /\ InHand(e)' = 0 /\ dayBuffer'[e] = 0 /\ monthBuffer'[e] = 0
        /\ dayCopy'["P"][e] = 0 /\ dayCopy'["S"][e] = 0
        /\ monthCopy'["P"][e] = 0 /\ monthCopy'["S"][e] = 0
    BY <1>1 DEF NewUseCase, None, InHand, Flushers
  <2>3. OnTheWayToDay(e)' = 0 /\ OnTheWayToMonth(e)' = 0
    BY <2>2 DEF OnTheWayToDay, OnTheWayToMonth
  <2>4. DayLoad(e, d)' = aggDay[d][e] /\ MonthLoad(e, m)' = aggMonth[m][e]
    <3>1. aggDay'[d][e] = aggDay[d][e] /\ aggMonth'[m][e] = aggMonth[m][e]
      BY <1>1
    <3>2. aggDay[d][e] \in Nat /\ aggMonth[m][e] \in Nat
      BY <2>1 DEF RowNumbers
    <3> QED
      BY <2>3, <3>1, <3>2 DEF DayLoad, MonthLoad
  <2>5. DayClaims(e, d)' = 0 /\ MonthClaims(e, m)' = 0
    <3>1. ASSUME NEW A PROVE CountIn(dirty', A) = 0
      BY <1>1, CountInNone
    <3>2. DayPending(e, d)' = 0 /\ MonthPending(e, m)' = 0
      BY <1>1 DEF DayPending, MonthPending
    <3>3. /\ DayClaims(e, d)' = DayPending(e, d)' + CountIn(dirty', DayAskers(e, d))
          /\ MonthClaims(e, m)' = MonthPending(e, m)' + CountIn(dirty', MonthAskers(e, m))
      BY DEF DayClaims, MonthClaims, DayAskers, MonthAskers
    <3> QED
      BY <3>1, <3>2, <3>3
  <2>6. DayBound(e, d)' = DayBound(e, d) /\ MonthBound(e, m)' = MonthBound(e, m)
    BY <1>1 DEF DayBound, MonthBound, DayTaken, MonthTaken, DayRecounters, MonthRecounters
  <2>7. /\ DayLoad(e, d) + DayClaims(e, d) =< DayBound(e, d)
        /\ MonthLoad(e, m) + MonthClaims(e, m) =< MonthBound(e, m)
    BY DEF ClaimsBounded
  <2> QED
    BY <2>1, <2>4, <2>5, <2>6, <2>7
    DEF RowNumbers, DayLoad, MonthLoad, DayClaims, MonthClaims, DayBound, MonthBound
<1> QED
  BY <1>2, <1>3, Zenon DEF ClaimsBounded, Days, Months

\* Every period is that of an event marked late in this life or an earlier
\* one, and what is in a row or claims it was taken in or marked.
RowsOK == Origins /\ ClaimsBounded

LEMMA RowsInvariant == Spec => []RowsOK
<1>1. Init => RowsOK
  <2> SUFFICES ASSUME Init PROVE RowsOK
    OBVIOUS
  <2>1. AggregateInit /\ UsecaseOK
    BY UsecaseInit DEF Init, Opened
  <2> QED
    BY <2>1, OriginsInit, BoundedInit DEF RowsOK
<1>2. UsecaseOK /\ UsecaseOK' /\ Places /\ RowsOK /\ [Next]_vars => RowsOK'
  <2> SUFFICES ASSUME UsecaseOK, UsecaseOK', Places, Origins, ClaimsBounded, [Next]_vars
               PROVE  Origins' /\ ClaimsBounded'
    BY DEF RowsOK
  <2>1. CASE Aside \/ IngestorStores
    <3>1. UNCHANGED <<ppc, taken, dayBuffer, monthBuffer, dayCopy, monthCopy, aggDay, aggMonth,
                      accepted, asked, rpc, period, snap, dirty>>
      BY <2>1, AsideLeaves
      DEF aggVars, IngestorStores, processVars, bufferVars, reconVars, tableVars
    <3>2. Origins'
      BY <3>1 DEF Origins, Origin
    <3> QED
      BY <3>1, <3>2, StillBounded
  <2>2. CASE Start \/ Exit \/ Crash
    BY <2>2, RestartBounded DEF Start, Exit, Crash, Halt
  <2>3. CASE Working
    BY <2>3, UsecaseKeepsOrigins, UsecaseKeepsBound DEF Working
  <2> QED
    BY <2>1, <2>2, <2>3, StepsAre DEF Steps, Aside
<1>3. TypeOK => UsecaseOK
  BY DEF TypeOK, UsecaseOK
<1>4. WayOK => Places
  BY DEF WayOK
<1> QED
  BY <1>1, <1>2, <1>3, <1>4, TypeCorrect, WayInvariant, PTL DEF Spec

\* Over crashes, restarts and redeliveries, with statements refused and
\* unanswered: one life puts an event into a row once (and once more for
\* each hour after which its id is forgotten), and what is there above that
\* are recomputations asked for, each of which reads the event once.
THEOREM RecountBoundedHolds == Spec => []RecountBounded
<1>1. TypeOK /\ LivesSpent /\ RowsOK => RecountBounded
  <2> SUFFICES ASSUME TypeOK, LivesSpent, ClaimsBounded,
                      NEW e \in Events, NEW d \in Days, NEW m \in Months
               PROVE  /\ aggDay[d][e] =<
                             (IF DayOf[e] = d THEN starts + hours ELSE 0)
                             + SumFunctionOnSet(asked, DayRecounters(e, d))
                      /\ aggMonth[m][e] =<
                             (IF MonthOf[e] = m THEN starts + hours ELSE 0)
                             + SumFunctionOnSet(asked, MonthRecounters(e, m))
    BY Zenon DEF RecountBounded, RowsOK, Days, Months
  <2>1. RowNumbers
    BY RowsNumbered DEF TypeOK, UsecaseOK
  <2>2. /\ DayLoad(e, d) + DayClaims(e, d) =< DayBound(e, d)
        /\ MonthLoad(e, m) + MonthClaims(e, m) =< MonthBound(e, m)
    BY DEF ClaimsBounded
  <2>3. /\ accepted[e] \in Nat /\ starts \in Nat /\ hours \in Nat
        /\ accepted[e] =< starts + hours
    BY TakenInPerLife
  <2>4. aggDay[d][e] =< (IF DayOf[e] = d THEN starts + hours ELSE 0)
                            + SumFunctionOnSet(asked, DayRecounters(e, d))
    BY <2>1, <2>2, <2>3 DEF RowNumbers, DayLoad, DayClaims, DayBound, DayTaken
  <2>5. aggMonth[m][e] =< (IF MonthOf[e] = m THEN starts + hours ELSE 0)
                              + SumFunctionOnSet(asked, MonthRecounters(e, m))
    BY <2>1, <2>2, <2>3 DEF RowNumbers, MonthLoad, MonthClaims, MonthBound, MonthTaken
  <2> QED
    BY <2>4, <2>5
<1> QED
  BY <1>1, TypeCorrect, LivesSpentInvariant, RowsInvariant, PTL

-----------------------------------------------------------------------------
(* What a process that is down holds. *)

LEMMA DownEmptyInvariant == Spec => []DownEmpty
<1>1. Init => DownEmpty
  BY DEF Init, AggregateInit, ConsumerInit, DownEmpty
<1>2. DownEmpty /\ [Next]_vars => DownEmpty'
  <2> SUFFICES ASSUME DownEmpty, [Next]_vars, ~ up' PROVE DownEmpty'
    BY DEF DownEmpty
  <2>1. CASE Exit \/ Crash
    BY <2>1 DEF Exit, Crash, Halt, ChannelReset, NewUseCase, DownEmpty
  <2>2. CASE PublishStep \/ IngestorStores \/ UNCHANGED vars
    <3>1. UNCHANGED <<up, kpc, eventsChan, ppc, monthBuffer, monthCopy>>
      BY <2>2, AggParts DEF PublishStep, IngestorStores, vars, consumerVars, channelVars, lifeVars
    <3> QED
      BY <2>2, <3>1 DEF DownEmpty
  <2>3. CASE Working
    <3>1. UNCHANGED <<kpc, up>> /\ HourPasses
      BY <2>3 DEF Working, OwnFrame, consumerVars, lifeVars
    <3>2. UNCHANGED <<eventsChan, ppc, monthBuffer, monthCopy>>
      BY <3>1 DEF HourPasses, bufferVars
    <3> QED
      BY <3>1, <3>2 DEF DownEmpty
  <2>4. ~ (Start \/ Signal \/ ConsumerStep)
    BY DEF Start, Signal, ConsumerStep, lifeVars
  <2> QED
    BY <2>1, <2>2, <2>3, <2>4, StepsAre DEF Steps
<1> QED
  BY <1>1, <1>2, PTL DEF Spec

\* What comes out of the channel was fetched in this life, and parses.
WasFetched(m) == m \in Fetched(m[1]) /\ EventOf(m) \in Parseable

Deliveries ==
    /\ \A i \in DOMAIN eventsChan : WasFetched(eventsChan[i])
    /\ kpc = "send" => WasFetched(msg)

LEMMA FetchedGrows ==
    ASSUME ConsumerOK, ConsumeEvents, NEW m \in Messages
    PROVE  /\ m \in Fetched(m[1]) => m \in Fetched(m[1])'
           /\ WasFetched(m) => WasFetched(m)'
<1>1. m[1] \in Partitions /\ m[2] \in Nat
  BY MessageParts
<1>2. UNCHANGED resume
  BY ConsumerAdvances
<1>3. position'[m[1]] = position[m[1]] \/ position'[m[1]] = position[m[1]] + 1
  <2>1. ASSUME NEW q \in Partitions, FetchMessage(q)
        PROVE  position'[m[1]] = position[m[1]] \/ position'[m[1]] = position[m[1]] + 1
    BY <1>1, <2>1 DEF FetchMessage, ConsumerOK, ConsumerTypeOK
  <2>2. FetchCancelled \/ Send \/ SendCancelled \/ Commit \/ CommitCancelled \/ CommitNow
          => UNCHANGED position
    BY DEF FetchCancelled, Send, SendCancelled, Commit, CommitCancelled, CommitNow
  <2> QED
    BY <2>1, <2>2 DEF ConsumeEvents
<1>4. position[m[1]] \in Nat /\ resume[m[1]] \in Nat
  BY <1>1, ReaderNumbers
<1>5. (resume[m[1]] + 1)..position[m[1]] \subseteq (resume[m[1]] + 1)..position'[m[1]]
  BY <1>3, <1>4
<1>6. m \in Fetched(m[1]) => m \in Fetched(m[1])'
  BY <1>2, <1>5 DEF Fetched
<1> QED
  BY <1>6 DEF WasFetched, EventOf

\* What the consumer's step does to the channel and to the message in hand.
LEMMA ConsumerHands ==
    ASSUME ConsumerOK, ConsumeEvents
    PROVE  \/ \E p \in Partitions : FetchMessage(p) /\ UNCHANGED eventsChan
           \/ Send /\ kpc' = "commit" /\ eventsChan' = Append(eventsChan, msg)
           \/ /\ UNCHANGED <<eventsChan, position>> /\ kpc' # "send"
              /\ kpc # "send" \/ ctx
<1>1. CASE \E p \in Partitions : FetchMessage(p)
  BY <1>1 DEF FetchMessage
<1>2. CASE Send
  BY <1>2 DEF Send, Offer
<1>3. CASE FetchCancelled \/ SendCancelled \/ Commit \/ CommitCancelled \/ CommitNow
  BY <1>3 DEF FetchCancelled, SendCancelled, Commit, CommitCancelled, CommitNow, LoopHead, BackToLoop
<1> QED
  BY <1>1, <1>2, <1>3 DEF ConsumeEvents

\* And what the usecase does to it: it takes the first message or none.
LEMMA UsecaseTakes ==
    ASSUME UsecaseOK, UsecaseStep
    PROVE  \/ UNCHANGED eventsChan /\ ~ ProcessEvent
           \/ /\ ProcessEvent /\ eventsChan # <<>> /\ eventsChan' = Tail(eventsChan)
              /\ 1 \in DOMAIN eventsChan /\ Head(eventsChan) = eventsChan[1]
              /\ Head(eventsChan) \in Messages
              /\ \A i \in DOMAIN eventsChan' : i + 1 \in DOMAIN eventsChan /\ eventsChan'[i] = eventsChan[i + 1]
              /\ \A i \in DOMAIN eventsChan : i # 1 => i - 1 \in DOMAIN eventsChan' /\ eventsChan'[i - 1] = eventsChan[i]
<1>1. CASE ProcessEvent
  <2>1. eventsChan # <<>> /\ eventsChan' = Tail(eventsChan) /\ eventsChan \in Seq(Messages)
    BY <1>1 DEF ProcessEvent, TakeFirst, UsecaseOK, ChannelTypeOK
  <2>2. 1 \in DOMAIN eventsChan /\ Head(eventsChan) = eventsChan[1] /\ Head(eventsChan) \in Messages
    BY <2>1
  <2>3. /\ \A i \in DOMAIN eventsChan' : i + 1 \in DOMAIN eventsChan /\ eventsChan'[i] = eventsChan[i + 1]
        /\ \A i \in DOMAIN eventsChan : i # 1 => i - 1 \in DOMAIN eventsChan' /\ eventsChan'[i - 1] = eventsChan[i]
    BY <2>1
  <2> QED
    BY <1>1, <2>1, <2>2, <2>3
<1>2. CASE ~ ProcessEvent
  <2>1. UNCHANGED eventsChan
    <3>1. AddToBuffer \/ StopProcessing \/ FlushTick \/ (\E f \in Flushers : FlushDay(f) \/ FlushMonth(f))
            => UNCHANGED eventsChan
      BY DEF AddToBuffer, StopProcessing, FlushTick, FlushDay, FlushMonth
    <3> QED
      BY <1>2, <3>1, UsecaseActions
  <2> QED
    BY <1>2, <2>1
<1> QED
  BY <1>1, <1>2

LEMMA DeliveriesInvariant == Spec => []Deliveries
<1>1. Init => Deliveries
  BY DEF Init, ConsumerInit, Deliveries
<1>2. TypeOK /\ ReaderOK(up) /\ Deliveries /\ [Next]_vars => Deliveries'
  <2> SUFFICES ASSUME TypeOK, ReaderOK(up), Deliveries, [Next]_vars PROVE Deliveries'
    OBVIOUS
  <2>0. ConsumerOK /\ UsecaseOK /\ eventsChan \in Seq(Messages)
    BY DEF TypeOK, ConsumerOK, UsecaseOK, ChannelTypeOK
  <2>1. CASE ConsumerStep
    <3>1. ConsumeEvents /\ up /\ msg \in Messages \cup {NoMessage}
      BY <2>0, <2>1 DEF ConsumerStep, ConsumerOK, ConsumerTypeOK
    <3>2. \A m \in Messages : WasFetched(m) => WasFetched(m)'
      BY <2>0, <3>1, FetchedGrows
    <3>3. \A i \in DOMAIN eventsChan : eventsChan[i] \in Messages /\ WasFetched(eventsChan[i])
      BY <2>0 DEF Deliveries
    <3>4. ASSUME UNCHANGED eventsChan
          PROVE  \A i \in DOMAIN eventsChan' : WasFetched(eventsChan[i])'
      BY <3>2, <3>3, <3>4 DEF WasFetched, EventOf
    <3>5. ASSUME NEW p \in Partitions, FetchMessage(p), UNCHANGED eventsChan
          PROVE  Deliveries'
      <4>1. /\ msg' = <<p, position[p] + 1>> /\ kpc' = AfterParse(msg')
            /\ msg' \in Fetched(p)'
        BY <2>0, <3>1, <3>5, FetchedIsFresh DEF FetchMessage, ReaderOK, ReaderFits
      <4>2. kpc' = "send" => EventOf(msg') \in Parseable
        BY <4>1 DEF AfterParse
      <4>3. kpc' = "send" => WasFetched(msg)'
        BY <4>1, <4>2 DEF WasFetched, EventOf
      <4> QED
        BY <3>4, <3>5, <4>3 DEF Deliveries
    <3>6. ASSUME Send, kpc' = "commit", eventsChan' = Append(eventsChan, msg)
          PROVE  Deliveries'
      <4>1. kpc = "send" /\ WasFetched(msg) /\ msg \in Messages
        BY <2>0, <3>6 DEF Send, Deliveries, ConsumerOK, ConsumerTypeOK
      <4>2. \A i \in DOMAIN eventsChan' :
              (i \in DOMAIN eventsChan /\ eventsChan'[i] = eventsChan[i]) \/ eventsChan'[i] = msg
        BY <2>0, <3>6, <4>1
      <4>3. \A i \in DOMAIN eventsChan' : \E m \in Messages : eventsChan'[i] = m /\ WasFetched(m)
        BY <3>3, <4>1, <4>2
      <4>4. \A i \in DOMAIN eventsChan' : WasFetched(eventsChan[i])'
        BY <3>2, <4>3 DEF WasFetched, EventOf
      <4> QED
        BY <3>6, <4>4 DEF Deliveries
    <3> QED
      BY <2>0, <3>1, <3>4, <3>5, <3>6, ConsumerHands DEF Deliveries
  <2>2. CASE Start \/ Exit \/ Crash
    BY <2>2 DEF Start, Exit, Crash, Halt, OpenReader, ChannelReset, Deliveries
  <2>3. CASE UNCHANGED <<eventsChan, kpc, msg, position, resume>>
    BY <2>3 DEF Deliveries, WasFetched, Fetched, EventOf
  <2>4. PublishStep \/ IngestorStores \/ Signal \/ UNCHANGED vars
          => UNCHANGED <<eventsChan, kpc, msg, position, resume>>
    BY DEF PublishStep, IngestorStores, Signal, vars, consumerVars, channelVars
  <2>5. CASE Working
    <3>1. UNCHANGED <<kpc, msg, position, resume>> /\ UsecaseStep
      BY <2>5 DEF Working, OwnFrame, consumerVars
    <3>2. \/ UNCHANGED eventsChan
          \/ \A i \in DOMAIN eventsChan' : \E j \in DOMAIN eventsChan : eventsChan'[i] = eventsChan[j]
      BY <2>0, <3>1, UsecaseTakes
    <3> QED
      BY <3>1, <3>2 DEF Deliveries, WasFetched, Fetched, EventOf
  <2> QED
    BY <2>1, <2>2, <2>3, <2>4, <2>5, StepsAre DEF Steps
<1> QED
  BY <1>1, <1>2, TypeCorrect, ReaderInvariant, PTL DEF Spec

-----------------------------------------------------------------------------
(* What a healthy service has fetched, it counts or keeps. *)

Remembered ==
    Healthy => \A id \in processed : \E e \in Events : IdOf[e] = id /\ Kept(e)

Awaited(m) == Offered(m) \/ Buffered(m) \/ \E e \in SameId(m) : Kept(e)

FetchedKept ==
    Healthy => \A p \in Partitions : \A m \in Fetched(p) :
                   m \in Messages /\ EventOf(m) \in Parseable => Awaited(m)

\* Nothing but a start makes the service healthy.
LEMMA HealthyBefore ==
    ASSUME TypeOK, TypeOK', [Next]_vars, ~ Start, Healthy'
    PROVE  /\ Healthy /\ ~ ctx /\ up /\ UNCHANGED <<upsertFaults, ctx, up>>
           /\ PublishStep \/ IngestorStores \/ ConsumerStep \/ Working \/ UNCHANGED vars
<1>1. /\ upsertFaults \in Nat /\ faultsBefore \in Nat /\ faultsBefore =< upsertFaults
      /\ up' /\ ~ ctx' /\ upsertFaults' = faultsBefore'
  BY AggregatorBounds DEF TypeOK, AggregateTypeOK, Healthy
<1>2. ~ (Signal \/ Exit \/ Crash)
  BY <1>1 DEF Signal, Exit, Crash, Halt
<1>3. CASE PublishStep \/ IngestorStores \/ ConsumerStep \/ UNCHANGED vars
  <2>1. UNCHANGED upsertFaults
    BY <1>3, AsideLeaves, AggParts DEF Aside
  <2>2. UNCHANGED <<ctx, up, faultsBefore>>
    BY <1>3 DEF PublishStep, IngestorStores, ConsumerStep, vars, channelVars, lifeVars
  <2> QED
    BY <1>1, <1>3, <2>1, <2>2 DEF Healthy
<1>4. CASE Working
  <2>1. UNCHANGED <<ctx, up, faultsBefore>>
    BY <1>4 DEF Working, OwnFrame, lifeVars
  <2>2. upsertFaults' \in Nat /\ upsertFaults =< upsertFaults'
    BY <1>4, FaultsRise DEF Working, TypeOK
  <2>3. UNCHANGED upsertFaults
    BY <1>1, <2>1, <2>2
  <2> QED
    BY <1>1, <1>4, <2>1, <2>3 DEF Healthy
<1> QED
  BY <1>2, <1>3, <1>4, StepsAre DEF Steps

\* A healthy service keeps what it keeps.
LEMMA HealthyKeeps ==
    ASSUME TypeOK, TypeOK', WayOK, [Next]_vars, ~ Start, Healthy', NEW e \in Events, Kept(e)
    PROVE  Kept(e)'
<1>1. /\ ~ ctx /\ UNCHANGED upsertFaults
      /\ PublishStep \/ IngestorStores \/ ConsumerStep \/ Working \/ UNCHANGED vars
  BY HealthyBefore
<1>2. CASE PublishStep \/ IngestorStores \/ ConsumerStep \/ UNCHANGED vars
  <2>1. UNCHANGED <<ppc, taken, monthBuffer, monthCopy, aggDay, aggMonth>>
    BY <1>2, AsideLeaves, AggParts DEF Aside
  <2> QED
    BY <2>1 DEF Kept, Counted, Held, EventOf
<1>3. CASE Working
  BY <1>1, <1>3, KeptStays DEF Working, UsecaseOK, TypeOK, WayOK
<1> QED
  BY <1>1, <1>2, <1>3

\* An event the usecase takes in, it has in its hands.
LEMMA TakenInIsKept ==
    ASSUME UsecaseOK, UsecaseStep, NEW id \in processed', id \notin processed
    PROVE  \E e \in Events : IdOf[e] = id /\ Kept(e)'
<1>1. ProcessEvent
  <2>1. CASE Cleanup
    BY <2>1 DEF Cleanup
  <2>2. CASE HourPasses
    BY <2>2 DEF HourPasses
  <2>3. AddToBuffer \/ StopProcessing \/ StopCleanup \/ Reconcile \/ FlushTick \/ StopFlushing
           \/ (\E f \in Flushers : FlushDay(f) \/ FlushMonth(f)) => UNCHANGED processed
    BY DEF AddToBuffer, StopProcessing, StopCleanup, Reconcile, FlushTick, StopFlushing, FlushDay,
     FlushMonth, TakeDirty, ReadDay, ReadMonth, ReconcileDay, ReconcileMonth, StopReconciling,
     reconFrame, processVars
  <2>4. "P" \in Flushers /\ "S" \in Flushers
    BY DEF Flushers
  <2> QED
    BY <2>1, <2>2, <2>3, <2>4 DEF UsecaseStep, Process, Streaming, Sweep
<1>2. Head(eventsChan) \in Messages
  BY <1>1, UsecaseTakes
<1>3. PICK e \in Events : e = EventOf(Head(eventsChan))
  BY <1>2, MessageCarriesEvent
<1>4. /\ id = IdOf[e]
      /\ ppc' = "add" /\ taken' = Head(eventsChan)
  BY <1>1, <1>3 DEF ProcessEvent, MemoryKey
<1>5. Kept(e)'
  BY <1>3, <1>4 DEF Kept, Held, EventOf
<1> QED
  BY <1>4, <1>5

LEMMA RememberedInvariant == Spec => []Remembered
<1>1. Init => Remembered
  BY DEF Init, Healthy, Remembered
<1>2. TypeOK /\ TypeOK' /\ WayOK /\ Remembered /\ [Next]_vars => Remembered'
  <2> SUFFICES ASSUME TypeOK, TypeOK', WayOK, Remembered, [Next]_vars, Healthy', NEW id \in processed'
               PROVE  \E e \in Events : IdOf[e] = id /\ Kept(e)'
    BY DEF Remembered
  <2>1. ~ Start
    BY DEF Start, NewUseCase
  <2>2. /\ Healthy
        /\ PublishStep \/ IngestorStores \/ ConsumerStep \/ Working \/ UNCHANGED vars
    BY <2>1, HealthyBefore
  <2>3. CASE id \in processed
    <3>1. PICK e \in Events : IdOf[e] = id /\ Kept(e)
      BY <2>2, <2>3 DEF Remembered
    <3> QED
      BY <2>1, <3>1, HealthyKeeps
  <2>4. CASE id \notin processed
    <3>1. Working
      BY <2>2, <2>4, AsideLeaves, AggParts DEF Aside
    <3> QED
      BY <2>4, <3>1, TakenInIsKept DEF Working, UsecaseOK, TypeOK
  <2> QED
    BY <2>3, <2>4
<1> QED
  BY <1>1, <1>2, TypeCorrect, WayInvariant, PTL DEF Spec

LEMMA FetchedKeptInvariant == Spec => []FetchedKept
<1>1. Init => FetchedKept
  BY DEF Init, Healthy, FetchedKept
<1>2. /\ TypeOK /\ TypeOK' /\ ReaderOK(up) /\ WayOK /\ Remembered /\ FetchedKept /\ [Next]_vars
      => FetchedKept'
  <2> SUFFICES ASSUME TypeOK, TypeOK', ReaderOK(up), WayOK, Remembered, FetchedKept, [Next]_vars,
                      Healthy', NEW p \in Partitions, NEW m \in Fetched(p)',
                      m \in Messages, EventOf(m) \in Parseable
               PROVE  Awaited(m)'
    BY DEF FetchedKept, EventOf
  <2>0. ConsumerOK /\ UsecaseOK /\ eventsChan \in Seq(Messages)
    BY DEF TypeOK, ConsumerOK, UsecaseOK, ChannelTypeOK
  <2>1. CASE Start
    <3>1. resume'[p] = position'[p] /\ position'[p] \in Nat
      BY <2>1 DEF Start, OpenReader, TypeOK, ConsumerTypeOK
    <3>2. Fetched(p)' = {}
      BY <3>1 DEF Fetched
    <3> QED
      BY <3>2
  <2>2. CASE ~ Start
    <3>1. /\ Healthy /\ ~ ctx /\ up
          /\ PublishStep \/ IngestorStores \/ ConsumerStep \/ Working \/ UNCHANGED vars
      BY <2>2, HealthyBefore
    <3>2. ASSUME NEW e \in SameId(m), Kept(e) PROVE Awaited(m)'
      <4>1. e \in Events /\ e \in SameId(m)'
        BY <3>2 DEF SameId, EventOf
      <4>2. Kept(e)'
        BY <2>2, <3>2, <4>1, HealthyKeeps
      <4> QED
        BY <4>1, <4>2 DEF Awaited
    <3>3. CASE ConsumerStep
      <4>1. ConsumeEvents
        BY <3>3 DEF ConsumerStep
      <4>2. ASSUME NEW q \in Partitions, FetchMessage(q), UNCHANGED eventsChan
            PROVE  Awaited(m)'
        <5> DEFINE n == <<q, position[q] + 1>>
        <5>1. /\ Fetched(q)' = Fetched(q) \cup {n}
              /\ \A r \in Partitions : r # q => Fetched(r)' = Fetched(r)
              /\ kpc = "fetch" /\ msg' = n /\ kpc' = AfterParse(msg')
          BY <3>1, <4>2, FetchedIsFresh DEF FetchMessage, ReaderOK, ReaderFits
        <5> HIDE DEF n
        <5>2. CASE m = n
          <6>1. kpc' = "send" /\ msg' = m
            BY <5>1, <5>2 DEF AfterParse
          <6> QED
            BY <6>1 DEF Awaited, Offered
        <5>3. CASE m # n
          <6>1. m \in Fetched(p)
            BY <5>1, <5>3
          <6>2. Awaited(m) /\ ~ Offered(m)
            BY <3>1, <5>1, <6>1 DEF FetchedKept, Offered
          <6> QED
            BY <3>2, <4>2, <6>2 DEF Awaited, Buffered
        <5> QED
          BY <5>2, <5>3
      <4>3. ASSUME UNCHANGED position PROVE Awaited(m)
        <5>1. m \in Fetched(p)
          BY <2>0, <4>1, <4>3, ConsumerAdvances DEF Fetched
        <5> QED
          BY <3>1, <5>1 DEF FetchedKept
      <4>4. ASSUME Send, kpc' = "commit", eventsChan' = Append(eventsChan, msg)
            PROVE  Awaited(m)'
        <5>1. Awaited(m) /\ msg \in Messages
          BY <2>0, <4>3, <4>4 DEF Send, ConsumerOK, ConsumerTypeOK
        <5>2. /\ \A i \in DOMAIN eventsChan : i \in DOMAIN eventsChan' /\ eventsChan'[i] = eventsChan[i]
              /\ Len(eventsChan) + 1 \in DOMAIN eventsChan' /\ eventsChan'[Len(eventsChan) + 1] = msg
          BY <2>0, <4>4, <5>1
        <5>3. Offered(m) \/ Buffered(m) => Buffered(m)'
          BY <5>2 DEF Offered, Buffered
        <5> QED
          BY <3>2, <5>1, <5>3 DEF Awaited
      <4>5. ASSUME UNCHANGED <<eventsChan, position>>, kpc # "send"
            PROVE  Awaited(m)'
        BY <3>2, <4>3, <4>5 DEF Awaited, Offered, Buffered
      <4> QED
        BY <2>0, <3>1, <4>1, <4>2, <4>4, <4>5, ConsumerHands
    <3>4. CASE PublishStep \/ IngestorStores \/ UNCHANGED vars
      <4>1. UNCHANGED <<eventsChan, kpc, msg, position, resume>>
        BY <3>4 DEF PublishStep, IngestorStores, vars, consumerVars, channelVars
      <4>2. Awaited(m)
        BY <3>1, <4>1 DEF FetchedKept, Fetched
      <4> QED
        BY <3>2, <4>1, <4>2 DEF Awaited, Offered, Buffered
    <3>5. CASE Working
      <4>1. UNCHANGED <<kpc, msg, position, resume>> /\ UsecaseStep
        BY <3>5 DEF Working, OwnFrame, consumerVars
      <4>2. Awaited(m)
        BY <3>1, <4>1 DEF FetchedKept, Fetched
      <4>3. CASE Offered(m)
        BY <4>1, <4>3 DEF Awaited, Offered
      <4>4. CASE Buffered(m)
        <5>1. CASE UNCHANGED eventsChan
          BY <4>4, <5>1 DEF Awaited, Buffered
        <5>2. CASE /\ ProcessEvent /\ Head(eventsChan) = eventsChan[1]
                   /\ \A i \in DOMAIN eventsChan : i # 1 => /\ i - 1 \in DOMAIN eventsChan'
                                                           /\ eventsChan'[i - 1] = eventsChan[i]
          <6>1. CASE m # Head(eventsChan)
            BY <4>4, <5>2, <6>1 DEF Awaited, Buffered
          <6>2. CASE m = Head(eventsChan)
            <7>1. EventOf(m) \in Events /\ EventOf(m) \in SameId(m)'
              BY MessageCarriesEvent DEF SameId, EventOf
            <7>2. CASE IdOf[EventOf(m)] \in processed
              <8>1. PICK e \in Events : IdOf[e] = IdOf[EventOf(m)] /\ Kept(e)
                BY <3>1, <7>2 DEF Remembered
              <8> QED
                BY <3>2, <8>1 DEF SameId
            <7>3. CASE IdOf[EventOf(m)] \notin processed
              <8>1. IdOf[EventOf(m)] \in processed'
                BY <5>2, <6>2, <7>3 DEF ProcessEvent, MemoryKey
              <8>2. ppc' = "add" /\ taken' = m
                BY <5>2, <6>2, <7>3 DEF ProcessEvent, MemoryKey
              <8>3. Kept(EventOf(m))'
                BY <8>2 DEF Kept, Held, EventOf
              <8> QED
                BY <7>1, <8>3 DEF Awaited, EventOf
            <7> QED
              BY <7>2, <7>3
          <6> QED
            BY <6>1, <6>2
        <5> QED
          BY <2>0, <4>1, <5>1, <5>2, UsecaseTakes
      <4>5. CASE \E e \in SameId(m) : Kept(e)
        BY <3>2, <4>5
      <4> QED
        BY <4>2, <4>3, <4>4, <4>5 DEF Awaited
    <3> QED
      BY <3>1, <3>3, <3>4, <3>5
  <2> QED
    BY <2>1, <2>2
<1> QED
  BY <1>1, <1>2, TypeCorrect, ReaderInvariant, WayInvariant, RememberedInvariant, PTL DEF Spec

-----------------------------------------------------------------------------
(* The fate of one message. *)

LEMMA CountableAre ==
    /\ Countable \subseteq Messages
    /\ \A m \in Countable : /\ EventOf(m) \in Parseable /\ EventOf(m) \in Events
                            /\ m[1] \in Partitions /\ m[2] \in Nat
    /\ \A m \in Messages : EventOf(m) \in Parseable => m \in Countable
BY AllMessagesAre, MessageCarriesEvent, MessageParts DEF Countable

FateHasValues ==
    \A m \in Countable :
        /\ Fate(m) = "stored"   <=> Stored(m)
        /\ Fate(m) = "inflight" <=> ~ Stored(m) /\ InFlight(m)
        /\ Fate(m) = "lost"     <=> ~ Stored(m) /\ ~ InFlight(m) /\ Passed(m, up)
        /\ Fate(m) = "waiting"  <=> ~ Stored(m) /\ ~ InFlight(m) /\ ~ Passed(m, up)
        /\ Fate(m) \in {"waiting", "inflight", "stored", "lost"}

LEMMA FateValues == FateHasValues
BY DEF FateHasValues, Fate

LEMMA FateValuesAfter == FateHasValues'
<1> QED
  BY FateValues, PTL

\* What the steps below are taken from.
ServiceInv ==
    /\ TypeOK /\ ReaderOK(up) /\ WayOK /\ DownEmpty
    /\ Deliveries /\ FetchedKept

LEMMA ServiceInvariant == Spec => []ServiceInv
BY TypeCorrect, ReaderInvariant, WayInvariant, DownEmptyInvariant, DeliveriesInvariant,
   FetchedKeptInvariant, PTL DEF ServiceInv

\* In a healthy service what was fetched and is not counted is in flight,
\* and only what came before the reader's start is lost.
HealthyFates ==
    ServiceInv /\ Healthy =>
        \A m \in Countable :
            ~ Stored(m) => /\ InFlight(m) <=> m \in Fetched(m[1])
                           /\ m \notin Fetched(m[1]) => (Passed(m, up) <=> m[2] =< resume[m[1]])

LEMMA FatesWhenHealthy == HealthyFates
<1> SUFFICES ASSUME ServiceInv, Healthy, NEW m \in Countable, ~ Stored(m)
             PROVE  /\ InFlight(m) <=> m \in Fetched(m[1])
                    /\ m \notin Fetched(m[1]) => (Passed(m, up) <=> m[2] =< resume[m[1]])
  BY DEF HealthyFates
<1>1. m \in Messages /\ EventOf(m) \in Parseable /\ m[1] \in Partitions /\ up
  BY CountableAre DEF Healthy
<1>2. m \in Fetched(m[1]) => InFlight(m)
  BY <1>1 DEF ServiceInv, FetchedKept, Awaited, Kept, Stored, InFlight
<1>3. ReaderOK(TRUE)
  BY <1>1 DEF ServiceInv, ReaderOK, ReaderFits
<1>4. Passed(m, up) => Passed(m, TRUE)
  BY <1>1 DEF Passed
<1>5. m \notin Fetched(m[1]) /\ Passed(m, up) => m[2] =< resume[m[1]]
  BY <1>1, <1>3, <1>4, PassedIsFetched
<1>6. m[2] =< resume[m[1]] => Passed(m, up)
  BY <1>1 DEF Passed
<1> QED
  BY <1>2, <1>5, <1>6 DEF InFlight

LEMMA FatesWhenHealthyAfter == HealthyFates'
<1> QED
  BY FatesWhenHealthy, PTL

\* A count, once in the tables, stays there.
LEMMA StoredStays ==
    ASSUME TypeOK, [Next]_vars, NEW m \in Countable, Stored(m)
    PROVE  Stored(m)'
<1>1. PICK e \in SameId(m) : Counted(e)
  BY DEF Stored
<1>2. e \in Events /\ e \in SameId(m)'
  BY DEF SameId, EventOf
<1>3. Counted(e)'
  <2>1. CASE UNCHANGED <<aggDay, aggMonth>>
    BY <1>1, <2>1 DEF Counted
  <2>2. Aside \/ IngestorStores => UNCHANGED <<aggDay, aggMonth>>
    BY AsideLeaves, AggParts
  <2>3. Start \/ Exit \/ Crash => UNCHANGED <<aggDay, aggMonth>>
    BY DEF Start, Exit, Crash, Halt, NewUseCase, tableVars
  <2>4. CASE Working
    BY <1>1, <1>2, <2>4, CountedStays DEF Working, UsecaseOK, TypeOK
  <2> QED
    BY <2>1, <2>2, <2>3, <2>4, StepsAre DEF Steps, Aside
<1> QED
  BY <1>2, <1>3 DEF Stored

\* What the broker has passed stays passed.
LEMMA PassedStays ==
    ASSUME ReaderOK(up), [Next]_vars, NEW m \in Messages, Passed(m, up)
    PROVE  Passed(m, up)'
<1>1. /\ up => ReaderOK(TRUE) /\ Passed(m, TRUE)
      /\ ~ up => ReaderOK(FALSE) /\ Passed(m, FALSE)
  BY DEF ReaderOK, ReaderFits, Passed
<1>2. /\ up' /\ Passed(m, TRUE)' => Passed(m, up)'
      /\ ~ up' /\ Passed(m, FALSE)' => Passed(m, up)'
  BY DEF Passed
<1>3. CASE ConsumerStep
  BY <1>1, <1>2, <1>3, ConsumerPasses DEF ConsumerStep, lifeVars
<1>4. CASE Start
  BY <1>1, <1>2, <1>4, StartPasses DEF Start
<1>5. CASE Exit \/ Crash
  <2>1. /\ up /\ ~ up' /\ UNCHANGED <<end, committed>>
    BY <1>5 DEF Exit, Crash, Halt
  <2> QED
    BY <1>1, <1>2, <2>1, EndPasses
<1>6. CASE PublishStep
  <2>1. PICK q \in Partitions : Publish(q)
    BY <1>6 DEF PublishStep
  <2>2. UNCHANGED <<committed, stash, position, resume, kpc, msg, up>>
    BY <1>6 DEF PublishStep, lifeVars
  <2>3. CASE up
    BY <1>1, <1>2, <2>1, <2>2, <2>3, PublishPasses
  <2>4. CASE ~ up
    BY <1>1, <1>2, <2>1, <2>2, <2>4, PublishPasses
  <2> QED
    BY <2>3, <2>4
<1>7. CASE IngestorStores \/ Signal \/ Working \/ UNCHANGED vars
  <2>1. UNCHANGED <<resume, end, committed, up>>
    BY <1>7 DEF IngestorStores, Signal, Working, OwnFrame, vars, consumerVars, lifeVars
  <2> QED
    BY <2>1 DEF Passed
<1> QED
  BY <1>3, <1>4, <1>5, <1>6, <1>7, StepsAre DEF Steps

\* What a process that is down, or has just ended, holds: nothing.
LEMMA NothingInFlight ==
    ASSUME DownEmpty, ~ up, NEW m
    PROVE  ~ InFlight(m)
<1>1. ~ Offered(m) /\ ~ Buffered(m)
  BY DEF DownEmpty, Offered, Buffered
<1>2. \A e \in Events : ~ Held(e)
  BY DEF DownEmpty, Held, None
<1> QED
  BY <1>1, <1>2 DEF InFlight, SameId

DownHoldsNothing == DownEmpty /\ ~ up => \A m \in Countable : ~ InFlight(m)

LEMMA DownHoldsNothingAfter == DownHoldsNothing'
<1>1. DownHoldsNothing
  BY NothingInFlight DEF DownHoldsNothing
<1> QED
  BY <1>1, PTL

-----------------------------------------------------------------------------
(* The steps of the abstract specification. *)

FateOf    == [m \in Countable |-> Fate(m)]
ContentOf == [m \in Countable |-> IdOf[EventOf(m)]]

\* What a step of a healthy service fetches.
FetchesNow(m) == \E p \in Partitions : /\ ConsumerStep /\ FetchMessage(p)
                                      /\ m = <<p, position[p] + 1>>

LEMMA FetchedBefore ==
    ASSUME ConsumerOK, UNCHANGED <<resume, position>>
    PROVE  \A m : m \in Fetched(m[1])' <=> m \in Fetched(m[1])
BY DEF Fetched

\* A step of a running process leaves the reader's start alone, and adds to
\* what was fetched the message it fetches.
LEMMA OnlyAFetchFetches ==
    ASSUME TypeOK, ReaderOK(up), up, [Next]_vars, ~ Start, ~ Exit, ~ Crash, NEW m \in Messages
    PROVE  /\ UNCHANGED resume
           /\ ~ FetchesNow(m) => (m \in Fetched(m[1])' <=> m \in Fetched(m[1]))
           /\ FetchesNow(m) => /\ m \notin Fetched(m[1]) /\ m \in Fetched(m[1])'
                               /\ ~ Passed(m, up)
<1>0. ConsumerOK /\ ReaderOK(TRUE) /\ m[1] \in Partitions
  BY MessageParts DEF TypeOK, ConsumerOK, ReaderOK, ReaderFits
<1>1. CASE UNCHANGED <<resume, position>> /\ ~ FetchesNow(m)
  BY <1>0, <1>1, FetchedBefore
<1>2. CASE ConsumerStep
  <2>1. ConsumeEvents /\ UNCHANGED resume
    BY <1>0, <1>2, ConsumerAdvances DEF ConsumerStep
  <2>2. ASSUME NEW p \in Partitions, FetchMessage(p)
        PROVE  /\ FetchesNow(m) <=> m = <<p, position[p] + 1>>
               /\ m \notin Fetched(m[1]) => (m \in Fetched(m[1])' <=> m = <<p, position[p] + 1>>)
               /\ m \in Fetched(m[1]) => m \in Fetched(m[1])' /\ m # <<p, position[p] + 1>>
               /\ m = <<p, position[p] + 1>> => ~ Passed(m, TRUE)
    <3> DEFINE n == <<p, position[p] + 1>>
    <3>1. /\ n \notin Fetched(p) /\ ~ Passed(n, TRUE) /\ Fetched(p)' = Fetched(p) \cup {n}
          /\ \A q \in Partitions : q # p => Fetched(q)' = Fetched(q)
      BY <1>0, <2>2, FetchedIsFresh
    <3>2. FetchesNow(m) => m = n
      <4> SUFFICES ASSUME NEW q \in Partitions, FetchMessage(q), m = <<q, position[q] + 1>>
                   PROVE  m = n
        BY DEF FetchesNow
      <4>1. msg' = <<q, position[q] + 1>> /\ msg' = <<p, position[p] + 1>>
        BY <2>2 DEF FetchMessage
      <4> QED
        BY <4>1
    <3>3. m = n => FetchesNow(m)
      BY <1>2, <2>2 DEF FetchesNow
    <3>4. n[1] = p
      OBVIOUS
    <3> HIDE DEF n
    <3>5. m \notin Fetched(m[1]) => (m \in Fetched(m[1])' <=> m = n)
      <4>1. CASE m[1] = p
        BY <3>1, <4>1
      <4>2. CASE m[1] # p
        BY <1>0, <3>1, <3>4, <4>2
      <4> QED
        BY <4>1, <4>2
    <3>6. m \in Fetched(m[1]) => m \in Fetched(m[1])' /\ m # n
      <4>1. CASE m[1] = p
        BY <3>1, <4>1
      <4>2. CASE m[1] # p
        BY <1>0, <3>1, <3>4, <4>2
      <4> QED
        BY <4>1, <4>2
    <3> QED
      BY <3>1, <3>2, <3>3, <3>5, <3>6 DEF n
  <2>3. CASE \E p \in Partitions : FetchMessage(p)
    <3>1. Passed(m, up) => Passed(m, TRUE)
      BY DEF Passed
    <3> QED
      BY <2>1, <2>2, <2>3, <3>1
  <2>4. CASE ~ \E p \in Partitions : FetchMessage(p)
    <3>1. UNCHANGED position
      BY <2>1, <2>4 DEF ConsumeEvents, FetchCancelled, Send, SendCancelled, Commit, CommitCancelled, CommitNow
    <3> QED
      BY <1>1, <2>1, <2>4, <3>1 DEF FetchesNow
  <2> QED
    BY <2>3, <2>4
<1>3. CASE ~ ConsumerStep
  <2>1. PublishStep \/ IngestorStores \/ Signal \/ Working \/ UNCHANGED vars
    BY <1>3, StepsAre DEF Steps
  <2>2. UNCHANGED <<resume, position>>
    BY <2>1 DEF PublishStep, IngestorStores, Signal, Working, OwnFrame, vars, consumerVars
  <2> QED
    BY <1>1, <1>3, <2>2 DEF FetchesNow
<1> QED
  BY <1>2, <1>3

\* In a healthy service a message that is neither fetched nor counted by a
\* step keeps its fate.
LEMMA HealthyKeepsFate ==
    ASSUME ServiceInv, ServiceInv', [Next]_vars, Healthy, Healthy',
           NEW m \in Countable, ~ FetchesNow(m), ~ Stored(m)'
    PROVE  Fate(m)' = Fate(m)
<1>1. ~ Stored(m) /\ m \in Messages /\ up /\ up'
  BY StoredStays, CountableAre DEF ServiceInv, Healthy
<1>2. ~ Start /\ ~ Exit /\ ~ Crash
  BY <1>1 DEF Start, Exit, Crash, Halt
<1>3. UNCHANGED resume /\ (m \in Fetched(m[1])' <=> m \in Fetched(m[1]))
  BY <1>1, <1>2, OnlyAFetchFetches DEF ServiceInv
<1>4. /\ InFlight(m) <=> m \in Fetched(m[1])
      /\ m \notin Fetched(m[1]) => (Passed(m, up) <=> m[2] =< resume[m[1]])
  BY <1>1, FatesWhenHealthy DEF HealthyFates
<1>5. /\ InFlight(m)' <=> m \in Fetched(m[1])'
      /\ m \notin Fetched(m[1])' => (Passed(m, up)' <=> m[2] =< resume'[m[1]])
  BY FatesWhenHealthyAfter DEF HealthyFates
<1>6. (InFlight(m)' <=> InFlight(m)) /\ (~ InFlight(m) => (Passed(m, up)' <=> Passed(m, up)))
  <2>1. InFlight(m)' <=> InFlight(m)
    BY <1>3, <1>4, <1>5
  <2>2. ASSUME ~ InFlight(m) PROVE Passed(m, up)' <=> Passed(m, up)
    BY <1>3, <1>4, <1>5, <2>2
  <2> QED
    BY <2>1, <2>2
<1>7. CASE InFlight(m)
  <2>1. Fate(m) = "inflight"
    BY <1>1, <1>7, FateValues DEF FateHasValues
  <2>2. Fate(m)' = "inflight"
    BY <1>6, <1>7, FateValuesAfter DEF FateHasValues
  <2> QED
    BY <2>1, <2>2
<1>8. CASE ~ InFlight(m)
  <2>1. CASE Passed(m, up)
    <3>1. Fate(m) = "lost"
      BY <1>1, <1>8, <2>1, FateValues DEF FateHasValues
    <3>2. Fate(m)' = "lost"
      BY <1>6, <1>8, <2>1, FateValuesAfter DEF FateHasValues
    <3> QED
      BY <3>1, <3>2
  <2>2. CASE ~ Passed(m, up)
    <3>1. Fate(m) = "waiting"
      BY <1>1, <1>8, <2>2, FateValues DEF FateHasValues
    <3>2. Fate(m)' = "waiting"
      BY <1>6, <1>8, <2>2, FateValuesAfter DEF FateHasValues
    <3> QED
      BY <3>1, <3>2
  <2> QED
    BY <2>1, <2>2
<1> QED
  BY <1>7, <1>8

LEMMA HealthyTakes ==
    ASSUME ServiceInv, ServiceInv', [Next]_vars, Healthy, Healthy',
           NEW n \in Countable, FetchesNow(n), ~ Stored(n)
    PROVE  Promise!Take(n)
<1>1. /\ n \in Messages /\ up /\ up' /\ ConsumerStep
      /\ ~ Start /\ ~ Exit /\ ~ Crash
  BY CountableAre DEF Healthy, FetchesNow, Start, Exit, Crash, Halt
<1>2. ASSUME NEW m \in Countable PROVE Stored(m)' <=> Stored(m)
  <2>1. UNCHANGED <<aggDay, aggMonth>>
    BY <1>1, AsideLeaves, AggParts DEF Aside
  <2> QED
    BY <2>1 DEF Stored, Counted, SameId, EventOf
<1>3. n \notin Fetched(n[1]) /\ n \in Fetched(n[1])' /\ ~ Passed(n, up)
  BY <1>1, OnlyAFetchFetches DEF ServiceInv
<1>4. Fate(n) = "waiting"
  BY <1>3, FateValues DEF FateHasValues, InFlight
<1>5. Fate(n)' = "inflight"
  <2>1. InFlight(n)'
    BY <1>2, <1>3, FatesWhenHealthyAfter DEF HealthyFates
  <2> QED
    BY <1>2, <2>1, FateValuesAfter DEF FateHasValues
<1>6. ASSUME NEW m \in Countable, m # n PROVE Fate(m)' = Fate(m)
  <2>1. CASE Stored(m)
    BY <1>2, <2>1, FateValues, FateValuesAfter DEF FateHasValues
  <2>2. CASE ~ Stored(m)
    <3>1. ~ FetchesNow(m)
      <4> SUFFICES ASSUME FetchesNow(m) PROVE FALSE
        OBVIOUS
      <4>1. msg' = m /\ msg' = n
        BY DEF FetchesNow, FetchMessage
      <4> QED
        BY <1>6, <4>1
    <3> QED
      BY <1>2, <2>2, <3>1, HealthyKeepsFate
  <2> QED
    BY <2>1, <2>2
<1>7. FateOf' = [FateOf EXCEPT ![n] = "inflight"] /\ FateOf[n] = "waiting"
  BY <1>4, <1>5, <1>6 DEF FateOf
<1> QED
  BY <1>7 DEF Promise!Take, FateOf

\* The ids whose messages are counted after a step.
CountedIds == {ContentOf[m] : m \in {n \in Countable : Stored(n)}}

LEMMA HealthyStores ==
    ASSUME ServiceInv, ServiceInv', [Next]_vars, Healthy, Healthy',
           \A n \in Countable : FetchesNow(n) => Stored(n)
    PROVE  Promise!Store
<1>1. CountedIds' \subseteq {IdOf[e] : e \in Events}
  BY CountableAre DEF CountedIds, ContentOf, EventOf
<1>2. ASSUME NEW m \in Countable
      PROVE  Fate(m)' = IF ContentOf[m] \in CountedIds' THEN "stored" ELSE Fate(m)
  <2>1. CASE ContentOf[m] \in CountedIds'
    <3>1. PICK n \in Countable : Stored(n)' /\ IdOf[EventOf(n)] = IdOf[EventOf(m)]
      BY <2>1 DEF CountedIds, ContentOf, EventOf
    <3>2. SameId(n)' = SameId(m)'
      BY <3>1 DEF SameId, EventOf
    <3>3. Stored(m)'
      BY <3>1, <3>2 DEF Stored
    <3> QED
      BY <2>1, <3>3, FateValuesAfter DEF FateHasValues
  <2>2. CASE ContentOf[m] \notin CountedIds'
    <3>1. ~ Stored(m)'
      BY <2>2 DEF CountedIds, ContentOf, EventOf
    <3>2. ~ FetchesNow(m)
      BY <3>1, StoredStays DEF ServiceInv
    <3> QED
      BY <2>2, <3>1, <3>2, HealthyKeepsFate
  <2> QED
    BY <2>1, <2>2
<1>3. FateOf' = [m \in Countable |-> IF ContentOf[m] \in CountedIds' THEN "stored" ELSE FateOf[m]]
  BY <1>2 DEF FateOf
<1> QED
  BY <1>1, <1>3 DEF Promise!Store, Promise!Durable, FateOf, ContentOf

\* A service becomes healthy by a start alone, which changes no fate.
LEMMA StartRecovers ==
    ASSUME ServiceInv, ServiceInv', [Next]_vars, ~ Healthy, Healthy'
    PROVE  Promise!Recover
<1>1. Start
  BY HealthyBefore DEF ServiceInv
<1>2. ASSUME NEW m \in Countable PROVE Fate(m)' = Fate(m)
  <2>0. m \in Messages /\ m[1] \in Partitions
    BY CountableAre
  <2>1. /\ ~ up /\ up' /\ OpenReader /\ UNCHANGED <<aggDay, aggMonth>>
      BY <1>1 DEF Start, NewUseCase, tableVars
  <2>2. ~ InFlight(m) /\ (Stored(m)' <=> Stored(m))
    BY <2>1, NothingInFlight DEF ServiceInv, Stored, Counted, SameId, EventOf
  <2>3. ~ InFlight(m)'
    <3>1. resume'[m[1]] = position'[m[1]] /\ position'[m[1]] \in Nat
      BY <2>0, <2>1 DEF OpenReader, ServiceInv, TypeOK, ConsumerTypeOK
    <3>2. Fetched(m[1])' = {}
      BY <3>1 DEF Fetched
    <3> QED
      BY <3>2 DEF InFlight
  <2>4. ReaderOK(FALSE)
    BY <2>1 DEF ServiceInv, ReaderOK, ReaderFits
  <2>5. Passed(m, TRUE)' <=> Passed(m, FALSE)
    BY <2>0, <2>1, <2>4, StartPasses
  <2>6. Passed(m, up)' <=> Passed(m, up)
    BY <2>1, <2>5 DEF Passed
  <2> QED
    BY <2>2, <2>3, <2>6, FateValues, FateValuesAfter DEF FateHasValues
<1>3. FateOf' = FateOf
  BY <1>2 DEF FateOf
<1> QED
  BY <1>3 DEF Promise!Recover, FateOf

\* Only from the channel does an event come back that was given up: what is
\* in flight anew was fetched before, and its id is that of the message the
\* usecase takes.
LEMMA ComesBackFromTheChannel ==
    ASSUME ServiceInv, ServiceInv', [Next]_vars, NEW m \in Countable,
           ~ Stored(m), ~ InFlight(m), Passed(m, up), InFlight(m)'
    PROVE  \E n \in Countable : Fate(n) = "inflight" /\ IdOf[EventOf(n)] = IdOf[EventOf(m)]
<1>0. m \in Messages /\ m[1] \in Partitions /\ UsecaseOK /\ ConsumerOK /\ Places
  BY CountableAre DEF ServiceInv, TypeOK, UsecaseOK, ConsumerOK, WayOK
<1>1. ~ Exit /\ ~ Crash
  <2>1. Exit \/ Crash => ~ up'
    BY DEF Exit, Crash, Halt
  <2> QED
    BY <2>1, DownHoldsNothingAfter DEF DownHoldsNothing, ServiceInv
<1>2. ~ Start
  <2> SUFFICES ASSUME Start PROVE FALSE
    OBVIOUS
  <2>1. resume'[m[1]] = position'[m[1]] /\ position'[m[1]] \in Nat
    BY <1>0 DEF Start, OpenReader, ServiceInv, TypeOK, ConsumerTypeOK
  <2>2. Fetched(m[1])' = {}
    BY <2>1 DEF Fetched
  <2> QED
    BY <2>2 DEF InFlight
<1>3. up
  <2> SUFFICES ASSUME ~ up PROVE FALSE
    OBVIOUS
  <2>1. ~ up'
    BY <1>2, StepsAre DEF Steps, PublishStep, IngestorStores, Signal, ConsumerStep, Working, OwnFrame,
       Exit, Crash, vars, lifeVars
  <2> QED
    BY <2>1, DownHoldsNothingAfter DEF DownHoldsNothing, ServiceInv
<1>4. ~ FetchesNow(m) /\ m \in Fetched(m[1])' /\ m \in Fetched(m[1])
  BY <1>0, <1>1, <1>2, <1>3, OnlyAFetchFetches DEF ServiceInv, InFlight
<1>5. /\ ~ Offered(m) /\ ~ Buffered(m)
      /\ \A e \in SameId(m) : ~ Held(e)
  BY <1>4 DEF InFlight
<1>6. ~ ConsumerStep
  <2> SUFFICES ASSUME ConsumerStep PROVE FALSE
    OBVIOUS
  <2>1. UNCHANGED <<ppc, taken, monthBuffer, monthCopy>>
    BY AsideLeaves, AggParts DEF Aside
  <2>2. \A e \in SameId(m)' : ~ Held(e)'
    BY <1>5, <2>1 DEF Held, SameId, EventOf
  <2>3. ~ Offered(m)' /\ ~ Buffered(m)'
    <3>1. ASSUME NEW p \in Partitions, FetchMessage(p), UNCHANGED eventsChan
          PROVE  ~ Offered(m)' /\ ~ Buffered(m)'
      <4>1. msg' # m
        BY <1>4, <3>1 DEF FetchMessage, FetchesNow
      <4> QED
        BY <1>5, <3>1, <4>1 DEF Offered, Buffered
    <3>2. ASSUME Send, kpc' = "commit", eventsChan' = Append(eventsChan, msg)
          PROVE  ~ Offered(m)' /\ ~ Buffered(m)'
      <4>1. eventsChan \in Seq(Messages) /\ msg \in Messages /\ msg # m
        BY <1>0, <1>5, <3>2 DEF Send, Offered, ConsumerOK, ConsumerTypeOK, ChannelTypeOK
      <4>2. \A i \in DOMAIN eventsChan' :
              (i \in DOMAIN eventsChan /\ eventsChan'[i] = eventsChan[i]) \/ eventsChan'[i] = msg
        BY <3>2, <4>1
      <4> QED
        BY <1>5, <3>2, <4>1, <4>2 DEF Offered, Buffered
    <3>3. ASSUME UNCHANGED eventsChan, kpc' # "send"
          PROVE  ~ Offered(m)' /\ ~ Buffered(m)'
      BY <1>5, <3>3 DEF Offered, Buffered
    <3> QED
      BY <1>0, <3>1, <3>2, <3>3, ConsumerHands DEF ConsumerStep
  <2> QED
    BY <2>2, <2>3 DEF InFlight
<1>7. ~ (PublishStep \/ IngestorStores \/ Signal \/ UNCHANGED vars)
  <2> SUFFICES ASSUME PublishStep \/ IngestorStores \/ Signal \/ UNCHANGED vars PROVE FALSE
    OBVIOUS
  <2>1. UNCHANGED <<ppc, taken, monthBuffer, monthCopy>>
    BY AsideLeaves, AggParts DEF Aside
  <2>2. UNCHANGED <<kpc, msg, eventsChan>>
    BY DEF PublishStep, IngestorStores, Signal, vars, consumerVars, channelVars
  <2> QED
    BY <1>5, <2>1, <2>2 DEF InFlight, Offered, Buffered, Held, SameId, EventOf
<1>8. CASE Working
  <2>1. UNCHANGED <<kpc, msg>> /\ UsecaseStep
    BY <1>8 DEF Working, OwnFrame, consumerVars
  <2>2. ~ Offered(m)'
    BY <1>5, <2>1 DEF Offered
  <2>3. ~ Buffered(m)'
    BY <1>0, <1>5, <2>1, UsecaseTakes DEF Buffered
  <2>4. PICK e \in Events : e \in SameId(m) /\ ~ Held(e) /\ Held(e)'
    BY <1>5, <2>2, <2>3 DEF InFlight, SameId, EventOf
  <2>5. ProcessEvent /\ e = EventOf(Head(eventsChan))
    BY <1>0, <2>1, <2>4, HeldArises
  <2>6. PICK n \in Messages : n = Head(eventsChan) /\ n = eventsChan[1] /\ 1 \in DOMAIN eventsChan
    BY <1>0, <2>1, <2>5, UsecaseTakes
  <2>7. WasFetched(n) /\ Buffered(n)
    BY <2>6 DEF ServiceInv, Deliveries, Buffered
  <2>8. n \in Countable /\ InFlight(n)
    BY <2>7, CountableAre DEF WasFetched, InFlight
  <2>9. IdOf[EventOf(n)] = IdOf[EventOf(m)] /\ SameId(n) = SameId(m)
    BY <2>4, <2>5, <2>6 DEF SameId
  <2> QED
    BY <2>8, <2>9, FateValues DEF FateHasValues, Stored
<1> QED
  BY <1>1, <1>2, <1>6, <1>7, <1>8, StepsAre DEF Steps

\* Every other step leaves the service failing, stopping or down.
LEMMA OthersDegrade ==
    ASSUME ServiceInv, ServiceInv', [Next]_vars, ~ Healthy'
    PROVE  Promise!Degraded
<1>1. FateOf' \in [Countable -> {"waiting", "inflight", "stored", "lost"}]
  BY FateValuesAfter DEF FateOf, FateHasValues
<1>2. ASSUME NEW m \in Countable, Fate(m) = "stored" PROVE Fate(m)' = "stored"
  <2>1. Stored(m)'
    BY <1>2, FateValues, StoredStays DEF ServiceInv, FateHasValues
  <2> QED
    BY <2>1, FateValuesAfter DEF FateHasValues
<1>3. ASSUME NEW m \in Countable, Fate(m) = "lost"
      PROVE  \/ Fate(m)' \in {"lost", "stored"}
             \/ /\ Fate(m)' = "inflight"
                /\ \E n \in Countable : Fate(n) = "inflight" /\ IdOf[EventOf(n)] = IdOf[EventOf(m)]
  <2>1. ~ Stored(m) /\ ~ InFlight(m) /\ Passed(m, up)
    BY <1>3, FateValues DEF FateHasValues
  <2>2. Passed(m, up)'
    BY <2>1, PassedStays, CountableAre DEF ServiceInv
  <2>3. CASE InFlight(m)'
    <3>1. Fate(m)' \in {"inflight", "stored"}
      BY <2>3, FateValuesAfter DEF FateHasValues
    <3> QED
      BY <2>1, <2>3, <3>1, ComesBackFromTheChannel
  <2>4. CASE ~ InFlight(m)'
    <3>1. Fate(m)' \in {"lost", "stored"}
      BY <2>2, <2>4, FateValuesAfter DEF FateHasValues
    <3> QED
      BY <3>1
  <2> QED
    BY <2>3, <2>4
<1>4. \A m \in Countable : ContentOf[m] \in {IdOf[e] : e \in Events}
  BY CountableAre DEF ContentOf
<1>5. \A m \in Countable :
        /\ FateOf[m] = "stored" => FateOf'[m] = "stored"
        /\ FateOf[m] = "lost" =>
              \/ FateOf'[m] \in {"lost", "stored"}
              \/ /\ FateOf'[m] = "inflight"
                 /\ ContentOf[m] \in {ContentOf[n] : n \in {k \in Countable : FateOf[k] = "inflight"}}
  BY <1>2, <1>3 DEF FateOf, ContentOf
<1> QED
  BY <1>1, <1>4, <1>5 DEF Promise!Degraded, Promise!Durable, Promise!Carried, Promise!Fates, FateOf, ContentOf

\* A step of the service is a step of its promise.
LEMMA StepsKeepPromise ==
    ASSUME ServiceInv, ServiceInv', [Next]_vars
    PROVE  Promise!FateNext
<1>1. CASE ~ Healthy'
  BY <1>1, OthersDegrade DEF Promise!FateNext
<1>2. CASE ~ Healthy /\ Healthy'
  BY <1>2, StartRecovers DEF Promise!FateNext
<1>3. CASE Healthy /\ Healthy' /\ \E n \in Countable : FetchesNow(n) /\ ~ Stored(n)
  BY <1>3, HealthyTakes DEF Promise!FateNext
<1>4. CASE Healthy /\ Healthy' /\ \A n \in Countable : FetchesNow(n) => Stored(n)
  BY <1>4, HealthyStores DEF Promise!FateNext
<1> QED
  BY <1>1, <1>2, <1>3, <1>4

\* cmd/aggregator with the usecase and the consumer below it: while no
\* statement fails and no signal comes, a message of the topic only
\* advances to its two rows, whatever the memory of ids, the two flushers,
\* the reconciler, a refused commit and the lives before do; a start loses
\* nothing, a count stays, and a message given up comes back only when
\* another of its id is taken from the channel.
THEOREM ImplementsMessageFateHolds == Spec => ImplementsMessageFate
<1>1. Init => Promise!FateInit
  <2> SUFFICES ASSUME Init
               PROVE  /\ \A m \in Countable : Fate(m) = "waiting"
                      /\ Healthy = FALSE
    BY DEF Promise!FateInit
  <2>1. ~ Healthy
    BY DEF Init, Healthy
  <2>2. ASSUME NEW m \in Countable PROVE Fate(m) = "waiting"
    <3>1. m[1] \in Partitions /\ m[2] \in Nat /\ m[2] # 0
      BY CountableAre, MessageParts
    <3>2. ~ Stored(m)
      <4>1. ASSUME NEW e \in Events PROVE ~ Counted(e)
        <5>1. aggDay[DayOf[e]][e] = 0
          BY DEF Init, AggregateInit, Days, None
        <5> QED
          BY <5>1 DEF Counted
      <4> QED
        BY <4>1 DEF Stored, SameId
    <3>3. DownEmpty
      BY DEF Init, AggregateInit, ConsumerInit, DownEmpty
    <3>4. ~ InFlight(m) /\ ~ up
      BY <3>3, NothingInFlight DEF Init
    <3>5. committed[m[1]] = NoOffset /\ end[m[1]] = 0
      BY <3>1 DEF Init, ConsumerInit
    <3>6. ~ Passed(m, up)
      BY <3>1, <3>4, <3>5 DEF Passed, NoOffset
    <3> QED
      BY <3>2, <3>4, <3>6, FateValues DEF FateHasValues
  <2> QED
    BY <2>1, <2>2
<1>2. ServiceInv /\ ServiceInv' /\ [Next]_vars => Promise!FateNext
  BY StepsKeepPromise
<1> QED
  BY <1>1, <1>2, ServiceInvariant, PTL DEF Spec, ImplementsMessageFate, Promise!FateSpec
=============================================================================
