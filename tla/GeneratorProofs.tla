--------------------------- MODULE GeneratorProofs ---------------------------
(***************************************************************************)
(* Theorems about Generator, for every number of events, copies, senders   *)
(* and failures and every size of a batch.                                 *)
(***************************************************************************)
EXTENDS Generator, EventEntity, SumProofs, CalendarProofs, SequenceTheorems

-----------------------------------------------------------------------------
(* Batches and the events in them. *)

LEMMA PlacesInPhase ==
    ASSUME NEW i \in Nat, NEW k \in Places(i)
    PROVE  k \in 0..(Total - 1)
<1>1. Total \in Nat
  BY SizesAssumption DEF Total
<1>2. BatchEnd(i) \in Int /\ BatchEnd(i) =< Total
  BY <1>1, SizesAssumption DEF BatchEnd, Lesser
<1>3. k \in i..(BatchEnd(i) - 1)
  BY DEF Places
<1> QED
  BY <1>1, <1>2, <1>3

\* Copies are made of events there are.
OriginalsThere == main = "duplicates" => originals \in 1..TotalEvents

LEMMA EventAtIsEvent ==
    ASSUME main \in SendingPhases, OriginalsThere, NEW i \in Nat, NEW k \in Places(i)
    PROVE  EventAt(k) \in Events
<1>1. k \in 0..(Total - 1)
  BY PlacesInPhase
<1>2. CASE main = "unique"
  BY <1>1, <1>2, SizesAssumption DEF Total, EventAt, Events
<1>3. CASE main = "duplicates"
  <2>1. k \in Nat /\ originals \in Nat /\ originals > 0 /\ originals =< TotalEvents
    BY <1>1, <1>3, SizesAssumption DEF OriginalsThere, Total
  <2>2. k % originals \in 0..(originals - 1)
    BY <2>1
  <2> QED
    BY <1>3, <2>1, <2>2, SizesAssumption DEF EventAt, Events
<1> QED
  BY <1>2, <1>3 DEF SendingPhases

LEMMA CopiesCount ==
    ASSUME NEW i \in Nat, NEW e
    PROVE  Cardinality({k \in Places(i) : EventAt(k) = e}) \in Nat
<1>1. BatchEnd(i) - 1 \in Int
  BY SizesAssumption DEF BatchEnd, Lesser, Total
<1>2. IsFiniteSet(Places(i))
  BY <1>1, FS_Interval DEF Places
<1>3. {k \in Places(i) : EventAt(k) = e} \in SUBSET Places(i)
  OBVIOUS
<1> QED
  BY <1>2, <1>3, FS_Subset, FS_CardinalityType

LEMMA WorkersAreFew ==
    ASSUME workers \subseteq Senders
    PROVE  WorkersCount \in Nat
BY SendersAssumption, FS_Subset, FS_CardinalityType DEF WorkersCount

-----------------------------------------------------------------------------
(* Types. *)

\* What a sender may be doing in which phase.
InPhase ==
    /\ OriginalsThere
    /\ main \in SendingPhases => made =< Total
    /\ \A s \in Senders :
          /\ spc[s] \in {"sending", "report"} => main \in SendingPhases
          /\ spc[s] = "sending" => held[s] \in Nat
          /\ spc[s] = "recv" /\ main \notin SendingPhases => eventsChan = <<>>

LEMMA MakerKeepsTypes ==
    ASSUME TypeOK, InPhase, Generate \/ Offer \/ CloseChannel, UNCHANGED verifierVars
    PROVE  TypeOK' /\ InPhase'
<1>1. UNCHANGED <<workers, main, spc, held, errors, topicVars, originals, tracked, eventsFailed, verifierVars>>
  BY DEF Generate, Offer, CloseChannel, makerFrame
<1>2. main \in SendingPhases /\ Total \in Nat /\ Total' = Total
  BY <1>1, SizesAssumption DEF Generate, Offer, CloseChannel, Total
<1>3. /\ made \in Nat /\ hand \in Nat \cup {NoBatch} /\ eventsChan \in Seq(Nat)
      /\ Len(eventsChan) =< 2 * WorkersCount /\ closed \in BOOLEAN
  BY DEF TypeOK, SendingTypeOK
<1>4. made' \in Nat /\ hand' \in Nat \cup {NoBatch} /\ made' =< Total
  <2>1. CASE Generate
    BY <1>2, <1>3, <2>1, SizesAssumption DEF Generate, BatchEnd, Lesser, NoBatch
  <2>2. CASE Offer \/ CloseChannel
    BY <1>2, <1>3, <2>2 DEF Offer, CloseChannel, InPhase
  <2> QED
    BY <2>1, <2>2
<1>5. eventsChan' \in Seq(Nat) /\ Len(eventsChan') =< 2 * WorkersCount
  <2>1. CASE Offer
    <3>1. WorkersCount \in Nat
      BY WorkersAreFew DEF TypeOK, SendingTypeOK
    <3>2. hand \in Nat /\ eventsChan' = Append(eventsChan, hand) /\ Len(eventsChan) < 2 * WorkersCount
      BY <1>3, <2>1 DEF Offer
    <3> QED
      BY <1>3, <3>1, <3>2
  <2>2. CASE Generate \/ CloseChannel
    BY <1>3, <2>2 DEF Generate, CloseChannel
  <2> QED
    BY <2>1, <2>2
<1>6. closed' \in BOOLEAN
  BY <1>3 DEF Generate, Offer, CloseChannel
<1>7. WorkersCount' = WorkersCount
  BY <1>1 DEF WorkersCount
<1>8. SendingTypeOK'
  BY <1>1, <1>4, <1>5, <1>6, <1>7 DEF TypeOK, SendingTypeOK, topicVars
<1>9. VerifierTypeOK'
  BY <1>1 DEF TypeOK, VerifierTypeOK, verifierVars, topicVars
<1>10. InPhase'
  BY <1>1, <1>2, <1>4 DEF InPhase, OriginalsThere
<1> QED
  BY <1>1, <1>8, <1>9, <1>10 DEF TypeOK

LEMMA SenderKeepsTypes ==
    ASSUME TypeOK, InPhase, NEW s \in Senders, Sender(s), UNCHANGED verifierVars
    PROVE  TypeOK' /\ InPhase'
<1>1. UNCHANGED <<workers, main, made, hand, closed, originals, verifierVars>>
  BY DEF Sender, TakeBatch, SendBatchOk, SendBatchFails, Report, senderFrame, reportFrame
<1>2. /\ workers \subseteq Senders /\ WorkersCount \in Nat /\ WorkersCount' = WorkersCount
      /\ Total' = Total
  BY <1>1, WorkersAreFew DEF TypeOK, SendingTypeOK, WorkersCount, Total
<1>3. /\ eventsChan \in Seq(Nat) /\ Len(eventsChan) =< 2 * WorkersCount
      /\ spc \in [Senders -> {"recv", "sending", "report", "done"}]
      /\ held \in [Senders -> Nat \cup {NoBatch}]
      /\ errors \in 0..WorkersCount
      /\ published \subseteq Events /\ tracked \subseteq Events
      /\ copies \in [Events -> Nat] /\ eventsFailed \in Nat /\ failures \in 0..MaxFailures
      /\ eventsRaw \subseteq published
  BY DEF TypeOK, SendingTypeOK, VerifierTypeOK
<1>4. /\ eventsChan' \in Seq(Nat) /\ Len(eventsChan') =< 2 * WorkersCount
      /\ eventsChan = <<>> => eventsChan' = <<>>
      /\ spc' \in [Senders -> {"recv", "sending", "report", "done"}]
      /\ held' \in [Senders -> Nat \cup {NoBatch}]
      /\ spc'[s] = "sending" => held'[s] \in Nat /\ eventsChan # <<>>
  <2>1. CASE TakeBatch(s)
    <3>1. CASE eventsChan # <<>>
      <4>1. /\ eventsChan' = Tail(eventsChan) /\ Head(eventsChan) \in Nat
            /\ held' = [held EXCEPT ![s] = Head(eventsChan)]
            /\ spc' = [spc EXCEPT ![s] = "sending"]
        BY <1>3, <2>1, <3>1 DEF TakeBatch
      <4> QED
        BY <1>2, <1>3, <3>1, <4>1
    <3>2. CASE eventsChan = <<>>
      BY <1>3, <2>1, <3>2 DEF TakeBatch
    <3> QED
      BY <3>1, <3>2
  <2>2. CASE SendBatchOk(s) \/ SendBatchFails(s) \/ Report(s)
    <3>1. UNCHANGED eventsChan
      BY <2>2 DEF SendBatchOk, SendBatchFails, Report, reportFrame
    <3>2. /\ spc' \in [Senders -> {"recv", "sending", "report", "done"}] /\ spc'[s] # "sending"
          /\ held' \in [Senders -> Nat \cup {NoBatch}]
      BY <1>3, <2>2 DEF SendBatchOk, SendBatchFails, Report, BackToRecv, NoBatch
    <3> QED
      BY <1>3, <3>1, <3>2
  <2> QED
    BY <2>1, <2>2 DEF Sender
<1>5. spc[s] \in {"sending", "report"} => main \in SendingPhases
  BY DEF InPhase
<1>6. spc[s] = "sending" => /\ held[s] \in Nat
                           /\ \A k \in Places(held[s]) : EventAt(k) \in Events
  BY <1>5, EventAtIsEvent DEF InPhase
<1>7. /\ published \subseteq published' /\ published' \subseteq Events
      /\ tracked' \subseteq Events /\ copies' \in [Events -> Nat]
  <2>1. CASE SendBatchOk(s)
    <3>1. spc[s] = "sending"
      BY <2>1 DEF SendBatchOk
    <3>2. ASSUME NEW e \in Events
          PROVE  copies[e] + Cardinality({k \in Places(held[s]) : EventAt(k) = e}) \in Nat
      <4>1. held[s] \in Nat
        BY <1>6, <3>1
      <4>2. Cardinality({k \in Places(held[s]) : EventAt(k) = e}) \in Nat
        BY <4>1, CopiesCount
      <4>3. copies[e] \in Nat
        BY <1>3
      <4> QED
        BY <4>2, <4>3
    <3>3. copies' \in [Events -> Nat]
      BY <2>1, <3>2 DEF SendBatchOk
    <3>4. {EventAt(k) : k \in Places(held[s])} \subseteq Events
      BY <1>6, <3>1
    <3> QED
      BY <1>3, <2>1, <3>3, <3>4 DEF SendBatchOk
  <2>2. CASE SendBatchFails(s)
    <3>1. {EventAt(k) : k \in Places(held[s])} \subseteq Events
      BY <1>6, <2>2 DEF SendBatchFails
    <3> QED
      BY <1>3, <2>2, <3>1 DEF SendBatchFails, senderFrame
  <2>3. CASE TakeBatch(s) \/ Report(s)
    BY <1>3, <2>3 DEF TakeBatch, Report, reportFrame, topicVars
  <2> QED
    BY <2>1, <2>2, <2>3 DEF Sender
<1>8. errors' \in 0..WorkersCount /\ failures' \in 0..MaxFailures
  BY <1>2, <1>3, SizesAssumption
  DEF Sender, TakeBatch, SendBatchOk, SendBatchFails, Report, reportFrame, topicVars
<1>9. eventsFailed' \in Nat
  <2>1. CASE SendBatchFails(s)
    <3>1. held[s] \in Nat
      BY <1>6, <2>1 DEF SendBatchFails
    <3>2. BatchEnd(held[s]) - 1 \in Int
      BY <3>1, SizesAssumption DEF BatchEnd, Lesser, Total
    <3>3. Cardinality(Places(held[s])) \in Nat
      <4>1. held[s] \in Int
        BY <3>1
      <4>2. IsFiniteSet(held[s]..(BatchEnd(held[s]) - 1))
        BY <4>1, <3>2, FS_Interval
      <4> QED
        BY <4>2, FS_CardinalityType DEF Places
    <3> QED
      BY <1>3, <2>1, <3>3 DEF SendBatchFails
  <2>2. CASE TakeBatch(s) \/ SendBatchOk(s) \/ Report(s)
    BY <1>3, <2>2 DEF TakeBatch, SendBatchOk, Report, reportFrame
  <2> QED
    BY <2>1, <2>2 DEF Sender
<1>10. SendingTypeOK'
  BY <1>1, <1>2, <1>4, <1>7, <1>8, <1>9 DEF TypeOK, SendingTypeOK
<1>11. VerifierTypeOK'
  BY <1>1, <1>3, <1>7 DEF TypeOK, VerifierTypeOK, verifierVars
<1>12. \A t \in Senders : t # s => spc'[t] = spc[t] /\ held'[t] = held[t]
  BY <1>3 DEF Sender, TakeBatch, SendBatchOk, SendBatchFails, Report, BackToRecv
<1>13. spc'[s] = "report" => spc[s] = "sending"
  BY <1>3 DEF Sender, TakeBatch, SendBatchOk, SendBatchFails, Report, BackToRecv
<1>14. spc'[s] = "sending" => spc[s] = "recv"
  BY <1>3 DEF Sender, TakeBatch, SendBatchOk, SendBatchFails, Report, BackToRecv
<1>15. main \notin SendingPhases /\ spc'[s] = "recv" => spc[s] = "recv"
  BY <1>3, <1>5 DEF Sender, TakeBatch, SendBatchOk, SendBatchFails, Report, BackToRecv
<1>16. ASSUME NEW t \in Senders
       PROVE  /\ spc'[t] \in {"sending", "report"} => main \in SendingPhases
              /\ spc'[t] = "sending" => held'[t] \in Nat
              /\ spc'[t] = "recv" /\ main \notin SendingPhases => eventsChan' = <<>>
  BY <1>4, <1>5, <1>12, <1>13, <1>14, <1>15 DEF InPhase
<1>17. InPhase'
  BY <1>1, <1>2, <1>16 DEF InPhase, OriginalsThere
<1> QED
  BY <1>1, <1>10, <1>11, <1>17 DEF TypeOK

LEMMA FinishKeepsTypes ==
    ASSUME TypeOK, InPhase, FinishUnique \/ FinishDuplicates, UNCHANGED verifierVars
    PROVE  TypeOK' /\ InPhase'
<1>1. UNCHANGED <<workers, topicVars, tracked, eventsFailed, verifierVars>>
  BY DEF FinishUnique, FinishDuplicates
<1>2. WorkersCount \in Nat /\ WorkersCount' = WorkersCount
  BY <1>1, WorkersAreFew DEF TypeOK, SendingTypeOK, WorkersCount
<1>3. VerifierTypeOK'
  BY <1>1 DEF TypeOK, VerifierTypeOK, verifierVars, topicVars
<1>4. CASE FinishUnique
  <2>1. /\ main' \in {"error", "duplicates"} /\ originals' = made /\ made \in 0..TotalEvents
        /\ main' = "duplicates" => made # 0
    BY <1>4, SizesAssumption DEF FinishUnique, InPhase, Total, SendingPhases, TypeOK, SendingTypeOK
  <2>2. /\ made' = 0 /\ hand' = NoBatch /\ eventsChan' = <<>> /\ closed' = FALSE
        /\ spc' = FreshSpc(workers) /\ held' = [t \in Senders |-> NoBatch] /\ errors' = 0
    BY <1>4 DEF FinishUnique, BeginPhase
  <2>3. <<>> \in Seq(Nat) /\ Len(<<>>) = 0
    BY EmptySeq
  <2>4. /\ spc' \in [Senders -> {"recv", "sending", "report", "done"}]
        /\ \A t \in Senders : spc'[t] \in {"recv", "done"}
    BY <2>2 DEF FreshSpc
  <2>5. closed' \in BOOLEAN
    BY <2>2
  <2>6. /\ made' \in Nat /\ hand' \in Nat \cup {NoBatch} /\ eventsChan' \in Seq(Nat)
        /\ Len(eventsChan') =< 2 * WorkersCount
        /\ held' \in [Senders -> Nat \cup {NoBatch}] /\ errors' \in 0..WorkersCount
    BY <1>2, <2>2, <2>3
  <2>7. SendingTypeOK'
    BY <1>1, <1>2, <2>1, <2>4, <2>5, <2>6 DEF TypeOK, SendingTypeOK, topicVars
  <2>8. InPhase'
    <3>1. OriginalsThere'
      BY <2>1 DEF OriginalsThere
    <3>2. made' =< Total'
      BY <2>2, SizesAssumption DEF Total
    <3> QED
      BY <2>2, <2>4, <3>1, <3>2 DEF InPhase
  <2> QED
    BY <1>3, <2>1, <2>7, <2>8 DEF TypeOK
<1>5. CASE FinishDuplicates
  <2>1. main' \in {"error", "persistence"} /\ UNCHANGED <<phaseVars, originals>> /\ AllSent
    BY <1>5 DEF FinishDuplicates
  <2>2. SendingTypeOK'
    BY <1>1, <1>2, <2>1 DEF TypeOK, SendingTypeOK, topicVars, phaseVars
  <2>3. InPhase'
    BY <2>1 DEF InPhase, OriginalsThere, AllSent, phaseVars, SendingPhases
  <2> QED
    BY <1>3, <2>1, <2>2, <2>3 DEF TypeOK
<1> QED
  BY <1>4, <1>5

\* VerifyAll runs only while main waits for the database.
CheckingWaits == checking => main = "persistence"

LEMMA VerifyingKeepsTypes ==
    ASSUME TypeOK, InPhase, CheckingWaits, VerifyingStep
    PROVE  TypeOK' /\ InPhase' /\ CheckingWaits'
<1>1. UNCHANGED <<workers, phaseVars, topicVars, originals, tracked, eventsFailed>>
  BY DEF VerifyingStep, Tick, VerifyChunk, VerifyFails, AfterVerify, VerifyTimeout,
         VerifyDuplicates, ReadDayAggregations, ReadMonthAggregations, ReadFails,
         chunkFrame, verdictFrame, sendingVars
<1>2. /\ main \in {"persistence", "rejected", "aggregations"}
      /\ main' \in {"persistence", "rejected", "aggregations", "ok", "error"}
      /\ checking' => main' = "persistence"
  BY DEF VerifyingStep, Tick, VerifyChunk, VerifyFails, AfterVerify, VerifyTimeout,
         VerifyDuplicates, ReadDayAggregations, ReadMonthAggregations, ReadFails,
         chunkFrame, verdictFrame, sendingVars, CheckingWaits
<1>3. SendingTypeOK'
  BY <1>1 DEF TypeOK, SendingTypeOK, WorkersCount, phaseVars, topicVars
<1>4. InPhase'
  BY <1>1, <1>2 DEF InPhase, OriginalsThere, SendingPhases, phaseVars
<1>5. /\ eventsRaw \subseteq published /\ verified \subseteq Events /\ missing \subseteq Events
      /\ toCheck \subseteq Events /\ tracked \subseteq Events /\ published' = published
  BY <1>1 DEF TypeOK, VerifierTypeOK, SendingTypeOK, topicVars
<1>6. eventsRaw' \subseteq published' /\ verified' \subseteq Events /\ missing' \subseteq Events
  <2>1. CASE VerifyChunk
    <3>1. PICK batch \in Chunks, stored \in SUBSET (published \ eventsRaw) :
              /\ eventsRaw' = eventsRaw \cup stored
              /\ verified' = verified \cup (batch \cap eventsRaw')
              /\ missing' = (missing \ (batch \cap eventsRaw')) \cup (batch \ (batch \cap eventsRaw'))
      BY <2>1 DEF VerifyChunk
    <3>2. batch \subseteq Events
      BY <1>5 DEF Chunks
    <3> QED
      BY <1>5, <3>1, <3>2
  <2>2. CASE UNCHANGED <<eventsRaw, verified, missing>>
    BY <1>5, <2>2
  <2> QED
    BY <2>1, <2>2 DEF VerifyingStep, Tick, VerifyFails, AfterVerify, VerifyTimeout,
         VerifyDuplicates, ReadDayAggregations, ReadMonthAggregations, ReadFails, verdictFrame
<1>7. toCheck' \subseteq Events
  BY <1>5 DEF VerifyingStep, Tick, VerifyChunk, VerifyFails, AfterVerify, VerifyTimeout,
         VerifyDuplicates, ReadDayAggregations, ReadMonthAggregations, ReadFails, verdictFrame
<1>8. iteration' \in 0..MaxVerifyIterations
  <2>1. iteration \in 0..MaxVerifyIterations
    BY DEF TypeOK, VerifierTypeOK
  <2>2. CASE Tick
    BY <2>1, <2>2, VerifierAssumption DEF Tick, Lesser
  <2> QED
    BY <2>1, <2>2 DEF VerifyingStep, VerifyChunk, VerifyFails, AfterVerify, VerifyTimeout,
         VerifyDuplicates, ReadDayAggregations, ReadMonthAggregations, ReadFails,
         chunkFrame, verdictFrame
<1>9. {dayRead', monthRead'} \subseteq Counts \cup {Unread}
  <2>1. dayRead' \in {dayRead} \cup Counts /\ monthRead' \in {monthRead} \cup Counts
    BY DEF VerifyingStep, Tick, VerifyChunk, VerifyFails, AfterVerify, VerifyTimeout,
         VerifyDuplicates, ReadDayAggregations, ReadMonthAggregations, ReadFails,
         chunkFrame, Read
  <2> QED
    BY <2>1 DEF TypeOK, VerifierTypeOK
<1>10. checking' \in BOOLEAN /\ refused' \in BOOLEAN
  BY DEF VerifyingStep, Tick, VerifyChunk, VerifyFails, AfterVerify, VerifyTimeout,
         VerifyDuplicates, ReadDayAggregations, ReadMonthAggregations, ReadFails,
         chunkFrame, verdictFrame, TypeOK, VerifierTypeOK
<1>11. VerifierTypeOK'
  BY <1>6, <1>7, <1>8, <1>9, <1>10 DEF VerifierTypeOK
<1> QED
  BY <1>2, <1>3, <1>4, <1>11 DEF TypeOK, CheckingWaits

LEMMA TypesInvariant == Spec => [](TypeOK /\ InPhase /\ CheckingWaits)
<1>1. Init => TypeOK /\ InPhase /\ CheckingWaits
  <2> SUFFICES ASSUME Init PROVE TypeOK /\ InPhase /\ CheckingWaits
    OBVIOUS
  <2>1. /\ workers \subseteq Senders /\ main = "unique" /\ made = 0 /\ hand = NoBatch
        /\ eventsChan = <<>> /\ closed = FALSE /\ spc = FreshSpc(workers)
        /\ held = [s \in Senders |-> NoBatch] /\ errors = 0 /\ originals = 0
        /\ published = {} /\ copies = [e \in Events |-> 0] /\ tracked = {}
        /\ eventsFailed = 0 /\ failures = 0
    BY DEF Init, SendingInit
  <2>2. WorkersCount \in Nat
    BY <2>1, WorkersAreFew
  <2>3. /\ spc \in [Senders -> {"recv", "sending", "report", "done"}]
        /\ \A s \in Senders : spc[s] \in {"recv", "done"}
    BY <2>1 DEF FreshSpc
  <2>4. <<>> \in Seq(Nat) /\ Len(<<>>) = 0
    BY EmptySeq
  <2>5. closed \in BOOLEAN
    BY <2>1
  <2>6. /\ made \in Nat /\ hand \in Nat \cup {NoBatch} /\ eventsChan \in Seq(Nat)
        /\ Len(eventsChan) =< 2 * WorkersCount /\ held \in [Senders -> Nat \cup {NoBatch}]
        /\ errors \in 0..WorkersCount /\ originals \in 0..TotalEvents
        /\ copies \in [Events -> Nat] /\ eventsFailed \in Nat /\ failures \in 0..MaxFailures
    BY <2>1, <2>2, <2>4, SizesAssumption
  <2>7. SendingTypeOK
    BY <2>1, <2>3, <2>5, <2>6 DEF SendingTypeOK
  <2>8. VerifierTypeOK /\ CheckingWaits
    <3>1. /\ eventsRaw = {} /\ verified = {} /\ missing = {} /\ checking = FALSE /\ toCheck = {}
          /\ iteration = 0 /\ dayRead = Unread /\ monthRead = Unread /\ refused = FALSE
      BY DEF Init, VerifierInit
    <3>2. checking \in BOOLEAN /\ refused \in BOOLEAN /\ ~ checking
      BY <3>1
    <3>3. iteration \in 0..MaxVerifyIterations
      BY <3>1, VerifierAssumption
    <3>4. /\ eventsRaw \subseteq published /\ verified \subseteq Events /\ missing \subseteq Events
          /\ toCheck \subseteq Events /\ {dayRead, monthRead} \subseteq Counts \cup {Unread}
      BY <3>1
    <3> QED
      BY <3>2, <3>3, <3>4 DEF VerifierTypeOK, CheckingWaits
  <2>9. InPhase
    BY <2>1, <2>3, SizesAssumption DEF InPhase, OriginalsThere, SendingPhases, Total
  <2> QED
    BY <2>1, <2>7, <2>8, <2>9 DEF TypeOK
<1>2. TypeOK /\ InPhase /\ CheckingWaits /\ [Next]_vars => (TypeOK /\ InPhase /\ CheckingWaits)'
  <2> SUFFICES ASSUME TypeOK, InPhase, CheckingWaits, [Next]_vars
               PROVE  TypeOK' /\ InPhase' /\ CheckingWaits'
    OBVIOUS
  <2>1. CASE SendingStep
    <3>1. UNCHANGED verifierVars
      BY <2>1 DEF SendingStep
    <3>2. main' = main \/ main # "persistence"
      BY <2>1 DEF SendingStep, Generate, Offer, CloseChannel, makerFrame, FinishUnique, FinishDuplicates,
         Sender, TakeBatch, SendBatchOk, SendBatchFails, Report, senderFrame, reportFrame
    <3>3. CheckingWaits'
      BY <3>1, <3>2 DEF CheckingWaits, verifierVars
    <3>4. CASE Generate \/ Offer \/ CloseChannel
      BY <3>1, <3>3, <3>4, MakerKeepsTypes
    <3>5. CASE \E s \in Senders : Sender(s)
      BY <3>1, <3>3, <3>5, SenderKeepsTypes
    <3>6. CASE FinishUnique \/ FinishDuplicates
      BY <3>1, <3>3, <3>6, FinishKeepsTypes
    <3> QED
      BY <2>1, <3>4, <3>5, <3>6 DEF SendingStep
  <2>2. CASE VerifyingStep
    BY <2>2, VerifyingKeepsTypes
  <2>3. CASE UNCHANGED vars
    BY <2>3 DEF vars, sendingVars, verifierVars, phaseVars, topicVars, TypeOK, SendingTypeOK,
       VerifierTypeOK, InPhase, OriginalsThere, CheckingWaits, WorkersCount, Total
  <2> QED
    BY <2>1, <2>2, <2>3 DEF Next
<1> QED
  BY <1>1, <1>2, PTL DEF Spec

\* Every variable keeps to its type: the channels their capacity, errors
\* the number of workers, the verifier's sets the events.
THEOREM TypeCorrect == Spec => []TypeOK
BY TypesInvariant, PTL

-----------------------------------------------------------------------------
(* The answer of a phase. *)

\* main will find an error in errorsChan.
Trouble == errors > 0 \/ \E s \in Senders : spc[s] = "report"

\* A batch made and not yet answered for holds the event.
OnTheWay(k) ==
    \/ hand # NoBatch /\ k \in Places(hand)
    \/ \E i \in 1..Len(eventsChan) : k \in Places(eventsChan[i])
    \/ \E s \in Senders : spc[s] = "sending" /\ k \in Places(held[s])

\* While phase 1 runs, without trouble no event made is lost; and in both
\* phases a worker that has returned found the channel closed and empty.
NoEventLost ==
    main = "unique" /\ ~ Trouble =>
        /\ eventsFailed = 0
        /\ \A k \in 0..(made - 1) : k \in tracked \/ OnTheWay(k)

WorkersDrain ==
    main \in SendingPhases =>
        /\ closed => made >= Total /\ hand = NoBatch
        /\ \A s \in workers : spc[s] = "done" => closed /\ eventsChan = <<>>

Answered == AnswerIsRight /\ NoEventLost /\ WorkersDrain

\* What the arguments below use of the types.
Typed == TypeOK /\ InPhase

LEMMA MakerAnswers ==
    ASSUME Typed, Answered, Generate \/ Offer \/ CloseChannel
    PROVE  Answered'
<1>1. UNCHANGED <<workers, main, spc, held, errors, published, tracked, eventsFailed>>
  BY DEF Generate, Offer, CloseChannel, makerFrame, topicVars
<1>2. AnswerIsRight'
  BY <1>1 DEF Answered, AnswerIsRight
<1>3. /\ made \in Nat /\ hand \in Nat \cup {NoBatch} /\ eventsChan \in Seq(Nat)
      /\ main \in SendingPhases
  BY DEF Typed, TypeOK, SendingTypeOK, Generate, Offer, CloseChannel
<1>4. WorkersDrain'
  BY <1>1, <1>3, SizesAssumption
  DEF Answered, WorkersDrain, Generate, Offer, CloseChannel, Total
<1>5. ASSUME main = "unique", ~ Trouble, NEW k \in 0..(made' - 1)
      PROVE  k \in tracked \/ OnTheWay(k)'
  <2>1. \A j \in 0..(made - 1) : j \in tracked \/ OnTheWay(j)
    BY <1>5 DEF Answered, NoEventLost
  <2>2. \A i : Places(i)' = Places(i)
    BY <1>1 DEF Places, BatchEnd, Total
  <2>3. CASE Generate
    <3>1. hand = NoBatch /\ hand' = made /\ made' = BatchEnd(made) /\ eventsChan' = eventsChan
      BY <2>3 DEF Generate
    <3>2. hand' # NoBatch
      BY <1>3, <3>1 DEF NoBatch
    <3>3. CASE k \in Places(made)
      BY <2>2, <3>1, <3>2, <3>3 DEF OnTheWay
    <3>4. CASE k \in 0..(made - 1)
      <4>1. k \in tracked \/ OnTheWay(k)
        BY <2>1, <3>4
      <4> QED
        BY <4>1, <1>1, <2>2, <3>1 DEF OnTheWay
    <3>5. k \in Places(made) \/ k \in 0..(made - 1)
      <4>1. BatchEnd(made) \in Int
        BY <1>3, SizesAssumption DEF BatchEnd, Lesser, Total
      <4> QED
        BY <4>1, <1>3, <3>1, <1>5 DEF Places
    <3> QED
      BY <3>3, <3>4, <3>5
  <2>4. CASE Offer
    <3>1. /\ made' = made /\ hand \in Nat /\ hand # NoBatch
          /\ eventsChan' = Append(eventsChan, hand)
      BY <1>3, <2>4 DEF Offer
    <3>2. k \in tracked \/ OnTheWay(k)
      BY <2>1, <3>1, <1>5
    <3>3. /\ Len(eventsChan') = Len(eventsChan) + 1
          /\ eventsChan'[Len(eventsChan) + 1] = hand
          /\ \A i \in 1..Len(eventsChan) : eventsChan'[i] = eventsChan[i]
          /\ Len(eventsChan) \in Nat
      BY <1>3, <3>1
    <3>4. CASE k \in Places(hand)
      <4>1. Len(eventsChan) + 1 \in 1..Len(eventsChan')
        BY <3>3
      <4> QED
        BY <2>2, <3>3, <3>4, <4>1 DEF OnTheWay
    <3>5. CASE \E i \in 1..Len(eventsChan) : k \in Places(eventsChan[i])
      <4>1. PICK i \in 1..Len(eventsChan) : k \in Places(eventsChan[i])
        BY <3>5
      <4>2. i \in 1..Len(eventsChan')
        BY <3>3
      <4> QED
        BY <2>2, <3>3, <4>1, <4>2 DEF OnTheWay
    <3>6. CASE \E s \in Senders : spc[s] = "sending" /\ k \in Places(held[s])
      BY <1>1, <2>2, <3>6 DEF OnTheWay
    <3> QED
      BY <3>2, <3>4, <3>5, <3>6 DEF OnTheWay
  <2>5. CASE CloseChannel
    <3>1. made' = made /\ hand' = hand /\ eventsChan' = eventsChan
      BY <2>5 DEF CloseChannel
    <3>2. k \in tracked \/ OnTheWay(k)
      BY <2>1, <3>1, <1>5
    <3> QED
      BY <1>1, <2>2, <3>1, <3>2 DEF OnTheWay
  <2> QED
    BY <2>3, <2>4, <2>5
<1>6. NoEventLost'
  BY <1>1, <1>5 DEF Answered, NoEventLost, Trouble
<1> QED
  BY <1>2, <1>4, <1>6 DEF Answered

LEMMA SenderAnswers ==
    ASSUME Typed, Answered, NEW s \in Senders, Sender(s)
    PROVE  Answered'
<1>1. UNCHANGED <<workers, main, made, hand, closed>>
  BY DEF Sender, TakeBatch, SendBatchOk, SendBatchFails, Report, senderFrame, reportFrame
<1>2. /\ eventsChan \in Seq(Nat)
      /\ spc \in [Senders -> {"recv", "sending", "report", "done"}]
      /\ held \in [Senders -> Nat \cup {NoBatch}]
      /\ errors \in Nat /\ workers \subseteq Senders
  <2>1. WorkersCount \in Nat
    BY WorkersAreFew DEF Typed, TypeOK, SendingTypeOK
  <2> QED
    BY <2>1 DEF Typed, TypeOK, SendingTypeOK
<1>3. main # "unique" => tracked' = tracked /\ eventsFailed' = eventsFailed
  BY DEF Sender, TakeBatch, SendBatchOk, SendBatchFails, Report, reportFrame
<1>4. tracked \subseteq tracked' /\ tracked' \subseteq published'
  BY DEF Answered, AnswerIsRight, Sender, TakeBatch, SendBatchOk, SendBatchFails, Report,
         reportFrame, topicVars
<1>5. AnswerIsRight'
  BY <1>1, <1>3, <1>4 DEF Answered, AnswerIsRight
<1>6. \A i : Places(i)' = Places(i)
  BY <1>1 DEF Places, BatchEnd, Total
<1>7. WorkersDrain'
  <2>1. CASE TakeBatch(s) /\ eventsChan # <<>>
    BY <1>1, <1>2, <2>1 DEF TakeBatch, Answered, WorkersDrain, Total
  <2>2. CASE TakeBatch(s) /\ eventsChan = <<>>
    BY <1>1, <1>2, <2>2 DEF TakeBatch, Answered, WorkersDrain, Total
  <2>3. CASE SendBatchOk(s) \/ SendBatchFails(s) \/ Report(s)
    BY <1>1, <1>2, <2>3 DEF SendBatchOk, SendBatchFails, Report, reportFrame, BackToRecv,
       Answered, WorkersDrain, Total
  <2> QED
    BY <2>1, <2>2, <2>3 DEF Sender
<1>8. NoEventLost'
  <2>1. CASE SendBatchFails(s)
    <3>1. Trouble'
      BY <1>2, <2>1 DEF SendBatchFails, Trouble
    <3> QED
      BY <3>1 DEF NoEventLost
  <2>2. CASE Report(s)
    <3>1. errors' > 0
      BY <1>2, <2>2 DEF Report
    <3> QED
      BY <3>1 DEF NoEventLost, Trouble
  <2>3. ASSUME TakeBatch(s) \/ SendBatchOk(s), main = "unique", ~ Trouble'
        PROVE  ~ Trouble
    <3>1. errors' = errors /\ spc[s] # "report"
      BY <2>3 DEF TakeBatch, SendBatchOk
    <3>2. \A t \in Senders : t # s => spc'[t] = spc[t]
      BY <1>2, <2>3 DEF TakeBatch, SendBatchOk, BackToRecv
    <3> QED
      BY <2>3, <3>1, <3>2 DEF Trouble
  <2>4. CASE TakeBatch(s)
    <3> SUFFICES ASSUME main = "unique", ~ Trouble'
                 PROVE  /\ eventsFailed' = 0
                        /\ \A k \in 0..(made' - 1) : k \in tracked' \/ OnTheWay(k)'
      BY <1>1 DEF NoEventLost
    <3>1. /\ eventsFailed = 0 /\ eventsFailed' = eventsFailed /\ tracked' = tracked
          /\ \A k \in 0..(made - 1) : k \in tracked \/ OnTheWay(k)
      BY <2>3, <2>4 DEF Answered, NoEventLost, TakeBatch
    <3>2. ASSUME NEW k, OnTheWay(k)
          PROVE  OnTheWay(k)'
      <4>1. CASE eventsChan = <<>>
        <5>1. spc[s] = "recv" /\ eventsChan' = eventsChan /\ held' = held
              /\ \A t \in Senders : spc[t] = "sending" => spc'[t] = "sending"
          BY <1>2, <2>4, <4>1 DEF TakeBatch
        <5> QED
          BY <1>1, <1>6, <3>2, <5>1 DEF OnTheWay
      <4>2. CASE eventsChan # <<>>
        <5>1. /\ eventsChan' = Tail(eventsChan)
              /\ held'[s] = eventsChan[1] /\ spc'[s] = "sending"
              /\ \A t \in Senders : t # s => spc'[t] = spc[t] /\ held'[t] = held[t]
              /\ spc[s] = "recv"
          BY <1>2, <2>4, <4>2 DEF TakeBatch
        <5>2. CASE hand # NoBatch /\ k \in Places(hand)
          BY <1>1, <1>6, <5>2 DEF OnTheWay
        <5>3. CASE k \in Places(eventsChan[1])
          BY <1>6, <5>1, <5>3 DEF OnTheWay
        <5>4. CASE \E i \in 1..Len(eventsChan) : i # 1 /\ k \in Places(eventsChan[i])
          <6>1. PICK i \in 1..Len(eventsChan) : i # 1 /\ k \in Places(eventsChan[i])
            BY <5>4
          <6>2. i - 1 \in 1..Len(eventsChan') /\ eventsChan'[i - 1] = eventsChan[i]
            BY <1>2, <4>2, <5>1, <6>1
          <6> QED
            BY <1>6, <6>1, <6>2 DEF OnTheWay
        <5>5. CASE \E t \in Senders : spc[t] = "sending" /\ k \in Places(held[t])
          BY <1>6, <5>1, <5>5 DEF OnTheWay
        <5> QED
          BY <3>2, <5>2, <5>3, <5>4, <5>5 DEF OnTheWay
      <4> QED
        BY <4>1, <4>2
    <3> QED
      BY <1>1, <3>1, <3>2
  <2>5. CASE SendBatchOk(s)
    <3> SUFFICES ASSUME main = "unique", ~ Trouble'
                 PROVE  /\ eventsFailed' = 0
                        /\ \A k \in 0..(made' - 1) : k \in tracked' \/ OnTheWay(k)'
      BY <1>1 DEF NoEventLost
    <3>1. /\ eventsFailed = 0 /\ eventsFailed' = eventsFailed
          /\ \A k \in 0..(made - 1) : k \in tracked \/ OnTheWay(k)
      BY <2>3, <2>5 DEF Answered, NoEventLost, SendBatchOk
    <3>2. /\ eventsChan' = eventsChan
          /\ \A t \in Senders : t # s => spc'[t] = spc[t] /\ held'[t] = held[t]
          /\ \A k \in Places(held[s]) : k \in tracked'
      BY <1>2, <2>5 DEF SendBatchOk, BackToRecv, EventAt
    <3>3. ASSUME NEW k, OnTheWay(k)
          PROVE  k \in tracked' \/ OnTheWay(k)'
      BY <1>1, <1>6, <3>2, <3>3 DEF OnTheWay
    <3> QED
      BY <1>1, <1>4, <3>1, <3>3
  <2> QED
    BY <2>1, <2>2, <2>4, <2>5 DEF Sender
<1> QED
  BY <1>5, <1>7, <1>8 DEF Answered

LEMMA AllDrained ==
    ASSUME Typed, WorkersDrain, AllSent, main \in SendingPhases, workers # {}
    PROVE  /\ closed /\ eventsChan = <<>> /\ hand = NoBatch /\ made = Total
           /\ \A k : ~ OnTheWay(k)
<1>1. workers \subseteq Senders /\ made \in Nat /\ made =< Total /\ Total \in Nat
  BY SizesAssumption DEF Typed, TypeOK, SendingTypeOK, InPhase, Total
<1>2. closed /\ eventsChan = <<>>
  BY <1>1 DEF AllSent, WorkersDrain
<1>3. hand = NoBatch /\ made = Total
  BY <1>1, <1>2 DEF WorkersDrain
<1>4. \A s \in Senders : spc[s] # "sending"
  BY DEF AllSent
<1> QED
  BY <1>2, <1>3, <1>4 DEF OnTheWay

LEMMA FinishAnswers ==
    ASSUME Typed, Answered, FinishUnique \/ FinishDuplicates
    PROVE  Answered'
<1>1. UNCHANGED <<workers, published, tracked, eventsFailed>> /\ main' # "unique"
  BY DEF FinishUnique, FinishDuplicates, topicVars
<1>2. WorkersDrain'
  <2>1. CASE FinishUnique
    <3>1. closed' = FALSE /\ spc' = FreshSpc(workers) /\ workers \subseteq Senders
      BY <2>1 DEF FinishUnique, BeginPhase, Typed, TypeOK, SendingTypeOK
    <3>2. \A s \in workers : spc'[s] = "recv"
      BY <3>1 DEF FreshSpc
    <3> QED
      BY <1>1, <3>1, <3>2 DEF WorkersDrain
  <2>2. CASE FinishDuplicates
    BY <2>2 DEF FinishDuplicates, WorkersDrain, SendingPhases
  <2> QED
    BY <2>1, <2>2
<1>3. CASE FinishUnique /\ main' # "error" /\ workers # {}
  <2>1. main = "unique" /\ AllSent /\ errors \in Nat /\ ~ (errors > 0)
    <3>1. WorkersCount \in Nat
      BY WorkersAreFew DEF Typed, TypeOK, SendingTypeOK
    <3> QED
      BY <1>3, <3>1 DEF FinishUnique, Typed, TypeOK, SendingTypeOK
  <2>2. ~ Trouble
    BY <2>1 DEF Trouble, AllSent
  <2>3. made = TotalEvents /\ \A k : ~ OnTheWay(k)
    BY <1>3, <2>1, AllDrained DEF Answered, SendingPhases, Total
  <2>4. eventsFailed = 0 /\ \A k \in 0..(made - 1) : k \in tracked
    BY <2>1, <2>2, <2>3 DEF Answered, NoEventLost
  <2>5. tracked = Events
    BY <2>3, <2>4 DEF Typed, TypeOK, SendingTypeOK, Events
  <2> QED
    BY <1>1, <1>2, <2>4, <2>5 DEF Answered, AnswerIsRight, NoEventLost, Events
<1>4. CASE FinishDuplicates \/ main' = "error" \/ workers = {}
  BY <1>1, <1>2, <1>4 DEF FinishDuplicates, Answered, AnswerIsRight, NoEventLost, Events
<1> QED
  BY <1>3, <1>4

LEMMA VerifyingAnswers ==
    ASSUME Answered, VerifyingStep, CheckingWaits
    PROVE  Answered'
<1>1. UNCHANGED <<workers, published, tracked, eventsFailed>>
  BY DEF VerifyingStep, Tick, VerifyChunk, VerifyFails, AfterVerify, VerifyTimeout,
         VerifyDuplicates, ReadDayAggregations, ReadMonthAggregations, ReadFails,
         chunkFrame, verdictFrame, sendingVars, topicVars
<1>2. main \notin {"unique", "error"} /\ main' \notin SendingPhases
  BY DEF SendingPhases, VerifyingStep, Tick, VerifyChunk, VerifyFails, AfterVerify, VerifyTimeout,
         VerifyDuplicates, ReadDayAggregations, ReadMonthAggregations, ReadFails,
         chunkFrame, sendingVars, CheckingWaits
<1> QED
  BY <1>1, <1>2 DEF Answered, AnswerIsRight, NoEventLost, WorkersDrain, SendingPhases, Events

LEMMA AnsweredInvariant == Spec => []Answered
<1>1. Init => Answered
  <2> SUFFICES ASSUME Init PROVE Answered
    OBVIOUS
  <2>1. /\ main = "unique" /\ made = 0 /\ closed = FALSE /\ spc = FreshSpc(workers)
        /\ tracked = {} /\ eventsFailed = 0 /\ workers \subseteq Senders
    BY DEF Init, SendingInit
  <2>2. \A s \in workers : spc[s] = "recv"
    BY <2>1 DEF FreshSpc
  <2>3. \A k \in 0..(made - 1) : FALSE
    BY <2>1
  <2> QED
    BY <2>1, <2>2, <2>3 DEF Answered, AnswerIsRight, NoEventLost, WorkersDrain
<1>2. TypeOK /\ InPhase /\ CheckingWaits /\ Answered /\ [Next]_vars => Answered'
  <2> SUFFICES ASSUME TypeOK, InPhase, CheckingWaits, Answered, [Next]_vars
               PROVE  Answered'
    OBVIOUS
  <2>1. Typed
    BY DEF Typed
  <2>2. CASE SendingStep
    BY <2>1, <2>2, MakerAnswers, SenderAnswers, FinishAnswers DEF SendingStep
  <2>3. CASE VerifyingStep
    BY <2>3, VerifyingAnswers
  <2>4. CASE UNCHANGED vars
    BY <2>4 DEF vars, sendingVars, phaseVars, topicVars, Answered, AnswerIsRight, NoEventLost,
       WorkersDrain, Trouble, OnTheWay, Places, BatchEnd, Total, Events
  <2> QED
    BY <2>2, <2>3, <2>4 DEF Next
<1> QED
  BY <1>1, <1>2, TypesInvariant, PTL DEF Spec

\* The inductive invariant is Answered: what AnswerIsRight says of the end
\* of phase 1 follows from what is true all the way through it, that an
\* event made is acknowledged, or held by somebody, or its loss announced.
THEOREM AnswerIsRightHolds == Spec => []AnswerIsRight
<1>1. Answered => AnswerIsRight
  BY DEF Answered
<1> QED
  BY <1>1, AnsweredInvariant, PTL

-----------------------------------------------------------------------------
(* The verdict. *)

\* Only the workers send.
WorkersSend ==
    /\ \A s \in Senders \ workers : spc[s] = "done"
    /\ workers = {} => tracked = {} /\ eventsFailed = 0

FailureFirst == Trouble => failures > 0

\* What the verifier holds while VerifyAll runs, and between two of them.
Asked ==
    /\ verified \subseteq tracked \cap eventsRaw /\ verified \cap missing = {}
    /\ toCheck \subseteq tracked /\ toCheck \cap verified = {}
    /\ main \in SendingPhases => verified = {}

\* main goes on waiting only while some event has not been seen.
Waiting ==
    main = "persistence" /\ ~ checking /\ workers # {} /\ TotalEvents # 0 => verified # Events

\* What the phases passed have established.
Accepted ==
    /\ main \in {"aggregations", "ok"} => verified = Events
    /\ main = "ok" => /\ dayRead \in Counts /\ Agree(DayRowOf, dayRead)
                      /\ monthRead \in Counts /\ Agree(MonthRowOf, monthRead)

Judged == WorkersSend /\ FailureFirst /\ Asked /\ Waiting /\ Accepted /\ ErrorHasCause

LEMMA EventsFinite == IsFiniteSet(Events) /\ Cardinality(Events) = TotalEvents
<1>1. TotalEvents - 1 \in Int /\ TotalEvents \in Nat
  BY SizesAssumption
<1>2. /\ IsFiniteSet(0..(TotalEvents - 1))
      /\ Cardinality(0..(TotalEvents - 1))
             = IF 0 > TotalEvents - 1 THEN 0 ELSE (TotalEvents - 1) - 0 + 1
  BY <1>1, FS_Interval
<1> QED
  BY <1>1, <1>2 DEF Events

LEMMA EventsThere == TotalEvents # 0 <=> Events # {}
<1>1. TotalEvents # 0 => 0 \in Events
  BY SizesAssumption DEF Events
<1>2. TotalEvents = 0 => Events = {}
  BY DEF Events
<1> QED
  BY <1>1, <1>2

LEMMA MakerJudged ==
    ASSUME Typed, Judged, Generate \/ Offer \/ CloseChannel, UNCHANGED verifierVars
    PROVE  Judged'
<1>1. /\ UNCHANGED <<workers, main, spc, errors, published, failures, tracked, eventsFailed>>
      /\ main \in SendingPhases
  BY DEF Generate, Offer, CloseChannel, makerFrame, topicVars
<1> QED
  BY <1>1 DEF Judged, WorkersSend, FailureFirst, Trouble, Asked, Waiting, Accepted, ErrorHasCause,
     SendingPhases, verifierVars

LEMMA SenderJudged ==
    ASSUME Typed, Judged, NEW s \in Senders, Sender(s), UNCHANGED verifierVars
    PROVE  Judged'
<1>1. UNCHANGED <<workers, main>>
  BY DEF Sender, TakeBatch, SendBatchOk, SendBatchFails, Report, senderFrame, reportFrame
<1>2. /\ spc \in [Senders -> {"recv", "sending", "report", "done"}]
      /\ errors \in Nat /\ workers \subseteq Senders /\ failures \in Nat /\ failures' \in Nat
  <2>1. WorkersCount \in Nat
    BY WorkersAreFew DEF Typed, TypeOK, SendingTypeOK
  <2>2. failures' = failures \/ failures' = failures + 1
    BY DEF Sender, TakeBatch, SendBatchOk, SendBatchFails, Report, reportFrame, topicVars
  <2> QED
    BY <2>1, <2>2 DEF Typed, TypeOK, SendingTypeOK
<1>3. spc[s] # "done" /\ s \in workers
  BY <1>2 DEF Judged, WorkersSend, Sender, TakeBatch, SendBatchOk, SendBatchFails, Report
<1>4. \A t \in Senders : t # s => spc'[t] = spc[t]
  BY <1>2 DEF Sender, TakeBatch, SendBatchOk, SendBatchFails, Report, BackToRecv
<1>5. WorkersSend'
  BY <1>1, <1>3, <1>4 DEF Judged, WorkersSend
<1>6. FailureFirst'
  <2>1. CASE SendBatchFails(s)
    BY <1>2, <2>1 DEF SendBatchFails, FailureFirst
  <2>2. CASE TakeBatch(s) \/ SendBatchOk(s) \/ Report(s)
    <3>1. failures' = failures /\ (spc'[s] # "report")
      BY <1>2, <2>2 DEF TakeBatch, SendBatchOk, Report, BackToRecv, reportFrame, topicVars
    <3>2. errors' > 0 => errors > 0 \/ spc[s] = "report"
      BY <2>2 DEF TakeBatch, SendBatchOk, Report
    <3>3. Trouble' => Trouble
      BY <1>4, <3>1, <3>2 DEF Trouble
    <3> QED
      BY <3>1, <3>3 DEF Judged, FailureFirst
  <2> QED
    BY <2>1, <2>2 DEF Sender
<1>7. tracked \subseteq tracked' /\ (failures > 0 => failures' > 0)
  BY <1>2 DEF Sender, TakeBatch, SendBatchOk, SendBatchFails, Report, reportFrame, topicVars
<1>8. Asked'
  BY <1>1, <1>7 DEF Judged, Asked, verifierVars
<1>9. Waiting' /\ Accepted' /\ ErrorHasCause'
  BY <1>1, <1>7 DEF Judged, Waiting, Accepted, ErrorHasCause, verifierVars
<1> QED
  BY <1>5, <1>6, <1>8, <1>9 DEF Judged

LEMMA FinishJudged ==
    ASSUME Typed, Answered, Judged, FinishUnique \/ FinishDuplicates, UNCHANGED verifierVars
    PROVE  Judged'
<1>1. UNCHANGED <<workers, failures, tracked, eventsFailed>> /\ main \in SendingPhases /\ AllSent
  BY DEF FinishUnique, FinishDuplicates, topicVars, SendingPhases
<1>2. errors \in Nat /\ workers \subseteq Senders /\ failures \in Nat
  <2>1. WorkersCount \in Nat
    BY WorkersAreFew DEF Typed, TypeOK, SendingTypeOK
  <2> QED
    BY <2>1 DEF Typed, TypeOK, SendingTypeOK
<1>3. CASE FinishUnique
  <2>1. spc' = FreshSpc(workers) /\ errors' = 0 /\ main' \in {"error", "duplicates"}
    BY <1>3 DEF FinishUnique, BeginPhase
  <2>2. WorkersSend' /\ FailureFirst'
    <3>1. \A s \in Senders : spc'[s] = IF s \in workers THEN "recv" ELSE "done"
      BY <2>1 DEF FreshSpc
    <3>2. ~ Trouble'
      BY <2>1, <3>1 DEF Trouble
    <3> QED
      BY <1>1, <3>1, <3>2 DEF Judged, WorkersSend, FailureFirst
  <2>3. ASSUME main' = "error" PROVE failures > 0 \/ workers = {} \/ TotalEvents = 0
    <3>1. CASE errors > 0
      BY <3>1 DEF Judged, FailureFirst, Trouble
    <3>2. CASE errors = 0 /\ workers # {}
      <4>1. made = 0 /\ main = "unique"
        BY <1>3, <2>3, <3>2 DEF FinishUnique
      <4>2. made >= TotalEvents
        BY <1>1, <1>2, <3>2, <4>1 DEF AllSent, Answered, WorkersDrain, Total
      <4> QED
        BY <4>1, <4>2, SizesAssumption
    <3> QED
      BY <1>2, <3>1, <3>2
  <2> QED
    BY <1>1, <2>1, <2>2, <2>3
    DEF Judged, Asked, Waiting, Accepted, ErrorHasCause, SendingPhases, verifierVars
<1>4. CASE FinishDuplicates
  <2>1. spc' = spc /\ errors' = errors /\ main' = IF errors > 0 THEN "error" ELSE "persistence"
    BY <1>4 DEF FinishDuplicates, phaseVars
  <2>2. WorkersSend' /\ FailureFirst'
    BY <1>1, <2>1 DEF Judged, WorkersSend, FailureFirst, Trouble
  <2>3. main' = "error" => failures > 0
    BY <2>1 DEF Judged, FailureFirst, Trouble
  <2>4. verified' = {} /\ (TotalEvents # 0 => Events # {})
    BY <1>1, EventsThere DEF Judged, Asked, verifierVars
  <2>5. Asked'
    BY <1>1, <2>4 DEF Judged, Asked, verifierVars
  <2> QED
    BY <1>1, <2>1, <2>2, <2>3, <2>4, <2>5
    DEF Judged, Waiting, Accepted, ErrorHasCause, Events
<1> QED
  BY <1>3, <1>4

\* Whatever contributes to a row is finitely many, of this run or not.
LEMMA MatesTyped ==
    ASSUME NEW rowOf, NEW e, NEW read \in Counts
    PROVE  /\ IsFiniteSet(CellMates(rowOf, e)) /\ IsFiniteSet(CellMates(rowOf, e) \cap Events)
           /\ CellMates(rowOf, e) \subseteq Events \cup Others
           /\ \A x \in CellMates(rowOf, e) : read[x] \in Nat
<1>1. IsFiniteSet(Contributors)
  BY EventsFinite, FS_Union, VerifierAssumption DEF Contributors
<1>2. CellMates(rowOf, e) \subseteq Contributors
  BY DEF CellMates
<1>3. \A x \in Contributors : read[x] \in Nat
  BY VerifierAssumption DEF Counts
<1>4. CellMates(rowOf, e) \cap Events \subseteq CellMates(rowOf, e)
  OBVIOUS
<1> QED
  BY <1>1, <1>2, <1>3, <1>4, FS_Subset DEF Contributors

\* Where nobody else has contributed to a row its total is this run's.
LEMMA OwnTotal ==
    ASSUME NEW rowOf, NEW e, NEW read \in Counts,
           \A x \in CellMates(rowOf, e) \cap Others : read[x] = 0
    PROVE  SumFunctionOnSet(read, CellMates(rowOf, e))
             = SumFunctionOnSet(read, CellMates(rowOf, e) \cap Events)
<1> DEFINE S == CellMates(rowOf, e)
           P == S \cap Events
<1>1. IsFiniteSet(S) /\ S \subseteq Events \cup Others /\ \A x \in S : read[x] \in Nat
  BY MatesTyped
<1>2. P \in SUBSET S /\ \A x \in S : read[x] \in Int
  BY <1>1
<1>3. \A x \in S \ P : read[x] = 0
  BY <1>1
<1> HIDE DEF S, P
<1> QED
  BY <1>1, <1>2, <1>3, SumOfPart DEF S, P

\* Reads that count every event once, in rows nobody else has contributed
\* to, agree: the first and the last event there are frame the rows of all.
LEMMA ExactReadsAgree ==
    ASSUME Events # {}, NEW rowOf \in {DayRowOf, MonthRowOf},
           NEW read \in Counts, \A e \in Events : read[e] = 1, ~ Shared(rowOf, read)
    PROVE  Agree(rowOf, read)
<1>1. /\ IsFiniteSet(Events) /\ LocalZone \in Zones
      /\ \A e \in Events : /\ e \in Contributors /\ StartedAt[e] \in Int
                           /\ ZoneOf[e] = LocalZone
                           /\ HasMonth(CivilDay(StartedAt[e], LocalZone))
  <2>1. \A e \in Events : e \in Contributors /\ ZoneOf[e] = LocalZone
    BY VerifierAssumption DEF Contributors
  <2>2. \A x \in Contributors : HasMonth(CivilDay(StartedAt[x], ZoneOf[x])) /\ StartedAt[x] \in Int
    BY VerifierAssumption
  <2> QED
    BY <2>1, <2>2, EventsFinite, VerifierAssumption
<1> DEFINE starts == [e \in Events |-> StartedAt[e]]
<1>2. starts \in [Events -> Int] /\ \A e \in Events : starts[e] = StartedAt[e]
  BY <1>1
<1> HIDE DEF starts
<1>3. PICK first \in Events : \A e \in Events : StartedAt[first] =< StartedAt[e]
  BY <1>1, <1>2, Extremes
<1>4. PICK last \in Events : \A e \in Events : StartedAt[e] =< StartedAt[last]
  BY <1>1, <1>2, Extremes
<1>5. ASSUME NEW e \in Events, NEW f \in Events, StartedAt[e] =< StartedAt[f]
      PROVE  rowOf[e] =< rowOf[f]
  <2>1. DayRow(StartedAt[e], LocalZone) =< DayRow(StartedAt[f], LocalZone)
    BY <1>1, <1>5, DayRowsOrdered
  <2>2. MonthRow(StartedAt[e], LocalZone) =< MonthRow(StartedAt[f], LocalZone)
    BY <1>1, <1>5, MonthRowsOrdered
  <2> QED
    BY <1>1, <2>1, <2>2 DEF DayRowOf, MonthRowOf
<1>6. ASSUME NEW e \in Events
      PROVE  SumFunctionOnSet(read, CellMates(rowOf, e))
               = Cardinality(CellMates(rowOf, e) \cap Events)
  <2> DEFINE own == CellMates(rowOf, e) \cap Events
  <2>0. /\ IsFiniteSet(own)
        /\ \A x \in CellMates(rowOf, e) : read[x] \in Nat
    BY MatesTyped
  <2>1. \A x \in CellMates(rowOf, e) \cap Others : read[x] = 0
    BY <2>0 DEF Shared
  <2>2. SumFunctionOnSet(read, CellMates(rowOf, e)) = SumFunctionOnSet(read, own)
    BY <2>1, OwnTotal
  <2>3. IsFiniteSet(own) /\ \A x \in own : read[x] = 1
    BY <2>0
  <2> HIDE DEF own
  <2>4. SumFunctionOnSet(read, own) = Cardinality(own)
    BY <2>3, SumOnes
  <2> QED
    BY <2>2, <2>4 DEF own
<1>7. \A e \in Events : InRows(rowOf[e], rowOf[first], rowOf[last])
  BY <1>3, <1>4, <1>5 DEF InRows
<1> QED
  BY <1>3, <1>4, <1>6, <1>7 DEF Agree

\* Reads that agree miss an event only where its row has a count too many
\* of another one, or a count of somebody else's.
LEMMA AgreeingReadsMask ==
    ASSUME NEW rowOf, NEW read \in Counts, Agree(rowOf, read)
    PROVE  MissedIsMasked(rowOf, read)
<1> SUFFICES ASSUME NEW e \in Events, read[e] = 0,
                    \A x \in CellMates(rowOf, e) : ~ (read[x] > 1 \/ (x \in Others /\ read[x] > 0))
             PROVE  FALSE
  BY DEF MissedIsMasked
<1> DEFINE own == CellMates(rowOf, e) \cap Events
<1>0. IsFiniteSet(own) /\ \A x \in CellMates(rowOf, e) : read[x] \in Nat
  BY MatesTyped
<1>1. \A x \in CellMates(rowOf, e) : read[x] \in Nat /\ read[x] =< 1 /\ (x \in Others => read[x] = 0)
  BY <1>0
<1>2. e \in own /\ IsFiniteSet(own) /\ \A x \in own : read[x] \in Nat /\ read[x] =< 1
  BY <1>0, <1>1 DEF CellMates, Contributors
<1>3. SumFunctionOnSet(read, CellMates(rowOf, e)) = Cardinality(own)
  BY DEF Agree
<1>4. SumFunctionOnSet(read, CellMates(rowOf, e)) = SumFunctionOnSet(read, own)
  BY <1>1, OwnTotal
<1> HIDE DEF own
<1>5. SumFunctionOnSet(read, own) < Cardinality(own)
  BY <1>2, SumShort
<1>6. Cardinality(own) \in Nat
  BY <1>2, FS_CardinalityType
<1> QED
  BY <1>3, <1>4, <1>5, <1>6

LEMMA ChunkJudged ==
    ASSUME Typed, Judged, CheckingWaits, Tick \/ VerifyChunk \/ VerifyFails
    PROVE  Judged'
<1>1. UNCHANGED <<workers, main, spc, errors, failures, tracked, eventsFailed, dayRead, monthRead, refused>>
  BY DEF Tick, VerifyChunk, VerifyFails, chunkFrame, sendingVars, phaseVars, topicVars
<1>2. main = "persistence"
  BY DEF Tick, VerifyChunk, VerifyFails, CheckingWaits
<1>3. WorkersSend' /\ FailureFirst'
  BY <1>1 DEF Judged, WorkersSend, FailureFirst, Trouble
<1>4. Accepted' /\ ErrorHasCause'
  BY <1>1, <1>2 DEF Accepted, ErrorHasCause
<1>5. /\ verified \subseteq tracked \cap eventsRaw /\ verified \cap missing = {}
      /\ toCheck \subseteq tracked /\ toCheck \cap verified = {}
  BY DEF Judged, Asked
<1>6. CASE Tick
  <2>1. /\ toCheck' = tracked \ verified /\ checking' = TRUE
        /\ verified' = verified /\ missing' = missing /\ eventsRaw' = eventsRaw
    BY <1>6 DEF Tick
  <2>2. Asked' /\ Waiting'
    BY <1>1, <1>2, <1>5, <2>1 DEF Asked, Waiting, SendingPhases
  <2> QED
    BY <1>3, <1>4, <2>2 DEF Judged
<1>7. CASE VerifyChunk
  <2>1. PICK batch \in Chunks, stored \in SUBSET (published \ eventsRaw) :
            /\ eventsRaw' = eventsRaw \cup stored
            /\ verified' = verified \cup (batch \cap eventsRaw')
            /\ missing' = (missing \ (batch \cap eventsRaw')) \cup (batch \ (batch \cap eventsRaw'))
            /\ toCheck' = toCheck \ batch
    BY <1>7 DEF VerifyChunk
  <2>2. batch \subseteq toCheck
    BY DEF Chunks
  <2>3. verified' \subseteq (tracked \cap eventsRaw') /\ verified' \cap missing' = {}
    BY <1>5, <2>1, <2>2
  <2>4. toCheck' \subseteq tracked /\ toCheck' \cap verified' = {}
    BY <1>5, <2>1, <2>2
  <2>5. Asked'
    BY <1>1, <1>2, <2>3, <2>4 DEF Asked, SendingPhases
  <2>6. checking'
    BY <1>7 DEF VerifyChunk, chunkFrame
  <2> QED
    BY <1>3, <1>4, <2>5, <2>6 DEF Judged, Waiting
<1>8. CASE VerifyFails
  <2>1. /\ toCheck # {} /\ toCheck' = {}
        /\ verified' = verified /\ missing' = missing /\ eventsRaw' = eventsRaw
    BY <1>8 DEF VerifyFails
  <2>2. Asked'
    BY <1>1, <1>2, <1>5, <2>1 DEF Asked, SendingPhases
  <2>3. toCheck \subseteq Events
    BY DEF Typed, TypeOK, VerifierTypeOK
  <2>4. verified # Events
    BY <1>5, <2>1, <2>3
  <2>5. Waiting'
    BY <2>1, <2>4 DEF Waiting, Events
  <2> QED
    BY <1>3, <1>4, <2>2, <2>5 DEF Judged
<1> QED
  BY <1>6, <1>7, <1>8

LEMMA VerdictJudged ==
    ASSUME Typed, Answered, Judged, CheckingWaits,
           AfterVerify \/ VerifyTimeout \/ VerifyDuplicates
    PROVE  Judged'
<1>1. UNCHANGED <<workers, spc, errors, failures, tracked, eventsFailed, eventsRaw,
                  verified, missing, toCheck, dayRead, monthRead, refused>>
  BY DEF AfterVerify, VerifyTimeout, VerifyDuplicates, verdictFrame, phaseVars, topicVars
<1>2. /\ main \in {"persistence", "rejected"}
      /\ main' \in {"persistence", "rejected", "aggregations", "error"}
  BY DEF AfterVerify, VerifyTimeout, VerifyDuplicates, CheckingWaits
<1>3. WorkersSend' /\ FailureFirst'
  BY <1>1 DEF Judged, WorkersSend, FailureFirst, Trouble
<1>4. Asked'
  BY <1>1, <1>2 DEF Judged, Asked, SendingPhases
<1>5. workers # {} => tracked = Events
  BY <1>2 DEF Answered, AnswerIsRight
<1>6. CASE AfterVerify
  <2>1. /\ main' = "persistence" \/ main' = "error" => verified # tracked
        /\ main' # "aggregations"
    BY <1>6, <1>2 DEF AfterVerify
  <2>2. Waiting' /\ Accepted' /\ ErrorHasCause'
    BY <1>1, <1>2, <1>5, <2>1 DEF Waiting, Accepted, ErrorHasCause, Events
  <2> QED
    BY <1>3, <1>4, <2>2 DEF Judged
<1>7. CASE VerifyTimeout
  <2>1. main = "persistence" /\ ~ checking /\ main' = "error"
    BY <1>7 DEF VerifyTimeout
  <2>2. workers # {} /\ TotalEvents # 0 => verified # Events
    BY <2>1 DEF Judged, Waiting
  <2>3. Waiting' /\ Accepted' /\ ErrorHasCause'
    BY <1>1, <2>1, <2>2 DEF Waiting, Accepted, ErrorHasCause, Events
  <2> QED
    BY <1>3, <1>4, <2>3 DEF Judged
<1>8. CASE VerifyDuplicates
  <2>1. main' = IF Cardinality(verified) # TotalEvents THEN "error" ELSE "aggregations"
    BY <1>8 DEF VerifyDuplicates
  <2>2. verified \subseteq Events
    BY DEF Typed, TypeOK, VerifierTypeOK
  <2>3. Cardinality(verified) = TotalEvents <=> verified = Events
    BY <2>2, EventsFinite, FS_Subset
  <2>4. Waiting' /\ Accepted' /\ ErrorHasCause'
    BY <1>1, <2>1, <2>3 DEF Waiting, Accepted, ErrorHasCause, Events
  <2> QED
    BY <1>3, <1>4, <2>4 DEF Judged
<1> QED
  BY <1>6, <1>7, <1>8

LEMMA ReadJudged ==
    ASSUME Typed, Judged, ReadDayAggregations \/ ReadMonthAggregations \/ ReadFails
    PROVE  Judged'
<1>1. /\ UNCHANGED <<workers, spc, errors, failures, tracked, eventsFailed, eventsRaw,
                    verified, missing, toCheck>>
      /\ main = "aggregations"
  BY DEF ReadDayAggregations, ReadMonthAggregations, ReadFails, verdictFrame, phaseVars, topicVars
<1>2. main' \in {"aggregations", "ok", "error"} /\ verified = Events
  BY <1>1 DEF ReadDayAggregations, ReadMonthAggregations, ReadFails, Judged, Accepted
<1>3. WorkersSend' /\ FailureFirst' /\ Asked' /\ Waiting'
  BY <1>1, <1>2 DEF Judged, WorkersSend, FailureFirst, Trouble, Asked, Waiting, SendingPhases
<1>4. Events' = Events
  BY DEF Events
<1>5. CASE ReadDayAggregations
  <2>1. main' = "aggregations"
    BY <1>1, <1>5 DEF ReadDayAggregations
  <2> QED
    BY <1>1, <1>2, <1>3, <2>1 DEF Judged, Accepted, ErrorHasCause, Events
<1>6. CASE ReadMonthAggregations
  <2>1. /\ dayRead' = dayRead /\ dayRead # Unread /\ monthRead' \in Counts
        /\ main' = IF Agree(DayRowOf, dayRead) /\ Agree(MonthRowOf, monthRead')
                     THEN "ok" ELSE "error"
    BY <1>6 DEF ReadMonthAggregations, Read
  <2>2. dayRead \in Counts
    BY <2>1 DEF Typed, TypeOK, VerifierTypeOK
  <2>3. Accepted'
    <3>1. main' # "aggregations" /\ verified' = Events
      BY <1>1, <1>2, <2>1
    <3>2. main' = "ok" => Agree(DayRowOf, dayRead') /\ Agree(MonthRowOf, monthRead')
      BY <2>1
    <3>3. ASSUME main' = "ok" PROVE Agree(DayRowOf, dayRead)' /\ Agree(MonthRowOf, monthRead)'
      BY <3>2, <3>3 DEF Agree, CellMates, InRows, DayRowOf, MonthRowOf, Contributors, Events
    <3> QED
      BY <3>1, <3>3, <2>1, <2>2 DEF Accepted, Counts, Contributors, Events
  <2>4. ErrorHasCause'
    <3> SUFFICES ASSUME main' = "error", TotalEvents # 0,
                        \A e \in Events : dayRead[e] = 1 /\ monthRead'[e] = 1,
                        ~ Shared(DayRowOf, dayRead), ~ Shared(MonthRowOf, monthRead')
                 PROVE  FALSE
      <4>1. DOMAIN monthRead' = Contributors /\ DOMAIN Unread = {}
        BY <2>1 DEF Counts, Unread
      <4>2. TotalEvents # 0 => monthRead' # Unread
        BY <4>1, EventsThere DEF Contributors
      <4>3. Shared(DayRowOf, dayRead)' <=> Shared(DayRowOf, dayRead')
        BY DEF Shared, CellMates, DayRowOf, Contributors, Events
      <4>4. Shared(MonthRowOf, monthRead)' <=> Shared(MonthRowOf, monthRead')
        BY DEF Shared, CellMates, MonthRowOf, Contributors, Events
      <4> QED
        BY <2>1, <4>2, <4>3, <4>4 DEF ErrorHasCause, Events
    <3>1. Events # {}
      BY EventsThere
    <3>2. Agree(DayRowOf, dayRead) /\ Agree(MonthRowOf, monthRead')
      BY <2>1, <2>2, <3>1, ExactReadsAgree
    <3> QED
      BY <2>1, <3>2
  <2> QED
    BY <1>3, <2>3, <2>4 DEF Judged
<1>7. CASE ReadFails
  BY <1>1, <1>2, <1>3, <1>7 DEF ReadFails, Judged, Accepted, ErrorHasCause
<1> QED
  BY <1>5, <1>6, <1>7

LEMMA JudgedInvariant == Spec => [](TypeOK /\ InPhase /\ CheckingWaits /\ Answered /\ Judged)
<1>1. Init => Judged
  <2> SUFFICES ASSUME Init PROVE Judged
    OBVIOUS
  <2>1. /\ main = "unique" /\ spc = FreshSpc(workers) /\ tracked = {} /\ eventsFailed = 0
        /\ errors = 0 /\ verified = {} /\ missing = {} /\ toCheck = {}
    BY DEF Init, SendingInit, VerifierInit
  <2>2. \A s \in Senders : spc[s] = IF s \in workers THEN "recv" ELSE "done"
    BY <2>1 DEF FreshSpc
  <2>3. ~ Trouble
    BY <2>1, <2>2 DEF Trouble
  <2> QED
    BY <2>1, <2>2, <2>3 DEF Judged, WorkersSend, FailureFirst, Asked, Waiting, Accepted, ErrorHasCause
<1>2. TypeOK /\ InPhase /\ CheckingWaits /\ Answered /\ Judged /\ [Next]_vars => Judged'
  <2> SUFFICES ASSUME TypeOK, InPhase, CheckingWaits, Answered, Judged, [Next]_vars
               PROVE  Judged'
    OBVIOUS
  <2>1. Typed
    BY DEF Typed
  <2>2. CASE SendingStep
    BY <2>1, <2>2, MakerJudged, SenderJudged, FinishJudged DEF SendingStep
  <2>3. CASE VerifyingStep
    BY <2>1, <2>3, ChunkJudged, VerdictJudged, ReadJudged DEF VerifyingStep
  <2>4. CASE UNCHANGED vars
    <3>1. UNCHANGED <<workers, main, spc, errors, failures, tracked, eventsFailed, verifierVars>>
      BY <2>4 DEF vars, sendingVars, phaseVars, topicVars
    <3>2. WorkersSend' /\ FailureFirst' /\ Asked' /\ Waiting' /\ ErrorHasCause'
      BY <3>1 DEF verifierVars, Judged, WorkersSend, FailureFirst, Trouble, Asked, Waiting,
         ErrorHasCause, Shared, CellMates, DayRowOf, MonthRowOf, Contributors, Events
    <3>3. /\ Agree(DayRowOf, dayRead)' <=> Agree(DayRowOf, dayRead)
          /\ Agree(MonthRowOf, monthRead)' <=> Agree(MonthRowOf, monthRead)
      <4>1. dayRead' = dayRead /\ monthRead' = monthRead
        BY <3>1 DEF verifierVars
      <4> QED
        BY <4>1 DEF Agree, CellMates, InRows, DayRowOf, MonthRowOf, Contributors, Events
    <3>4. Accepted'
      BY <3>1, <3>3 DEF verifierVars, Judged, Accepted, Counts, Contributors, Events
    <3> QED
      BY <3>2, <3>4 DEF Judged
  <2> QED
    BY <2>2, <2>3, <2>4 DEF Next
<1> QED
  BY <1>1, <1>2, TypesInvariant, AnsweredInvariant, PTL DEF Spec

\* The verdict error always has a cause outside of the generator; rows that
\* other producers, or an earlier run, have contributed to are one.
THEOREM ErrorHasCauseHolds == Spec => []ErrorHasCause
<1>1. Judged => ErrorHasCause
  BY DEF Judged
<1> QED
  BY <1>1, JudgedInvariant, PTL

\* The verdict ok is worth what its report says, and no more where a row has
\* other contributors or an event counted twice.  The inductive invariant
\* is Judged: what a phase has established is kept, as the sets the
\* verifier holds, until the phase that needs it.
THEOREM VerdictSoundHolds == Spec => []VerdictSound
<1>1. ASSUME TypeOK, Answered, Judged PROVE VerdictSound
  <2>1. verified \subseteq tracked \cap eventsRaw /\ verified \cap missing = {}
    BY <1>1 DEF Judged, Asked
  <2>2. ASSUME main = "ok" PROVE verified = Events /\ Success
    <3>1. verified = Events /\ Cardinality(verified) = TotalEvents
      BY <1>1, <2>2, EventsFinite DEF Judged, Accepted
    <3>2. eventsFailed = 0
      BY <1>1, <2>2 DEF Judged, WorkersSend, Answered, AnswerIsRight
    <3> QED
      BY <3>1, <3>2 DEF Success
  <2>3. ASSUME main = "ok"
        PROVE  MissedIsMasked(DayRowOf, dayRead) /\ MissedIsMasked(MonthRowOf, monthRead)
    <3>1. /\ dayRead \in Counts /\ Agree(DayRowOf, dayRead)
          /\ monthRead \in Counts /\ Agree(MonthRowOf, monthRead)
      BY <1>1, <2>3 DEF Judged, Accepted
    <3> QED
      BY <3>1, AgreeingReadsMask
  <2> QED
    BY <2>1, <2>2, <2>3 DEF VerdictSound
<1> QED
  BY <1>1, JudgedInvariant, PTL

-----------------------------------------------------------------------------
(* The copies of phase 2. *)

\* What taking events in turn makes of n copies of an event.
Turn(n, e) == {k \in 0..(n - 1) : k % TotalEvents = e}
Share(n)   == [e \in Events |-> 1 + Cardinality(Turn(n, e))]

LEMMA NextResidue ==
    ASSUME NEW T \in Nat \ {0}, NEW k \in Nat
    PROVE  /\ k % T \in 0..(T - 1) /\ (k + 1) % T \in 0..(T - 1)
           /\ (k + 1) % T = IF k % T = T - 1 THEN 0 ELSE (k % T) + 1
<1> DEFINE q == k \div T
           r == k % T
<1>1. r \in 0..(T - 1) /\ k = T * q + r /\ q \in Nat
  OBVIOUS
<1>2. ASSUME NEW n \in Nat, NEW p \in Nat, NEW s \in 0..(T - 1), n = T * p + s
      PROVE  n % T = s
  BY <1>2
<1>3. (k + 1) % T \in 0..(T - 1)
  OBVIOUS
<1>4. CASE r = T - 1
  <2>1. k + 1 = T * (q + 1) + 0
    BY <1>1, <1>4
  <2>2. k + 1 \in Nat /\ q + 1 \in Nat /\ 0 \in 0..(T - 1)
    BY <1>1
  <2>3. (k + 1) % T = 0
    BY <1>2, <2>1, <2>2
  <2> QED
    BY <1>1, <1>3, <1>4, <2>3
<1>5. CASE r # T - 1
  <2>1. k + 1 = T * q + (r + 1)
    BY <1>1
  <2>2. k + 1 \in Nat /\ r + 1 \in 0..(T - 1)
    BY <1>1, <1>5
  <2>3. (k + 1) % T = r + 1
    BY <1>1, <1>2, <2>1, <2>2
  <2> QED
    BY <1>1, <1>3, <1>5, <2>3
<1> QED
  BY <1>4, <1>5

LEMMA TurnFinite ==
    ASSUME NEW n \in Nat, NEW e
    PROVE  IsFiniteSet(Turn(n, e)) /\ Cardinality(Turn(n, e)) \in Nat
<1>1. n - 1 \in Int
  OBVIOUS
<1>2. IsFiniteSet(0..(n - 1)) /\ Turn(n, e) \subseteq 0..(n - 1)
  BY <1>1, FS_Interval DEF Turn
<1> QED
  BY <1>2, FS_Subset, FS_CardinalityType

\* One more copy goes to the event whose turn it is.
LEMMA ShareGrows ==
    ASSUME NEW n \in Nat, TotalEvents # 0, NEW e \in Events
    PROVE  Share(n + 1)[e] = Share(n)[e] + (IF e = n % TotalEvents THEN 1 ELSE 0)
<1>1. 0..((n + 1) - 1) = 0..(n - 1) \cup {n} /\ n \notin 0..(n - 1)
  OBVIOUS
<1>2. n \notin Turn(n, e)
  BY <1>1 DEF Turn
<1>3. Turn(n + 1, e) = IF e = n % TotalEvents THEN Turn(n, e) \cup {n} ELSE Turn(n, e)
  BY <1>1 DEF Turn
<1>4. Cardinality(Turn(n + 1, e)) = Cardinality(Turn(n, e)) + (IF e = n % TotalEvents THEN 1 ELSE 0)
  <2>1. IsFiniteSet(Turn(n, e)) /\ Cardinality(Turn(n, e)) \in Nat
    BY TurnFinite
  <2>2. Cardinality(Turn(n, e) \cup {n}) = Cardinality(Turn(n, e)) + 1
    BY <1>2, <2>1, FS_AddElement
  <2> QED
    BY <1>3, <2>1, <2>2
<1>5. Cardinality(Turn(n, e)) \in Nat
  BY TurnFinite
<1> QED
  BY <1>4, <1>5 DEF Share

\* Every copy has its event.
LEMMA SharesSum ==
    ASSUME NEW D \in Nat, TotalEvents # 0
    PROVE  /\ SumFunctionOnSet(Share(D), Events) = TotalEvents + D
           /\ \A e \in Events : Share(D)[e] >= 1
<1> DEFINE T == TotalEvents
           Good == {n \in Nat : SumFunctionOnSet(Share(n), Events) = T + n}
<1>1. T \in Nat \ {0} /\ IsFiniteSet(Events) /\ Events = 0..(T - 1) /\ Cardinality(Events) = T
  BY EventsFinite, SizesAssumption DEF Events
<1>2. 0 \in Good
  <2>1. ASSUME NEW e \in Events PROVE Share(0)[e] = 1
    <3>1. Turn(0, e) = {}
      BY DEF Turn
    <3> QED
      BY <3>1, FS_EmptySet DEF Share
  <2> QED
    BY <1>1, <2>1, SumOnes
<1>3. ASSUME NEW n \in Nat, n \in Good PROVE n + 1 \in Good
  <2> DEFINE r == n % T
             f == Share(n)
             g == Share(n + 1)
  <2>1. r \in Events
    BY <1>1, NextResidue
  <2>2. \A e \in Events : g[e] = f[e] + (IF e = r THEN 1 ELSE 0) /\ f[e] \in Int
    BY ShareGrows, TurnFinite DEF Share
  <2>3. SumFunctionOnSet(f, Events) = T + n
    BY <1>3
  <2>4. IsFiniteSet(Events) /\ 1 \in Int
    BY <1>1
  <2> HIDE DEF r, f, g
  <2>5. (\A x \in Events : f[x] \in Int /\ (x # r => g[x] = f[x])) /\ g[r] = f[r] + 1
    BY <2>1, <2>2
  <2>6. SumFunctionOnSet(g, Events) = SumFunctionOnSet(f, Events) + 1
    BY <2>1, <2>4, <2>5, SumUpdate
  <2>7. SumFunctionOnSet(g, Events) = T + (n + 1)
    BY <1>1, <2>3, <2>6
  <2> QED
    BY <2>7 DEF g
<1> HIDE DEF Good
<1>4. D \in Good
  BY <1>2, <1>3, NaturalInduction
<1>5. ASSUME NEW e \in Events PROVE Share(D)[e] >= 1
  BY TurnFinite DEF Share
<1> QED
  BY <1>4, <1>5 DEF Good

\* A batch has one holder: the goroutine that made it, the channel or a
\* sender; and nobody holds what has not been made.
Apart(i, j) == Places(i) \cap Places(j) = {}

OneHolder ==
    /\ \A k : OnTheWay(k) => k < made
    /\ hand # NoBatch => \A i \in 1..Len(eventsChan) : Apart(hand, eventsChan[i])
    /\ hand # NoBatch => \A s \in Senders : spc[s] = "sending" => Apart(hand, held[s])
    /\ \A i, j \in 1..Len(eventsChan) : i # j => Apart(eventsChan[i], eventsChan[j])
    /\ \A i \in 1..Len(eventsChan), s \in Senders :
           spc[s] = "sending" => Apart(eventsChan[i], held[s])
    /\ \A s, t \in Senders :
           s # t /\ spc[s] = "sending" /\ spc[t] = "sending" => Apart(held[s], held[t])

\* The places that have been acknowledged are those made that nobody
\* holds, as long as there is no trouble.
Sent(e) == {k \in 0..(made - 1) : ~ OnTheWay(k) /\ EventAt(k) = e}
Already == IF main = "unique" THEN 0 ELSE 1

CopiesCounted ==
    workers # {} /\ ~ Trouble =>
        \A e \in Events : copies[e] = Already + Cardinality(Sent(e))

AllOriginals == main = "duplicates" /\ workers # {} => originals = TotalEvents

SentOnce ==
    /\ main \in SendingPhases => OneHolder /\ CopiesCounted
    /\ AllOriginals
    /\ DuplicatesSent

LEMMA MakerSendsOnce ==
    ASSUME Typed, SentOnce, Generate \/ Offer \/ CloseChannel
    PROVE  SentOnce'
<1>1. /\ UNCHANGED <<workers, main, spc, held, errors, copies, originals>>
      /\ main \in SendingPhases
  BY DEF Generate, Offer, CloseChannel, makerFrame, topicVars
<1>2. /\ made \in Nat /\ hand \in Nat \cup {NoBatch} /\ eventsChan \in Seq(Nat)
      /\ OneHolder /\ CopiesCounted
  BY <1>1 DEF Typed, TypeOK, SendingTypeOK, SentOnce
<1>3. /\ \A i : Places(i)' = Places(i)
      /\ \A k : EventAt(k)' = EventAt(k)
      /\ Trouble' <=> Trouble
      /\ Already' = Already
  BY <1>1 DEF Places, BatchEnd, Total, EventAt, Trouble, Already
<1>4. AllOriginals' /\ DuplicatesSent'
  BY <1>1 DEF SentOnce, AllOriginals, DuplicatesSent, SendingPhases
<1>5. ASSUME OneHolder', \A e \in Events : Sent(e)' = Sent(e)
      PROVE  SentOnce'
  <2>1. CopiesCounted'
    BY <1>1, <1>2, <1>3, <1>5 DEF CopiesCounted, Events
  <2> QED
    BY <1>4, <1>5, <2>1 DEF SentOnce
<1>6. CASE Generate
  <2>1. /\ hand = NoBatch /\ hand' = made /\ made' = BatchEnd(made) /\ eventsChan' = eventsChan
        /\ made < Total
    BY <1>6 DEF Generate
  <2>2. made' \in Nat /\ made < made' /\ made # NoBatch
    BY <1>2, <2>1, SizesAssumption DEF BatchEnd, Lesser, Total, NoBatch
  <2>3. Places(made) = made..(made' - 1)
    BY <2>1 DEF Places
  <2>4. \A k : OnTheWay(k)' <=> OnTheWay(k) \/ k \in Places(made)
    BY <1>1, <1>3, <2>1, <2>2 DEF OnTheWay
  <2>5. \A k : OnTheWay(k) => k < made
    BY <1>2 DEF OneHolder
  <2>6. \A k : k \in Places(made) => k \in Int /\ made =< k /\ k < made'
    BY <1>2, <2>2, <2>3
  <2>7. \A k : k \in Places(made) => ~ OnTheWay(k)
    BY <1>2, <2>5, <2>6
  <2>8. OneHolder'
    <3>1. \A k : OnTheWay(k)' => k < made'
      <4> SUFFICES ASSUME NEW k, OnTheWay(k)' PROVE k < made'
        OBVIOUS
      <4>1. CASE k \in Places(made)
        BY <2>6, <4>1
      <4>2. CASE OnTheWay(k)
        <5>1. k \in Int
          BY <4>2 DEF OnTheWay, Places
        <5> QED
          BY <1>2, <2>2, <2>5, <4>2, <5>1
      <4> QED
        BY <2>4, <4>1, <4>2
    <3>2. \A i \in 1..Len(eventsChan) : Apart(made, eventsChan[i])
      BY <2>7 DEF OnTheWay, Apart
    <3>3. \A s \in Senders : spc[s] = "sending" => Apart(made, held[s])
      BY <2>7 DEF OnTheWay, Apart
    <3> QED
      BY <1>1, <1>2, <1>3, <2>1, <3>1, <3>2, <3>3 DEF OneHolder, Apart
  <2>9. ASSUME NEW e \in Events PROVE Sent(e)' = Sent(e)
    <3>1. ASSUME NEW k PROVE k \in Sent(e)' <=> k \in Sent(e)
      <4>1. k \in 0..(made' - 1) <=> k \in 0..(made - 1) \/ k \in Places(made)
        BY <1>2, <2>2, <2>3
      <4>2. k \in Sent(e)' <=> k \in 0..(made' - 1) /\ ~ OnTheWay(k)' /\ EventAt(k) = e
        BY <1>3 DEF Sent
      <4>3. k \in Sent(e) <=> k \in 0..(made - 1) /\ ~ OnTheWay(k) /\ EventAt(k) = e
        BY DEF Sent
      <4>4. k \in Places(made) => k \notin 0..(made - 1)
        BY <1>2, <2>6
      <4>5. OnTheWay(k)' <=> OnTheWay(k) \/ k \in Places(made)
        BY <2>4
      <4> QED
        BY <4>1, <4>2, <4>3, <4>4, <4>5
    <3> QED
      BY <3>1 DEF Sent
  <2> QED
    BY <1>5, <2>8, <2>9
<1>7. CASE Offer
  <2>1. /\ made' = made /\ hand \in Nat /\ hand # NoBatch /\ hand' = NoBatch
        /\ eventsChan' = Append(eventsChan, hand)
    BY <1>2, <1>7 DEF Offer
  <2> DEFINE n == Len(eventsChan)
  <2>2. /\ n \in Nat /\ Len(eventsChan') = n + 1 /\ eventsChan'[n + 1] = hand
        /\ \A i \in 1..n : eventsChan'[i] = eventsChan[i]
        /\ 1..Len(eventsChan') = (1..n) \cup {n + 1}
    BY <1>2, <2>1
  <2>3. \A k : OnTheWay(k)' <=> OnTheWay(k)
    <3> HIDE DEF n
    <3> SUFFICES ASSUME NEW k PROVE OnTheWay(k)' <=> OnTheWay(k)
      OBVIOUS
    <3>1. (\E i \in 1..Len(eventsChan') : k \in Places(eventsChan'[i]))
              <=> k \in Places(hand) \/ \E i \in 1..n : k \in Places(eventsChan[i])
      BY <2>2
    <3> QED
      BY <1>1, <1>3, <2>1, <3>1 DEF OnTheWay, n
  <2>4. OneHolder'
    <3>1. \A k : OnTheWay(k)' => k < made'
      BY <1>2, <2>1, <2>3 DEF OneHolder
    <3>2. ASSUME NEW i \in 1..Len(eventsChan'), NEW j \in 1..Len(eventsChan'), i # j
          PROVE  Apart(eventsChan'[i], eventsChan'[j])
      <4>1. CASE i \in 1..n /\ j \in 1..n
        BY <1>2, <2>2, <3>2, <4>1 DEF OneHolder
      <4>2. CASE i = n + 1 /\ j \in 1..n
        BY <1>2, <2>1, <2>2, <4>2 DEF OneHolder
      <4>3. CASE i \in 1..n /\ j = n + 1
        BY <1>2, <2>1, <2>2, <4>3 DEF OneHolder, Apart
      <4> QED
        BY <2>2, <3>2, <4>1, <4>2, <4>3
    <3>3. ASSUME NEW i \in 1..Len(eventsChan'), NEW s \in Senders, spc[s] = "sending"
          PROVE  Apart(eventsChan'[i], held[s])
      <4>1. CASE i \in 1..n
        BY <1>2, <2>2, <3>3, <4>1 DEF OneHolder
      <4>2. CASE i = n + 1
        BY <1>2, <2>1, <2>2, <3>3, <4>2 DEF OneHolder
      <4> QED
        BY <2>2, <4>1, <4>2
    <3> HIDE DEF n
    <3>4. \A s, t \in Senders :
              s # t /\ spc[s] = "sending" /\ spc[t] = "sending" => Apart(held[s], held[t])
      BY <1>2 DEF OneHolder
    <3>5. \A i, j : Apart(i, j)' <=> Apart(i, j)
      BY <1>3 DEF Apart
    <3> QED
      BY <1>1, <1>3, <2>1, <3>1, <3>2, <3>3, <3>4, <3>5 DEF OneHolder, Apart
  <2>5. ASSUME NEW e \in Events PROVE Sent(e)' = Sent(e)
    BY <1>3, <2>1, <2>3 DEF Sent
  <2> QED
    BY <1>5, <2>4, <2>5
<1>8. CASE CloseChannel
  <2>1. UNCHANGED <<made, hand, eventsChan>>
    BY <1>8 DEF CloseChannel
  <2>2. \A k : OnTheWay(k)' <=> OnTheWay(k)
    BY <1>1, <1>3, <2>1 DEF OnTheWay
  <2>3. OneHolder'
    BY <1>1, <1>2, <1>3, <2>1, <2>2 DEF OneHolder, Apart
  <2>4. ASSUME NEW e \in Events PROVE Sent(e)' = Sent(e)
    BY <1>3, <2>1, <2>2 DEF Sent
  <2> QED
    BY <1>5, <2>3, <2>4
<1> QED
  BY <1>6, <1>7, <1>8

LEMMA SenderSendsOnce ==
    ASSUME Typed, SentOnce, NEW s \in Senders, Sender(s)
    PROVE  SentOnce'
<1>1. UNCHANGED <<workers, main, made, hand, originals>>
  BY DEF Sender, TakeBatch, SendBatchOk, SendBatchFails, Report, senderFrame, reportFrame
<1>2. /\ made \in Nat /\ eventsChan \in Seq(Nat) /\ errors \in Nat
      /\ spc \in [Senders -> {"recv", "sending", "report", "done"}]
      /\ held \in [Senders -> Nat \cup {NoBatch}] /\ copies \in [Events -> Nat]
  <2>1. WorkersCount \in Nat
    BY WorkersAreFew DEF Typed, TypeOK, SendingTypeOK
  <2> QED
    BY <2>1 DEF Typed, TypeOK, SendingTypeOK
<1>3. /\ \A i : Places(i)' = Places(i)
      /\ \A k : EventAt(k)' = EventAt(k)
      /\ Already' = Already
      /\ \A i, j : Apart(i, j)' <=> Apart(i, j)
  BY <1>1 DEF Places, BatchEnd, Total, EventAt, Already, Apart
<1>4. \A t \in Senders : t # s => spc'[t] = spc[t] /\ held'[t] = held[t]
  BY <1>2 DEF Sender, TakeBatch, SendBatchOk, SendBatchFails, Report, BackToRecv
<1>5. AllOriginals'
  BY <1>1 DEF SentOnce, AllOriginals
<1>6. CASE main \notin SendingPhases
  <2>1. spc[s] \notin {"sending", "report"}
    BY <1>6 DEF Typed, InPhase
  <2>2. copies' = copies
    BY <2>1 DEF Sender, TakeBatch, SendBatchOk, SendBatchFails, Report, topicVars
  <2> QED
    BY <1>1, <1>5, <1>6, <2>2 DEF SentOnce, DuplicatesSent
<1>7. CASE main \in SendingPhases
  <2>1. OneHolder /\ CopiesCounted /\ DuplicatesSent'
    BY <1>1, <1>7 DEF SentOnce, DuplicatesSent, SendingPhases
  <2>2. ASSUME OneHolder', CopiesCounted' PROVE SentOnce'
    BY <1>5, <2>1, <2>2 DEF SentOnce
  <2>3. /\ \A k : OnTheWay(k) => k < made
        /\ hand # NoBatch => \A i \in 1..Len(eventsChan) : Apart(hand, eventsChan[i])
        /\ hand # NoBatch => \A t \in Senders : spc[t] = "sending" => Apart(hand, held[t])
        /\ \A i, j \in 1..Len(eventsChan) : i # j => Apart(eventsChan[i], eventsChan[j])
        /\ \A i \in 1..Len(eventsChan), t \in Senders :
               spc[t] = "sending" => Apart(eventsChan[i], held[t])
        /\ \A t, u \in Senders :
               t # u /\ spc[t] = "sending" /\ spc[u] = "sending" => Apart(held[t], held[u])
    BY <2>1 DEF OneHolder
  <2>4. CASE TakeBatch(s) /\ eventsChan # <<>>
    <3>1. /\ spc[s] = "recv" /\ spc'[s] = "sending" /\ held'[s] = eventsChan[1]
          /\ errors' = errors /\ copies' = copies /\ eventsChan' = Tail(eventsChan)
      BY <1>2, <2>4 DEF TakeBatch, topicVars
    <3>2. /\ 1 \in 1..Len(eventsChan) /\ Len(eventsChan') = Len(eventsChan) - 1
          /\ \A i \in 1..Len(eventsChan') :
                 /\ i + 1 \in 1..Len(eventsChan) /\ i + 1 # 1
                 /\ eventsChan'[i] = eventsChan[i + 1]
          /\ \A i \in 1..Len(eventsChan) :
                 i # 1 => i - 1 \in 1..Len(eventsChan') /\ eventsChan'[i - 1] = eventsChan[i]
      <4>1. /\ Len(eventsChan) \in Nat /\ Len(eventsChan) >= 1
            /\ Len(Tail(eventsChan)) = Len(eventsChan) - 1
            /\ \A i \in 1..(Len(eventsChan) - 1) : Tail(eventsChan)[i] = eventsChan[i + 1]
        BY <1>2, <2>4
      <4>2. \A i \in 1..Len(eventsChan) :
               i # 1 => i - 1 \in 1..(Len(eventsChan) - 1) /\ (i - 1) + 1 = i
        BY <4>1
      <4> QED
        BY <3>1, <4>1, <4>2
    <3>3. \A k : OnTheWay(k)' <=> OnTheWay(k)
      <4> SUFFICES ASSUME NEW k PROVE OnTheWay(k)' <=> OnTheWay(k)
        OBVIOUS
      <4>1. (\E i \in 1..Len(eventsChan) : k \in Places(eventsChan[i]))
                <=> \/ k \in Places(held'[s])
                    \/ \E i \in 1..Len(eventsChan') : k \in Places(eventsChan'[i])
        <5>1. ASSUME NEW i \in 1..Len(eventsChan), k \in Places(eventsChan[i])
              PROVE  \/ k \in Places(held'[s])
                     \/ \E j \in 1..Len(eventsChan') : k \in Places(eventsChan'[j])
          <6>1. CASE i = 1
            BY <3>1, <5>1, <6>1
          <6>2. CASE i # 1
            BY <3>2, <5>1, <6>2
          <6> QED
            BY <6>1, <6>2
        <5>2. ASSUME NEW j \in 1..Len(eventsChan'), k \in Places(eventsChan'[j])
              PROVE  \E i \in 1..Len(eventsChan) : k \in Places(eventsChan[i])
          BY <3>2, <5>2
        <5>3. ASSUME k \in Places(held'[s])
              PROVE  \E i \in 1..Len(eventsChan) : k \in Places(eventsChan[i])
          BY <3>1, <3>2, <5>3
        <5> QED
          BY <5>1, <5>2, <5>3
      <4>2. (\E t \in Senders : spc'[t] = "sending" /\ k \in Places(held'[t]))
                <=> \/ k \in Places(held'[s])
                    \/ \E t \in Senders : spc[t] = "sending" /\ k \in Places(held[t])
        BY <1>4, <3>1
      <4> QED
        BY <1>1, <1>3, <4>1, <4>2 DEF OnTheWay
    <3>4. OneHolder'
      <4>1. \A k : OnTheWay(k)' => k < made'
        BY <1>1, <2>3, <3>3
      <4>2. hand # NoBatch => \A i \in 1..Len(eventsChan') : Apart(hand, eventsChan'[i])
        BY <2>3, <3>2
      <4>3. hand # NoBatch => \A t \in Senders : spc'[t] = "sending" => Apart(hand, held'[t])
        BY <1>4, <2>3, <3>1, <3>2
      <4>4. \A i, j \in 1..Len(eventsChan') : i # j => Apart(eventsChan'[i], eventsChan'[j])
        <5> SUFFICES ASSUME NEW i \in 1..Len(eventsChan'), NEW j \in 1..Len(eventsChan'), i # j
                     PROVE  Apart(eventsChan'[i], eventsChan'[j])
          OBVIOUS
        <5>1. i + 1 # j + 1
          OBVIOUS
        <5> QED
          BY <2>3, <3>2, <5>1
      <4>5. \A i \in 1..Len(eventsChan'), t \in Senders :
                spc'[t] = "sending" => Apart(eventsChan'[i], held'[t])
        <5> SUFFICES ASSUME NEW i \in 1..Len(eventsChan'), NEW t \in Senders, spc'[t] = "sending"
                     PROVE  Apart(eventsChan'[i], held'[t])
          OBVIOUS
        <5>1. CASE t = s
          BY <2>3, <3>1, <3>2, <5>1
        <5>2. CASE t # s
          BY <1>4, <2>3, <3>2, <5>2
        <5> QED
          BY <5>1, <5>2
      <4>6. \A t, u \in Senders :
                t # u /\ spc'[t] = "sending" /\ spc'[u] = "sending" => Apart(held'[t], held'[u])
        <5> SUFFICES ASSUME NEW t \in Senders, NEW u \in Senders, t # u,
                            spc'[t] = "sending", spc'[u] = "sending"
                     PROVE  Apart(held'[t], held'[u])
          OBVIOUS
        <5>1. CASE t # s /\ u # s
          BY <1>4, <2>3, <5>1
        <5>2. CASE t = s /\ u # s
          BY <1>4, <2>3, <3>1, <3>2, <5>2
        <5>3. CASE t # s /\ u = s
          BY <1>4, <2>3, <3>1, <3>2, <5>3 DEF Apart
        <5> QED
          BY <5>1, <5>2, <5>3
      <4> QED
        BY <1>1, <1>3, <4>1, <4>2, <4>3, <4>4, <4>5, <4>6 DEF OneHolder
    <3>5. CopiesCounted'
      <4>1. \A e \in Events : Sent(e)' = Sent(e)
        BY <1>1, <1>3, <3>3 DEF Sent
      <4>2. Trouble' <=> Trouble
        BY <1>4, <3>1 DEF Trouble
      <4> QED
        BY <1>1, <1>3, <2>1, <3>1, <4>1, <4>2 DEF CopiesCounted, Events
    <3> QED
      BY <2>2, <3>4, <3>5
  <2>5. CASE ~ (TakeBatch(s) /\ eventsChan # <<>>)
    <3>1. eventsChan' = eventsChan /\ spc'[s] # "sending"
      BY <1>2, <2>5 DEF Sender, TakeBatch, SendBatchOk, SendBatchFails, Report, BackToRecv,
         reportFrame
    <3>2. \A k : OnTheWay(k)' =>
                 OnTheWay(k) /\ (spc[s] = "sending" => k \notin Places(held[s]))
      <4> SUFFICES ASSUME NEW k, OnTheWay(k)'
                   PROVE  OnTheWay(k) /\ (spc[s] = "sending" => k \notin Places(held[s]))
        OBVIOUS
      <4>1. \/ hand # NoBatch /\ k \in Places(hand)
            \/ \E i \in 1..Len(eventsChan) : k \in Places(eventsChan[i])
            \/ \E t \in Senders : t # s /\ spc[t] = "sending" /\ k \in Places(held[t])
        BY <1>1, <1>3, <1>4, <3>1 DEF OnTheWay
      <4> QED
        BY <2>3, <4>1 DEF OnTheWay, Apart
    <3>3. OneHolder'
      BY <1>1, <1>3, <1>4, <2>3, <3>1, <3>2 DEF OneHolder
    <3>4. CASE TakeBatch(s)
      <4>1. spc[s] = "recv" /\ spc'[s] = "done" /\ errors' = errors /\ copies' = copies
        BY <1>2, <2>5, <3>4 DEF TakeBatch, topicVars
      <4>2. \A k : OnTheWay(k)' <=> OnTheWay(k)
        BY <1>1, <1>3, <1>4, <3>1, <4>1 DEF OnTheWay
      <4>3. \A e \in Events : Sent(e)' = Sent(e)
        BY <1>1, <1>3, <4>2 DEF Sent
      <4>4. Trouble' <=> Trouble
        BY <1>4, <4>1 DEF Trouble
      <4>5. CopiesCounted'
        BY <1>1, <1>3, <2>1, <4>1, <4>3, <4>4 DEF CopiesCounted, Events
      <4> QED
        BY <2>2, <3>3, <4>5
    <3>5. CASE SendBatchOk(s)
      <4>1. /\ spc[s] = "sending" /\ spc'[s] = "recv" /\ errors' = errors /\ held[s] \in Nat
            /\ copies' = [e \in Events |->
                   copies[e] + Cardinality({k \in Places(held[s]) : EventAt(k) = e})]
        BY <1>2, <3>5 DEF SendBatchOk, BackToRecv, Typed, InPhase
      <4>2. \A k : OnTheWay(k)' <=> OnTheWay(k) /\ k \notin Places(held[s])
        <5> SUFFICES ASSUME NEW k, OnTheWay(k), k \notin Places(held[s]) PROVE OnTheWay(k)'
          BY <3>2, <4>1
        <5> QED
          BY <1>1, <1>3, <1>4, <3>1, <4>1 DEF OnTheWay
      <4>3. \A k \in Places(held[s]) : OnTheWay(k) /\ k \in 0..(made - 1)
        <5> SUFFICES ASSUME NEW k \in Places(held[s]) PROVE OnTheWay(k) /\ k \in 0..(made - 1)
          OBVIOUS
        <5>1. OnTheWay(k)
          BY <4>1 DEF OnTheWay
        <5>2. k < made
          BY <2>3, <5>1
        <5>3. k \in Int /\ held[s] =< k
          BY <4>1 DEF Places
        <5> QED
          BY <1>2, <4>1, <5>1, <5>2, <5>3
      <4>4. ASSUME NEW e \in Events, copies[e] = Already + Cardinality(Sent(e))
            PROVE  copies'[e] = Already + Cardinality(Sent(e)')
        <5> DEFINE now == {k \in Places(held[s]) : EventAt(k) = e}
        <5>1. ASSUME NEW k PROVE k \in Sent(e)' <=> k \in Sent(e) \cup now
          <6>1. k \in Sent(e)' <=> k \in 0..(made - 1) /\ ~ OnTheWay(k)' /\ EventAt(k) = e
            BY <1>1, <1>3 DEF Sent
          <6>2. k \in Sent(e) <=> k \in 0..(made - 1) /\ ~ OnTheWay(k) /\ EventAt(k) = e
            BY DEF Sent
          <6> QED
            BY <4>2, <4>3, <6>1, <6>2
        <5>2. Sent(e)' = Sent(e) \cup now
          <6> HIDE DEF now
          <6> QED
            BY <5>1 DEF Sent
        <5>3. Sent(e) \cap now = {}
          BY <4>3 DEF Sent
        <5>4. IsFiniteSet(Sent(e)) /\ IsFiniteSet(now)
          <6>1. made - 1 \in Int
            BY <1>2
          <6>2. IsFiniteSet(0..(made - 1))
            BY <6>1, FS_Interval
          <6>3. Sent(e) \subseteq 0..(made - 1) /\ now \subseteq 0..(made - 1)
            BY <4>3 DEF Sent
          <6> QED
            BY <6>2, <6>3, FS_Subset
        <5> HIDE DEF now
        <5>5. /\ Cardinality(Sent(e)) \in Nat /\ Cardinality(now) \in Nat
              /\ Cardinality(Sent(e)') = Cardinality(Sent(e)) + Cardinality(now)
          <6>1. Cardinality(Sent(e)) \in Nat /\ Cardinality(now) \in Nat
            BY <5>4, FS_CardinalityType
          <6>2. Cardinality(Sent(e) \cup now)
                    = Cardinality(Sent(e)) + Cardinality(now) - Cardinality(Sent(e) \cap now)
            BY <5>4, FS_Union
          <6>3. Cardinality(Sent(e) \cap now) = 0
            BY <5>3, FS_EmptySet
          <6>4. Cardinality(Sent(e) \cup now) = Cardinality(Sent(e)) + Cardinality(now)
            BY <6>1, <6>2, <6>3
          <6> QED
            BY <5>2, <6>1, <6>4
        <5>6. Already \in Nat
          BY DEF Already
        <5>7. copies'[e] = copies[e] + Cardinality(now)
          BY <4>1 DEF now
        <5> QED
          BY <4>4, <5>5, <5>6, <5>7
      <4>5. Trouble' <=> Trouble
        BY <1>4, <4>1 DEF Trouble
      <4>6. CopiesCounted'
        BY <1>1, <1>3, <2>1, <4>4, <4>5 DEF CopiesCounted, Events
      <4> QED
        BY <2>2, <3>3, <4>6
    <3>6. CASE SendBatchFails(s) \/ Report(s)
      <4>1. Trouble'
        BY <1>2, <3>6 DEF SendBatchFails, Report, Trouble
      <4> QED
        BY <2>2, <3>3, <4>1 DEF CopiesCounted
    <3> QED
      BY <3>4, <3>5, <3>6 DEF Sender
  <2> QED
    BY <2>4, <2>5
<1> QED
  BY <1>6, <1>7


LEMMA FinishSentOnce ==
    ASSUME Typed, Answered, SentOnce, FinishUnique \/ FinishDuplicates
    PROVE  SentOnce'
<1>1. /\ UNCHANGED <<workers, copies>> /\ main \in SendingPhases /\ AllSent
      /\ main' \notin {"unique"}
  BY DEF FinishUnique, FinishDuplicates, topicVars, SendingPhases
<1>2. workers \subseteq Senders /\ copies \in [Events -> Nat] /\ errors \in Nat
  <2>1. WorkersCount \in Nat
    BY WorkersAreFew DEF Typed, TypeOK, SendingTypeOK
  <2> QED
    BY <2>1 DEF Typed, TypeOK, SendingTypeOK
<1>3. ASSUME workers # {}, main' # "error"
      PROVE  \A e \in Events :
                 copies[e] = Already + Cardinality({k \in 0..(Total - 1) : EventAt(k) = e})
  <2>1. /\ made = Total /\ \A k : ~ OnTheWay(k)
    BY <1>1, <1>3, AllDrained DEF Answered
  <2>2. ~ Trouble
    <3>1. ~ (errors > 0)
      BY <1>3 DEF FinishUnique, FinishDuplicates
    <3> QED
      BY <1>1, <3>1 DEF Trouble, AllSent
  <2>3. \A e \in Events : copies[e] = Already + Cardinality(Sent(e))
    BY <1>1, <1>3, <2>2 DEF SentOnce, CopiesCounted
  <2>4. ASSUME NEW e PROVE Sent(e) = {k \in 0..(Total - 1) : EventAt(k) = e}
    BY <2>1 DEF Sent
  <2> QED
    BY <2>3, <2>4
<1>4. CASE FinishUnique
  <2>1. /\ made' = 0 /\ hand' = NoBatch /\ eventsChan' = <<>> /\ spc' = FreshSpc(workers)
        /\ errors' = 0 /\ originals' = made /\ main = "unique"
        /\ main' \in {"duplicates", "error"}
    BY <1>4 DEF FinishUnique, BeginPhase
  <2>2. \A s \in Senders : spc'[s] \in {"recv", "done"}
    BY <2>1 DEF FreshSpc
  <2>3. \A k : ~ OnTheWay(k)'
    BY <2>1, <2>2 DEF OnTheWay
  <2>4. Len(eventsChan') = 0
    BY <2>1
  <2>5. OneHolder'
    BY <2>1, <2>2, <2>3, <2>4 DEF OneHolder
  <2>6. ASSUME main' = "duplicates", workers # {} PROVE originals' = TotalEvents
    BY <1>1, <2>1, <2>6, AllDrained DEF Answered, Total
  <2>7. ASSUME main' = "duplicates", workers # {}, NEW e \in Events
        PROVE  copies'[e] = Already' + Cardinality(Sent(e)')
    <3> DEFINE one == {k \in 0..(TotalEvents - 1) : k = e}
    <3>1. copies[e] = 0 + Cardinality(one)
      BY <1>3, <2>1, <2>7 DEF Already, Total, EventAt
    <3>2. one = {e}
      BY DEF Events
    <3> HIDE DEF one
    <3>3. Cardinality({e}) = 1 /\ Cardinality({}) = 0
      BY FS_Singleton, FS_EmptySet
    <3>4. Sent(e)' = {}
      BY <2>1 DEF Sent
    <3>5. Already' = 1
      BY <1>1 DEF Already
    <3>6. copies[e] = 1
      BY <3>1, <3>2, <3>3
    <3>7. Cardinality(Sent(e)') = 0
      BY <3>3, <3>4
    <3> QED
      BY <1>1, <3>5, <3>6, <3>7
  <2>8. main' \in SendingPhases => CopiesCounted'
    BY <1>1, <2>1, <2>7 DEF CopiesCounted, SendingPhases, Events
  <2>9. AllOriginals' /\ DuplicatesSent'
    BY <1>1, <2>1, <2>6 DEF AllOriginals, DuplicatesSent
  <2> QED
    BY <2>5, <2>8, <2>9 DEF SentOnce
<1>5. CASE FinishDuplicates
  <2>1. main = "duplicates" /\ main' \in {"error", "persistence"} /\ originals' = originals
    BY <1>5 DEF FinishDuplicates
  <2>2. ASSUME main' = "persistence", workers # {}
        PROVE  /\ SumFunctionOnSet(copies, Events) = TotalEvents + DuplicateEvents
               /\ \A e \in Events : copies[e] >= 1
    <3>1. originals = TotalEvents /\ TotalEvents # 0
      BY <2>1, <2>2 DEF SentOnce, AllOriginals, Typed, InPhase, OriginalsThere
    <3>2. copies = Share(DuplicateEvents)
      <4>1. ASSUME NEW e \in Events PROVE copies[e] = Share(DuplicateEvents)[e]
        <5>1. copies[e] = 1 + Cardinality({k \in 0..(DuplicateEvents - 1) : EventAt(k) = e})
          BY <1>3, <2>1, <2>2 DEF Already, Total
        <5>2. {k \in 0..(DuplicateEvents - 1) : EventAt(k) = e} = Turn(DuplicateEvents, e)
          BY <2>1, <3>1 DEF EventAt, Turn
        <5> QED
          BY <5>1, <5>2 DEF Share
      <4> QED
        BY <1>2, <4>1 DEF Share
    <3> QED
      BY <3>1, <3>2, SharesSum, SizesAssumption
  <2>3. DuplicatesSent'
    BY <1>1, <2>1, <2>2 DEF DuplicatesSent, Events
  <2>4. AllOriginals' /\ main' \notin SendingPhases
    BY <2>1 DEF AllOriginals, SendingPhases
  <2> QED
    BY <2>3, <2>4 DEF SentOnce
<1> QED
  BY <1>4, <1>5

\* Phase 2 sends what it is told to, whichever sender sends it and whatever
\* is left for the last batch.  The inductive invariant is SentOnce: every
\* place has at most one holder, and without trouble an event has been
\* acknowledged as often as it has places that nobody holds any more.
THEOREM DuplicatesSentHolds == Spec => []DuplicatesSent
<1>1. Init => SentOnce
  <2> SUFFICES ASSUME Init PROVE SentOnce
    OBVIOUS
  <2>1. /\ main = "unique" /\ made = 0 /\ hand = NoBatch /\ eventsChan = <<>>
        /\ spc = FreshSpc(workers) /\ copies = [e \in Events |-> 0]
    BY DEF Init, SendingInit
  <2>2. \A s \in Senders : spc[s] \in {"recv", "done"}
    BY <2>1 DEF FreshSpc
  <2>3. Len(eventsChan) = 0
    BY <2>1
  <2>4. \A k : ~ OnTheWay(k)
    BY <2>1, <2>2, <2>3 DEF OnTheWay
  <2>5. OneHolder
    BY <2>1, <2>2, <2>3, <2>4 DEF OneHolder
  <2>6. ASSUME NEW e \in Events PROVE copies[e] = Already + Cardinality(Sent(e))
    <3>1. Sent(e) = {}
      BY <2>1 DEF Sent
    <3>2. Cardinality(Sent(e)) = 0
      BY <3>1, FS_EmptySet
    <3> QED
      BY <2>1, <3>2 DEF Already
  <2> QED
    BY <2>1, <2>5, <2>6 DEF SentOnce, CopiesCounted, AllOriginals, DuplicatesSent
<1>2. TypeOK /\ InPhase /\ CheckingWaits /\ Answered /\ SentOnce /\ [Next]_vars => SentOnce'
  <2> SUFFICES ASSUME TypeOK, InPhase, CheckingWaits, Answered, SentOnce, [Next]_vars
               PROVE  SentOnce'
    OBVIOUS
  <2>1. Typed
    BY DEF Typed
  <2>2. CASE SendingStep
    BY <2>1, <2>2, MakerSendsOnce, SenderSendsOnce, FinishSentOnce DEF SendingStep
  <2>3. CASE VerifyingStep
    <3>1. UNCHANGED <<workers, copies>>
      BY <2>3 DEF VerifyingStep, Tick, VerifyChunk, VerifyFails, AfterVerify, VerifyTimeout,
         VerifyDuplicates, ReadDayAggregations, ReadMonthAggregations, ReadFails,
         chunkFrame, verdictFrame, sendingVars, topicVars
    <3>2. main \notin {"unique", "duplicates", "error"} /\ main' \notin SendingPhases
      BY <2>3 DEF SendingPhases, VerifyingStep, Tick, VerifyChunk, VerifyFails, AfterVerify,
         VerifyTimeout, VerifyDuplicates, ReadDayAggregations, ReadMonthAggregations, ReadFails,
         chunkFrame, sendingVars, CheckingWaits
    <3> QED
      BY <3>1, <3>2 DEF SentOnce, AllOriginals, DuplicatesSent, SendingPhases, Events
  <2>4. CASE UNCHANGED vars
    <3>1. UNCHANGED <<workers, main, made, hand, eventsChan, spc, held, errors, copies, originals>>
      BY <2>4 DEF vars, sendingVars, phaseVars, topicVars
    <3>2. /\ \A i : Places(i)' = Places(i)
          /\ \A k : EventAt(k)' = EventAt(k)
          /\ Trouble' <=> Trouble
          /\ Already' = Already
      BY <3>1 DEF Places, BatchEnd, Total, EventAt, Trouble, Already
    <3>3. \A k : OnTheWay(k)' <=> OnTheWay(k)
      BY <3>1, <3>2 DEF OnTheWay
    <3>4. OneHolder' <=> OneHolder
      BY <3>1, <3>2, <3>3 DEF OneHolder, Apart
    <3>5. \A e \in Events : Sent(e)' = Sent(e)
      BY <3>1, <3>2, <3>3 DEF Sent
    <3>6. CopiesCounted' <=> CopiesCounted
      BY <3>1, <3>2, <3>5 DEF CopiesCounted, Events
    <3> QED
      BY <3>1, <3>4, <3>6 DEF SentOnce, AllOriginals, DuplicatesSent, Events
  <2> QED
    BY <2>2, <2>3, <2>4 DEF Next
<1>3. SentOnce => DuplicatesSent
  BY DEF SentOnce
<1> QED
  BY <1>1, <1>2, <1>3, TypesInvariant, AnsweredInvariant, PTL DEF Spec

-----------------------------------------------------------------------------
(* The instant a service reads is not the one the generator drew.          *)

Hour == 3600 * Second

\* The text of an instant forgets less than a second, and never the hour.
LEMMA TextForgets ==
    ASSUME NEW t \in Int
    PROVE  /\ Instant(Text(t)) = 1000 * (t \div 1000) /\ Text(t) \in Int
           /\ Instant(Text(t)) \in Int
           /\ Instant(Text(t)) =< t /\ t < Instant(Text(t)) + Second
           /\ Instant(Text(t)) \div Hour = t \div Hour
<1>1. t # Absent /\ t \div 1000 \in Int
  BY EntityAssumption
<1>2. Text(t) = t \div 1000 /\ Text(t) # Absent
  BY <1>1, EntityAssumption DEF Text, Second
<1>3. Instant(Text(t)) = 1000 * (t \div 1000)
  BY <1>1, <1>2 DEF Instant, Second
<1>4. /\ 1000 * (t \div 1000) =< t /\ t < 1000 * (t \div 1000) + 1000
      /\ (1000 * (t \div 1000)) \div 3600000 = t \div 3600000
  BY SMT
<1> QED
  BY <1>1, <1>2, <1>3, <1>4 DEF Hour, Second

\* What the generator draws and sends, the services read: it parses, it is
\* valid, it keeps its id, type and sums, its rows (those of its hour) and
\* its place in the table, although its instants lose their milliseconds.
THEOREM GeneratedEventsArrive ==
    ASSUME NEW now \in Int, ZeroTime + Hour < now, NEW e, GenerateEvent(now, e),
           NEW r, r = ToEvent(eventToMessage(e))
    PROVE  /\ Parses(eventToMessage(e)) /\ Validate(r)
           /\ r.event_id = e.event_id /\ r.type = e.type
           /\ r.duration_sec = e.duration_sec
           /\ r.bytes_up = e.bytes_up /\ r.bytes_down = e.bytes_down
           /\ r.started_at \div Hour = e.started_at \div Hour
           /\ Stores(e) => Stores(r)
<1> DEFINE m == eventToMessage(e)
<1>1. e \in DrawnEvents
  BY DEF GenerateEvent
<1>2. /\ m.event_id = e.event_id /\ m.source_id = e.source_id /\ m.user_id = e.user_id
      /\ m.phone = e.phone /\ m.type = e.type /\ m.duration_sec = e.duration_sec
      /\ m.bytes_up = e.bytes_up /\ m.bytes_down = e.bytes_down
      /\ m.started_at = Text(e.started_at) /\ m.ended_at = Text(e.ended_at)
      /\ DOMAIN m = DOMAIN e
  BY <1>1 DEF DrawnEvents, eventToMessage
<1>3. /\ r.event_id = e.event_id /\ r.source_id = e.source_id /\ r.user_id = e.user_id
      /\ r.phone = e.phone /\ r.type = e.type /\ r.duration_sec = e.duration_sec
      /\ r.bytes_up = e.bytes_up /\ r.bytes_down = e.bytes_down
      /\ r.started_at = Instant(Text(e.started_at)) /\ r.ended_at = Instant(Text(e.ended_at))
  BY <1>1, <1>2 DEF DrawnEvents, ToEvent
<1>4. /\ {e.event_id, e.source_id, e.user_id} \subseteq Ids /\ e.phone \in Phones
      /\ e.type \in EventTypes /\ e.started_at \in Int /\ e.ended_at \in Int
  BY <1>1 DEF DrawnEvents
<1>5. now + Second =< e.started_at + Hour
  <2>1. \E ago \in SecondsAgo : e.started_at = now - ago * Second
    BY Zenon DEF GenerateEvent
  <2>2. PICK ago \in SecondsAgo : e.started_at = now - ago * Second
    BY <2>1
  <2> QED
    BY <1>4, <2>2, SMT DEF Second, Hour, SecondsAgo
<1>6. e.started_at =< e.ended_at
  <2>1. ASSUME NEW seconds \in Nat, Lasts(e, seconds) PROVE e.started_at =< e.ended_at
    BY <1>4, <2>1, SMT DEF Lasts, Second
  <2>2. CASE e.ended_at = e.started_at
    BY <1>4, <2>2
  <2>3. CallSeconds \subseteq Nat /\ SessionSeconds \subseteq Nat
    BY SMT DEF CallSeconds, SessionSeconds
  <2>4. \/ \E seconds \in CallSeconds : Lasts(e, seconds)
        \/ \E seconds \in SessionSeconds : Lasts(e, seconds)
        \/ e.ended_at = e.started_at
    BY Zenon DEF GenerateEvent
  <2> QED
    BY <2>1, <2>2, <2>3, <2>4
<1>7. Parses(m)
  <2>1. m.started_at \in Int /\ m.ended_at \in Int
    BY <1>2, <1>4, TextForgets
  <2>2. /\ e.duration_sec \in Nat \cup {Absent}
        /\ e.bytes_up \in Nat /\ e.bytes_down \in Nat
    BY <1>1 DEF DrawnEvents
  <2>3. Garbled \notin {m.phone, m.type, m.duration_sec, m.bytes_up, m.bytes_down}
    BY <1>2, <1>4, <2>2, EntityAssumption
  <2> QED
    BY <1>2, <1>4, <2>1, <2>3 DEF Parses
<1>8. /\ r.started_at \in Int /\ r.started_at =< e.started_at
      /\ e.started_at < r.started_at + Second
      /\ r.started_at \div Hour = e.started_at \div Hour
  BY <1>3, <1>4, TextForgets
<1>9. r.ended_at \in Int /\ r.ended_at >= r.started_at
  <2>1. e.started_at \div 1000 =< e.ended_at \div 1000
    BY <1>4, <1>6, SMT
  <2>2. /\ r.started_at = 1000 * (e.started_at \div 1000)
        /\ r.ended_at = 1000 * (e.ended_at \div 1000)
    BY <1>3, <1>4, TextForgets
  <2> QED
    BY <1>4, <2>1, <2>2, SMT
<1>10. Validate(r)
  <2>1. r.started_at # ZeroTime
    BY <1>4, <1>5, <1>8, EntityAssumption DEF Second, Hour
  <2>2. NilId \notin {r.event_id, r.source_id, r.user_id} /\ r.phone # NoPhone /\ r.type \in EventTypes
    BY <1>3, <1>4, EntityAssumption
  <2> QED
    BY <1>9, <2>1, <2>2 DEF Validate
<1>11. ASSUME Stores(e) PROVE Stores(r)
  <2>1. TableFrom =< r.started_at
    <3>1. r.started_at = 1000 * (e.started_at \div 1000)
      BY <1>3, <1>4, TextForgets
    <3>2. TableFrom \in Int /\ TableFrom % 1000 = 0 /\ TableFrom =< e.started_at
      BY <1>11, EntityAssumption DEF Stores, Second
    <3> QED
      BY <1>4, <3>1, <3>2, SMT
  <2>2. r.started_at < TableUpTo
    BY <1>4, <1>8, <1>11, EntityAssumption DEF Stores
  <2>3. r.duration_sec = e.duration_sec
    BY <1>3
  <2> QED
    BY <1>11, <2>1, <2>2, <2>3 DEF Stores
<1> QED
  BY <1>3, <1>7, <1>8, <1>10, <1>11
=============================================================================
