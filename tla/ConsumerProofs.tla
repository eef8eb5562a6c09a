--------------------------- MODULE ConsumerProofs ---------------------------
(***************************************************************************)
(* What the consumer goroutine and the reader keep true of the channel and *)
(* of the offsets, whichever service runs them, for every topic, channel   *)
(* capacity and commit interval.  The two services rest on these lemmas.   *)
(***************************************************************************)
EXTENDS Consumer, TLAPS, SequenceTheorems

USE TopicAssumption, ParseAssumption, ChanCapAssumption

ConsumerOK == ConsumerTypeOK /\ ChannelTypeOK

-----------------------------------------------------------------------------
(* Types. *)

\* The consumer's steps keep the types of its state and of the channel.
LEMMA ConsumerKeepsTypes ==
    ASSUME ConsumerOK, ConsumeEvents, UNCHANGED ctx
    PROVE  ConsumerOK'
<1> USE DEF ConsumerOK, ConsumerTypeOK, ChannelTypeOK
<1>1. ASSUME NEW p \in Partitions, FetchMessage(p)
      PROVE  ConsumerOK'
  <2>1. position[p] + 1 \in 1..Len(Topic[p])
    BY <1>1 DEF FetchMessage
  <2>2. msg' \in Messages /\ msg' # NoMessage
    BY <1>1, <2>1 DEF FetchMessage, Messages, NoMessage
  <2> QED BY <1>1, <2>2 DEF FetchMessage, AfterParse
<1>2. ASSUME NEW s \in [Partitions -> Nat \cup {NoOffset}], LoopHead(s)
      PROVE  /\ committed' \in [Partitions -> Nat \cup {NoOffset}]
             /\ kpc' \in {"fetch", "closed"}
             /\ msg' = NoMessage
             /\ closed' \in BOOLEAN
  BY <1>2 DEF LoopHead, BackToLoop, CloseReader
<1>3. CASE FetchCancelled
  BY <1>3, <1>2 DEF FetchCancelled
<1>4. CASE Send
  <2>1. msg \in Messages
    BY <1>4 DEF Send
  <2>2. eventsChan' \in Seq(Messages) /\ Len(eventsChan') =< ChanCap
    BY <1>4, <2>1 DEF Send, Offer, HasRoom
  <2> QED BY <1>4, <2>2 DEF Send
<1>5. CASE SendCancelled
  BY <1>5 DEF SendCancelled
<1>6. CASE Commit
  <2>1. msg \in Messages /\ msg[1] \in Partitions /\ msg[2] \in Nat
    BY <1>6 DEF Commit, Messages
  <2>2. stash' \in [Partitions -> Nat \cup {NoOffset}]
    BY <1>6, <2>1 DEF Commit, Acknowledge
  <2> QED BY <1>6, <1>2, <2>2 DEF Commit
<1>7. CASE CommitCancelled
  BY <1>7, <1>2 DEF CommitCancelled
<1>8. CASE CommitNow
  <2>1. msg \in Messages /\ msg[1] \in Partitions /\ msg[2] \in Nat
    BY <1>8 DEF CommitNow, Messages
  <2>2. Acknowledge(msg) \in [Partitions -> Nat \cup {NoOffset}]
    BY <2>1 DEF Acknowledge
  <2>3. kpc' \in {"fetch", "closed"} /\ msg' = NoMessage /\ closed' \in BOOLEAN
    BY <1>8 DEF CommitNow, BackToLoop
  <2> QED BY <1>8, <2>2, <2>3 DEF CommitNow
<1> QED BY <1>1, <1>3, <1>4, <1>5, <1>6, <1>7, <1>8 DEF ConsumeEvents

-----------------------------------------------------------------------------
(* The offsets and the message in hand.                                    *)

OffsetsOrdered ==
    \A p \in Partitions : committed[p] =< stash[p] /\ stash[p] =< position[p]

\* The message in hand is the last one fetched of its partition, and the
\* offsets given to the reader are all below it.
MessageInHand ==
    msg # NoMessage => msg[2] = position[msg[1]] /\ stash[msg[1]] < msg[2]

\* Offsets compare as integers, NoOffset included.
LEMMA OffsetsAreInts ==
    ASSUME ConsumerOK, NEW p \in Partitions
    PROVE  committed[p] \in Int /\ stash[p] \in Int /\ position[p] \in Nat
<1>1. NoOffset \in Int
  BY DEF NoOffset
<1> QED BY <1>1 DEF ConsumerOK, ConsumerTypeOK

\* The consumer's own steps keep both: it gives the reader an offset only
\* from the commit step, where the message in hand has left for the channel.
LEMMA ConsumerKeepsOrder ==
    ASSUME ConsumerOK, OffsetsOrdered, MessageInHand, ConsumeEvents
    PROVE  OffsetsOrdered' /\ MessageInHand'
<1>0. \A p \in Partitions :
         committed[p] \in Int /\ stash[p] \in Int /\ position[p] \in Nat
  BY OffsetsAreInts
<1> USE <1>0 DEF ConsumerOK, ConsumerTypeOK, OffsetsOrdered, MessageInHand
<1>1. ASSUME NEW p \in Partitions, FetchMessage(p)
      PROVE  OffsetsOrdered' /\ MessageInHand'
  <2>1. /\ position' = [position EXCEPT ![p] = @ + 1]
        /\ msg' = <<p, position[p] + 1>>
        /\ UNCHANGED <<committed, stash>>
    BY <1>1 DEF FetchMessage
  <2>2. OffsetsOrdered'
    BY <2>1
  <2>3. stash[p] < position[p] + 1
    OBVIOUS
  <2> QED BY <2>1, <2>2, <2>3
<1>2. ASSUME NEW s, LoopHead(s), s = stash', stash' \in [Partitions -> Int],
             UNCHANGED position,
             \A p \in Partitions : stash[p] =< stash'[p] /\ stash'[p] =< position[p]
      PROVE  OffsetsOrdered' /\ MessageInHand'
  <2>1. committed' = stash' \/ committed' = committed
    BY <1>2 DEF LoopHead, CloseReader
  <2>2. msg' = NoMessage
    BY <1>2 DEF LoopHead, BackToLoop
  <2>3. OffsetsOrdered'
    BY <1>2, <2>1
  <2> QED BY <2>2, <2>3
<1>3. CASE FetchCancelled
  <2>1. LoopHead(stash') /\ stash' \in [Partitions -> Int] /\ UNCHANGED <<stash, position>>
    BY <1>3 DEF FetchCancelled
  <2> QED BY <1>2, <2>1
<1>4. CASE Send
  BY <1>4 DEF Send
<1>5. CASE SendCancelled
  BY <1>5 DEF SendCancelled
<1>6. ASSUME kpc = "commit"
      PROVE  LET acked == Acknowledge(msg) IN
             /\ acked \in [Partitions -> Int]
             /\ \A p \in Partitions : stash[p] =< acked[p] /\ acked[p] =< position[p]
  <2>1. msg \in Messages /\ msg[1] \in Partitions /\ msg[2] \in Nat
    BY <1>6 DEF Messages
  <2>2. stash[msg[1]] < msg[2] /\ msg[2] = position[msg[1]]
    BY <1>6
  <2> QED BY <2>1, <2>2 DEF Acknowledge
<1>7. CASE Commit
  BY <1>2, <1>6, <1>7 DEF Commit
<1>8. CASE CommitCancelled
  <2>1. LoopHead(stash) /\ UNCHANGED <<stash, position>>
    BY <1>8 DEF CommitCancelled
  <2>2. LoopHead(stash') /\ stash' \in [Partitions -> Int]
    BY <2>1
  <2> QED BY <1>2, <2>1, <2>2
<1>9. CASE CommitNow
  <2>1. /\ committed' = committed \/ committed' = Acknowledge(msg)
        /\ stash' = committed' /\ UNCHANGED position
    BY <1>9 DEF CommitNow
  <2>2. msg' = NoMessage
    BY <1>9 DEF CommitNow, BackToLoop
  <2>3. \A p \in Partitions : /\ stash[p] =< Acknowledge(msg)[p]
                              /\ Acknowledge(msg)[p] =< position[p]
    BY <1>6, <1>9 DEF CommitNow
  <2>4. ASSUME committed' = committed PROVE OffsetsOrdered'
    <3>1. \A p \in Partitions : committed[p] =< position[p]
      OBVIOUS
    <3> QED BY <2>1, <2>4, <3>1
  <2>5. ASSUME committed' = Acknowledge(msg) PROVE OffsetsOrdered'
    <3>1. \A p \in Partitions : Acknowledge(msg)[p] \in Int
      BY <1>6, <1>9 DEF CommitNow
    <3> QED BY <2>1, <2>3, <2>5, <3>1
  <2>6. OffsetsOrdered'
    BY <2>1, <2>4, <2>5
  <2> QED BY <2>2, <2>6
<1> QED BY <1>1, <1>3, <1>4, <1>5, <1>7, <1>8, <1>9 DEF ConsumeEvents

-----------------------------------------------------------------------------
(* Where the reader stands. *)

\* A running reader is between where it began and the end of the log, and
\* no offset it gives to the group is before where it began.
ReaderFits(running) ==
    \A p \in Partitions :
        /\ resume[p] =< position[p] /\ position[p] =< end[p]
        /\ running /\ committed[p] # NoOffset => resume[p] =< committed[p]
        /\ running /\ stash[p] # NoOffset => resume[p] =< stash[p]

LEMMA ReaderNumbers ==
    ASSUME ConsumerOK, NEW p \in Partitions
    PROVE  /\ committed[p] \in Int /\ stash[p] \in Int
           /\ position[p] \in Nat /\ resume[p] \in Nat /\ end[p] \in Nat
           /\ committed[p] # NoOffset => committed[p] \in Nat
BY OffsetsAreInts DEF ConsumerOK, ConsumerTypeOK

\* What CommitMessages makes of the stash: nothing of it goes back, and
\* nothing of it is ahead of the reader or behind its start.
LEMMA AcknowledgeFits ==
    ASSUME ConsumerOK, OffsetsOrdered, MessageInHand, ReaderFits(TRUE), kpc = "commit",
           NEW p \in Partitions
    PROVE  /\ Acknowledge(msg)[p] \in Int
           /\ committed[p] =< Acknowledge(msg)[p] /\ stash[p] =< Acknowledge(msg)[p]
           /\ Acknowledge(msg)[p] # NoOffset => resume[p] =< Acknowledge(msg)[p]
<1>1. msg # NoMessage /\ msg \in Messages
  BY DEF ConsumerOK, ConsumerTypeOK
<1>2. /\ msg[1] \in Partitions /\ msg[2] \in Nat /\ msg[2] = position[msg[1]]
      /\ stash[msg[1]] < msg[2]
  BY <1>1 DEF MessageInHand, Messages
<1>3. /\ committed[p] \in Int /\ stash[p] \in Int /\ resume[p] \in Nat /\ position[p] \in Nat
      /\ committed[p] =< stash[p] /\ resume[p] =< position[p]
      /\ stash[p] # NoOffset => resume[p] =< stash[p]
  BY ReaderNumbers DEF OffsetsOrdered, ReaderFits
<1>4. Acknowledge(msg)[p] = IF p = msg[1] THEN msg[2] ELSE stash[p]
  BY <1>2 DEF Acknowledge, ConsumerOK, ConsumerTypeOK
<1>5. CASE p = msg[1]
  BY <1>2, <1>3, <1>4, <1>5
<1>6. CASE p # msg[1]
  BY <1>3, <1>4, <1>6
<1> QED
  BY <1>5, <1>6

\* How a running reader's offsets move: forward, and not behind its start.
OffsetsAdvance ==
    \A p \in Partitions :
        /\ committed'[p] \in {committed[p], stash[p], Acknowledge(msg)[p]}
        /\ stash'[p] \in {committed'[p], stash[p], Acknowledge(msg)[p]}
        /\ kpc # "commit" => /\ committed'[p] \in {committed[p], stash[p]}
                             /\ stash'[p] \in {committed'[p], stash[p]}

LEMMA ConsumerAdvances ==
    ASSUME ConsumerOK, ConsumeEvents
    PROVE  OffsetsAdvance /\ UNCHANGED <<resume, end>>
<1>1. ASSUME NEW s, LoopHead(s)
      PROVE  committed' = s \/ committed' = committed
  BY <1>1 DEF LoopHead, CloseReader
<1>2. CASE (\E p \in Partitions : FetchMessage(p)) \/ Send \/ SendCancelled
  BY <1>2 DEF FetchMessage, Send, SendCancelled, OffsetsAdvance
<1>3. CASE FetchCancelled \/ CommitCancelled
  <2>1. committed' = stash \/ committed' = committed
    BY <1>1, <1>3 DEF FetchCancelled, CommitCancelled
  <2> QED
    BY <1>3, <2>1 DEF FetchCancelled, CommitCancelled, OffsetsAdvance
<1>4. CASE Commit
  <2>1. committed' = stash' \/ committed' = committed
    BY <1>1, <1>4 DEF Commit
  <2> QED
    BY <1>4, <2>1 DEF Commit, OffsetsAdvance
<1>5. CASE CommitNow
  BY <1>5 DEF CommitNow, OffsetsAdvance
<1> QED
  BY <1>2, <1>3, <1>4, <1>5 DEF ConsumeEvents

LEMMA ConsumerKeepsReader ==
    ASSUME ConsumerOK, OffsetsOrdered, MessageInHand, ReaderFits(TRUE), ConsumeEvents
    PROVE  ReaderFits(TRUE)'
<1>1. OffsetsAdvance /\ UNCHANGED <<resume, end>>
  BY ConsumerAdvances
<1> SUFFICES ASSUME NEW p \in Partitions
             PROVE  /\ resume[p] =< position'[p] /\ position'[p] =< end[p]
                    /\ committed'[p] # NoOffset => resume[p] =< committed'[p]
                    /\ stash'[p] # NoOffset => resume[p] =< stash'[p]
  BY <1>1 DEF ReaderFits
<1>2. /\ resume[p] \in Nat /\ position[p] \in Nat /\ end[p] \in Nat
      /\ resume[p] =< position[p] /\ position[p] =< end[p]
  BY ReaderNumbers DEF ReaderFits
<1>3. position'[p] = position[p] \/ (position'[p] = position[p] + 1 /\ position[p] < end[p])
  <2>1. ASSUME NEW q \in Partitions, FetchMessage(q)
        PROVE  position'[p] = position[p] \/ (position'[p] = position[p] + 1 /\ position[p] < end[p])
    BY <2>1 DEF FetchMessage, ConsumerOK, ConsumerTypeOK
  <2>2. CASE FetchCancelled \/ Send \/ SendCancelled \/ Commit \/ CommitCancelled \/ CommitNow
    BY <2>2 DEF FetchCancelled, Send, SendCancelled, Commit, CommitCancelled, CommitNow
  <2> QED
    BY <2>1, <2>2 DEF ConsumeEvents
<1>4. /\ committed[p] # NoOffset => resume[p] =< committed[p]
      /\ stash[p] # NoOffset => resume[p] =< stash[p]
  BY DEF ReaderFits
<1>5. /\ committed'[p] # NoOffset => resume[p] =< committed'[p]
      /\ stash'[p] # NoOffset => resume[p] =< stash'[p]
  <2>1. CASE kpc = "commit"
    BY <1>1, <1>4, <2>1, AcknowledgeFits DEF OffsetsAdvance
  <2>2. CASE kpc # "commit"
    BY <1>1, <1>4, <2>2 DEF OffsetsAdvance
  <2> QED
    BY <2>1, <2>2
<1> QED
  BY <1>2, <1>3, <1>5


\* A step of the consumer leaves the reader where it may be.
ReaderOK(running) == ConsumerOK /\ OffsetsOrdered /\ MessageInHand /\ ReaderFits(running)

LEMMA ConsumerKeepsOK ==
    ASSUME ReaderOK(TRUE), ConsumeEvents, UNCHANGED ctx
    PROVE  ReaderOK(TRUE)'
BY ConsumerKeepsTypes, ConsumerKeepsOrder, ConsumerKeepsReader DEF ReaderOK

LEMMA ConsumerBegins ==
    ASSUME ConsumerInit
    PROVE  ConsumerTypeOK /\ OffsetsOrdered /\ MessageInHand /\ ReaderFits(FALSE)
<1>1. ConsumerTypeOK
  BY DEF ConsumerInit, ConsumerTypeOK
<1> QED
  BY <1>1 DEF ConsumerInit, OffsetsOrdered, MessageInHand, ReaderFits, NoOffset

\* So does a start, which takes the reader to the committed offsets or to
\* the end of the log.
LEMMA StartKeepsReader ==
    ASSUME ReaderOK(FALSE), OpenReader
    PROVE  ConsumerTypeOK' /\ OffsetsOrdered' /\ MessageInHand' /\ ReaderFits(TRUE)'
<1>1. /\ position' = [p \in Partitions |-> StartOffset(p)] /\ resume' = position'
      /\ stash' = committed /\ UNCHANGED <<end, committed>>
      /\ kpc' = "fetch" /\ msg' = NoMessage
  BY DEF OpenReader
<1>2. ASSUME NEW p \in Partitions
      PROVE  /\ committed[p] \in Int /\ StartOffset(p) \in Nat
             /\ committed[p] =< StartOffset(p) /\ StartOffset(p) =< end[p]
             /\ committed[p] # NoOffset => StartOffset(p) =< committed[p]
  <2>1. /\ committed[p] \in Int /\ stash[p] \in Int /\ position[p] \in Nat /\ end[p] \in Nat
        /\ committed[p] # NoOffset => committed[p] \in Nat
        /\ committed[p] =< stash[p] /\ stash[p] =< position[p] /\ position[p] =< end[p]
    BY ReaderNumbers DEF ReaderOK, OffsetsOrdered, ReaderFits
  <2> QED
    BY <2>1 DEF StartOffset, NoOffset
<1>3. ConsumerTypeOK'
  BY <1>1, <1>2 DEF ReaderOK, ConsumerOK, ConsumerTypeOK
<1>4. OffsetsOrdered' /\ MessageInHand'
  BY <1>1, <1>2 DEF OffsetsOrdered, MessageInHand
<1>5. ReaderFits(TRUE)'
  <2>1. ASSUME NEW p \in Partitions
        PROVE  /\ resume'[p] = StartOffset(p) /\ position'[p] = StartOffset(p)
               /\ StartOffset(p) =< end'[p]
               /\ committed'[p] = committed[p] /\ stash'[p] = committed[p]
    BY <1>1, <1>2
  <2>2. ASSUME NEW p \in Partitions PROVE StartOffset(p) =< StartOffset(p)
    BY <1>2
  <2> QED
    BY <1>2, <2>1, <2>2 DEF ReaderFits
<1> QED
  BY <1>3, <1>4, <1>5

\* A process that ends commits what is stashed, or does not.
LEMMA EndKeepsReader ==
    ASSUME ReaderOK(TRUE), committed' \in {committed, stash}, stash' \in {committed', stash},
           kpc' = "closed", msg' = NoMessage, UNCHANGED <<end, position, resume>>
    PROVE  ConsumerTypeOK' /\ OffsetsOrdered' /\ MessageInHand' /\ ReaderFits(FALSE)'
<1>1. ConsumerTypeOK'
  BY DEF ReaderOK, ConsumerOK, ConsumerTypeOK
<1>2. ASSUME NEW p \in Partitions PROVE committed'[p] =< stash'[p] /\ stash'[p] =< position[p]
  <2>1. /\ committed[p] \in Int /\ stash[p] \in Int /\ position[p] \in Nat
        /\ committed[p] =< stash[p] /\ stash[p] =< position[p]
    BY ReaderNumbers DEF ReaderOK, OffsetsOrdered
  <2>2. committed'[p] \in {committed[p], stash[p]} /\ stash'[p] \in {committed'[p], stash[p]}
    OBVIOUS
  <2> QED
    BY <2>1, <2>2
<1> QED
  BY <1>1, <1>2 DEF ReaderOK, OffsetsOrdered, MessageInHand, ReaderFits

LEMMA PublishKeepsReader ==
    ASSUME NEW running \in BOOLEAN, ReaderOK(running), NEW q \in Partitions, Publish(q),
           UNCHANGED <<committed, stash, position, resume, kpc, msg>>
    PROVE  /\ ConsumerTypeOK' /\ OffsetsOrdered' /\ MessageInHand' /\ ReaderFits(running)'
           /\ \A p \in Partitions : end[p] =< end'[p] /\ end'[p] \in Nat
<1>1. /\ end' = [end EXCEPT ![q] = @ + 1] /\ end[q] < Len(Topic[q])
      /\ end \in [Partitions -> Nat]
  BY DEF Publish, ReaderOK, ConsumerOK, ConsumerTypeOK
<1>2. ConsumerTypeOK'
  BY <1>1 DEF ReaderOK, ConsumerOK, ConsumerTypeOK
<1>3. \A p \in Partitions : end[p] =< end'[p] /\ end'[p] \in Nat
  BY <1>1
<1>4. \A p \in Partitions : position[p] =< end'[p]
  BY <1>1, <1>3, ReaderNumbers DEF ReaderOK, ReaderFits
<1> QED
  BY <1>2, <1>3, <1>4 DEF ReaderOK, OffsetsOrdered, MessageInHand, ReaderFits

-----------------------------------------------------------------------------
(* What the broker has passed stays passed. *)

LEMMA MessageParts ==
    ASSUME NEW m \in Messages
    PROVE  m[1] \in Partitions /\ m[2] \in Nat /\ m[2] # 0 /\ m = <<m[1], m[2]>>
BY DEF Messages

LEMMA ConsumerPasses ==
    ASSUME ReaderOK(TRUE), ConsumeEvents, NEW m \in Messages, Passed(m, TRUE)
    PROVE  Passed(m, TRUE)'
<1> DEFINE p == m[1]
<1>1. p \in Partitions /\ m[2] \in Nat
  BY MessageParts
<1>2. m[2] =< committed[p] \/ m[2] =< resume[p]
  BY DEF Passed
<1> SUFFICES m[2] =< committed'[p] \/ m[2] =< resume'[p]
  BY DEF Passed
<1> HIDE DEF p
<1>3. /\ UNCHANGED resume
      /\ committed'[p] \in {committed[p], stash[p], Acknowledge(msg)[p]}
      /\ kpc # "commit" => committed'[p] \in {committed[p], stash[p]}
  BY <1>1, ConsumerAdvances DEF ReaderOK, OffsetsAdvance
<1>4. kpc = "commit" => /\ committed[p] =< Acknowledge(msg)[p]
                        /\ Acknowledge(msg)[p] \in Int
  BY <1>1, AcknowledgeFits DEF ReaderOK
<1>5. committed[p] \in Int /\ stash[p] \in Int /\ resume[p] \in Nat /\ committed[p] =< stash[p]
  BY <1>1, ReaderNumbers DEF ReaderOK, OffsetsOrdered
<1>6. committed'[p] \in Int /\ committed[p] =< committed'[p]
  BY <1>3, <1>4, <1>5
<1> QED
  BY <1>1, <1>2, <1>3, <1>5, <1>6

\* What the group has not committed is where a new reader begins.
LEMMA StartPasses ==
    ASSUME ReaderOK(FALSE), OpenReader, NEW m \in Messages
    PROVE  Passed(m, TRUE)' <=> Passed(m, FALSE)
<1>1. /\ UNCHANGED committed
      /\ resume'[m[1]] = IF committed[m[1]] = NoOffset THEN end[m[1]] ELSE committed[m[1]]
  BY MessageParts DEF OpenReader, StartOffset
<1> QED
  BY <1>1 DEF Passed

LEMMA EndPasses ==
    ASSUME ReaderOK(TRUE), committed' \in {committed, stash}, UNCHANGED end,
           NEW m \in Messages, Passed(m, TRUE)
    PROVE  Passed(m, FALSE)'
<1> DEFINE p == m[1]
<1>1. p \in Partitions /\ m[2] \in Nat
  BY MessageParts
<1>2. m[2] =< committed[p] \/ m[2] =< resume[p]
  BY DEF Passed
<1> SUFFICES m[2] =< committed'[p] \/ (committed'[p] = NoOffset /\ m[2] =< end[p])
  BY DEF Passed
<1>3. committed'[p] \in {committed[p], stash[p]}
  OBVIOUS
<1> HIDE DEF p
<1>4. /\ committed[p] \in Int /\ stash[p] \in Int /\ resume[p] \in Nat /\ committed[p] =< stash[p]
      /\ position[p] \in Nat /\ end[p] \in Nat
      /\ resume[p] =< position[p] /\ position[p] =< end[p]
      /\ committed[p] # NoOffset => resume[p] =< committed[p]
      /\ stash[p] # NoOffset => resume[p] =< stash[p]
  BY <1>1, ReaderNumbers DEF ReaderOK, OffsetsOrdered, ReaderFits
<1> QED
  BY <1>1, <1>2, <1>3, <1>4

LEMMA PublishPasses ==
    ASSUME NEW running \in BOOLEAN, ReaderOK(running), NEW q \in Partitions, Publish(q),
           UNCHANGED <<committed, stash, position, resume, kpc, msg>>,
           NEW m \in Messages, Passed(m, running)
    PROVE  Passed(m, running)'
<1>1. m[1] \in Partitions /\ m[2] \in Nat
  BY MessageParts
<1>2. end[m[1]] \in Nat /\ end'[m[1]] \in Nat /\ end[m[1]] =< end'[m[1]]
  BY <1>1, PublishKeepsReader, ReaderNumbers DEF ReaderOK
<1> QED
  BY <1>1, <1>2 DEF Passed

\* A message that a running reader passes by its commits was fetched by it.
LEMMA PassedIsFetched ==
    ASSUME ReaderOK(TRUE), NEW m \in Messages, Passed(m, TRUE), ~ (m[2] =< resume[m[1]])
    PROVE  m \in Fetched(m[1])
<1>1. m[1] \in Partitions /\ m[2] \in Nat /\ m = <<m[1], m[2]>> /\ m[2] =< committed[m[1]]
  BY MessageParts DEF Passed
<1>2. /\ committed[m[1]] \in Int /\ stash[m[1]] \in Int /\ position[m[1]] \in Nat /\ resume[m[1]] \in Nat
      /\ committed[m[1]] =< stash[m[1]] /\ stash[m[1]] =< position[m[1]]
  BY <1>1, ReaderNumbers DEF ReaderOK, OffsetsOrdered
<1>3. m[2] \in (resume[m[1]] + 1)..position[m[1]]
  BY <1>1, <1>2
<1> QED
  BY <1>1, <1>3 DEF Fetched

PassedWasFetched ==
    \A m \in Messages :
        ReaderOK(TRUE) /\ Passed(m, TRUE) /\ ~ (m[2] =< resume[m[1]]) => m \in Fetched(m[1])

LEMMA PassedIsFetchedNext == PassedWasFetched'
<1>1. PassedWasFetched
  BY PassedIsFetched DEF PassedWasFetched
<1> QED
  BY <1>1, PTL

\* The message a fetch returns is new: not fetched before, and not passed.
LEMMA FetchedIsFresh ==
    ASSUME ReaderOK(TRUE), NEW p \in Partitions, FetchMessage(p)
    PROVE  LET m == <<p, position[p] + 1>> IN
           /\ m \in Messages /\ m \notin Fetched(p) /\ ~ Passed(m, TRUE)
           /\ Fetched(p)' = Fetched(p) \cup {m}
           /\ \A q \in Partitions : q # p => Fetched(q)' = Fetched(q)
<1>1. /\ position' = [position EXCEPT ![p] = @ + 1] /\ UNCHANGED <<resume, committed>>
      /\ position[p] < end[p] /\ end[p] =< Len(Topic[p]) /\ Topic[p] \in Seq(Events)
      /\ position \in [Partitions -> Nat]
  BY DEF FetchMessage, ReaderOK, ConsumerOK, ConsumerTypeOK
<1>2. /\ committed[p] \in Int /\ stash[p] \in Int /\ position[p] \in Nat /\ resume[p] \in Nat /\ end[p] \in Nat
      /\ committed[p] =< stash[p] /\ stash[p] =< position[p] /\ resume[p] =< position[p]
  BY ReaderNumbers DEF ReaderOK, OffsetsOrdered, ReaderFits
<1>3. position[p] + 1 \in 1..Len(Topic[p])
  BY <1>1, <1>2
<1>4. <<p, position[p] + 1>> \in Messages
  BY <1>2, <1>3 DEF Messages
<1>5. <<p, position[p] + 1>> \notin Fetched(p) /\ ~ Passed(<<p, position[p] + 1>>, TRUE)
  BY <1>2 DEF Fetched, Passed
<1>6. Fetched(p)' = Fetched(p) \cup {<<p, position[p] + 1>>}
  <2>1. position'[p] = position[p] + 1 /\ resume' = resume
    BY <1>1
  <2>2. (resume[p] + 1)..(position[p] + 1) = ((resume[p] + 1)..position[p]) \cup {position[p] + 1}
    BY <1>2
  <2> QED
    BY <2>1, <2>2 DEF Fetched
<1>7. \A q \in Partitions : q # p => Fetched(q)' = Fetched(q)
  BY <1>1 DEF Fetched
<1> QED
  BY <1>4, <1>5, <1>6, <1>7

-----------------------------------------------------------------------------
\* Every message of the topic is one.
LEMMA AllMessagesAre == AllMessages = Messages
<1>1. ASSUME NEW p \in Partitions PROVE Topic[p] \in Seq(Events) /\ DOMAIN Topic[p] = 1..Len(Topic[p])
  OBVIOUS
<1>2. ASSUME NEW m \in AllMessages PROVE m \in Messages
  <2>1. PICK p \in Partitions : m \in {p} \X DOMAIN Topic[p]
    BY <1>2 DEF AllMessages
  <2> QED
    BY <1>1, <2>1 DEF Messages
<1>3. ASSUME NEW m \in Messages PROVE m \in AllMessages
  <2>1. m[1] \in Partitions /\ m \in {m[1]} \X DOMAIN Topic[m[1]]
    BY <1>1 DEF Messages
  <2> QED
    BY <2>1 DEF AllMessages
<1> QED
  BY <1>2, <1>3
=============================================================================
