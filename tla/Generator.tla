----------------------------- MODULE Generator -----------------------------
(***************************************************************************)
(* cmd/generator/main.go: run, the five phases of the load generator one   *)
(* after the other, and what its verdict is worth.                         *)
(***************************************************************************)
EXTENDS Verifier

vars == <<sendingVars, verifierVars>>

Init == SendingInit /\ VerifierInit

SendingStep ==
    /\ \/ Generate
       \/ Offer
       \/ CloseChannel
       \/ \E s \in Senders : Sender(s)
       \/ FinishUnique
       \/ FinishDuplicates
    /\ UNCHANGED verifierVars

VerifyingStep ==
    \/ Tick
    \/ VerifyChunk
    \/ VerifyFails
    \/ AfterVerify
    \/ VerifyTimeout
    \/ VerifyDuplicates
    \/ ReadDayAggregations
    \/ ReadMonthAggregations
    \/ ReadFails

Next == SendingStep \/ VerifyingStep

Spec == Init /\ [][Next]_vars

\* Every goroutine that can go on does, SendBatch and the queries return,
\* with an answer or an error.  A select picks at random among what is
\* ready, and the timeout, once there, stays ready.
Fairness ==
    /\ WF_vars((Generate \/ Offer \/ CloseChannel) /\ UNCHANGED verifierVars)
    /\ WF_vars((FinishUnique \/ FinishDuplicates) /\ UNCHANGED verifierVars)
    /\ \A s \in Senders : WF_vars(Sender(s) /\ UNCHANGED verifierVars)
    /\ WF_vars(VerifyChunk \/ VerifyFails \/ AfterVerify)
    /\ SF_vars(VerifyTimeout)
    /\ WF_vars(VerifyDuplicates)
    /\ WF_vars(ReadDayAggregations \/ ReadMonthAggregations \/ ReadFails)

FairSpec == Spec /\ Fairness

-----------------------------------------------------------------------------
(* Properties. *)

TypeOK ==
    /\ SendingTypeOK /\ VerifierTypeOK
    /\ main \in {"unique", "duplicates", "persistence", "rejected",
                 "aggregations", "ok", "error"}

\* What printFinalReport calls a success.
Success == Cardinality(verified) = TotalEvents /\ eventsFailed = 0

\* A phase answers for every batch: main goes on only when each one was
\* acknowledged and is known to the verifier.  An error of any sender, at
\* any moment before main looks, is seen; and the verifier never waits for
\* an event that was not written.
AnswerIsRight ==
    /\ tracked \subseteq published
    /\ main \notin {"unique", "error"} /\ workers # {} =>
           tracked = Events /\ eventsFailed = 0

\* Once phase 2 is over the topic has been given every event itself and, on
\* top of these, DuplicateEvents copies, no more and no fewer, whichever
\* senders took the batches, in whatever order, and whatever the size of
\* the last one.
DuplicatesSent ==
    main \notin {"unique", "duplicates", "error"} /\ workers # {} =>
        /\ SumFunctionOnSet(copies, Events) = TotalEvents + DuplicateEvents
        /\ \A e \in Events : copies[e] >= 1

\* An event that is not in its row is made up for, in that same row, by
\* another one of this run counted twice or by one of somebody else.
MissedIsMasked(rowOf, read) ==
    \A e \in Events : read[e] = 0 =>
        \E x \in CellMates(rowOf, e) : read[x] > 1 \/ (x \in Others /\ read[x] > 0)

\* The verdict ok: every event configured was sent, written and found in
\* the database; the report that follows says success; and each event is in
\* its two rows, unless its row has a count too many of another event of
\* the run, or one of an event that is not of this run.
VerdictSound ==
    /\ verified \subseteq tracked \cap eventsRaw /\ verified \cap missing = {}
    /\ main = "ok" =>
           /\ verified = Events /\ Success
           /\ MissedIsMasked(DayRowOf, dayRead)
           /\ MissedIsMasked(MonthRowOf, monthRead)

\* A row of this run's events also counts what is not of this run.
Shared(rowOf, read) == \E e \in Events : \E x \in CellMates(rowOf, e) \cap Others : read[x] > 0

\* The verdict error has a cause outside of the generator: a send that
\* failed, an event not found in the database, a query refused, an event of
\* the run not counted once in its day and once in its month, a row that it
\* shares with earlier runs or other producers; or a configuration with no
\* event or no worker.
ErrorHasCause ==
    main = "error" =>
        \/ failures > 0 \/ workers = {} \/ TotalEvents = 0
        \/ verified # Events
        \/ refused
        \/ /\ monthRead # Unread
           /\ \/ \E e \in Events : dayRead[e] # 1 \/ monthRead[e] # 1
              \/ Shared(DayRowOf, dayRead) \/ Shared(MonthRowOf, monthRead)

\* The verdict comes, even from a database that refuses every query or
\* never holds the events, as long as no more batches fail than errorsChan
\* holds.
VerdictComes == <>(main \in {"ok", "error"} \/ failures > WorkersCount)

-----------------------------------------------------------------------------
(* What the repository says and the code does not do.                      *)

\* "Everywhere we mind the contexts, so that no goroutine hangs"
\* (PROMPTS.md:133): the sending ends, whatever Kafka answers.
SendingEnds == <>(main \notin SendingPhases)
=============================================================================
