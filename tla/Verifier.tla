------------------------------ MODULE Verifier ------------------------------
(***************************************************************************)
(* cmd/generator/verifier.go and the waiting loop of main.go: phase 3 asks *)
(* the database for the events sent until it has seen all of them, phase 4 *)
(* compares their number with the one configured, phase 5 compares the     *)
(* aggregates with those of the events.  Only main's goroutine runs now;   *)
(* the ingestor and the aggregator work at their own pace.  Nobody but     *)
(* main looks at their tables here, so what they have written since the    *)
(* last look is chosen when main looks again.                              *)
(*                                                                         *)
(* The tables outlive the run and have other writers: a row of agg_day or  *)
(* agg_month also counts the events of earlier runs and other producers    *)
(* that fall in its day or month and have its type.                        *)
(***************************************************************************)
EXTENDS SendingPhase, Calendar, Functions

CONSTANTS
    ChunkSize,            \* ids in one query (1000)
    MaxVerifyIterations,
    Others,               \* events of earlier runs and other producers
    TypeOf, StartedAt, ZoneOf, \* of each event, this run's and the others
    LocalZone,            \* the zone of the generator's clock
    MaxCounts             \* bound: times the aggregator may count an event

\* Whatever contributes to the rows.
Contributors == Events \cup Others

ASSUME VerifierAssumption ==
    /\ ChunkSize \in Nat \ {0} /\ MaxVerifyIterations \in Nat /\ MaxCounts \in Nat
    /\ IsFiniteSet(Others) /\ Others \cap Events = {}
    /\ Contributors = DOMAIN TypeOf /\ LocalZone \in Zones
    /\ StartedAt \in [Contributors -> Int] /\ ZoneOf \in [Contributors -> Zones]
    /\ \A e \in Events : ZoneOf[e] = LocalZone
    /\ \A x \in Contributors : HasMonth(CivilDay(StartedAt[x], ZoneOf[x]))

VARIABLES
    eventsRaw,         \* table events_raw, as of main's last look
    verified, missing, \* the verifier's maps
    checking, toCheck, \* main is in VerifyAll; the ids it has not asked for
    iteration,         \* counted up to MaxVerifyIterations
    dayRead, monthRead, \* how often the rows read count each contributor
    refused            \* history: a query of phase 5 failed

verifierVars == <<eventsRaw, verified, missing, checking, toCheck, iteration,
                  dayRead, monthRead, refused>>

Unread == <<>>
Counts == [Contributors -> 0..MaxCounts]

VerifierTypeOK ==
    /\ eventsRaw \subseteq published
    /\ verified \subseteq Events /\ missing \subseteq Events
    /\ checking \in BOOLEAN /\ toCheck \subseteq Events
    /\ iteration \in 0..MaxVerifyIterations
    /\ {dayRead, monthRead} \subseteq Counts \cup {Unread}
    /\ refused \in BOOLEAN

VerifierInit ==
    /\ eventsRaw = {} /\ verified = {} /\ missing = {}
    /\ checking = FALSE /\ toCheck = {} /\ iteration = 0
    /\ dayRead = Unread /\ monthRead = Unread /\ refused = FALSE

-----------------------------------------------------------------------------
(* waitForPersistence and VerifyAll. *)

\* A tick; the ids not verified are collected under the lock.
Tick ==
    /\ main = "persistence" /\ ~ checking
    /\ iteration' = Lesser(iteration + 1, MaxVerifyIterations)
    /\ toCheck' = tracked \ verified
    /\ checking' = TRUE
    /\ UNCHANGED <<eventsRaw, verified, missing, dayRead, monthRead, refused, sendingVars>>

\* A chunk of ids, in the order of a map: any.
Chunks == {c \in SUBSET toCheck : Cardinality(c) = Lesser(ChunkSize, Cardinality(toCheck))}

chunkFrame == <<checking, iteration, dayRead, monthRead, refused, sendingVars>>

\* MUTANT of VerifyChunk: every id asked for is taken for found.
VerifyChunkBlindly ==
    /\ checking /\ toCheck # {}
    /\ \E batch \in Chunks :
        /\ verified' = verified \cup batch
        /\ toCheck' = toCheck \ batch
    /\ UNCHANGED <<eventsRaw, missing, chunkFrame>>

VerifyChunk ==
    /\ checking /\ toCheck # {}
    /\ \E batch \in Chunks, stored \in SUBSET (published \ eventsRaw) :
        /\ eventsRaw' = eventsRaw \cup stored
        /\ LET found == batch \cap eventsRaw' IN
               /\ verified' = verified \cup found
               /\ missing' = (missing \ found) \cup (batch \ found)
        /\ toCheck' = toCheck \ batch
    /\ UNCHANGED chunkFrame

\* The query fails: the loop goes on, past the test of the iterations.
VerifyFails ==
    /\ checking /\ toCheck # {}
    /\ checking' = FALSE /\ toCheck' = {}
    /\ UNCHANGED <<eventsRaw, verified, missing, iteration, dayRead, monthRead, refused, sendingVars>>

\* VerifyAll has returned nil: main looks at the two numbers of Stats.
AfterVerify ==
    /\ checking /\ toCheck = {}
    /\ checking' = FALSE
    /\ main' = IF Cardinality(verified) = Cardinality(tracked) THEN "rejected"
               ELSE IF iteration >= MaxVerifyIterations THEN "error" ELSE main
    /\ UNCHANGED <<eventsRaw, verified, missing, toCheck, iteration>>
    /\ UNCHANGED <<dayRead, monthRead, refused>>
    /\ UNCHANGED <<workers, phaseVars, topicVars, originals, tracked, eventsFailed>>

verdictFrame == <<workers, phaseVars, topicVars, originals, tracked, eventsFailed,
                  eventsRaw, verified, missing, checking, toCheck, iteration>>

\* MUTANT of VerifyTimeout: the limit on the iterations is all there is.
NoTimeout == FALSE /\ UNCHANGED <<main, dayRead, monthRead, refused, verdictFrame>>

VerifyTimeout ==
    /\ main = "persistence" /\ ~ checking
    /\ main' = "error"
    /\ UNCHANGED <<dayRead, monthRead, refused, verdictFrame>>

-----------------------------------------------------------------------------
(* verifyDuplicatesRejected. *)

VerifyDuplicates ==
    /\ main = "rejected"
    /\ main' = IF Cardinality(verified) # TotalEvents THEN "error" ELSE "aggregations"
    /\ UNCHANGED <<dayRead, monthRead, refused, verdictFrame>>

-----------------------------------------------------------------------------
(* VerifyAggregations. *)

\* The row of each event, by day or by month, and the rows read: those from
\* the first event's to the last one's.
DayRowOf   == [x \in Contributors |-> DayRow(StartedAt[x], ZoneOf[x])]
MonthRowOf == [x \in Contributors |-> MonthRow(StartedAt[x], ZoneOf[x])]

\* MUTANT of InRows: the last row is left out.
InRowsButLast(row, first, last) == first =< row /\ row < last

InRows(row, first, last) == first =< row /\ row =< last

\* Who contributes to the row, of a day or month and a type, that has e.
CellMates(rowOf, e) == {x \in Contributors : rowOf[x] = rowOf[e] /\ TypeOf[x] = TypeOf[e]}

\* Each row expected is among those read, and its total, whoever contributed
\* to it, is that of this run's events.
Agree(rowOf, read) ==
    \E first, last \in Events :
        /\ \A e \in Events : /\ StartedAt[first] =< StartedAt[e]
                             /\ StartedAt[e] =< StartedAt[last]
        /\ \A e \in Events :
              /\ InRows(rowOf[e], rowOf[first], rowOf[last])
              /\ SumFunctionOnSet(read, CellMates(rowOf, e))
                     = Cardinality(CellMates(rowOf, e) \cap Events)

\* The aggregator has counted events that are in the topic, some more than
\* once perhaps, and before or beside them any of the others.
Read == {c \in Counts : \A e \in Events \ published : c[e] = 0}

ReadDayAggregations ==
    /\ main = "aggregations" /\ dayRead = Unread
    /\ dayRead' \in Read
    /\ UNCHANGED <<main, monthRead, refused, verdictFrame>>

ReadMonthAggregations ==
    /\ main = "aggregations" /\ dayRead # Unread
    /\ monthRead' \in Read
    /\ main' = IF Agree(DayRowOf, dayRead) /\ Agree(MonthRowOf, monthRead')
                 THEN "ok" ELSE "error"
    /\ UNCHANGED <<dayRead, refused, verdictFrame>>

\* One of the two queries fails.
ReadFails ==
    /\ main = "aggregations"
    /\ main' = "error" /\ refused' = TRUE
    /\ UNCHANGED <<dayRead, monthRead, verdictFrame>>
=============================================================================
