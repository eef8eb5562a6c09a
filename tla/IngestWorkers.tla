--------------------------- MODULE IngestWorkers ---------------------------
(***************************************************************************)
(* internal/usecase/ingest_events.go: the pool of workers that ProcessEvents*)
(* runs under one errgroup.  Each worker gathers valid events in a batch   *)
(* of its own and saves it with retries when it is full, when its ticker   *)
(* fires, when the channel is closed and when the group's context is       *)
(* cancelled.  The table events_raw (`rows`) is the state it shares with   *)
(* the other workers, through eventRepository.BatchInsert.                 *)
(*                                                                         *)
(* `wpc` is where a worker is:                                             *)
(*   select     in the select of its loop                                  *)
(*   attempt    at the head of the retry loop of saveBatchWithRetry        *)
(*   inserting  BatchInsert is under way, the database has not committed   *)
(*   applied    the database has committed, the answer is on its way       *)
(*   done       returned                                                   *)
(* and `exit` what it does once the batch it is saving is saved.           *)
(***************************************************************************)
EXTENDS EventStream

CONSTANTS
    Workers,       \* the workers of the pool
    BatchSize,
    RetryAttempts,
    Valid,         \* events that pass Event.Validate
    Storable,      \* events events_raw accepts: a partition of the table
                   \* covers started_at, the columns hold the values
    MaxFaults      \* bound: failures of the database

ASSUME WorkersAssumption == IsFiniteSet(Workers)
ASSUME BatchAssumption == BatchSize \in Nat \ {0}
ASSUME RetryAssumption == RetryAttempts \in Nat
ASSUME ValidAssumption == Valid \subseteq Events /\ Storable \subseteq Events
ASSUME FaultAssumption == MaxFaults \in Nat

VARIABLES
    wpc, batch, attempt, exit, \* each worker's goroutine and its locals
    failed,                    \* a worker returned an error: the errgroup
                               \* cancelled the context it derived
    rows,                      \* events stored in events_raw
    faults                     \* failures of the database so far

memoryVars == <<wpc, batch, attempt, exit, failed>>
workerVars == <<wpc, batch, attempt, exit, failed, rows, faults>>

WorkersTypeOK ==
    /\ wpc \in [Workers -> {"select", "attempt", "inserting", "applied", "done"}]
    /\ batch \in [Workers -> Seq(Messages)]
    /\ \A w \in Workers : Len(batch[w]) =< BatchSize
    /\ attempt \in [Workers -> 0..RetryAttempts]
    /\ exit \in [Workers -> {"stay", "closed", "cancelled"}]
    /\ failed \in BOOLEAN
    /\ rows \subseteq Events
    /\ faults \in 0..MaxFaults

Fresh(pc, b, a, x, f) ==
    /\ pc = [w \in Workers |-> "select"]
    /\ b = [w \in Workers |-> <<>>]
    /\ a = [w \in Workers |-> 0]
    /\ x = [w \in Workers |-> "stay"]
    /\ f = FALSE

WorkersInit ==
    /\ Fresh(wpc, batch, attempt, exit, failed)
    /\ rows = {}
    /\ faults = 0

\* ProcessEvents starts the pool, with empty batches.
FreshWorkers ==
    /\ Fresh(wpc', batch', attempt', exit', failed')
    /\ UNCHANGED <<rows, faults>>

-----------------------------------------------------------------------------
\* The context of the errgroup: cancelled with its parent, or by a failure.
Cancelled == ctx \/ failed

\* saveBatchWithRetry is called; x is what follows its success.
BeginSave(w, x) ==
    /\ wpc' = [wpc EXCEPT ![w] = "attempt"]
    /\ attempt' = [attempt EXCEPT ![w] = 0]
    /\ exit' = [exit EXCEPT ![w] = x]
    /\ UNCHANGED failed

\* The locals of a finished call are dead.
ForgetSave(w) ==
    /\ attempt' = [attempt EXCEPT ![w] = 0]
    /\ exit' = [exit EXCEPT ![w] = "stay"]

\* The worker returns, and what its batch still held is gone.  An error
\* cancels the group.
Return(w, isError) ==
    /\ wpc' = [wpc EXCEPT ![w] = "done"]
    /\ batch' = [batch EXCEPT ![w] = <<>>]
    /\ failed' = (failed \/ isError)
    /\ ForgetSave(w)

-----------------------------------------------------------------------------
(* The select of worker. *)

\* MUTANT of Full: an off-by-one.
FullOffByOne(b) == Len(b) > BatchSize

Full(b) == Len(b) >= BatchSize

\* An event arrives.  An invalid one is skipped; a valid one joins the
\* batch, which is saved when it is full.
Receive(w) ==
    /\ wpc[w] = "select"
    /\ TakeFirst
    /\ IF EventOf(Head(eventsChan)) \notin Valid
         THEN UNCHANGED memoryVars
         ELSE /\ batch' = [batch EXCEPT ![w] = Append(@, Head(eventsChan))]
              /\ IF Full(batch'[w]) THEN BeginSave(w, "stay")
                 ELSE UNCHANGED <<wpc, attempt, exit, failed>>
    /\ UNCHANGED <<rows, faults>>

Tick(w) ==
    /\ wpc[w] = "select"
    /\ batch[w] # <<>>
    /\ BeginSave(w, "stay")
    /\ UNCHANGED <<batch, rows, faults, eventsChan>>

ChannelClosed(w) ==
    /\ wpc[w] = "select"
    /\ Drained
    /\ IF batch[w] = <<>> THEN Return(w, FALSE)
                          ELSE BeginSave(w, "closed") /\ UNCHANGED batch
    /\ UNCHANGED <<rows, faults, eventsChan>>

\* ctx.Err() is an error, so this exit cancels the group as well.
CtxDone(w) ==
    /\ wpc[w] = "select"
    /\ Cancelled
    /\ IF batch[w] = <<>> THEN Return(w, TRUE)
                          ELSE BeginSave(w, "cancelled") /\ UNCHANGED batch
    /\ UNCHANGED <<rows, faults, eventsChan>>

-----------------------------------------------------------------------------
(* saveBatchWithRetry and BatchInsert. *)

\* MUTANT of AttemptFailed: the batch is reset after a failure as well.
AttemptFailedReset(w) ==
    /\ wpc' = [wpc EXCEPT ![w] = "select"]
    /\ batch' = [batch EXCEPT ![w] = <<>>]
    /\ ForgetSave(w)
    /\ UNCHANGED <<failed, rows>>

AttemptFailed(w) ==
    /\ wpc' = [wpc EXCEPT ![w] = "attempt"]
    /\ attempt' = [attempt EXCEPT ![w] = @ + 1]
    /\ UNCHANGED <<batch, exit, failed, rows>>

\* The attempt begins (after its back-off).  The database refuses to begin
\* a statement for a context that is already cancelled.
StartInsert(w) ==
    /\ wpc[w] = "attempt"
    /\ attempt[w] < RetryAttempts
    /\ IF Cancelled THEN AttemptFailed(w)
       ELSE /\ wpc' = [wpc EXCEPT ![w] = "inserting"]
            /\ UNCHANGED <<batch, attempt, exit, failed, rows>>
    /\ UNCHANGED <<faults, eventsChan>>

\* The back-off before another attempt sees the context cancelled.
AbortBackoff(w) ==
    /\ wpc[w] = "attempt"
    /\ attempt[w] \in 1..(RetryAttempts - 1)
    /\ Cancelled
    /\ Return(w, TRUE)
    /\ UNCHANGED <<rows, faults, eventsChan>>

\* MUTANT of GiveUp: after the last attempt the save returns nil.
GiveUpSilently(w) ==
    /\ wpc[w] = "attempt"
    /\ attempt[w] >= RetryAttempts
    /\ Return(w, FALSE)
    /\ UNCHANGED <<rows, faults, eventsChan>>

GiveUp(w) ==
    /\ wpc[w] = "attempt"
    /\ attempt[w] >= RetryAttempts
    /\ Return(w, TRUE)
    /\ UNCHANGED <<rows, faults, eventsChan>>

Accepted(b) == EventsIn(b) \subseteq Storable

\* The statement commits.  It inserts the whole batch or nothing, and
\* leaves rows that are there already alone (ON CONFLICT DO NOTHING).
Apply(w) ==
    /\ wpc[w] = "inserting"
    /\ Accepted(batch[w])
    /\ rows' = rows \cup EventsIn(batch[w])
    /\ wpc' = [wpc EXCEPT ![w] = "applied"]
    /\ UNCHANGED <<batch, attempt, exit, failed, faults, eventsChan>>

\* BatchInsert returns an error: a row the table refuses, a cancelled
\* context, or a failure of the database or the connection, which may hit
\* after the commit.
InsertError(w) ==
    /\ wpc[w] \in {"inserting", "applied"}
    /\ \/ /\ \/ Cancelled
             \/ ~ Accepted(batch[w])
          /\ UNCHANGED faults
       \/ /\ faults < MaxFaults
          /\ faults' = faults + 1
    /\ AttemptFailed(w)
    /\ UNCHANGED eventsChan

\* BatchInsert returns nil.
InsertOk(w) ==
    /\ wpc[w] = "applied"
    /\ IF exit[w] = "stay"
         THEN /\ wpc' = [wpc EXCEPT ![w] = "select"]
              /\ batch' = [batch EXCEPT ![w] = <<>>]
              /\ ForgetSave(w)
              /\ UNCHANGED failed
         ELSE Return(w, exit[w] = "cancelled")
    /\ UNCHANGED <<rows, faults, eventsChan>>

Worker(w) ==
    \/ Receive(w)
    \/ Tick(w)
    \/ ChannelClosed(w)
    \/ CtxDone(w)
    \/ StartInsert(w)
    \/ AbortBackoff(w)
    \/ GiveUp(w)
    \/ Apply(w)
    \/ InsertError(w)
    \/ InsertOk(w)

AllReturned == \A w \in Workers : wpc[w] = "done"
=============================================================================
