----------------------------- MODULE EventEntity -----------------------------
(***************************************************************************)
(* An event from the load generator to the row of events_raw: what         *)
(* GenerateEvent draws, what eventToMessage writes, what ToEvent reads     *)
(* back, what Validate and the table ask of it.                            *)
(*                                                                         *)
(* Instants and lengths of time are in milliseconds, which stand for Go's  *)
(* nanoseconds; the text of an instant (RFC 3339) has whole seconds.  An   *)
(* id, a phone and a text that means nothing are model values.  Meta,      *)
(* which only has to be a JSON object, and created_at are left out.        *)
(***************************************************************************)
EXTENDS Integers

CONSTANTS
    Ids, NilId,      \* the ids uuid.New draws, and uuid.Nil
    Phones, NoPhone, \* the phones there are, and the empty or missing one
    Garbled,         \* a text that is neither an id nor an instant, or a
                     \* value of another JSON type than the field's
    Absent,          \* a field that is not there: nil, omitempty
    ZeroTime,        \* time.Time{}, the first instant of year 1
    TableFrom, TableUpTo \* the partitions of events_raw: whole months

Second == 1000

Calls     == {"CALL_OUT", "CALL_IN"}
SMS       == {"SMS_SENT", "SMS_RECEIVED"}
EventTypes == Calls \cup SMS \cup {"DATA"}

ASSUME EntityAssumption ==
    /\ NilId \notin Ids /\ NoPhone \notin Phones
    /\ Garbled \notin Ids \cup Phones \cup EventTypes \cup Int
    /\ Absent \notin Int \cup Ids \cup {NilId, Garbled}
    /\ ZeroTime \in Int /\ {TableFrom, TableUpTo} \subseteq Int
    /\ TableFrom % Second = 0

-----------------------------------------------------------------------------
(* The generator draws an event at the instant `now`.                      *)

SecondsAgo     == 0..3599
CallSeconds    == 1..600
SessionSeconds == 60..7259
UploadBytes    == 1000..50000999
DownloadBytes  == 1000..500000999

DrawnEvents ==
    [event_id : Ids, source_id : Ids, user_id : Ids, phone : Phones, type : EventTypes,
     started_at : Int, ended_at : Int, duration_sec : Nat \cup {Absent},
     bytes_up : Nat, bytes_down : Nat]

\* A call or a session ends as long after its start as it lasts.
Lasts(e, seconds) ==
    /\ e.duration_sec = seconds
    /\ e.ended_at = e.started_at + seconds * Second

GenerateEvent(now, e) ==
    /\ e \in DrawnEvents
    /\ \E ago \in SecondsAgo : e.started_at = now - ago * Second
    /\ \/ /\ e.type \in Calls
          /\ \E seconds \in CallSeconds : Lasts(e, seconds)
          /\ e.bytes_up = 0 /\ e.bytes_down = 0
       \/ /\ e.type \in SMS
          /\ e.ended_at = e.started_at /\ e.duration_sec = Absent
          /\ e.bytes_up = 0 /\ e.bytes_down = 0
       \/ /\ e.type = "DATA"
          /\ \E seconds \in SessionSeconds : Lasts(e, seconds)
          /\ e.bytes_up \in UploadBytes /\ e.bytes_down \in DownloadBytes

-----------------------------------------------------------------------------
(* The message: the fields of the event, with the text of each instant.    *)

Text(t)    == IF t = Absent THEN Absent ELSE t \div Second
Instant(x) == IF x = Absent THEN Absent ELSE x * Second

eventToMessage(e) ==
    [e EXCEPT !.started_at = Text(e.started_at), !.ended_at = Text(e.ended_at)]

\* UnmarshalKafkaMessage and ToEvent succeed: each field has its JSON type,
\* the ids are there and are ids, started_at is there and is an instant, and
\* so is ended_at if there.  What a type or a phone says is not looked at.
Parses(m) ==
    /\ Garbled \notin {m.phone, m.type, m.duration_sec, m.bytes_up, m.bytes_down}
    /\ {m.event_id, m.source_id, m.user_id} \subseteq Ids \cup {NilId}
    /\ m.started_at \in Int /\ m.ended_at \in Int \cup {Absent}

ToEvent(m) ==
    [m EXCEPT !.started_at = Instant(m.started_at), !.ended_at = Instant(m.ended_at)]

-----------------------------------------------------------------------------
(* What the ingestor and the table ask.                                    *)

Validate(e) ==
    /\ NilId \notin {e.event_id, e.source_id, e.user_id}
    /\ e.phone # NoPhone
    /\ e.type \in EventTypes
    /\ e.started_at # ZeroTime
    /\ e.type \in Calls \cup {"DATA"} /\ e.ended_at # Absent => e.ended_at >= e.started_at

IntegerColumn == (-2147483647 - 1)..2147483647

\* A partition covers started_at and duration_sec is an INTEGER.
Stores(e) ==
    /\ TableFrom =< e.started_at /\ e.started_at < TableUpTo
    /\ e.duration_sec # Absent => e.duration_sec \in IntegerColumn
=============================================================================
