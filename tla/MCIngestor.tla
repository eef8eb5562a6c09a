----------------------------- MODULE MCIngestor -----------------------------
(* Instances of Ingestor for TLC: the constants of the .cfg files. *)
EXTENDS Ingestor, EventEntity, TLC

CONSTANTS e1, e2, e3, bad, invalid, unstorable, p1, p2, w1, w2,
          id, phone, nilId, noPhone, garbled, absent

MCEvents == {e1, e2, e3, bad, invalid, unstorable}

\* A call the generator draws half a second past instant 40 s, and the
\* sample message of README.md:180, whose source and user are not ids and
\* that has no phone, one of a call that ends before it begins and one of a
\* time that no partition covers.
MCNow  == 40500
Drawn  == [event_id |-> id, source_id |-> id, user_id |-> id, phone |-> phone,
           type |-> "CALL_OUT", started_at |-> 10500, ended_at |-> 11500,
           duration_sec |-> 1, bytes_up |-> 0, bytes_down |-> 0]

ASSUME DrawnByTheGenerator == GenerateEvent(MCNow, Drawn)

MCMessage ==
    [e \in {e1, e2, e3} |-> eventToMessage(Drawn)] @@
    bad        :> [eventToMessage(Drawn) EXCEPT !.source_id = garbled, !.user_id = garbled,
                                                !.phone = noPhone] @@
    invalid    :> [eventToMessage(Drawn) EXCEPT !.ended_at = 9] @@
    unstorable :> [eventToMessage(Drawn) EXCEPT !.started_at = 1, !.ended_at = absent]

MCParseable == {e \in MCEvents : Parses(MCMessage[e])}
MCValid     == {e \in MCParseable : Validate(ToEvent(MCMessage[e]))}
MCStorable  == {e \in MCParseable : Stores(ToEvent(MCMessage[e]))}

ASSUME EachItsFate ==
    /\ MCParseable = MCEvents \ {bad} /\ MCValid = MCParseable \ {invalid}
    /\ MCStorable = MCParseable \ {unstorable}

\* With ids in their place the sample is refused one step later.
ASSUME SampleHasNoPhone ==
    LET m == [MCMessage[bad] EXCEPT !.source_id = id, !.user_id = id]
    IN  Parses(m) /\ ~ Validate(ToEvent(m))

\* A duplicate of e1 in another partition, a message that does not parse
\* and an event the table refuses.
TopicMixed  == p1 :> <<e1, bad, e2>> @@ p2 :> <<e1, unstorable>>

\* One partition and nothing the table refuses, for liveness.
TopicLive   == p1 :> <<e1, invalid, e2, e3>>

MCIds    == {id}
MCPhones == {phone}

WorkerSymmetry == Permutations({w1, w2})
=============================================================================
