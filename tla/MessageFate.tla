---------------------------- MODULE MessageFate ----------------------------
(***************************************************************************)
(* What a service promises about each message it could store, seen from    *)
(* outside: a message waits at the broker, is taken in flight by the       *)
(* service, and its event ends up stored (by the ingestor in events_raw,   *)
(* by the aggregator in its counts); or it is lost, when the broker will   *)
(* not hand it out again and nothing holds it.  The service is healthy or  *)
(* not.  The promise:                                                      *)
(*   - while it is healthy a message only ever advances, and nothing is    *)
(*     lost;                                                               *)
(*   - becoming healthy again (a start) loses nothing by itself;           *)
(*   - a stored event stays stored, whatever happens;                      *)
(*   - a lost message does not come back, except that another message with *)
(*     the same content, still in flight, may be taken in its place.       *)
(* Messages can be lost only around a failure or a shutdown.               *)
(***************************************************************************)
CONSTANTS Msgs,      \* the messages that can be stored
          Content,   \* Content[m]: what storing m makes durable
          Elsewhere  \* contents another path may make durable meanwhile

VARIABLES fate, healthy

Fates == {"waiting", "inflight", "stored", "lost"}

FateInit == fate = [m \in Msgs |-> "waiting"] /\ healthy = FALSE

Take(m) ==
    /\ healthy /\ healthy'
    /\ fate[m] = "waiting"
    /\ fate' = [fate EXCEPT ![m] = "inflight"]

\* Some contents become durable, and with them every message that carries
\* one of them.
Carried == {Content[m] : m \in {n \in Msgs : fate[n] = "inflight"}}
Durable == Elsewhere \cup Carried

Store ==
    /\ healthy /\ healthy'
    /\ \E E \in SUBSET Durable :
           fate' = [m \in Msgs |-> IF Content[m] \in E THEN "stored" ELSE fate[m]]

Recover == ~ healthy /\ healthy' /\ UNCHANGED fate

\* The service fails, stops, or works while it is failing or stopping.
Degraded ==
    /\ ~ healthy'
    /\ fate' \in [Msgs -> Fates]
    /\ \A m \in Msgs :
        /\ fate[m] = "stored" => fate'[m] = "stored"
        /\ fate[m] = "lost"   => \/ fate'[m] \in {"lost", "stored"}
                                 \/ fate'[m] = "inflight" /\ Content[m] \in Carried
        /\ fate[m] # "stored" /\ fate'[m] = "stored"
               => Content[m] \in Durable

FateNext ==
    \/ Store
    \/ Recover
    \/ Degraded
    \/ \E m \in Msgs : Take(m)

FateSpec == FateInit /\ [][FateNext]_<<fate, healthy>>
=============================================================================
