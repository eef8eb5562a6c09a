---------------------------- MODULE MCGenerator ----------------------------
(* Instances of Generator for TLC: the constants of the .cfg files. *)
EXTENDS Generator, TLC

CONSTANTS s1, s2, earlier

\* Four events around the midnight at which month 2 begins in the zone of
\* the generator, two days of UTC, two types; and an event of a run
\* before this one, of the type, the day and the month of event 2.
MCMonthFirst == <<0, 1, 3>>
MCOthers     == {earlier}
MCStartedAt  == 0 :> 20 @@ 1 :> 22 @@ 2 :> 23 @@ 3 :> 25 @@ earlier :> 21
MCTypeOf     == 0 :> "DATA" @@ 1 :> "DATA" @@ 2 :> "SMS_SENT" @@ 3 :> "DATA"
                @@ earlier :> "SMS_SENT"
MCZoneOf     == [x \in DOMAIN MCTypeOf |-> 3]
=============================================================================
