---------------------------- MODULE MCAggregator ----------------------------
(* Instances of Aggregator for TLC: the constants of the .cfg files. *)
EXTENDS Aggregator, TLC

CONSTANTS p1, late, next

MCEvents == {late, next}

\* Day 0 is the last day of month 1.  `late` happens on it at 22:00 UTC,
\* when the clocks of its own zone already show day 1 of month 2, so that
\* its two rows disagree; `next` happens at the very first instant of day 1,
\* in UTC, when the model begins.  Their types differ, so that every period
\* with both has two rows.
MCMonthFirst == <<0, 1, 3>>
MCStartedAt  == late :> 22 @@ next :> 24
MCZone       == late :> 3 @@ next :> 0
MCTypeOf     == late :> "DATA" @@ next :> "CALL_OUT"
MCIdOf       == late :> "a" @@ next :> "b"

\* The late event is delivered twice, after one of another day.
Redelivered == p1 :> <<next, late, late>>
LateAndNext == p1 :> <<late, next>>
=============================================================================
