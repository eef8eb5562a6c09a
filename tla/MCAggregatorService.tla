------------------------ MODULE MCAggregatorService ------------------------
(* Instances of AggregatorService for TLC: the constants of the .cfg files. *)
EXTENDS AggregatorService, TLC

CONSTANTS p1, late, other

MCEvents == {late, other}

\* `late` happens on the last day of month 1, in a zone that is in month 2
\* already; `other` an hour into the next day in UTC, in a zone where it is
\* still the day before.
MCMonthFirst == <<0, 1, 3>>
MCStartedAt  == late :> 22 @@ other :> 25
MCZone       == late :> 3 @@ other :> -5
MCTypeOf     == late :> "DATA" @@ other :> "CALL_OUT"
MCParseable  == {late, other}

\* The two events share an id, or do not.
OneId  == late :> "a" @@ other :> "a"
TwoIds == late :> "a" @@ other :> "c"

Both == p1 :> <<late, other>>
=============================================================================
