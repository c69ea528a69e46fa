------------------------------ MODULE MCPaging ------------------------------
(* Instances of Paging: two base stations, in one location area or in two. *)
EXTENDS Paging, TLC

OneArea == <<1, 1>>
TwoAreas == <<1, 2>>

Sees(lac, users, faults) == [lac |-> lac, users |-> users, faults |-> faults]

\* Calls in one area; SMS and calls in two; everything else that can happen.
SoundEnvs ==
    {Sees(OneArea, {"call"}, {"radio", "late_ms", "bts_down"}),
     Sees(TwoAreas, Users, {"moves", "radio", "late_ms"}),
     Sees(OneArea, {"call"}, {"silent", "vty", "bts_down"}),
     Sees(OneArea, {"sms"}, {"moves", "leaves", "early_use", "radio"}),
     Sees(OneArea, {"call"}, {"late_ms"}),
     Sees(TwoAreas, Users, {"moves"})}

\* SMS in an area of two base stations; lost connections.
StaleEnvs == {Sees(OneArea, {"sms"}, {})}
StuckEnvs == {Sees(TwoAreas, Users, {"radio"})}

=============================================================================
