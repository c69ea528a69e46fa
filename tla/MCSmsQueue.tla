---------------------------- MODULE MCSmsQueue ----------------------------
(* Instances of SmsQueue: two subscribers, an SMS for each or two for one. *)
EXTENDS SmsQueue

Sees(receiver, max_fail, flaky, faults) ==
    [receiver |-> receiver, max_fail |-> max_fail, flaky |-> flaky, faults |-> faults]

OneEach == <<1, 2>>
BothForOne == <<1, 1>>

Limits == <<1, 2>>

QueueEnvs ==
    {Sees(OneEach, 1, {1}, {"radio", "restart"}),
     Sees(OneEach, 2, {1}, {"radio"}),
     Sees(OneEach, 1, {1}, {"vty", "dropped"}),
     Sees(BothForOne, 2, {1}, {"radio", "attach"}),
     Sees(BothForOne, 1, {}, {"radio", "memory", "vty"})}

TwiceEnvs == {Sees(BothForOne, 1, {}, {})}

=============================================================================
