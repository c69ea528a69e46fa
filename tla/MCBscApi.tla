------------------------------ MODULE MCBscApi ------------------------------
(* Instances of BscApi: an SDCCH and two TCH/F, under osmo-bsc and osmo-nitb. *)
EXTENDS BscApi, TLC

CONSTANTS sdcch, t1, t2   \* model values: the channels

Pchans == (sdcch :> "SDCCH") @@ (t1 :> "TCH_F") @@ (t2 :> "TCH_F")

\* osmo-bsc assigns channels on demand of its MSC; osmo-nitb hands over, and assigns
\* when its call control asks for a traffic channel.
Bsc(faults)  == [nitb |-> FALSE, assignments |-> TRUE, faults |-> faults]
NitbBoth(faults) == [nitb |-> TRUE, assignments |-> TRUE, faults |-> faults]
NitbHo(faults) == [nitb |-> TRUE, assignments |-> FALSE, faults |-> faults]

SafetyEnvs == {Bsc({"nack", "radio"}), Bsc({"nack", "radio", "late_ms"}),
               NitbBoth({"nack", "radio"}), NitbBoth({"nack", "radio", "late_ms"}),
               Bsc({"nack", "slow_bts"}), NitbBoth({"nack", "slow_bts"})}
LiveEnvs == {Bsc({"nack"}), NitbHo({"nack"})}
SlowBtsEnvs == {Bsc({"slow_bts"})}

\* The traffic channels are alike.
Alike == Permutations({t1, t2})

=============================================================================
