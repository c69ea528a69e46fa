------------------------------ MODULE MCOsmoBsc ------------------------------
EXTENDS OsmoBsc
ObSome == {[faults |-> {"link_loss", "slow_msc"}, pong_short |-> TRUE, pings |-> TRUE, rf |-> FALSE],
           [faults |-> {"silent", "no_socket"}, pong_short |-> TRUE, pings |-> TRUE, rf |-> FALSE],
           [faults |-> {"silent"}, pong_short |-> FALSE, pings |-> TRUE, rf |-> FALSE],
           [faults |-> {"silent"}, pong_short |-> TRUE, pings |-> FALSE, rf |-> FALSE],
           [faults |-> {"full"}, pong_short |-> TRUE, pings |-> TRUE, rf |-> FALSE],
           [faults |-> {}, pong_short |-> TRUE, pings |-> TRUE, rf |-> TRUE]}
=============================================================================
