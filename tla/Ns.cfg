\* Three faults of one kind, or three restarts of either end.
CONSTANTS
    AliveRetries = 1
    Addrs = {1, 2}
    MaxFaults = 3
    MaxMsgs = 4
    Faults = {{"loss"}, {"dup"}, {"reorder"}, {"early"}, {"sgsn", "proxy"}, {"move"}, {"operator"}}
SPECIFICATION FairSpec
INVARIANT NsSound
PROPERTY LinkComesUp
