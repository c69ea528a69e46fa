\* One channel; everything goes wrong, and the BTS may drop commands.
CONSTANTS
    sdcch = sdcch
    tchf = tchf
    Lchans = {sdcch}
    Pchan <- OneSdcch
    Sapis = {0, 3}
    Conns = {k}
    NoConn = NoConn
    MaxOut = 2
    MaxRllr = 1
    Faults <- AllFaults
SPECIFICATION FairSpec
INVARIANT LchanSound
PROPERTY RachResolved
