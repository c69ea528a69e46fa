\* Two channels; the BTS, the MS and the layer above follow the procedures.
CONSTANTS
    sdcch = sdcch
    tchf = tchf
    Lchans = {sdcch, tchf}
    Pchan <- SdcchAndTch
    Sapis = {0, 3}
    Conns = {k}
    NoConn = NoConn
    MaxOut = 3
    MaxRllr = 1
    Faults = {"late_rel_ind", "idle_confirm"}
SPECIFICATION FairSpec
INVARIANT ReallyFree
PROPERTY ReleaseCompletes
