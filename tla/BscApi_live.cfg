\* Assignments and handovers end, channels given up become free.
CONSTANTS
    sdcch = sdcch
    t1 = t1
    t2 = t2
    Lchans = {sdcch, t1, t2}
    Pchan <- Pchans
    NoLchan = NoLchan
    Conns = {k}
    NoConn = NoConn
    Sapis = {0}
    MaxOut = 2
    Envs <- LiveEnvs
SPECIFICATION FairSpec
PROPERTY ProceduresEnd
