\* osmo-bsc with assignments, osmo-nitb with assignments and handovers; refusals, radio failures, a slow BTS, late reports.
CONSTANTS
    sdcch = sdcch
    t1 = t1
    t2 = t2
    Lchans = {sdcch, t1, t2}
    Pchan <- Pchans
    NoLchan = NoLchan
    Conns = {k, m}
    NoConn = NoConn
    Sapis = {0}
    MaxOut = 2
    Envs <- SafetyEnvs
SPECIFICATION Spec
SYMMETRY Alike
INVARIANT PointersSound
