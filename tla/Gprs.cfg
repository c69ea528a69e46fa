\* One mobile that leaves and comes back; three N-PDUs of three segments; two base station subsystems behind the proxy.
CONSTANTS
    NumPtmsi = 3
    NumCtx = 2
    NumLlme = 4
    MaxExp = 2
    SgEnvs <- SgSome
    MaxNpdu = 3
    MaxSeg = 3
    NpduMod = 2
    LlcEnvs <- LlSome
    Bss = {1, 2}
    MaxQueue = 2
    Bmax = 2
    GbEnvs <- GbSome
SPECIFICATION GprsSpec
CHECK_DEADLOCK FALSE
INVARIANTS SgPointersGood OneContext ProcedureWatched NpduIntact NewFrameTaken NothingStrays BlockedAgreed
PROPERTIES AcceptMeansUp
