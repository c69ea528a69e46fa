\* One SMS each for two subscribers, or two for one; everything that can happen to them.
CONSTANTS
    NumSubs = 2
    NumSms = 2
    MaxPendings <- Limits
    FailLimit = 2
    TransIds = 2
    Rounds = 4
    MaxReq = 2
    Envs <- QueueEnvs
SPECIFICATION FairSpec
INVARIANT SmsSound
PROPERTY SmsServes
