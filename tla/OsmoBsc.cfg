CONSTANTS
    Radio = {1}
    Sccps = {1, 2}
    ObMaxMsg = 5
    ObMaxWire = 2
    ObLimit = 1
    ObEnvs <- ObSome
SPECIFICATION ObSpec
CHECK_DEADLOCK FALSE
INVARIANTS LossFreesAll RfFollows
PROPERTIES InOrderToMsc SilenceNoticed LostRadioEnds
