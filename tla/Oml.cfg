SPECIFICATION OmSpec
CONSTANTS
    OmMaxLink = 3
    OmMaxQueue = 6
    OmFiles <- OmLengths
    OmEnvs <- OmSome
INVARIANTS QueueServed OnAirAsTold SwWhole
PROPERTY Settles
CHECK_DEADLOCK FALSE
