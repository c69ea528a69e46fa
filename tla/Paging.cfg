\* The pagings of a subscriber and its queue, whatever happens around them.
CONSTANTS
    NumBts = 2
    Subs = {s}
    Lacs = {1, 2}
    Slots = 1
    Envs <- SoundEnvs
SPECIFICATION FairSpec
INVARIANT PagingSound
PROPERTY PagingServes
