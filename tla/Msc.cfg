\* Two subscribers, two calls; connections are lost, messages come in any order, too early or for no call.  One mobile registers, with every policy.
CONSTANTS
    Subs = {a, b}
    NoSub = NoSub
    NumTi = 1
    Slots = 4
    MaxRefs = 2
    CallEnvs <- CarefulCalls
    NumSeq = 3
    MaxUse = 2
    MmEnvs <- MmCareful
SPECIFICATION MscSpec
SYMMETRY Alike
CHECK_DEADLOCK FALSE
INVARIANTS MscPointersGood CallSupervised TalkingTogether IdleReleased
PROPERTIES AttachedProperly
