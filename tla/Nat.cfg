\* Two BSCs with two connections each behind the NAT; two endpoints of a gateway.
CONSTANTS
    NatBsc = {1, 2}
    NatReal = {1, 2}
    NatMax = 2
    NatMsg = 2
    NatCic = {1, 2}
    NatEndp = 2
    NatCmds = 2
    NatEnvs <- NatSome
    MgEndp = {1, 2}
    MgMax = 3
    MgPairs = 4
    MgIds = 3
    MgSeq = 3
    MgEnvs <- MgSome
SPECIFICATION NmSpec
CHECK_DEADLOCK FALSE
INVARIANTS NatPointersGood EndpointsGood RoutedToOwner OwnPeer StreamContinues
PROPERTIES RefusedStaysOut
