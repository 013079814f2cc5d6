SPECIFICATION FairSpec
CONSTANTS
    ConfigHold = 9
    PeerHolds = {3}
    Kinds = {"BGPOpen", "KeepAliveMsg", "UpdateMsg"}
    Inputs = {"accept", "close", "command"}
    BfdEnabled = FALSE
    StartStates = {"Active"}
    RxCapacity = 2
    ErrCapacity = 1
    MaxOld = 0
    MaxBfd = 0
PROPERTY ClearCompletes
CHECK_DEADLOCK FALSE
