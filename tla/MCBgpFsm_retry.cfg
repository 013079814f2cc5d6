SPECIFICATION FairSpec
CONSTANTS
    ConfigHold = 9
    PeerHolds = {}
    Kinds = {"NotifMsg"}
    Inputs = {"accept", "close", "command"}
    BfdEnabled = FALSE
    StartStates = {"Idle", "Connect", "Active"}
    RxCapacity = 1
    ErrCapacity = 1
    MaxOld = 1
    MaxBfd = 0
INVARIANT ConnectionBelongsToSession
PROPERTY AlwaysRetries
CHECK_DEADLOCK FALSE
