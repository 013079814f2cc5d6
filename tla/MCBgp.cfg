SPECIFICATION BgpSpec
CONSTANTS
    ConfigHold = 9
    PeerHolds = {0, 9}
    Kinds = {"BGPOpen", "MsgErr", "KeepAliveMsg"}
    Inputs = {"command"}
    BfdEnabled = TRUE
    StartStates = {"Idle"}
    RxCapacity = 1
    ErrCapacity = 1
    MaxOld = 0
    MaxBfd = 1

    BribPeers = {"e", "i"}
    BribPeer <- EAndI
    BribPrefixes = {"x", "y"}
    BribUpdates <- XAndY
    BribNextHops = {"n1", "n2"}
    BribMulti <- BothOrNone
    BribAddPaths = 1
    MaxBribEvents = 4

    BgpsAddrs = {"a"}
    BgpsIfAddr <- OneInterface
    BgpsConfs <- TwoConfs
    BgpsGroups = {"g1"}
    BgpsGroupConfs <- OneGroupConf
    BgpsGlobals <- OnAndOff
    MaxBgpsObjs = 2
    MaxBgpsMgrs = 3
    MaxBgpsEvents = 5

    BadjPeers = {"a", "i", "c", "j"}
    BadjInternal = {"i", "j"}
    BadjClients = {}
    BadjTx <- ToC
    BadjOutFilter <- AFilters
    BadjInFilters <- PermitOrDeny
    BadjPrefixes = {"x", "w"}
    BadjV6 = {"w"}
    BadjMembers = {"x"}
    BadjUpdates <- XAndW
    MaxBadjEvents = 6
INVARIANTS TypeOK NeverStranded KeepsTalking NoDeafSession BgpRibSafe BestPathSafe  LocRibSafe BgpAdjSafe
\* The bounds on events end every behaviour.
CHECK_DEADLOCK FALSE
