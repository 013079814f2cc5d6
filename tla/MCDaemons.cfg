SPECIFICATION DaemonsSpec
CONSTANTS
    Key = {k1}
    Priorities = {100, 255}
    Preempts = {FALSE, TRUE}
    Listening = {TRUE, FALSE}
    Advertised = {0, 50, 200}
    Restored = {}
    Operations = {"create", "delete", "receive", "config", "interval", "link"}
    LinkUpAtStart = TRUE
    RxCapacity = 1
    MaxTimers = 4
    MaxEvents = 5
    k1 = k1
    k2 = k2

    NdpKeys <- TwoMacs
    NdpGlobal = {"g"}
    NdpPorts = {"q1"}
    MaxNdpEvents = 4

    DhcpMacs = {"a", "b"}
    DhcpIps = {1}
    DhcpXids = {1}
    DhcpPorts = {"p1"}
    MaxDhcpEvents = 6
    MaxDhcpTimers = 4

    RelayIntfs = {"v1", "v2"}
    RelayHosts = {"a", "b"}
    RelayServers = {"s"}
    RelayHome <- OneHostEach
    MaxRelayEvents = 6

    BfdPeers = {"a"}
    BfdOwners = {"bgp", "ospf"}
    BfdParams = {"fast"}
    BfdMaxSessions = 3
    MaxBfdEvents = 6
INVARIANTS TypeOK MasterAdvertises NdpSafe   BfdServerSafe
\* The bounds on events end every behaviour.
CHECK_DEADLOCK FALSE
