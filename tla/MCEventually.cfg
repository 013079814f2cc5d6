SPECIFICATION EventuallySpec
CONSTANTS
    a = a
    b = b
    Node = {a, b}
    Demands = {FALSE}
    Managed = {}
    PathMayFail = TRUE
    MaxInFlight = 1
    MaxQueue = 2
    MaxSent = 2
    MaxTimeouts = 0
    MaxMgmt = 1

    ArpHosts = {"a"}
    ArpMacs = {"m1", "m2"}
    ArpPorts = {"p1", "p2"}
    ArpIntfs = {"v1"}
    ArpMembers0 <- OnePort
    ArpTimeouts = {4, 5}
    ArpRetryCnt = 1
    MaxArpEvents = 2

    Vnis = {1}
    Vteps = {"t1", "t2"}
    VtepCfg <- OneTunnel
    MaxVxlanEvents = 5
  
PROPERTIES FailureDetected NextHopResolves VtepComesUp
\* The bounds on packets, timeouts and events end every behaviour.
CHECK_DEADLOCK FALSE
