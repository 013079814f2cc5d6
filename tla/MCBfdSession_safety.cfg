CONSTANTS
    a = a
    b = b
    Node = {a, b}
    Demands = {TRUE, FALSE}
    Managed = {a, b}
    PathMayFail = TRUE
    MaxInFlight = 1
    MaxQueue = 2
    MaxSent = 2
    MaxTimeouts = 1
    MaxMgmt = 1
SPECIFICATION Spec
SYMMETRY Symmetry
INVARIANTS
    TypeOK
    UpOnlyIfPeerHeard
    
    DetectionArmed

    
    
\* The bounds on packets and timeouts end every behaviour.
CHECK_DEADLOCK FALSE
