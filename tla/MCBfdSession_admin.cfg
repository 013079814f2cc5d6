CONSTANTS
    a = a
    b = b
    Node = {a, b}
    Demands = {FALSE}
    Managed = {b}
    PathMayFail = TRUE
    MaxInFlight = 1
    MaxQueue = 2
    MaxSent = 2
    MaxTimeouts = 0
    MaxMgmt = 3
SPECIFICATION FairSpec
PROPERTY
    FailureDetected
\* The bounds on packets and timeouts end every behaviour.
CHECK_DEADLOCK FALSE
