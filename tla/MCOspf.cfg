SPECIFICATION OspfSpec
CONSTANTS
    Router = {1, 2}
    Priority <- Ascending
    Priorities = {0}
    MaxDisturbances = 2

    OnbrLsas <- ThreeAndTwo
    OnbrDR = 2
    OnbrABRs = {}
    OnbrASBRs = {}
    OnbrSeqs = {1}
    OnbrWrap = 256
    MaxOnbrSeq = 2
    MaxOnbrNet = 2
    MaxOnbrEvents = 3

    LsRefresh = 2
    LsMaxAge = 4
    LsStubs = {1}
    LsABRs = {1}
    LsASBRs = {2}
    LsMetrics = {2, 5}
    LsMetricWrap = 4
    LsOthers = {}
    LsTxCap = 2
    MaxLsTicks = 5
    MaxLsEvents = 2

    SpfSelf = 1
    SpfAreas = {0, 1}
    SpfDbs <- Databases
    SpfInf = 14
    SpfWrap = 16
    MaxSpfRuns = 2
INVARIANTS TypeOK AgreementWithoutTies NeighborsSafe FullMissesNothing  
\* The bounds on disturbances and events end every behaviour.
CHECK_DEADLOCK FALSE
