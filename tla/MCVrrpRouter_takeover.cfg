SPECIFICATION FairSpec
CONSTANTS
    Key = {k1, k2}
    Priorities = {100}
    Preempts = {TRUE}
    Listening = {TRUE}
    Advertised = {100, 200}
    Restored = {}
    Operations = {"create", "receive", "config"}
    LinkUpAtStart = TRUE
    RxCapacity = 1
    MaxTimers = 6
    MaxEvents = 4
    k1 = k1
    k2 = k2
INVARIANTS EveryWaiterHasRequest 
PROPERTY TakeoverCompletes
CHECK_DEADLOCK FALSE
