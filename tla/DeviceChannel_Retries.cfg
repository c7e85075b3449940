SPECIFICATION FairSpec
CONSTANTS
    Op = {"op"}
    MaxCalls = 3
    OpOf <- OneOp
    MaxSockets = 3
    MaxFaults = 1
    Capacity = 1
CHECK_DEADLOCK FALSE
INVARIANT NoOrphanWaiter
PROPERTIES ImplementsCallPromise LinkHeals
