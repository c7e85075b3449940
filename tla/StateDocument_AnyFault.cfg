SPECIFICATION Spec
CONSTANTS
    None = None
    b1 = b1
    b2 = b2
    Build = {b1}
    Fault = {"read", "write", "tear", "rotate"}
    MaxFaults = 1
    MaxRolled = 1
    MaxLive = 1
    MaxIds = 2
    MaxStarts = 2
    MaxResults = 1
    MaxRepairs = 1
INVARIANT VisibleUnlessClobbered
INVARIANT CapHolds
INVARIANT NoRepairSkipped
