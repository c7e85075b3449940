SPECIFICATION FairSpec
CONSTANTS
    None = None
    seed = seed
    b1 = b1
    b2 = b2
    v0 = v0
    v1 = v1
    v2 = v2
    c1 = c1
    c2 = c2
    Seed = seed
    Client = {c1}
    Waiter = {c1}
    Guarded = {c1}
    Build = {seed, b1}
    Version = {v0, v1, v2}
    VersionOf <- MCVersionOf
    Fault = {"crash"}
    MaxRuns = 2
    MaxFaults = 1
PROPERTY RequestAnswered
PROPERTY RollbackRecorded
