SPECIFICATION FairSpec
CONSTANTS
    None = None
    b1 = b1
    b2 = b2
    Build = {b1, b2}
    Fault = {}
    MaxFaults = 0
    MaxRolled = 1
    MaxLive = 1
    MaxIds = 1
    MaxStarts = 2
    MaxResults = 2
    MaxRepairs = 0
PROPERTY EvidenceKept
PROPERTY ResultRecorded
PROPERTY DeadRowsLeave
