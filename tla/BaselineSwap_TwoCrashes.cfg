SPECIFICATION Spec
CONSTANTS
    Build = {A, B}
    A = A
    B = B
    Seed = A
    None = None
    Rotten = Rotten
    Budget <- TwoCrashes
PROPERTY CrashInCommitLeavesBootable
