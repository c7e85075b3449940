SPECIFICATION FairSpec
CONSTANTS
    Build = {A, B}
    A = A
    B = B
    Seed = A
    None = None
    Rotten = Rotten
    Budget <- Live
PROPERTY RequestConsumed
PROPERTY AppComesBack
