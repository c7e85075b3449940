SPECIFICATION Spec
CONSTANTS
    Build = {A, B, C}
    A = A
    B = B
    C = C
    Seed = A
    None = None
    Rotten = Rotten
    Budget <- AnyFault
SYMMETRY Candidates
INVARIANT TrustedGenerations
INVARIANT UnprovenOnlyUnderProbe
INVARIANT BootableAtRest
INVARIANT RestoredFromPreviousIsLogged
PROPERTY AppliedIsCommitted
PROPERTY BootableKept
PROPERTY ImplementsUpdateTrial
