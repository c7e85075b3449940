SPECIFICATION Spec
CONSTANTS
    Device = {d1, d2}
    Code = {c1, c2}
    MaxOutstanding = 1
    MaxTokens = 2
    MaxChannelTokens = 2
    MaxApiTokens = 2
    MaxFaults = 2
SYMMETRY Symmetry
CHECK_DEADLOCK FALSE
INVARIANTS CodeAdmitsOnce WithdrawnStaysOut EnrolledStaysAdmitted TokensNameDevices
