CONSTANTS
    Windows = 16
    Shift = 5
    Modulus = 4096
    Captures = {200}
    InitialFeedback = 96
    MaxPending = 1
SPECIFICATION BoundedSpec
INVARIANT LocksAfterEight
