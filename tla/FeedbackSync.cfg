CONSTANTS
    Windows = 3
    Shift = 1
    Modulus = 16
    Captures = {2, 5}
    InitialFeedback = 9
    MaxPending = 2
SPECIFICATION BoundedFairSpec
INVARIANTS NewestIsNext
PROPERTIES SendsFullWindow 
