CONSTANTS
    Writers = {w1, w2}
    RingSize = 4
    EpSize = 2
    MsgSizes = {1, 3, 4}
    MaxBytes = 9
SPECIFICATION BoundedFairSpec
INVARIANTS BacklogKept
PROPERTIES  AllSent
