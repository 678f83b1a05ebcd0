SPECIFICATION FairSpec
CONSTANTS
    BlockUnits = 2
    Blocks = 8
    OverflowBlocks = 2
    TransferSize = 2
    BufSize = 16
    ActiveLimit = 8
    OverflowLimit = 12
    UnderflowLimit = 4
    QueueSize = 4
    PacketSizes = {0, 1, 2}
    MaxLate = 1
INVARIANTS
    NoLostDelta
PROPERTIES
    ElasticSpec
    BytesInTurn
    DropsAboveHalf
    OverflowClears
    StreamIsHeard
