SPECIFICATION BoundedSpec
CONSTANTS
    TransferSize = 2
    BufSize = 8
    ActiveLimit = 4
    OverflowLimit = 6
    UnderflowLimit = 2
    QueueSize = 2
    PacketSizes = {0, 1, 2}
    MaxFill = 9
    MaxLost = 2
INVARIANTS
    
    ContentAgreed
PROPERTIES
    
    ChunksCoverPacket
