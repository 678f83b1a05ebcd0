CONSTANTS
    AddressMod = 32
    AmountMod = 8
    Header = 2
    Register = 1
    Maps <- MapsMC
    Packets <- PacketsMC
    MaxTime = 6
    MaxPulses = 2
    Alternates <- AlternatesMC
    ZeroBw = 0
    Invalid = 255
    Chunk = 3
    Answers = {0, 2, 3, 7}
    Timeouts = {0, 2}
    MaxPackets = 3
    MaxChanges = 3
SPECIFICATION Spec
CHECK_DEADLOCK FALSE
INVARIANTS
    
    ClockNeverFast
    NoChangeForgotten
    

    
