CONSTANTS
    SlotTicks = 3
    TenthSlots = 2
    SecondSlots = 4
    CountMod = 3
    TickMod = 7
    LedDelay = 4
    BootLines = 2
    LineTicks = 2
    LogTimeout = 2
    SendTicks = 1
    TurnCalls = 2
    SliceTicks = 1
    TcbBytes = 200
    BUFFER_SIZE = 16
    IndexMod = 16
    ByteMax = 3
    CHECKSUM_BYTE = 3
    OtherIds = {7}
    StatusId = 13
    ResponseId = 17
    MaxDamage = 2
    Monitored <- MCMonitored
    ByteXor <- MCXor

SPECIFICATION AllSpec

INVARIANTS
    AllTypeOK
    NoLineLost
    OnlyRefusedMissing

PROPERTIES
    HookOnTime
    BootLogEndsThere
    NothingOverwritten
    FramesJudged
