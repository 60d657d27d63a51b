CONSTANTS
    ByteMax = 1
    CounterMod = 2
    SeedBase = 1
    KeyXor = 1
    AuthXor = 1
    BufferSize = 2
    PayloadMax = 1
    FailureLimit = 2
    LockoutTicks = 1
    PollSlack = 0
    TickMod = 2
    Requests = {}
    WrongKeyXor = 0
    WrongCrcXor = 1
    Chunk <- MCChunk
    ByteXor <- MCXor

SPECIFICATION BSpec

INVARIANTS
    ShownIsTrue

PROPERTIES
    FailuresFromLoss
    OneChunkNoticed
    VerifyingShownIfSent

VIEW PanelView
