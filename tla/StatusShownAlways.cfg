CONSTANTS
    ByteMax = 3
    CounterMod = 1
    SeedBase = 2
    KeyXor = 1
    AuthXor = 3
    BufferSize = 1
    PayloadMax = 1
    FailureLimit = 2
    LockoutTicks = 1
    PollSlack = 0
    TickMod = 2
    MCData = {1}
    ByteXor <- MCXor
    Requests <- MCRequests

SPECIFICATION PSpec

PROPERTIES
    VerifyingShown
