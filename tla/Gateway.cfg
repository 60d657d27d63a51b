CONSTANTS
    NodeCount = 1
    Period = 1
    NodePeriod = 1
    LogTicks = 1
    NoticeTicks = 1
    FirstTicks = 2
    SendTicks = 0
    AliveMod = 12
    ByteMax = 2
    TimeoutTicks = 3
    TickMod = 20
    FreezeLimit = 2
    RecoveryLimit = 2

SPECIFICATION Spec

INVARIANTS
    TypeOK
    PollsInTime
    NoFalseFreeze

VIEW TimeView
