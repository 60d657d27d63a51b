CONSTANTS
    NodeCount = 2
    Period = 1
    NodePeriod = 1
    LogTicks = 1
    NoticeTicks = 1
    FirstTicks = 1
    SendTicks = 0
    AliveMod = 2
    ByteMax = 2
    TimeoutTicks = 3
    TickMod = 20
    FreezeLimit = 2
    RecoveryLimit = 2

SPECIFICATION Spec

INVARIANTS
    NoFalseTimeout

VIEW TimeView
