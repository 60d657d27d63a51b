CONSTANTS
    Ecus = {e1}
    AliveMod = 3
    ByteMax = 2
    TimeoutTicks = 2
    PollSlack = 1
    TickMod = 4
    FreezeLimit = 2
    RecoveryLimit = 2

SPECIFICATION Spec

PROPERTIES
    ChangeClearsFreeze
