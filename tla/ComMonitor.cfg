CONSTANTS
    Ecus = {e1}
    AliveMod = 2
    ByteMax = 3
    TimeoutTicks = 2
    PollSlack = 1
    TickMod = 4
    FreezeLimit = 3
    RecoveryLimit = 2

SPECIFICATION FairSpec

INVARIANTS
    TypeOK
    TimeoutVerdict
    ChecksumVerdict
    FreezeNoticed

PROPERTIES
    FreezeGenuine
    SilenceReported
