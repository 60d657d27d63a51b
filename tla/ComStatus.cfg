CONSTANTS
    Ecus = {e1, e2}
    AliveMod = 2
    ByteMax = 2
    TimeoutTicks = 1
    PollSlack = 1
    TickMod = 3
    FreezeLimit = 1
    RecoveryLimit = 2

SPECIFICATION Spec

SYMMETRY NodeSymmetry

PROPERTIES
    StatusVerdict
