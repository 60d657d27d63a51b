CONSTANTS
    f1 = f1
    f2 = f2
    request = request
    unknown = unknown
    Frames = {f1, f2, request, unknown}
    NoFrame = NoFrame
    IdOf <- MCIdOf
    NodeCount = 1
    Period = 2
    TurnTicks = 1
    TickMod = 4

SPECIFICATION Spec

SYMMETRY FrameSymmetry

VIEW TimeView

INVARIANTS
    TypeOK
    Custody
    StatusNotLate
    StatusNotEarly

PROPERTIES
    LossOnlyInBurst
