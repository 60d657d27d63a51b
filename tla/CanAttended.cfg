CONSTANTS
    f1 = f1
    f2 = f2
    request = request
    unknown = unknown
    Frames = {f1, request}
    NoFrame = NoFrame
    IdOf <- MCIdOf
    NodeCount = 1
    Period = 1
    TurnTicks = 1
    TickMod = 3

SPECIFICATION FairSpec

PROPERTIES
    Attended
    MailboxesReopen
