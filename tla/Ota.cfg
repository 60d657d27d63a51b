CONSTANTS
    ByteMax = 3
    CounterMod = 2
    SeedBase = 2
    KeyXor = 1
    AuthXor = 3
    BufferSize = 2
    PayloadMax = 2
    FailureLimit = 2
    LockoutTicks = 2
    PollSlack = 1
    TickMod = 4
    MCData = {1}
    ByteXor <- MCXor
    Requests <- MCRequests

SPECIFICATION FairSpec

INVARIANTS
    TypeOK
    SecurityCoherent
    LockoutCoherent
    ProgressNeedsUnlock
    VerifiedImage
    VerifyingPending

PROPERTIES
    LockoutServed
    FailuresRemembered
    NackNeverAdvances
    LockoutReleased
    ImplementsSession
    VerificationResolves
