SPECIFICATION FairSpec
CONSTANTS
    MaxAttempts = 3
    InvalidRetries = 1
    MaxFaults = 3
INVARIANTS
    LogIsSound
    Grounded
PROPERTIES
    PaidOnce
    EventuallyCommitted
