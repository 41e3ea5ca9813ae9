\* CEC mode, calls that fail for a while, frames shorter than the grace period.
SPECIFICATION FairSpec
CONSTANTS
    CecMode = TRUE
    ActivateOnStart = TRUE
    ServerActivates = TRUE
    BlankTimeout = 3
    Throttle = 2
    PollInterval = 3
    Grace = 3
    ServerThrottle = 2
    MaxElapsed = 2
INVARIANTS TypeOK AbsorbedInQuickFrames PendingNeverBlanks
PROPERTIES RetriesUnlessThrottled ExternalWake
