\* CEC mode: a server whose own activate at startup has just failed.
SPECIFICATION FairSpec
CONSTANTS
    CecMode = TRUE
    ActivateOnStart = TRUE
    ServerActivates = TRUE
    BlankTimeout = 3
    Throttle = 2
    PollInterval = 3
    Grace = 3
    ServerThrottle = 2
    MaxElapsed = 2
PROPERTIES RetriesUntilDone
