SPECIFICATION Spec
SYMMETRY Symmetry
CONSTANTS
    h1 = h1
    h2 = h2
    monitor = monitor
    hdmi = hdmi
    dac = dac
    nothing = nothing
    Handlers <- MCHandlers
    Monitor <- monitor
    Sinks <- MCSinks
    Nothing <- nothing
    MaxVolume = 2
    Ops <- MCOps
    Levels = {3}
    TTL = 2
    MaxRequests = 2
    MaxChanges = 1
INVARIANTS
    TypeOK
PROPERTIES
    NamesFresh
    AnswersExact
    MonitorCatchesUp
