\* Faults: an app that cannot be executed, and stops that fail.
SPECIFICATION FairSpec
CONSTANTS
    Apps = {a1, a2}
    UI = UI
    None = None
    Handlers = {h1}
    Main = Main
    Sessions = {s1, s2}
    MaxRetries = 1
    NoArgv = {}
    NoExec = {a2}
    StopMayFail = TRUE
INVARIANTS NeverStranded
PROPERTIES BusyEnds ExitIsNoticed KeepsTrying
