SPECIFICATION Spec
CONSTANTS
    Apps = {a1}
    UI = UI
    None = None
    Handlers = {h1}
    Main = Main
    Sessions = {s1, s2, s3}
    MaxRetries = 1
    NoArgv = {}
    NoExec = {}
    StopMayFail = FALSE
INVARIANT SingleSlot
