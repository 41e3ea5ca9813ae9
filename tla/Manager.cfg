\* Two clients, two apps, and retries that run out.
SPECIFICATION Spec
SYMMETRY Symmetry
CONSTANTS
    Apps = {a1, a2}
    UI = UI
    None = None
    Handlers = {h1, h2}
    Main = Main
    Sessions = {s1, s2, s3}
    MaxRetries = 1
    NoArgv = {}
    NoExec = {}
    StopMayFail = FALSE
INVARIANTS TypeOK KillersApart AppMatchesProcess
    OneDriver StateMatchesSlot NoStrayLeader LastEventIsCurrent
PROPERTIES RefinesSlot
