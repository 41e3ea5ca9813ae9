\* An optimistic server, a bridge that missed the TV turning on.
SPECIFICATION Spec
SYMMETRY Symmetry
CONSTANTS
    Own = own
    TV = tv0
    Others = {player}
    None = none
    Posters = {p1, p2}
    HasAvr = TRUE
    InitialActive = TRUE
    MayFail = FALSE
    Commands = {}
INVARIANTS CorrectOnceEventsArrive
