\* All commands, lost posts, and restarts of the bridge and of an optimistic server.
SPECIFICATION Spec
SYMMETRY Symmetry
CONSTANTS
    Own = own
    TV = tv0
    Others = {}
    None = none
    Posters = {p1, p2}
    HasAvr = TRUE
    InitialActive = TRUE
    MayFail = TRUE
    Commands = {"activate", "power-on", "set-source", "standby"}
INVARIANTS TypeOK OffOnlyAfterStandby SnapshotConsistent DedupHidesNothing
