\* A leader and three descendants: one obeys, one is stuck in the kernel, one may
\* not be signalled by the server.
SPECIFICATION FairSpec
CONSTANTS
    Procs = {leader, c1, c2, c3}
    Leader = leader
    Unkillable = {c2, c3}
    Foreign = {c3}
    TermPolls = 2
    KillPolls = 2
INVARIANTS TypeOK NilMeansGone ErrorMeansBeyondKill
PROPERTIES StopEnds
CHECK_DEADLOCK FALSE
