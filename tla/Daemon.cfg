\* Every source of the key, CEC setting and faulty list, command lines and tables;
\* the daemon is killed or fails twice.
SPECIFICATION FairSpec
CONSTANTS
    Disks <- MCDisks
    NewKeys <- MCNewKeys
    Tried <- MCTried
    Ids <- MCIds
    Escaped <- MCEscaped
    MaxMishaps = 2
INVARIANTS
    TypeOK
    OnlyTrustedServed
    HolderServed
    SameCommand
PROPERTIES
    RecoversOnceUp
