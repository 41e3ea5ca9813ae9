\* Two publishers, two clients for one place of the cap, who may stop reading; a
\* buffer that fills up.
SPECIFICATION FairSpec
CONSTANTS
    Publishers = {manager, audio}
    Conns = {c1, c2}
    BufSize = 2
    MaxSubs = 1
    MaxEvents = 2
INVARIANTS TypeOK NoSendOnClosed InOrder LostOnlyWhenFull
PROPERTIES PublishEnds SlotFreed
CHECK_DEADLOCK FALSE
