\* Speeds stand for speed and duplex.  What may happen is in MCCases.
CONSTANTS
    Speeds = {"10", "100"}
    BootSpeed = "100"
    QueueLength = 1
    Cases <- MCCases
SPECIFICATION FairSpec
INVARIANTS
    TypeOK
    MessagesWhole
    LinkUpRuns
PROPERTIES
    LogEnds
    NetworkFollowsCable
    LedShowsCable
CHECK_DEADLOCK FALSE
