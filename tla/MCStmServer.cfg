\* Every call that can fail may fail; two commands and two responses, to one
\* of them or to both.
\* The application hangs when the receive thread cannot be started (see
\* Terminates), so a state without a successor is no error.
CONSTANTS
    Capacity = 1
    MaxCommands = 2
    MaxAnswers = 2
    MaxInbox = 1
    Peripherals <- MCPeripherals
    Faults = {"socket", "queue_init", "db_open", "writer", "rx", "send",
              "insert", "update", "summary", "short",
              "stale"}
SPECIFICATION FairSpec
INVARIANTS
    TypeOK
    HandlesOpen
    UniqueIds
    NoInventedResult
    LastResponseWins
    PendingExplained
    SummaryIsFinal
PROPERTIES
    Terminates
    QueuedIsRecorded
CHECK_DEADLOCK FALSE
