\* Every kind of command once and a packet of a wrong size, with queues that
\* one or two items fill: full queues, dropped commands and responses, an unknown peripheral.
\* The firmware waits for ever when no packet comes, so states without a
\* successor are no error.
CONSTANTS
    QueueLength <- MCQueueLength
    Ids = {1, 2, 3, 4}
    PeripheralOf <- MCPeripheralOf
    Peripherals = {"TIMER", "UART"}
    Peers = {"server"}
    MaxPackets <- MCMaxPackets
    BadPackets = 1
SPECIFICATION FairSpec
INVARIANTS
    TypeOK
    CreatedBeforeUse
PROPERTIES
    AnsweredInOrder
    ImplementsService
    CommandsLeave
CHECK_DEADLOCK FALSE
