\* A packet of a wrong size arrives while a command is being run.
\* The firmware waits for ever when no packet comes, so states without a
\* successor are no error.
CONSTANTS
    QueueLength <- MCQueueLength
    Ids = {1}
    PeripheralOf <- MCPeripheralOf
    Peripherals = {"TIMER", "UART"}
    Peers = {"server", "other"}
    MaxPackets <- MCMaxPackets
    BadPackets = 1
SPECIFICATION Spec
INVARIANT RepliesToCommandSender
CHECK_DEADLOCK FALSE
