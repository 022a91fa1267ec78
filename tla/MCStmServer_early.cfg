\* Nothing fails: a response is faster than the insertion of its command.
CONSTANTS
    Capacity = 1
    MaxCommands = 1
    MaxAnswers = 1
    MaxInbox = 1
    Peripherals <- MCPeripherals
    Faults = {}
SPECIFICATION Spec
INVARIANT UpdateFindsRow
