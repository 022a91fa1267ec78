\* Nothing fails: the target still answers a test of the process before.
CONSTANTS
    Capacity = 1
    MaxCommands = 1
    MaxAnswers = 1
    MaxInbox = 1
    Peripherals <- MCPeripherals
    Faults = {"stale"}
SPECIFICATION Spec
INVARIANT ResultOfOwnTest
