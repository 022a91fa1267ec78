\* One UART test whose transfer meets a line error.
CONSTANTS
    Buses = {"uart"}
    Patterns = {"p", "q"}
    Timeout = 1
    MaxIterations = 1
    MaxTests = 1
SPECIFICATION Spec
INVARIANT NoAssertionFails
