\* Each of the three tests; two commands one after the other.
CONSTANTS
    Buses = {"uart", "spi", "i2c"}
    Patterns = {"p", "q"}
    Timeout = 1
    MaxIterations = 2
    MaxTests = 2
SPECIFICATION FairSpec
INVARIANTS
    TypeOK
    PassMeansTransferred
    StartsOnIdleHal
    NoFalseAlarm
PROPERTIES
    TestEnds
