\* Each of the two tests; two commands one after the other.  A tick of 3 counts,
\* a delay of 3 ticks and a tolerance of one tick, as 1000 us are in the code.
CONSTANTS
    Kinds = {"timer", "adc"}
    Tick = 3
    DelayTicks = 3
    Tolerance = 3
    CounterSize = 16
    MaxLate = 5
    Levels <- MCLevels
    RawTolerance = 1
    Readings <- MCReadings
    AdcTimeout = 1
    MaxIterations = 2
    MaxTests = 2
SPECIFICATION FairSpec
INVARIANTS
    TypeOK
    PassMeansMeasured
    NoFalseAlarm
    ConverterStopped
PROPERTY TestEnds
