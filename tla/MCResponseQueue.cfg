\* A capacity of 2 makes both indices wrap and lets the queue fill.
CONSTANTS
    Capacity = 2
    Records <- MCRecords
    NoRecord <- MCNoRecord
    Producers <- MCProducers
    Consumers <- MCConsumers
    Closers <- MCClosers
    Nobody = "nobody"
SPECIFICATION FairSpec
INVARIANTS
    TypeOK
    MutualExclusion
    RingConsistent
    NoLostWakeup
PROPERTIES
    ImplementsFifo
    ShutdownReleasesPop
    PushReturns
    PopDelivers
