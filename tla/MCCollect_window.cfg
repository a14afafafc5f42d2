\* Samples against the clock and failing reads, with the sensor name bound.
CONSTANTS
    Units = 3
    Minute = 8
    Period = 4
    Window = 2
    BateraiBound = TRUE
    CollectFaults <- AllCollectFaults
    MaxCollectFaults = 2
SPECIFICATION CollectFairSpec
INVARIANTS
    OneHandoverAtZero
    WindowServed
PROPERTY EveryUnitSampled
