\* What the backend receives, and that it goes on receiving, under three faults.
CONSTANTS
    MaxDay = 1
    TicksPerDay = 1
    KeepDays = 2
    MaxRecords = 3
    Faults <- AllFaults
    MaxFaults = 3
SPECIFICATION FairSpec
INVARIANTS
    DeliveryOrder
    AtMostTwice
    FlagMeansThisLine
PROPERTIES
    ImplementsLossyFifo
    ServiceGoesOn
    TakenWhileItsDayLasts
    DeliveredOnceCalm
