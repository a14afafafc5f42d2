\* Records over midnights: what is read, left behind and purged.
CONSTANTS
    MaxDay = 2
    TicksPerDay = 2
    KeepDays = 2
    MaxRecords = 2
    Faults <- AllFaults
    MaxFaults = 2
SPECIFICATION Spec
INVARIANTS
    TypeOK
    NothingSentWaitsAgain
PROPERTY LossHasACause
