\* No fault at all: is what leaves the day file sent?
CONSTANTS
    MaxDay = 0
    TicksPerDay = 1
    KeepDays = 2
    MaxRecords = 2
    Faults <- NoFaults
    MaxFaults = 1
SPECIFICATION Spec
PROPERTY DeletedAfterSent
