\* No fault at all: is every record sent in the end?
CONSTANTS
    MaxDay = 1
    TicksPerDay = 1
    KeepDays = 2
    MaxRecords = 1
    Faults <- NoFaults
    MaxFaults = 1
SPECIFICATION FairSpec
PROPERTY EventuallySent
