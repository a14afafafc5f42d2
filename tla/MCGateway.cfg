\* The containers together, over two windows of a day.
CONSTANTS
    MaxDay = 0
    TicksPerDay = 4
    KeepDays = 2
    MaxRecords = 2
    Faults <- GatewayFaults
    MaxFaults = 3
    Units = 1
    Minute = 2
    Period = 2
    Window = 1
    BateraiBound = TRUE
    CollectFaults <- SensorFaults
    MaxCollectFaults = 2
SPECIFICATION GatewaySpec
PROPERTY RebootsLoseOnce
