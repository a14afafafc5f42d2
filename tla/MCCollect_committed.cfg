\* The file as committed, no fault: is anything recorded?
CONSTANTS
    Units = 3
    Minute = 4
    Period = 4
    Window = 2
    BateraiBound = FALSE
    CollectFaults <- NoCollectFaults
    MaxCollectFaults = 0
SPECIFICATION CollectFairSpec
PROPERTY EventuallyRecorded
