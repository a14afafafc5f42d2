\* The sketch over boots, portals and outages; two calls of ping().
CONSTANTS
    PingCounts = {0, 1}
    DefaultCount = 2
    MaxCalls = 2
    Heap = 3
    Mailbox = 2
    Twice = 1
SPECIFICATION NodePingSpec
INVARIANTS
    SleepsInOrder
    CountsAddUp
PROPERTIES
    SketchKeepsReporting
    PingReturns
CHECK_DEADLOCK FALSE
