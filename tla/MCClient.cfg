\* A prompt broker and one that may stall anywhere, between the bytes of a packet too.
CONSTANTS
    KeepAlive = 3
    SocketTimeout = 2
    ClockMod = 11
    MaxGap = 1
    AnswerIn = 1
    RestIn = 1
    RestBytes = 2
    Backlog = 1
SPECIFICATION ClientFairSpec
VIEW Differences
INVARIANTS
    InStep
    HungIsNoticed
    SocketMeansSession
    SilenceBounded
PROPERTIES
    NoFalseAlarm
    CallsReturn
