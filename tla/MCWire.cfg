\* Every format the node writes or reads, one component at a time.
CONSTANTS
    MaxPacket = 1024
    HeaderMax = 5
    TopicLens <- SmallTopics
    PayloadLens <- SmallLoads
    IdMod = 4
    BufferSize = 24
    HeaderRoom = 5
    VersionLen = 7
    StringLens = {1, 7, 15, 16}
    MessageIds = {1, 2}
    Absent = Absent
    MaxRequests = 4
    Domains <- WireDomains
    Star = Star
    Www = "www"
    Dot = "."
    DnsNames <- WireNames
    OpCodes = {0, 4}
    Counts = {0, 1}
    ErrorCodes = {0, 3}
    Queries <- WireQueries
    FormTexts <- WireForms
    Files <- WireFiles
    Boundary <- WireBoundary
    BufLen = 2
    Slots = 3
    FormFields = {0, 2, 3, 4}
    Handlers <- WireHandlers
    HeaderNames = {"Content-Length", "Content-Encoding", "Cache-Control", "Location"}
    NotFoundCalls <- WireNotFound
    HttpRequests <- WireRequests
    FileSystem <- WireStored
    FileSize <- WireSize
    FileType <- WireType
    Gz <- WireGzOf
    MaxReplies = 2
    Scans <- WireScans
    MinQualities <- WireMins
    MaxParams = 1
    ParamLengths = {5}
    Behind = {0, 1}
    Typed = {0, 4, 5}
    Forms = 2
    Addresses = {118, 119}
    Chips = {96, 0}
    NoChip = 0
    Samplings = {0, 5}
    Durations = {0, 5}
    Filters = {0}
    MaxMeasured = 2
SPECIFICATION WireSpec
INVARIANTS
    WrittenAsMeant
    ReadAsWritten
    AcksNameMessages
    RequestsAsAsked
    AnsweredOnceInForm
    BodyAsSent
    ReplyReadsBack
    StrongestShownOnce
    CutOnce
    MeasuresAsSet
CHECK_DEADLOCK FALSE
