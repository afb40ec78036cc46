SPECIFICATION PartsSpec
CONSTANTS
    local = local
    remote = remote
    Names = {alice, bob}
    Hosts = {local, remote}
    Ports <- SomePorts
    Word = 65536
    Listening <- Servers
    Home <- LocalHome
    NoUser = NoUser
    NoPeer = NoPeer
    MaxLines = 5
    Vocabulary <- AllWords
    Reporters = {"alice", "bob"}
    Files <- SomeFiles
    Broken = Broken
    Keys <- SortedKeys
    EventNames <- SortedNames
    Number <- Times
    MaxReports = 3
    Texts <- AllTexts
    Bad <- BadTexts
    InitialCapacity = 1
    MaxFrames = 2
    MaxLosses = 1
INVARIANTS
    TypeOK
    WholeLinesSurvive
    SessionBeforeRequests
    StoredAsReported
    TameReportsAreRead
    SummaryTellsLatest
    OrderedWithinWidth
    WholeFramesDown
PROPERTIES
    LoginGoesWhereTheLastSaid
    UpIsAChannel
CHECK_DEADLOCK FALSE
