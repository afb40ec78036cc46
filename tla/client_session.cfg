SPECIFICATION Spec
CONSTANTS
    MaxCommands = 5
    MaxEvents = 2
    MaxBroadcasts = 2
    Troubles <- AllTroubles
    NoId = NoId
INVARIANTS
    TypeOK
    CounterIsShort
    SocketFollowsFlags
    NothingAfterDisconnect
PROPERTIES
    QuietLogoutEnds
    OnlyQuietLogoutsEnd
CHECK_DEADLOCK FALSE
