SPECIFICATION StopSpec
CONSTANTS
    single = single
    other = other
    view = view
    stop1 = stop1
    Nobody = Nobody
    NoOp = NoOp
    NoRequest = NoRequest
    Foreign = Foreign
    Ops <- OneEach
    Composites <- OnlyView
    Stops <- OneStop
    MaxForeign = 1
    FileFaults = TRUE
INVARIANTS
    UnresolvedWorkIsFenced
    LiveWorkerOwnsJournal
    NotExecutedIsProof
    CompletedIsProof
    StoppedIsQuiet
PROPERTIES
    FenceIsFinal
    NoReplay
    CompositeIsNotInterleaved
    ImplementsPromise
    WorkersProgress
    StopEnds
    OwnershipEnds
CHECK_DEADLOCK FALSE
