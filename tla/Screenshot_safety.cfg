SPECIFICATION Spec
CONSTANTS
    export = export
    save = save
    view = view
    stop1 = stop1
    n1 = n1
    NoOp = NoOp
    NoCall = NoCall
    NoFile = NoFile
    Previous = Previous
    Foreign = Foreign
    Calls <- ThreeCalls
    Composites <- OnlyView
    Explicit <- OnlySave
    Implicit <- OnlyExport
    Stops <- OneStop
    Names <- OneName
    MaxForeign = 1
    FileFaults = TRUE
INVARIANTS
    StagedIsTracked
    StoppedLeavesNothing
    WriterKeepsItsFile
    PublishedIsValidated
PROPERTIES
    NothingPublishedAfterFence
    OthersAreKept
    ImplementsPromise
CHECK_DEADLOCK FALSE
