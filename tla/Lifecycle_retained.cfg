SPECIFICATION Spec
CONSTANTS
    start1 = start1
    start2 = start2
    stop1 = stop1
    stop2 = stop2
    prune1 = prune1
    prune2 = prune2
    NoDirectory = NoDirectory
    Starts <- OneStart
    Stops <- NoStop
    Prunes <- OnePrune
    Killable <- NoStart
    FileFaults = FALSE
INVARIANT FailedIsRetained
CHECK_DEADLOCK FALSE
