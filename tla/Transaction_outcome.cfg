SPECIFICATION Spec
CONSTANTS
    single = single
    other = other
    view = view
    stop1 = stop1
    Nobody = Nobody
    NoOp = NoOp
    NoRequest = NoRequest
    Foreign = Foreign
    Ops <- TwoSingles
    Composites <- NoComposite
    Stops <- OneStop
    MaxForeign = 0
    FileFaults = FALSE
INVARIANTS
    NotExecutedOnlyWhenProven
CHECK_DEADLOCK FALSE
