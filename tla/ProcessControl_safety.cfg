SPECIFICATION FairSpec
CONSTANTS
    MaxMembers = 2
    MaxPolls = 1
INVARIANTS
    ConfirmedExit
    OnlyOwnedSignalled
    SignalsReported
PROPERTIES
    NoSignalAfterExit
    TerminationEnds
    HonoursContract
    WorkIsBounded
CHECK_DEADLOCK FALSE
