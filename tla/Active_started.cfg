SPECIFICATION Spec
CONSTANTS
    session1 = session1
    session2 = session2
    session3 = session3
    attach1 = attach1
    status1 = status1
    NoSession = NoSession
    Sessions <- OneSession
    Attaches <- NoAttach
    Statuses <- OneStatus
    FileFaults = FALSE
INVARIANT ActiveHasStarted
CHECK_DEADLOCK FALSE
