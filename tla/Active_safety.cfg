SPECIFICATION Spec
CONSTANTS
    session1 = session1
    session2 = session2
    session3 = session3
    attach1 = attach1
    status1 = status1
    NoSession = NoSession
    Sessions <- TwoSessions
    Attaches <- OneAttach
    Statuses <- OneStatus
    FileFaults = TRUE
SYMMETRY SessionSymmetry
INVARIANTS
    MarkerIsCommitted
PROPERTIES
    StartedIsActive
CHECK_DEADLOCK FALSE
