SPECIFICATION Spec
CONSTANTS
    None = None
    w1 = w1
    Waiters = {w1}
    AppearanceTimeout = 1
    ProcessingTimeout = 1
    MissingThreshold = 2
    MaxAge = 1
    Ahead = 1
    MaxTasks = 2
    MaxSnaps = 3
    InitialSnaps <- ImportOnTop
    ReportSets <- EveryReport
    TaskEnds = {"SUCCEEDED"}
    SnapEnds = {"PROCESSED"}
CHECK_DEADLOCK FALSE
INVARIANTS SnapshotFollowsTask SavedHandleHolds DisappearedMeansDeleted
