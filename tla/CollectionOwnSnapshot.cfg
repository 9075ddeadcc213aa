SPECIFICATION Spec
CONSTANTS
    None = None
    w1 = w1
    Waiters = {w1}
    AppearanceTimeout = 1
    ProcessingTimeout = 1
    MissingThreshold = 1
    MaxAge = 1
    Ahead = 0
    MaxTasks = 2
    MaxSnaps = 3
    InitialSnaps <- NoHistory
    ReportSets <- EveryReport
    TaskEnds = {"SUCCEEDED", "CANCELED"}
    SnapEnds = {"PROCESSED", "FAILED"}
CHECK_DEADLOCK FALSE
INVARIANT SnapshotIsTheTasksOwn
