SPECIFICATION FairSpec
CONSTANTS
    None = None
    w1 = w1
    w2 = w2
    Waiters = {w1, w2}
    AppearanceTimeout = 1
    ProcessingTimeout = 1
    MissingThreshold = 2
    MaxAge = 2
    Ahead <- Behind
    MaxTasks = 1
    MaxSnaps = 1
    InitialSnaps <- NoHistory
    ReportSets <- TaskReport
    TaskEnds = {"SUCCEEDED", "CANCELED"}
    SnapEnds = {"PROCESSED", "FAILED"}
CHECK_DEADLOCK FALSE
INVARIANTS TypeOK OkMeansProcessed TimeoutsNotEarly
PROPERTY PhaseAdvances KeepsPromise WaitEnds
