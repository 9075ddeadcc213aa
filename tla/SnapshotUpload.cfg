\* Two Wait calls on one upload; an appearance deadline shorter than the
\* processing deadline. Nothing need be left to do once the calls have returned.
SPECIFICATION FairSpec
CONSTANTS
    None = None
    w1 = w1
    w2 = w2
    Waiters = {w1, w2}
    AppearanceTimeout = 1
    ProcessingTimeout = 2
    MissingThreshold = 2
    MaxAge = 2
    UploadStates <- Accepted
    SnapEnds <- Ends
CHECK_DEADLOCK FALSE
INVARIANTS OkMeansProcessed SavedHandleHolds TimeoutsNotEarly
PROPERTIES DisappearedMeansDeleted KeepsPromise WaitEnds
