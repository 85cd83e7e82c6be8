SPECIFICATION Spec

CONSTANTS
    NFiles = 3
    UPLOAD_CONCURRENCY = 2
    PageSize = 1
    Whole = 3
    PROGRESS_STEP = 1
    Siblings = 1
    MaxAttempts = 2
    MaxFaults = 2

\* The job, and the removal, come to an end.
CHECK_DEADLOCK FALSE

INVARIANTS TypeOK ReadyIsComplete BlockedLeavesNoFiles WholeWhenFinished UploadInv
