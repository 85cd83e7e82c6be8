SPECIFICATION FairSpec

CONSTANTS
    c1 = c1
    NRungs = 2
    Completes = {c1}
    Edits <- Nobody
    Approvals <- Nobody
    Rejections <- Nobody
    ThumbnailInputs <- NoThumbnail
    VideoVerdicts <- Clean
    TextVerdicts <- Clean
    MaxAttempts = 1
    TranscodeConcurrency = 1
    MaxFaults = 2
    MaxCrashes = 1

\* The video may come to rest: nobody has to send another request.
CHECK_DEADLOCK FALSE

ACTION_CONSTRAINT FailuresHitTheFlow

PROPERTY NoUploadIsLost
INVARIANT MediaInv
