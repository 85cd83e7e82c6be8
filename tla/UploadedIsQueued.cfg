SPECIFICATION Spec

CONSTANTS
    c1 = c1
    c2 = c2
    NRungs = 1
    Completes = {c1, c2}
    Edits <- Nobody
    Approvals <- Nobody
    Rejections <- Nobody
    ThumbnailInputs <- NoThumbnail
    VideoVerdicts <- AnyVerdict
    TextVerdicts <- AnyVerdict
    MaxAttempts = 2
    TranscodeConcurrency = 2
    MaxFaults = 1
    MaxCrashes = 1

\* The video may come to rest: nobody has to send another request.
CHECK_DEADLOCK FALSE

INVARIANT UploadedIsQueued
