SPECIFICATION Spec

CONSTANTS
    a1 = a1
    c1 = c1
    e1 = e1
    NRungs = 1
    Completes = {c1}
    Edits = {e1}
    Approvals = {a1}
    Rejections <- Nobody
    ThumbnailInputs <- NoThumbnail
    VideoVerdicts <- CleanOrBad
    TextVerdicts <- Clean
    MaxAttempts = 2
    TranscodeConcurrency = 2
    MaxFaults = 0
    MaxCrashes = 0

\* The video may come to rest: nobody has to send another request.
CHECK_DEADLOCK FALSE

CONSTRAINT AdminsActAfterUpload
INVARIANT PublishedIsPlayable
