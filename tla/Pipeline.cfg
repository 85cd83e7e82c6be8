SPECIFICATION Spec

CONSTANTS
    c1 = c1
    r1 = r1
    a1 = a1
    NRungs = 2
    Completes = {c1}
    Edits <- Nobody
    Approvals = {a1}
    Rejections = {r1}
    ThumbnailInputs <- NoThumbnail
    VideoVerdicts <- AnyVerdict
    TextVerdicts <- Clean
    MaxAttempts = 2
    TranscodeConcurrency = 2
    MaxFaults = 0
    MaxCrashes = 0

\* The video may come to rest: nobody has to send another request.
CHECK_DEADLOCK FALSE

ACTION_CONSTRAINT ApprovalsComeLate

INVARIANT TypeOK
INVARIANT BlockedLeavesNoSegments
INVARIANT PlaylistIsComplete
INVARIANT RestInv

