SPECIFICATION Spec

CONSTANTS
    c1 = c1
    e1 = e1
    a1 = a1
    NRungs = 1
    Completes = {c1}
    Edits = {e1}
    Approvals = {a1}
    Rejections <- Nobody
    ThumbnailInputs <- AnyThumbnail
    VideoVerdicts <- CleanOrBad
    TextVerdicts <- OneBlocking
    MaxAttempts = 2
    TranscodeConcurrency = 2
    MaxFaults = 1
    MaxCrashes = 1

\* The video may come to rest: nobody has to send another request.
CHECK_DEADLOCK FALSE

CONSTRAINT EditScenarios

INVARIANTS AcceptedUploadsSettle LedgerInv StatusIsRecorded ApprovedWasSeen MediaIsStored
