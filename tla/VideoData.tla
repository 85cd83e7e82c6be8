------------------------------ MODULE VideoData ------------------------------
(***************************************************************************)
(* What the API process and the worker process share about one video: its  *)
(* row, its renditions and its moderation history in Postgres, its objects *)
(* in S3, and its jobs in the BullMQ queues.  Videos never refer to each   *)
(* other, so one video is modelled; what they compete for, the worker      *)
(* slots, is left to fairness.                                             *)
(*                                                                         *)
(* A process of the model is a job or an API request.  pc says what it     *)
(* does next; the other locals are the values a handler holds in memory    *)
(* between two awaits.  One action is one await that touches shared state. *)
(***************************************************************************)
EXTENDS ModerationPolicy, Sequences, FiniteSets

CONSTANTS
    NRungs,               \* renditions ladderFor gives for the source height
    Completes,            \* POST /videos/:publicId/complete requests
    Edits,                \* PATCH /videos/:publicId requests
    Approvals,            \* admin approve requests
    Rejections,           \* admin reject requests
    ThumbnailInputs,      \* which thumbnail fields the edits may carry
    VideoVerdicts,        \* what the analysis of the frames may decide
    TextVerdicts,         \* what the analysis of title and description may
    MaxAttempts,          \* the "attempts" option of every job
    TranscodeConcurrency, \* TRANSCODE_CONCURRENCY
    MaxFaults,            \* bound: awaits that reject, and restarts
    MaxCrashes            \* bound: restarts of the worker or of the API

Admins   == Approvals \cup Rejections
Requests == Completes \cup Edits \cup Admins

ASSUME RungsAssumption == NRungs \in Nat \ {0}

ASSUME RequestsAssumption ==
    /\ Completes \cap Edits = {}
    /\ (Completes \cup Edits) \cap Admins = {}
    /\ Approvals \cap Rejections = {}
    /\ {"none", "frame"} \cap Edits = {}

ASSUME InputsAssumption ==
    /\ ThumbnailInputs \subseteq {"none", "index", "custom"}
    /\ VideoVerdicts \subseteq ModerationStatus \ {"pending"}
    /\ TextVerdicts  \subseteq ModerationStatus \ {"pending"}

ASSUME BoundsAssumption ==
    /\ MaxAttempts \in Nat \ {0}
    /\ TranscodeConcurrency \in Nat \ {0}
    /\ MaxFaults \in Nat
    /\ MaxCrashes \in Nat

-----------------------------------------------------------------------------
VARIABLES
    row,       \* the videos row
    rend,      \* video_renditions.status of each rung; "none" before the row
    history,   \* video_moderations: source and status of each entry
    s3,        \* the objects stored for the video
    jobs,      \* BullMQ: state, attemptsMade and stalled count of each job
    waitFor,   \* BullMQ: rungs whose job the finalize job still waits for
    pc,        \* next step of each job handler and API request
    snap,      \* the Video entity a completeUpload or updateDetails holds
    ready,     \* the READY renditions a publish has read
    decision,  \* the decision an apply carries
    ladder,    \* ensureRendition: current rung and the status found for it
    faults,    \* awaits that have rejected so far, and restarts
    crashes    \* restarts so far

db     == <<row, rend, history>>
queues == <<jobs, waitFor>>
locals == <<snap, ready, decision, ladder>>
budget == <<faults, crashes>>
vars   == <<db, s3, queues, pc, locals, budget>>

-----------------------------------------------------------------------------
(* Rows. *)

Rungs == 1..NRungs

VideoStatus ==
    {"awaiting_upload", "uploaded", "analyzing", "transcoding", "ready", "failed"}

RenditionStatus == {"pending", "encoding", "ready", "failed"}

(* thumbnailKey names a frame or the custom image of an edit; variantsKey    *)
(* stands for the three small/medium/large keys, which an edit sets at once. *)
VideoRow == [status           : VideoStatus,
             isPublic         : BOOLEAN,
             moderationStatus : ModerationStatus,
             hlsMasterKey     : BOOLEAN,
             storyboard       : BOOLEAN,
             candidates       : BOOLEAN,
             thumbnailKey     : {"none", "frame"} \cup Edits,
             variantsKey      : {"none"} \cup Edits]

(* The row createUpload saves. *)
NewRow == [status           |-> "awaiting_upload",
           isPublic         |-> FALSE,
           moderationStatus |-> "pending",
           hlsMasterKey     |-> FALSE,
           storyboard       |-> FALSE,
           candidates       |-> FALSE,
           thumbnailKey     |-> "none",
           variantsKey      |-> "none"]

(* What listVideos and getFeed select. *)
Published ==
    /\ row.isPublic
    /\ row.status = "ready"
    /\ row.moderationStatus = "approved"

-----------------------------------------------------------------------------
(* Objects.  Under hls/<publicId>/: the segments of each rung, the master    *)
(* playlist (the set of rungs it lists, empty when there is no object) and   *)
(* the storyboard sheets.  Under thumbnails/<publicId>/: the frames, the     *)
(* custom images and the resized variants.                                   *)

Objects == [source     : {"absent", "short", "full"},
            segments   : SUBSET Rungs,
            master     : SUBSET Rungs,
            storyboard : BOOLEAN,
            frames     : BOOLEAN,
            custom     : SUBSET Edits,
            variants   : SUBSET Edits]

NoObjects == [source |-> "absent", segments |-> {}, master |-> {},
              storyboard |-> FALSE, frames |-> FALSE, custom |-> {}, variants |-> {}]

(* deletePrefix lists and deletes, page by page: one step for a prefix. *)
deleteHls(o)        == [o EXCEPT !.segments = {}, !.master = {}, !.storyboard = FALSE]
deleteThumbnails(o) == [o EXCEPT !.frames = FALSE, !.custom = {}, !.variants = {}]

ThumbnailExists(key) ==
    \/ key = "frame" /\ s3.frames
    \/ key \in s3.custom

-----------------------------------------------------------------------------
(* Jobs: <<queue, key>>, the key being what distinguishes the jobId. *)

AnalyzeUpload    == <<"analyze", "upload">>       \* analyze-<publicId>
AnalyzeAgain(a)  == <<"analyze", a>>              \* analyze-<publicId>-<now>
Transcode(r)     == <<"transcode", r>>            \* transcode-<publicId>-<rung>
Finalize         == <<"finalize", "flow">>        \* finalize-<publicId>
ModerateVideo    == <<"moderate", "video">>       \* moderate-video-<publicId>
ModerateText(e)  == <<"moderate", e>>             \* moderate-text-<publicId>-<now>

AnalyzeJobs   == {AnalyzeUpload} \cup {AnalyzeAgain(a) : a \in Approvals}
TranscodeJobs == {Transcode(r) : r \in Rungs}
ModerateJobs  == {ModerateVideo} \cup {ModerateText(e) : e \in Edits}
PublishJobs   == TranscodeJobs \cup {Finalize}
Jobs          == AnalyzeJobs \cup PublishJobs \cup ModerateJobs

Processes == Jobs \cup Requests
Savers    == Completes \cup Edits
Deciders  == ModerateJobs \cup Admins

(* A request is no job, and the two ids without a time stand for no request. *)
ASSUME NamesAssumption ==
    /\ Requests \cap Jobs = {}
    /\ "upload" \notin Approvals
    /\ "video" \notin Edits

Queue(j) == j[1]

NoJob    == [state |-> "none", made |-> 0, stalls |-> 0]
JobState == {"none", "waiting", "waiting-children", "active", "failed"}
Job      == [state : JobState, made : Nat, stalls : 0..1]

(* Adding a jobId the queue already holds, in whatever state, is ignored.  *)
Add(j) == [jobs EXCEPT ![j] = IF @.state = "none" THEN [@ EXCEPT !.state = "waiting"]
                                                  ELSE @]

LastAttempt(j) == jobs[j].made + 1 >= MaxAttempts

(* What an apply in flight carries: the decision it writes, whether approve  *)
(* found the video blocked, and whether a moderation job is in its catch.    *)
NoDecision == [source     |-> "admin",
               status     |-> "pending",
               wasBlocked |-> FALSE,
               fallback   |-> FALSE]

Decision == [source     : ModerationSource,
             status     : ModerationStatus,
             wasBlocked : BOOLEAN,
             fallback   : BOOLEAN]

(* ensureRendition starts at the first rung of the ladder. *)
FirstRung == [rung |-> 1, found |-> "none"]
Ladder    == [rung : Rungs, found : RenditionStatus \cup {"none"}]

(* The awaits a process may be at, and how a process ends. *)
Steps ==
    {"idle", "start", "return", "throw", "fatal", "catch", "done", "refused",
     "head", "save", "add", "custom", "variants", "save_variants",
     "frames", "candidates", "find_rendition", "save_rendition", "transcoding",
     "flow", "moderation",
     "rendition", "encoding", "upload", "ready", "recheck", "cleanup",
     "publish", "publish_put", "publish_update", "no_rendition", "sheets", "storyboard",
     "finish", "apply", "apply_row", "remove_hls", "remove_thumbnails",
     "reprocess", "reprocess_row", "reprocess_add"}

Goto(p, label) == pc' = [pc EXCEPT ![p] = label]

(* An await rejects, or a process restarts; the budgets bound the model. *)
Faulty == faults < MaxFaults /\ faults' = faults + 1 /\ UNCHANGED crashes

Restart ==
    /\ faults < MaxFaults /\ faults' = faults + 1
    /\ crashes < MaxCrashes /\ crashes' = crashes + 1
=============================================================================
