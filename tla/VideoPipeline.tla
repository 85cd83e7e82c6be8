----------------------------- MODULE VideoPipeline -----------------------------
(***************************************************************************)
(* One video from createUpload on: the owner's and the admin's requests in *)
(* the API process, the four job processors in the worker, BullMQ between  *)
(* them, awaits that reject and processes that restart.                    *)
(***************************************************************************)
EXTENDS VideoApi, AnalyzeProcessor, TranscodeProcessor, FinalizeProcessor,
        ModerateProcessor, ModerationAdmin, BullQueues

Init ==
    /\ row = NewRow
    /\ rend = [r \in Rungs |-> "none"]
    /\ history = {}
    /\ s3 = NoObjects
    /\ jobs = [j \in Jobs |-> NoJob]
    /\ waitFor = {}
    /\ pc = [p \in Processes |-> "idle"]
    /\ snap = [p \in Savers |-> NewRow]
    /\ ready = [p \in PublishJobs |-> {}]
    /\ decision = [p \in Deciders |-> NoDecision]
    /\ ladder = [p \in AnalyzeJobs |-> FirstRung]
    /\ faults = 0
    /\ crashes = 0

Api ==
    \/ \E c \in Completes : completeUpload(c)
    \/ \E e \in Edits : updateDetails(e)
    \/ \E p \in Admins : admin(p)

Worker ==
    \/ \E j \in AnalyzeJobs : analyze(j)
    \/ \E r \in Rungs : transcode(r)
    \/ finalize
    \/ \E j \in ModerateJobs : moderate(j)

BullMQ == \E j \in Jobs : Take(j) \/ Complete(j) \/ Retry(j) \/ Fail(j)

Failure ==
    \/ \E p \in Savers : VideoApiFails(p)
    \/ \E p \in Admins : AdminFails(p)
    \/ \E j \in AnalyzeJobs : AnalyzeFails(j)
    \/ \E r \in Rungs : TranscodeFails(r)
    \/ FinalizeFails
    \/ \E j \in ModerateJobs : ModerateFails(j)
    \/ WorkerCrash
    \/ ApiCrash

Next == PutSource \/ Api \/ Worker \/ BullMQ \/ Failure

Spec == Init /\ [][Next]_vars

(* A started request runs to its answer, and the worker goes on as long as *)
(* a job waits that it has a slot for, or a handler is under way.  Nobody   *)
(* has to send a request.                                                   *)
Started(p) == pc[p] \notin {"idle", "done", "refused"}

Answering ==
    \/ \E c \in Completes : Started(c) /\ completeUpload(c)
    \/ \E e \in Edits : Started(e) /\ updateDetails(e)
    \/ \E p \in Admins : Started(p) /\ admin(p)

Fairness == WF_vars(Answering) /\ WF_vars(Worker \/ BullMQ)

FairSpec == Spec /\ Fairness

-----------------------------------------------------------------------------
(* Every variable stays within its type. *)
TypeOK ==
    /\ row \in VideoRow
    /\ rend \in [Rungs -> RenditionStatus \cup {"none"}]
    /\ history \subseteq ModerationSource \X ModerationStatus
    /\ s3 \in Objects
    /\ jobs \in [Jobs -> Job]
    /\ waitFor \subseteq Rungs
    /\ pc \in [Processes -> Steps]
    /\ snap \in [Savers -> VideoRow]
    /\ ready \in [PublishJobs -> SUBSET Rungs]
    /\ decision \in [Deciders -> Decision]
    /\ ladder \in [AnalyzeJobs -> Ladder]
    /\ faults \in 0..MaxFaults
    /\ crashes \in 0..MaxCrashes

-----------------------------------------------------------------------------
(* Moderation. *)

Recorded(status) == \E source \in ModerationSource : <<source, status>> \in history

(* No video carries a moderation status that its history does not explain:   *)
(* every decided status of the row is that of some recorded decision, stale  *)
(* saves, retries and crashes included.                                      *)
StatusIsRecorded ==
    row.moderationStatus # "pending" => Recorded(row.moderationStatus)

SeenByReviewer ==
    \/ <<"ai_video", "approved">> \in history
    \/ <<"admin", "approved">> \in history

(* A clean title never publishes a video: an approved row means that the     *)
(* frames were approved or that an admin approved the video, whatever the    *)
(* order in which the jobs, the edits and the admins ran.                    *)
ApprovedWasSeen == row.moderationStatus = "approved" => SeenByReviewer

(* Why these two hold: not the row alone but everything a handler may yet   *)
(* write to it, the saved entity of an edit and the decision of an apply,   *)
(* is backed by the history.                                                *)
Backed(status) ==
    /\ status # "pending" => Recorded(status)
    /\ status = "approved" => SeenByReviewer

LedgerInv ==
    /\ Backed(row.moderationStatus)
    /\ \A p \in Savers : Backed(snap[p].moderationStatus)
    /\ \A p \in Deciders :
         /\ pc[p] = "apply_row" => Backed(decision[p].status)
         /\ (pc[p] = "apply" /\ decision[p].status = "approved"
                            /\ decision[p].source = "ai_text") => SeenByReviewer

-----------------------------------------------------------------------------
(* Media. *)

NeverBlocked == \A entry \in history : ~isBlockedStatus(entry[2])

KeysAreStored(video) ==
    /\ video.hlsMasterKey => s3.master # {}
    /\ video.storyboard => s3.storyboard
    /\ video.thumbnailKey # "none" => ThumbnailExists(video.thumbnailKey)
    /\ video.variantsKey # "none" => video.variantsKey \in s3.variants
    /\ video.candidates => s3.frames

(* As long as no decision has blocked the video, every object the row names  *)
(* is stored, every READY rendition has its segments, and the master         *)
(* playlist lists only renditions a player can fetch.                        *)
MediaIsStored ==
    NeverBlocked =>
        /\ KeysAreStored(row)
        /\ \A r \in Rungs : rend[r] = "ready" => r \in s3.segments
        /\ s3.master \subseteq s3.segments

(* Why it holds: what a handler finds stored when it reaches a step is still *)
(* stored when it takes it, as long as nothing has been removed.             *)
StepIsCovered(p, step) ==
    /\ step = "candidates"     => s3.frames
    /\ step = "ready"          => RungOf(p) \subseteq s3.segments
    /\ step = "publish_put"    => p \in PublishJobs /\ ready[p] # {}
    /\ step = "publish_update" => s3.master # {}
    /\ step = "storyboard"     => s3.storyboard
    /\ step = "apply_row"      => p \in Deciders /\ ~isBlockedStatus(decision[p].status)
    /\ step \notin {"cleanup", "remove_hls", "remove_thumbnails"}

MediaInv ==
    NeverBlocked =>
        /\ KeysAreStored(row)
        /\ \A p \in Savers : KeysAreStored(snap[p])
        /\ \A r \in Rungs : rend[r] = "ready" => r \in s3.segments
        /\ \A j \in PublishJobs : ready[j] \subseteq s3.segments
        /\ s3.master \subseteq s3.segments
        /\ \A p \in Processes : StepIsCovered(p, pc[p])

AtRest ==
    /\ \A j \in Jobs : jobs[j].state \notin {"waiting", "active"}
    /\ \A p \in Requests : ~Started(p)

(* When everything has come to rest without a failure, a blocked video has   *)
(* no segments left, whatever approvals, rejections and reprocessing came     *)
(* before: what a transcode job uploads after the removal it removes itself. *)
(* (A stale save that puts back a status from before an approval blocks the  *)
(* video with nobody to remove anything: the runs keep edits apart from it,  *)
(* and the theorem takes OnlyAppliesBlock for granted.)                      *)
BlockedLeavesNoSegments ==
    faults = 0 /\ AtRest /\ isBlockedStatus(row.moderationStatus) => s3.segments = {}

OnlyAppliesBlock ==
    ~isBlockedStatus(row.moderationStatus) /\ isBlockedStatus(row'.moderationStatus) =>
        \E p \in Deciders : pc[p] = "apply_row" /\ pc'[p] = "remove_hls"

(* When everything has come to rest without a failure, the master playlist   *)
(* of a READY video that was never blocked lists all its READY renditions,   *)
(* although the transcode jobs publish concurrently and a late put may list  *)
(* fewer.                                                                    *)
PlaylistIsComplete ==
    faults = 0 /\ AtRest /\ row.status = "ready" /\ NeverBlocked =>
        s3.master = {r \in Rungs : rend[r] = "ready"}

-----------------------------------------------------------------------------
(* Why these two hold.  A handler runs only for a job that is active, so at  *)
(* rest no handler is anywhere.                                              *)
HandlersAreActive == \A j \in Jobs : pc[j] # "idle" => jobs[j].state = "active"

(* The finalize job waits for somebody: a rung whose job runs, will run, or   *)
(* is kept because it failed.  Only the finalize job is a parent.            *)
SomebodyIsWaitedFor ==
    /\ jobs[Finalize].state = "waiting-children" =>
         /\ waitFor # {}
         /\ \A r \in waitFor : jobs[Transcode(r)].state # "none"
    /\ \A r \in Rungs : jobs[Transcode(r)].state # "waiting-children"

(* The segments a blocked video still has are those of jobs that will look   *)
(* at its status again, or somebody is about to remove them.                 *)
BlockedInv ==
    faults = 0 /\ isBlockedStatus(row.moderationStatus) =>
        \A r \in s3.segments :
            \/ pc[Transcode(r)] \in {"ready", "recheck", "cleanup"}
            \/ \E p \in Deciders : pc[p] = "remove_hls"

Calm == faults = 0 /\ NeverBlocked

(* What was never blocked is not sent through the pipeline again. *)
NoReprocess ==
    /\ \A p \in Admins : /\ ~decision[p].wasBlocked
                         /\ pc[p] \notin {"reprocess", "reprocess_row", "reprocess_add"}
    /\ \A a \in Approvals : jobs[AnalyzeAgain(a)].state = "none"

(* Until the flow is added nothing is published, and no entity says so.      *)
Unpublished ==
    /\ row.status # "ready" /\ \A p \in Savers : snap[p].status # "ready"
    /\ \A j \in PublishJobs : jobs[j].state = "none"
    /\ \A r \in Rungs : rend[r] \in {"none", "pending"}
    /\ ladder[AnalyzeUpload].found # "ready"
    /\ pc[AnalyzeUpload] \in {"idle", "start", "frames", "candidates"}
         => ladder[AnalyzeUpload] = FirstRung

BeforeUpload ==
    /\ Unpublished
    /\ jobs[AnalyzeUpload].state = "none"
    /\ \A c \in Completes : pc[c] # "done"

BeforeFlow ==
    /\ Unpublished
    /\ jobs[AnalyzeUpload].state \in {"waiting", "active"}
    /\ pc[AnalyzeUpload] \in {"idle", "start", "frames", "candidates", "find_rendition",
                              "save_rendition", "transcoding", "flow"}
    /\ pc[AnalyzeUpload] \in {"find_rendition", "save_rendition"}
         => \A r \in Rungs : r < ladder[AnalyzeUpload].rung => rend[r] = "pending"
    /\ pc[AnalyzeUpload] \in {"transcoding", "flow"} => \A r \in Rungs : rend[r] = "pending"

(* The job of a rung leaves the flow only when the rung is READY.            *)
RungInFlow(r) ==
    LET j == Transcode(r) IN
    /\ rend[r] # "none"
    /\ pc[j] \in {"idle", "start", "rendition", "encoding", "upload", "ready", "recheck",
                  "return"} \cup Publishing
    /\ pc[j] \in {"recheck", "return"} \cup Publishing => rend[r] = "ready"
    /\ \/ jobs[j].state \in {"waiting", "active"} /\ r \in waitFor
       \/ jobs[j].state = "none" /\ r \notin waitFor /\ rend[r] = "ready"

(* An edit that saves its entity may save one older than the row.            *)
ReadyOrEdited ==
    row.status = "ready" \/ \E e \in Edits : pc[e] \in {"save", "add", "done"}

(* The finalize job runs when nobody else publishes any more.                *)
FinalizeInFlow ==
    /\ pc[Finalize] \in {"idle", "start", "sheets", "storyboard", "return"} \cup Publishing
    /\ \/ jobs[Finalize].state = "waiting-children" /\ waitFor # {}
       \/ jobs[Finalize].state \in {"waiting", "active"} /\ waitFor = {}
       \/ jobs[Finalize].state = "none" /\ waitFor = {} /\ s3.master = Rungs
    /\ pc[Finalize] = "publish_put" => ready[Finalize] = Rungs
    /\ pc[Finalize] \in {"publish_update", "sheets", "storyboard", "return"}
         => s3.master = Rungs
    /\ jobs[Finalize].state = "none" \/ pc[Finalize] \in {"sheets", "storyboard", "return"}
         => ReadyOrEdited

AfterFlow ==
    /\ jobs[AnalyzeUpload].state \in {"none", "active"}
    /\ pc[AnalyzeUpload] \in {"idle", "moderation", "return"}
    /\ \A r \in Rungs : RungInFlow(r)
    /\ FinalizeInFlow

OnceThrough ==
    \/ BeforeUpload
    \/ /\ \A c \in Completes : pc[c] = "done"
       /\ s3.source = "full"
       /\ BeforeFlow \/ AfterFlow

(* With one complete request the video goes through the pipeline once. *)
FlowInv ==
    Calm =>
        /\ NoReprocess
        /\ \A c \in Completes : pc[c] \in {"save", "add"} => s3.source = "full"
        /\ OnceThrough

RestInv == HandlersAreActive /\ SomebodyIsWaitedFor /\ BlockedInv /\ FlowInv

(* When everything has come to rest without a failure, a video whose upload  *)
(* was accepted and that no decision has blocked is READY, and its playlist  *)
(* lists the whole ladder, unless an edit has been saved: the entity it wrote *)
(* back may be older than the pipeline's last write.                         *)
AcceptedUploadsSettle ==
    /\ Calm /\ AtRest
    /\ \E c \in Completes : pc[c] = "done"
    /\ \A e \in Edits : pc[e] # "done"
    => row.status = "ready" /\ s3.master = Rungs

(* No accepted upload is lost in silence, whatever awaits reject and whatever *)
(* process restarts: all its jobs come to an end, and then the video is      *)
(* blocked, has a playlist, or has a failed job in a queue that tells of it. *)
(* The flow releases the finalize job when its children complete or fail;    *)
(* one is left waiting only if the flow was added again when the job of a    *)
(* rung had failed for good, and so tells of it.                             *)
WaitsForTheFailed ==
    jobs[Finalize].state = "waiting-children" =>
        /\ waitFor # {}
        /\ \A r \in waitFor : jobs[Transcode(r)].state = "failed"

Accounted ==
    /\ AtRest
    /\ WaitsForTheFailed
    /\ \/ isBlockedStatus(row.moderationStatus)
       \/ s3.master # {}
       \/ \E j \in Jobs : jobs[j].state = "failed"

NoUploadIsLost ==
    \A c \in Completes : pc[c] = "done" ~> []Accounted

-----------------------------------------------------------------------------
(* What the comments and descriptions in the source say. *)

(* video-status.type.ts:3, UPLOADED: "bytes confirmed in S3, queued".  *)
UploadedIsQueued ==
    AtRest => row.status # "uploaded"

(* video.controller.ts:77: "Paginated list of public, completed videos".  *)
PublishedIsPlayable == AtRest /\ Published => s3.master # {}
=============================================================================
