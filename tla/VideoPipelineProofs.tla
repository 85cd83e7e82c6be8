-------------------------- MODULE VideoPipelineProofs --------------------------
(***************************************************************************)
(* Theorems about VideoPipeline, for every number of rungs, requests,      *)
(* attempts, faults and restarts.                                          *)
(***************************************************************************)
EXTENDS VideoPipeline, TLAPS

-----------------------------------------------------------------------------
(* Type correctness.  First the values that variables start from. *)

(* The initial values have their types. *)
LEMMA InitialValues ==
    /\ NewRow \in VideoRow
    /\ NoObjects \in Objects
    /\ NoJob \in Job
    /\ NoDecision \in Decision
    /\ FirstRung \in Ladder
  <1>1. NewRow \in VideoRow
    BY DEF NewRow, VideoRow, VideoStatus, ModerationStatus
  <1>2. NoObjects \in Objects
    BY DEF NoObjects, Objects
  <1>3. NoJob \in Job
    BY DEF NoJob, Job, JobState
  <1>4. NoDecision \in Decision
    BY DEF NoDecision, Decision, ModerationSource, ModerationStatus
  <1>5. FirstRung \in Ladder
    BY RungsAssumption DEF FirstRung, Ladder, Rungs
  <1> QED
    BY <1>1, <1>2, <1>3, <1>4, <1>5

(* A job of each kind is a process that may publish, decide or climb. *)
LEMMA JobKinds ==
    /\ \A r \in Rungs : Transcode(r) \in PublishJobs
    /\ Finalize \in PublishJobs
    /\ Completes \subseteq Savers
    /\ Edits \subseteq Savers
    /\ Admins \subseteq Deciders
    /\ ModerateJobs \subseteq Deciders
  BY DEF PublishJobs, TranscodeJobs, Savers, Deciders

(* The initial state of createUpload has the types. *)
LEMMA InitTypeOK == Init => TypeOK
  <1> SUFFICES ASSUME Init PROVE TypeOK
    OBVIOUS
  <1>1. row \in VideoRow /\ s3 \in Objects
    BY InitialValues DEF Init
  <1>2. /\ rend \in [Rungs -> RenditionStatus \cup {"none"}]
        /\ history \subseteq ModerationSource \X ModerationStatus
        /\ waitFor \subseteq Rungs
        /\ pc \in [Processes -> Steps]
    BY DEF Init, Steps
  <1>3. /\ jobs \in [Jobs -> Job]
        /\ snap \in [Savers -> VideoRow]
    BY InitialValues DEF Init
  <1>4. /\ ready \in [PublishJobs -> SUBSET Rungs]
        /\ decision \in [Deciders -> Decision]
        /\ ladder \in [AnalyzeJobs -> Ladder]
    BY InitialValues DEF Init
  <1>5. faults \in 0..MaxFaults /\ crashes \in 0..MaxCrashes
    BY BoundsAssumption DEF Init
  <1> QED
    BY <1>1, <1>2, <1>3, <1>4, <1>5 DEF TypeOK

(* completeUpload keeps the types. *)
LEMMA CompleteTypeOK ==
  ASSUME TypeOK, NEW c \in Completes, completeUpload(c)
  PROVE  TypeOK'
  <1>1. c \in Savers  BY JobKinds
  <1>3. CASE CompleteRead(c)
    BY <1>1, InitialValues, <1>3 DEF TypeOK, CompleteRead, Ends, Goto, Steps, db, queues, budget
  <1>4. CASE CompleteHead(c)
    BY <1>1, InitialValues, <1>4 DEF TypeOK, CompleteHead, Ends, Goto, Steps, db, queues, budget
  <1>5. CASE CompleteSave(c)
    <2>1. [snap[c] EXCEPT !.status = "uploaded"] \in VideoRow
      BY <1>1 DEF TypeOK, VideoRow, VideoStatus
    <2> QED
      BY <1>5, <2>1 DEF TypeOK, CompleteSave, Goto, Steps, queues, locals, budget
  <1>6. CASE CompleteAdd(c)
    <2>1. Add(AnalyzeUpload) \in [Jobs -> Job]
      BY DEF TypeOK, Add, Job, JobState
    <2> QED
      <3>1. /\ UNCHANGED <<row, rend, history, s3, waitFor, ready, decision, ladder>>
            /\ UNCHANGED budget
        BY <1>6 DEF CompleteAdd, db
      <3>2. pc' \in [Processes -> Steps] /\ snap' \in [Savers -> VideoRow]
        BY InitialValues, <1>6 DEF TypeOK, CompleteAdd, Ends, Goto, Steps
      <3> QED BY <1>6, <2>1, <3>1, <3>2 DEF TypeOK, CompleteAdd, budget
  <1> QED
    BY <1>3, <1>4, <1>5, <1>6 DEF completeUpload

(* updateDetails keeps the types. *)
LEMMA EditTypeOK ==
  ASSUME TypeOK, NEW e \in Edits, updateDetails(e)
  PROVE  TypeOK'
  <1>1. e \in Savers  BY JobKinds
  <1>2. CASE EditRead(e)
    <2>1. [row EXCEPT !.thumbnailKey = "frame"] \in VideoRow
      BY DEF TypeOK, VideoRow
    <2> QED
      BY <1>1, InitialValues, <1>2, <2>1 DEF TypeOK, EditRead, Ends, Goto, Steps, db, queues, budget
  <1>3. CASE EditCustom(e)
    <2>1. [s3 EXCEPT !.custom = @ \cup {e}] \in Objects
      BY DEF TypeOK, Objects
    <2>2. [snap EXCEPT ![e].thumbnailKey = e] \in [Savers -> VideoRow]
      BY <1>1 DEF TypeOK, VideoRow
    <2>3. s3' \in Objects
      BY <1>3, <2>1 DEF TypeOK, EditCustom
    <2>4. pc' \in [Processes -> Steps] /\ snap' \in [Savers -> VideoRow]
      BY InitialValues, <1>3, <2>2 DEF TypeOK, EditCustom, Ends, Goto, Steps
    <2> QED
      BY <1>3, <2>3, <2>4 DEF TypeOK, EditCustom, db, queues, budget
  <1>4. CASE EditVariants(e)
    <2>1. PutVariants(s3, e) \in Objects
      BY DEF TypeOK, Objects, PutVariants
    <2>2. [snap EXCEPT ![e].variantsKey = e] \in [Savers -> VideoRow]
      BY <1>1 DEF TypeOK, VideoRow
    <2> QED
      BY <1>1, InitialValues, <1>4, <2>1, <2>2
         DEF TypeOK, EditVariants, Ends, Goto, Steps, db, queues, budget
  <1>5. CASE EditSaveVariants(e)
    BY <1>1, <1>5 DEF TypeOK, EditSaveVariants, Goto, Steps, queues, locals, budget
  <1>6. CASE EditSave(e)
    <2>1. [snap[e] EXCEPT !.isPublic = TRUE] \in VideoRow
      BY <1>1 DEF TypeOK, VideoRow
    <2> QED
      BY <1>6, <2>1 DEF TypeOK, EditSave, Goto, Steps, queues, locals, budget
  <1>7. CASE EditAdd(e)
    <2>1. Add(ModerateText(e)) \in [Jobs -> Job]
      BY DEF TypeOK, Add, Job, JobState
    <2> QED
      <3>1. /\ UNCHANGED <<row, rend, history, s3, waitFor, ready, decision, ladder>>
            /\ UNCHANGED budget
        BY <1>7 DEF EditAdd, db
      <3>2. pc' \in [Processes -> Steps] /\ snap' \in [Savers -> VideoRow]
        BY InitialValues, <1>7 DEF TypeOK, EditAdd, Ends, Goto, Steps
      <3> QED BY <1>7, <2>1, <3>1, <3>2 DEF TypeOK, EditAdd, budget
  <1> QED
    BY <1>2, <1>3, <1>4, <1>5, <1>6, <1>7 DEF updateDetails

(* PutSource keeps the types. *)
LEMMA PutSourceTypeOK == ASSUME TypeOK, PutSource PROVE TypeOK'
  <1>1. s3' \in Objects
    BY DEF TypeOK, PutSource, Objects
  <1> QED
    BY <1>1 DEF TypeOK, PutSource, db, queues, locals, budget

(* The four steps of an apply keep the types, whoever runs it. *)
LEMMA ApplyTypeOK ==
  ASSUME TypeOK, NEW p \in Deciders, NEW next \in Steps, apply(p, next)
  PROVE  TypeOK'
  <1>1. decision[p] \in Decision
    BY DEF TypeOK
  <1>2. CASE ApplyHistory(p)
    <2>1. Entries(decision[p]) \subseteq ModerationSource \X ModerationStatus
      BY <1>1 DEF Entries, Decision
    <2> QED
      BY <1>2, <2>1 DEF TypeOK, ApplyHistory, Goto, Steps, queues, locals, budget
  <1>3. CASE ApplyRow(p, next)
    <2>1. [row EXCEPT !.moderationStatus = decision[p].status] \in VideoRow
      BY <1>1 DEF TypeOK, VideoRow, Decision
    <2> QED
      BY <1>3, <2>1 DEF TypeOK, ApplyRow, Goto, Steps, queues, locals, budget
  <1>4. CASE RemoveHls(p)
    <2>1. deleteHls(s3) \in Objects
      BY DEF TypeOK, Objects, deleteHls
    <2> QED
      BY <1>4, <2>1 DEF TypeOK, RemoveHls, Goto, Steps, db, queues, locals, budget
  <1>5. CASE RemoveThumbnails(p, next)
    <2>1. deleteThumbnails(s3) \in Objects
      BY DEF TypeOK, Objects, deleteThumbnails
    <2> QED
      BY <1>5, <2>1 DEF TypeOK, RemoveThumbnails, Goto, Steps, db, queues, locals, budget
  <1> QED
    BY <1>2, <1>3, <1>4, <1>5 DEF apply

(* approve and reject keep the types. *)
LEMMA AdminTypeOK ==
  ASSUME TypeOK, NEW p \in Admins, admin(p)
  PROVE  TypeOK'
  <1>1. p \in Deciders  BY JobKinds
  <1>2. CASE AdminFind(p)
    <2>1. decision' \in [Deciders -> Decision]
      BY <1>2, <1>1 DEF TypeOK, AdminFind, Decision, ModerationSource, ModerationStatus,
         isBlockedStatus
    <2>2. pc' \in [Processes -> Steps]
      BY <1>2 DEF TypeOK, AdminFind, Goto, Steps
    <2> QED
      BY <1>2, <2>1, <2>2 DEF TypeOK, AdminFind, db, queues, budget
  <1>3. CASE apply(p, AfterApply(p))
    <2>1. AfterApply(p) \in Steps
      BY DEF AfterApply, Steps
    <2> QED
      BY <1>1, <1>3, <2>1, ApplyTypeOK
  <1>4. CASE ReprocessRenditions(p)
    BY <1>4 DEF TypeOK, ReprocessRenditions, RenditionStatus, Goto, Steps, queues,
       locals, budget
  <1>5. CASE ReprocessRow(p)
    <2>1. row' \in VideoRow
      BY <1>5 DEF TypeOK, ReprocessRow, VideoRow, VideoStatus
    <2> QED
      BY <1>5, <2>1 DEF TypeOK, ReprocessRow, Goto, Steps, queues, locals, budget
  <1>6. CASE ReprocessAdd(p)
    <2>1. Add(AnalyzeAgain(p)) \in [Jobs -> Job]
      BY DEF TypeOK, Add, Job, JobState
    <2> QED
      BY <1>6, <2>1 DEF TypeOK, ReprocessAdd, Goto, Steps, db, locals, budget
  <1> QED
    BY <1>2, <1>3, <1>4, <1>5, <1>6 DEF admin

(* The moderation jobs keep the types. *)
LEMMA ModerateTypeOK ==
  ASSUME TypeOK, NEW j \in ModerateJobs, moderate(j)
  PROVE  TypeOK'
  <1>1. j \in Deciders  BY JobKinds
  <1>2. CASE ModerateFindVideo(j)
    BY <1>2 DEF TypeOK, ModerateFindVideo, Goto, Steps, db, queues, locals, budget
  <1>3. CASE ModerateFinish(j)
    <2>1. PICK verdict \in {"needs_review"} \cup VideoVerdicts \cup TextVerdicts :
            FinishWith(j, verdict)
      BY <1>3 DEF ModerateFinish, Verdicts
    <2>2. verdict \in ModerationStatus
      BY InputsAssumption DEF ModerationStatus
    <2>3. decide(SourceOf(j), row.moderationStatus, verdict) \in ModerationStatus
      BY <2>2 DEF TypeOK, VideoRow, decide, mergeModeration, mostSevere, Worse,
         ModerationStatus
    <2>4. decision' \in [Deciders -> Decision]
      <3> DEFINE status == decide(SourceOf(j), row.moderationStatus, verdict)
      <3>1. SourceOf(j) \in ModerationSource
        BY DEF SourceOf, ModerationSource
      <3>2. decision[j] \in Decision
        BY <1>1 DEF TypeOK
      <3>3. [decision[j] EXCEPT !.source = SourceOf(j), !.status = status] \in Decision
        BY <2>3, <3>1, <3>2 DEF Decision
      <3>4. decision' = [decision EXCEPT ![j] =
                           [decision[j] EXCEPT !.source = SourceOf(j), !.status = status]]
        BY <1>1, <2>1 DEF TypeOK, FinishWith
      <3> QED
        BY <3>3, <3>4 DEF TypeOK
    <2>5. pc' \in [Processes -> Steps]
      BY <2>1 DEF TypeOK, FinishWith, Goto, Steps
    <2> QED
      BY <2>1, <2>4, <2>5 DEF TypeOK, FinishWith, db, queues, budget
  <1>4. CASE apply(j, "return")
    <2>1. "return" \in Steps
      BY DEF Steps
    <2> QED
      BY <1>1, <1>4, <2>1, ApplyTypeOK
  <1> QED
    BY <1>2, <1>3, <1>4 DEF moderate

(* A publish keeps the types, whichever job runs it. *)
LEMMA PublishTypeOK ==
  ASSUME TypeOK, NEW j \in PublishJobs, NEW whenNone \in Steps, NEW next \in Steps,
         publish(j, whenNone, next)
  PROVE  TypeOK'
  <1>1. CASE PublishFind(j, whenNone)
    <2>1. ready' \in [PublishJobs -> SUBSET Rungs]
      BY <1>1 DEF TypeOK, PublishFind
    <2>2. pc' \in [Processes -> Steps]
      BY <1>1 DEF TypeOK, PublishFind, Goto, Steps
    <2> QED
      BY <1>1, <2>1, <2>2 DEF TypeOK, PublishFind, db, queues, budget
  <1>2. CASE PublishPut(j)
    <2>1. [s3 EXCEPT !.master = ready[j]] \in Objects
      BY DEF TypeOK, Objects
    <2> QED
      BY <1>2, <2>1 DEF TypeOK, PublishPut, Goto, Steps, db, queues, locals, budget
  <1>3. CASE PublishUpdate(j, next)
    <2>1. Playable(row) \in VideoRow
      BY DEF TypeOK, VideoRow, VideoStatus, Playable
    <2> QED
      BY <1>3, <2>1 DEF TypeOK, PublishUpdate, Goto, Steps, queues, locals, budget
  <1> QED
    BY <1>1, <1>2, <1>3 DEF publish

(* The transcode jobs keep the types. *)
LEMMA TranscodeTypeOK ==
  ASSUME TypeOK, NEW r \in Rungs, transcode(r)
  PROVE  TypeOK'
  <1> DEFINE j == Transcode(r)
  <1>1. j \in PublishJobs  BY JobKinds
  <1>2. CASE TranscodeFindVideo(r)
    BY <1>2 DEF TypeOK, TranscodeFindVideo, Goto, Steps, db, queues, locals, budget
  <1>3. CASE TranscodeFindRendition(r)
    BY <1>3 DEF TypeOK, TranscodeFindRendition, Goto, Steps, db, queues, locals, budget
  <1>4. CASE TranscodeEncoding(r)
    BY <1>4 DEF TypeOK, TranscodeEncoding, RenditionStatus, Goto, Steps, queues, locals,
       budget
  <1>5. CASE TranscodeUpload(r)
    <2>1. [s3 EXCEPT !.segments = @ \cup {r}] \in Objects
      BY DEF TypeOK, Objects
    <2> QED
      BY <1>5, <2>1 DEF TypeOK, TranscodeUpload, Goto, Steps, db, queues, locals, budget
  <1>6. CASE TranscodeReady(r)
    BY <1>6 DEF TypeOK, TranscodeReady, RenditionStatus, Goto, Steps, queues, locals,
       budget
  <1>7. CASE TranscodeRecheck(r)
    BY <1>7 DEF TypeOK, TranscodeRecheck, AfterEncode, Goto, Steps, db, queues, locals,
       budget
  <1>8. CASE TranscodeCleanup(r)
    <2>1. [s3 EXCEPT !.segments = @ \ {r}] \in Objects
      BY DEF TypeOK, Objects
    <2> QED
      BY <1>8, <2>1 DEF TypeOK, TranscodeCleanup, Goto, Steps, db, queues, locals, budget
  <1>9. CASE TranscodeCatch(r)
    BY <1>9 DEF TypeOK, TranscodeCatch, RenditionStatus, Goto, Steps, queues, locals,
       budget
  <1>10. CASE publish(j, "return", "return")
    <2>1. "return" \in Steps
      BY DEF Steps
    <2> QED
      BY <1>1, <1>10, <2>1, PublishTypeOK
  <1> QED
    BY <1>2, <1>3, <1>4, <1>5, <1>6, <1>7, <1>8, <1>9, <1>10 DEF transcode

(* The finalize job keeps the types. *)
LEMMA FinalizeTypeOK == ASSUME TypeOK, finalize PROVE TypeOK'
  <1>1. CASE FinalizeFindVideo
    BY <1>1 DEF TypeOK, FinalizeFindVideo, FinalizeBegins, Goto, Steps, db, queues,
       locals, budget
  <1>2. CASE FinalizeNoRendition
    <2>1. [row EXCEPT !.status = "failed"] \in VideoRow
      BY DEF TypeOK, VideoRow, VideoStatus
    <2> QED
      BY <1>2, <2>1 DEF TypeOK, FinalizeNoRendition, Goto, Steps, queues, locals, budget
  <1>3. CASE FinalizeSheets
    <2>1. s3' \in Objects
      BY <1>3 DEF TypeOK, FinalizeSheets, Objects
    <2>2. pc' \in [Processes -> Steps]
      BY <1>3 DEF TypeOK, FinalizeSheets, Goto, Steps
    <2> QED
      BY <1>3, <2>1, <2>2 DEF TypeOK, FinalizeSheets, db, queues, locals, budget
  <1>4. CASE FinalizeStoryboard
    <2>1. [row EXCEPT !.storyboard = TRUE] \in VideoRow
      BY DEF TypeOK, VideoRow
    <2> QED
      BY <1>4, <2>1 DEF TypeOK, FinalizeStoryboard, Goto, Steps, queues, locals, budget
  <1>5. CASE publish(Finalize, "no_rendition", "sheets")
    <2>1. "no_rendition" \in Steps /\ "sheets" \in Steps
      BY DEF Steps
    <2> QED
      BY <1>5, <2>1, JobKinds, PublishTypeOK
  <1> QED
    BY <1>1, <1>2, <1>3, <1>4, <1>5 DEF finalize

(* The analyze jobs keep the types; in particular ensureRendition never   *)
(* leaves the ladder.                                                     *)
LEMMA AnalyzeTypeOK ==
  ASSUME TypeOK, NEW j \in AnalyzeJobs, analyze(j)
  PROVE  TypeOK'
  <1>1. ladder[j] \in Ladder
    BY DEF TypeOK
  <1>2. CASE AnalyzeStart(j)
    <2>1. [row EXCEPT !.status = "analyzing"] \in VideoRow
      BY DEF TypeOK, VideoRow, VideoStatus
    <2> QED
      BY <1>2, <2>1 DEF TypeOK, AnalyzeStart, UpdateRow, Goto, Steps, queues, locals,
         budget
  <1>3. CASE AnalyzeFrames(j)
    <2>1. [s3 EXCEPT !.frames = TRUE] \in Objects
      BY DEF TypeOK, Objects
    <2> QED
      BY <1>3, <2>1 DEF TypeOK, AnalyzeFrames, Goto, Steps, db, queues, locals, budget
  <1>4. CASE AnalyzeCandidates(j)
    <2>1. row' \in VideoRow
      BY <1>4 DEF TypeOK, AnalyzeCandidates, UpdateRow, VideoRow
    <2> QED
      BY <1>4, <2>1 DEF TypeOK, AnalyzeCandidates, UpdateRow, Goto, Steps, queues,
         locals, budget
  <1>5. CASE AnalyzeFindRendition(j)
    <2>1. rend[ladder[j].rung] \in RenditionStatus \cup {"none"}
      BY <1>1 DEF TypeOK, Ladder
    <2>2. ladder' \in [AnalyzeJobs -> Ladder]
      BY <1>5, <2>1 DEF TypeOK, AnalyzeFindRendition, Ladder
    <2> QED
      BY <1>5, <2>2 DEF TypeOK, AnalyzeFindRendition, Goto, Steps, db, queues, budget
  <1>6. CASE AnalyzeSaveRendition(j)
    <2>1. rend' \in [Rungs -> RenditionStatus \cup {"none"}]
      BY <1>6 DEF TypeOK, AnalyzeSaveRendition, Ensured, RenditionStatus
    <2>2. ladder[j].rung < NRungs => ladder[j].rung + 1 \in Rungs
      BY <1>1, RungsAssumption DEF Ladder, Rungs
    <2>3. ladder' \in [AnalyzeJobs -> Ladder]
      BY <1>6, <2>2, InitialValues DEF TypeOK, AnalyzeSaveRendition, Ladder, MoreRungs
    <2>4. pc' \in [Processes -> Steps]
      BY <1>6 DEF TypeOK, AnalyzeSaveRendition, Goto, Steps
    <2> QED
      BY <1>6, <2>1, <2>3, <2>4 DEF TypeOK, AnalyzeSaveRendition, queues, budget
  <1>7. CASE AnalyzeTranscoding(j)
    <2>1. [row EXCEPT !.status = "transcoding"] \in VideoRow
      BY DEF TypeOK, VideoRow, VideoStatus
    <2> QED
      BY <1>7, <2>1 DEF TypeOK, AnalyzeTranscoding, UpdateRow, Goto, Steps, queues,
         locals, budget
  <1>8. CASE AnalyzeFlow(j)
    <2>1. jobs' \in [Jobs -> Job]
      BY <1>8 DEF TypeOK, AnalyzeFlow, NoJob, Job, JobState
    <2>2. pc' \in [Processes -> Steps]
      BY <1>8 DEF TypeOK, AnalyzeFlow, Goto, Steps
    <2> QED
      BY <1>8, <2>1, <2>2 DEF TypeOK, AnalyzeFlow, db, locals, budget
  <1>9. CASE AnalyzeModeration(j)
    <2>1. Add(ModerateVideo) \in [Jobs -> Job]
      BY DEF TypeOK, Add, Job, JobState
    <2> QED
      BY <1>9, <2>1 DEF TypeOK, AnalyzeModeration, Goto, Steps, db, locals, budget
  <1>10. CASE AnalyzeCatch(j)
    <2>1. row' \in VideoRow
      BY <1>10 DEF TypeOK, AnalyzeCatch, UpdateRow, VideoRow, VideoStatus
    <2> QED
      BY <1>10, <2>1 DEF TypeOK, AnalyzeCatch, UpdateRow, Goto, Steps, queues, locals,
         budget
  <1>11. CASE AnalyzeNoSource(j)
    BY <1>11 DEF TypeOK, AnalyzeNoSource, Goto, Steps, db, queues, locals, budget
  <1> QED
    BY <1>2, <1>3, <1>4, <1>5, <1>6, <1>7, <1>8, <1>9, <1>10, <1>11 DEF analyze

(* What is left in memory when handlers end keeps the types. *)
LEMMA ForgetTypeOK ==
  ASSUME TypeOK, NEW over, Forget(over)
  PROVE  /\ pc' \in [Processes -> Steps]
         /\ ready' \in [PublishJobs -> SUBSET Rungs]
         /\ decision' \in [Deciders -> Decision]
         /\ ladder' \in [AnalyzeJobs -> Ladder]
         /\ UNCHANGED snap
  <1>1. pc' \in [Processes -> Steps]
    BY DEF TypeOK, Forget, Steps
  <1>2. ready' \in [PublishJobs -> SUBSET Rungs]
    BY DEF TypeOK, Forget
  <1>3. decision' \in [Deciders -> Decision]
    BY InitialValues DEF TypeOK, Forget
  <1>4. ladder' \in [AnalyzeJobs -> Ladder]
    BY InitialValues DEF TypeOK, Forget
  <1> QED
    BY <1>1, <1>2, <1>3, <1>4 DEF Forget

(* Releasing the finalize job keeps the type of the jobs. *)
LEMMA ReleasedType ==
  ASSUME NEW js \in [Jobs -> Job], NEW over
  PROVE  Released(js, over) \in [Jobs -> Job]
  BY DEF Released, Job, JobState

(* A stalled job is still a job. *)
LEMMA StalledType ==
  ASSUME NEW job \in Job
  PROVE  Stalled(job) \in Job
  <1>1. [job EXCEPT !.state = "failed"] \in Job
    BY DEF Job, JobState
  <1>2. [job EXCEPT !.state = "waiting", !.stalls = 1] \in Job
    <2>1. [job EXCEPT !.state = "waiting"] \in Job
      BY DEF Job, JobState
    <2>2. ASSUME NEW other \in Job PROVE [other EXCEPT !.stalls = 1] \in Job
      BY DEF Job
    <2> QED
      BY <2>1, <2>2
  <1> QED
    BY <1>1, <1>2 DEF Stalled

(* Every step of BullMQ keeps the types. *)
LEMMA BullMQTypeOK ==
  ASSUME TypeOK, NEW j \in Jobs, Take(j) \/ Complete(j) \/ Retry(j) \/ Fail(j)
  PROVE  TypeOK'
  <1>1. jobs[j] \in Job
    BY DEF TypeOK
  <1>2. CASE Take(j)
    <2>1. [jobs EXCEPT ![j].state = "active"] \in [Jobs -> Job]
      BY <1>1 DEF TypeOK, Job, JobState
    <2>2. pc' \in [Processes -> Steps]
      BY <1>2 DEF TypeOK, Take, Goto, Steps
    <2> QED
      BY <1>2, <2>1, <2>2 DEF TypeOK, Take, db, locals, budget
  <1>3. ASSUME NEW last \in Job, Leaves(j, last)
        PROVE  jobs' \in [Jobs -> Job] /\ waitFor' \subseteq Rungs
    <2>1. [jobs EXCEPT ![j] = last] \in [Jobs -> Job]
      BY <1>3 DEF TypeOK
    <2> QED
      BY <1>3, <2>1, ReleasedType DEF TypeOK, Leaves
  <1>4. CASE Complete(j)
    BY <1>3, <1>4, ForgetTypeOK, InitialValues DEF TypeOK, Complete, db, budget
  <1>5. CASE Retry(j)
    <2>1. jobs' \in [Jobs -> Job]
      BY <1>1, <1>5 DEF TypeOK, Retry, Job, JobState
    <2> QED
      BY <1>5, <2>1, ForgetTypeOK DEF TypeOK, Retry, db, budget
  <1>6. CASE Fail(j)
    <2>1. jobs[j].made + 1 \in Nat
      BY <1>1 DEF Job
    <2>2. [jobs[j] EXCEPT !.state = "failed", !.made = @ + 1] \in Job
      BY <1>1, <2>1 DEF Job, JobState
    <2> QED
      BY <1>3, <1>6, <2>2, ForgetTypeOK DEF TypeOK, Fail, db, budget
  <1> QED
    BY <1>2, <1>4, <1>5, <1>6

(* The budgets stay within their bounds. *)
LEMMA BudgetType ==
  ASSUME TypeOK, Faulty \/ Restart
  PROVE  faults' \in 0..MaxFaults /\ crashes' \in 0..MaxCrashes
  BY BoundsAssumption DEF TypeOK, Faulty, Restart

(* Awaits that reject and processes that restart keep the types. *)
LEMMA FailureTypeOK == ASSUME TypeOK, Failure PROVE TypeOK'
  <1>1. ASSUME NEW p \in Savers, VideoApiFails(p) PROVE TypeOK'
    <2>1. pc' \in [Processes -> Steps] /\ snap' \in [Savers -> VideoRow]
      BY <1>1, InitialValues DEF TypeOK, VideoApiFails, Ends, Goto, Steps
    <2>2. faults' \in 0..MaxFaults /\ crashes' \in 0..MaxCrashes
      BY <1>1, BudgetType DEF VideoApiFails
    <2> QED
      BY <1>1, <2>1, <2>2 DEF TypeOK, VideoApiFails, db, queues
  <1>2. ASSUME NEW p \in Admins, AdminFails(p) PROVE TypeOK'
    <2>1. pc' \in [Processes -> Steps]
      BY <1>2 DEF TypeOK, AdminFails, Goto, Steps
    <2>2. faults' \in 0..MaxFaults /\ crashes' \in 0..MaxCrashes
      BY <1>2, BudgetType DEF AdminFails
    <2> QED
      BY <1>2, <2>1, <2>2 DEF TypeOK, AdminFails, db, queues, locals
  <1>3. ASSUME NEW j \in AnalyzeJobs, AnalyzeFails(j) PROVE TypeOK'
    <2>1. pc' \in [Processes -> Steps]
      BY <1>3 DEF TypeOK, AnalyzeFails, Goto, Steps
    <2>2. faults' \in 0..MaxFaults /\ crashes' \in 0..MaxCrashes
      BY <1>3, BudgetType DEF AnalyzeFails
    <2> QED
      BY <1>3, <2>1, <2>2 DEF TypeOK, AnalyzeFails, db, queues, locals
  <1>4. ASSUME NEW r \in Rungs, TranscodeFails(r) PROVE TypeOK'
    <2>1. pc' \in [Processes -> Steps]
      BY <1>4 DEF TypeOK, TranscodeFails, Goto, Steps
    <2>2. s3' \in Objects
      BY <1>4 DEF TypeOK, TranscodeFails, Objects
    <2>3. faults' \in 0..MaxFaults /\ crashes' \in 0..MaxCrashes
      BY <1>4, BudgetType DEF TranscodeFails
    <2> QED
      BY <1>4, <2>1, <2>2, <2>3 DEF TypeOK, TranscodeFails, db, queues, locals
  <1>5. CASE FinalizeFails
    <2>1. pc' \in [Processes -> Steps]
      BY <1>5 DEF TypeOK, FinalizeFails, Goto, Steps
    <2>2. faults' \in 0..MaxFaults /\ crashes' \in 0..MaxCrashes
      BY <1>5, BudgetType DEF FinalizeFails
    <2> QED
      BY <1>5, <2>1, <2>2 DEF TypeOK, FinalizeFails, db, queues, locals
  <1>6. ASSUME NEW j \in ModerateJobs, ModerateFails(j) PROVE TypeOK'
    <2>1. [NoDecision EXCEPT !.fallback = TRUE] \in Decision
      BY InitialValues DEF Decision
    <2>2. decision' \in [Deciders -> Decision]
      BY <1>6, <2>1 DEF TypeOK, ModerateFails
    <2>3. pc' \in [Processes -> Steps]
      BY <1>6 DEF TypeOK, ModerateFails, Goto, Steps
    <2>4. faults' \in 0..MaxFaults /\ crashes' \in 0..MaxCrashes
      BY <1>6, BudgetType DEF ModerateFails
    <2> QED
      BY <1>6, <2>2, <2>3, <2>4 DEF TypeOK, ModerateFails, db, queues
  <1>7. CASE WorkerCrash
    <2> DEFINE after == [j \in Jobs |-> IF jobs[j].state = "active"
                                        THEN Stalled(jobs[j]) ELSE jobs[j]]
    <2>1. \A job \in Job : Stalled(job) \in Job
      BY StalledType
    <2>2. after \in [Jobs -> Job]
      BY <2>1 DEF TypeOK
    <2>3. \E over : /\ jobs' = Released(after, over)
                    /\ waitFor' = waitFor \ over
      <3> DEFINE lost == {j \in Jobs : jobs[j].state = "active"}
      <3>1. after = [j \in Jobs |-> IF j \in lost THEN Stalled(jobs[j]) ELSE jobs[j]]
        OBVIOUS
      <3> QED
        BY <1>7, <3>1 DEF WorkerCrash
    <2>4. jobs' \in [Jobs -> Job] /\ waitFor' \subseteq Rungs
      <3> HIDE DEF after
      <3> QED
        BY <2>2, <2>3, ReleasedType DEF TypeOK
    <2>5. \E lost : Forget(lost)
      BY <1>7 DEF WorkerCrash
    <2>6. faults' \in 0..MaxFaults /\ crashes' \in 0..MaxCrashes
      BY <1>7, BudgetType DEF WorkerCrash
    <2> QED
      BY <1>7, <2>4, <2>5, <2>6, ForgetTypeOK DEF TypeOK, WorkerCrash, db
  <1>8. CASE ApiCrash
    <2>1. pc' \in [Processes -> Steps] /\ snap' \in [Savers -> VideoRow]
      BY <1>8, InitialValues DEF TypeOK, ApiCrash, Steps
    <2>2. faults' \in 0..MaxFaults /\ crashes' \in 0..MaxCrashes
      BY <1>8, BudgetType DEF ApiCrash
    <2> QED
      BY <1>8, <2>1, <2>2 DEF TypeOK, ApiCrash, db, queues
  <1> QED
    BY <1>1, <1>2, <1>3, <1>4, <1>5, <1>6, <1>7, <1>8 DEF Failure

(* Every step keeps the types. *)
LEMMA NextTypeOK == TypeOK /\ [Next]_vars => TypeOK'
  <1> SUFFICES ASSUME TypeOK, [Next]_vars PROVE TypeOK'
    OBVIOUS
  <1>1. CASE PutSource
    BY <1>1, PutSourceTypeOK
  <1>2. CASE Api
    BY <1>2, CompleteTypeOK, EditTypeOK, AdminTypeOK DEF Api
  <1>3. CASE Worker
    BY <1>3, AnalyzeTypeOK, TranscodeTypeOK, FinalizeTypeOK, ModerateTypeOK DEF Worker
  <1>4. CASE BullMQ
    BY <1>4, BullMQTypeOK DEF BullMQ
  <1>5. CASE Failure
    BY <1>5, FailureTypeOK
  <1>6. CASE UNCHANGED vars
    BY <1>6 DEF TypeOK, vars, db, queues, locals, budget
  <1> QED
    BY <1>1, <1>2, <1>3, <1>4, <1>5, <1>6 DEF Next

(* Whatever the interleaving, the failures and the restarts, every variable *)
(* keeps its type: no handler computes a rung outside the ladder, a status  *)
(* the enums do not have, or a step that is not in a handler.               *)
THEOREM TypeCorrect == Spec => []TypeOK
  BY InitTypeOK, NextTypeOK, PTL DEF Spec

-----------------------------------------------------------------------------
(***************************************************************************)
(* The moderation ledger: the status a video carries is always one that    *)
(* its history explains, and an approval always one that somebody gave who *)
(* saw the video.  LedgerInv is inductive because a handler never holds a  *)
(* status, in a loaded entity or in a decision, that the history does not  *)
(* back already.                                                           *)
(***************************************************************************)

-----------------------------------------------------------------------------
(* The policy. *)

(* Merging never approves what was decided to be worse. *)
LEMMA MergeApproves ==
  ASSUME NEW current \in ModerationStatus, NEW next \in ModerationStatus,
         current # "pending", mergeModeration(current, next) = "approved"
  PROVE  current = "approved"
  BY DEF mergeModeration, mostSevere, Worse, Severity, ModerationStatus

(* A text decision approves only a video that is approved already. *)
LEMMA TextApproves ==
  ASSUME NEW current \in ModerationStatus, NEW verdict \in ModerationStatus,
         decide("ai_text", current, verdict) = "approved"
  PROVE  current = "approved"
  BY MergeApproves DEF decide

-----------------------------------------------------------------------------
(* Steps that record nothing. *)

(* Nobody else starts or changes an apply. *)
Bystanders ==
    \A p \in Deciders :
        pc'[p] \in {"apply", "apply_row"} =>
            pc'[p] = pc[p] /\ decision'[p] = decision[p]

(* A step that records nothing keeps LedgerInv when what it saves is backed. *)
LEMMA LedgerKept ==
  ASSUME LedgerInv, history' = history, Bystanders,
         Backed(row'.moderationStatus),
         \A p \in Savers : Backed(snap'[p].moderationStatus)
  PROVE  LedgerInv'
  BY DEF LedgerInv, Backed, Recorded, SeenByReviewer, Bystanders

(* A process that goes anywhere but into an apply leaves the applies alone. *)
LEMMA GotoBystanders ==
  ASSUME TypeOK, NEW p, NEW label, label \notin {"apply", "apply_row"},
         Goto(p, label), decision' = decision
  PROVE  Bystanders
  BY DEF TypeOK, Goto, Bystanders

(* Loading a backed entity, or none, leaves every entity backed. *)
LEMMA SnapsBacked ==
  ASSUME TypeOK, LedgerInv, NEW p \in Savers, NEW video,
         Backed(video.moderationStatus),
         snap' = snap \/ snap' = [snap EXCEPT ![p] = video]
  PROVE  \A q \in Savers : Backed(snap'[q].moderationStatus)
  BY DEF TypeOK, LedgerInv

(* The initial row was never decided, so any history backs it. *)
LEMMA NewRowBacked == Backed(NewRow.moderationStatus)
  BY DEF Backed, NewRow

(* A new row is pending, and no entity or decision is held yet. *)
LEMMA InitLedger == Init => LedgerInv
  <1> SUFFICES ASSUME Init PROVE LedgerInv
    OBVIOUS
  <1>1. Backed(row.moderationStatus)
    BY NewRowBacked DEF Init
  <1>2. \A p \in Savers : Backed(snap[p].moderationStatus)
    BY NewRowBacked DEF Init
  <1>3. \A p \in Deciders : pc[p] = "idle"
    BY DEF Init, Deciders, Processes, ModerateJobs, Jobs, Requests
  <1> QED
    BY <1>1, <1>2, <1>3 DEF LedgerInv

(* The owner's requests only save statuses they have loaded. *)
LEMMA CompleteLedger ==
  ASSUME TypeOK, LedgerInv, NEW c \in Completes, completeUpload(c)
  PROVE  LedgerInv'
  <1>1. c \in Savers  BY JobKinds
  <1>2. CASE CompleteRead(c)
    <2>1. Goto(c, "head") \/ Goto(c, "refused")
      BY <1>2 DEF CompleteRead, Ends
    <2>2. PICK video \in {row, NewRow} : snap' = [snap EXCEPT ![c] = video]
      BY <1>2 DEF CompleteRead, Ends
    <2>3. \A q \in Savers : Backed(snap'[q].moderationStatus)
      BY <1>1, <2>2, SnapsBacked, NewRowBacked DEF LedgerInv
    <2>4. UNCHANGED <<row, history, decision>>
      BY <1>2 DEF CompleteRead, db
    <2> QED
      BY <2>1, <2>3, <2>4, GotoBystanders, LedgerKept DEF LedgerInv
  <1>3. CASE CompleteHead(c)
    <2>1. Goto(c, "save") \/ Goto(c, "refused")
      BY <1>3 DEF CompleteHead, Ends
    <2>2. snap' = snap \/ snap' = [snap EXCEPT ![c] = NewRow]
      BY <1>3 DEF CompleteHead, Ends
    <2>3. UNCHANGED <<row, history, decision>>
      BY <1>3 DEF CompleteHead, db
    <2> QED
      BY <1>1, <2>1, <2>2, <2>3, SnapsBacked, NewRowBacked, GotoBystanders, LedgerKept
         DEF LedgerInv
  <1>4. CASE CompleteSave(c)
    <2>1. row'.moderationStatus = snap[c].moderationStatus
      BY <1>1, <1>4 DEF TypeOK, VideoRow, CompleteSave
    <2>2. UNCHANGED <<history, snap, decision>> /\ Goto(c, "add")
      BY <1>4 DEF CompleteSave, locals
    <2> QED
      BY <1>1, <2>1, <2>2, GotoBystanders, LedgerKept DEF LedgerInv
  <1>5. CASE CompleteAdd(c)
    <2>1. Goto(c, "done") /\ snap' = [snap EXCEPT ![c] = NewRow]
      BY <1>5 DEF CompleteAdd, Ends
    <2>2. UNCHANGED <<row, history, decision>>
      BY <1>5 DEF CompleteAdd, db
    <2> QED
      BY <1>1, <2>1, <2>2, SnapsBacked, NewRowBacked, GotoBystanders, LedgerKept
         DEF LedgerInv
  <1> QED
    BY <1>2, <1>3, <1>4, <1>5 DEF completeUpload

(* An edit writes back a moderation status it has loaded, and that is backed. *)
LEMMA EditLedger ==
  ASSUME TypeOK, LedgerInv, NEW e \in Edits, updateDetails(e)
  PROVE  LedgerInv'
  <1>1. e \in Savers  BY JobKinds
  <1>2. CASE EditRead(e)
    <2>1. Goto(e, "custom") \/ Goto(e, "variants") \/ Goto(e, "refused")
      BY <1>2 DEF EditRead, Ends
    <2>2. PICK video \in {row, [row EXCEPT !.thumbnailKey = "frame"], NewRow} :
            snap' = [snap EXCEPT ![e] = video]
      BY <1>2 DEF EditRead, Ends
    <2>3. Backed(video.moderationStatus)
      BY <2>2, NewRowBacked DEF TypeOK, VideoRow, LedgerInv
    <2>4. UNCHANGED <<row, history, decision>>
      BY <1>2 DEF EditRead, db
    <2> QED
      BY <1>1, <2>1, <2>2, <2>3, <2>4, SnapsBacked, GotoBystanders, LedgerKept
         DEF LedgerInv
  <1>3. CASE EditCustom(e)
    <2>1. Goto(e, "variants") \/ Goto(e, "refused")
      BY <1>3 DEF EditCustom, Ends
    <2>2. PICK video \in {[snap[e] EXCEPT !.thumbnailKey = e], NewRow} :
            snap' = [snap EXCEPT ![e] = video]
      BY <1>3 DEF EditCustom, Ends
    <2>3. Backed(video.moderationStatus)
      BY <1>1, <2>2, NewRowBacked DEF TypeOK, VideoRow, LedgerInv
    <2>4. UNCHANGED <<row, history, decision>>
      BY <1>3 DEF EditCustom, db
    <2> QED
      BY <1>1, <2>1, <2>2, <2>3, <2>4, SnapsBacked, GotoBystanders, LedgerKept
         DEF LedgerInv
  <1>4. CASE EditVariants(e)
    <2>1. Goto(e, "save") \/ Goto(e, "save_variants") \/ Goto(e, "refused")
      BY <1>4 DEF EditVariants, Ends
    <2>2. PICK video \in {snap[e], [snap[e] EXCEPT !.variantsKey = e], NewRow} :
            snap' = snap \/ snap' = [snap EXCEPT ![e] = video]
      BY <1>4 DEF EditVariants, Ends
    <2>3. Backed(video.moderationStatus)
      BY <1>1, <2>2, NewRowBacked DEF TypeOK, VideoRow, LedgerInv
    <2>4. UNCHANGED <<row, history, decision>>
      BY <1>4 DEF EditVariants, db
    <2> QED
      BY <1>1, <2>1, <2>2, <2>3, <2>4, SnapsBacked, GotoBystanders, LedgerKept
         DEF LedgerInv
  <1>5. CASE EditSaveVariants(e) \/ EditSave(e)
    <2>1. row'.moderationStatus = snap[e].moderationStatus
      BY <1>1, <1>5 DEF TypeOK, VideoRow, EditSaveVariants, EditSave
    <2>2. UNCHANGED <<history, snap, decision>> /\ (Goto(e, "save") \/ Goto(e, "add"))
      BY <1>5 DEF EditSaveVariants, EditSave, locals
    <2> QED
      BY <1>1, <2>1, <2>2, GotoBystanders, LedgerKept DEF LedgerInv
  <1>6. CASE EditAdd(e)
    <2>1. Goto(e, "done") /\ snap' = [snap EXCEPT ![e] = NewRow]
      BY <1>6 DEF EditAdd, Ends
    <2>2. UNCHANGED <<row, history, decision>>
      BY <1>6 DEF EditAdd, db
    <2> QED
      BY <1>1, <2>1, <2>2, SnapsBacked, NewRowBacked, GotoBystanders, LedgerKept
         DEF LedgerInv
  <1> QED
    BY <1>2, <1>3, <1>4, <1>5, <1>6 DEF updateDetails

(* A step that leaves every moderation status alone keeps LedgerInv. *)
LEMMA QuietLedger ==
  ASSUME TypeOK, LedgerInv, NEW p, NEW label, label \notin {"apply", "apply_row"},
         Goto(p, label), UNCHANGED <<history, snap, decision>>,
         row'.moderationStatus = row.moderationStatus
  PROVE  LedgerInv'
  BY GotoBystanders, LedgerKept DEF LedgerInv

(* Analyzing never touches a moderation status. *)
LEMMA AnalyzeLedger ==
  ASSUME TypeOK, LedgerInv, NEW j \in AnalyzeJobs, analyze(j)
  PROVE  LedgerInv'
  <1>1. CASE AnalyzeStart(j)
    BY <1>1, QuietLedger DEF AnalyzeStart, UpdateRow, locals, TypeOK, VideoRow
  <1>2. CASE AnalyzeFrames(j)
    BY <1>2, QuietLedger DEF AnalyzeFrames, db, locals
  <1>3. CASE AnalyzeCandidates(j)
    <2>1. row'.moderationStatus = row.moderationStatus
      BY <1>3 DEF AnalyzeCandidates, UpdateRow, TypeOK, VideoRow
    <2> QED
      BY <1>3, <2>1, QuietLedger DEF AnalyzeCandidates, UpdateRow, locals
  <1>4. CASE AnalyzeFindRendition(j)
    BY <1>4, QuietLedger DEF AnalyzeFindRendition, db
  <1>5. CASE AnalyzeSaveRendition(j)
    BY <1>5, QuietLedger DEF AnalyzeSaveRendition
  <1>6. CASE AnalyzeTranscoding(j)
    BY <1>6, QuietLedger DEF AnalyzeTranscoding, UpdateRow, locals, TypeOK, VideoRow
  <1>7. CASE AnalyzeFlow(j)
    <2>1. Goto(j, "return") \/ Goto(j, "moderation")
      BY <1>7 DEF AnalyzeFlow
    <2>2. UNCHANGED <<row, history, snap, decision>>
      BY <1>7 DEF AnalyzeFlow, db, locals
    <2> QED
      BY <2>1, <2>2, QuietLedger
  <1>8. CASE AnalyzeModeration(j)
    BY <1>8, QuietLedger DEF AnalyzeModeration, db, locals
  <1>9. CASE AnalyzeCatch(j)
    <2>1. row'.moderationStatus = row.moderationStatus
      BY <1>9 DEF AnalyzeCatch, UpdateRow, TypeOK, VideoRow
    <2> QED
      BY <1>9, <2>1, QuietLedger DEF AnalyzeCatch, UpdateRow, locals
  <1>10. CASE AnalyzeNoSource(j)
    BY <1>10, QuietLedger DEF AnalyzeNoSource, db, locals
  <1> QED
    BY <1>1, <1>2, <1>3, <1>4, <1>5, <1>6, <1>7, <1>8, <1>9, <1>10 DEF analyze

(* Publishing never touches a moderation status. *)
LEMMA PublishLedger ==
  ASSUME TypeOK, LedgerInv, NEW j, NEW whenNone, NEW next,
         {whenNone, next} \cap {"apply", "apply_row"} = {},
         publish(j, whenNone, next)
  PROVE  LedgerInv'
  <1>1. CASE PublishFind(j, whenNone)
    <2>1. Goto(j, whenNone) \/ Goto(j, "publish_put")
      BY <1>1 DEF PublishFind
    <2>2. UNCHANGED <<row, history, snap, decision>>
      BY <1>1 DEF PublishFind, db
    <2> QED
      BY <2>1, <2>2, QuietLedger
  <1>2. CASE PublishPut(j)
    BY <1>2, QuietLedger DEF PublishPut, db, locals
  <1>3. CASE PublishUpdate(j, next)
    <2>1. row'.moderationStatus = row.moderationStatus
      BY <1>3 DEF PublishUpdate, Playable, TypeOK, VideoRow
    <2> QED
      BY <1>3, <2>1, QuietLedger DEF PublishUpdate, locals
  <1> QED
    BY <1>1, <1>2, <1>3 DEF publish

(* Transcoding only reads the moderation status. *)
LEMMA TranscodeLedger ==
  ASSUME TypeOK, LedgerInv, NEW r \in Rungs, transcode(r)
  PROVE  LedgerInv'
  <1> DEFINE j == Transcode(r)
  <1>1. CASE publish(j, "return", "return")
    BY <1>1, PublishLedger
  <1>2. CASE \/ TranscodeFindVideo(r) \/ TranscodeFindRendition(r)
             \/ TranscodeRecheck(r) \/ TranscodeCleanup(r) \/ TranscodeUpload(r)
    <2>1. \E label \in {"return", "rendition", "fatal", "encoding", "ready", "cleanup",
                        "publish"} : Goto(j, label)
      BY <1>2 DEF TranscodeFindVideo, TranscodeFindRendition, TranscodeRecheck,
         TranscodeCleanup, TranscodeUpload, AfterEncode
    <2>2. UNCHANGED <<row, history, snap, decision>>
      BY <1>2 DEF TranscodeFindVideo, TranscodeFindRendition, TranscodeRecheck,
         TranscodeCleanup, TranscodeUpload, db, locals
    <2> QED
      BY <2>1, <2>2, QuietLedger
  <1>3. CASE TranscodeEncoding(r) \/ TranscodeReady(r) \/ TranscodeCatch(r)
    <2>1. Goto(j, "upload") \/ Goto(j, "recheck") \/ Goto(j, "throw")
      BY <1>3 DEF TranscodeEncoding, TranscodeReady, TranscodeCatch
    <2>2. UNCHANGED <<row, history, snap, decision>>
      BY <1>3 DEF TranscodeEncoding, TranscodeReady, TranscodeCatch, locals
    <2> QED
      BY <2>1, <2>2, QuietLedger
  <1> QED
    BY <1>1, <1>2, <1>3 DEF transcode

(* Finalizing only reads the moderation status. *)
LEMMA FinalizeLedger ==
  ASSUME TypeOK, LedgerInv, finalize
  PROVE  LedgerInv'
  <1>1. CASE publish(Finalize, "no_rendition", "sheets")
    BY <1>1, PublishLedger
  <1>2. CASE FinalizeFindVideo \/ FinalizeSheets
    <2>1. \E label \in {"return", "publish", "storyboard"} : Goto(Finalize, label)
      BY <1>2 DEF FinalizeFindVideo, FinalizeSheets, FinalizeBegins
    <2>2. UNCHANGED <<row, history, snap, decision>>
      BY <1>2 DEF FinalizeFindVideo, FinalizeSheets, db, locals
    <2> QED
      BY <2>1, <2>2, QuietLedger
  <1>3. CASE FinalizeNoRendition \/ FinalizeStoryboard
    <2>1. row'.moderationStatus = row.moderationStatus
      BY <1>3 DEF FinalizeNoRendition, FinalizeStoryboard, TypeOK, VideoRow
    <2>2. Goto(Finalize, "fatal") \/ Goto(Finalize, "return")
      BY <1>3 DEF FinalizeNoRendition, FinalizeStoryboard
    <2>3. UNCHANGED <<history, snap, decision>>
      BY <1>3 DEF FinalizeNoRendition, FinalizeStoryboard, locals
    <2> QED
      BY <2>1, <2>2, <2>3, QuietLedger
  <1> QED
    BY <1>1, <1>2, <1>3 DEF finalize

-----------------------------------------------------------------------------
(* Steps that decide. *)

(* Recording a decision backs it, and takes no backing away. *)
LEMMA RecordLedger ==
  ASSUME TypeOK, LedgerInv, NEW p \in Deciders, ApplyHistory(p)
  PROVE  LedgerInv'
  <1>1. history' = history \cup {<<decision[p].source, decision[p].status>>}
    BY DEF ApplyHistory, Entries
  <1>2. ASSUME NEW status, Backed(status) PROVE Backed(status)'
    BY <1>1, <1>2 DEF Backed, Recorded, SeenByReviewer
  <1>3. SeenByReviewer => SeenByReviewer'
    BY <1>1 DEF SeenByReviewer
  <1>4. decision[p] \in Decision
    BY DEF TypeOK
  <1>5. Recorded(decision[p].status)'
    <2>1. decision[p].source \in ModerationSource
      BY <1>4 DEF Decision
    <2>2. <<decision[p].source, decision[p].status>> \in history'
      BY <1>1
    <2>3. decision'[p].status = decision[p].status
      BY DEF ApplyHistory, locals
    <2> QED
      BY <2>1, <2>2, <2>3 DEF Recorded
  <1>6. decision[p].status = "approved" => SeenByReviewer'
    <2>1. CASE decision[p].source = "ai_text"
      BY <1>3, <2>1 DEF LedgerInv, ApplyHistory
    <2>2. CASE decision[p].source \in {"ai_video", "admin"}
      BY <1>1, <2>2 DEF SeenByReviewer
    <2> QED
      BY <1>4, <2>1, <2>2 DEF Decision, ModerationSource
  <1>7. UNCHANGED <<row, snap, decision>> /\ Goto(p, "apply_row")
    BY DEF ApplyHistory, locals
  <1>8. Backed(row.moderationStatus)' /\ \A q \in Savers : Backed(snap[q].moderationStatus)'
    BY <1>2, <1>7 DEF LedgerInv
  <1>9. ASSUME NEW q \in Deciders, pc'[q] = "apply_row"
        PROVE  Backed(decision[q].status)'
    <2>1. CASE q = p
      BY <1>5, <1>6, <1>7, <2>1 DEF Backed
    <2>2. CASE q # p
      BY <1>2, <1>7, <1>9, <2>2 DEF LedgerInv, Goto, TypeOK
    <2> QED
      BY <2>1, <2>2
  <1>10. ASSUME NEW q \in Deciders, pc'[q] = "apply",
                decision[q].status = "approved", decision[q].source = "ai_text"
         PROVE  SeenByReviewer'
    <2>1. pc[q] = "apply"
      BY <1>7, <1>10 DEF Goto, TypeOK
    <2> QED
      BY <1>3, <1>10, <2>1 DEF LedgerInv
  <1> QED
    BY <1>7, <1>8, <1>9, <1>10 DEF LedgerInv

(* What an apply writes to the row is backed by what it recorded. *)
LEMMA ApplyLedger ==
  ASSUME TypeOK, LedgerInv, NEW p \in Deciders, NEW next,
         next \notin {"apply", "apply_row"}, apply(p, next)
  PROVE  LedgerInv'
  <1>1. CASE ApplyHistory(p)
    BY <1>1, RecordLedger
  <1>2. CASE ApplyRow(p, next)
    <2>1. row'.moderationStatus = decision[p].status
      BY <1>2 DEF ApplyRow, TypeOK, VideoRow
    <2>2. Backed(decision[p].status)
      BY <1>2 DEF ApplyRow, LedgerInv
    <2>3. Goto(p, "remove_hls") \/ Goto(p, next)
      BY <1>2 DEF ApplyRow
    <2>4. UNCHANGED <<history, snap, decision>>
      BY <1>2 DEF ApplyRow, locals
    <2> QED
      BY <2>1, <2>2, <2>3, <2>4, GotoBystanders, LedgerKept DEF LedgerInv
  <1>3. CASE RemoveHls(p) \/ RemoveThumbnails(p, next)
    <2>1. Goto(p, "remove_thumbnails") \/ Goto(p, next)
      BY <1>3 DEF RemoveHls, RemoveThumbnails
    <2>2. UNCHANGED <<row, history, snap, decision>>
      BY <1>3 DEF RemoveHls, RemoveThumbnails, db, locals
    <2> QED
      BY <2>1, <2>2, QuietLedger
  <1> QED
    BY <1>1, <1>2, <1>3 DEF apply

(* approve and reject decide as "admin", which is backing enough. *)
LEMMA AdminLedger ==
  ASSUME TypeOK, LedgerInv, NEW p \in Admins, admin(p)
  PROVE  LedgerInv'
  <1>1. p \in Deciders  BY JobKinds
  <1>2. CASE AdminFind(p)
    <2>1. Goto(p, "apply") /\ UNCHANGED <<row, history, snap>>
      BY <1>2 DEF AdminFind, db
    <2>2. /\ decision'[p].source = "admin"
          /\ \A q \in Deciders \ {p} : decision'[q] = decision[q]
      BY <1>1, <1>2 DEF AdminFind, TypeOK
    <2>3. \A q \in Deciders : pc'[q] = "apply_row" => q # p /\ pc[q] = "apply_row"
      BY <2>1 DEF Goto, TypeOK, Deciders, Processes, ModerateJobs, Jobs, Requests
    <2>4. \A q \in Deciders \ {p} : pc'[q] = pc[q]
      BY <2>1 DEF Goto, TypeOK, Deciders, Processes, ModerateJobs, Jobs, Requests
    <2> QED
      BY <2>1, <2>2, <2>3, <2>4 DEF LedgerInv, Backed, Recorded, SeenByReviewer
  <1>3. CASE apply(p, AfterApply(p))
    <2>1. AfterApply(p) \notin {"apply", "apply_row"}
      BY DEF AfterApply
    <2> QED
      BY <1>1, <1>3, <2>1, ApplyLedger
  <1>4. CASE ReprocessRow(p)
    <2>1. row'.moderationStatus = row.moderationStatus
      BY <1>4 DEF ReprocessRow, TypeOK, VideoRow
    <2> QED
      BY <1>4, <2>1, QuietLedger DEF ReprocessRow, locals
  <1>5. CASE ReprocessRenditions(p) \/ ReprocessAdd(p)
    <2>1. Goto(p, "reprocess_row") \/ Goto(p, "done")
      BY <1>5 DEF ReprocessRenditions, ReprocessAdd
    <2>2. UNCHANGED <<row, history, snap, decision>>
      BY <1>5 DEF ReprocessRenditions, ReprocessAdd, db, locals
    <2> QED
      BY <2>1, <2>2, QuietLedger
  <1> QED
    BY <1>2, <1>3, <1>4, <1>5 DEF admin

(* A moderation job that approves has seen the frames, or finds the video  *)
(* approved.                                                               *)
LEMMA ModerateLedger ==
  ASSUME TypeOK, LedgerInv, NEW j \in ModerateJobs, moderate(j)
  PROVE  LedgerInv'
  <1>1. j \in Deciders  BY JobKinds
  <1>2. CASE ModerateFindVideo(j)
    <2>1. Goto(j, "return") \/ Goto(j, "finish")
      BY <1>2 DEF ModerateFindVideo
    <2>2. UNCHANGED <<row, history, snap, decision>>
      BY <1>2 DEF ModerateFindVideo, db, locals
    <2> QED
      BY <2>1, <2>2, QuietLedger
  <1>3. CASE ModerateFinish(j)
    <2>1. PICK verdict \in {"needs_review"} \cup VideoVerdicts \cup TextVerdicts :
            FinishWith(j, verdict)
      BY <1>3 DEF ModerateFinish, Verdicts
    <2>2. verdict \in ModerationStatus
      BY InputsAssumption DEF ModerationStatus
    <2>3. Goto(j, "apply") /\ UNCHANGED <<row, history, snap>>
      BY <2>1 DEF FinishWith, db
    <2>4. /\ decision'[j].source = SourceOf(j)
          /\ decision'[j].status = decide(SourceOf(j), row.moderationStatus, verdict)
          /\ \A q \in Deciders \ {j} : decision'[q] = decision[q]
      BY <1>1, <2>1 DEF FinishWith, TypeOK, Decision
    <2>5. (decision'[j].status = "approved" /\ decision'[j].source = "ai_text")
            => SeenByReviewer
      BY <2>2, <2>4, TextApproves DEF LedgerInv, Backed, TypeOK, VideoRow
    <2>6. \A q \in Deciders : pc'[q] = "apply_row" => q # j /\ pc[q] = "apply_row"
      BY <2>3 DEF Goto, TypeOK, Deciders, Processes, ModerateJobs, Jobs, Requests
    <2>7. \A q \in Deciders \ {j} : pc'[q] = pc[q]
      BY <2>3 DEF Goto, TypeOK, Deciders, Processes, ModerateJobs, Jobs, Requests
    <2> QED
      BY <2>3, <2>4, <2>5, <2>6, <2>7 DEF LedgerInv, Backed, Recorded, SeenByReviewer
  <1>4. CASE apply(j, "return")
    BY <1>1, <1>4, ApplyLedger
  <1> QED
    BY <1>2, <1>3, <1>4 DEF moderate

-----------------------------------------------------------------------------
(* Queues, failures and restarts. *)

(* Handlers that end, for whatever reason, leave the other applies alone. *)
LEMMA ForgetLedger ==
  ASSUME TypeOK, LedgerInv, NEW over, Forget(over), UNCHANGED db
  PROVE  LedgerInv'
  <1>1. Bystanders
    BY DEF Forget, Bystanders, Deciders, Processes, ModerateJobs, Jobs, Requests
  <1>2. UNCHANGED <<row, history, snap>>
    BY DEF Forget, db
  <1> QED
    BY <1>1, <1>2, LedgerKept DEF LedgerInv

(* BullMQ moves jobs and forgets handlers; it writes no status. *)
LEMMA BullMQLedger ==
  ASSUME TypeOK, LedgerInv, NEW j \in Jobs, Take(j) \/ Complete(j) \/ Retry(j) \/ Fail(j)
  PROVE  LedgerInv'
  <1>1. CASE Take(j)
    BY <1>1, QuietLedger DEF Take, db, locals
  <1>2. CASE Complete(j) \/ Retry(j) \/ Fail(j)
    <2>1. Forget({j}) /\ UNCHANGED db
      BY <1>2 DEF Complete, Retry, Fail
    <2> QED
      BY <2>1, ForgetLedger
  <1> QED
    BY <1>1, <1>2

(* An error or a restart at any await leaves what was recorded in place. *)
LEMMA FailureLedger ==
  ASSUME TypeOK, LedgerInv, Failure
  PROVE  LedgerInv'
  <1>1. ASSUME NEW p \in Savers, VideoApiFails(p) PROVE LedgerInv'
    <2>1. Goto(p, "refused") /\ snap' = [snap EXCEPT ![p] = NewRow]
      BY <1>1 DEF VideoApiFails, Ends
    <2>2. UNCHANGED <<row, history, decision>>
      BY <1>1 DEF VideoApiFails, db
    <2> QED
      BY <2>1, <2>2, SnapsBacked, NewRowBacked, GotoBystanders, LedgerKept DEF LedgerInv
  <1>2. ASSUME NEW p \in Admins, AdminFails(p) PROVE LedgerInv'
    BY <1>2, QuietLedger DEF AdminFails, db, locals
  <1>3. ASSUME NEW j \in AnalyzeJobs, AnalyzeFails(j) PROVE LedgerInv'
    <2>1. Goto(j, "throw") \/ Goto(j, "catch")
      BY <1>3 DEF AnalyzeFails
    <2> QED
      BY <1>3, <2>1, QuietLedger DEF AnalyzeFails, db, locals
  <1>4. ASSUME NEW r \in Rungs, TranscodeFails(r) PROVE LedgerInv'
    <2>1. Goto(Transcode(r), "throw") \/ Goto(Transcode(r), "catch")
      BY <1>4 DEF TranscodeFails
    <2> QED
      BY <1>4, <2>1, QuietLedger DEF TranscodeFails, db, locals
  <1>5. CASE FinalizeFails
    <2>1. Goto(Finalize, "throw") \/ Goto(Finalize, "return")
      BY <1>5 DEF FinalizeFails
    <2> QED
      BY <1>5, <2>1, QuietLedger DEF FinalizeFails, db, locals
  <1>6. ASSUME NEW j \in ModerateJobs, ModerateFails(j) PROVE LedgerInv'
    <2>1. j \in Deciders  BY JobKinds
    <2>2. Goto(j, "throw") \/ Goto(j, "finish")
      BY <1>6 DEF ModerateFails
    <2>3. \A q \in Deciders \ {j} : decision'[q] = decision[q]
      BY <1>6 DEF ModerateFails, TypeOK
    <2>4. UNCHANGED <<row, history, snap>>
      BY <1>6 DEF ModerateFails, db
    <2>5. Bystanders
      BY <2>1, <2>2, <2>3 DEF Bystanders, Goto, TypeOK, Deciders, Processes,
         ModerateJobs, Jobs, Requests
    <2> QED
      BY <2>4, <2>5, LedgerKept DEF LedgerInv
  <1>7. CASE WorkerCrash
    <2>1. \E lost : Forget(lost)
      BY <1>7 DEF WorkerCrash
    <2> QED
      BY <1>7, <2>1, ForgetLedger DEF WorkerCrash, db
  <1>8. CASE ApiCrash
    <2>1. \A q \in Savers : Backed(snap'[q].moderationStatus)
      BY <1>8, NewRowBacked DEF ApiCrash
    <2>2. UNCHANGED <<row, history, decision>>
      BY <1>8 DEF ApiCrash, db
    <2>3. Bystanders
      BY <1>8, <2>2 DEF ApiCrash, Bystanders, Deciders, Processes, ModerateJobs, Jobs,
         Requests
    <2> QED
      BY <2>1, <2>2, <2>3, LedgerKept DEF LedgerInv
  <1> QED
    BY <1>1, <1>2, <1>3, <1>4, <1>5, <1>6, <1>7, <1>8 DEF Failure

(* Every step keeps LedgerInv: one case per operation. *)
LEMMA NextLedger == TypeOK /\ LedgerInv /\ [Next]_vars => LedgerInv'
  <1> SUFFICES ASSUME TypeOK, LedgerInv, [Next]_vars PROVE LedgerInv'
    OBVIOUS
  <1>1. CASE PutSource
    <2>1. Bystanders
      BY <1>1 DEF PutSource, Bystanders, locals
    <2> QED
      BY <1>1, <2>1, LedgerKept DEF PutSource, db, locals, LedgerInv
  <1>2. CASE Api
    BY <1>2, CompleteLedger, EditLedger, AdminLedger DEF Api
  <1>3. CASE Worker
    BY <1>3, AnalyzeLedger, TranscodeLedger, FinalizeLedger, ModerateLedger DEF Worker
  <1>4. CASE BullMQ
    BY <1>4, BullMQLedger DEF BullMQ
  <1>5. CASE Failure
    BY <1>5, FailureLedger
  <1>6. CASE UNCHANGED vars
    <2>1. Bystanders
      BY <1>6 DEF vars, locals, Bystanders
    <2> QED
      BY <1>6, <2>1, LedgerKept DEF vars, db, locals, LedgerInv
  <1> QED
    BY <1>1, <1>2, <1>3, <1>4, <1>5, <1>6 DEF Next

-----------------------------------------------------------------------------
(* LedgerInv is an invariant of the system: what the row, the loaded        *)
(* entities and the decisions in flight say is always backed by history.    *)
THEOREM LedgerCorrect == Spec => []LedgerInv
  BY InitTypeOK, NextTypeOK, InitLedger, NextLedger, PTL DEF Spec

(* Every decided status of a video is explained by its moderation history,  *)
(* for any number of edits, admins, retries and restarts.                   *)
THEOREM StatusAlwaysRecorded == Spec => []StatusIsRecorded
  <1>1. LedgerInv => StatusIsRecorded
    BY DEF LedgerInv, Backed, StatusIsRecorded
  <1> QED
    BY <1>1, LedgerCorrect, PTL

(* No video is approved before the analysis of its frames or an admin has   *)
(* approved it: a clean title is never enough, whatever runs concurrently.  *)
THEOREM ApprovalsAreSeen == Spec => []ApprovedWasSeen
  <1>1. LedgerInv => ApprovedWasSeen
    BY DEF LedgerInv, Backed, ApprovedWasSeen
  <1> QED
    BY <1>1, LedgerCorrect, PTL
=============================================================================
