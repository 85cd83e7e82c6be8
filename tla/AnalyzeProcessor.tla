---------------------------- MODULE AnalyzeProcessor ----------------------------
(***************************************************************************)
(* VideoAnalyzeProcessor.process: probe the source, store the frames,      *)
(* make sure there is a rendition row per rung, add the transcode flow and *)
(* the moderation job.  completeUpload adds the first analyze job, and     *)
(* approve adds one with skipModeration for a video that was blocked.  The *)
(* handler never reads the moderation status.  The unsupported content     *)
(* type cannot occur: createUpload accepts the same three types.           *)
(***************************************************************************)
EXTENDS VideoData

skipModeration(j) == j # AnalyzeUpload

UpdateRow(j, changed, next) ==
    /\ row' = changed
    /\ Goto(j, next)
    /\ UNCHANGED <<rend, history, s3, queues, locals, budget>>

AnalyzeStart(j) ==
    /\ pc[j] = "start"
    /\ UpdateRow(j, [row EXCEPT !.status = "analyzing"], "frames")

(* The probe of a source that was never uploaded fails: approve may send a  *)
(* video through the pipeline whose upload nobody has confirmed.  A source  *)
(* that is cut short may be readable.                                       *)
AnalyzeNoSource(j) ==
    /\ pc[j] = "frames"
    /\ s3.source # "full"
    /\ Goto(j, "catch")
    /\ UNCHANGED <<db, s3, queues, locals, budget>>

(* extractFrames and a put per frame. *)
AnalyzeFrames(j) ==
    /\ pc[j] = "frames"
    /\ s3.source # "absent"
    /\ s3' = [s3 EXCEPT !.frames = TRUE]
    /\ Goto(j, "candidates")
    /\ UNCHANGED <<db, queues, locals, budget>>

(* thumbnailKey becomes COALESCE(thumbnailKey, first frame). *)
AnalyzeCandidates(j) ==
    /\ pc[j] = "candidates"
    /\ UpdateRow(j, [row EXCEPT !.candidates = TRUE,
                                !.thumbnailKey = IF @ = "none" THEN "frame" ELSE @],
                 "find_rendition")

(* ensureRendition, for one rung after the other: find, then insert or reset. *)
AnalyzeFindRendition(j) ==
    /\ pc[j] = "find_rendition"
    /\ ladder' = [ladder EXCEPT ![j].found = rend[ladder[j].rung]]
    /\ Goto(j, "save_rendition")
    /\ UNCHANGED <<db, s3, queues, snap, ready, decision, budget>>

Ensured(now, found) == IF found = "ready" THEN now ELSE "pending"

(* Mutant of MoreRungs: one rung too many. *)
LadderOverrun(rung) == rung <= NRungs

MoreRungs(rung) == rung < NRungs

AnalyzeSaveRendition(j) ==
    /\ pc[j] = "save_rendition"
    /\ rend' = [rend EXCEPT ![ladder[j].rung] = Ensured(@, ladder[j].found)]
    /\ \/ /\ MoreRungs(ladder[j].rung)
          /\ ladder' = [ladder EXCEPT ![j] = [rung |-> @.rung + 1, found |-> "none"]]
          /\ Goto(j, "find_rendition")
       \/ /\ ~MoreRungs(ladder[j].rung)
          /\ ladder' = [ladder EXCEPT ![j] = FirstRung]
          /\ Goto(j, "transcoding")
    /\ UNCHANGED <<row, history, s3, queues, snap, ready, decision, budget>>

AnalyzeTranscoding(j) ==
    /\ pc[j] = "transcoding"
    /\ UpdateRow(j, [row EXCEPT !.status = "transcoding"], "flow")

(* The flow is added in one transaction.  A job whose id the queue already *)
(* holds stays as it is; the finalize job waits for every child again.     *)
AnalyzeFlow(j) ==
    /\ pc[j] = "flow"
    /\ jobs' = [i \in Jobs |->
                  IF i \in TranscodeJobs /\ jobs[i].state = "none"
                  THEN [NoJob EXCEPT !.state = "waiting"]
                  ELSE IF i = Finalize /\ jobs[i].state = "none"
                  THEN [NoJob EXCEPT !.state = "waiting-children"]
                  ELSE jobs[i]]
    /\ waitFor' = Rungs
    /\ Goto(j, IF skipModeration(j) THEN "return" ELSE "moderation")
    /\ UNCHANGED <<db, s3, locals, budget>>

AnalyzeModeration(j) ==
    /\ pc[j] = "moderation"
    /\ jobs' = Add(ModerateVideo)
    /\ Goto(j, "return")
    /\ UNCHANGED <<db, s3, waitFor, locals, budget>>

(* Mutant of AnalyzeCatch: the error is not thrown on. *)
SwallowsError(j) ==
    /\ pc[j] = "catch"
    /\ UpdateRow(j, IF LastAttempt(j) THEN [row EXCEPT !.status = "failed"] ELSE row,
                 "return")

AnalyzeCatch(j) ==
    /\ pc[j] = "catch"
    /\ UpdateRow(j, IF LastAttempt(j) THEN [row EXCEPT !.status = "failed"] ELSE row,
                 "throw")

analyze(j) ==
    \/ AnalyzeStart(j) \/ AnalyzeNoSource(j) \/ AnalyzeFrames(j) \/ AnalyzeCandidates(j)
    \/ AnalyzeFindRendition(j) \/ AnalyzeSaveRendition(j) \/ AnalyzeTranscoding(j)
    \/ AnalyzeFlow(j) \/ AnalyzeModeration(j) \/ AnalyzeCatch(j)

(* An error before the try block, or in the catch itself, goes to BullMQ. *)
AnalyzeFails(j) ==
    /\ Faulty
    /\ \/ pc[j] \in {"start", "catch"} /\ Goto(j, "throw")
       \/ pc[j] \notin {"idle", "return", "throw", "catch"} /\ Goto(j, "catch")
    /\ UNCHANGED <<db, s3, queues, locals>>
=============================================================================
