--------------------------- MODULE TranscodeProcessor ---------------------------
(***************************************************************************)
(* VideoTranscodeProcessor.process: one job per rung.  Between reading the *)
(* row and the end of the encode lie minutes, so the handler looks at the  *)
(* moderation status again before it publishes what it uploaded.  Progress *)
(* updates, which nothing awaits, only touch the progress column.          *)
(***************************************************************************)
EXTENDS HlsPublisher

(* The video row is read, then the rendition; a blocked video or a READY *)
(* rendition ends the job without publishing.                            *)
TranscodeFindVideo(r) ==
    LET j == Transcode(r) IN
    /\ pc[j] = "start"
    /\ Goto(j, IF isBlockedStatus(row.moderationStatus) THEN "return" ELSE "rendition")
    /\ UNCHANGED <<db, s3, queues, locals, budget>>

TranscodeFindRendition(r) ==
    LET j == Transcode(r) IN
    /\ pc[j] = "rendition"
    /\ Goto(j, CASE rend[r] = "none"  -> "fatal"
                 [] rend[r] = "ready" -> "return"
                 [] OTHER             -> "encoding")
    /\ UNCHANGED <<db, s3, queues, locals, budget>>

(* Mutant of TranscodeEncoding: READY is written before the upload. *)
ReadyBeforeUpload(r) ==
    LET j == Transcode(r) IN
    /\ pc[j] = "encoding"
    /\ rend' = [rend EXCEPT ![r] = "ready"]
    /\ Goto(j, "upload")
    /\ UNCHANGED <<row, history, s3, queues, locals, budget>>

TranscodeEncoding(r) ==
    LET j == Transcode(r) IN
    /\ pc[j] = "encoding"
    /\ rend' = [rend EXCEPT ![r] = "encoding"]
    /\ Goto(j, "upload")
    /\ UNCHANGED <<row, history, s3, queues, locals, budget>>

(* The encode, from the source in S3, and uploadDirectory. *)
TranscodeUpload(r) ==
    LET j == Transcode(r) IN
    /\ pc[j] = "upload"
    /\ s3' = [s3 EXCEPT !.segments = @ \cup {r}]
    /\ Goto(j, "ready")
    /\ UNCHANGED <<db, queues, locals, budget>>

TranscodeReady(r) ==
    LET j == Transcode(r) IN
    /\ pc[j] = "ready"
    /\ rend' = [rend EXCEPT ![r] = "ready"]
    /\ Goto(j, "recheck")
    /\ UNCHANGED <<row, history, s3, queues, locals, budget>>

(* Mutant of AfterEncode: no second look at the moderation status. *)
NoSecondLook(status) == "publish"

AfterEncode(status) == IF isBlockedStatus(status) THEN "cleanup" ELSE "publish"

TranscodeRecheck(r) ==
    LET j == Transcode(r) IN
    /\ pc[j] = "recheck"
    /\ Goto(j, AfterEncode(row.moderationStatus))
    /\ UNCHANGED <<db, s3, queues, locals, budget>>

(* deletePrefix of the rung's own prefix; its rendition row stays READY. *)
TranscodeCleanup(r) ==
    LET j == Transcode(r) IN
    /\ pc[j] = "cleanup"
    /\ s3' = [s3 EXCEPT !.segments = @ \ {r}]
    /\ Goto(j, "return")
    /\ UNCHANGED <<db, queues, locals, budget>>

TranscodeCatch(r) ==
    LET j == Transcode(r) IN
    /\ pc[j] = "catch"
    /\ rend' = [rend EXCEPT ![r] = IF LastAttempt(j) THEN "failed" ELSE "pending"]
    /\ Goto(j, "throw")
    /\ UNCHANGED <<row, history, s3, queues, locals, budget>>

transcode(r) ==
    \/ TranscodeFindVideo(r) \/ TranscodeFindRendition(r) \/ TranscodeEncoding(r)
    \/ TranscodeUpload(r) \/ TranscodeReady(r) \/ TranscodeRecheck(r)
    \/ TranscodeCleanup(r) \/ TranscodeCatch(r)
    \/ publish(Transcode(r), "return", "return")

(* Before the try block, and in the catch itself, an error goes straight to *)
(* BullMQ; inside it the catch runs.  A failed upload may have put segments. *)
TranscodeFails(r) ==
    LET j == Transcode(r) IN
    /\ Faulty
    /\ \/ /\ pc[j] \in {"start", "rendition", "encoding", "catch"}
          /\ Goto(j, "throw")
          /\ UNCHANGED s3
       \/ /\ pc[j] \in {"upload", "ready", "recheck", "cleanup"} \cup Publishing
          /\ Goto(j, "catch")
          /\ \/ UNCHANGED s3
             \/ pc[j] = "upload" /\ s3' = [s3 EXCEPT !.segments = @ \cup {r}]
    /\ UNCHANGED <<db, queues, locals>>
=============================================================================
