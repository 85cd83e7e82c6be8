---------------------------- MODULE FinalizeProcessor ----------------------------
(***************************************************************************)
(* VideoFinalizeProcessor.process, the parent of the flow: it publishes    *)
(* once more when every transcode job is over, then makes the storyboard   *)
(* from the lowest READY rendition.  It looks at the moderation status     *)
(* only when it starts.                                                    *)
(***************************************************************************)
EXTENDS HlsPublisher

(* Mutant of FinalizeBegins: a READY video is taken to be published in full. *)
SkipsReadyVideos(video) ==
    IF isBlockedStatus(video.moderationStatus) \/ video.status = "ready"
    THEN "return" ELSE "publish"

FinalizeBegins(video) ==
    IF isBlockedStatus(video.moderationStatus) THEN "return" ELSE "publish"

FinalizeFindVideo ==
    /\ pc[Finalize] = "start"
    /\ Goto(Finalize, FinalizeBegins(row))
    /\ UNCHANGED <<db, s3, queues, locals, budget>>

(* No rendition is READY. *)
FinalizeNoRendition ==
    /\ pc[Finalize] = "no_rendition"
    /\ row' = [row EXCEPT !.status = "failed"]
    /\ Goto(Finalize, "fatal")
    /\ UNCHANGED <<rend, history, s3, queues, locals, budget>>

(* StoryboardService.generate: ffmpeg reads the lowest rendition back from   *)
(* S3, the sheets are uploaded, the row is updated.  An error is only logged. *)
Lowest(rungs) == CHOOSE r \in rungs : \A other \in rungs : r <= other

FinalizeSheets ==
    /\ pc[Finalize] = "sheets"
    /\ IF Lowest(ready[Finalize]) \in s3.segments
       THEN /\ s3' = [s3 EXCEPT !.storyboard = TRUE]
            /\ Goto(Finalize, "storyboard")
       ELSE Goto(Finalize, "return") /\ UNCHANGED s3
    /\ UNCHANGED <<db, queues, locals, budget>>

FinalizeStoryboard ==
    /\ pc[Finalize] = "storyboard"
    /\ row' = [row EXCEPT !.storyboard = TRUE]
    /\ Goto(Finalize, "return")
    /\ UNCHANGED <<rend, history, s3, queues, locals, budget>>

finalize ==
    \/ FinalizeFindVideo \/ FinalizeNoRendition \/ FinalizeSheets \/ FinalizeStoryboard
    \/ publish(Finalize, "no_rendition", "sheets")

FinalizeFails ==
    /\ Faulty
    /\ \/ /\ pc[Finalize] \in {"start", "no_rendition"} \cup Publishing
          /\ Goto(Finalize, "throw")
       \/ /\ pc[Finalize] \in {"sheets", "storyboard"}
          /\ Goto(Finalize, "return")
    /\ UNCHANGED <<db, s3, queues, locals>>
=============================================================================
