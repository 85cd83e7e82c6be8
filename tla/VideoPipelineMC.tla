---------------------------- MODULE VideoPipelineMC ----------------------------
EXTENDS VideoPipeline

Nobody == {}
AnyVerdict == {"approved", "needs_review", "rejected", "quarantined"}
Clean == {"approved"}
OneBlocking == {"approved", "needs_review", "rejected"}
CleanOrBad == {"approved", "rejected"}
AnyThumbnail == {"none", "index", "custom"}
NoThumbnail == {"none"}

(* An admin acts on a video whose upload has been accepted: what the review *)
(* queue shows has been through the pipeline.  Bounds the runs that use it. *)
AdminsActAfterUpload ==
    \A p \in Admins : pc[p] # "idle" => \A c \in Completes : pc[c] = "done"

(* An admin approves once a ladder is over; the analysis of the frames may   *)
(* still be under way.  Bounds the run that uses it.                         *)
ApprovalsComeLate ==
    \A p \in Approvals : pc[p] = "idle" /\ pc'[p] # "idle" =>
        /\ \A c \in Completes : pc[c] = "done"
        /\ \A j \in Jobs \ {ModerateVideo} : jobs[j].state \in {"none", "failed"}

(* What rejects before the upload is accepted only refuses it, and the        *)
(* analysis of the frames, which touches nothing the flow reads, runs when    *)
(* the ladder is over.  Bounds the run that uses it.                          *)
FailuresHitTheFlow ==
    /\ faults' # faults => \A c \in Completes : pc[c] = "done"
    /\ jobs[ModerateVideo].state = "waiting" /\ jobs'[ModerateVideo].state = "active" =>
         \A j \in Jobs \ {ModerateVideo} : jobs[j].state \notin {"waiting", "active"}

(* An edit meets an approval, with failures, or an upload, without.  Bounds  *)
(* the run that uses it.                                                     *)
EditScenarios ==
    LET sent == {p \in Requests : pc[p] # "idle"} IN
    \/ sent \subseteq Edits \cup Approvals
    \/ faults = 0 /\ sent \subseteq Completes \cup Edits
=============================================================================
