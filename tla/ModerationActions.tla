---------------------------- MODULE ModerationActions ----------------------------
(***************************************************************************)
(* ModerationActionsService.apply, run by the moderation jobs and by the   *)
(* admin's requests: record the decision, write it to the row, and when it *)
(* blocks the video remove what the public could fetch.  Four awaits.      *)
(***************************************************************************)
EXTENDS VideoData

(* Mutant of Entries: blocking decisions are not recorded. *)
OpenEntries(made) ==
    IF isBlockedStatus(made.status) THEN {} ELSE {<<made.source, made.status>>}

Entries(made) == {<<made.source, made.status>>}

ApplyHistory(p) ==
    /\ pc[p] = "apply"
    /\ history' = history \cup Entries(decision[p])
    /\ Goto(p, "apply_row")
    /\ UNCHANGED <<row, rend, s3, queues, locals, budget>>

ApplyRow(p, next) ==
    /\ pc[p] = "apply_row"
    /\ row' = [row EXCEPT !.moderationStatus = decision[p].status]
    /\ Goto(p, IF isBlockedStatus(decision[p].status) THEN "remove_hls" ELSE next)
    /\ UNCHANGED <<rend, history, s3, queues, locals, budget>>

(* removePublicMedia: hls/<publicId>/, then thumbnails/<publicId>/. *)
RemoveHls(p) ==
    /\ pc[p] = "remove_hls"
    /\ s3' = deleteHls(s3)
    /\ Goto(p, "remove_thumbnails")
    /\ UNCHANGED <<db, queues, locals, budget>>

RemoveThumbnails(p, next) ==
    /\ pc[p] = "remove_thumbnails"
    /\ s3' = deleteThumbnails(s3)
    /\ Goto(p, next)
    /\ UNCHANGED <<db, queues, locals, budget>>

apply(p, next) ==
    ApplyHistory(p) \/ ApplyRow(p, next) \/ RemoveHls(p) \/ RemoveThumbnails(p, next)

Applying == {"apply", "apply_row", "remove_hls", "remove_thumbnails"}
=============================================================================
