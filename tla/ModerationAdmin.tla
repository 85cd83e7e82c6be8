----------------------------- MODULE ModerationAdmin -----------------------------
(***************************************************************************)
(* ModerationAdminService: approve and reject.  Neither looks at the       *)
(* status before it decides; approve remembers whether the video was       *)
(* blocked, and if so sends it through the pipeline again, its media being *)
(* gone.                                                                   *)
(***************************************************************************)
EXTENDS ModerationActions

AdminFind(p) ==
    /\ pc[p] = "idle"
    /\ decision' = [decision EXCEPT ![p] =
         [source     |-> "admin",
          status     |-> IF p \in Approvals THEN "approved" ELSE "rejected",
          wasBlocked |-> isBlockedStatus(row.moderationStatus),
          fallback   |-> FALSE]]
    /\ Goto(p, "apply")
    /\ UNCHANGED <<db, s3, queues, snap, ready, ladder, budget>>

(* After apply: reject answers, and so does approve unless it was blocked. *)
AfterApply(p) ==
    IF p \in Approvals /\ decision[p].wasBlocked THEN "reprocess" ELSE "done"

(* reprocess: every rendition, READY ones included, is to be made again. *)
ReprocessRenditions(p) ==
    /\ pc[p] = "reprocess"
    /\ rend' = [r \in Rungs |-> IF rend[r] = "none" THEN "none" ELSE "pending"]
    /\ Goto(p, "reprocess_row")
    /\ UNCHANGED <<row, history, s3, queues, locals, budget>>

ReprocessRow(p) ==
    /\ pc[p] = "reprocess_row"
    /\ row' = [row EXCEPT !.status = "uploaded",
                          !.hlsMasterKey = FALSE,
                          !.storyboard = FALSE,
                          !.thumbnailKey = "none",
                          !.variantsKey = "none"]
    /\ Goto(p, "reprocess_add")
    /\ UNCHANGED <<rend, history, s3, queues, locals, budget>>

ReprocessAdd(p) ==
    /\ pc[p] = "reprocess_add"
    /\ jobs' = Add(AnalyzeAgain(p))
    /\ Goto(p, "done")
    /\ UNCHANGED <<db, s3, waitFor, locals, budget>>

admin(p) ==
    \/ AdminFind(p) \/ apply(p, AfterApply(p))
    \/ ReprocessRenditions(p) \/ ReprocessRow(p) \/ ReprocessAdd(p)

(* An await of the request rejects and the admin gets a 500. *)
AdminFails(p) ==
    /\ Faulty
    /\ pc[p] \notin {"done", "refused"}
    /\ Goto(p, "refused")
    /\ UNCHANGED <<db, s3, queues, locals>>
=============================================================================
