---------------------------- MODULE ModerateProcessor ----------------------------
(***************************************************************************)
(* VideoModerateProcessor.process, for the one job that looks at the       *)
(* frames and the one per edit that looks at title and description.  What  *)
(* the analysis says is any of the configured verdicts.  The last attempt  *)
(* that fails asks for a human review instead.                             *)
(***************************************************************************)
EXTENDS ModerationActions

SourceOf(j) == IF j = ModerateVideo THEN "ai_video" ELSE "ai_text"

Verdicts(j) == IF j = ModerateVideo THEN VideoVerdicts ELSE TextVerdicts

ModerateFindVideo(j) ==
    /\ pc[j] = "start"
    /\ Goto(j, IF isBlockedStatus(row.moderationStatus) THEN "return" ELSE "finish")
    /\ UNCHANGED <<db, s3, queues, locals, budget>>

(* Mutant of decide: a clean text alone approves the video. *)
TextDecides(source, current, verdict) == mergeModeration(current, verdict)

(* A clean text does not approve a video whose frames nobody has seen. *)
decide(source, current, verdict) ==
    LET merged == mergeModeration(current, verdict)
    IN  IF source = "ai_text" /\ current = "pending" /\ merged = "approved"
        THEN "pending" ELSE merged

(* finish reads the latest status and decides what to apply. *)
FinishWith(j, verdict) ==
    /\ decision' = [decision EXCEPT ![j].source = SourceOf(j),
                                    ![j].status = decide(SourceOf(j), row.moderationStatus,
                                                         verdict)]
    /\ Goto(j, "apply")
    /\ UNCHANGED <<db, s3, queues, snap, ready, ladder, budget>>

ModerateFinish(j) ==
    /\ pc[j] = "finish"
    /\ \E verdict \in IF decision[j].fallback THEN {"needs_review"} ELSE Verdicts(j) :
         FinishWith(j, verdict)

moderate(j) == ModerateFindVideo(j) \/ ModerateFinish(j) \/ apply(j, "return")

(* An error before the try block, on an attempt that is not the last, or in *)
(* the catch goes to BullMQ; otherwise finish runs with needs_review.       *)
ModerateFails(j) ==
    /\ Faulty
    /\ pc[j] \notin {"idle", "return", "throw"}
    /\ IF pc[j] = "start" \/ ~LastAttempt(j) \/ decision[j].fallback
       THEN Goto(j, "throw") /\ UNCHANGED decision
       ELSE /\ decision' = [decision EXCEPT ![j] = [NoDecision EXCEPT !.fallback = TRUE]]
            /\ Goto(j, "finish")
    /\ UNCHANGED <<db, s3, queues, snap, ready, ladder>>
=============================================================================
