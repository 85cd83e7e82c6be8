-------------------------- MODULE ModerationPolicy --------------------------
(***************************************************************************)
(* The pure moderation rules of moderation.policy.util.ts: how severe a    *)
(* status is, which statuses take a video off the site, and how a new      *)
(* decision is merged with the one the video row already carries.  The     *)
(* free-text reason that travels with a status never influences a rule and *)
(* is left out.                                                            *)
(***************************************************************************)
EXTENDS Naturals

ModerationStatus ==
    {"pending", "approved", "needs_review", "rejected", "quarantined"}

ModerationSource == {"ai_video", "ai_text", "admin"}

Severity == [pending      |-> 0,
             approved     |-> 1,
             needs_review |-> 2,
             rejected     |-> 3,
             quarantined  |-> 4]

isBlockedStatus(status) == status \in {"rejected", "quarantined"}

(* One step of the reduce in mostSevere: the earlier decision wins a tie. *)
Worse(worst, decision) ==
    IF Severity[decision] > Severity[worst] THEN decision ELSE worst

(* mostSevere of the two-element list mergeModeration builds; the reduce    *)
(* starts from APPROVED, so it never returns "pending".                     *)
mostSevere(current, next) == Worse(Worse("approved", current), next)

mergeModeration(current, next) ==
    IF current = "pending" THEN next ELSE mostSevere(current, next)
=============================================================================
