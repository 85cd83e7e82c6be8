-------------------------- MODULE ModerationAnalysis --------------------------
(***************************************************************************)
(* How the analysis of one video becomes one decision: moderateVideo cuts  *)
(* the duration into chunks and stops at the first chunk that blocks,      *)
(* analyzeChunk turns what the model answers into a decision with          *)
(* decideModeration, and combineResults keeps the most severe.  Confidence *)
(* is counted in tenths.  A chunk whose sampling or model call fails makes *)
(* the attempt fail, and the next one begins with the first chunk; what    *)
(* becomes of the last attempt is in the module ModerateProcessor.         *)
(***************************************************************************)
EXTENDS ModerationPolicy, Integers, Sequences, SequencesExt

CONSTANTS
    Durations,     \* durationSeconds of the videos considered
    ChunkSeconds,  \* MODERATION_CHUNK_SECONDS
    MaxChunks,     \* MODERATION_MAX_CHUNKS
    Flags,         \* [category, confidence] the model may raise
    Contexts       \* EDSA_CONTEXTS, "none" among them

ASSUME DurationsAssumption == Durations \subseteq Nat
ASSUME ChunksAssumption == ChunkSeconds \in Nat \ {0} /\ MaxChunks \in Nat \ {0}

QuarantineConfidence == 3
ReviewConfidence     == 4
RejectConfidence     == 7

ALWAYS_BLOCK ==
    {"sexual_explicit", "graphic_violence", "real_death", "animal_cruelty",
     "self_harm_promotion", "dangerous_instructions", "violent_extremism"}

VARIABLES duration, answer, results, outcome

analysisVars == <<duration, answer, results, outcome>>

-----------------------------------------------------------------------------
(* What the model answers: a refusal or nothing, what the schema does not   *)
(* accept, or flags and a context.                                          *)

Refused  == [flags |-> {}, context |-> "refused"]
Unusable == [flags |-> {}, context |-> "unusable"]

Answers ==
    {Refused, Unusable} \cup
    [flags : {{}} \cup {{f, g} : f, g \in Flags}, context : Contexts]

(* Mutant of decideModeration: the EDSA context is read first and excuses all. *)
decideContextFirst(flags, context) ==
    CASE context # "none" /\ flags # {}                    -> "needs_review"
      [] \E f \in flags : /\ f.category = "sexual_minors"
                          /\ f.confidence >= QuarantineConfidence -> "quarantined"
      [] OTHER -> "approved"

decideModeration(flags, context) ==
    LET raised(categories, confidence) ==
          \E f \in flags : f.category \in categories /\ f.confidence >= confidence
    IN  IF raised({"sexual_minors"}, QuarantineConfidence) THEN "quarantined"
        ELSE IF raised(ALWAYS_BLOCK, RejectConfidence) /\ context = "none" THEN "rejected"
        ELSE IF \E f \in flags : f.confidence >= ReviewConfidence THEN "needs_review"
        ELSE "approved"

Decision(a) ==
    IF a \in {Refused, Unusable} THEN "needs_review" ELSE decideModeration(a.flags, a.context)

(* Mutant of combineResults: the last chunk speaks for the whole video. *)
LastChunkDecides(decisions) == Last(decisions)

(* The reduce of mostSevere: what it has come to after each decision. *)
worst(decisions) ==
    LET w[n \in 0..Len(decisions)] ==
          IF n = 0 THEN "approved" ELSE Worse(w[n - 1], decisions[n])
    IN  w

(* mostSevere of all the chunk decisions. *)
combineResults(decisions) == worst(decisions)[Len(decisions)]

-----------------------------------------------------------------------------
(* The chunk plan.  Ceiling of a / b. *)

CeilDiv(a, b) == (a + b - 1) \div b

LargerOf(a, b) == IF a >= b THEN a ELSE b

chunkSeconds(d) == LargerOf(ChunkSeconds, CeilDiv(d, MaxChunks))

(* Mutant of chunkCount: rounding down loses the tail of the video. *)
CountRoundedDown(d) == LargerOf(1, d \div chunkSeconds(d))

chunkCount(d) == LargerOf(1, CeilDiv(d, chunkSeconds(d)))

AnalysisInit ==
    /\ duration \in Durations
    /\ answer = Unusable
    /\ results = <<>>
    /\ outcome = "pending"

LoopEnds(decisions) ==
    \/ Len(decisions) >= chunkCount(duration)
    \/ decisions # <<>> /\ isBlockedStatus(Last(decisions))

AnalyzeChunk ==
    /\ outcome = "pending"
    /\ ~LoopEnds(results)
    /\ \E a \in Answers :
         /\ answer' = a
         /\ results' = Append(results, Decision(a))
    /\ UNCHANGED <<duration, outcome>>

(* ffmpeg fails, or the request to the model fails or takes too long: what   *)
(* the attempt has found out is dropped with it.                            *)
AttemptFails ==
    /\ outcome = "pending"
    /\ answer' = Unusable
    /\ results' = <<>>
    /\ UNCHANGED <<duration, outcome>>

Combine ==
    /\ outcome = "pending"
    /\ LoopEnds(results)
    /\ outcome' = combineResults(results)
    /\ UNCHANGED <<duration, answer, results>>

AnalysisNext == AnalyzeChunk \/ AttemptFails \/ Combine

AnalysisSpec == AnalysisInit /\ [][AnalysisNext]_analysisVars

-----------------------------------------------------------------------------
(* A video is approved or sent to review only after every second of it was  *)
(* looked at: the chunks analyzed reach its end, and there are at most      *)
(* MaxChunks of them.                                                       *)
OpenOutcomeSawEverything ==
    /\ Len(results) <= MaxChunks
    /\ outcome \in {"approved", "needs_review"} =>
         Len(results) * chunkSeconds(duration) >= duration

(* The outcome is the decision of some chunk, and no chunk was judged more  *)
(* severely than the video.                                                 *)
OutcomeIsWorstChunk ==
    outcome # "pending" =>
        /\ \E i \in DOMAIN results : results[i] = outcome
        /\ \A i \in DOMAIN results : Severity[results[i]] <= Severity[outcome]

(* No context excuses a flag for sexual_minors: the chunk that raised it    *)
(* quarantines the whole video, being the last one analyzed.                *)
QuarantineIsFinal ==
    (outcome # "pending"
     /\ \E f \in answer.flags : /\ f.category = "sexual_minors"
                                /\ f.confidence >= QuarantineConfidence)
        => outcome = "quarantined"
=============================================================================
